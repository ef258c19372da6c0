--------------------------- MODULE WriterLeaseProofs ---------------------------
(***************************************************************************)
(* For any number of supervisors and of recoveries: two process trees      *)
(* write at once only after somebody else removed the lease of one of them.*)
(* The invariant says that a tree, its orphaned child included, keeps the  *)
(* directory its supervisor made, until it is robbed.                      *)
(***************************************************************************)
EXTENDS WriterLease, TLAPS

\* A child belongs to a supervisor that runs it, or ran it.
Carried == \A s \in Supervisors : child[s] # "none" => pc[s] \in Running \cup {"failing", "gone"}

\* A tree keeps its directory until it is robbed.
Stands == \A s \in Supervisors \ robbed : Lives(s) => lease.dir = s

IInv == TypeOK /\ Carried /\ Stands

LEMMA LeaseInit == Init => IInv
BY NobodyAssumption
   DEF Init, IInv, TypeOK, Carried, Stands, Lives, Alive, NoLease, NoProof, Token, Running, Working

\* A step of supervisor s that leaves the directory where it is.
LEMMA Supervised ==
  ASSUME IInv, NEW s \in Supervisors,
         NEW p \in Working \cup {"gone"},
         Goto(s, p), UNCHANGED <<rec, robbed>>,
         pc[s] \notin {"off", "gone"}, lease'.dir = lease.dir,
         lease' \in [dir : Token, owner : Token, beat : Token], lease'.dir = Nobody => lease' = NoLease,
         \/ child' = child /\ (child[s] = "none" \/ p \in Running \cup {"failing", "gone"})
         \/ p \in Running /\ child' = [child EXCEPT ![s] = "spawned"]
  PROVE  IInv'
<1>1. TypeOK'
  BY DEF IInv, TypeOK, Goto, Running, Working
<1>2. /\ pc'[s] = p
      /\ \A t \in Supervisors \ {s} : pc'[t] = pc[t] /\ child'[t] = child[t]
  BY DEF IInv, TypeOK, Goto
<1>3. child'[s] # "none" => p \in Running \cup {"failing", "gone"}
  BY DEF IInv, TypeOK
<1>4. Carried'
  BY <1>2, <1>3 DEF IInv, Carried
<1>5. Stands'
  BY <1>2 DEF IInv, Stands, Lives, Alive
<1> QED
  BY <1>1, <1>4, <1>5 DEF IInv

\* A directory that disappears robs the trees of others, and not its remover.
LEMMA RemovedStands ==
  ASSUME IInv, NEW by \in Token, Removed(by), UNCHANGED child,
         \A s \in Supervisors : Lives(s)' => Lives(s) /\ s # by
  PROVE  Stands'
<1>1. ASSUME NEW s \in Supervisors, s \notin robbed', Lives(s)'
      PROVE  FALSE
  <2>1. s \notin robbed /\ Lives(s) /\ s # by
    BY <1>1 DEF Removed
  <2>2. lease.dir = s
    BY <2>1 DEF IInv, Stands
  <2> QED
    BY <1>1, <2>1, <2>2 DEF Removed
<1> QED
  BY <1>1 DEF Stands

LEMMA SuperviseKeeps == ASSUME IInv, NEW s \in Supervisors, Supervise(s) PROVE IInv'
<1> USE NobodyAssumption
<1> USE DEF Running, Working
<1>1. CASE Mkdir(s)
  <2>1. child[s] = "none"
    BY <1>1 DEF Mkdir, IInv, TypeOK, Carried
  <2>2. CASE lease.dir = Nobody
    <3>1. lease' = [NoLease EXCEPT !.dir = s] /\ Goto(s, "made") /\ UNCHANGED <<child, rec, robbed>>
      BY <1>1, <2>2 DEF Mkdir
    <3>2. TypeOK' /\ lease'.dir = s
      BY <3>1 DEF IInv, TypeOK, NoLease, Token, Goto
    <3>3. \A t \in Supervisors \ {s} : pc'[t] = pc[t]
      BY <3>1 DEF IInv, TypeOK, Goto
    <3>4. \A t \in Supervisors \ robbed : ~Lives(t)
      BY <2>2 DEF IInv, Stands
    <3>5. Stands'
      BY <3>1, <3>2, <3>3, <3>4 DEF Stands, Lives, Alive
    <3>6. Carried'
      BY <2>1, <3>1, <3>3 DEF IInv, Carried
    <3> QED
      BY <3>2, <3>5, <3>6 DEF IInv
  <2>3. CASE lease.dir # Nobody
    <3>1. Goto(s, "gone") /\ UNCHANGED <<child, lease, rec, robbed>>
      BY <1>1, <2>3 DEF Mkdir
    <3>2. TypeOK'
      BY <3>1 DEF IInv, TypeOK, Goto
    <3>3. pc'[s] = "gone" /\ \A t \in Supervisors \ {s} : pc'[t] = pc[t]
      BY <3>1 DEF IInv, TypeOK, Goto
    <3>4. Stands' /\ Carried'
      BY <2>1, <3>1, <3>3 DEF IInv, Stands, Carried, Lives, Alive
    <3> QED
      BY <3>2, <3>4 DEF IInv
  <2> QED
    BY <2>2, <2>3
<1>2. CASE WriteOwner(s)
  <2>1. lease' \in [dir : Token, owner : Token, beat : Token] /\ lease'.dir = lease.dir /\ lease.dir # Nobody
    BY <1>2 DEF WriteOwner, IInv, TypeOK, Token
  <2>2. child[s] = "none" /\ UNCHANGED <<child, rec, robbed>> /\ Goto(s, "named") /\ pc[s] = "made"
    BY <1>2 DEF WriteOwner, IInv, Carried
  <2> QED
    BY <2>1, <2>2, Supervised
<1>3. CASE WriteBeat(s)
  <2>1. lease' \in [dir : Token, owner : Token, beat : Token] /\ lease'.dir = lease.dir /\ lease.dir # Nobody
    BY <1>3 DEF WriteBeat, IInv, TypeOK, Token
  <2>2. child[s] = "none" /\ UNCHANGED <<child, rec, robbed>> /\ Goto(s, "ready") /\ pc[s] = "named"
    BY <1>3 DEF WriteBeat, IInv, Carried
  <2> QED
    BY <2>1, <2>2, Supervised
<1>4. ASSUME pc[s] \in {"emptied", "leaving"}, Goto(s, "gone"), Removed(s), UNCHANGED <<child, rec>>
      PROVE  IInv'
  <2>1. TypeOK'
    BY <1>4 DEF IInv, TypeOK, Removed, NoLease, Goto, Token
  <2>2. pc'[s] = "gone" /\ \A t \in Supervisors \ {s} : pc'[t] = pc[t]
    BY <1>4 DEF IInv, TypeOK, Goto
  <2>3. child[s] = "none"
    BY <1>4 DEF IInv, Carried
  <2>4. \A t \in Supervisors : Lives(t)' => Lives(t) /\ t # s
    BY <1>4, <2>2, <2>3 DEF Lives, Alive
  <2>5. Stands'
    BY <1>4, <2>4, RemovedStands DEF Token
  <2>6. Carried'
    BY <1>4, <2>2, <2>3 DEF IInv, Carried
  <2> QED
    BY <2>1, <2>5, <2>6 DEF IInv
<1>5. ASSUME NEW p \in Working \cup {"gone"},
             Goto(s, p), UNCHANGED <<lease, rec, robbed>>, pc[s] \notin {"off", "gone"},
             \/ child' = child /\ (child[s] = "none" \/ p \in {"failing", "gone"})
             \/ p \in Running /\ child' = [child EXCEPT ![s] = "spawned"]
      PROVE  IInv'
  <2>1. lease' \in [dir : Token, owner : Token, beat : Token] /\ (lease'.dir = Nobody => lease' = NoLease)
    BY <1>5 DEF IInv, TypeOK
  <2> QED
    BY <1>5, <2>1, Supervised
<1>6. CASE AcquireFails(s) \/ Rmdir(s)
  BY <1>4, <1>5, <1>6 DEF AcquireFails, Rmdir, IInv, Carried
<1>13. CASE UnlinkOwner(s) \/ UnlinkBeat(s)
  <2>1. lease' \in [dir : Token, owner : Token, beat : Token] /\ lease'.dir = lease.dir
        /\ (lease'.dir = Nobody => lease' = NoLease)
    BY <1>13 DEF UnlinkOwner, UnlinkBeat, IInv, TypeOK, Token, NoLease
  <2>2. PICK p \in Working : Goto(s, p)
    BY <1>13 DEF UnlinkOwner, UnlinkBeat
  <2>3. child[s] = "none" /\ UNCHANGED <<child, rec, robbed>> /\ pc[s] \notin {"off", "gone"}
    BY <1>13 DEF UnlinkOwner, UnlinkBeat, IInv, Carried
  <2> QED
    BY <2>1, <2>2, <2>3, Supervised
<1>7. CASE StartMigration(s) \/ StartServer(s)
  BY <1>5, <1>7 DEF StartMigration, StartServer
<1>8. CASE Close(s)
  BY <1>5, <1>8 DEF Close
<1>9. CASE HeartbeatFails(s) \/ HeartbeatLost(s) \/ Retain(s)
  BY <1>5, <1>9 DEF HeartbeatFails, HeartbeatLost, Retain
<1>10. CASE FinalBeat(s) \/ Authorize(s) \/ OpenOwn(s) \/ Checkpoint(s) \/ CloseFails(s)
  BY <1>5, <1>10 DEF FinalBeat, Authorize, OpenOwn, Checkpoint, CloseFails, IInv, Carried
<1>11. CASE Release(s)
  BY <1>4, <1>5, <1>11 DEF Release, IInv, Carried
<1>12. CASE Crash(s)
  BY <1>5, <1>12 DEF Crash, Alive
<1> QED
  BY <1>1, <1>2, <1>3, <1>6, <1>7, <1>8, <1>9, <1>10, <1>11, <1>12, <1>13 DEF Supervise

LEMMA AttendKeeps == ASSUME IInv, NEW s \in Supervisors, Attend(s) PROVE IInv'
<1>1. PICK c \in {"none", "checked", "open"} : child' = [child EXCEPT ![s] = c]
  BY DEF Attend, ChildCheck, ChildOpen, ChildExit
<1>2. UNCHANGED <<pc, lease, rec, robbed>> /\ child[s] # "none"
  BY DEF Attend, ChildCheck, ChildOpen, ChildExit
<1>3. TypeOK'
  BY <1>1, <1>2 DEF IInv, TypeOK
<1>4. \A t \in Supervisors : child'[t] # "none" => child[t] # "none"
  BY <1>1, <1>2 DEF IInv, TypeOK
<1>5. Carried' /\ Stands'
  BY <1>2, <1>4 DEF IInv, Carried, Stands, Lives, Alive
<1> QED
  BY <1>3, <1>5 DEF IInv

LEMMA RecoverKeeps == ASSUME IInv, NEW r \in Recoverers, Recover(r) PROVE IInv'
<1>1. CASE Remove(r)
  <2>1. Removed(Nobody) /\ UNCHANGED <<pc, child>> /\ rec' = [rec EXCEPT ![r] = NoProof]
    BY <1>1 DEF Remove
  <2>2. TypeOK'
    BY <2>1 DEF IInv, TypeOK, Removed, NoLease, NoProof, Token
  <2>3. \A s \in Supervisors : Lives(s)' => Lives(s) /\ s # Nobody
    BY <2>1, NobodyAssumption DEF Lives, Alive
  <2>4. Stands'
    BY <2>1, <2>3, RemovedStands DEF Token
  <2>5. Carried'
    BY <2>1 DEF IInv, Carried
  <2> QED
    BY <2>2, <2>4, <2>5 DEF IInv
<1>2. CASE ~Remove(r)
  <2>1. PICK p \in {"idle", "inspected", "dead", "closed"}, of \in Token : Prove(r, p, of)
    <3>1. lease.owner \in Token /\ rec[r].of \in Token /\ Nobody \in Token
      BY DEF IInv, TypeOK, Token
    <3> QED
      BY <1>2, <3>1 DEF Recover, Inspect, ProveDead, ProveClosed, Refuse
  <2>2. TypeOK'
    BY <2>1 DEF Prove, IInv, TypeOK
  <2>3. Carried' /\ Stands'
    BY <2>1 DEF Prove, IInv, Carried, Stands, Lives, Alive
  <2> QED
    BY <2>2, <2>3 DEF IInv
<1> QED
  BY <1>1, <1>2

LEMMA LeaseStep == IInv /\ [Next]_vars => IInv'
<1> SUFFICES ASSUME IInv, [Next]_vars PROVE IInv'
  OBVIOUS
<1>1. CASE Next
  BY <1>1, SuperviseKeeps, AttendKeeps, RecoverKeeps DEF Next
<1>2. CASE UNCHANGED vars
  BY <1>2 DEF vars, IInv, TypeOK, Carried, Stands, Lives, Alive
<1> QED
  BY <1>1, <1>2

\* The records and the processes keep their types.
THEOREM LeaseTyped == Spec => []TypeOK
<1>1. IInv => TypeOK
  BY DEF IInv
<1> QED
  BY <1>1, LeaseInit, LeaseStep, PTL DEF Spec

\* Two trees write at once only if one of them has been robbed of its lease.
THEOREM LeaseExcludes == Spec => []OverlapNeedsTheft
<1>1. ASSUME IInv PROVE OverlapNeedsTheft
  <2>1. \A s \in Supervisors : Writing(s) => Lives(s)
    BY DEF Writing, Lives, Alive
  <2> QED
    BY <1>1, <2>1 DEF IInv, Stands, OverlapNeedsTheft
<1>2. IInv => OverlapNeedsTheft
  BY <1>1
<1> QED
  BY <1>2, LeaseInit, LeaseStep, PTL DEF Spec

===============================================================================
