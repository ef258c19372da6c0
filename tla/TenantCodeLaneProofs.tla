------------------------ MODULE TenantCodeLaneProofs ------------------------
(***************************************************************************)
(* Theorems about TenantCode, continued: the package of the live version   *)
(* is kept, the tenant comes to rest on its live version, an operation     *)
(* that answers success tells the truth and one that reports a restoration *)
(* has restored.                                                           *)
(*                                                                         *)
(* Two accounts are needed.  While leases last at most one operation is at *)
(* work and one can say at each of its points what the lane is (AloneInv). *)
(* After a lapse uploads and rollbacks overlap, and one can only say who   *)
(* owns a package directory and who has still to swap (OverlapInv).        *)
(***************************************************************************)
EXTENDS TenantCodeProofs

-----------------------------------------------------------------------------
(* What a step does to the records of the operations, field by field. *)

Others(o) == \A q \in Ops : q # o => op'[q] = op[q]
SameGoal(o) ==
    /\ op'[o].kind = op[o].kind /\ op'[o].v = op[o].v /\ op'[o].prev = op[o].prev
    /\ op'[o].home = op[o].home

\* Only the point and the result of o change.
Plain(o) ==
    /\ Others(o) /\ SameGoal(o)
    /\ op'[o].before = op[o].before /\ op'[o].mutated = op[o].mutated
    /\ op'[o].back = op[o].back /\ op'[o].bad = op[o].bad
    /\ op'[o].sole = op[o].sole /\ op'[o].sel = op[o].sel
To(o, p) == op'[o].pc = p /\ op'[o].result = op[o].result
Ends(o, x) == op'[o].pc = "done" /\ op'[o].result = x

LEMMA StepFlat ==
  ASSUME TypeOK, NEW o \in Ops, NEW p, Step(o, p)
  PROVE  Plain(o) /\ To(o, p)
  BY DEF TypeOK, OpType, Step, Plain, To, Others, SameGoal

LEMMA FinishFlat ==
  ASSUME TypeOK, NEW o \in Ops, NEW x, Finish(o, x)
  PROVE  Plain(o) /\ Ends(o, x)
  BY DEF TypeOK, OpType, Finish, Plain, Ends, Others, SameGoal

LEMMA FailsFlat ==
  ASSUME TypeOK, NEW o \in Ops, Fails(o)
  PROVE  /\ Plain(o)
         /\ IF op[o].back THEN Ends(o, "broken") ELSE To(o, "undo")
  BY StepFlat, FinishFlat DEF Fails

LEMMA ContinueFlat ==
  ASSUME TypeOK, NEW o \in Ops, NEW p, Continue(o, p)
  PROVE  /\ Plain(o)
         /\ \/ To(o, p)
            \/ ~op[o].back /\ To(o, "undo")
            \/ op[o].back /\ Ends(o, "broken")
  BY StepFlat, FinishFlat DEF Continue

LEMMA CommitUploadFlat ==
  ASSUME TypeOK, NEW o \in Ops, CommitUpload(o)
  PROVE  /\ Others(o) /\ SameGoal(o) /\ To(o, "rereg")
         /\ op'[o].before = rows /\ op'[o].mutated /\ op'[o].back = op[o].back
         /\ op'[o].bad = op[o].bad /\ op'[o].sel = op[o].sel
  BY DEF TypeOK, OpType, CommitUpload, To, Others, SameGoal

LEMMA CommitRollbackFlat ==
  ASSUME TypeOK, NEW o \in Ops, CommitRollback(o)
  PROVE  /\ Others(o) /\ SameGoal(o) /\ To(o, "rereg")
         /\ op'[o].before = op[o].before /\ op'[o].mutated /\ op'[o].back = op[o].back
         /\ op'[o].bad = op[o].bad /\ op'[o].sel = op[o].sel
  BY DEF TypeOK, OpType, CommitRollback, To, Others, SameGoal

LEMMA ResolveFlat ==
  ASSUME TypeOK, NEW o \in Ops, NEW s, Resolve(o, s)
  PROVE  /\ Others(o) /\ SameGoal(o) /\ To(o, "swap")
         /\ op'[o].before = op[o].before /\ op'[o].mutated = op[o].mutated
         /\ op'[o].back = op[o].back /\ op'[o].bad = op[o].bad /\ op'[o].sel = s
  BY DEF TypeOK, OpType, Resolve, To, Others, SameGoal

\* The two compensations that write the lane back and go on.
LEMMA BackFlat ==
  ASSUME TypeOK, NEW o \in Ops, NEW p,
         op' = [op EXCEPT ![o].pc = p, ![o].back = TRUE]
  PROVE  /\ Others(o) /\ SameGoal(o) /\ To(o, p)
         /\ op'[o].before = op[o].before /\ op'[o].mutated = op[o].mutated
         /\ op'[o].back = TRUE /\ op'[o].bad = op[o].bad /\ op'[o].sel = op[o].sel
  BY DEF TypeOK, OpType, To, Others, SameGoal

LEMMA BackBadFlat ==
  ASSUME TypeOK, NEW o \in Ops, NEW p,
         op' = [op EXCEPT ![o].pc = p, ![o].back = TRUE, ![o].bad = TRUE]
  PROVE  /\ Others(o) /\ SameGoal(o) /\ To(o, p)
         /\ op'[o].before = op[o].before /\ op'[o].mutated = op[o].mutated
         /\ op'[o].back = TRUE /\ op'[o].bad = TRUE /\ op'[o].sel = op[o].sel
  BY DEF TypeOK, OpType, To, Others, SameGoal

LEMMA CheckFlat ==
  ASSUME TypeOK, NEW o \in Ops, NEW b,
         op' = [op EXCEPT ![o].pc = "rename", ![o].sole = b]
  PROVE  /\ Others(o) /\ SameGoal(o) /\ To(o, "rename")
         /\ op'[o].before = op[o].before /\ op'[o].mutated = op[o].mutated
         /\ op'[o].back = op[o].back /\ op'[o].bad = op[o].bad /\ op'[o].sole = b
  BY DEF TypeOK, OpType, To, Others, SameGoal

LEMMA DropFlat ==
  ASSUME TypeOK, NEW o \in Ops,
         op' = [op EXCEPT ![o].pc = "rereg", ![o].mutated = TRUE]
  PROVE  /\ Others(o) /\ SameGoal(o) /\ To(o, "rereg")
         /\ op'[o].before = op[o].before /\ op'[o].mutated = TRUE
         /\ op'[o].back = op[o].back /\ op'[o].bad = op[o].bad /\ op'[o].sel = op[o].sel
  BY DEF TypeOK, OpType, To, Others, SameGoal

LEMMA BadFlat ==
  ASSUME TypeOK, NEW o \in Ops, NEW b,
         op' = [op EXCEPT ![o].pc = "reinsert", ![o].bad = b]
  PROVE  /\ Others(o) /\ SameGoal(o) /\ To(o, "reinsert")
         /\ op'[o].before = op[o].before /\ op'[o].mutated = op[o].mutated
         /\ op'[o].back = op[o].back /\ op'[o].bad = b /\ op'[o].sel = op[o].sel
  BY DEF TypeOK, OpType, To, Others, SameGoal

LEMMA StartFlat ==
  ASSUME TypeOK, NEW o \in Ops, NEW k, NEW p, NEW v, NEW w, NEW lane, NEW h,
         op' = [op EXCEPT ![o] = [Begun(k, p, v, w, lane) EXCEPT !.home = h]]
  PROVE  /\ Others(o) /\ op'[o].kind = k /\ op'[o].pc = p /\ op'[o].v = v
         /\ op'[o].prev = w /\ op'[o].home = h /\ op'[o].before = lane
         /\ op'[o].mutated = FALSE /\ op'[o].back = FALSE /\ op'[o].bad = FALSE
         /\ op'[o].result = "none"
  BY DEF TypeOK, Begun, Others

LEMMA RestartFlat ==
  ASSUME TypeOK, Restart, NEW o \in Ops
  PROVE  /\ SameGoal(o) /\ op'[o].before = op[o].before
         /\ op'[o].mutated = op[o].mutated /\ op'[o].back = op[o].back
         /\ op'[o].bad = op[o].bad /\ op'[o].sel = op[o].sel
         /\ IF InFlight(o) THEN Ends(o, "died") ELSE op'[o] = op[o]
  BY DEF TypeOK, OpType, Restart, SameGoal, Ends

LEMMA BeginFlat ==
  ASSUME TypeOK, NEW o \in Ops, NEW k, NEW p, NEW v, NEW w, NEW lane,
         op' = [op EXCEPT ![o] = Begun(k, p, v, w, lane)]
  PROVE  /\ Others(o) /\ op'[o].kind = k /\ op'[o].pc = p /\ op'[o].v = v
         /\ op'[o].prev = w /\ op'[o].home = Free /\ op'[o].before = lane
         /\ op'[o].mutated = FALSE /\ op'[o].back = FALSE /\ op'[o].bad = FALSE
         /\ op'[o].result = "none"
  BY DEF TypeOK, Begun, Others

-----------------------------------------------------------------------------
(* What holds of the records however operations overlap. *)

\* The points only one kind reaches, and what an operation there has not done.
RecordOK(r) ==
    /\ r.pc # "done" => r.result = "none"
    /\ r.pc = "new" => r.kind = "upload" /\ ~r.mutated
    /\ r.pc \in {"stage", "commit"} => r.kind = "upload" /\ ~r.mutated
    /\ r.pc \in {"unstage", "rmdir"} => r.kind = "upload"
    /\ r.pc = "load" => r.kind = "rollback"
    /\ r.pc = "verify" => r.kind = "rollback"
    /\ r.pc \in {"check", "rename", "drop", "purge", "reinsert"} => r.kind = "remove"
    /\ r.pc = "rmdir" => r.back
    /\ r.pc \in {"new", "stage", "commit", "unstage", "load", "check", "rename",
                "drop", "purge", "undo", "reinsert"} => ~r.back
    /\ r.kind = "rollback" => Known(r.before[r.v])
    /\ r.kind = "remove" => r.home # Free
RecordsInv == \A o \in Ops : RecordOK(op[o])

\* A package in quarantine is that of a removal that has begun.
AsideInv == \A o \in aside : op[o].kind = "remove" /\ ~At(o, "new")

LEMMA UploadRecord ==
  ASSUME TypeOK, NEW o \in Ops, RecordOK(op[o]), Upload(o)
  PROVE  Others(o) /\ RecordOK(op'[o])
  <1>1. CASE Stage(o)
    <2>1. Plain(o) /\ To(o, "commit")
      BY <1>1, StepFlat DEF Stage
    <2> QED BY <1>1, <2>1 DEF Stage, At, To, Plain, SameGoal, RecordOK
  <1>2. CASE \E x : Finish(o, x)
    <2>1. PICK x : Finish(o, x)
      BY <1>2
    <2>2. Plain(o) /\ Ends(o, x)
      BY <2>1, FinishFlat
    <2> QED BY <2>2 DEF Ends, Plain, SameGoal, RecordOK
  <1>3. CASE CommitUpload(o)
    <2>1. /\ Others(o) /\ SameGoal(o) /\ To(o, "rereg")
          /\ op'[o].mutated /\ op'[o].back = op[o].back
      BY <1>3, CommitUploadFlat
    <2> QED BY <1>3, <2>1 DEF CommitUpload, At, To, SameGoal, RecordOK
  <1>4. CASE CommitUploadFails(o)
    <2>1. Plain(o) /\ To(o, "unstage")
      BY <1>4, StepFlat DEF CommitUploadFails
    <2> QED BY <1>4, <2>1 DEF CommitUploadFails, At, To, Plain, SameGoal, RecordOK
  <1>5. CASE UndoUpload(o)
    <2>1. /\ Others(o) /\ SameGoal(o) /\ To(o, "rmdir")
          /\ op'[o].mutated = op[o].mutated /\ op'[o].back = TRUE
      BY <1>5, BackFlat DEF UndoUpload
    <2> QED BY <1>5, <2>1 DEF UndoUpload, At, To, SameGoal, RecordOK
  <1>6. CASE RemoveStaged(o) /\ Step(o, "rereg")
    <2>1. Plain(o) /\ To(o, "rereg")
      BY <1>6, StepFlat
    <2> QED BY <1>6, <2>1 DEF RemoveStaged, At, To, Plain, SameGoal, RecordOK
  <1> QED BY <1>1, <1>2, <1>3, <1>4, <1>5, <1>6 DEF Upload, StageFails, Unstage,
                                                  UndoUploadFails, RemoveStaged

LEMMA RollbackRecord ==
  ASSUME TypeOK, NEW o \in Ops, RecordOK(op[o]), Rollback(o)
  PROVE  Others(o) /\ RecordOK(op'[o])
  <1>1. CASE \E x : Finish(o, x)
    <2>1. PICK x : Finish(o, x)
      BY <1>1
    <2>2. Plain(o) /\ Ends(o, x)
      BY <2>1, FinishFlat
    <2> QED BY <2>2 DEF Ends, Plain, SameGoal, RecordOK
  <1>2. CASE CommitRollback(o)
    <2>1. /\ Others(o) /\ SameGoal(o) /\ To(o, "rereg")
          /\ op'[o].before = op[o].before /\ op'[o].back = op[o].back
      BY <1>2, CommitRollbackFlat
    <2> QED BY <1>2, <2>1 DEF CommitRollback, At, To, SameGoal, RecordOK
  <1>3. CASE RestoreLane(o) /\ op' = [op EXCEPT ![o].pc = "rereg", ![o].back = TRUE]
    <2>1. /\ Others(o) /\ SameGoal(o) /\ To(o, "rereg")
          /\ op'[o].before = op[o].before /\ op'[o].back = TRUE
      BY <1>3, BackFlat
    <2> QED BY <1>3, <2>1 DEF RestoreLane, At, To, SameGoal, RecordOK
  <1> QED BY <1>1, <1>2, <1>3 DEF Rollback, RollbackRefused, RestoreLane

LEMMA RemoveRecord ==
  ASSUME TypeOK, NEW o \in Ops, RecordOK(op[o]), Remove(o)
  PROVE  Others(o) /\ RecordOK(op'[o])
  <1>1. CASE \E x : Finish(o, x)
    <2>1. PICK x : Finish(o, x)
      BY <1>1
    <2>2. Plain(o) /\ Ends(o, x)
      BY <2>1, FinishFlat
    <2> QED BY <2>2 DEF Ends, Plain, SameGoal, RecordOK
  <1>2. CASE CheckRemove(o) /\ op' = [op EXCEPT ![o].pc = "rename", ![o].sole = Sole(o)]
    <2>1. /\ Others(o) /\ SameGoal(o) /\ To(o, "rename")
          /\ op'[o].before = op[o].before /\ op'[o].back = op[o].back
      BY <1>2, CheckFlat
    <2> QED BY <1>2, <2>1 DEF CheckRemove, At, To, SameGoal, RecordOK
  <1>3. CASE Quarantine(o) /\ \E p \in {"drop", "undo"} : Step(o, p)
    <2>1. PICK p \in {"drop", "undo"} : Step(o, p)
      BY <1>3
    <2>2. Plain(o) /\ To(o, p) /\ ~op[o].back
      BY <1>3, <2>1, StepFlat DEF Quarantine, At, RecordOK
    <2> QED BY <1>3, <2>2 DEF Quarantine, At, To, Plain, SameGoal, RecordOK
  <1>4. CASE DropRow(o) /\ op' = [op EXCEPT ![o].pc = "rereg", ![o].mutated = TRUE]
    <2>1. /\ Others(o) /\ SameGoal(o) /\ To(o, "rereg")
          /\ op'[o].before = op[o].before
      BY <1>4, DropFlat
    <2> QED BY <1>4, <2>1 DEF DropRow, At, To, SameGoal, RecordOK
  <1>5. CASE DropRow(o) /\ Step(o, "undo")
    <2>1. Plain(o) /\ To(o, "undo")
      BY <1>5, StepFlat
    <2>2. ~op[o].back
      BY <1>5 DEF DropRow, At, RecordOK
    <2> QED BY <1>5, <2>1, <2>2 DEF DropRow, At, To, Plain, SameGoal, RecordOK
  <1>6. CASE PutBack(o) /\ \E b : op' = [op EXCEPT ![o].pc = "reinsert", ![o].bad = b]
    <2>1. PICK b : op' = [op EXCEPT ![o].pc = "reinsert", ![o].bad = b]
      BY <1>6
    <2>2. /\ Others(o) /\ SameGoal(o) /\ To(o, "reinsert")
          /\ op'[o].before = op[o].before /\ op'[o].back = op[o].back
      BY <2>1, BadFlat
    <2> QED BY <1>6, <2>2 DEF PutBack, At, To, SameGoal, RecordOK
  <1>7. CASE Reinsert(o)
    <2>1. /\ Others(o) /\ SameGoal(o) /\ To(o, "rereg")
          /\ op'[o].before = op[o].before
      BY <1>7, BackFlat, BackBadFlat DEF Reinsert
    <2> QED BY <1>7, <2>1 DEF Reinsert, At, To, SameGoal, RecordOK
  <1> QED BY <1>1, <1>2, <1>3, <1>4, <1>5, <1>6, <1>7
          DEF Remove, CheckRemove, Quarantine, DropRow, Purge, PutBack

LEMMA HotSwapRecord ==
  ASSUME TypeOK, NEW o \in Ops, RecordOK(op[o]), HotSwap(o)
  PROVE  Others(o) /\ RecordOK(op'[o])
  <1>1. CASE \E s \in Versions \cup {Packaged} : Resolve(o, s)
    <2>1. /\ Others(o) /\ SameGoal(o) /\ To(o, "swap") /\ op'[o].before = op[o].before
      BY <1>1, ResolveFlat
    <2> QED BY <1>1, <2>1 DEF Resolve, At, To, SameGoal, RecordOK
  <1>2. CASE Fails(o) /\ ~At(o, "new") /\ ~At(o, "done")
    <2>1. Plain(o) /\ IF op[o].back THEN Ends(o, "broken") ELSE To(o, "undo")
      BY <1>2, FailsFlat
    <2> QED BY <1>2, <2>1 DEF At, To, Ends, Plain, SameGoal, RecordOK
  <1>3. CASE Swap(o)
    <2>1. /\ Plain(o)
          /\ \/ To(o, "sync")
             \/ ~op[o].back /\ To(o, "undo")
             \/ op[o].back /\ Ends(o, "broken")
      BY <1>3, ContinueFlat DEF Swap
    <2> QED BY <1>3, <2>1 DEF Swap, At, To, Ends, Plain, SameGoal, RecordOK
  <1>4. CASE Sync(o) \/ Verify(o)
    <2>1. CASE \E x : Finish(o, x)
      <3>1. PICK x : Finish(o, x)
        BY <2>1
      <3>2. Plain(o) /\ Ends(o, x)
        BY <3>1, FinishFlat
      <3> QED BY <3>2 DEF Ends, Plain, SameGoal, RecordOK
    <2>2. CASE /\ op[o].kind = "rollback"
               /\ Continue(o, "verify") \/ (Continue(o, "undo") /\ ~Holds(o))
      <3>1. /\ Plain(o)
            /\ \/ To(o, "verify")
               \/ ~op[o].back /\ To(o, "undo")
               \/ op[o].back /\ Ends(o, "broken")
        BY <2>2, ContinueFlat, StepFlat, FinishFlat DEF Continue
      <3> QED BY <1>4, <2>2, <3>1 DEF Sync, Verify, At, To, Ends, Plain, SameGoal, RecordOK
    <2>3. CASE op[o].kind = "remove" /\ ~op[o].back /\ Step(o, "purge")
      <3>1. Plain(o) /\ To(o, "purge")
        BY <2>3, StepFlat
      <3> QED BY <1>4, <2>3, <3>1 DEF Sync, Verify, At, To, Plain, SameGoal, RecordOK
    <2> QED BY <1>4, <2>1, <2>2, <2>3 DEF Sync, Verify, At, RecordOK
  <1> QED BY <1>1, <1>2, <1>3, <1>4
          DEF HotSwap, ResolveFails, SwapFails, SyncFails, VerifyFails, At

\* How an operation begins, and what it has read.
LEMMA StartsFlat ==
  ASSUME TypeOK, NEW o \in Ops, Start(o)
  PROVE  /\ Others(o) /\ op[o].pc = "new" /\ op'[o].result = "none"
         /\ ~op'[o].mutated /\ ~op'[o].back /\ ~op'[o].bad /\ op'[o].v \in Versions
         /\ \/ /\ op'[o].kind = "upload" /\ op'[o].pc = "stage"
                /\ op'[o].before = NoLane /\ op'[o].home = Free
                /\ op'[o].v \notin dirs /\ ~Known(rows[op'[o].v])
            \/ /\ op'[o].kind = "rollback" /\ op'[o].pc = "load"
                /\ op'[o].before = rows /\ op'[o].home = Free
                /\ rows[op'[o].v].status = "rolled_back"
            \/ /\ op'[o].kind = "remove" /\ op'[o].pc = "check"
                /\ op'[o].before = rows /\ op'[o].home = home
                /\ op'[o].v \in Live(rows) /\ Previous(op'[o].prev)
  <1>1. CASE \E v \in Versions : StartUpload(o, v)
    <2>1. PICK v \in Versions : StartUpload(o, v)
      BY <1>1
    <2>2. op' = [op EXCEPT ![o] = Begun("upload", "stage", v, Packaged, NoLane)]
      BY <2>1 DEF StartUpload
    <2>3. /\ Others(o) /\ op'[o].kind = "upload" /\ op'[o].pc = "stage" /\ op'[o].v = v
          /\ op'[o].prev = Packaged /\ op'[o].home = Free /\ op'[o].before = NoLane
          /\ op'[o].mutated = FALSE /\ op'[o].back = FALSE /\ op'[o].bad = FALSE
          /\ op'[o].result = "none"
      BY <2>2, BeginFlat
    <2> QED BY <2>1, <2>3 DEF StartUpload, At
  <1>2. CASE \E v \in Versions : StartRollback(o, v)
    <2>1. PICK v \in Versions : StartRollback(o, v)
      BY <1>2
    <2>2. op' = [op EXCEPT ![o] = Begun("rollback", "load", v, Packaged, rows)]
      BY <2>1 DEF StartRollback
    <2>3. /\ Others(o) /\ op'[o].kind = "rollback" /\ op'[o].pc = "load" /\ op'[o].v = v
          /\ op'[o].prev = Packaged /\ op'[o].home = Free /\ op'[o].before = rows
          /\ op'[o].mutated = FALSE /\ op'[o].back = FALSE /\ op'[o].bad = FALSE
          /\ op'[o].result = "none"
      BY <2>2, BeginFlat
    <2> QED BY <2>1, <2>3 DEF StartRollback, At
  <1>3. CASE \E v \in Versions, w \in Versions \cup {Packaged} : StartRemove(o, v, w)
    <2>1. PICK v \in Versions, w \in Versions \cup {Packaged} : StartRemove(o, v, w)
      BY <1>3
    <2>2. op' = [op EXCEPT ![o] = [Begun("remove", "check", v, w, rows) EXCEPT !.home = home]]
      BY <2>1 DEF StartRemove
    <2>3. /\ Others(o) /\ op'[o].kind = "remove" /\ op'[o].pc = "check" /\ op'[o].v = v
          /\ op'[o].prev = w /\ op'[o].home = home /\ op'[o].before = rows
          /\ op'[o].mutated = FALSE /\ op'[o].back = FALSE /\ op'[o].bad = FALSE
          /\ op'[o].result = "none"
      BY <2>2, StartFlat
    <2> QED BY <2>1, <2>3 DEF StartRemove, At
  <1> QED BY <1>1, <1>2, <1>3 DEF Start

\* A step outside the operations.
World == (\E o \in Ops : Renew(o)) \/ RefusedRequest \/ Lapse

LEMMA NextCases ==
  ASSUME [Next]_vars
  PROVE  \/ \E o \in Ops : Start(o) \/ Upload(o) \/ Rollback(o) \/ Remove(o) \/ HotSwap(o)
         \/ World \/ Restart \/ UNCHANGED vars
  BY DEF Next, World

Working(o) == Upload(o) \/ Rollback(o) \/ Remove(o) \/ HotSwap(o)

\* An operation at work keeps its goal and, unless it commits an upload, the
\* lane it found; it leaves the others alone.
LEMMA WorkFields ==
  ASSUME TypeOK, NEW o \in Ops, Working(o)
  PROVE  /\ Others(o) /\ SameGoal(o) /\ (op[o].mutated => op'[o].mutated)
         /\ op[o].pc \notin {"new", "done"} /\ op'[o].pc # "new"
         /\ \/ op'[o].before = op[o].before
            \/ CommitUpload(o) /\ op'[o].before = rows /\ op'[o].mutated
  <1>0. op[o].pc \notin {"new", "done"}
    BY DEF Working, Upload, Rollback, Remove, HotSwap, Stage, StageFails, CommitUpload,
           CommitUploadFails, Unstage, UndoUpload, UndoUploadFails, RemoveStaged,
           CommitRollback, RollbackRefused, RestoreLane, CheckRemove, Quarantine, DropRow, Purge, PutBack,
           Reinsert, Resolve, ResolveFails, Swap, SwapFails, Sync, SyncFails, Verify,
           VerifyFails, At
  <1>1. CASE Plain(o) /\ op'[o].pc # "new"
    BY <1>0, <1>1 DEF Plain
  <1>2. ASSUME NEW x, Finish(o, x) PROVE Plain(o) /\ op'[o].pc # "new"
    BY <1>2, FinishFlat DEF Ends
  <1>3. ASSUME NEW x, x # "new", Step(o, x) PROVE Plain(o) /\ op'[o].pc # "new"
    BY <1>3, StepFlat DEF To
  <1>4. Fails(o) => Plain(o) /\ op'[o].pc # "new"
    BY FailsFlat DEF To, Ends
  <1>5. ASSUME NEW x, x # "new", Continue(o, x) PROVE Plain(o) /\ op'[o].pc # "new"
    BY <1>5, ContinueFlat DEF To, Ends
  <1>6. CASE Upload(o)
    <2>1. CASE CommitUpload(o)
      BY <1>0, <2>1, CommitUploadFlat DEF To
    <2>2. CASE UndoUpload(o)
      <3>1. /\ Others(o) /\ SameGoal(o) /\ To(o, "rmdir") /\ op'[o].before = op[o].before
            /\ op'[o].mutated = op[o].mutated
        BY <2>2, BackFlat DEF UndoUpload
      <3> QED BY <1>0, <3>1 DEF To
    <2> QED BY <1>1, <1>2, <1>3, <1>6, <2>1, <2>2
            DEF Upload, Stage, StageFails, CommitUploadFails, Unstage, UndoUploadFails,
                RemoveStaged
  <1>7. CASE Rollback(o)
    <2>1. CASE CommitRollback(o)
      BY <1>0, <2>1, CommitRollbackFlat DEF To
    <2>2. CASE op' = [op EXCEPT ![o].pc = "rereg", ![o].back = TRUE]
      <3>1. /\ Others(o) /\ SameGoal(o) /\ To(o, "rereg") /\ op'[o].before = op[o].before
            /\ op'[o].mutated = op[o].mutated
        BY <2>2, BackFlat
      <3> QED BY <1>0, <3>1 DEF To
    <2> QED BY <1>1, <1>2, <1>7, <2>1, <2>2 DEF Rollback, RollbackRefused, RestoreLane
  <1>8. CASE Remove(o)
    <2>1. CASE op' = [op EXCEPT ![o].pc = "rereg", ![o].mutated = TRUE]
      <3>1. /\ Others(o) /\ SameGoal(o) /\ To(o, "rereg") /\ op'[o].before = op[o].before
            /\ op'[o].mutated = TRUE
        BY <2>1, DropFlat
      <3> QED BY <1>0, <3>1 DEF To
    <2>2. CASE \E b : op' = [op EXCEPT ![o].pc = "reinsert", ![o].bad = b]
      <3>1. /\ Others(o) /\ SameGoal(o) /\ To(o, "reinsert") /\ op'[o].before = op[o].before
            /\ op'[o].mutated = op[o].mutated
        BY <2>2, BadFlat
      <3> QED BY <1>0, <3>1 DEF To
    <2>3. CASE Reinsert(o)
      <3>1. /\ Others(o) /\ SameGoal(o) /\ To(o, "rereg") /\ op'[o].before = op[o].before
            /\ op'[o].mutated = op[o].mutated
        BY <2>3, BackFlat, BackBadFlat DEF Reinsert
      <3> QED BY <1>0, <3>1 DEF To
    <2>4. CASE op' = [op EXCEPT ![o].pc = "rename", ![o].sole = Sole(o)]
      <3>1. /\ Others(o) /\ SameGoal(o) /\ To(o, "rename") /\ op'[o].before = op[o].before
            /\ op'[o].mutated = op[o].mutated
        BY <2>4, CheckFlat
      <3> QED BY <1>0, <3>1 DEF To
    <2> QED BY <1>1, <1>2, <1>3, <1>8, <2>1, <2>2, <2>3, <2>4
            DEF Remove, CheckRemove, Quarantine, DropRow, Purge, PutBack
  <1>9. CASE HotSwap(o)
    <2>1. CASE \E s \in Versions \cup {Packaged} : Resolve(o, s)
      BY <1>0, <2>1, ResolveFlat DEF To
    <2> QED BY <1>1, <1>2, <1>3, <1>4, <1>5, <1>9, <2>1
            DEF HotSwap, ResolveFails, Swap, SwapFails, Sync, SyncFails, Verify, VerifyFails
  <1> QED BY <1>6, <1>7, <1>8, <1>9 DEF Working

LEMMA WorkRecords ==
  ASSUME TypeOK, NEW o \in Ops, RecordOK(op[o]), Working(o)
  PROVE  RecordOK(op'[o])
  BY UploadRecord, RollbackRecord, RemoveRecord, HotSwapRecord DEF Working

-----------------------------------------------------------------------------
(* What holds of the rows however operations overlap. *)

\* A version without a row is blank, in the lane and in what operations keep.
BlankLane(lane) == \A w \in Versions : ~Known(lane[w]) => lane[w] = NoRow
BlankInv == BlankLane(rows) /\ \A o \in Ops : BlankLane(op[o].before)

\* Rows need a workflow row.
HomeInv == home = Free => rows = NoLane

\* Only an upload that committed has left its id anywhere.
Unspent(o) == ~(op[o].kind = "upload" /\ op[o].mutated)
Traceless(o) ==
    /\ home # o
    /\ \A w \in Versions : rows[w].id # o
    /\ \A p \in Ops : op[p].home # o /\ \A w \in Versions : op[p].before[w].id # o
FreshInv == \A o \in Ops : Unspent(o) => Traceless(o)

LaneInv == RecordsInv /\ AsideInv /\ BlankInv /\ HomeInv /\ FreshInv

LEMMA InitLane == Init => LaneInv
  <1> SUFFICES ASSUME Init PROVE LaneInv
    OBVIOUS
  <1>1. \A o \in Ops : op[o] = NewOp
    BY DEF Init
  <1>2. /\ NewOp.kind = "upload" /\ NewOp.pc = "new" /\ NewOp.result = "none"
        /\ NewOp.mutated = FALSE /\ NewOp.back = FALSE /\ NewOp.home = Free
        /\ NewOp.before = NoLane
    BY DEF NewOp, Begun
  <1>3. RecordsInv /\ AsideInv
    BY <1>1, <1>2 DEF Init, RecordsInv, RecordOK, AsideInv
  <1>4. BlankInv
    BY <1>1, <1>2, HistoryAssumption DEF Init, BlankInv, BlankLane, Known, NoLane, NoRow
  <1>5. HomeInv
    BY OldAssumption DEF Init, HomeInv
  <1>6. FreshInv
    <2>1. home \in {Old, Free} /\ \A w \in Versions : rows[w].id = Old
      BY HistoryAssumption DEF Init
    <2>2. \A w \in Versions : NoLane[w].id = Old
      BY DEF NoLane, NoRow
    <2> QED BY <1>1, <1>2, <2>1, <2>2, OldAssumption, FreeAssumption DEF FreshInv, Traceless
  <1> QED BY <1>3, <1>4, <1>5, <1>6 DEF LaneInv

\* A step that is no transaction leaves the rows.
LEMMA OnlyWritesMoveRows ==
  ASSUME TypeOK, NEW o \in Ops, Working(o), ~Writes(o)
  PROVE  UNCHANGED <<rows, home>>
  BY DEF Working, Writes,
         Upload, Stage, StageFails, CommitUploadFails, Unstage, UndoUploadFails,
         RemoveStaged, Rollback, RollbackRefused, Remove, CheckRemove, Quarantine, Purge, PutBack,
         HotSwap, Resolve, ResolveFails, Swap, SwapFails, Sync, SyncFails,
         Verify, VerifyFails, laneVars

\* What writing the columns of a row leaves and sets.
LEMMA RowWrites ==
  ASSUME NEW r \in RowType, NEW x, NEW t
  PROVE  /\ [r EXCEPT !.status = x].id = r.id /\ [r EXCEPT !.status = x].status = x
         /\ [r EXCEPT !.status = x].at = r.at
         /\ [r EXCEPT !.status = x, !.at = t].id = r.id
         /\ [r EXCEPT !.status = x, !.at = t].status = x
         /\ [r EXCEPT !.status = x, !.at = t].at = t
  BY DEF RowType

\* A transaction writes rows of the lane, of the lane its operation found, and
\* an upload its own; a workflow row goes with the last of its versions.
LEMMA WritesLane ==
  ASSUME TypeOK, LaneInv, NEW o \in Ops, Writes(o)
  PROVE  /\ BlankLane(rows') /\ HomeInv'
         /\ home' \in {home, Free, op[o].home} \/ (CommitUpload(o) /\ home' = o)
         /\ \A w \in Versions :
              \/ rows'[w].id \in {rows[w].id, Old, op[o].before[w].id}
              \/ CommitUpload(o) /\ rows'[w].id = o
  <1>1. /\ rows \in [Versions -> RowType] /\ op[o].before \in [Versions -> RowType]
        /\ op[o].v \in Versions /\ op[o].prev \in Versions \cup {Packaged}
        /\ home \in Ops \cup {Old, Free}
    BY DEF TypeOK, OpType
  <1>2. BlankLane(rows) /\ BlankLane(op[o].before) /\ HomeInv /\ RecordOK(op[o])
    BY DEF LaneInv, BlankInv, RecordsInv
  <1>3. /\ NoRow.status = "none" /\ NoRow.id = Old /\ NoRow \in RowType
        /\ Demoted(NoRow) = NoRow
        /\ \A r \in RowType : /\ Demoted(r).id = r.id /\ Demoted(r).status # "live"
                              /\ Known(Demoted(r)) <=> Known(r)
                              /\ ~Known(r) => Demoted(r) = r
    BY DEF NoRow, RowType, Statuses, Demoted, Known
  <1>5. \A w \in Versions : NoLane[w] = NoRow
    BY DEF NoLane
  <1>6. ASSUME NEW lane \in [Versions -> RowType], \A w \in Versions : lane[w] = NoRow
        PROVE  lane = NoLane
    BY <1>6 DEF NoLane
  <1> HIDE DEF NoRow, RowType
  <1>7. CASE CommitUpload(o)
    <2> DEFINE r == [id |-> o, status |-> "live", at |-> clock + 1]
    <2>1. r.id = o /\ r.status = "live"
      OBVIOUS
    <2>2. rows' = [w \in Versions |-> IF w = op[o].v THEN r ELSE Demoted(rows[w])]
          /\ home' = IF home = Free THEN o ELSE home
      BY <1>7 DEF CommitUpload
    <2> HIDE DEF r
    <2>3. BlankLane(rows')
      BY <1>1, <1>2, <1>3, <2>1, <2>2 DEF BlankLane, Known
    <2>4. home' # Free
      BY <2>2, FreeAssumption
    <2> QED BY <1>1, <1>3, <1>7, <2>1, <2>2, <2>3, <2>4 DEF HomeInv
  <1>8. CASE UndoUpload(o)
    <2>1. \A w \in Versions :
            rows'[w] = IF rows[w].id = o \/ home = o THEN NoRow
                       ELSE IF Kept(o, w)
                         THEN [rows[w] EXCEPT !.status = op[o].before[w].status]
                         ELSE Demoted(rows[w])
      BY <1>8 DEF UndoUpload
    <2>2. ASSUME NEW w \in Versions
          PROVE  /\ rows'[w].id \in {rows[w].id, Old}
                 /\ ~Known(rows'[w]) => rows'[w] = NoRow
      <3> DEFINE r == [rows[w] EXCEPT !.status = op[o].before[w].status]
      <3>1. r.id = rows[w].id /\ r.status = op[o].before[w].status
        BY <1>1, RowWrites
      <3>2. rows'[w] \in {NoRow, Demoted(rows[w])} \/ (rows'[w] = r /\ Kept(o, w))
        BY <2>1
      <3> HIDE DEF r
      <3> QED BY <1>1, <1>2, <1>3, <3>1, <3>2 DEF BlankLane, Known, Kept
    <2>3. BlankLane(rows')
      BY <2>2 DEF BlankLane
    <2>4. HomeInv'
      <3>0. rows' \in [Versions -> RowType]
        BY <1>8, UploadTyped DEF Upload, TypeOK
      <3>1. ASSUME home' = Free, NEW w \in Versions PROVE rows'[w] = NoRow
        <4>1. CASE home = o
          BY <2>1, <4>1
        <4>2. CASE home # o
          <5>1. rows[w] = NoRow
            BY <1>2, <1>5, <1>8, <3>1, <4>2 DEF HomeInv, UndoUpload
          <5> QED BY <1>3, <2>1, <5>1 DEF Kept, Known
        <4> QED BY <4>1, <4>2
      <3> QED BY <1>6, <3>0, <3>1 DEF HomeInv
    <2> QED BY <1>8, <2>2, <2>3, <2>4 DEF UndoUpload
  <1>9. CASE CommitRollback(o)
    <2>1. /\ \A w \in Versions :
               rows'[w] = IF w = op[o].v
                          THEN [rows[op[o].v] EXCEPT !.status = "live", !.at = clock + 1]
                          ELSE Demoted(rows[w])
          /\ home' = home
      BY <1>9 DEF CommitRollback
    <2>2. rows[op[o].v] = op[o].before[op[o].v] /\ Known(op[o].before[op[o].v])
      BY <1>2, <1>9 DEF CommitRollback, Swappable, At, RecordOK
    <2>3. home # Free
      BY <1>1, <1>2, <1>3, <1>5, <2>2 DEF HomeInv, Known
    <2>4. ASSUME NEW w \in Versions
          PROVE  rows'[w].id = rows[w].id /\ (~Known(rows'[w]) => rows'[w] = NoRow)
      <3> DEFINE r == [rows[op[o].v] EXCEPT !.status = "live", !.at = clock + 1]
      <3>1. r.id = rows[op[o].v].id /\ r.status = "live"
        BY <1>1, RowWrites
      <3>2. rows'[w] = IF w = op[o].v THEN r ELSE Demoted(rows[w])
        BY <2>1
      <3> HIDE DEF r
      <3> QED BY <1>1, <1>2, <1>3, <3>1, <3>2 DEF BlankLane, Known
    <2> QED BY <2>1, <2>3, <2>4 DEF HomeInv, BlankLane
  <1>10. /\ \A w \in Versions : LaneBefore(o)[w].id = rows[w].id
         /\ BlankLane(LaneBefore(o))
         /\ home = Free => LaneBefore(o) = NoLane
    <2>1. \A w \in Versions :
            LaneBefore(o)[w] = IF Kept(o, w) THEN op[o].before[w] ELSE Demoted(rows[w])
      BY DEF LaneBefore
    <2>2. LaneBefore(o) \in [Versions -> RowType]
      BY LanesTyped
    <2>3. BlankLane(LaneBefore(o))
      BY <1>1, <1>2, <1>3, <2>1 DEF BlankLane, Known, Kept
    <2>4. home = Free => \A w \in Versions : LaneBefore(o)[w] = NoRow
      BY <1>2, <1>3, <1>5, <2>1 DEF HomeInv, Kept, Known
    <2>5. \A w \in Versions : LaneBefore(o)[w].id = rows[w].id
      BY <1>1, <1>3, <2>1 DEF Kept
    <2> QED BY <1>6, <2>2, <2>3, <2>4, <2>5
  <1>11. CASE RestoreLane(o)
    <2>1. home' = home /\ rows' \in {rows, LaneBefore(o)}
      BY <1>11 DEF RestoreLane
    <2> QED BY <1>2, <1>10, <2>1 DEF HomeInv, BlankLane
  <1>12. CASE DropRow(o)
    <2>1. CASE rows' = LaneWithout(o) /\ home' = IF Emptied(o) THEN Free ELSE home
      <3>1. \A w \in Versions :
              rows'[w] = IF Emptied(o) THEN NoRow
                         ELSE IF rows[w].id = op[o].before[w].id /\ w = op[o].v THEN NoRow
                         ELSE IF w = op[o].prev /\ Kept(o, w)
                           THEN [rows[w] EXCEPT !.status = "live", !.at = clock + 1]
                           ELSE rows[w]
        BY <2>1 DEF LaneWithout
      <3>2. rows' \in [Versions -> RowType]
        BY <2>1, LanesTyped
      <3>3. ASSUME NEW w \in Versions
            PROVE  /\ rows'[w].id \in {rows[w].id, Old}
                   /\ ~Known(rows'[w]) => rows'[w] = NoRow
                   /\ home' = Free => rows'[w] = NoRow
        <4> DEFINE r == [rows[w] EXCEPT !.status = "live", !.at = clock + 1]
        <4>1. r.id = rows[w].id /\ r.status = "live"
          BY <1>1, RowWrites
        <4>2. \/ rows'[w] = NoRow
              \/ ~Emptied(o) /\ rows'[w] = rows[w]
              \/ ~Emptied(o) /\ rows'[w] = r /\ Kept(o, w)
          BY <3>1
        <4>3. home' = Free /\ ~Emptied(o) => rows[w] = NoRow
          BY <1>2, <1>5, <2>1 DEF HomeInv
        <4> HIDE DEF r
        <4> QED BY <1>1, <1>2, <1>3, <4>1, <4>2, <4>3 DEF BlankLane, Known, Kept
      <3> QED BY <1>6, <2>1, <3>2, <3>3 DEF HomeInv, BlankLane
    <2>2. CASE UNCHANGED laneVars
      BY <1>2, <2>2 DEF laneVars, HomeInv
    <2> QED BY <1>12, <2>1, <2>2 DEF DropRow
  <1>13. CASE Reinsert(o)
    <2>1. CASE /\ rows' = [LaneBefore(o) EXCEPT ![op[o].v] = op[o].before[op[o].v]]
               /\ home' = op[o].home
      <3>1. \A w \in Versions :
              rows'[w] = IF w = op[o].v THEN op[o].before[w] ELSE LaneBefore(o)[w]
        BY <2>1 DEF LaneBefore
      <3>2. BlankLane(rows')
        BY <1>2, <1>10, <3>1 DEF BlankLane
      <3>3. op[o].home # Free
        BY <1>2, <1>13 DEF Reinsert, At, RecordOK
      <3> QED BY <1>10, <2>1, <3>1, <3>2, <3>3 DEF HomeInv
    <2>2. CASE UNCHANGED <<rows, home>>
      BY <1>2, <2>2 DEF HomeInv
    <2> QED BY <1>13, <2>1, <2>2 DEF Reinsert
  <1> QED BY <1>7, <1>8, <1>9, <1>11, <1>12, <1>13 DEF Writes

\* The records and the quarantine.
LEMMA NextRecords ==
  ASSUME TypeOK, LaneInv, [Next]_vars
  PROVE  RecordsInv' /\ AsideInv'
  <1>1. RecordsInv /\ AsideInv /\ HomeInv /\ aside \subseteq Ops
    BY DEF LaneInv, TypeOK
  <1>2. ASSUME NEW o \in Ops, Start(o) PROVE RecordsInv' /\ AsideInv'
    <2>1. /\ Others(o) /\ op[o].pc = "new" /\ op'[o].result = "none"
          /\ ~op'[o].mutated /\ ~op'[o].back
          /\ \/ op'[o].kind = "upload" /\ op'[o].pc = "stage"
             \/ /\ op'[o].kind = "rollback" /\ op'[o].pc = "load"
                /\ op'[o].before = rows /\ rows[op'[o].v].status = "rolled_back"
             \/ /\ op'[o].kind = "remove" /\ op'[o].pc = "check" /\ op'[o].home = home
                /\ op'[o].v \in Live(rows)
      BY <1>2, StartsFlat
    <2>2. \A v \in Live(rows) : home # Free
      BY <1>1 DEF HomeInv, Live, NoLane, NoRow
    <2>3. RecordOK(op'[o])
      BY <2>1, <2>2 DEF RecordOK, Known
    <2>4. aside' = aside
      BY <1>2 DEF Start, StartUpload, StartRollback, StartRemove
    <2> QED BY <1>1, <2>1, <2>3, <2>4 DEF Others, RecordsInv, AsideInv, At
  <1>3. ASSUME NEW o \in Ops, Working(o) PROVE RecordsInv' /\ AsideInv'
    <2>1. /\ Others(o) /\ op'[o].kind = op[o].kind /\ op'[o].pc # "new"
          /\ RecordOK(op'[o])
      BY <1>1, <1>3, WorkFields, WorkRecords DEF RecordsInv, SameGoal
    <2>2. aside' \subseteq aside \/ (aside' = aside \cup {o} /\ op[o].kind = "remove")
      <3>1. Quarantine(o) => op[o].kind = "remove"
        BY <1>1 DEF RecordsInv, RecordOK, Quarantine, At
      <3> QED BY <1>3, <3>1
            DEF Working, Upload, Stage, StageFails, CommitUpload, CommitUploadFails, Unstage,
                UndoUpload, UndoUploadFails, RemoveStaged, Rollback, CommitRollback,
                RollbackRefused, RestoreLane, Remove, CheckRemove, Quarantine, DropRow, Purge, PutBack,
                Reinsert, HotSwap, Resolve, ResolveFails, Swap, SwapFails, Sync, SyncFails,
                Verify, VerifyFails
    <2> QED BY <1>1, <2>1, <2>2 DEF Others, RecordsInv, AsideInv, At
  <1>4. CASE Restart
    <2>1. aside' = aside
      BY <1>4 DEF Restart
    <2>2. \A o \in Ops : /\ op'[o].kind = op[o].kind /\ op'[o].before = op[o].before
                         /\ op'[o].v = op[o].v /\ op'[o].home = op[o].home
                         /\ op'[o] = op[o] \/ op'[o].pc = "done"
      BY <1>4, RestartFlat DEF SameGoal, Ends
    <2> QED BY <1>1, <2>1, <2>2 DEF RecordsInv, RecordOK, AsideInv, At
  <1>5. CASE World \/ UNCHANGED vars
    <2>1. op' = op /\ aside' = aside
      BY <1>5 DEF World, Renew, RefusedRequest, Lapse, Unmoved, vars
    <2> QED BY <1>1, <2>1 DEF RecordsInv, AsideInv, At
  <1> QED BY <1>2, <1>3, <1>4, <1>5, NextCases DEF Working

LEMMA NextLane == TypeOK /\ LaneInv /\ [Next]_vars => LaneInv'
  <1> SUFFICES ASSUME TypeOK, LaneInv, [Next]_vars PROVE LaneInv'
    OBVIOUS
  <1>1. BlankInv /\ HomeInv /\ FreshInv /\ RecordsInv
    BY DEF LaneInv
  <1>2. BlankLane(NoLane) /\ \A w \in Versions : NoLane[w].id = Old
    BY DEF BlankLane, NoLane, NoRow
  <1>3. ASSUME NEW o \in Ops, Start(o) PROVE BlankInv' /\ HomeInv' /\ FreshInv'
    <2>1. /\ Others(o) /\ op[o].pc = "new" /\ ~op'[o].mutated
          /\ op'[o].before \in {NoLane, rows} /\ op'[o].home \in {Free, home}
      BY <1>3, StartsFlat
    <2>2. UNCHANGED <<rows, home>>
      BY <1>3 DEF Start, StartUpload, StartRollback, StartRemove, laneVars
    <2>3. Unspent(o)
      BY <1>1, <2>1 DEF RecordsInv, RecordOK, Unspent
    <2>4. BlankInv' /\ HomeInv'
      BY <1>1, <1>2, <2>1, <2>2 DEF BlankInv, BlankLane, HomeInv, Others
    <2>5. FreshInv'
      <3>1. SUFFICES ASSUME NEW p \in Ops, Unspent(p)' PROVE Traceless(p)'
        BY DEF FreshInv
      <3>2. Traceless(p)
        BY <1>1, <2>1, <2>3, <3>1 DEF FreshInv, Unspent, Others
      <3> QED BY <1>2, <2>1, <2>2, <3>2, OldAssumption, FreeAssumption
              DEF Traceless, Others
    <2> QED BY <2>4, <2>5
  <1>4. ASSUME NEW o \in Ops, Working(o) PROVE BlankInv' /\ HomeInv' /\ FreshInv'
    <2>1. /\ Others(o) /\ SameGoal(o) /\ (op[o].mutated => op'[o].mutated)
          /\ \/ op'[o].before = op[o].before
             \/ CommitUpload(o) /\ op'[o].before = rows /\ op'[o].mutated
      BY <1>4, WorkFields
    <2>2. /\ BlankLane(rows') /\ HomeInv'
          /\ home' \in {home, Free, op[o].home} \/ (CommitUpload(o) /\ home' = o)
          /\ \A w \in Versions :
               \/ rows'[w].id \in {rows[w].id, Old, op[o].before[w].id}
               \/ CommitUpload(o) /\ rows'[w].id = o
      <3>1. CASE Writes(o)
        BY <3>1, WritesLane
      <3>2. CASE ~Writes(o)
        <4>1. UNCHANGED <<rows, home>>
          BY <1>4, <3>2, OnlyWritesMoveRows
        <4> QED BY <1>1, <4>1 DEF BlankInv, HomeInv
      <3> QED BY <3>1, <3>2
    <2>3. BlankInv'
      BY <1>1, <2>1, <2>2 DEF BlankInv, BlankLane, Others
    <2>4. FreshInv'
      <3>1. SUFFICES ASSUME NEW p \in Ops, Unspent(p)' PROVE Traceless(p)'
        BY DEF FreshInv
      <3>2. CommitUpload(o) => p # o
        <4>1. CommitUpload(o) => op[o].kind = "upload" /\ op'[o].mutated
          BY <1>1, <2>1, CommitUploadFlat DEF CommitUpload, At, RecordsInv, RecordOK
        <4> QED BY <2>1, <3>1, <4>1 DEF Unspent, SameGoal
      <3>3. Traceless(p)
        BY <1>1, <2>1, <3>1 DEF FreshInv, Unspent, Others, SameGoal
      <3>4. home' # p /\ \A w \in Versions : rows'[w].id # p
        BY <2>2, <3>2, <3>3, OldAssumption, FreeAssumption DEF Traceless
      <3>5. ASSUME NEW q \in Ops
            PROVE  op'[q].home # p /\ \A w \in Versions : op'[q].before[w].id # p
        BY <2>1, <3>3 DEF Traceless, Others, SameGoal
      <3> QED BY <3>4, <3>5 DEF Traceless
    <2> QED BY <2>2, <2>3, <2>4
  <1>5. CASE Restart \/ World \/ UNCHANGED vars
    <2>1. UNCHANGED <<rows, home>>
      BY <1>5 DEF Restart, World, Renew, RefusedRequest, Lapse, Unmoved, vars, laneVars
    <2>2. \A o \in Ops : /\ op'[o].kind = op[o].kind /\ op'[o].before = op[o].before
                         /\ op'[o].mutated = op[o].mutated /\ op'[o].home = op[o].home
      BY <1>5, RestartFlat
         DEF World, Renew, RefusedRequest, Lapse, Unmoved, vars, SameGoal
    <2>3. BlankInv' /\ HomeInv'
      BY <1>1, <2>1, <2>2 DEF BlankInv, BlankLane, HomeInv
    <2>4. FreshInv'
      <3>1. SUFFICES ASSUME NEW p \in Ops, Unspent(p)' PROVE Traceless(p)'
        BY DEF FreshInv
      <3>2. Traceless(p)
        BY <1>1, <2>2, <3>1 DEF FreshInv, Unspent
      <3> QED BY <2>1, <2>2, <3>2 DEF Traceless
    <2> QED BY <2>3, <2>4, NextRecords DEF LaneInv
  <1> QED BY <1>3, <1>4, <1>5, NextCases, NextRecords DEF Working, LaneInv

-----------------------------------------------------------------------------
(* Uploads and rollbacks that overlap: no removal has begun. *)

NoRemovals == \A o \in Ops : op[o].kind # "remove"
Broken == \E o \in Ops : op[o].result = "broken"
Settled == Live(rows) # {} => served \in Live(rows)

\* Every version the lane knows has its package on disk.
OnDisk == \A w \in Versions : Known(rows[w]) => w \in dirs

\* An upload owns the directory it published until it removes it: nobody else
\* publishes it, and a row for it is its own.  Where it may remove the
\* directory the lane does not know the version.
Owns(o) ==
    /\ op[o].kind = "upload"
    /\ \/ op[o].pc \in {"commit", "unstage", "undo", "rmdir"}
       \/ op[o].pc \in {"rereg", "swap", "sync"} /\ ~op[o].back
OwnsRow(o) ==
    /\ op[o].v \in dirs
    /\ Known(rows[op[o].v]) => rows[op[o].v].id = o
    /\ op[o].pc \in {"commit", "unstage", "rmdir"} => ~Known(rows[op[o].v])
OwnersInv ==
    \A o \in Ops : Owns(o) =>
        /\ OwnsRow(o)
        /\ \A p \in Ops : Owns(p) /\ op[p].v = op[o].v => p = o

\* Whoever changed the live row has still to swap, or compensates, or has
\* reported a broken recovery; a swap at work is at most superseded by one
\* that waits for the chain.
Waits(o) == op[o].pc \in {"rereg", "rmdir"}
StillToSwap(o) ==
    \/ Waits(o) \/ At(o, "undo")
    \/ At(o, "swap") /\ op[o].sel \in Live(rows)
SwapInv == Settled \/ Broken \/ \E o \in Ops : StillToSwap(o)
ChainInv ==
    \A o \in Ops : At(o, "swap") =>
        \/ Live(rows) = {} \/ op[o].sel \in Live(rows)
        \/ Broken \/ \E p \in Ops : Waits(p)

OverlapInv == NoRemovals => OnDisk /\ OwnersInv /\ SwapInv /\ ChainInv

LEMMA InitOverlap == Init => OverlapInv
  <1> SUFFICES ASSUME Init PROVE OverlapInv
    OBVIOUS
  <1>1. \A o \in Ops : op[o].pc = "new"
    BY DEF Init, NewOp, Begun
  <1>2. OnDisk
    BY DEF Init, OnDisk, Known
  <1>3. OwnersInv /\ ChainInv
    BY <1>1 DEF OwnersInv, ChainInv, Owns, At
  <1>4. SwapInv
    <2>1. Live(rows) \subseteq dirs
      BY DEF Init, Live
    <2> QED BY <2>1 DEF Init, AtBoot, PointerBroken, Selected, SwapInv, Settled
  <1> QED BY <1>2, <1>3, <1>4 DEF OverlapInv

\* No operation becomes a removal and none stops being one but by beginning.
LEMMA NoRemovalsBefore ==
  ASSUME TypeOK, LaneInv, [Next]_vars, NoRemovals'
  PROVE  NoRemovals
  <1>1. ASSUME NEW o \in Ops, Start(o) PROVE NoRemovals
    <2>1. Others(o) /\ op[o].pc = "new"
      BY <1>1, StartsFlat
    <2>2. op[o].kind = "upload"
      BY <2>1 DEF LaneInv, RecordsInv, RecordOK
    <2> QED BY <2>1, <2>2 DEF NoRemovals, Others
  <1>2. ASSUME NEW o \in Ops, Working(o) PROVE NoRemovals
    BY <1>2, WorkFields DEF NoRemovals, Others, SameGoal
  <1>3. CASE Restart
    BY <1>3, RestartFlat DEF NoRemovals, SameGoal
  <1>4. CASE World \/ UNCHANGED vars
    BY <1>4 DEF World, Renew, RefusedRequest, Lapse, Unmoved, vars, NoRemovals
  <1> QED BY <1>1, <1>2, <1>3, <1>4, NextCases DEF Working

\* The hot swap leaves rows and files, and where it can go.
HotSwapMoves(o) ==
    /\ Others(o) /\ SameGoal(o) /\ UNCHANGED <<rows, home, dirs, aside>>
    /\ op'[o].before = op[o].before /\ op'[o].mutated = op[o].mutated
    /\ op'[o].back = op[o].back /\ op'[o].bad = op[o].bad
    /\ op[o].pc \in {"rereg", "swap", "sync", "verify"}
    /\ \/ At(o, "rereg") /\ To(o, "swap")
       \/ At(o, "swap") /\ To(o, "sync")
       \/ At(o, "sync") /\ op[o].kind = "rollback" /\ To(o, "verify")
       \/ At(o, "sync") /\ op[o].kind = "remove" /\ ~op[o].back /\ To(o, "purge")
       \/ ~op[o].back /\ To(o, "undo")
       \/ op[o].back /\ Ends(o, "broken")
       \/ op[o].pc \in {"sync", "verify"} /\ \E x : Ends(o, x)

LEMMA HotSwapFlat ==
  ASSUME TypeOK, NEW o \in Ops, RecordOK(op[o]), HotSwap(o)
  PROVE  HotSwapMoves(o)
  <1>1. UNCHANGED <<rows, home, dirs, aside>>
        /\ op[o].pc \in {"rereg", "swap", "sync", "verify"}
    BY DEF HotSwap, Resolve, ResolveFails, Swap, SwapFails, Sync, SyncFails, Verify,
           VerifyFails, laneVars, At
  <1>2. CASE \E s \in Versions \cup {Packaged} : Resolve(o, s)
    <2>1. PICK s \in Versions \cup {Packaged} : Resolve(o, s)
      BY <1>2
    <2> QED BY <1>1, <2>1, ResolveFlat DEF Resolve, HotSwapMoves
  <1>3. CASE Fails(o)
    BY <1>1, <1>3, FailsFlat DEF Plain, HotSwapMoves
  <1>4. CASE Swap(o)
    BY <1>1, <1>4, ContinueFlat DEF Swap, Plain, HotSwapMoves
  <1>5. CASE \E x : (At(o, "sync") \/ At(o, "verify")) /\ Finish(o, x)
    BY <1>1, <1>5, FinishFlat DEF Plain, At, HotSwapMoves
  <1>6. CASE At(o, "sync") /\ op[o].kind = "rollback" /\ Continue(o, "verify")
    BY <1>1, <1>6, ContinueFlat DEF Plain, HotSwapMoves
  <1>7. CASE At(o, "sync") /\ op[o].kind = "remove" /\ ~op[o].back /\ Step(o, "purge")
    BY <1>1, <1>7, StepFlat DEF Plain, HotSwapMoves
  <1>8. CASE At(o, "verify") /\ ~Holds(o) /\ Continue(o, "undo")
    <2>1. \/ ~op[o].back /\ Step(o, "undo")
          \/ op[o].back /\ Finish(o, "broken")
      BY <1>8 DEF Continue
    <2> QED BY <1>1, <2>1, StepFlat, FinishFlat DEF Plain, HotSwapMoves
  <1> QED BY <1>2, <1>3, <1>4, <1>5, <1>6, <1>7, <1>8
          DEF HotSwap, ResolveFails, SwapFails, Sync, SyncFails, Verify, VerifyFails

\* Rows that are known after a step were known before, under the same id.
Shrinks == \A w \in Versions : Known(rows'[w]) => Known(rows[w]) /\ rows'[w].id = rows[w].id

LEMMA FilesKept ==
  ASSUME OnDisk, OwnersInv, NEW o \in Ops, Others(o), dirs' = dirs, Shrinks,
         TypeOK,
         Owns(o)' => /\ Owns(o) /\ op'[o].v = op[o].v
                     /\ \/ op'[o].pc \notin {"commit", "unstage", "rmdir"}
                        \/ op[o].pc \in {"commit", "unstage", "rmdir"}
                        \/ ~Known(rows'[op[o].v])
  PROVE  OnDisk' /\ OwnersInv'
  <1>1. OnDisk'
    BY DEF OnDisk, Shrinks
  <1>2. ASSUME NEW p \in Ops, Owns(p)' PROVE Owns(p) /\ op'[p].v = op[p].v /\ OwnsRow(p)'
    <2>1. Owns(p) /\ op'[p].v = op[p].v
      BY <1>2 DEF Owns, Others
    <2>2. OwnsRow(p) /\ op[p].v \in Versions
      BY <2>1 DEF OwnersInv, TypeOK, OpType
    <2>3. CASE p = o
      BY <1>2, <2>1, <2>2, <2>3 DEF OwnsRow, Shrinks
    <2>4. CASE p # o
      BY <2>1, <2>2, <2>4 DEF OwnsRow, Shrinks, Others
    <2> QED BY <2>1, <2>3, <2>4
  <1>3. OwnersInv'
    BY <1>2 DEF OwnersInv
  <1> QED BY <1>1, <1>3

LEMMA OverlapFiles ==
  ASSUME TypeOK, LaneInv, NEW o \in Ops, op[o].kind # "remove", OnDisk, OwnersInv,
         Working(o)
  PROVE  OnDisk' /\ OwnersInv'
  <1>1. /\ rows \in [Versions -> RowType] /\ op[o].before \in [Versions -> RowType]
        /\ op[o].v \in Versions /\ RecordOK(op[o])
    BY DEF TypeOK, OpType, LaneInv, RecordsInv
  <1>2. /\ \A r \in RowType : Demoted(r).id = r.id /\ (Known(Demoted(r)) <=> Known(r))
        /\ ~Known(NoRow)
    BY DEF NoRow, RowType, Statuses, Demoted, Known
  <1>3. ~Remove(o)
    BY <1>1 DEF Remove, CheckRemove, Quarantine, DropRow, Purge, PutBack, Reinsert, At,
                RecordOK
  <1>4. ASSUME NEW p \in Ops, Owns(p) PROVE OwnsRow(p) /\ op[p].v \in Versions
    BY <1>4 DEF OwnersInv, TypeOK, OpType
  <1>5. ASSUME rows' = rows PROVE Shrinks
    BY <1>5 DEF Shrinks
  <1>6. ASSUME dirs' = dirs, rows' = rows, Others(o), op'[o].pc = "done"
        PROVE  OnDisk' /\ OwnersInv'
    BY <1>5, <1>6, FilesKept DEF Owns
  <1>7. CASE HotSwap(o)
    <2>1. HotSwapMoves(o)
      BY <1>1, <1>7, HotSwapFlat
    <2>2. Owns(o)' => /\ Owns(o) /\ op'[o].v = op[o].v
                      /\ op'[o].pc \notin {"commit", "unstage", "rmdir"}
      BY <1>1, <2>1 DEF HotSwapMoves, Owns, To, Ends, At, SameGoal, RecordOK
    <2> QED BY <1>5, <2>1, <2>2, FilesKept DEF HotSwapMoves
  <1>8. CASE Stage(o)
    <2>1. Plain(o) /\ To(o, "commit")
      BY <1>8, StepFlat DEF Stage
    <2>2. dirs' = dirs \cup {op[o].v} /\ op[o].v \notin dirs /\ rows' = rows
      BY <1>8 DEF Stage, laneVars
    <2>3. ~Known(rows[op[o].v])
      BY <1>1, <2>2 DEF OnDisk
    <2>4. OwnsRow(o)'
      BY <2>1, <2>2, <2>3 DEF OwnsRow, Plain, SameGoal
    <2>5. ASSUME NEW p \in Ops, p # o, Owns(p)'
          PROVE  op'[p].v = op[p].v /\ Owns(p) /\ OwnsRow(p)' /\ op[p].v # op[o].v
      BY <1>4, <2>1, <2>2, <2>5 DEF Owns, OwnsRow, Plain, Others
    <2>6. OwnersInv'
      BY <2>1, <2>4, <2>5 DEF OwnersInv, Plain, SameGoal
    <2> QED BY <2>2, <2>6 DEF OnDisk
  <1>9. CASE CommitUpload(o)
    <2>1. Others(o) /\ SameGoal(o) /\ To(o, "rereg")
      BY <1>9, CommitUploadFlat
    <2> DEFINE r == [id |-> o, status |-> "live", at |-> clock + 1]
    <2>2. /\ \A w \in Versions : rows'[w] = IF w = op[o].v THEN r ELSE Demoted(rows[w])
          /\ dirs' = dirs
      BY <1>9 DEF CommitUpload
    <2>3. r.id = o
      OBVIOUS
    <2> HIDE DEF r
    <2>4. Owns(o) /\ op[o].v \in dirs
      <3>1. Owns(o)
        BY <1>1, <1>9 DEF CommitUpload, At, Owns, RecordOK
      <3> QED BY <1>4, <3>1 DEF OwnsRow
    <2>5. OnDisk'
      BY <1>1, <1>2, <2>2, <2>4 DEF OnDisk
    <2>6. OwnsRow(o)'
      BY <1>1, <2>1, <2>2, <2>3, <2>4 DEF OwnsRow, SameGoal, To
    <2>7. ASSUME NEW p \in Ops, p # o, Owns(p)'
          PROVE  op'[p].v = op[p].v /\ Owns(p) /\ OwnsRow(p)' /\ op[p].v # op[o].v
      <3>1. Owns(p) /\ op'[p] = op[p]
        BY <2>1, <2>7 DEF Owns, Others
      <3>2. op[p].v # op[o].v
        BY <2>4, <2>7, <3>1 DEF OwnersInv
      <3> QED BY <1>1, <1>2, <1>4, <2>2, <3>1, <3>2 DEF OwnsRow
    <2>8. OwnersInv'
      BY <2>1, <2>6, <2>7, <1>4, <2>4 DEF OwnersInv, SameGoal
    <2> QED BY <2>5, <2>8
  <1>10. CASE CommitUploadFails(o)
    <2>1. Plain(o) /\ To(o, "unstage") /\ At(o, "commit") /\ UNCHANGED <<rows, dirs>>
      BY <1>10, StepFlat DEF CommitUploadFails, laneVars
    <2>2. Owns(o)' => Owns(o) /\ op'[o].v = op[o].v /\ op[o].pc = "commit"
      BY <2>1 DEF Plain, SameGoal, Owns, To, At
    <2> QED BY <1>5, <2>1, <2>2, FilesKept DEF Plain
  <1>11. CASE Unstage(o) \/ RemoveStaged(o)
    <2>1. /\ rows' = rows /\ Others(o) /\ op'[o].v = op[o].v
          /\ dirs' \in {dirs, dirs \ {op[o].v}} /\ op[o].pc \in {"unstage", "rmdir"}
          /\ op'[o].pc = "done" \/ (op'[o].pc = "rereg" /\ op'[o].back)
      <3>1. CASE \E x : Finish(o, x)
        BY <1>11, <3>1, FinishFlat
           DEF Unstage, RemoveStaged, Plain, SameGoal, Ends, At, laneVars
      <3>2. CASE RemoveStaged(o) /\ Step(o, "rereg")
        <4>1. Plain(o) /\ To(o, "rereg")
          BY <3>2, StepFlat
        <4> QED BY <1>1, <3>2, <4>1 DEF RemoveStaged, Plain, SameGoal, To, At, RecordOK, laneVars
      <3> QED BY <1>11, <3>1, <3>2 DEF Unstage, RemoveStaged
    <2>2. Owns(o)
      BY <1>1, <2>1 DEF Owns, RecordOK
    <2>3. ~Known(rows[op[o].v]) /\ ~Owns(o)'
      BY <1>4, <2>1, <2>2 DEF OwnsRow, Owns
    <2>4. OnDisk'
      BY <2>1, <2>3 DEF OnDisk
    <2>5. ASSUME NEW p \in Ops, Owns(p)'
          PROVE  op'[p] = op[p] /\ Owns(p) /\ OwnsRow(p)'
      <3>1. p # o /\ op'[p] = op[p] /\ Owns(p)
        BY <2>1, <2>3, <2>5 DEF Owns, Others
      <3>2. op[p].v # op[o].v
        BY <2>2, <3>1 DEF OwnersInv
      <3> QED BY <1>4, <2>1, <3>1, <3>2 DEF OwnsRow
    <2>6. OwnersInv'
      BY <2>5 DEF OwnersInv
    <2> QED BY <2>4, <2>6
  <1>12. CASE UndoUpload(o)
    <2>1. Others(o) /\ SameGoal(o) /\ To(o, "rmdir")
      BY <1>12, BackFlat DEF UndoUpload
    <2>2. /\ \A w \in Versions :
               rows'[w] = IF rows[w].id = o \/ home = o THEN NoRow
                          ELSE IF Kept(o, w)
                            THEN [rows[w] EXCEPT !.status = op[o].before[w].status]
                            ELSE Demoted(rows[w])
          /\ dirs' = dirs
      BY <1>12 DEF UndoUpload
    <2>3. ASSUME NEW w \in Versions
          PROVE  Known(rows'[w]) => /\ Known(rows[w]) /\ rows'[w].id = rows[w].id
                                    /\ rows[w].id # o
      <3> DEFINE r == [rows[w] EXCEPT !.status = op[o].before[w].status]
      <3>1. r.id = rows[w].id
        BY <1>1, RowWrites
      <3>2. \/ rows'[w] = NoRow
            \/ /\ rows[w].id # o
               /\ rows'[w] = Demoted(rows[w]) \/ (rows'[w] = r /\ Kept(o, w))
        BY <2>2
      <3> HIDE DEF r
      <3> QED BY <1>1, <1>2, <3>1, <3>2 DEF Kept
    <2>4. Owns(o)
      BY <1>12 DEF UndoUpload, At, Owns
    <2>5. ~Known(rows'[op[o].v])
      BY <1>1, <1>4, <2>3, <2>4 DEF OwnsRow
    <2> QED BY <2>1, <2>2, <2>3, <2>4, <2>5, FilesKept DEF Shrinks, SameGoal
  <1>13. CASE CommitRollback(o)
    <2>1. Others(o) /\ SameGoal(o) /\ To(o, "rereg")
      BY <1>13, CommitRollbackFlat
    <2>2. /\ \A w \in Versions :
               rows'[w] = IF w = op[o].v
                          THEN [rows[op[o].v] EXCEPT !.status = "live", !.at = clock + 1]
                          ELSE Demoted(rows[w])
          /\ dirs' = dirs
      BY <1>13 DEF CommitRollback
    <2>3. rows[op[o].v] = op[o].before[op[o].v] /\ Known(op[o].before[op[o].v])
          /\ op[o].kind = "rollback"
      BY <1>1, <1>13 DEF CommitRollback, Swappable, At, RecordOK
    <2>4. ASSUME NEW w \in Versions
          PROVE  Known(rows'[w]) => Known(rows[w]) /\ rows'[w].id = rows[w].id
      <3> DEFINE r == [rows[op[o].v] EXCEPT !.status = "live", !.at = clock + 1]
      <3>1. r.id = rows[op[o].v].id
        BY <1>1, RowWrites
      <3>2. rows'[w] = IF w = op[o].v THEN r ELSE Demoted(rows[w])
        BY <2>2
      <3> HIDE DEF r
      <3> QED BY <1>1, <1>2, <2>3, <3>1, <3>2
    <2> QED BY <2>1, <2>2, <2>3, <2>4, FilesKept DEF Shrinks, SameGoal, Owns
  <1>14. CASE RestoreLane(o) /\ rows' = LaneBefore(o)
              /\ op' = [op EXCEPT ![o].pc = "rereg", ![o].back = TRUE]
    <2>1. Others(o) /\ SameGoal(o) /\ To(o, "rereg")
      BY <1>14, BackFlat
    <2>2. \A w \in Versions :
            rows'[w] = IF Kept(o, w) THEN op[o].before[w] ELSE Demoted(rows[w])
      BY <1>14 DEF LaneBefore
    <2>3. Shrinks
      BY <1>1, <1>2, <2>2 DEF Shrinks, Kept
    <2>4. dirs' = dirs /\ op[o].kind = "rollback"
      BY <1>14 DEF RestoreLane
    <2> QED BY <2>1, <2>3, <2>4, FilesKept DEF SameGoal, Owns
  <1>15. CASE Others(o) /\ op'[o].pc = "done" /\ UNCHANGED <<rows, dirs>>
    BY <1>6, <1>15
  <1>16. ASSUME NEW x, Finish(o, x) PROVE Others(o) /\ op'[o].pc = "done"
    BY <1>16, FinishFlat DEF Plain, Ends
  <1>17. CASE Upload(o)
    BY <1>8, <1>9, <1>10, <1>11, <1>12, <1>15, <1>16, <1>17
       DEF Upload, StageFails, UndoUploadFails, laneVars
  <1>18. CASE Rollback(o)
    BY <1>13, <1>14, <1>15, <1>16, <1>18 DEF Rollback, RollbackRefused, RestoreLane, laneVars
  <1> QED BY <1>3, <1>7, <1>17, <1>18 DEF Working

\* A reported broken recovery stays reported.
LEMMA BrokenStays ==
  ASSUME TypeOK, RecordsInv, [Next]_vars, Broken
  PROVE  Broken'
  <1>1. PICK p \in Ops : op[p].result = "broken"
    BY DEF Broken
  <1>2. op[p].pc = "done"
    BY <1>1 DEF RecordsInv, RecordOK
  <1>3. op'[p].result = "broken"
    <2>1. ASSUME NEW o \in Ops, Start(o) PROVE op'[p] = op[p]
      BY <1>2, <2>1, StartsFlat DEF Others
    <2>2. ASSUME NEW o \in Ops, Working(o) PROVE op'[p] = op[p]
      BY <1>2, <2>2, WorkFields DEF Others
    <2>3. CASE Restart
      BY <1>1, <1>2, <2>3, RestartFlat DEF InFlight, At
    <2>4. CASE World \/ UNCHANGED vars
      BY <1>1, <2>4 DEF World, Renew, RefusedRequest, Lapse, Unmoved, vars
    <2> QED BY <1>1, <2>1, <2>2, <2>3, <2>4, NextCases DEF Working
  <1> QED BY <1>3 DEF Broken

\* A transaction that changes the rows leaves its operation waiting to swap.
LEMMA WritersWait ==
  ASSUME TypeOK, NEW o \in Ops, Working(o), op[o].kind # "remove", rows' # rows, RecordOK(op[o])
  PROVE  Waits(o)'
  <1>1. Writes(o)
    BY OnlyWritesMoveRows
  <1>2. CASE CommitUpload(o)
    BY <1>2, CommitUploadFlat DEF To, Waits
  <1>3. CASE UndoUpload(o)
    <2>1. To(o, "rmdir")
      BY <1>3, BackFlat DEF UndoUpload
    <2> QED BY <2>1 DEF To, Waits
  <1>4. CASE CommitRollback(o)
    BY <1>4, CommitRollbackFlat DEF To, Waits
  <1>5. CASE RestoreLane(o)
    <2>1. op' = [op EXCEPT ![o].pc = "rereg", ![o].back = TRUE]
      BY <1>5 DEF RestoreLane
    <2>2. To(o, "rereg")
      BY <2>1, BackFlat
    <2> QED BY <2>2 DEF To, Waits
  <1>6. ~DropRow(o) /\ ~Reinsert(o)
    BY DEF DropRow, Reinsert, At, RecordOK
  <1> QED BY <1>1, <1>2, <1>3, <1>4, <1>5, <1>6 DEF Writes

\* An operation that has still to swap goes on to, starts the swap, or reports.
LEMMA WaitersMove ==
  ASSUME TypeOK, NEW o \in Ops, Working(o), RecordOK(op[o]), op[o].kind # "remove",
         op[o].pc \in {"rereg", "rmdir", "undo", "swap"}
  PROVE  \/ Ends(o, "broken")
         \/ At(o, "swap") /\ To(o, "sync") /\ Swap(o)
         \/ op[o].pc \in {"rmdir", "undo"} /\ Waits(o)'
         \/ op[o].pc \in {"rereg", "swap"} /\ At(o, "undo")' /\ (At(o, "rereg") => chain = Free)
         \/ /\ op[o].pc = "rereg" /\ chain = Free
            /\ \E s \in Versions \cup {Packaged} : Resolve(o, s)
  <1>1. CASE RemoveStaged(o)
    <2>1. CASE Step(o, "rereg")
      <3>1. To(o, "rereg")
        BY <2>1, StepFlat
      <3> QED BY <1>1, <3>1 DEF RemoveStaged, At, To, Waits
    <2> QED BY <1>1, <2>1, FinishFlat DEF RemoveStaged
  <1>2. CASE UndoUpload(o)
    <2>1. To(o, "rmdir")
      BY <1>2, BackFlat DEF UndoUpload
    <2> QED BY <1>2, <2>1 DEF UndoUpload, At, To, Waits
  <1>3. CASE RestoreLane(o)
    <2>1. CASE op' = [op EXCEPT ![o].pc = "rereg", ![o].back = TRUE]
      <3>1. To(o, "rereg")
        BY <2>1, BackFlat
      <3> QED BY <1>3, <3>1 DEF RestoreLane, At, To, Waits
    <2> QED BY <1>3, <2>1, FinishFlat DEF RestoreLane
  <1>4. CASE \E s \in Versions \cup {Packaged} : Resolve(o, s)
    BY <1>4 DEF Resolve, At
  <1>5. CASE ResolveFails(o)
    BY <1>5, FailsFlat DEF ResolveFails, At, To, Ends
  <1>6. CASE SwapFails(o)
    BY <1>6, FailsFlat DEF SwapFails, At, To, Ends
  <1>7. CASE Swap(o)
    <2>1. To(o, "sync") \/ To(o, "undo") \/ Ends(o, "broken")
      BY <1>7, ContinueFlat DEF Swap
    <2> QED BY <1>7, <2>1 DEF Swap, At, To
  <1>8. CASE UndoUploadFails(o)
    BY <1>8, FinishFlat DEF UndoUploadFails
  <1> QED BY <1>1, <1>2, <1>3, <1>4, <1>5, <1>6, <1>7, <1>8
          DEF Working, Upload, Rollback, Remove, HotSwap, Stage, StageFails, CommitUpload,
              CommitUploadFails, Unstage, CommitRollback, RollbackRefused, CheckRemove,
              Quarantine, DropRow, Purge, PutBack, Reinsert, Sync, SyncFails, Verify,
              VerifyFails, At

LEMMA OverlapCode ==
  ASSUME TypeOK, LaneInv, NEW o \in Ops, op[o].kind # "remove", [Next]_vars, OnDisk,
         SwapInv, ChainInv, Working(o)
  PROVE  SwapInv' /\ ChainInv'
  <1>1. RecordOK(op[o]) /\ Others(o)
    BY WorkFields DEF LaneInv, RecordsInv
  <1>2. Broken => Broken'
    BY BrokenStays DEF LaneInv
  <1>3. ASSUME NEW q \in Ops PROVE At(q, "swap") <=> chain = q
    BY DEF TypeOK
  <1>4. chain # Free => ~(\E s \in Versions \cup {Packaged} : Resolve(o, s))
    BY DEF Resolve
  <1>5. CASE rows' # rows
    <2>1. Waits(o)'
      BY <1>1, <1>5, WritersWait
    <2> QED BY <2>1 DEF SwapInv, ChainInv, StillToSwap
  <1>6. CASE rows' = rows
    <2>1. Live(rows') = Live(rows)
      BY <1>6
    <2>2. ASSUME NEW s \in Versions \cup {Packaged}, Resolve(o, s)
          PROVE  Live(rows) = {} \/ op'[o].sel \in Live(rows)
      <3>1. op'[o].sel = s
        BY <2>2, ResolveFlat
      <3> QED BY <2>2, <3>1 DEF Resolve, Selected
    <2>3. Ends(o, "broken") => Broken'
      BY DEF Ends, Broken
    <2>4. ChainInv'
      <3>1. SUFFICES ASSUME NEW q \in Ops, At(q, "swap")'
                     PROVE  \/ Live(rows) = {} \/ op'[q].sel \in Live(rows)
                            \/ Broken' \/ \E p \in Ops : Waits(p)'
        BY <2>1 DEF ChainInv
      <3>2. CASE q = o
        <4>1. \E s \in Versions \cup {Packaged} : Resolve(o, s)
          <5>1. op'[o].pc = "swap"
            BY <3>1, <3>2 DEF At
          <5>2. CASE HotSwap(o)
            <6>1. Fails(o) => op'[o].pc # "swap"
              BY FailsFlat DEF To, Ends
            <6>2. ASSUME NEW x, x # "swap", Continue(o, x) PROVE op'[o].pc # "swap"
              BY <6>2, ContinueFlat DEF To, Ends
            <6>3. ASSUME NEW x, Finish(o, x) PROVE op'[o].pc # "swap"
              BY <6>3, FinishFlat DEF Ends
            <6>4. Step(o, "purge") => op'[o].pc # "swap"
              BY StepFlat DEF To
            <6> QED BY <5>1, <5>2, <6>1, <6>2, <6>3, <6>4
                    DEF HotSwap, ResolveFails, Swap, SwapFails, Sync, SyncFails, Verify,
                        VerifyFails
          <5>3. CASE ~HotSwap(o)
            <6>1. chain' = chain /\ op[o].pc # "swap"
              BY <5>3 DEF Working, Upload, Stage, StageFails, CommitUpload,
                   CommitUploadFails, Unstage, UndoUpload, UndoUploadFails, RemoveStaged,
                   Rollback, CommitRollback, RollbackRefused, RestoreLane, Remove, CheckRemove,
                   Quarantine, DropRow, Purge, PutBack, Reinsert, codeVars, At
            <6>2. chain' = o
              BY <3>1, <3>2, NextTyped DEF TypeOK
            <6> QED BY <1>3, <6>1, <6>2 DEF At
          <5> QED BY <5>2, <5>3
        <4> QED BY <2>2, <3>2, <4>1
      <3>3. CASE q # o
        <4>1. op'[q] = op[q] /\ At(q, "swap") /\ chain = q /\ chain # Free
          BY <1>1, <1>3, <3>1, <3>3, FreeAssumption DEF Others, At
        <4>2. CASE \E p \in Ops : Waits(p)
          <5>1. PICK p \in Ops : Waits(p)
            BY <4>2
          <5>2. CASE p = o
            <6>1. Ends(o, "broken") \/ Waits(o)'
              BY <1>1, <1>4, <4>1, <5>1, <5>2, WaitersMove DEF Waits, At
            <6> QED BY <2>3, <6>1
          <5>3. CASE p # o
            BY <1>1, <5>1, <5>3 DEF Others, Waits
          <5> QED BY <5>2, <5>3
        <4> QED BY <1>2, <4>1, <4>2 DEF ChainInv
      <3> QED BY <3>2, <3>3
    <2>5. SwapInv'
      <3>1. ASSUME NEW p \in Ops, p # o, StillToSwap(p) PROVE StillToSwap(p)'
        BY <1>1, <2>1, <3>1 DEF StillToSwap, Waits, At, Others
      <3>2. CASE Swap(o)
        <4>1. At(o, "swap") /\ served' = Loaded(o)
          BY <3>2 DEF Swap
        <4>2. CASE op[o].sel \in Live(rows)
          <5>1. op[o].sel \in dirs
            BY <4>2 DEF OnDisk, Live, Known
          <5> QED BY <2>1, <4>1, <4>2, <5>1 DEF Loaded, SwapInv, Settled
        <4>3. CASE Live(rows) = {}
          BY <2>1, <4>3 DEF SwapInv, Settled
        <4>4. CASE \E p \in Ops : Waits(p)
          <5>1. PICK p \in Ops : Waits(p)
            BY <4>4
          <5>2. p # o
            BY <4>1, <5>1 DEF Waits, At
          <5> QED BY <3>1, <5>1, <5>2 DEF SwapInv, StillToSwap
        <4> QED BY <1>2, <4>1, <4>2, <4>3, <4>4 DEF ChainInv, SwapInv
      <3>3. CASE ~Swap(o)
        <4>1. served' = served
          BY <3>3 DEF Working, Upload, Stage, StageFails, CommitUpload,
               CommitUploadFails, Unstage, UndoUpload, UndoUploadFails, RemoveStaged,
               Rollback, CommitRollback, RollbackRefused, RestoreLane, Remove, CheckRemove,
               Quarantine, DropRow, Purge, PutBack, Reinsert, HotSwap, Resolve,
               ResolveFails, SwapFails, Sync, SyncFails, Verify, VerifyFails, codeVars
        <4>2. CASE Settled
          BY <2>1, <4>1, <4>2 DEF SwapInv, Settled
        <4>3. CASE StillToSwap(o)
          <5>1. \/ Ends(o, "broken") \/ Waits(o)' \/ At(o, "undo")'
                \/ \E s \in Versions \cup {Packaged} : Resolve(o, s)
            BY <1>1, <3>3, <4>3, WaitersMove DEF StillToSwap, Waits, At
          <5>2. CASE \E s \in Versions \cup {Packaged} : Resolve(o, s)
            <6>1. Live(rows) = {} \/ (At(o, "swap")' /\ op'[o].sel \in Live(rows))
              BY <2>2, <5>2, ResolveFlat DEF To, At
            <6> QED BY <2>1, <6>1 DEF SwapInv, Settled, StillToSwap
          <5> QED BY <2>3, <5>1, <5>2 DEF SwapInv, StillToSwap
        <4> QED BY <1>2, <3>1, <4>2, <4>3 DEF SwapInv
      <3> QED BY <3>2, <3>3
    <2> QED BY <2>4, <2>5
  <1> QED BY <1>5, <1>6

LEMMA NextOverlap == TypeOK /\ LaneInv /\ OverlapInv /\ [Next]_vars => OverlapInv'
  <1> SUFFICES ASSUME TypeOK, LaneInv, OverlapInv, [Next]_vars, NoRemovals'
               PROVE  OnDisk' /\ OwnersInv' /\ SwapInv' /\ ChainInv'
    BY DEF OverlapInv
  <1>1. NoRemovals /\ OnDisk /\ OwnersInv /\ SwapInv /\ ChainInv
    BY NoRemovalsBefore DEF OverlapInv
  <1>2. Broken => Broken'
    BY BrokenStays DEF LaneInv
  <1>3. ASSUME NEW o \in Ops, Start(o)
        PROVE  OnDisk' /\ OwnersInv' /\ SwapInv' /\ ChainInv'
    <2>1. /\ Others(o) /\ op[o].pc = "new" /\ op'[o].pc \in {"stage", "load", "check"}
          /\ UNCHANGED <<rows, dirs, served>>
      BY <1>3, StartsFlat
         DEF Start, StartUpload, StartRollback, StartRemove, laneVars, codeVars
    <2>2. OnDisk' /\ OwnersInv'
      BY <1>1, <2>1, FilesKept DEF Shrinks, Owns
    <2>3. \A p \in Ops : /\ StillToSwap(p) => StillToSwap(p)'
                         /\ Waits(p) => Waits(p)'
                         /\ At(p, "swap")' => op'[p] = op[p]
      BY <2>1 DEF StillToSwap, Waits, At, Others
    <2>4. SwapInv' /\ ChainInv'
      BY <1>1, <1>2, <2>1, <2>3 DEF SwapInv, ChainInv, Settled, At
    <2> QED BY <2>2, <2>4
  <1>4. ASSUME NEW o \in Ops, Working(o)
        PROVE  OnDisk' /\ OwnersInv' /\ SwapInv' /\ ChainInv'
    <2>1. op[o].kind # "remove"
      BY <1>1 DEF NoRemovals
    <2> QED BY <1>1, <1>4, <2>1, OverlapFiles, OverlapCode
  <1>5. CASE Restart
    <2>1. \A o \in Ops : op'[o].pc \in {"new", "done"}
      <3>1. SUFFICES ASSUME NEW o \in Ops PROVE op'[o].pc \in {"new", "done"}
        OBVIOUS
      <3> QED BY <1>5, RestartFlat DEF InFlight, At, Ends
    <2>2. UNCHANGED <<rows, dirs>> /\ served' \in AtBoot
      BY <1>5 DEF Restart, laneVars
    <2>3. ~PointerBroken
      BY <1>1 DEF PointerBroken, OnDisk, Live, Known
    <2>4. Settled'
      BY <2>2, <2>3 DEF AtBoot, Selected, Settled
    <2> QED BY <1>1, <2>1, <2>2, <2>4 DEF OnDisk, OwnersInv, Owns, SwapInv, ChainInv, At
  <1>6. CASE World \/ UNCHANGED vars
    <2>1. UNCHANGED <<rows, dirs, op, served>>
      BY <1>6 DEF World, Renew, RefusedRequest, Lapse, Unmoved, vars, laneVars, codeVars
    <2> QED BY <1>1, <2>1 DEF OnDisk, OwnersInv, OwnsRow, Owns, SwapInv, ChainInv, Settled,
                              Broken, StillToSwap, Waits, At
  <1> QED BY <1>3, <1>4, <1>5, <1>6, NextCases DEF Working

-----------------------------------------------------------------------------
(* While leases last: at most one operation is at work, and what it has made *)
(* of the lane, the package and the served code is known at each point.      *)

Demotes(o) == \A w \in Versions : w # op[o].v => rows[w] = Demoted(op[o].before[w])
PutsLive(o, id) == rows[op[o].v].id = id /\ rows[op[o].v].status = "live"

\* An upload that has not committed, that has, and that took itself back.
Staging(o) ==
    op[o].kind = "upload" /\ ~op[o].mutated /\ ~op[o].back /\ ~Known(rows[op[o].v])
Uploaded(o) ==
    /\ op[o].kind = "upload" /\ op[o].mutated /\ ~op[o].back
    /\ op[o].v \in dirs /\ ~Known(op[o].before[op[o].v])
    /\ PutsLive(o, o) /\ Demotes(o)
    /\ \A w \in Versions : op[o].before[w].id # o
    /\ home = o => op[o].before = NoLane
Unuploaded(o) ==
    /\ op[o].kind = "upload" /\ op[o].mutated /\ op[o].back
    /\ rows = op[o].before /\ ~Known(rows[op[o].v])

\* The same for a rollback.
Loading(o) == op[o].kind = "rollback" /\ ~op[o].back /\ rows = op[o].before
RolledBack(o) ==
    /\ op[o].kind = "rollback" /\ ~op[o].back /\ op[o].v \in dirs
    /\ PutsLive(o, op[o].before[op[o].v].id) /\ Demotes(o)
RolledForth(o) ==
    op[o].kind = "rollback" /\ op[o].back /\ op[o].v \in dirs /\ rows = op[o].before

\* And for a removal, which takes its goal and its predecessor from the lane.
Removal(o) ==
    /\ op[o].kind = "remove" /\ Live(op[o].before) = {op[o].v}
    /\ op[o].prev # Packaged => op[o].before[op[o].prev].status = "rolled_back"
Quarantining(o) ==
    /\ Removal(o) /\ ~op[o].mutated /\ ~op[o].back /\ ~op[o].bad
    /\ rows = op[o].before /\ home = op[o].home
\* The version is the workflow's only one.
Only(o) == {w \in Versions : Known(op[o].before[w])} = {op[o].v}
Dropped(o) ==
    /\ home = IF Only(o) THEN Free ELSE op[o].home
    /\ \A w \in Versions :
         IF Only(o) \/ w = op[o].v THEN rows[w] = NoRow
         ELSE IF w = op[o].prev
           THEN rows[w].id = op[o].before[w].id /\ rows[w].status = "live"
           ELSE rows[w] = op[o].before[w]
Removed(o) == Removal(o) /\ op[o].mutated /\ ~op[o].back /\ Dropped(o)
Reinserted(o) ==
    /\ op[o].kind = "remove" /\ op[o].mutated /\ op[o].back
    /\ ~op[o].bad => rows = op[o].before /\ op[o].v \in dirs

\* Where each is at these stages.
UploadAt(o) ==
    \/ /\ Staging(o) /\ op[o].pc \in {"stage", "commit", "unstage"}
       /\ ~At(o, "stage") => op[o].v \in dirs
    \/ Uploaded(o) /\ op[o].pc \in {"rereg", "swap", "sync", "undo"}
    \/ /\ Unuploaded(o) /\ op[o].pc \in {"rmdir", "rereg", "swap", "sync"}
       /\ op[o].v \in dirs <=> At(o, "rmdir")
RollbackAt(o) ==
    \/ Loading(o) /\ At(o, "load")
    \/ RolledBack(o) /\ op[o].pc \in {"rereg", "swap", "sync", "verify", "undo"}
    \/ RolledForth(o) /\ op[o].pc \in {"rereg", "swap", "sync", "verify"}
RemoveAt(o) ==
    \/ /\ Quarantining(o) /\ op[o].pc \in {"check", "rename", "drop", "undo"}
       /\ ~At(o, "check") => Broken \/ served = op[o].v
       /\ op[o].pc \in {"rename", "drop"} => (op[o].sole <=> Only(o))
       /\ op[o].pc \in {"drop", "undo"} => o \in aside
    \/ /\ Removed(o) /\ op[o].pc \in {"rereg", "swap", "sync", "purge", "undo", "reinsert"}
       /\ IF At(o, "reinsert") THEN op[o].v \in dirs \/ (op[o].bad /\ o \in aside)
                               ELSE ~op[o].bad /\ o \in aside
    \/ Reinserted(o) /\ op[o].pc \in {"rereg", "swap", "sync"}

\* A selection is the live version until it is swapped in, and then served.
SwapAt(o) ==
    /\ At(o, "swap") =>
         Live(rows) \subseteq dirs /\ (Live(rows) # {} => op[o].sel \in Live(rows))
    /\ op[o].pc \in {"sync", "verify", "purge"} => Live(rows) \subseteq dirs /\ Settled

WorkAt(o) == (UploadAt(o) \/ RollbackAt(o) \/ RemoveAt(o)) /\ SwapAt(o)

\* The live version is served whenever nobody has changed the lane yet.
Calm(o) == op[o].pc \in {"new", "done", "stage", "commit", "unstage", "load", "check"}
Rested == Broken \/ Settled \/ PointerBroken
CalmInv == (\A o \in Ops : Calm(o)) => Rested

HeldInv == ~expired /\ \A o \in Ops : InFlight(o) => holder = o
WorkInv == \A o \in Ops : InFlight(o) => WorkAt(o)
CoveredInv == \A w \in Versions : Known(rows[w]) => w \in dirs \/ \E p \in aside : op[p].v = w

AloneInv == lapses = 0 => HeldInv /\ WorkInv /\ CoveredInv /\ CalmInv

-----------------------------------------------------------------------------
(* The compensations give back the lane the operation found. *)

LEMMA LaneEqual ==
  ASSUME NEW f \in [Versions -> RowType], NEW g \in [Versions -> RowType],
         \A w \in Versions : f[w] = g[w]
  PROVE  f = g
  OBVIOUS

\* Demoting a row and writing its status back changes nothing.
LEMMA Redemoted ==
  ASSUME NEW r \in RowType
  PROVE  /\ [Demoted(r) EXCEPT !.status = r.status] = r
         /\ Demoted(r) \in RowType /\ Demoted(r).id = r.id
         /\ Known(Demoted(r)) <=> Known(r)
         /\ Demoted(r).status # "live"
         /\ ~Known(r) => Demoted(Demoted(r)) = r
         /\ r.status # "live" => Demoted(r) = r
  BY DEF RowType, Statuses, Demoted, Known

LEMMA UndoRestores ==
  ASSUME TypeOK, TypeOK', LaneInv, NEW o \in Ops, Uploaded(o), UndoUpload(o)
  PROVE  rows' = op[o].before
  <1>1. /\ rows \in [Versions -> RowType] /\ op[o].before \in [Versions -> RowType]
        /\ rows' \in [Versions -> RowType] /\ op[o].v \in Versions
        /\ BlankLane(op[o].before)
    BY DEF TypeOK, OpType, LaneInv, BlankInv
  <1>2. ASSUME NEW w \in Versions PROVE rows'[w] = op[o].before[w]
    <2> DEFINE r == [rows[w] EXCEPT !.status = op[o].before[w].status]
    <2>1. rows'[w] = IF rows[w].id = o \/ home = o THEN NoRow
                     ELSE IF Kept(o, w) THEN r ELSE Demoted(rows[w])
      BY DEF UndoUpload
    <2>2. CASE w = op[o].v
      BY <1>1, <2>1, <2>2 DEF Uploaded, PutsLive, BlankLane
    <2>3. CASE w # op[o].v /\ home = o
      BY <2>1, <2>3 DEF Uploaded, NoLane
    <2>4. CASE w # op[o].v /\ home # o
      <3>1. rows[w] = Demoted(op[o].before[w]) /\ rows[w].id # o
        BY <1>1, <2>4, Redemoted DEF Uploaded, Demotes
      <3>2. r = op[o].before[w]
        BY <1>1, <3>1, Redemoted
      <3>3. Kept(o, w) <=> Known(op[o].before[w])
        BY <1>1, <3>1, Redemoted DEF Kept
      <3> HIDE DEF r
      <3> QED BY <1>1, <2>1, <2>4, <3>1, <3>2, <3>3, Redemoted
    <2> QED BY <2>2, <2>3, <2>4
  <1> QED BY <1>1, <1>2, LaneEqual

LEMMA RestoreRestores ==
  ASSUME TypeOK, LaneInv, NEW o \in Ops, RolledBack(o)
  PROVE  LaneBefore(o) = op[o].before
  <1>1. /\ rows \in [Versions -> RowType] /\ op[o].before \in [Versions -> RowType]
        /\ LaneBefore(o) \in [Versions -> RowType] /\ op[o].v \in Versions
        /\ Known(op[o].before[op[o].v])
    BY LanesTyped DEF TypeOK, OpType, LaneInv, RecordsInv, RecordOK, RolledBack
  <1>2. ASSUME NEW w \in Versions PROVE LaneBefore(o)[w] = op[o].before[w]
    <2>1. LaneBefore(o)[w] = IF Kept(o, w) THEN op[o].before[w] ELSE Demoted(rows[w])
      BY DEF LaneBefore
    <2>2. CASE w = op[o].v
      BY <1>1, <2>1, <2>2 DEF RolledBack, PutsLive, Kept, Known
    <2>3. CASE w # op[o].v
      <3>1. rows[w] = Demoted(op[o].before[w])
        BY <2>3 DEF RolledBack, Demotes
      <3>2. Kept(o, w) <=> Known(op[o].before[w])
        BY <1>1, <3>1, Redemoted DEF Kept
      <3> QED BY <1>1, <2>1, <3>1, <3>2, Redemoted
    <2> QED BY <2>2, <2>3
  <1> QED BY <1>1, <1>2, LaneEqual

\* The removal's transaction drops the row it means and no other.
LEMMA DropDrops ==
  ASSUME TypeOK, LaneInv, NEW o \in Ops, Quarantining(o), op[o].sole <=> Only(o),
         rows' = LaneWithout(o),
         home' = IF Emptied(o) THEN Free ELSE home
  PROVE  /\ home' = IF Only(o) THEN Free ELSE op[o].home
         /\ \A w \in Versions :
              IF Only(o) \/ w = op[o].v THEN rows'[w] = NoRow
              ELSE IF w = op[o].prev
                THEN rows'[w].id = op[o].before[w].id /\ rows'[w].status = "live"
                ELSE rows'[w] = op[o].before[w]
  <1>1. /\ rows \in [Versions -> RowType] /\ op[o].v \in Versions
        /\ rows = op[o].before /\ home = op[o].home
        /\ op[o].prev # Packaged => op[o].before[op[o].prev].status = "rolled_back"
    BY DEF TypeOK, OpType, Quarantining, Removal
  <1>2. Emptied(o) <=> Only(o)
    BY <1>1 DEF Emptied
  <1>3. ASSUME NEW w \in Versions
        PROVE  IF Only(o) \/ w = op[o].v THEN rows'[w] = NoRow
               ELSE IF w = op[o].prev
                 THEN rows'[w].id = op[o].before[w].id /\ rows'[w].status = "live"
                 ELSE rows'[w] = op[o].before[w]
    <2> DEFINE r == [rows[w] EXCEPT !.status = "live", !.at = clock + 1]
    <2>1. r.id = rows[w].id /\ r.status = "live"
      BY <1>1, RowWrites
    <2>2. rows'[w] = IF Emptied(o) THEN NoRow
                     ELSE IF rows[w].id = op[o].before[w].id /\ w = op[o].v THEN NoRow
                     ELSE IF w = op[o].prev /\ Kept(o, w) THEN r ELSE rows[w]
      BY DEF LaneWithout
    <2>3. w = op[o].prev => Kept(o, w)
      BY <1>1 DEF Kept, Known, Packaged, Versions
    <2> HIDE DEF r
    <2> QED BY <1>1, <1>2, <2>1, <2>2, <2>3
  <1> QED BY <1>1, <1>2, <1>3

LEMMA ReinsertRestores ==
  ASSUME TypeOK, LaneInv, NEW o \in Ops, Removed(o)
  PROVE  [LaneBefore(o) EXCEPT ![op[o].v] = op[o].before[op[o].v]] = op[o].before
  <1>1. /\ rows \in [Versions -> RowType] /\ op[o].before \in [Versions -> RowType]
        /\ LaneBefore(o) \in [Versions -> RowType] /\ op[o].v \in Versions
        /\ BlankLane(op[o].before)
    BY LanesTyped DEF TypeOK, OpType, LaneInv, BlankInv
  <1>2. Demoted(NoRow) = NoRow /\ ~Known(NoRow)
    BY DEF Demoted, NoRow, Known
  <1>3. ASSUME NEW w \in Versions, w # op[o].v PROVE LaneBefore(o)[w] = op[o].before[w]
    <2>1. LaneBefore(o)[w] = IF Kept(o, w) THEN op[o].before[w] ELSE Demoted(rows[w])
      BY DEF LaneBefore
    <2>2. CASE Only(o)
      <3>1. ~Known(op[o].before[w])
        BY <1>3, <2>2 DEF Only
      <3>2. rows[w] = NoRow
        BY <2>2 DEF Removed, Dropped
      <3> QED BY <1>1, <1>2, <2>1, <3>1, <3>2 DEF BlankLane
    <2>3. CASE ~Only(o) /\ w = op[o].prev
      <3>1. rows[w].id = op[o].before[w].id /\ rows[w].status = "live"
        BY <1>3, <2>3 DEF Removed, Dropped
      <3>2. op[o].before[w].status = "rolled_back"
        BY <2>3 DEF Removed, Removal, Packaged, Versions
      <3> QED BY <2>1, <3>1, <3>2 DEF Kept, Known
    <2>4. CASE ~Only(o) /\ w # op[o].prev
      <3>1. rows[w] = op[o].before[w]
        BY <1>3, <2>4 DEF Removed, Dropped
      <3>2. Known(rows[w]) => Kept(o, w)
        BY <3>1 DEF Kept
      <3> QED BY <1>1, <2>1, <3>1, <3>2, Redemoted DEF Kept, Known
    <2> QED BY <2>2, <2>3, <2>4
  <1>4. ASSUME NEW w \in Versions
        PROVE  [LaneBefore(o) EXCEPT ![op[o].v] = op[o].before[op[o].v]][w] = op[o].before[w]
    BY <1>1, <1>3
  <1>5. [LaneBefore(o) EXCEPT ![op[o].v] = op[o].before[op[o].v]] \in [Versions -> RowType]
    BY <1>1
  <1> QED BY <1>1, <1>4, <1>5, LaneEqual

-----------------------------------------------------------------------------
(* One step while leases last. *)

\* The lease row changes hands only when an operation begins or ends.
LEMMA WorkLease ==
  ASSUME TypeOK, NEW o \in Ops, Working(o)
  PROVE  \/ UNCHANGED <<holder, expired>>
         \/ op'[o].pc = "done" /\ expired' \in {FALSE, expired}
  <1>1. ASSUME NEW x, Finish(o, x)
        PROVE  op'[o].pc = "done" /\ expired' \in {FALSE, expired}
    BY <1>1, FinishFlat DEF Ends, Finish, Release
  <1>2. \A p : Continue(o, p) => \/ UNCHANGED <<holder, expired>>
                                 \/ \E x : Finish(o, x)
    BY DEF Continue, AssertOwnedFails, leaseVars
  <1>3. Fails(o) => UNCHANGED <<holder, expired>> \/ \E x : Finish(o, x)
    BY DEF Fails, leaseVars
  <1>4. UNCHANGED <<holder, expired>> \/ \E x : Finish(o, x)
    <2>1. CASE Upload(o)
      BY <2>1 DEF Upload, Stage, StageFails, CommitUpload, CommitUploadFails, Unstage,
                  UndoUpload, UndoUploadFails, RemoveStaged, leaseVars
    <2>2. CASE Rollback(o)
      BY <2>2 DEF Rollback, CommitRollback, RollbackRefused, RestoreLane, leaseVars
    <2>3. CASE Remove(o)
      BY <2>3 DEF Remove, CheckRemove, Quarantine, DropRow, Purge, PutBack, Reinsert,
                  leaseVars
    <2>4. CASE HotSwap(o)
      BY <1>2, <1>3, <2>4 DEF HotSwap, Resolve, ResolveFails, Swap, SwapFails, Sync,
                  SyncFails, Verify, VerifyFails, leaseVars
    <2> QED BY <2>1, <2>2, <2>3, <2>4 DEF Working
  <1> QED BY <1>1, <1>4

\* While leases last only the operation that holds the row is at work.
LEMMA NextHeld ==
  ASSUME TypeOK, HeldInv, [Next]_vars, lapses' = 0
  PROVE  HeldInv'
  <1>1. ~expired /\ \A p \in Ops : InFlight(p) => holder = p
    BY DEF HeldInv
  <1>2. ASSUME NEW o \in Ops, Start(o) PROVE HeldInv'
    <2>1. Acquire(o) /\ Others(o)
      BY <1>2, StartsFlat DEF Start, StartUpload, StartRollback, StartRemove
    <2>2. \A p \in Ops : ~InFlight(p)
      BY <1>1, <2>1, FreeAssumption DEF Acquire, Available
    <2> QED BY <2>1, <2>2 DEF HeldInv, Acquire, InFlight, At, Others
  <1>3. ASSUME NEW o \in Ops, Working(o) PROVE HeldInv'
    <2>1. Others(o) /\ op[o].pc \notin {"new", "done"}
      BY <1>3, WorkFields
    <2>2. \A p \in Ops : p # o => ~InFlight(p)
      BY <1>1, <2>1 DEF InFlight, At
    <2>3. \A p \in Ops : p # o => ~InFlight(p)'
      BY <2>1, <2>2 DEF InFlight, At, Others
    <2>4. expired' = FALSE /\ (holder' = holder \/ op'[o].pc = "done")
      BY <1>1, <1>3, WorkLease DEF TypeOK
    <2> QED BY <1>1, <2>1, <2>3, <2>4 DEF HeldInv, InFlight, At
  <1>4. CASE Restart
    <2>1. \A p \in Ops : ~InFlight(p)'
      BY <1>4, RestartFlat DEF InFlight, At, Ends
    <2> QED BY <1>1, <1>4, <2>1 DEF HeldInv, Restart
  <1>5. CASE World \/ UNCHANGED vars
    <2>1. op' = op
      BY <1>5 DEF World, Renew, RefusedRequest, Lapse, Unmoved, vars
    <2>2. ~Lapse
      BY DEF Lapse, TypeOK
    <2>3. expired = FALSE
      BY <1>1 DEF TypeOK
    <2>4. holder' = holder /\ expired' = FALSE
      BY <1>1, <1>5, <2>2, <2>3
         DEF World, Renew, RefusedRequest, RenewLease, RenewLeaseFails, vars, leaseVars
    <2> QED BY <1>1, <2>1, <2>4 DEF HeldInv, InFlight, At
  <1> QED BY <1>2, <1>3, <1>4, <1>5, NextCases DEF Working

\* The stages of an operation depend on its goal, the lane and the package.
SameFields(o) ==
    /\ SameGoal(o) /\ op'[o].before = op[o].before /\ op'[o].mutated = op[o].mutated
    /\ op'[o].back = op[o].back /\ op'[o].bad = op[o].bad

LEMMA StagesKept ==
  ASSUME NEW o \in Ops, SameFields(o), UNCHANGED <<rows, home>>
  PROVE  /\ Staging(o) => Staging(o)'
         /\ Uploaded(o) /\ op[o].v \in dirs' => Uploaded(o)'
         /\ Unuploaded(o) => Unuploaded(o)'
         /\ RolledBack(o) /\ op[o].v \in dirs' => RolledBack(o)'
         /\ RolledForth(o) /\ op[o].v \in dirs' => RolledForth(o)'
         /\ Quarantining(o) => Quarantining(o)'
         /\ Removed(o) => Removed(o)'
         /\ Reinserted(o) /\ (op[o].v \in dirs => op[o].v \in dirs') => Reinserted(o)'
  <1>1. /\ Staging(o) => Staging(o)'
        /\ Uploaded(o) /\ op[o].v \in dirs' => Uploaded(o)'
        /\ Unuploaded(o) => Unuploaded(o)'
    BY DEF SameFields, SameGoal, Staging, Uploaded, Unuploaded, PutsLive, Demotes
  <1>2. /\ RolledBack(o) /\ op[o].v \in dirs' => RolledBack(o)'
        /\ RolledForth(o) /\ op[o].v \in dirs' => RolledForth(o)'
    BY DEF SameFields, SameGoal, RolledBack, RolledForth, PutsLive, Demotes
  <1>3. /\ Quarantining(o) => Quarantining(o)'
        /\ Reinserted(o) /\ (op[o].v \in dirs => op[o].v \in dirs') => Reinserted(o)'
    BY DEF SameFields, SameGoal, Quarantining, Reinserted, Removal
  <1>4. Removed(o) => Removed(o)'
    BY DEF SameFields, SameGoal, Removed, Removal, Dropped, Only
  <1> QED BY <1>1, <1>2, <1>3, <1>4

\* A step of o keeps every known version covered if what it makes known or
\* takes from the disk is covered another way.
LEMMA CoveredKept ==
  ASSUME CoveredInv, aside \subseteq Ops, NEW o \in Ops, Others(o), op'[o].v = op[o].v,
         aside \ {o} \subseteq aside',
         \A w \in Versions : Known(rows'[w]) =>
            \/ w \in dirs'
            \/ o \in aside' /\ op[o].v = w
            \/ Known(rows[w]) /\ w \notin dirs /\ (o \notin aside \/ op[o].v # w)
  PROVE  CoveredInv'
  <1> SUFFICES ASSUME NEW w \in Versions, Known(rows'[w]), w \notin dirs'
               PROVE  \E p \in aside' : op'[p].v = w
    BY DEF CoveredInv
  <1>1. CASE o \in aside' /\ op[o].v = w
    BY <1>1
  <1>2. CASE Known(rows[w]) /\ w \notin dirs /\ (o \notin aside \/ op[o].v # w)
    <2>1. PICK p \in aside : op[p].v = w
      BY <1>2 DEF CoveredInv
    <2>2. p # o /\ p \in Ops
      BY <1>2, <2>1
    <2> QED BY <2>1, <2>2 DEF Others
  <1> QED BY <1>1, <1>2

\* What a step of o at work has to show.
StepAlone(o) ==
    /\ InFlight(o)' => WorkAt(o)'
    /\ CoveredInv'
    /\ Calm(o)' => Rested'

\* The operations one at a time, by kind.
LEMMA UploadAlone ==
  ASSUME TypeOK, TypeOK', LaneInv, NEW o \in Ops, Upload(o), WorkAt(o), CoveredInv,
         Calm(o) => Rested, Broken => Broken'
  PROVE  StepAlone(o)
  <1>1. /\ rows \in [Versions -> RowType] /\ op[o].before \in [Versions -> RowType]
        /\ rows' \in [Versions -> RowType] /\ op[o].v \in Versions
        /\ RecordOK(op[o]) /\ aside \subseteq Ops
        /\ Others(o) /\ SameGoal(o)
    BY WorkFields DEF TypeOK, OpType, LaneInv, RecordsInv, Working
  <1>2. UploadAt(o)
    <2>1. op[o].kind = "upload"
      BY <1>1 DEF Upload, Stage, StageFails, CommitUpload, CommitUploadFails, Unstage,
                  UndoUpload, UndoUploadFails, RemoveStaged, At, RecordOK
    <2> QED BY <2>1 DEF WorkAt, RollbackAt, RemoveAt, Loading, RolledBack, RolledForth,
                        Quarantining, Removed, Removal, Reinserted
  <1>3. /\ aside' = aside /\ served' = served
        /\ ~CommitUpload(o) /\ ~UndoUpload(o) => UNCHANGED <<rows, home>>
    BY DEF Upload, Stage, StageFails, CommitUpload, CommitUploadFails, Unstage, UndoUpload,
           UndoUploadFails, RemoveStaged, laneVars, codeVars
  <1>4. ASSUME dirs' = dirs, \A w \in Versions : Known(rows'[w]) =>
                                w \in dirs \/ Known(rows[w])
        PROVE  CoveredInv'
    BY <1>1, <1>3, <1>4, CoveredKept DEF SameGoal, CoveredInv
  <1>5. CASE StageFails(o) \/ CommitUploadFails(o)
    <2>1. /\ SameFields(o) /\ UNCHANGED <<rows, home, dirs>> /\ Calm(o)
          /\ op'[o].pc = "done" \/ (op'[o].pc = "unstage" /\ op[o].pc = "commit")
      <3>1. CASE StageFails(o)
        <4>1. Plain(o) /\ Ends(o, "failed")
          BY <3>1, FinishFlat DEF StageFails
        <4> QED BY <3>1, <4>1 DEF StageFails, At, Plain, Ends, SameFields, Calm, laneVars
      <3>2. CASE CommitUploadFails(o)
        <4>1. Plain(o) /\ To(o, "unstage")
          BY <3>2, StepFlat DEF CommitUploadFails
        <4> QED BY <3>2, <4>1
                DEF CommitUploadFails, At, Plain, To, SameFields, Calm, laneVars
      <3> QED BY <1>5, <3>1, <3>2
    <2>2. Staging(o) /\ (op[o].pc = "commit" => op[o].v \in dirs)
      BY <1>2, <2>1 DEF Calm, UploadAt, At
    <2>3. InFlight(o)' => WorkAt(o)'
      <3>1. Staging(o)'
        BY <2>1, <2>2, StagesKept
      <3> QED BY <1>1, <2>1, <2>2, <3>1 DEF InFlight, WorkAt, UploadAt, SwapAt, At, SameGoal
    <2>4. Rested'
      BY <1>3, <2>1 DEF Rested, Settled, PointerBroken, Live
    <2> QED BY <1>4, <2>1, <2>3, <2>4 DEF StepAlone
  <1>6. CASE Stage(o)
    <2>1. Plain(o) /\ To(o, "commit")
      BY <1>6, StepFlat DEF Stage
    <2>2. Staging(o) /\ At(o, "stage") /\ dirs' = dirs \cup {op[o].v} /\ UNCHANGED <<rows, home>>
      BY <1>2, <1>6 DEF Stage, UploadAt, At, laneVars
    <2>3. WorkAt(o)'
      <3>1. Staging(o)'
        BY <2>1, <2>2, StagesKept DEF Plain, SameFields
      <3> QED BY <1>1, <2>1, <2>2, <3>1 DEF WorkAt, UploadAt, SwapAt, At, SameGoal, To
    <2>4. Rested'
      BY <1>3, <2>2 DEF Rested, Settled, PointerBroken, Live, Staging, Known, Calm, At
    <2>5. CoveredInv'
      BY <1>1, <1>3, <2>2, CoveredKept DEF SameGoal, CoveredInv
    <2> QED BY <2>3, <2>4, <2>5 DEF StepAlone
  <1>7. CASE CommitUpload(o)
    <2> DEFINE r == [id |-> o, status |-> "live", at |-> clock + 1]
    <2>1. /\ op'[o].pc = "rereg" /\ op'[o].before = rows /\ op'[o].mutated
          /\ op'[o].back = op[o].back
      BY <1>7, CommitUploadFlat DEF To
    <2>2. /\ At(o, "commit") /\ dirs' = dirs /\ ~Known(rows[op[o].v])
          /\ home' = IF home = Free THEN o ELSE home
          /\ \A w \in Versions : rows'[w] = IF w = op[o].v THEN r ELSE Demoted(rows[w])
      BY <1>7 DEF CommitUpload
    <2>3. r.id = o /\ r.status = "live"
      OBVIOUS
    <2> HIDE DEF r
    <2>4. Staging(o) /\ op[o].v \in dirs
      BY <1>2, <2>2 DEF UploadAt, At
    <2>5. home # o /\ \A w \in Versions : rows[w].id # o
      BY <2>4 DEF LaneInv, FreshInv, Unspent, Traceless, Staging
    <2>6. home' = o => rows = NoLane
      BY <2>2, <2>5 DEF LaneInv, HomeInv
    <2>7. Uploaded(o)'
      BY <1>1, <2>1, <2>2, <2>3, <2>4, <2>5, <2>6
         DEF Uploaded, SameGoal, Staging, PutsLive, Demotes
    <2>8. WorkAt(o)'
      BY <2>1, <2>7 DEF WorkAt, UploadAt, SwapAt, At
    <2>9. CoveredInv'
      BY <1>1, <1>4, <2>2, <2>4, Redemoted
    <2> QED BY <2>1, <2>8, <2>9 DEF StepAlone, Calm
  <1>8. CASE Unstage(o) \/ RemoveStaged(o)
    <2>1. /\ SameFields(o) /\ UNCHANGED <<rows, home>> /\ op[o].pc \in {"unstage", "rmdir"}
          /\ \/ /\ dirs' = dirs \ {op[o].v}
                /\ \/ op[o].pc = "unstage" /\ Ends(o, "failed")
                   \/ op[o].pc = "rmdir" /\ To(o, "rereg")
             \/ dirs' = dirs /\ Ends(o, "broken")
      BY <1>3, <1>8, FinishFlat, StepFlat
         DEF Unstage, RemoveStaged, CommitUpload, UndoUpload, At, Plain, SameFields
    <2>2. IF op[o].pc = "unstage" THEN Staging(o) ELSE Unuploaded(o)
      BY <1>2, <2>1 DEF UploadAt, At
    <2>3. ~Known(rows[op[o].v])
      BY <2>2 DEF Staging, Unuploaded
    <2>4. CoveredInv'
      BY <1>1, <1>3, <2>1, <2>3, CoveredKept DEF SameGoal, CoveredInv
    <2>5. CASE Ends(o, "broken")
      BY <2>4, <2>5 DEF StepAlone, Ends, InFlight, At, Rested, Broken
    <2>6. CASE op[o].pc = "unstage" /\ Ends(o, "failed") /\ dirs' \subseteq dirs
      <3>1. Rested'
        BY <1>3, <2>1, <2>6 DEF Rested, Settled, PointerBroken, Live, Calm
      <3> QED BY <2>4, <2>6, <3>1 DEF StepAlone, Ends, InFlight, At
    <2>7. CASE op[o].pc = "rmdir" /\ To(o, "rereg") /\ dirs' = dirs \ {op[o].v}
      <3>1. Unuploaded(o)'
        BY <2>1, <2>2, <2>7, StagesKept
      <3>2. op'[o].v \notin dirs'
        BY <1>1, <2>7 DEF SameGoal
      <3> QED BY <2>4, <2>7, <3>1, <3>2 DEF StepAlone, To, WorkAt, UploadAt, SwapAt, At, Calm
    <2> QED BY <2>1, <2>5, <2>6, <2>7
  <1>9. CASE UndoUpload(o)
    <2>1. /\ SameGoal(o) /\ op'[o].pc = "rmdir" /\ op'[o].before = op[o].before
          /\ op'[o].mutated = op[o].mutated /\ op'[o].back = TRUE
      BY <1>9, BackFlat DEF UndoUpload, To
    <2>2. Uploaded(o) /\ dirs' = dirs
      BY <1>2, <1>9 DEF UndoUpload, UploadAt, At
    <2>3. rows' = op[o].before
      BY <1>9, <2>2, UndoRestores
    <2>4. Unuploaded(o)' /\ op'[o].v \in dirs'
      BY <2>1, <2>2, <2>3 DEF Unuploaded, Uploaded, SameGoal
    <2>5. CoveredInv'
      BY <1>1, <1>4, <2>2, <2>3, Redemoted DEF Uploaded, Demotes
    <2> QED BY <2>1, <2>4, <2>5 DEF StepAlone, WorkAt, UploadAt, SwapAt, At, Calm
  <1>10. CASE UndoUploadFails(o)
    <2>1. Ends(o, "broken") /\ UNCHANGED <<rows, dirs>>
      BY <1>10, FinishFlat DEF UndoUploadFails, laneVars
    <2> QED BY <1>4, <2>1 DEF StepAlone, Ends, InFlight, At, Rested, Broken
  <1> QED BY <1>5, <1>6, <1>7, <1>8, <1>9, <1>10 DEF Upload

LEMMA RollbackAlone ==
  ASSUME TypeOK, TypeOK', LaneInv, NEW o \in Ops, Rollback(o), WorkAt(o), CoveredInv,
         Calm(o) => Rested, Broken => Broken'
  PROVE  StepAlone(o)
  <1>1. /\ rows \in [Versions -> RowType] /\ op[o].before \in [Versions -> RowType]
        /\ op[o].v \in Versions /\ RecordOK(op[o]) /\ aside \subseteq Ops
        /\ Others(o) /\ SameGoal(o)
    BY WorkFields DEF TypeOK, OpType, LaneInv, RecordsInv, Working
  <1>2. RollbackAt(o)
    <2>1. op[o].kind = "rollback"
      BY <1>1 DEF Rollback, CommitRollback, RollbackRefused, RestoreLane, At, RecordOK
    <2> QED BY <2>1 DEF WorkAt, UploadAt, RemoveAt, Staging, Uploaded, Unuploaded,
                        Quarantining, Removed, Removal, Reinserted
  <1>3. aside' = aside /\ served' = served /\ dirs' = dirs /\ home' = home
    BY DEF Rollback, CommitRollback, RollbackRefused, RestoreLane, laneVars, codeVars
  <1>4. ASSUME \A w \in Versions : Known(rows'[w]) => w \in dirs \/ Known(rows[w])
        PROVE  CoveredInv'
    BY <1>1, <1>3, <1>4, CoveredKept DEF SameGoal, CoveredInv
  <1>5. CASE RollbackRefused(o)
    <2>1. Ends(o, "failed") /\ rows' = rows /\ Calm(o)
      BY <1>5, FinishFlat DEF RollbackRefused, laneVars, At, Calm
    <2>2. Rested'
      BY <1>3, <2>1 DEF Rested, Settled, PointerBroken, Live
    <2> QED BY <1>4, <2>1, <2>2 DEF StepAlone, Ends, InFlight, At
  <1>6. CASE CommitRollback(o)
    <2> DEFINE r == [rows[op[o].v] EXCEPT !.status = "live", !.at = clock + 1]
    <2>1. /\ op'[o].pc = "rereg" /\ op'[o].before = op[o].before /\ op'[o].mutated
          /\ op'[o].back = op[o].back
      BY <1>6, CommitRollbackFlat DEF To
    <2>2. /\ At(o, "load") /\ op[o].v \in dirs
          /\ \A w \in Versions : rows'[w] = IF w = op[o].v THEN r ELSE Demoted(rows[w])
      BY <1>6 DEF CommitRollback, Swappable
    <2>3. r.id = rows[op[o].v].id /\ r.status = "live"
      BY <1>1, RowWrites
    <2> HIDE DEF r
    <2>4. Loading(o)
      BY <1>2, <2>2 DEF RollbackAt, At
    <2>5. RolledBack(o)'
      BY <1>1, <1>3, <2>1, <2>2, <2>3, <2>4
         DEF Loading, RolledBack, SameGoal, PutsLive, Demotes
    <2>6. CoveredInv'
      BY <1>1, <1>4, <2>2, Redemoted
    <2> QED BY <2>1, <2>5, <2>6 DEF StepAlone, WorkAt, RollbackAt, SwapAt, At, Calm
  <1>7. CASE RestoreLane(o)
    <2>1. RolledBack(o)
      BY <1>2, <1>7 DEF RestoreLane, RollbackAt, At
    <2>2. CASE rows' = LaneBefore(o) /\ op' = [op EXCEPT ![o].pc = "rereg", ![o].back = TRUE]
      <3>1. /\ op'[o].pc = "rereg" /\ op'[o].before = op[o].before /\ op'[o].back = TRUE
        BY <2>2, BackFlat DEF To
      <3>2. rows' = op[o].before
        BY <2>1, <2>2, RestoreRestores
      <3>3. RolledForth(o)'
        BY <1>1, <1>3, <2>1, <3>1, <3>2 DEF RolledBack, RolledForth, SameGoal
      <3>4. CoveredInv'
        BY <1>1, <1>4, <2>1, <3>2, Redemoted DEF RolledBack, Demotes
      <3> QED BY <3>1, <3>3, <3>4 DEF StepAlone, WorkAt, RollbackAt, SwapAt, At, Calm
    <2>3. CASE Finish(o, "broken") /\ rows' = rows
      <3>1. Ends(o, "broken")
        BY <2>3, FinishFlat
      <3> QED BY <1>4, <2>3, <3>1 DEF StepAlone, Ends, InFlight, At, Rested, Broken
    <2> QED BY <1>7, <2>2, <2>3 DEF RestoreLane
  <1> QED BY <1>5, <1>6, <1>7 DEF Rollback

LEMMA RemoveAlone ==
  ASSUME TypeOK, TypeOK', LaneInv, NEW o \in Ops, Remove(o), WorkAt(o), CoveredInv,
         Calm(o) => Rested, Broken => Broken'
  PROVE  StepAlone(o)
  <1>1. /\ rows \in [Versions -> RowType] /\ op[o].before \in [Versions -> RowType]
        /\ op[o].v \in Versions /\ RecordOK(op[o]) /\ aside \subseteq Ops
        /\ op[o].bad \in BOOLEAN /\ Others(o) /\ SameGoal(o)
    BY WorkFields DEF TypeOK, OpType, LaneInv, RecordsInv, Working
  <1>2. RemoveAt(o)
    <2>1. op[o].kind = "remove"
      BY <1>1 DEF Remove, CheckRemove, Quarantine, DropRow, Purge, PutBack, Reinsert, At,
                  RecordOK
    <2> QED BY <2>1 DEF WorkAt, UploadAt, RollbackAt, Staging, Uploaded, Unuploaded,
                        Loading, RolledBack, RolledForth
  <1>3. served' = served
    BY DEF Remove, CheckRemove, Quarantine, DropRow, Purge, PutBack, Reinsert, codeVars
  <1>4. ASSUME UNCHANGED <<rows, dirs, aside>> PROVE CoveredInv'
    BY <1>1, <1>4, CoveredKept DEF SameGoal, CoveredInv
  <1>5. ASSUME Quarantining(o), rows' = rows, Broken \/ served = op[o].v PROVE Rested'
    BY <1>3, <1>5 DEF Rested, Settled, Quarantining, Removal
  <1>6. CASE CheckRemove(o)
    <2>1. /\ Quarantining(o) /\ At(o, "check") /\ UNCHANGED <<rows, home, dirs, aside>>
      BY <1>2, <1>6 DEF CheckRemove, RemoveAt, At, laneVars
    <2>2. CASE op' = [op EXCEPT ![o].pc = "rename", ![o].sole = Sole(o)] /\ Removable(o)
      <3>1. SameFields(o) /\ To(o, "rename") /\ op'[o].sole = Sole(o)
        BY <2>2, CheckFlat DEF SameFields
      <3>2. Quarantining(o)'
        BY <2>1, <3>1, StagesKept
      <3>3. op'[o].sole <=> Only(o)'
        <4>1. Sole(o) <=> Only(o)
          BY <1>1, <2>1 DEF Sole, Only, Quarantining, Removal, Live, Known
        <4>2. Only(o)' <=> Only(o)
          BY <3>1 DEF Only, SameFields, SameGoal
        <4> QED BY <3>1, <4>1, <4>2
      <3>4. Broken \/ served = op[o].v
        BY <2>1, <2>2 DEF Removable, Quarantining, Removal, Rested, Settled, PointerBroken,
                          Calm, At
      <3>5. WorkAt(o)'
        BY <1>1, <1>3, <3>1, <3>2, <3>4, <3>3 DEF WorkAt, RemoveAt, SwapAt, To, At, SameGoal
      <3> QED BY <1>4, <2>1, <3>1, <3>5 DEF StepAlone, To, Calm
    <2>3. CASE Finish(o, "failed")
      <3>1. Ends(o, "failed")
        BY <2>3, FinishFlat
      <3>2. Rested'
        BY <1>3, <2>1 DEF Rested, Settled, PointerBroken, Live, Calm, At
      <3> QED BY <1>4, <2>1, <3>1, <3>2 DEF StepAlone, Ends, InFlight, At
    <2> QED BY <1>6, <2>2, <2>3 DEF CheckRemove
  <1>7. CASE Quarantine(o)
    <2>1. /\ Quarantining(o) /\ At(o, "rename") /\ UNCHANGED <<rows, home>>
          /\ (Broken \/ served = op[o].v) /\ (op[o].sole <=> Only(o))
      BY <1>2, <1>7 DEF Quarantine, RemoveAt, At, laneVars
    <2>2. CASE /\ dirs' = dirs \ {op[o].v} /\ aside' = aside \cup {o}
               /\ \E p \in {"drop", "undo"} : Step(o, p)
      <3>0. PICK p \in {"drop", "undo"} : Step(o, p)
        BY <2>2
      <3>1. Plain(o) /\ To(o, p)
        BY <3>0, StepFlat
      <3>2. Quarantining(o)'
        BY <2>1, <3>1, StagesKept DEF Plain, SameFields
      <3>3. op'[o].sole <=> Only(o)'
        BY <2>1, <3>1 DEF Only, Plain, SameGoal
      <3>4. WorkAt(o)'
        BY <1>1, <1>3, <2>1, <2>2, <3>0, <3>1, <3>2, <3>3 DEF WorkAt, RemoveAt, SwapAt, To, At, SameGoal
      <3>5. CoveredInv'
        BY <1>1, <2>1, <2>2, CoveredKept DEF SameGoal, CoveredInv
      <3> QED BY <3>1, <3>4, <3>5 DEF StepAlone, To, Calm
    <2>3. CASE Finish(o, "failed") /\ UNCHANGED <<dirs, aside>>
      <3>1. Ends(o, "failed")
        BY <2>3, FinishFlat
      <3> QED BY <1>4, <1>5, <2>1, <2>3, <3>1 DEF StepAlone, Ends, InFlight, At
    <2> QED BY <1>7, <2>2, <2>3 DEF Quarantine
  <1>8. CASE DropRow(o)
    <2>1. /\ Quarantining(o) /\ At(o, "drop") /\ UNCHANGED <<dirs, aside>>
          /\ (Broken \/ served = op[o].v) /\ (op[o].sole <=> Only(o))
          /\ o \in aside
      BY <1>2, <1>8 DEF DropRow, RemoveAt, At
    <2>2. CASE /\ rows' = LaneWithout(o) /\ home' = IF Emptied(o) THEN Free ELSE home
               /\ op' = [op EXCEPT ![o].pc = "rereg", ![o].mutated = TRUE]
      <3>1. /\ op'[o].pc = "rereg" /\ op'[o].before = op[o].before /\ op'[o].mutated = TRUE
            /\ op'[o].back = op[o].back /\ op'[o].bad = op[o].bad
        BY <2>2, DropFlat DEF To
      <3>2. /\ home' = IF Only(o) THEN Free ELSE op[o].home
            /\ \A w \in Versions :
                 IF Only(o) \/ w = op[o].v THEN rows'[w] = NoRow
                 ELSE IF w = op[o].prev
                   THEN rows'[w].id = op[o].before[w].id /\ rows'[w].status = "live"
                   ELSE rows'[w] = op[o].before[w]
        BY <2>1, <2>2, DropDrops
      <3>3. Removed(o)'
        BY <1>1, <2>1, <3>1, <3>2 DEF Quarantining, Removed, Removal, Dropped, Only, SameGoal
      <3>4. ~op[o].bad
        BY <2>1 DEF Quarantining
      <3>5. WorkAt(o)'
        BY <2>1, <3>1, <3>3, <3>4 DEF WorkAt, RemoveAt, SwapAt, At
      <3>6. ASSUME NEW w \in Versions, Known(rows'[w]) PROVE Known(rows[w])
        <4>1. ~Known(NoRow)
          BY DEF NoRow, Known
        <4>2. w = op[o].prev => Known(rows[w])
          BY <2>1 DEF Quarantining, Removal, Known, Packaged, Versions
        <4> QED BY <2>1, <3>2, <3>6, <4>1, <4>2 DEF Quarantining
      <3>7. CoveredInv'
        BY <1>1, <2>1, <3>6, CoveredKept DEF SameGoal, CoveredInv
      <3> QED BY <3>1, <3>5, <3>7 DEF StepAlone, Calm
    <2>3. CASE UNCHANGED laneVars /\ Step(o, "undo")
      <3>1. Plain(o) /\ To(o, "undo")
        BY <2>3, StepFlat
      <3>2. Quarantining(o)'
        BY <2>1, <2>3, <3>1, StagesKept DEF Plain, SameFields, laneVars
      <3>3. WorkAt(o)'
        BY <1>1, <1>3, <2>1, <3>1, <3>2 DEF WorkAt, RemoveAt, SwapAt, To, At, SameGoal
      <3> QED BY <1>4, <2>1, <2>3, <3>1, <3>3 DEF StepAlone, To, Calm, laneVars
    <2> QED BY <1>8, <2>2, <2>3 DEF DropRow
  <1>9. CASE Purge(o)
    <2>1. Removed(o) /\ Settled /\ UNCHANGED <<rows, dirs>>
      BY <1>2, <1>9 DEF Purge, RemoveAt, SwapAt, WorkAt, Quarantining, At, laneVars
    <2>2. op'[o].pc = "done" /\ aside' \in {aside, aside \ {o}}
      BY <1>9, FinishFlat DEF Purge, Ends
    <2>3. ~Known(rows[op[o].v])
      BY <1>1, <2>1 DEF Removed, Dropped, NoRow, Known
    <2>4. CoveredInv'
      BY <1>1, <2>1, <2>2, <2>3, CoveredKept DEF SameGoal, CoveredInv
    <2>5. Settled'
      BY <1>3, <2>1 DEF Settled, Live
    <2> QED BY <2>2, <2>4, <2>5 DEF StepAlone, InFlight, At, Rested
  <1>10. CASE PutBack(o)
    <2>1. /\ At(o, "undo") /\ UNCHANGED <<rows, home>>
          /\ \/ dirs' = dirs \cup {op[o].v} /\ aside' = aside \ {o}
             \/ UNCHANGED <<dirs, aside>>
      BY <1>10 DEF PutBack, laneVars
    <2>2. CoveredInv'
      BY <1>1, <2>1, CoveredKept DEF SameGoal, CoveredInv
    <2>3. CASE op[o].mutated
      <3>1. PICK b \in BOOLEAN : /\ op' = [op EXCEPT ![o].pc = "reinsert", ![o].bad = b]
                                 /\ b => UNCHANGED aside \/ op[o].v \in dirs'
                                 /\ ~b => op[o].v \in dirs'
        BY <1>10, <2>3 DEF PutBack
      <3>2. /\ To(o, "reinsert") /\ op'[o].before = op[o].before
            /\ op'[o].mutated = op[o].mutated
            /\ op'[o].back = op[o].back /\ op'[o].bad = b
        BY <3>1, BadFlat
      <3>3. Removed(o) /\ o \in aside
        BY <1>2, <2>1, <2>3 DEF RemoveAt, Quarantining, At
      <3>4. Removed(o)'
        BY <1>1, <2>1, <3>2, <3>3 DEF Removed, Removal, Dropped, Only, SameGoal
      <3>5. WorkAt(o)'
        BY <1>1, <3>1, <3>2, <3>3, <3>4 DEF WorkAt, RemoveAt, SwapAt, To, At, SameGoal
      <3> QED BY <2>2, <3>2, <3>5 DEF StepAlone, To, Calm
    <2>4. CASE ~op[o].mutated
      <3>1. Quarantining(o) /\ (Broken \/ served = op[o].v)
        BY <1>2, <2>1, <2>4 DEF RemoveAt, Removed, At
      <3>2. op'[o].pc = "done"
        BY <1>10, <2>4, FinishFlat DEF PutBack, Ends
      <3> QED BY <1>5, <2>1, <2>2, <3>1, <3>2 DEF StepAlone, InFlight, At
    <2> QED BY <2>3, <2>4
  <1>11. CASE Reinsert(o)
    <2>1. /\ Removed(o) /\ At(o, "reinsert") /\ UNCHANGED <<dirs, aside>>
          /\ op[o].v \in dirs \/ (op[o].bad /\ o \in aside)
      BY <1>2, <1>11 DEF Reinsert, RemoveAt, At
    <2>2. CASE /\ rows' = [LaneBefore(o) EXCEPT ![op[o].v] = op[o].before[op[o].v]]
               /\ op' = [op EXCEPT ![o].pc = "rereg", ![o].back = TRUE]
      <3>1. /\ To(o, "rereg") /\ op'[o].before = op[o].before
            /\ op'[o].mutated = op[o].mutated
            /\ op'[o].back = TRUE /\ op'[o].bad = op[o].bad
        BY <2>2, BackFlat
      <3>2. rows' = op[o].before
        BY <2>1, <2>2, ReinsertRestores
      <3>3. Reinserted(o)'
        BY <1>1, <2>1, <3>1, <3>2 DEF Reinserted, Removed, Removal, SameGoal
      <3>4. WorkAt(o)'
        BY <3>1, <3>3 DEF WorkAt, RemoveAt, SwapAt, To, At
      <3>5. ASSUME NEW w \in Versions, Known(rows'[w]), w # op[o].v PROVE Known(rows[w])
        BY <1>1, <2>1, <3>2, <3>5 DEF Removed, Dropped, Only, Known
      <3>6. CoveredInv'
        BY <1>1, <2>1, <3>5, CoveredKept DEF SameGoal, CoveredInv
      <3> QED BY <3>1, <3>4, <3>6 DEF StepAlone, To, Calm
    <2>3. CASE /\ UNCHANGED <<rows, home>>
               /\ op' = [op EXCEPT ![o].pc = "rereg", ![o].back = TRUE, ![o].bad = TRUE]
      <3>1. /\ To(o, "rereg") /\ op'[o].mutated = op[o].mutated
            /\ op'[o].back = TRUE /\ op'[o].bad = TRUE
        BY <2>3, BackBadFlat
      <3>2. Reinserted(o)'
        BY <1>1, <2>1, <3>1 DEF Reinserted, Removed, Removal, SameGoal
      <3>3. WorkAt(o)'
        BY <3>1, <3>2 DEF WorkAt, RemoveAt, SwapAt, To, At
      <3> QED BY <1>4, <2>1, <2>3, <3>1, <3>3 DEF StepAlone, To, Calm
    <2> QED BY <1>11, <2>2, <2>3 DEF Reinsert
  <1> QED BY <1>6, <1>7, <1>8, <1>9, <1>10, <1>11 DEF Remove

\* A swap leaves rows and files: it has the live version served once it is in.
LEMMA HotSwapAlone ==
  ASSUME TypeOK, LaneInv, NEW o \in Ops, HotSwap(o), WorkAt(o), CoveredInv,
         Broken => Broken'
  PROVE  StepAlone(o)
  <1>1. HotSwapMoves(o) /\ RecordOK(op[o]) /\ aside \subseteq Ops
    BY HotSwapFlat DEF LaneInv, RecordsInv, TypeOK
  <1>2. SameFields(o) /\ Others(o) /\ UNCHANGED <<rows, home, dirs, aside>>
    BY <1>1 DEF HotSwapMoves, SameFields
  <1>3. CoveredInv'
    BY <1>1, <1>2, CoveredKept DEF SameFields, SameGoal, CoveredInv
  <1>4. op[o].pc \in {"rereg", "swap", "sync", "verify"}
    BY <1>1 DEF HotSwapMoves
  <1>5. \/ Uploaded(o)
        \/ Unuploaded(o) /\ op[o].v \notin dirs
        \/ RolledBack(o) \/ RolledForth(o)
        \/ Removed(o) /\ ~op[o].bad /\ o \in aside
        \/ Reinserted(o)
    BY <1>4 DEF WorkAt, UploadAt, RollbackAt, RemoveAt, At
  <1>6. op[o].pc \in {"swap", "sync", "verify"} /\ ~Swap(o) => served' = served
    BY DEF HotSwap, Resolve, ResolveFails, SwapFails, Sync, SyncFails, Verify, VerifyFails,
           codeVars, At
  <1>7. SwapAt(o)' /\ (op'[o].pc = "done" => Settled' \/ Broken')
    <2>1. CASE At(o, "rereg") /\ To(o, "swap")
      <3>1. PICK s \in Versions \cup {Packaged} : Resolve(o, s)
        <4>1. \A x : ~Finish(o, x) /\ ~Step(o, "undo")
          BY <2>1, FinishFlat, StepFlat DEF To, Ends
        <4>2. ~Fails(o)
          BY <4>1 DEF Fails
        <4> QED BY <2>1, <4>2 DEF HotSwap, ResolveFails, Swap, SwapFails, Sync, SyncFails,
                                 Verify, VerifyFails, At
      <3>2. op'[o].sel = s
        BY <3>1, ResolveFlat
      <3>3. Live(rows) \subseteq dirs /\ (Live(rows) # {} => s \in Live(rows))
        BY <3>1 DEF Resolve, Selected, PointerBroken
      <3> QED BY <1>2, <2>1, <3>2, <3>3 DEF SwapAt, To, At, Live
    <2>2. CASE At(o, "swap") /\ To(o, "sync")
      <3>1. Swap(o)
        <4>1. \A x : ~Finish(o, x) /\ ~Step(o, "undo")
          BY <2>2, FinishFlat, StepFlat DEF To, Ends
        <4>2. ~Fails(o)
          BY <4>1 DEF Fails
        <4> QED BY <2>2, <4>2 DEF HotSwap, Resolve, ResolveFails, SwapFails, Sync, SyncFails,
                                 Verify, VerifyFails, At
      <3>2. Live(rows) \subseteq dirs /\ (Live(rows) # {} => op[o].sel \in Live(rows))
        BY <2>2 DEF WorkAt, SwapAt
      <3>3. Settled'
        BY <1>2, <3>1, <3>2 DEF Swap, Loaded, Settled, Live
      <3> QED BY <1>2, <2>2, <3>2, <3>3 DEF SwapAt, To, At, Live
    <2>3. CASE op[o].pc \in {"sync", "verify"}
      <3>1. Live(rows) \subseteq dirs /\ Settled
        BY <2>3 DEF WorkAt, SwapAt
      <3>2. ~Swap(o)
        BY <2>3 DEF Swap, At
      <3>3. Settled' /\ Live(rows') \subseteq dirs'
        BY <1>2, <1>6, <2>3, <3>1, <3>2 DEF Settled, Live
      <3>4. op'[o].pc # "swap"
        BY <1>1, <2>3 DEF HotSwapMoves, To, Ends, At
      <3> QED BY <3>3, <3>4 DEF SwapAt, At
    <2>4. CASE To(o, "undo")
      BY <2>4 DEF SwapAt, To, At
    <2>5. CASE Ends(o, "broken")
      BY <2>5 DEF SwapAt, Ends, At, Broken
    <2> QED BY <1>1, <2>1, <2>2, <2>3, <2>4, <2>5 DEF HotSwapMoves, At
  <1>8. InFlight(o)' => (UploadAt(o) \/ RollbackAt(o) \/ RemoveAt(o))'
    <2>1. op'[o].v = op[o].v /\ op'[o].kind = op[o].kind /\ op'[o].bad = op[o].bad
      BY <1>2 DEF SameFields, SameGoal
    <2>2. op[o].v \in dirs => op[o].v \in dirs'
      BY <1>2
    <2>3. /\ op'[o].pc \in {"swap", "sync", "verify", "purge", "undo", "done"}
          /\ op'[o].pc = "verify" => op[o].kind = "rollback"
          /\ op'[o].pc = "purge" => op[o].kind = "remove" /\ ~op[o].back
          /\ op'[o].pc = "undo" => ~op[o].back
      BY <1>1 DEF HotSwapMoves, To, Ends, At, RecordOK
    <2>4. CASE Uploaded(o)
      <3>1. Uploaded(o)' /\ op[o].kind = "upload"
        BY <1>2, <2>2, <2>4, StagesKept DEF Uploaded
      <3> QED BY <2>3, <3>1 DEF UploadAt, InFlight, At
    <2>5. CASE Unuploaded(o) /\ op[o].v \notin dirs
      <3>1. Unuploaded(o)' /\ op[o].kind = "upload" /\ op[o].back
        BY <1>2, <2>5, StagesKept DEF Unuploaded
      <3>2. op'[o].v \notin dirs'
        BY <1>2, <2>1, <2>5
      <3> QED BY <2>3, <3>1, <3>2 DEF UploadAt, InFlight, At
    <2>6. CASE RolledBack(o)
      <3>1. RolledBack(o)' /\ op[o].kind = "rollback"
        BY <1>2, <2>2, <2>6, StagesKept DEF RolledBack
      <3> QED BY <2>3, <3>1 DEF RollbackAt, InFlight, At
    <2>7. CASE RolledForth(o)
      <3>1. RolledForth(o)' /\ op[o].kind = "rollback" /\ op[o].back
        BY <1>2, <2>2, <2>7, StagesKept DEF RolledForth
      <3> QED BY <2>3, <3>1 DEF RollbackAt, InFlight, At
    <2>8. CASE Removed(o) /\ ~op[o].bad /\ o \in aside
      <3>1. Removed(o)' /\ op[o].kind = "remove" /\ ~op'[o].bad /\ o \in aside'
        BY <1>2, <2>1, <2>8, StagesKept DEF Removed, Removal
      <3> QED BY <2>3, <3>1 DEF RemoveAt, InFlight, At
    <2>9. CASE Reinserted(o)
      <3>1. Reinserted(o)' /\ op[o].kind = "remove" /\ op[o].back
        BY <1>2, <2>2, <2>9, StagesKept DEF Reinserted
      <3> QED BY <2>3, <3>1 DEF RemoveAt, InFlight, At
    <2> QED BY <1>5, <2>4, <2>5, <2>6, <2>7, <2>8, <2>9
  <1>9. Calm(o)' => op'[o].pc = "done"
    BY <1>1 DEF HotSwapMoves, To, Ends, At, Calm
  <1> QED BY <1>3, <1>7, <1>8, <1>9 DEF StepAlone, WorkAt, Rested

\* An operation begins beside none and finds the lane at rest.
LEMMA StartAlone ==
  ASSUME TypeOK, OneInv, LaneInv, NEW o \in Ops, Start(o), CoveredInv, Rested,
         Broken => Broken'
  PROVE  StepAlone(o)
  <1>1. /\ Others(o) /\ op[o].pc = "new" /\ ~op'[o].mutated /\ ~op'[o].back /\ ~op'[o].bad
        /\ \/ /\ op'[o].kind = "upload" /\ op'[o].pc = "stage" /\ ~Known(rows[op'[o].v])
           \/ /\ op'[o].kind = "rollback" /\ op'[o].pc = "load" /\ op'[o].before = rows
           \/ /\ op'[o].kind = "remove" /\ op'[o].pc = "check"
              /\ op'[o].before = rows /\ op'[o].home = home
              /\ op'[o].v \in Live(rows) /\ Previous(op'[o].prev)
    BY StartsFlat
  <1>2. UNCHANGED <<rows, home, dirs, aside, served>>
    BY DEF Start, StartUpload, StartRollback, StartRemove, laneVars, codeVars
  <1>3. CoveredInv'
    <2>1. o \notin aside /\ aside \subseteq Ops
      BY <1>1 DEF LaneInv, AsideInv, TypeOK, At
    <2> QED BY <1>1, <1>2, <2>1 DEF CoveredInv, Others
  <1>4. Rested'
    BY <1>2 DEF Rested, Settled, PointerBroken, Live
  <1>5. WorkAt(o)'
    <2>1. CASE op'[o].kind = "upload"
      BY <1>1, <1>2, <2>1 DEF WorkAt, UploadAt, Staging, SwapAt, At
    <2>2. CASE op'[o].kind = "rollback"
      BY <1>1, <1>2, <2>2 DEF WorkAt, RollbackAt, Loading, SwapAt, At
    <2>3. CASE op'[o].kind = "remove"
      <3>1. Live(rows) = {op'[o].v}
        BY <1>1, <2>3 DEF OneInv, OneLive, OneLiveIndex
      <3>2. op'[o].prev # Packaged => rows[op'[o].prev].status = "rolled_back"
        BY <1>1, <2>3 DEF Previous
      <3>3. Quarantining(o)'
        BY <1>1, <1>2, <2>3, <3>1, <3>2 DEF Quarantining, Removal
      <3> QED BY <1>1, <2>3, <3>3 DEF WorkAt, RemoveAt, SwapAt, At
    <2> QED BY <1>1, <2>1, <2>2, <2>3
  <1> QED BY <1>3, <1>4, <1>5 DEF StepAlone

LEMMA WorkAlone ==
  ASSUME TypeOK, TypeOK', LaneInv, NEW o \in Ops, Working(o), WorkAt(o), CoveredInv,
         Calm(o) => Rested, Broken => Broken'
  PROVE  StepAlone(o)
  BY UploadAlone, RollbackAlone, RemoveAlone, HotSwapAlone DEF Working

LEMMA InitAlone == Init => AloneInv
  <1> SUFFICES ASSUME Init PROVE HeldInv /\ WorkInv /\ CoveredInv /\ CalmInv
    BY DEF AloneInv
  <1>1. \A o \in Ops : op[o].pc = "new"
    BY DEF Init, NewOp, Begun
  <1>2. HeldInv /\ WorkInv
    BY <1>1 DEF Init, LeaseInit, HeldInv, WorkInv, InFlight, At
  <1>3. CoveredInv
    BY DEF Init, CoveredInv, Known
  <1>4. Rested
    BY DEF Init, Rested, Settled, PointerBroken, AtBoot, Selected
  <1> QED BY <1>2, <1>3, <1>4 DEF CalmInv

LEMMA NextAlone == TypeOK /\ OneInv /\ LaneInv /\ AloneInv /\ [Next]_vars => AloneInv'
  <1> SUFFICES ASSUME TypeOK, OneInv, LaneInv, AloneInv, [Next]_vars, lapses' = 0
               PROVE  HeldInv' /\ WorkInv' /\ CoveredInv' /\ CalmInv'
    BY DEF AloneInv
  <1>1. lapses = 0
    <2>1. lapses' \in {lapses, lapses + 1} /\ lapses \in Nat
      <3>1. lapses \in Nat
        BY BoundsAssumption DEF TypeOK
      <3>2. UNCHANGED bounds \/ Fault => lapses' = lapses
        BY DEF bounds, Fault
      <3>3. CASE \E o \in Ops : Upload(o) \/ Start(o)
        BY <3>2, <3>3 DEF Start, StartUpload, StartRollback, StartRemove, Upload, Stage,
                 StageFails, CommitUpload, CommitUploadFails, Unstage, UndoUpload, UndoUploadFails,
                 RemoveStaged
      <3>4. CASE \E o \in Ops : Rollback(o) \/ Remove(o)
        BY <3>2, <3>4 DEF Rollback, CommitRollback, RollbackRefused, RestoreLane, Remove,
                 CheckRemove, Quarantine, DropRow, Purge, PutBack, Reinsert
      <3>5. CASE \E o \in Ops : HotSwap(o)
        BY <3>2, <3>5 DEF HotSwap, Resolve, ResolveFails, Swap, SwapFails, Sync, SyncFails,
                 Verify, VerifyFails
      <3>6. CASE (\E o \in Ops : Renew(o)) \/ RefusedRequest \/ UNCHANGED vars
        BY <3>2, <3>6 DEF Renew, RefusedRequest, vars
      <3>7. CASE Lapse \/ Restart
        BY <3>1, <3>7 DEF Lapse, Restart
      <3> QED BY <3>1, <3>3, <3>4, <3>5, <3>6, <3>7, NextCases DEF World
    <2> QED BY <2>1
  <1>2. HeldInv /\ WorkInv /\ CoveredInv /\ CalmInv
    BY <1>1 DEF AloneInv
  <1>3. HeldInv' /\ TypeOK' /\ (Broken => Broken')
    BY <1>2, NextHeld, NextTyped, BrokenStays DEF LaneInv
  <1>4. \A p, q \in Ops : InFlight(p) /\ InFlight(q) => p = q
    BY <1>2 DEF HeldInv
  <1>5. \A p \in Ops : ~InFlight(p) => Calm(p)
    BY DEF InFlight, Calm, At
  <1>6. ASSUME NEW o \in Ops, Others(o), StepAlone(o), \A p \in Ops : p # o => ~InFlight(p)
        PROVE  WorkInv' /\ CoveredInv' /\ CalmInv'
    <2>1. \A p \in Ops : p # o => ~InFlight(p)'
      BY <1>6 DEF Others, InFlight, At
    <2> QED BY <1>6, <2>1 DEF StepAlone, WorkInv, CalmInv
  <1>7. ASSUME NEW o \in Ops, Start(o) PROVE WorkInv' /\ CoveredInv' /\ CalmInv'
    <2>1. Others(o) /\ \A p \in Ops : ~InFlight(p)
      <3>1. Acquire(o) /\ Others(o)
        BY <1>7, StartsFlat DEF Start, StartUpload, StartRollback, StartRemove
      <3> QED BY <1>2, <3>1, FreeAssumption DEF Acquire, Available, HeldInv
    <2>2. Rested
      BY <1>2, <1>5, <2>1 DEF CalmInv
    <2> QED BY <1>2, <1>3, <1>6, <1>7, <2>1, <2>2, StartAlone
  <1>8. ASSUME NEW o \in Ops, Working(o) PROVE WorkInv' /\ CoveredInv' /\ CalmInv'
    <2>1. Others(o) /\ InFlight(o)
      BY <1>8, WorkFields DEF InFlight, At
    <2>2. WorkAt(o) /\ \A p \in Ops : p # o => ~InFlight(p)
      BY <1>2, <1>4, <2>1 DEF WorkInv
    <2>3. Calm(o) => Rested
      BY <1>2, <1>5, <2>2 DEF CalmInv
    <2> QED BY <1>2, <1>3, <1>6, <1>8, <2>1, <2>2, <2>3, WorkAlone
  <1>9. CASE Restart
    <2>1. UNCHANGED <<rows, dirs, aside>> /\ served' \in AtBoot
      BY <1>9 DEF Restart, laneVars
    <2>2. \A p \in Ops : ~InFlight(p)' /\ op'[p].v = op[p].v
      BY <1>9, RestartFlat DEF InFlight, At, Ends, SameGoal
    <2>3. CoveredInv'
      BY <1>2, <2>1, <2>2 DEF CoveredInv, TypeOK
    <2>4. Rested'
      BY <2>1 DEF AtBoot, Selected, Rested, Settled, PointerBroken, Live
    <2> QED BY <1>3, <2>2, <2>3, <2>4 DEF WorkInv, CalmInv
  <1>10. CASE World \/ UNCHANGED vars
    <2>1. UNCHANGED <<rows, home, dirs, aside, op, served>>
      BY <1>10 DEF World, Renew, RefusedRequest, Lapse, Unmoved, vars, laneVars, codeVars
    <2>2. CoveredInv' /\ (Rested => Rested')
      BY <1>2, <2>1 DEF CoveredInv, Rested, Broken, Settled, PointerBroken, Live
    <2>3. \A p \in Ops : SameFields(p) /\ op'[p] = op[p]
      BY <2>1 DEF SameFields, SameGoal
    <2>4. ASSUME NEW p \in Ops, InFlight(p)' PROVE WorkAt(p)'
      <3>1. InFlight(p) /\ WorkAt(p)
        BY <1>2, <2>1, <2>4 DEF WorkInv, InFlight, At
      <3>2. UploadAt(p) => UploadAt(p)'
        BY <2>1, <2>3, StagesKept DEF UploadAt, Uploaded, At
      <3>3. RollbackAt(p) => RollbackAt(p)'
        BY <2>1, <2>3, StagesKept DEF RollbackAt, RolledBack, RolledForth, Loading, At
      <3>4. RemoveAt(p) => RemoveAt(p)'
        BY <2>1, <2>3, StagesKept DEF RemoveAt, At, Broken, Only
      <3>5. SwapAt(p)'
        BY <2>1, <3>1 DEF WorkAt, SwapAt, At, Settled, Live
      <3> QED BY <3>1, <3>2, <3>3, <3>4, <3>5 DEF WorkAt
    <2>5. CalmInv'
      BY <1>2, <2>1, <2>2 DEF CalmInv, Calm
    <2> QED BY <1>3, <2>2, <2>4, <2>5 DEF WorkInv
  <1> QED BY <1>3, <1>7, <1>8, <1>9, <1>10, NextCases DEF Working

-----------------------------------------------------------------------------
(* The theorems. *)

CodeInv == TypeOK /\ OneInv /\ LaneInv /\ OverlapInv /\ AloneInv

\* The accounts hold in every reachable state.
THEOREM LaneAccounts == Spec => []CodeInv
  <1>1. Init => CodeInv
    BY InitTyped, InitOne, InitLane, InitOverlap, InitAlone DEF CodeInv
  <1>2. CodeInv /\ [Next]_vars => CodeInv'
    BY NextTyped, NextOne, NextLane, NextOverlap, NextAlone DEF CodeInv
  <1> QED BY <1>1, <1>2, PTL DEF Spec

\* While leases last at most one upload, rollback or removal is at work, and
\* it holds the lease row (withDurableLease, durable-lease.ts).
THEOREM OneAtWork ==
  Spec => [](lapses = 0 => \A o \in Ops : InFlight(o) => holder = o)
  <1>1. CodeInv => (lapses = 0 => \A o \in Ops : InFlight(o) => holder = o)
    BY DEF CodeInv, AloneInv, HeldInv
  <1> QED BY <1>1, LaneAccounts, PTL

\* The package of the live version is in its directory or in quarantine:
\* neither the cleanup of a failed upload, nor a compensation, nor the purge
\* of a removal that succeeded destroys it (tenant-code.ts).
THEOREM LivePackageKept == Spec => []PackageKept
  <1>1. CodeInv => PackageKept
    <2> SUFFICES ASSUME CodeInv, RemovalsAlone, NEW v \in Live(rows)
                 PROVE  v \in dirs \/ \E o \in aside : op[o].v = v
      BY DEF PackageKept
    <2>1. v \in Versions /\ Known(rows[v])
      BY DEF Live, Known
    <2>2. CASE lapses = 0
      BY <2>1, <2>2 DEF CodeInv, AloneInv, CoveredInv
    <2>3. CASE \A o \in Ops : op[o].kind # "remove"
      BY <2>1, <2>3 DEF CodeInv, OverlapInv, NoRemovals, OnDisk
    <2> QED BY <2>2, <2>3 DEF RemovalsAlone
  <1> QED BY <1>1, LaneAccounts, PTL

\* When every operation has ended and none reported a broken recovery, the
\* tenant runs the version the live row names (reregister, bootstrap.ts).
THEOREM QuietTenantServesLive == Spec => []ServedIsLive
  <1>1. CodeInv => ServedIsLive
    <2> SUFFICES ASSUME CodeInv, Quiet, RemovalsAlone, Live(rows) # {}, ~PointerBroken
                 PROVE  served \in Live(rows)
      BY DEF ServedIsLive
    <2>1. ~Broken /\ \A o \in Ops : op[o].pc \in {"new", "done"}
      BY DEF Quiet, Broken, InFlight, At
    <2>2. CASE lapses = 0
      BY <2>1, <2>2 DEF CodeInv, AloneInv, CalmInv, Calm, Rested, Settled
    <2>3. CASE \A o \in Ops : op[o].kind # "remove"
      BY <2>1, <2>3 DEF CodeInv, OverlapInv, NoRemovals, SwapInv, StillToSwap, Waits, At,
                        Settled
    <2> QED BY <2>2, <2>3 DEF RemovalsAlone
  <1> QED BY <1>1, LaneAccounts, PTL

\* The steps on which an operation answers success or a restoration.
LEMMA Answers ==
  ASSUME TypeOK, LaneInv, [Next]_vars, NEW o \in Ops,
         op[o].result = "none", op'[o].result \in {"ok", "restored"}
  PROVE  \/ /\ Sync(o) /\ op[o].kind = "upload"
            /\ op'[o].result = IF op[o].back THEN "restored" ELSE "ok"
         \/ /\ Verify(o) /\ Holds(o)
            /\ op'[o].result = IF op[o].back THEN "restored" ELSE "ok"
         \/ Purge(o) /\ op'[o].result = "ok"
         \/ /\ Sync(o) /\ op[o].kind = "remove" /\ op[o].back /\ ~op[o].bad
            /\ op'[o].result = "restored"
         \/ /\ PutBack(o) /\ ~op[o].mutated /\ op'[o].result = "restored"
            /\ dirs' = dirs \cup {op[o].v}
  <1>1. PICK p \in Ops : Working(p)
    <2>1. ASSUME NEW p \in Ops, Start(p) PROVE FALSE
      <3>1. Others(p) /\ op'[p].result = "none"
        BY <2>1, StartsFlat
      <3> QED BY <3>1 DEF Others
    <2>2. ~Restart
      BY RestartFlat DEF Ends
    <2>3. ~World /\ ~UNCHANGED vars
      BY DEF World, Renew, RefusedRequest, Lapse, Unmoved, vars
    <2> QED BY <2>1, <2>2, <2>3, NextCases DEF Working
  <1>2. p = o
    BY <1>1, WorkFields DEF Others
  <1>3. Working(o)
    BY <1>1, <1>2
  <1>4. ASSUME NEW x, Finish(o, x) PROVE op'[o].result = x
    BY <1>4, FinishFlat DEF Ends
  <1>5. ASSUME NEW x, Step(o, x) PROVE FALSE
    BY <1>5, StepFlat DEF To
  <1>6. ~Fails(o) /\ \A x : ~Continue(o, x)
    BY FailsFlat, ContinueFlat DEF To, Ends
  <1>7. CASE Upload(o)
    <2>1. ~CommitUpload(o) /\ ~UndoUpload(o)
      BY CommitUploadFlat, BackFlat DEF UndoUpload, To
    <2> QED BY <1>4, <1>5, <1>7, <2>1
            DEF Upload, Stage, StageFails, CommitUploadFails, Unstage, UndoUploadFails,
                RemoveStaged
  <1>8. CASE Rollback(o)
    <2>1. ~CommitRollback(o) /\ ~(op' = [op EXCEPT ![o].pc = "rereg", ![o].back = TRUE])
      BY CommitRollbackFlat, BackFlat DEF To
    <2> QED BY <1>4, <1>8, <2>1 DEF Rollback, RollbackRefused, RestoreLane
  <1>9. CASE Remove(o)
    <2>1. /\ op' # [op EXCEPT ![o].pc = "rereg", ![o].mutated = TRUE]
          /\ \A b : op' # [op EXCEPT ![o].pc = "reinsert", ![o].bad = b]
          /\ \A b : op' # [op EXCEPT ![o].pc = "rename", ![o].sole = b]
          /\ ~Reinsert(o)
      <3>1. op' # [op EXCEPT ![o].pc = "rereg", ![o].mutated = TRUE]
        BY DropFlat DEF To
      <3>2. ASSUME NEW b, op' = [op EXCEPT ![o].pc = "reinsert", ![o].bad = b] PROVE FALSE
        <4>1. To(o, "reinsert")
          BY <3>2, BadFlat
        <4> QED BY <4>1 DEF To
      <3>3. Reinsert(o) => To(o, "rereg")
        BY BackFlat, BackBadFlat DEF Reinsert
      <3>4. ASSUME NEW b, op' = [op EXCEPT ![o].pc = "rename", ![o].sole = b] PROVE FALSE
        <4>1. To(o, "rename")
          BY <3>4, CheckFlat
        <4> QED BY <4>1 DEF To
      <3> QED BY <3>1, <3>2, <3>3, <3>4 DEF To
    <2>2. ~CheckRemove(o) /\ ~Quarantine(o) /\ ~DropRow(o)
      BY <1>4, <1>5, <2>1 DEF CheckRemove, Quarantine, DropRow
    <2>3. CASE Purge(o)
      BY <1>4, <2>3 DEF Purge
    <2>4. CASE PutBack(o)
      BY <1>4, <2>1, <2>4 DEF PutBack
    <2> QED BY <1>9, <2>1, <2>2, <2>3, <2>4 DEF Remove
  <1>10. CASE HotSwap(o)
    <2>1. ~\E s \in Versions \cup {Packaged} : Resolve(o, s)
      BY ResolveFlat DEF To
    <2> QED BY <1>4, <1>5, <1>6, <1>10, <2>1
            DEF HotSwap, ResolveFails, Swap, SwapFails, Sync, SyncFails, Verify, VerifyFails
  <1> QED BY <1>3, <1>7, <1>8, <1>9, <1>10 DEF Working

LEMMA NextTruthful ==
  ASSUME CodeInv, [Next]_vars, NEW o \in Ops,
         op[o].result = "none", op'[o].result = "ok",
         op[o].kind = "rollback" \/ lapses = 0, Goal(o) # Packaged
  PROVE  /\ Live(rows) = {Goal(o)}
         /\ Alone(o) /\ RemovalsAlone => served = Goal(o)
  <1>1. TypeOK /\ OneInv /\ LaneInv /\ RecordOK(op[o]) /\ op[o].v \in Versions
        /\ op[o].prev \in Versions \cup {Packaged}
    BY DEF CodeInv, LaneInv, RecordsInv, TypeOK, OpType
  <1>2. \A v \in Live(rows) : Live(rows) = {v}
    BY <1>1 DEF OneInv, OneLive, OneLiveIndex
  <1>3. lapses = 0 /\ op[o].pc \in {"sync", "verify", "purge"} => WorkAt(o) /\ Settled
    BY DEF CodeInv, AloneInv, WorkInv, InFlight, At, WorkAt, SwapAt
  <1>4. CASE Sync(o) /\ op[o].kind = "upload" /\ ~op[o].back
    <2>1. At(o, "sync") /\ Uploaded(o) /\ Settled
      BY <1>3, <1>4 DEF Sync, WorkAt, UploadAt, RollbackAt, RemoveAt, Unuploaded, RolledBack,
                        RolledForth, Removed, Removal, Reinserted, Staging, Loading,
                        Quarantining, At
    <2>2. op[o].v \in Live(rows) /\ Goal(o) = op[o].v
      BY <1>1, <1>4, <2>1 DEF Uploaded, PutsLive, Live, Goal
    <2> QED BY <1>2, <2>1, <2>2 DEF Settled
  <1>5. CASE Purge(o)
    <2>1. At(o, "purge") /\ op[o].kind = "remove" /\ lapses = 0
      BY <1>1, <1>5 DEF Purge, RecordOK, At
    <2>2. Removed(o) /\ Settled
      BY <1>3, <2>1 DEF WorkAt, UploadAt, RollbackAt, RemoveAt, At
    <2>3. op[o].prev \in Versions /\ op[o].prev # Packaged /\ Goal(o) = op[o].prev
      BY <1>1, <2>1 DEF Goal
    <2>4. op[o].before[op[o].prev].status = "rolled_back"
          /\ op[o].before[op[o].v].status = "live"
      BY <2>2, <2>3 DEF Removed, Removal, Live
    <2>5. ~Only(o) /\ op[o].prev # op[o].v
      BY <2>3, <2>4 DEF Only, Known
    <2>6. op[o].prev \in Live(rows)
      BY <2>2, <2>3, <2>5 DEF Removed, Dropped, Live
    <2> QED BY <1>2, <2>2, <2>3, <2>6 DEF Settled
  <1>6. CASE Verify(o) /\ Holds(o) /\ ~op[o].back
    <2>1. At(o, "verify") /\ op[o].kind = "rollback" /\ Goal(o) = op[o].v
      BY <1>1, <1>6 DEF Verify, RecordOK, At, Goal
    <2>2. Live(rows) = {op[o].v}
      <3>1. Baseline(rows) = Activated(o)
        BY <1>6, <2>1 DEF Holds
      <3>2. DOMAIN Baseline(rows) = Live(rows) /\ DOMAIN Activated(o) = {op[o].v}
        BY DEF Baseline, Activated
      <3> QED BY <3>1, <3>2
    <2>3. ASSUME Alone(o), RemovalsAlone PROVE Settled
      <3>1. CASE lapses = 0
        BY <1>3, <2>1, <3>1 DEF At
      <3>2. CASE \A p \in Ops : op[p].kind # "remove"
        <4>1. SwapInv
          BY <3>2 DEF CodeInv, OverlapInv, NoRemovals
        <4>2. ~Broken
          BY <2>3 DEF Alone, Broken
        <4>3. ~StillToSwap(o) /\ \A p \in Ops \ {o} : ~StillToSwap(p)
          BY <2>1, <2>3 DEF Alone, StillToSwap, Waits, InFlight, At
        <4> QED BY <4>1, <4>2, <4>3 DEF SwapInv
      <3> QED BY <2>3, <3>1, <3>2 DEF RemovalsAlone
    <2> QED BY <2>1, <2>2, <2>3 DEF Settled
  <1> QED BY <1>1, <1>4, <1>5, <1>6, Answers

\* An operation that answers success has put its version live at that moment,
\* and serving (the answers of tenant-code.ts and deployment-rollback.ts).
THEOREM SuccessIsTrue == Spec => AnswersTruthfully
  <1>1. CodeInv /\ [Next]_vars =>
          [\A o \in Ops :
            /\ op[o].result = "none" /\ op'[o].result = "ok"
            /\ op[o].kind = "rollback" \/ lapses = 0
            /\ Goal(o) # Packaged
            => /\ Live(rows) = {Goal(o)}
               /\ Alone(o) /\ RemovalsAlone => served = Goal(o)]_vars
    BY NextTruthful
  <1> QED BY <1>1, LaneAccounts, PTL DEF Spec, AnswersTruthfully

LEMMA NextRestored ==
  ASSUME CodeInv, [Next]_vars, NEW o \in Ops,
         op[o].result = "none", op'[o].result = "restored", lapses = 0
  PROVE  /\ rows = op[o].before
         /\ op[o].v \in dirs' <=> op[o].kind # "upload"
         /\ Live(rows) # {} /\ (op[o].mutated \/ Alone(o)) => served \in Live(rows)
  <1>1. TypeOK /\ LaneInv /\ RecordOK(op[o]) /\ WorkInv
    BY DEF CodeInv, LaneInv, RecordsInv, AloneInv
  <1>2. op[o].pc \in {"sync", "verify"} => WorkAt(o) /\ Settled
    BY <1>1 DEF WorkInv, InFlight, At, WorkAt, SwapAt
  <1>3. CASE (Sync(o) \/ Verify(o)) /\ op[o].back
    <2>1. op[o].pc \in {"sync", "verify"} /\ dirs' = dirs
      BY <1>3 DEF Sync, Verify, At
    <2>2. \/ Unuploaded(o) /\ op[o].v \notin dirs
          \/ RolledForth(o)
          \/ Reinserted(o)
      BY <1>2, <1>3, <2>1 DEF WorkAt, UploadAt, RollbackAt, RemoveAt, Uploaded, RolledBack,
                              Removed, Staging, Loading, Quarantining, At
    <2>3. op[o].kind = "remove" => ~op[o].bad
      BY <1>1, <1>3, Answers DEF Sync, Verify, Purge, PutBack, At, RecordOK
    <2> QED BY <1>2, <2>1, <2>2, <2>3 DEF Unuploaded, RolledForth, Reinserted, Settled
  <1>4. CASE PutBack(o) /\ ~op[o].mutated /\ dirs' = dirs \cup {op[o].v}
    <2>1. At(o, "undo") /\ op[o].kind = "remove"
      BY <1>4 DEF PutBack
    <2>2. Quarantining(o) /\ (Broken \/ served = op[o].v)
      BY <1>1, <1>4, <2>1 DEF WorkInv, InFlight, WorkAt, UploadAt, RollbackAt, RemoveAt, At,
                              Uploaded, RolledBack, Removed, Staging, Unuploaded, Loading,
                              RolledForth
    <2>3. Alone(o) => ~Broken
      BY DEF Alone, Broken
    <2> QED BY <1>4, <2>1, <2>2, <2>3 DEF Quarantining, Removal
  <1> QED BY <1>1, <1>3, <1>4, Answers

\* A reported restoration is exact as long as leases last: the rows with
\* their times, the operation's package and the code that is served
\* (restoreLane, deployment-rollback.ts; the compensations of tenant-code.ts).
THEOREM RestorationIsExact == Spec => RestoredExactly
  <1>1. CodeInv /\ [Next]_vars =>
          [\A o \in Ops :
            /\ op[o].result = "none" /\ op'[o].result = "restored"
            /\ lapses = 0
            => /\ rows = op[o].before
               /\ op[o].v \in dirs' <=> op[o].kind # "upload"
               /\ Live(rows) # {} /\ (op[o].mutated \/ Alone(o)) => served \in Live(rows)]_vars
    BY NextRestored
  <1> QED BY <1>1, LaneAccounts, PTL DEF Spec, RestoredExactly

=============================================================================
