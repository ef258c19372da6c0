------------------------------ MODULE WriterLease ------------------------------
(***************************************************************************)
(* The lease that permits one process tree at a time to write the SQLite   *)
(* file: a directory beside the database with an owner record and a        *)
(* heartbeat record.  A supervisor makes the directory, runs a migration   *)
(* child and a server child under it, checkpoints, and moves it away.  A   *)
(* lease whose supervisor died is removed by a recovery command, after it  *)
(* has proved that the owner is dead and that nobody has the file open.    *)
(*                                                                         *)
(* The processes share nothing but the file system, so every system call   *)
(* that another process may come in front of is an action.  A path names   *)
(* whatever directory stands there now; `dir` is the directory's inode,    *)
(* named after the supervisor that made it.                                *)
(***************************************************************************)
CONSTANTS
    Supervisors,    \* launches of a supervisor, each with a token of its own
    Recoverers,     \* runs of the recovery command
    Nobody

ASSUME NobodyAssumption == Nobody \notin Supervisors

VARIABLES
    pc,         \* pc[s]: where supervisor s is
    child,      \* child[s]: its child, which may outlive it
    lease,      \* what stands at the canonical path
    rec,        \* rec[r]: what recovery r has proved, and of whom
    robbed      \* history: trees whose lease somebody else removed under them

vars == <<pc, child, lease, rec, robbed>>

NoLease == [dir |-> Nobody, owner |-> Nobody, beat |-> Nobody]
NoProof == [pc |-> "idle", of |-> Nobody]

Init ==
    /\ pc = [s \in Supervisors |-> "off"]
    /\ child = [s \in Supervisors |-> "none"]
    /\ lease = NoLease
    /\ rec = [r \in Recoverers |-> NoProof]
    /\ robbed = {}

-----------------------------------------------------------------------------

Alive(s) == pc[s] \notin {"off", "gone"}

Lives(s) == Alive(s) \/ child[s] # "none"

Writing(s) == child[s] = "open" \/ pc[s] = "handle"

\* assertInheritedSqliteWriterLease: the records, wherever they stand.
Inherits(s) == lease.owner = s /\ lease.beat = s

\* assertOwnedLease compares the inode too.
Owned(s) == Inherits(s) /\ lease.dir = s

Goto(s, p) == pc' = [pc EXCEPT ![s] = p]

\* The directory at the path disappears, whoever made it.
Removed(by) ==
    /\ lease' = NoLease
    /\ robbed' = robbed \cup {s \in Supervisors \ {by} : lease.dir = s /\ Lives(s)}

-----------------------------------------------------------------------------
(* acquireSqliteWriterLease                                                 *)

\* Mutant: a lease whose owner is dead is taken over.
Mkdir_TakesOver(s) ==
    /\ pc[s] = "off"
    /\ IF lease.dir = Nobody \/ ~Alive(lease.dir)
       THEN lease' = [NoLease EXCEPT !.dir = s] /\ Goto(s, "made")
       ELSE Goto(s, "gone") /\ UNCHANGED lease
    /\ UNCHANGED <<child, rec, robbed>>

\* mkdir is the arbiter; a lease that stands is never taken over.
Mkdir(s) ==
    /\ pc[s] = "off"
    /\ IF lease.dir = Nobody
       THEN lease' = [NoLease EXCEPT !.dir = s] /\ Goto(s, "made")
       ELSE Goto(s, "gone") /\ UNCHANGED lease
    /\ UNCHANGED <<child, rec, robbed>>

\* Mutant: the record brings its directory along.
WriteOwner_MakesPath(s) ==
    /\ pc[s] = "made" /\ lease.owner = Nobody
    /\ lease' = [lease EXCEPT !.owner = s]
    /\ Goto(s, "named")
    /\ UNCHANGED <<child, rec, robbed>>

\* Both records are created by path, with O_EXCL.
WriteOwner(s) ==
    /\ pc[s] = "made" /\ lease.dir # Nobody /\ lease.owner = Nobody
    /\ lease' = [lease EXCEPT !.owner = s]
    /\ Goto(s, "named")
    /\ UNCHANGED <<child, rec, robbed>>

WriteBeat(s) ==
    /\ pc[s] = "named" /\ lease.dir # Nobody /\ lease.beat = Nobody
    /\ lease' = [lease EXCEPT !.beat = s]
    /\ Goto(s, "ready")
    /\ UNCHANGED <<child, rec, robbed>>

\* A record cannot be written.  The directory is compared once, and what stands
\* at the path is cleared by path, file by file; a step that fails leaves the rest.
AcquireFails(s) ==
    /\ pc[s] \in {"made", "named"}
    /\ Goto(s, IF lease.dir = s THEN "undoing" ELSE "gone")
    /\ UNCHANGED <<child, lease, rec, robbed>>

UnlinkOwner(s) ==
    /\ pc[s] = "undoing"
    /\ lease' = [lease EXCEPT !.owner = Nobody]
    /\ Goto(s, "unnamed")
    /\ UNCHANGED <<child, rec, robbed>>

UnlinkBeat(s) ==
    /\ pc[s] = "unnamed"
    /\ lease' = [lease EXCEPT !.beat = Nobody]
    /\ Goto(s, "emptied")
    /\ UNCHANGED <<child, rec, robbed>>

\* Only an empty directory goes.
Rmdir(s) ==
    /\ pc[s] = "emptied"
    /\ IF lease.dir # Nobody /\ lease.owner = Nobody /\ lease.beat = Nobody
       THEN Removed(s) ELSE UNCHANGED <<lease, robbed>>
    /\ Goto(s, "gone")
    /\ UNCHANGED <<child, rec>>

-----------------------------------------------------------------------------
(* runSqliteWriterSupervisor                                                *)

Running == {"migrating", "serving"}

Working == Running \cup {"made", "named", "undoing", "unnamed", "emptied", "ready", "failing",
                        "closing", "proved", "cleared", "handle", "leaving"}

StartMigration(s) ==
    /\ pc[s] = "ready"
    /\ Goto(s, "migrating")
    /\ child' = [child EXCEPT ![s] = "spawned"]
    /\ UNCHANGED <<lease, rec, robbed>>

\* The same lease, after a heartbeat.
StartServer(s) ==
    /\ pc[s] = "migrating" /\ child[s] = "none" /\ Owned(s)
    /\ Goto(s, "serving")
    /\ child' = [child EXCEPT ![s] = "spawned"]
    /\ UNCHANGED <<lease, rec, robbed>>

\* The child has ended: the server, a migration that failed or was the only
\* task, or either after a signal.
Close(s) ==
    /\ pc[s] \in Running /\ child[s] = "none"
    /\ Goto(s, "closing")
    /\ UNCHANGED <<child, lease, rec, robbed>>

\* Mutant: the heartbeat accepts any complete lease.
HeartbeatFails_AnyOwner(s) ==
    /\ pc[s] \in Running /\ (lease.owner = Nobody \/ lease.owner # lease.beat)
    /\ Goto(s, "failing")
    /\ UNCHANGED <<child, lease, rec, robbed>>

\* The heartbeat's timer finds that the lease is another one or unreadable.
HeartbeatFails(s) ==
    /\ pc[s] \in Running /\ ~Owned(s)
    /\ Goto(s, "failing")
    /\ UNCHANGED <<child, lease, rec, robbed>>

\* Its own record cannot be written.
HeartbeatLost(s) ==
    /\ pc[s] \in Running /\ Owned(s)
    /\ Goto(s, "failing")
    /\ UNCHANGED <<child, lease, rec, robbed>>

\* After a heartbeat failure the lease is left for recovery.
Retain(s) ==
    /\ pc[s] = "failing" /\ child[s] = "none"
    /\ Goto(s, "gone")
    /\ UNCHANGED <<child, lease, rec, robbed>>

\* checkpointAndRelease: a heartbeat ...
FinalBeat(s) ==
    /\ pc[s] = "closing" /\ Owned(s)
    /\ Goto(s, "proved")
    /\ UNCHANGED <<child, lease, rec, robbed>>

\* ... then a handle of the supervisor's own: the check every writer makes ...
Authorize(s) ==
    /\ pc[s] = "proved" /\ Inherits(s)
    /\ Goto(s, "cleared")
    /\ UNCHANGED <<child, lease, rec, robbed>>

\* ... and the open.
OpenOwn(s) ==
    /\ pc[s] = "cleared"
    /\ Goto(s, "handle")
    /\ UNCHANGED <<child, lease, rec, robbed>>

\* Checkpoint, close, a second heartbeat and the check of release().
Checkpoint(s) ==
    /\ pc[s] = "handle" /\ Owned(s)
    /\ Goto(s, "leaving")
    /\ UNCHANGED <<child, lease, rec, robbed>>

\* The database is busy, or the lease is another one: the cleanup tries again,
\* and gives up.
CloseFails(s) ==
    /\ pc[s] \in {"closing", "proved", "cleared", "handle"}
    /\ \E p \in {"closing", "gone"} : Goto(s, p)
    /\ UNCHANGED <<child, lease, rec, robbed>>

\* The rename moves what stands at the path.
Release(s) ==
    /\ pc[s] = "leaving"
    /\ IF lease.dir = Nobody THEN UNCHANGED <<lease, robbed>> ELSE Removed(s)
    /\ Goto(s, "gone")
    /\ UNCHANGED <<child, rec>>

\* The supervisor is killed; its child is not.
Crash(s) ==
    /\ Alive(s)
    /\ Goto(s, "gone")
    /\ UNCHANGED <<child, lease, rec, robbed>>

-----------------------------------------------------------------------------
(* The child: assertWritableDatabaseAuthorized, then the open               *)

ChildCheck(s) ==
    /\ child[s] = "spawned" /\ Inherits(s)
    /\ child' = [child EXCEPT ![s] = "checked"]
    /\ UNCHANGED <<pc, lease, rec, robbed>>

ChildOpen(s) ==
    /\ child[s] = "checked"
    /\ child' = [child EXCEPT ![s] = "open"]
    /\ UNCHANGED <<pc, lease, rec, robbed>>

\* It ends, refuses to start, crashes or is killed.
ChildExit(s) ==
    /\ child[s] # "none"
    /\ child' = [child EXCEPT ![s] = "none"]
    /\ UNCHANGED <<pc, lease, rec, robbed>>

-----------------------------------------------------------------------------
(* recoverStaleSqliteWriterLease                                            *)

Prove(r, p, of) ==
    /\ rec' = [rec EXCEPT ![r] = [pc |-> p, of |-> of]]
    /\ UNCHANGED <<pc, child, lease, robbed>>

\* An incomplete lease is refused here.
Inspect(r) ==
    /\ rec[r].pc = "idle" /\ lease.owner # Nobody /\ lease.beat = lease.owner
    /\ Prove(r, "inspected", lease.owner)

ProveDead(r) == rec[r].pc = "inspected" /\ ~Alive(rec[r].of) /\ Prove(r, "dead", rec[r].of)

ProveClosed(r) ==
    /\ rec[r].pc = "dead" /\ \A s \in Supervisors : ~Writing(s)
    /\ Prove(r, "closed", rec[r].of)

\* A proof that fails, or the command dies.
Refuse(r) == rec[r].pc # "idle" /\ Prove(r, "idle", Nobody)

\* recoverSqliteWriterLeaseAfterProof looks neither at the owner nor the inode.
Remove(r) ==
    /\ rec[r].pc = "closed" /\ lease.dir # Nobody
    /\ Removed(Nobody)
    /\ rec' = [rec EXCEPT ![r] = NoProof]
    /\ UNCHANGED <<pc, child>>

-----------------------------------------------------------------------------

Supervise(s) ==
    \/ Mkdir(s) \/ WriteOwner(s) \/ WriteBeat(s)
    \/ AcquireFails(s) \/ UnlinkOwner(s) \/ UnlinkBeat(s) \/ Rmdir(s)
    \/ StartMigration(s) \/ StartServer(s) \/ Close(s)
    \/ HeartbeatFails(s) \/ HeartbeatLost(s) \/ Retain(s)
    \/ FinalBeat(s) \/ Authorize(s) \/ OpenOwn(s) \/ Checkpoint(s) \/ CloseFails(s) \/ Release(s) \/ Crash(s)

Attend(s) == ChildCheck(s) \/ ChildOpen(s) \/ ChildExit(s)

Recover(r) == Inspect(r) \/ ProveDead(r) \/ ProveClosed(r) \/ Refuse(r) \/ Remove(r)

Next ==
    \/ \E s \in Supervisors : Supervise(s) \/ Attend(s)
    \/ \E r \in Recoverers : Recover(r)

Spec == Init /\ [][Next]_vars

\* The heartbeat's timer fires, and a child that was sent SIGTERM is killed in
\* the end.
FairSpec ==
    /\ Spec
    /\ \A s \in Supervisors :
        /\ WF_vars(HeartbeatFails(s))
        /\ WF_vars(pc[s] = "failing" /\ ChildExit(s))

-----------------------------------------------------------------------------

Token == Supervisors \cup {Nobody}

\* The states of the processes and of the records, which stand in a directory.
TypeOK ==
    /\ pc \in [Supervisors -> {"off", "gone"} \cup Working]
    /\ child \in [Supervisors -> {"none", "spawned", "checked", "open"}]
    /\ lease \in [dir : Token, owner : Token, beat : Token]
    /\ lease.dir = Nobody => lease = NoLease
    /\ rec \in [Recoverers -> [pc : {"idle", "inspected", "dead", "closed"}, of : Token]]
    /\ robbed \subseteq Supervisors

\* While nobody else removes a lease under a living tree, two trees never write
\* at once, whichever supervisor dies, fails to acquire or leaves its child
\* behind: a dead owner's lease keeps everybody out (acquireSqliteWriterLease).
OverlapNeedsTheft ==
    \A s, t \in Supervisors : s # t /\ Writing(s) /\ Writing(t) => s \in robbed \/ t \in robbed

\* A supervisor that lives finds out that its lease is gone, and its child stops
\* writing (the heartbeat's timer, terminateCurrentChild).
TheftIsNoticed ==
    \A s \in Supervisors :
        pc[s] \in Running /\ ~Owned(s) ~> child[s] = "none" \/ ~Alive(s)

-----------------------------------------------------------------------------
(* What the repository says and the code does not do                        *)

\* writer-lease.ts: "This lease deliberately permits one supervised writer
\* process tree per database."
OneWriterTree == \A s, t \in Supervisors : Writing(s) /\ Writing(t) => s = t

===============================================================================
