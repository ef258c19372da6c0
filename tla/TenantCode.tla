----------------------------- MODULE TenantCode -----------------------------
(***************************************************************************)
(* The tenant-code lane of one tenant: upload and removal of a package     *)
(* (apps/api/src/routes/v1/tenant-code.ts), rollback to an earlier one     *)
(* (apps/api/src/services/deployment-rollback.ts), the hot swap of the     *)
(* served code (bootstrap.ts, services/inngest-registry.ts) and the        *)
(* selection at boot (packages/runtime/src/tenant-loader.ts), under the    *)
(* durable lease.  One action is the code between two awaits.              *)
(*                                                                         *)
(* A version has at most one deployment row, because an upload refuses a   *)
(* version the history knows; rows[v] is that row and its workflow version.*)
(***************************************************************************)
EXTENDS DurableLease, Integers, FiniteSets

CONSTANTS
    NVersions,      \* versions are 1..NVersions in the loader's sort order
    Histories,      \* the lanes a behaviour may start from
    Old,            \* the deployment ids of the starting lane
    MaxFaults,      \* bound: failed writes, swaps, syncs and verifications
    MaxLapses,      \* bound: expiries of the lease row
    MaxRestarts     \* bound: deaths of the API process

Versions == 1 .. NVersions
Packaged == 0       \* no uploaded version: the registry of the build

ASSUME BoundsAssumption == /\ NVersions \in Nat \ {0}
                           /\ {MaxFaults, MaxLapses, MaxRestarts} \subseteq Nat
ASSUME OldAssumption == Old \notin Ops \cup {Free}

Statuses == {"none", "live", "rolled_back"}
RowType == [id : Ops \cup {Old}, status : Statuses, at : Nat]
NoRow == [id |-> Old, status |-> "none", at |-> 0]

Live(lane) == {v \in Versions : lane[v].status = "live"}

\* LiveDeploymentBaseline: the identity and the time of the live row.
Baseline(lane) == [v \in Live(lane) |-> lane[v]]

\* A version without a row has nothing to tell it from another such version,
\* and every row of the starting lane is older than the operations.
ASSUME HistoryAssumption ==
    /\ Histories \subseteq [Versions -> RowType]
    /\ \A lane \in Histories : \A v, w \in Live(lane) : v = w
    /\ \A lane \in Histories, v \in Versions :
          lane[v].id = Old /\ (lane[v].status = "none" => lane[v] = NoRow)

VARIABLES
    rows,       \* deployments of the lane, with their workflow versions
    home,       \* the workflow row that holds the versions: who created it
    clock,      \* the last deployedAt
    dirs,       \* versions whose package is on disk
    aside,      \* removals whose quarantine directory is on disk
    op,         \* the operations
    chain,      \* the re-registration at work, or Free (reregisterChain)
    cached,     \* cachedExpanded of the tenant: version of its registry
    served,     \* the version the tenant's functions run
    faults, lapses, restarts

laneVars == <<rows, home, clock>>
codeVars == <<chain, cached, served>>
bounds == <<faults, lapses, restarts>>
vars == <<leaseVars, laneVars, dirs, aside, op, codeVars, bounds>>

Kinds == {"upload", "rollback", "remove"}
Points == {"new", "stage", "commit", "unstage", "load", "check", "rename", "drop",
           "rereg", "swap", "sync", "verify", "purge",
           "undo", "rmdir", "reinsert", "done"}
Results == {"none", "ok", "failed", "restored", "broken", "leftover", "lost", "died"}

OpType == [kind : Kinds, pc : Points, v : Versions, prev : Versions \cup {Packaged},
           before : [Versions -> RowType], home : Ops \cup {Old, Free},
           at : Nat, mutated : BOOLEAN, back : BOOLEAN, bad : BOOLEAN,
           sole : BOOLEAN, sel : Versions \cup {Packaged}, result : Results]

\* An operation of kind k at point p with version v: w is the version to make
\* live again, lane the rows it read.
Begun(k, p, v, w, lane) ==
    [kind |-> k, pc |-> p, v |-> v, prev |-> w, before |-> lane, home |-> Free,
     at |-> 0, mutated |-> FALSE, back |-> FALSE, bad |-> FALSE, sole |-> FALSE,
     sel |-> Packaged, result |-> "none"]
NoLane == [v \in Versions |-> NoRow]
NewOp == Begun("upload", "new", 1, Packaged, NoLane)

At(o, p) == op[o].pc = p
InFlight(o) == ~At(o, "new") /\ ~At(o, "done")

TypeOK ==
    /\ holder \in Ops \cup {Free} /\ expired \in BOOLEAN /\ lost \subseteq Ops
    /\ rows \in [Versions -> RowType] /\ clock \in Nat /\ home \in Ops \cup {Old, Free}
    /\ dirs \subseteq Versions /\ aside \subseteq Ops
    /\ op \in [Ops -> OpType]
    /\ chain \in Ops \cup {Free}
    /\ \A o \in Ops : At(o, "swap") <=> chain = o
    /\ {cached, served} \subseteq Versions \cup {Packaged}
    /\ faults \in 0 .. MaxFaults /\ lapses \in 0 .. MaxLapses
    /\ restarts \in 0 .. MaxRestarts

\* resolveLiveVersion: the live pointer, whose package must be on disk, else
\* the highest version on disk, else none.
Selected(s) ==
    \/ s \in Live(rows) /\ s \in dirs
    \/ Live(rows) = {} /\ s \in dirs /\ \A v \in dirs : v <= s
    \/ Live(rows) = {} /\ dirs = {} /\ s = Packaged
PointerBroken == ~(Live(rows) \subseteq dirs)

\* At boot a broken pointer leaves the tenant with its packaged registry.
AtBoot == {s \in Versions \cup {Packaged} :
              IF PointerBroken THEN s = Packaged ELSE Selected(s)}

Init ==
    /\ LeaseInit
    /\ rows \in Histories
    /\ home = IF rows = NoLane THEN Free ELSE Old
    /\ clock = NVersions
    /\ dirs = {v \in Versions : rows[v].status # "none"}
    /\ aside = {}
    /\ op = [o \in Ops |-> NewOp]
    /\ chain = Free
    /\ cached \in AtBoot /\ served = cached
    /\ faults = 0 /\ lapses = 0 /\ restarts = 0

Fault == faults < MaxFaults /\ faults' = faults + 1 /\ UNCHANGED <<lapses, restarts>>
Step(o, p) == op' = [op EXCEPT ![o].pc = p]

\* The operation answers and the wrapper releases its lease.
Finish(o, r) ==
    /\ op' = [op EXCEPT ![o].pc = "done", ![o].result = r]
    /\ Release(o)

-----------------------------------------------------------------------------
Demoted(r) == IF r.status = "live" THEN [r EXCEPT !.status = "rolled_back"] ELSE r
Known(r) == r.status # "none"

\* The update by id finds the row the operation saw.
Kept(o, v) ==
    /\ Known(rows[v]) /\ Known(op[o].before[v])
    /\ rows[v].id = op[o].before[v].id

\* What the operation put live, or what it found when it is compensating.
Activated(o) ==
    [v \in {op[o].v} |-> [id |-> op[o].before[v].id, status |-> "live", at |-> op[o].at]]
\* mutant: the lease is asserted, the generation is not
HoldsLease(o) ==
    op[o].kind = "rollback" => (op[o].back \/ Owned(o))

Holds(o) ==
    op[o].kind = "rollback" =>
        IF op[o].back THEN Baseline(rows) = Baseline(op[o].before)
                      ELSE Owned(o) /\ Baseline(rows) = Activated(o)

\* After an await: a rollback asserts its lease and its generation.
Continue(o, p) ==
    \/ /\ Holds(o)
       /\ Step(o, p)
       /\ UNCHANGED leaseVars
    \/ /\ ~Holds(o) /\ ~op[o].back
       /\ Step(o, "undo")
       /\ AssertOwnedFails(o) \/ (Owned(o) /\ UNCHANGED leaseVars)
    \/ ~Holds(o) /\ op[o].back /\ Finish(o, "broken")

\* A failed external step: compensate, or give up when already compensating.
Fails(o) ==
    IF op[o].back THEN Finish(o, "broken")
    ELSE Step(o, "undo") /\ UNCHANGED leaseVars

-----------------------------------------------------------------------------
(* Upload. *)

StartUpload(o, v) ==
    /\ At(o, "new") /\ v \notin dirs /\ ~Known(rows[v])
    /\ Acquire(o)
    /\ op' = [op EXCEPT ![o] = Begun("upload", "stage", v, Packaged, NoLane)]
    /\ UNCHANGED <<laneVars, dirs, aside, codeVars, bounds>>

\* stageArchiveDurably: the rename publishes the package, or nothing stays.
Stage(o) ==
    /\ At(o, "stage") /\ op[o].v \notin dirs
    /\ dirs' = dirs \cup {op[o].v}
    /\ Step(o, "commit")
    /\ UNCHANGED <<leaseVars, laneVars, aside, codeVars, bounds>>

StageFails(o) ==
    /\ At(o, "stage")
    /\ Fault \/ (op[o].v \in dirs /\ UNCHANGED bounds)
    /\ Finish(o, "failed")
    /\ UNCHANGED <<laneVars, dirs, aside, codeVars>>

\* mutant: the earlier live row is not demoted
CommitUploadBeside(o) ==
    LET v == op[o].v IN
    /\ At(o, "commit") /\ ~Known(rows[v])
    /\ rows' = [rows EXCEPT ![v] = [id |-> o, status |-> "live", at |-> clock + 1]]
    /\ home' = IF home = Free THEN o ELSE home
    /\ clock' = clock + 1
    /\ op' = [op EXCEPT ![o].pc = "rereg", ![o].before = rows, ![o].mutated = TRUE]
    /\ UNCHANGED <<leaseVars, dirs, aside, codeVars, bounds>>

CommitUpload(o) ==
    LET v == op[o].v IN
    /\ At(o, "commit") /\ ~Known(rows[v])
    /\ rows' = [w \in Versions |->
                  IF w = v THEN [id |-> o, status |-> "live", at |-> clock + 1]
                           ELSE Demoted(rows[w])]
    /\ home' = IF home = Free THEN o ELSE home
    /\ clock' = clock + 1
    /\ op' = [op EXCEPT ![o].pc = "rereg", ![o].before = rows, ![o].mutated = TRUE]
    /\ UNCHANGED <<leaseVars, dirs, aside, codeVars, bounds>>

CommitUploadFails(o) ==
    /\ At(o, "commit")
    /\ Fault \/ (Known(rows[op[o].v]) /\ UNCHANGED bounds)
    /\ Step(o, "unstage")
    /\ UNCHANGED <<leaseVars, laneVars, dirs, aside, codeVars>>

\* The package of the failed commit is removed, or left when that fails too.
Unstage(o) ==
    /\ At(o, "unstage")
    /\ \/ dirs' = dirs \ {op[o].v} /\ Finish(o, "failed") /\ UNCHANGED bounds
       \/ Fault /\ Finish(o, "broken") /\ UNCHANGED dirs
    /\ UNCHANGED <<laneVars, aside, codeVars>>

\* The compensation of an upload compares nothing: the lane it found is
\* written back by id, whoever changed it since, and a workflow row it
\* created is deleted with every version it holds by now.
UndoUpload(o) ==
    /\ At(o, "undo") /\ op[o].kind = "upload"
    /\ rows' = [w \in Versions |->
                  IF rows[w].id = o \/ home = o THEN NoRow
                  ELSE IF Kept(o, w)
                    THEN [rows[w] EXCEPT !.status = op[o].before[w].status]
                    ELSE Demoted(rows[w])]
    /\ home' = IF home = o THEN Free ELSE home
    /\ op' = [op EXCEPT ![o].pc = "rmdir", ![o].back = TRUE]
    /\ UNCHANGED <<leaseVars, clock, dirs, aside, codeVars, bounds>>

\* Its transaction fails: the package and the functions are left as they are.
UndoUploadFails(o) ==
    /\ At(o, "undo") /\ op[o].kind = "upload"
    /\ Fault
    /\ Finish(o, "broken")
    /\ UNCHANGED <<laneVars, dirs, aside, codeVars>>

\* mutant: the lane is restored and the functions are not rebuilt
RemoveStagedAndEnd(o) ==
    /\ At(o, "rmdir")
    /\ dirs' = dirs \ {op[o].v} /\ Finish(o, "restored")
    /\ UNCHANGED <<laneVars, aside, codeVars, bounds>>

RemoveStaged(o) ==
    /\ At(o, "rmdir")
    /\ \/ /\ dirs' = dirs \ {op[o].v} /\ Step(o, "rereg")
          /\ UNCHANGED <<leaseVars, bounds>>
       \/ Fault /\ Finish(o, "broken") /\ UNCHANGED dirs
    /\ UNCHANGED <<laneVars, aside, codeVars>>

-----------------------------------------------------------------------------
(* Rollback. *)

StartRollback(o, v) ==
    /\ At(o, "new") /\ rows[v].status = "rolled_back"
    /\ Acquire(o)
    /\ op' = [op EXCEPT ![o] = Begun("rollback", "load", v, Packaged, rows)]
    /\ UNCHANGED <<laneVars, dirs, aside, codeVars, bounds>>

\* loadTenant found the package, then one transaction compares and swaps.
Swappable(o) ==
    /\ op[o].v \in dirs
    /\ Owned(o)
    /\ Baseline(rows) = Baseline(op[o].before)
    /\ rows[op[o].v] = op[o].before[op[o].v]

CommitRollback(o) ==
    LET v == op[o].v IN
    /\ At(o, "load") /\ Swappable(o)
    /\ rows' = [w \in Versions |->
                  IF w = v THEN [rows[v] EXCEPT !.status = "live", !.at = clock + 1]
                           ELSE Demoted(rows[w])]
    /\ clock' = clock + 1
    /\ op' = [op EXCEPT ![o].pc = "rereg", ![o].at = clock + 1, ![o].mutated = TRUE]
    /\ UNCHANGED <<leaseVars, home, dirs, aside, codeVars, bounds>>

RollbackRefused(o) ==
    /\ At(o, "load")
    /\ Fault \/ (~Swappable(o) /\ UNCHANGED bounds)
    /\ Finish(o, "failed")
    /\ UNCHANGED <<laneVars, dirs, aside, codeVars>>

\* mutant: the times of the restored rows are forgotten
LaneBeforeStatus(o) ==
    [w \in Versions |->
        IF Kept(o, w) THEN [rows[w] EXCEPT !.status = op[o].before[w].status]
                      ELSE Demoted(rows[w])]

LaneBefore(o) ==
    [w \in Versions |-> IF Kept(o, w) THEN op[o].before[w] ELSE Demoted(rows[w])]

\* mutant: whatever is live now is taken for the rollback's own
RestorableUnchecked(o) == Baseline(LaneBefore(o)) = Baseline(op[o].before)

\* restoreLane: only over the generation this rollback activated.
Restorable(o) ==
    /\ Baseline(rows) = Activated(o)
    /\ Baseline(LaneBefore(o)) = Baseline(op[o].before)

RestoreLane(o) ==
    /\ At(o, "undo") /\ op[o].kind = "rollback"
    /\ \/ /\ Restorable(o)
          /\ rows' = LaneBefore(o)
          /\ op' = [op EXCEPT ![o].pc = "rereg", ![o].back = TRUE]
          /\ UNCHANGED <<leaseVars, bounds>>
       \/ /\ Fault \/ (~Restorable(o) /\ UNCHANGED bounds)
          /\ Finish(o, "broken")
          /\ UNCHANGED rows
    /\ UNCHANGED <<home, clock, dirs, aside, codeVars>>

-----------------------------------------------------------------------------
(* Removal of the live version. *)

\* The newest rolled-back row becomes live again, if there is one.
Previous(w) ==
    LET past == {u \in Versions : rows[u].status = "rolled_back"} IN
    \/ w \in past /\ \A u \in past : rows[u].at <= rows[w].at
    \/ past = {} /\ w = Packaged

StartRemove(o, v, w) ==
    /\ At(o, "new") /\ v \in Live(rows) /\ Previous(w)
    /\ Acquire(o)
    /\ op' = [op EXCEPT ![o] = [Begun("remove", "check", v, w, rows) EXCEPT !.home = home]]
    /\ UNCHANGED <<laneVars, dirs, aside, codeVars, bounds>>

\* Both packages load, and nothing else on disk could be selected.
Removable(o) ==
    /\ op[o].v \in dirs
    /\ IF op[o].prev = Packaged THEN dirs = {op[o].v} ELSE op[o].prev \in dirs

\* deleteWorkflow: the workflow row holds one version when the checks are over.
Sole(o) ==
    home = op[o].home /\ \E v \in Versions : {w \in Versions : Known(rows[w])} = {v}

CheckRemove(o) ==
    /\ At(o, "check")
    /\ \/ /\ Removable(o)
          /\ op' = [op EXCEPT ![o].pc = "rename", ![o].sole = Sole(o)]
          /\ UNCHANGED leaseVars
       \/ ~Removable(o) /\ Finish(o, "failed")
    /\ UNCHANGED <<laneVars, dirs, aside, codeVars, bounds>>

\* mutant: the package is deleted where it is renamed
QuarantineDeletes(o) ==
    /\ At(o, "rename") /\ op[o].v \in dirs
    /\ dirs' = dirs \ {op[o].v}
    /\ Step(o, "drop")
    /\ UNCHANGED <<leaseVars, laneVars, aside, codeVars, bounds>>

\* A directory that was renamed and could not be synced is put back.
Quarantine(o) ==
    /\ At(o, "rename")
    /\ \/ /\ op[o].v \in dirs
          /\ dirs' = dirs \ {op[o].v} /\ aside' = aside \cup {o}
          /\ (Step(o, "drop") /\ UNCHANGED bounds) \/ (Step(o, "undo") /\ Fault)
          /\ UNCHANGED leaseVars
       \/ /\ Fault \/ (op[o].v \notin dirs /\ UNCHANGED bounds)
          /\ Finish(o, "failed")
          /\ UNCHANGED <<dirs, aside>>
    /\ UNCHANGED <<laneVars, codeVars>>

Emptied(o) == op[o].sole /\ home = op[o].home

\* The lane after the removal's transaction; the one-live index may refuse it.
LaneWithout(o) ==
    [w \in Versions |->
        IF Emptied(o) THEN NoRow
        ELSE IF rows[w].id = op[o].before[w].id /\ w = op[o].v THEN NoRow
        ELSE IF w = op[o].prev /\ Kept(o, w)
          THEN [rows[w] EXCEPT !.status = "live", !.at = clock + 1]
          ELSE rows[w]]
OneLiveIndex(lane) == \A v, w \in Live(lane) : v = w

Droppable(o) ==
    /\ op[o].prev = Packaged => dirs = {}
    /\ OneLiveIndex(LaneWithout(o))

DropRow(o) ==
    /\ At(o, "drop")
    /\ \/ /\ Droppable(o)
          /\ rows' = LaneWithout(o) /\ clock' = clock + 1
          /\ home' = IF Emptied(o) THEN Free ELSE home
          /\ op' = [op EXCEPT ![o].pc = "rereg", ![o].mutated = TRUE]
          /\ UNCHANGED bounds
       \/ /\ Fault \/ (~Droppable(o) /\ UNCHANGED bounds)
          /\ Step(o, "undo")
          /\ UNCHANGED laneVars
    /\ UNCHANGED <<leaseVars, dirs, aside, codeVars>>

\* The answer is discarded when the wrapper's last assertOwned fails.
Purge(o) ==
    /\ At(o, "purge")
    /\ \/ /\ aside' = aside \ {o}
          /\ Finish(o, IF Owned(o) THEN "ok" ELSE "lost")
          /\ UNCHANGED bounds
       \/ Fault /\ Finish(o, "leftover") /\ UNCHANGED aside
    /\ UNCHANGED <<laneVars, dirs, codeVars>>

\* The compensation of a removal goes on after an error and reports it, that of
\* the sync after a rename included.
PutBack(o) ==
    LET fits == op[o].v \notin dirs
        Ends(bad) == IF op[o].mutated
                     THEN /\ op' = [op EXCEPT ![o].pc = "reinsert", ![o].bad = bad]
                          /\ UNCHANGED leaseVars
                     ELSE Finish(o, IF bad THEN "broken" ELSE "restored")
    IN
    /\ At(o, "undo") /\ op[o].kind = "remove"
    /\ \/ /\ fits
          /\ dirs' = dirs \cup {op[o].v} /\ aside' = aside \ {o}
          /\ Ends(FALSE)
          /\ UNCHANGED bounds
       \/ /\ Fault /\ fits
          /\ dirs' = dirs \cup {op[o].v} /\ aside' = aside \ {o}
          /\ Ends(TRUE)
       \/ /\ Fault \/ (~fits /\ UNCHANGED bounds)
          /\ Ends(TRUE)
          /\ UNCHANGED <<dirs, aside>>
    /\ UNCHANGED <<laneVars, codeVars>>

\* The insertions meet their keys: the version in the workflow, and the
\* workflow of the tenant, which must be the one the version points at.
Insertable(o) ==
    /\ ~Known(rows[op[o].v])
    /\ home = IF op[o].sole THEN Free ELSE op[o].home

\* Version and row are inserted again and the lane it found is written back
\* by id; like UndoUpload, without a comparison.
Reinsert(o) ==
    LET v == op[o].v IN
    /\ At(o, "reinsert")
    /\ \/ /\ Insertable(o)
          /\ rows' = [LaneBefore(o) EXCEPT ![v] = op[o].before[v]]
          /\ home' = op[o].home
          /\ op' = [op EXCEPT ![o].pc = "rereg", ![o].back = TRUE]
          /\ UNCHANGED bounds
       \/ /\ Fault \/ (~Insertable(o) /\ UNCHANGED bounds)
          /\ op' = [op EXCEPT ![o].pc = "rereg", ![o].back = TRUE, ![o].bad = TRUE]
          /\ UNCHANGED <<rows, home>>
    /\ UNCHANGED <<leaseVars, clock, dirs, aside, codeVars>>

-----------------------------------------------------------------------------
(* The hot swap, one at a time in the process. *)

Resolve(o, s) ==
    /\ At(o, "rereg") /\ chain = Free
    /\ Selected(s) /\ ~PointerBroken
    /\ chain' = o
    /\ op' = [op EXCEPT ![o].pc = "swap", ![o].sel = s]
    /\ UNCHANGED <<leaseVars, laneVars, dirs, aside, cached, served, bounds>>

ResolveFails(o) ==
    /\ At(o, "rereg") /\ chain = Free
    /\ Fault \/ (PointerBroken /\ UNCHANGED bounds)
    /\ Fails(o)
    /\ UNCHANGED <<laneVars, dirs, aside, codeVars>>

\* The cached registry is replaced when a package was selected and loads, and
\* kept otherwise; the functions are built from it.
Loaded(o) == IF op[o].sel \in dirs THEN op[o].sel ELSE cached

Swap(o) ==
    /\ At(o, "swap")
    /\ cached' = Loaded(o) /\ served' = Loaded(o)
    /\ chain' = Free
    /\ Continue(o, "sync")
    /\ UNCHANGED <<laneVars, dirs, aside, bounds>>

\* mutant: a throw poisons the chain
SwapFailsAndHolds(o) ==
    /\ At(o, "swap")
    /\ Fault
    /\ Fails(o)
    /\ UNCHANGED <<laneVars, dirs, aside, codeVars>>

\* A throw leaves the served functions, and the cache as far as it came.
SwapFails(o) ==
    /\ At(o, "swap")
    /\ Fault
    /\ cached' \in {cached, Loaded(o)} /\ UNCHANGED served
    /\ chain' = Free
    /\ Fails(o)
    /\ UNCHANGED <<laneVars, dirs, aside>>

\* The broker took the registration: an upload answers, a removal deletes its
\* quarantine, a rollback verifies first.
Sync(o) ==
    /\ At(o, "sync")
    /\ \/ op[o].kind = "upload" /\ Finish(o, IF op[o].back THEN "restored" ELSE "ok")
       \/ op[o].kind = "rollback" /\ Continue(o, "verify")
       \/ op[o].kind = "remove" /\ ~op[o].back /\ Step(o, "purge") /\ UNCHANGED leaseVars
       \/ op[o].kind = "remove" /\ op[o].back
          /\ Finish(o, IF op[o].bad THEN "broken" ELSE "restored")
    /\ UNCHANGED <<laneVars, dirs, aside, codeVars, bounds>>

SyncFails(o) ==
    /\ At(o, "sync")
    /\ Fault
    /\ Fails(o)
    /\ UNCHANGED <<laneVars, dirs, aside, codeVars>>

Verify(o) ==
    /\ At(o, "verify")
    /\ \/ Holds(o) /\ Finish(o, IF op[o].back THEN "restored" ELSE "ok")
       \/ ~Holds(o) /\ Continue(o, "undo")
    /\ UNCHANGED <<laneVars, dirs, aside, codeVars, bounds>>

VerifyFails(o) ==
    /\ At(o, "verify")
    /\ Fault
    /\ Fails(o)
    /\ UNCHANGED <<laneVars, dirs, aside, codeVars>>

-----------------------------------------------------------------------------
(* Time and the process. *)

Unmoved == UNCHANGED <<laneVars, dirs, aside, op, codeVars>>

\* A request that is refused takes an expired row away and leaves none.
RefusedRequest ==
    /\ holder # Free /\ expired
    /\ holder' = Free /\ expired' = FALSE /\ UNCHANGED lost
    /\ Unmoved /\ UNCHANGED bounds

Renew(o) ==
    /\ InFlight(o)
    /\ \/ RenewLease(o) /\ UNCHANGED bounds
       \/ Fault /\ RenewLeaseFails(o)
    /\ Unmoved

Lapse ==
    /\ lapses < MaxLapses /\ lapses' = lapses + 1
    /\ LeaseExpires
    /\ Unmoved /\ UNCHANGED <<faults, restarts>>

\* The process dies and boots: operations are gone, rows and files stay.
Restart ==
    /\ restarts < MaxRestarts /\ restarts' = restarts + 1
    /\ op' = [o \in Ops |-> IF InFlight(o)
                            THEN [op[o] EXCEPT !.pc = "done", !.result = "died"]
                            ELSE op[o]]
    /\ lost' = {}
    /\ chain' = Free
    /\ cached' \in AtBoot /\ served' = cached'
    /\ UNCHANGED <<holder, expired, laneVars, dirs, aside, faults, lapses>>

Start(o) ==
    \E v \in Versions :
        \/ StartUpload(o, v)
        \/ StartRollback(o, v)
        \/ \E w \in Versions \cup {Packaged} : StartRemove(o, v, w)

Upload(o) == \/ Stage(o) \/ StageFails(o) \/ CommitUpload(o) \/ CommitUploadFails(o)
             \/ Unstage(o) \/ UndoUpload(o) \/ UndoUploadFails(o) \/ RemoveStaged(o)
Rollback(o) == CommitRollback(o) \/ RollbackRefused(o) \/ RestoreLane(o)
Remove(o) == \/ CheckRemove(o) \/ Quarantine(o) \/ DropRow(o) \/ Purge(o)
             \/ PutBack(o) \/ Reinsert(o)
HotSwap(o) == \/ \E s \in Versions \cup {Packaged} : Resolve(o, s)
              \/ ResolveFails(o) \/ Swap(o) \/ SwapFails(o)
              \/ Sync(o) \/ SyncFails(o) \/ Verify(o) \/ VerifyFails(o)

Next ==
    \/ \E o \in Ops : Start(o) \/ Upload(o) \/ Rollback(o) \/ Remove(o) \/ HotSwap(o)
                      \/ Renew(o)
    \/ RefusedRequest \/ Lapse \/ Restart

Spec == Init /\ [][Next]_vars

-----------------------------------------------------------------------------
(* Properties. *)

\* The lane never has two live versions, whichever transactions, restored
\* snapshots and compensations follow each other (dpl_one_live_per_tenant_
\* target_idx is a guard of the database, not the plan of the code).
OneLive == OneLiveIndex(rows)

\* When every operation has ended, and none reported a broken recovery, the
\* tenant runs the version its live pointer names: mutation, hot swap,
\* compensation and boot may not leave the two apart.  Uploads and rollbacks
\* may overlap after a lapse; a removal may not, since a swap that finds the
\* package in quarantine keeps the old functions and succeeds.
Quiet == \A o \in Ops : ~InFlight(o) /\ op[o].result # "broken"
RemovalsAlone == lapses = 0 \/ \A o \in Ops : op[o].kind # "remove"
ServedIsLive ==
    Quiet /\ RemovalsAlone /\ Live(rows) # {} /\ ~PointerBroken => served \in Live(rows)

\* The package of the live version is never destroyed: it is in its
\* directory, or in the quarantine of a removal, crashed ones included.
PackageKept ==
    RemovalsAlone =>
        \A v \in Live(rows) : v \in dirs \/ \E o \in aside : op[o].v = v

\* An operation that answers success has put its version live at that moment,
\* and serving.  A rollback may answer so beside a stale operation: its lane
\* is right even then, while an upload, which never asserts its lease, speaks
\* the truth only as long as leases last.  What is served a rollback can vouch
\* for when no other operation is at work or broke off: the lane compares
\* equal again after a stale upload was activated, swapped in and undone.
Goal(o) == IF op[o].kind = "remove" THEN op[o].prev ELSE op[o].v
Alone(o) == \A p \in Ops \ {o} : ~InFlight(p) /\ op[p].result # "broken"
AnswersTruthfully ==
    [][\A o \in Ops :
        /\ op[o].result = "none" /\ op'[o].result = "ok"
        /\ op[o].kind = "rollback" \/ lapses = 0
        /\ Goal(o) # Packaged
        => /\ Live(rows) = {Goal(o)}
           /\ Alone(o) /\ RemovalsAlone => served = Goal(o)]_vars

\* A reported restoration is exact as long as leases last: the rows with
\* their times, the operation's package, and the code that is served.  Only a
\* removal that fails before it touched the rows does not swap again: it
\* leaves the functions it found, and a broken recovery before it may have
\* left others than the live version's.
RestoredExactly ==
    [][\A o \in Ops :
        /\ op[o].result = "none" /\ op'[o].result = "restored"
        /\ lapses = 0
        => /\ rows = op[o].before
           /\ op[o].v \in dirs' <=> op[o].kind # "upload"
           /\ Live(rows) # {} /\ (op[o].mutated \/ Alone(o)) => served \in Live(rows)]_vars

\* deployment-rollback.ts: "Never let stale compensation overwrite a
\* deployment activated by a writer that bypassed or outlived this
\* operation's lease."  What went live after a rollback's own activation is
\* still live after any later step of that rollback.
NewerActivationStands ==
    [][\A o \in Ops : \A v \in Live(rows) :
        /\ op[o].kind = "rollback" /\ op[o].mutated /\ op'[o] # op[o]
        /\ rows[v].at > op[o].at
        => v \in Live(rows')]_vars

\* tenant-code.ts: "tenant-code upload removed; tenant returned to its
\* packaged runtime".
ReturnedToPackaged ==
    [][\A o \in Ops :
        /\ op[o].result = "none" /\ op'[o].result = "ok"
        /\ op[o].kind = "remove" /\ op[o].prev = Packaged
        => served = Packaged]_vars

=============================================================================
