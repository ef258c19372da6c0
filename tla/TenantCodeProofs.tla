-------------------------- MODULE TenantCodeProofs --------------------------
(***************************************************************************)
(* Theorems about TenantCode, for any set of operations, number of         *)
(* versions, starting lane and number of faults, lapses and restarts.      *)
(***************************************************************************)
EXTENDS TenantCode, TLAPS

LeaseTyped == holder \in Ops \cup {Free} /\ expired \in BOOLEAN /\ lost \subseteq Ops
LaneTyped ==
    rows \in [Versions -> RowType] /\ clock \in Nat /\ home \in Ops \cup {Old, Free}
FilesTyped == dirs \subseteq Versions /\ aside \subseteq Ops
OpsTyped == op \in [Ops -> OpType] /\ \A o \in Ops : At(o, "swap") <=> chain = o
CodeTyped ==
    /\ chain \in Ops \cup {Free}
    /\ {cached, served} \subseteq Versions \cup {Packaged}
BoundsTyped ==
    /\ faults \in 0 .. MaxFaults /\ lapses \in 0 .. MaxLapses
    /\ restarts \in 0 .. MaxRestarts

LEMMA TypeParts ==
  /\ TypeOK <=> /\ LeaseTyped /\ LaneTyped /\ FilesTyped /\ OpsTyped
                /\ CodeTyped /\ BoundsTyped
  /\ TypeOK' <=> /\ LeaseTyped' /\ LaneTyped' /\ FilesTyped' /\ OpsTyped'
                 /\ CodeTyped' /\ BoundsTyped'
  BY DEF TypeOK, LeaseTyped, LaneTyped, FilesTyped, OpsTyped, CodeTyped, BoundsTyped

\* Writing these fields of an operation leaves an operation.
LEMMA FieldTyped ==
  ASSUME NEW r \in OpType, NEW p \in Points
  PROVE  /\ [r EXCEPT !.pc = p] \in OpType /\ [r EXCEPT !.pc = p].pc = p
         /\ \A x \in Results : /\ [r EXCEPT !.pc = p, !.result = x] \in OpType
                               /\ [r EXCEPT !.pc = p, !.result = x].pc = p
  BY DEF OpType

LEMMA FlagTyped ==
  ASSUME NEW r \in OpType, NEW p \in Points, NEW b \in BOOLEAN
  PROVE  /\ [r EXCEPT !.pc = p, !.mutated = b] \in OpType
         /\ [r EXCEPT !.pc = p, !.mutated = b].pc = p
         /\ [r EXCEPT !.pc = p, !.back = b] \in OpType
         /\ [r EXCEPT !.pc = p, !.back = b].pc = p
  BY DEF OpType

LEMMA BadTyped ==
  ASSUME NEW r \in OpType, NEW p \in Points, NEW b \in BOOLEAN
  PROVE  [r EXCEPT !.pc = p, !.bad = b] \in OpType /\ [r EXCEPT !.pc = p, !.bad = b].pc = p
  BY DEF OpType

LEMMA SoleTyped ==
  ASSUME NEW r \in OpType, NEW p \in Points, NEW b \in BOOLEAN
  PROVE  [r EXCEPT !.pc = p, !.sole = b] \in OpType /\ [r EXCEPT !.pc = p, !.sole = b].pc = p
  BY DEF OpType

LEMMA BackBadTyped ==
  ASSUME NEW r \in OpType, NEW p \in Points, NEW b \in BOOLEAN
  PROVE  /\ [r EXCEPT !.pc = p, !.back = b, !.bad = b] \in OpType
         /\ [r EXCEPT !.pc = p, !.back = b, !.bad = b].pc = p
  BY DEF OpType

LEMMA CommitTyped ==
  ASSUME NEW r \in OpType, NEW p \in Points, NEW b \in BOOLEAN,
         NEW l \in [Versions -> RowType], NEW t \in Nat
  PROVE  /\ [r EXCEPT !.pc = p, !.before = l, !.mutated = b] \in OpType
         /\ [r EXCEPT !.pc = p, !.before = l, !.mutated = b].pc = p
         /\ [r EXCEPT !.pc = p, !.at = t, !.mutated = b] \in OpType
         /\ [r EXCEPT !.pc = p, !.at = t, !.mutated = b].pc = p
  BY DEF OpType

LEMMA SelectTyped ==
  ASSUME NEW r \in OpType, NEW p \in Points, NEW v \in Versions \cup {Packaged}
  PROVE  [r EXCEPT !.pc = p, !.sel = v] \in OpType /\ [r EXCEPT !.pc = p, !.sel = v].pc = p
  BY DEF OpType

LEMMA NoLaneTyped == NoLane \in [Versions -> RowType]
  BY DEF NoLane, NoRow, RowType, Statuses

\* An operation that begins is an operation.
LEMMA BegunTyped ==
  ASSUME NEW k \in Kinds, NEW p \in Points, NEW v \in Versions,
         NEW w \in Versions \cup {Packaged}, NEW lane \in [Versions -> RowType]
  PROVE  Begun(k, p, v, w, lane) \in OpType /\ Begun(k, p, v, w, lane).pc = p
  BY DEF Begun, OpType, Results

LEMMA HomeTyped ==
  ASSUME NEW r \in OpType, NEW h \in Ops \cup {Old, Free}
  PROVE  [r EXCEPT !.home = h] \in OpType /\ [r EXCEPT !.home = h].pc = r.pc
  BY DEF OpType

\* The parts of a step that several actions share.
LEMMA FinishTyped ==
  ASSUME TypeOK, NEW o \in Ops, NEW r \in Results, Finish(o, r),
         chain' = IF At(o, "swap") THEN Free ELSE chain
  PROVE  LeaseTyped' /\ OpsTyped'
  <1> DEFINE ended == [op[o] EXCEPT !.pc = "done", !.result = r]
  <1>1. LeaseTyped'
    BY DEF TypeOK, LeaseTyped, Finish, Release
  <1>2. ended \in OpType /\ ended.pc = "done"
    <2>1. op[o] \in OpType /\ "done" \in Points
      BY DEF TypeOK, Points
    <2> QED BY <2>1, FieldTyped
  <1>3. op' = [op EXCEPT ![o] = ended]
    BY DEF TypeOK, Finish
  <1> HIDE DEF ended
  <1> QED BY <1>1, <1>2, <1>3, FreeAssumption DEF TypeOK, OpsTyped, At

LEMMA StepTyped ==
  ASSUME TypeOK, NEW o \in Ops, NEW p \in Points \ {"swap"}, Step(o, p),
         chain' = IF At(o, "swap") THEN Free ELSE chain
  PROVE  OpsTyped'
  <1> DEFINE next == [op[o] EXCEPT !.pc = p]
  <1>1. next \in OpType /\ next.pc = p
    <2>1. op[o] \in OpType /\ p \in Points
      BY DEF TypeOK
    <2> QED BY <2>1, FieldTyped
  <1>2. op' = [op EXCEPT ![o] = next]
    BY DEF TypeOK, Step
  <1> HIDE DEF next
  <1> QED BY <1>1, <1>2, FreeAssumption DEF TypeOK, OpsTyped, At

LEMMA FailsTyped ==
  ASSUME TypeOK, NEW o \in Ops, Fails(o),
         chain' = IF At(o, "swap") THEN Free ELSE chain
  PROVE  LeaseTyped' /\ OpsTyped'
  <1>1. CASE op[o].back
    BY <1>1, FinishTyped DEF Fails, Results
  <1>2. CASE ~op[o].back
    BY <1>2, StepTyped DEF Fails, Points, LeaseTyped, leaseVars, TypeOK
  <1> QED BY <1>1, <1>2

LEMMA ContinueTyped ==
  ASSUME TypeOK, NEW o \in Ops, NEW p \in Points \ {"swap"}, Continue(o, p),
         chain' = IF At(o, "swap") THEN Free ELSE chain
  PROVE  LeaseTyped' /\ OpsTyped'
  <1>1. CASE Step(o, p) /\ UNCHANGED leaseVars
    BY <1>1, StepTyped DEF LeaseTyped, leaseVars, TypeOK
  <1>2. CASE Step(o, "undo") /\ (AssertOwnedFails(o) \/ UNCHANGED leaseVars)
    BY <1>2, StepTyped DEF LeaseTyped, leaseVars, TypeOK, AssertOwnedFails, Points
  <1>3. CASE Finish(o, "broken")
    BY <1>3, FinishTyped DEF Results
  <1> QED BY <1>1, <1>2, <1>3 DEF Continue

LEMMA StillBounded ==
  ASSUME BoundsTyped, UNCHANGED bounds
  PROVE  BoundsTyped'
  BY DEF BoundsTyped, bounds

LEMMA FaultTyped ==
  ASSUME TypeOK, Fault
  PROVE  BoundsTyped'
  BY BoundsAssumption DEF TypeOK, BoundsTyped, Fault

-----------------------------------------------------------------------------
(* Type correctness. *)

\* Every starting lane is typed, and so is the boot selection.
LEMMA InitTyped == Init => TypeOK
  <1> SUFFICES ASSUME Init PROVE TypeOK
    OBVIOUS
  <1>1. LeaseTyped /\ FilesTyped
    BY DEF Init, LeaseInit, LeaseTyped, FilesTyped
  <1>4. BoundsTyped
    BY BoundsAssumption DEF Init, BoundsTyped
  <1>2. LaneTyped /\ CodeTyped
    BY HistoryAssumption, BoundsAssumption DEF Init, LaneTyped, CodeTyped, AtBoot
  <1>3. OpsTyped
    <2>1. NewOp \in OpType /\ NewOp.pc # "swap"
      <3>1. 1 \in Versions /\ NoLane \in [Versions -> RowType]
        BY BoundsAssumption, NoLaneTyped DEF Versions
      <3>2. "upload" \in Kinds /\ "new" \in Points
        BY DEF Kinds, Points
      <3> QED BY <3>1, <3>2, BegunTyped DEF NewOp
    <2> QED BY <2>1, FreeAssumption DEF Init, OpsTyped, At
  <1> QED BY <1>1, <1>2, <1>3, <1>4, TypeParts

\* Every written lane is a lane.
LEMMA LanesTyped ==
  ASSUME TypeOK, NEW o \in Ops
  PROVE  /\ LaneBefore(o) \in [Versions -> RowType]
         /\ LaneWithout(o) \in [Versions -> RowType]
         /\ \A r \in RowType : Demoted(r) \in RowType
         /\ clock + 1 \in Nat
  <1>1. \A r \in RowType : Demoted(r) \in RowType
    BY DEF Demoted, RowType, Statuses
  <1>2. op[o].before \in [Versions -> RowType]
    BY DEF TypeOK, OpType
  <1>3. clock + 1 \in Nat /\ NoRow \in RowType
    BY DEF TypeOK, NoRow, RowType, Statuses
  <1>4. \A r \in RowType : [r EXCEPT !.status = "live", !.at = clock + 1] \in RowType
    BY <1>3 DEF RowType, Statuses
  <1> QED BY <1>1, <1>2, <1>3, <1>4 DEF TypeOK, LaneBefore, LaneWithout

LEMMA StartTyped ==
  ASSUME TypeOK, NEW o \in Ops, Start(o)
  PROVE  TypeOK'
  <1>1. NoLane \in [Versions -> RowType] /\ rows \in [Versions -> RowType]
    BY NoLaneTyped DEF TypeOK
  <1>2. \E r \in OpType : op' = [op EXCEPT ![o] = r] /\ r.pc # "swap"
    <2>1. CASE \E v \in Versions : StartUpload(o, v)
      <3>1. PICK v \in Versions : op' = [op EXCEPT ![o] = Begun("upload", "stage", v, Packaged, NoLane)]
        BY <2>1 DEF StartUpload
      <3>2. "upload" \in Kinds /\ "stage" \in Points
        BY DEF Kinds, Points
      <3> QED BY <1>1, <3>1, <3>2, BegunTyped
    <2>2. CASE \E v \in Versions : StartRollback(o, v)
      <3>1. PICK v \in Versions : op' = [op EXCEPT ![o] = Begun("rollback", "load", v, Packaged, rows)]
        BY <2>2 DEF StartRollback
      <3>2. "rollback" \in Kinds /\ "load" \in Points
        BY DEF Kinds, Points
      <3> QED BY <1>1, <3>1, <3>2, BegunTyped
    <2>3. CASE \E v \in Versions, w \in Versions \cup {Packaged} : StartRemove(o, v, w)
      <3>1. PICK v \in Versions, w \in Versions \cup {Packaged} :
                op' = [op EXCEPT ![o] =
                        [Begun("remove", "check", v, w, rows) EXCEPT !.home = home]]
        BY <2>3 DEF StartRemove
      <3>2. "remove" \in Kinds /\ "check" \in Points /\ home \in Ops \cup {Old, Free}
        BY DEF Kinds, Points, TypeOK
      <3> DEFINE begun == Begun("remove", "check", v, w, rows)
      <3>3. begun \in OpType /\ begun.pc = "check"
        BY <1>1, <3>2, BegunTyped
      <3> HIDE DEF begun
      <3>4. [begun EXCEPT !.home = home] \in OpType /\ [begun EXCEPT !.home = home].pc = "check"
        BY <3>2, <3>3, HomeTyped
      <3>5. op' = [op EXCEPT ![o] = [begun EXCEPT !.home = home]]
        BY <3>1 DEF begun
      <3> QED BY <3>4, <3>5
    <2> QED BY <2>1, <2>2, <2>3 DEF Start
  <1>3. /\ At(o, "new") /\ Acquire(o)
        /\ UNCHANGED <<laneVars, dirs, aside, codeVars, bounds>>
    BY DEF Start, StartUpload, StartRollback, StartRemove
  <1>4. OpsTyped'
    BY <1>2, <1>3 DEF TypeOK, OpsTyped, At, codeVars
  <1>5. LeaseTyped'
    BY <1>3 DEF TypeOK, LeaseTyped, Acquire
  <1>6. LaneTyped' /\ FilesTyped' /\ CodeTyped'
    BY <1>3 DEF TypeOK, LaneTyped, FilesTyped, CodeTyped, laneVars, codeVars
  <1>7. BoundsTyped'
    <2>1. BoundsTyped /\ UNCHANGED bounds
      BY <1>3, TypeParts
    <2> QED BY <2>1, StillBounded
  <1> QED BY <1>4, <1>5, <1>6, <1>7, TypeParts


\* What an action leaves alone stays typed.
LEMMA StillTyped ==
  ASSUME TypeOK
  PROVE  /\ UNCHANGED leaseVars => LeaseTyped'
         /\ UNCHANGED laneVars => LaneTyped'
         /\ UNCHANGED <<dirs, aside>> => FilesTyped'
         /\ UNCHANGED codeVars => CodeTyped'
         /\ UNCHANGED <<op, chain>> => OpsTyped'
         /\ UNCHANGED bounds \/ Fault => BoundsTyped'
  <1>1. UNCHANGED bounds \/ Fault => BoundsTyped'
    BY StillBounded, FaultTyped, TypeParts
  <1>2. /\ UNCHANGED leaseVars => LeaseTyped'
        /\ UNCHANGED laneVars => LaneTyped'
        /\ UNCHANGED codeVars => CodeTyped'
    BY DEF TypeOK, LeaseTyped, LaneTyped, CodeTyped, leaseVars, laneVars, codeVars
  <1>3. /\ UNCHANGED <<dirs, aside>> => FilesTyped'
        /\ UNCHANGED <<op, chain>> => OpsTyped'
    BY DEF TypeOK, FilesTyped, OpsTyped, At
  <1> QED BY <1>1, <1>2, <1>3

\* An operation rewritten by a transaction stays an operation.
LEMMA WrittenTyped ==
  ASSUME TypeOK, NEW o \in Ops, NEW r \in OpType, r.pc # "swap", ~At(o, "swap"),
         op' = [op EXCEPT ![o] = r], UNCHANGED chain
  PROVE  OpsTyped'
  BY DEF TypeOK, OpsTyped, At

LEMMA UploadTyped ==
  ASSUME TypeOK, NEW o \in Ops, Upload(o)
  PROVE  TypeOK'
  <1>1. op[o] \in OpType /\ op[o].v \in Versions /\ rows \in [Versions -> RowType]
    BY DEF TypeOK, OpType
  <1>2. CASE Stage(o)
    BY <1>1, <1>2, StillTyped, StepTyped, TypeParts
       DEF Stage, At, Points, codeVars, laneVars, FilesTyped
  <1>3. CASE StageFails(o)
    BY <1>3, StillTyped, FinishTyped, TypeParts DEF StageFails, At, Results, codeVars
  <1>4. CASE CommitUpload(o)
    <2> DEFINE next == [op[o] EXCEPT !.pc = "rereg", !.before = rows, !.mutated = TRUE]
    <2>1. next \in OpType /\ next.pc = "rereg"
      <3>1. "rereg" \in Points /\ TRUE \in BOOLEAN
        BY DEF Points
      <3> QED BY <1>1, <3>1, LanesTyped, CommitTyped
    <2>2. op' = [op EXCEPT ![o] = next] /\ ~At(o, "swap") /\ UNCHANGED chain
      BY <1>4 DEF CommitUpload, At, codeVars, TypeOK
    <2>3. OpsTyped'
      <3> HIDE DEF next
      <3> QED BY <2>1, <2>2, WrittenTyped
    <2>4. LaneTyped'
      <3>1. [id |-> o, status |-> "live", at |-> clock + 1] \in RowType
        BY LanesTyped DEF RowType, Statuses
      <3>2. rows' \in [Versions -> RowType]
        BY <1>1, <1>4, <3>1, LanesTyped DEF CommitUpload
      <3> QED BY <1>4, <3>2, LanesTyped DEF CommitUpload, LaneTyped, TypeOK
    <2> QED BY <1>4, <2>3, <2>4, StillTyped, TypeParts DEF CommitUpload
  <1>5. CASE CommitUploadFails(o)
    BY <1>5, StillTyped, StepTyped, TypeParts DEF CommitUploadFails, At, Points, codeVars
  <1>6. CASE Unstage(o)
    BY <1>6, StillTyped, FinishTyped, TypeParts
       DEF Unstage, At, Results, codeVars, FilesTyped
  <1>7. CASE UndoUpload(o)
    <2> DEFINE next == [op[o] EXCEPT !.pc = "rmdir", !.back = TRUE]
    <2>1. next \in OpType /\ next.pc = "rmdir"
      <3>1. "rmdir" \in Points /\ TRUE \in BOOLEAN
        BY DEF Points
      <3> QED BY <1>1, <3>1, FlagTyped
    <2>2. op' = [op EXCEPT ![o] = next] /\ ~At(o, "swap") /\ UNCHANGED chain
      BY <1>7 DEF UndoUpload, At, codeVars, TypeOK
    <2>3. OpsTyped'
      <3> HIDE DEF next
      <3> QED BY <2>1, <2>2, WrittenTyped
    <2>4. LaneTyped'
      <3>1. /\ op[o].before \in [Versions -> RowType]
            /\ \A r \in RowType, b \in RowType : [r EXCEPT !.status = b.status] \in RowType
            /\ NoRow \in RowType
        BY <1>1 DEF OpType, RowType, NoRow, Statuses
      <3>2. rows' \in [Versions -> RowType]
        BY <1>1, <1>7, <3>1, LanesTyped DEF UndoUpload
      <3> QED BY <1>7, <3>2 DEF UndoUpload, LaneTyped, TypeOK
    <2> QED BY <1>7, <2>3, <2>4, StillTyped, TypeParts DEF UndoUpload
  <1>8. CASE RemoveStaged(o)
    BY <1>8, StillTyped, FinishTyped, StepTyped, TypeParts
       DEF RemoveStaged, At, Points, Results, codeVars, FilesTyped
  <1>9. CASE UndoUploadFails(o)
    BY <1>9, StillTyped, FinishTyped, TypeParts DEF UndoUploadFails, At, Results, codeVars
  <1> QED BY <1>2, <1>3, <1>4, <1>5, <1>6, <1>7, <1>8, <1>9 DEF Upload


LEMMA RollbackTyped ==
  ASSUME TypeOK, NEW o \in Ops, Rollback(o)
  PROVE  TypeOK'
  <1>1. op[o] \in OpType /\ op[o].v \in Versions /\ rows \in [Versions -> RowType]
    BY DEF TypeOK, OpType
  <1>2. CASE CommitRollback(o)
    <2> DEFINE next == [op[o] EXCEPT !.pc = "rereg", !.at = clock + 1, !.mutated = TRUE]
    <2>1. next \in OpType /\ next.pc = "rereg"
      <3>1. "rereg" \in Points /\ TRUE \in BOOLEAN
        BY DEF Points
      <3> QED BY <1>1, <3>1, LanesTyped, CommitTyped
    <2>2. OpsTyped'
      <3>1. op' = [op EXCEPT ![o] = next] /\ ~At(o, "swap") /\ UNCHANGED chain
        BY <1>2 DEF CommitRollback, At, codeVars, TypeOK
      <3> HIDE DEF next
      <3> QED BY <2>1, <3>1, WrittenTyped
    <2>3. LaneTyped'
      <3>1. \A r \in RowType : [r EXCEPT !.status = "live", !.at = clock + 1] \in RowType
        BY LanesTyped DEF RowType, Statuses
      <3>2. rows' \in [Versions -> RowType]
        BY <1>1, <1>2, <3>1, LanesTyped DEF CommitRollback
      <3> QED BY <1>2, <3>2, LanesTyped DEF CommitRollback, LaneTyped, TypeOK
    <2> QED BY <1>2, <2>2, <2>3, StillTyped, TypeParts DEF CommitRollback
  <1>3. CASE RollbackRefused(o)
    BY <1>3, StillTyped, FinishTyped, TypeParts DEF RollbackRefused, At, Results, codeVars
  <1>4. CASE RestoreLane(o) /\ rows' = LaneBefore(o) /\ UNCHANGED <<leaseVars, bounds>>
             /\ op' = [op EXCEPT ![o].pc = "rereg", ![o].back = TRUE]
    <2> DEFINE next == [op[o] EXCEPT !.pc = "rereg", !.back = TRUE]
    <2>1. next \in OpType /\ next.pc = "rereg"
      <3>1. "rereg" \in Points /\ TRUE \in BOOLEAN
        BY DEF Points
      <3> QED BY <1>1, <3>1, LanesTyped, FlagTyped
    <2>2. OpsTyped'
      <3>1. op' = [op EXCEPT ![o] = next] /\ ~At(o, "swap") /\ UNCHANGED chain
        BY <1>4 DEF RestoreLane, At, codeVars, TypeOK
      <3> HIDE DEF next
      <3> QED BY <2>1, <3>1, WrittenTyped
    <2>3. LaneTyped'
      BY <1>4, LanesTyped DEF RestoreLane, LaneTyped, TypeOK
    <2> QED BY <1>4, <2>2, <2>3, StillTyped, TypeParts DEF RestoreLane
  <1>5. CASE RestoreLane(o) /\ Finish(o, "broken") /\ UNCHANGED rows
             /\ (Fault \/ UNCHANGED bounds)
    <2>1. LaneTyped' /\ FilesTyped' /\ CodeTyped' /\ BoundsTyped'
      BY <1>5, StillTyped DEF RestoreLane, laneVars
    <2> QED BY <1>5, <2>1, FinishTyped, TypeParts DEF RestoreLane, At, Results, codeVars
  <1> QED BY <1>2, <1>3, <1>4, <1>5 DEF Rollback, RestoreLane

LEMMA RemoveTyped ==
  ASSUME TypeOK, NEW o \in Ops, Remove(o)
  PROVE  TypeOK'
  <1>1. op[o] \in OpType /\ op[o].v \in Versions /\ rows \in [Versions -> RowType]
        /\ op[o].before \in [Versions -> RowType]
    BY DEF TypeOK, OpType
  <1>2. CASE CheckRemove(o)
    <2>1. ~At(o, "swap") /\ UNCHANGED <<laneVars, dirs, aside, codeVars, bounds>>
      BY <1>2 DEF CheckRemove, At
    <2>2. CASE op' = [op EXCEPT ![o].pc = "rename", ![o].sole = Sole(o)]
               /\ UNCHANGED leaseVars
      <3> DEFINE next == [op[o] EXCEPT !.pc = "rename", !.sole = Sole(o)]
      <3>1. next \in OpType /\ next.pc = "rename"
        <4>1. "rename" \in Points /\ Sole(o) \in BOOLEAN
          BY DEF Points, Sole
        <4> QED BY <1>1, <4>1, SoleTyped
      <3>2. op' = [op EXCEPT ![o] = next]
        BY <2>2 DEF TypeOK
      <3>3. OpsTyped'
        <4> HIDE DEF next
        <4> QED BY <2>1, <3>1, <3>2, WrittenTyped DEF codeVars
      <3> QED BY <2>1, <2>2, <3>3, StillTyped, TypeParts
    <2>3. CASE Finish(o, "failed")
      BY <2>1, <2>3, StillTyped, FinishTyped, TypeParts DEF Results, codeVars
    <2> QED BY <1>2, <2>2, <2>3 DEF CheckRemove
  <1>3. CASE Quarantine(o)
    BY <1>1, <1>3, StillTyped, FinishTyped, StepTyped, TypeParts
       DEF Quarantine, At, Points, Results, codeVars, FilesTyped
  <1>4. CASE DropRow(o) /\ rows' = LaneWithout(o) /\ clock' = clock + 1 /\ UNCHANGED bounds
             /\ home' \in {home, Free}
             /\ op' = [op EXCEPT ![o].pc = "rereg", ![o].mutated = TRUE]
    <2> DEFINE next == [op[o] EXCEPT !.pc = "rereg", !.mutated = TRUE]
    <2>1. next \in OpType /\ next.pc = "rereg"
      <3>1. "rereg" \in Points /\ TRUE \in BOOLEAN
        BY DEF Points
      <3> QED BY <1>1, <3>1, LanesTyped, FlagTyped
    <2>2. OpsTyped'
      <3>1. op' = [op EXCEPT ![o] = next] /\ ~At(o, "swap") /\ UNCHANGED chain
        BY <1>4 DEF DropRow, At, codeVars, TypeOK
      <3> HIDE DEF next
      <3> QED BY <2>1, <3>1, WrittenTyped
    <2>3. LaneTyped'
      BY <1>4, LanesTyped DEF DropRow, LaneTyped, TypeOK
    <2> QED BY <1>4, <2>2, <2>3, StillTyped, TypeParts DEF DropRow
  <1>5. CASE DropRow(o) /\ Step(o, "undo") /\ UNCHANGED laneVars /\ (Fault \/ UNCHANGED bounds)
    BY <1>5, StillTyped, StepTyped, TypeParts DEF DropRow, At, Points, codeVars
  <1>6. CASE Purge(o)
    <2>1. FilesTyped' /\ BoundsTyped' /\ LaneTyped' /\ CodeTyped'
      BY <1>6, StillTyped, TypeParts DEF Purge, FilesTyped
    <2> QED BY <1>6, <2>1, FinishTyped, TypeParts DEF Purge, At, Results, codeVars
  <1>7. CASE PutBack(o)
    <2>1. FilesTyped' /\ BoundsTyped' /\ LaneTyped' /\ CodeTyped'
      BY <1>1, <1>7, StillTyped, TypeParts DEF PutBack, FilesTyped
    <2>2. PICK bad \in BOOLEAN :
            \/ op[o].mutated /\ UNCHANGED leaseVars
               /\ op' = [op EXCEPT ![o].pc = "reinsert", ![o].bad = bad]
            \/ Finish(o, IF bad THEN "broken" ELSE "restored")
      BY <1>7 DEF PutBack
    <2>3. ~At(o, "swap") /\ UNCHANGED chain
      BY <1>7 DEF PutBack, At, codeVars
    <2>4. CASE UNCHANGED leaseVars /\ op' = [op EXCEPT ![o].pc = "reinsert", ![o].bad = bad]
      <3> DEFINE next == [op[o] EXCEPT !.pc = "reinsert", !.bad = bad]
      <3>1. next \in OpType /\ next.pc = "reinsert"
        <4>1. "reinsert" \in Points /\ bad \in BOOLEAN
          BY <2>2 DEF Points
        <4> QED BY <1>1, <4>1, BadTyped
      <3>2. op' = [op EXCEPT ![o] = next]
        BY <2>4 DEF TypeOK
      <3>3. OpsTyped'
        <4> HIDE DEF next
        <4> QED BY <2>3, <3>1, <3>2, WrittenTyped
      <3> QED BY <2>1, <2>4, <3>3, StillTyped, TypeParts
    <2>5. CASE Finish(o, IF bad THEN "broken" ELSE "restored")
      BY <2>1, <2>3, <2>5, FinishTyped, TypeParts DEF Results
    <2> QED BY <2>2, <2>4, <2>5
  <1>8. CASE Reinsert(o)
    <2>1. ~At(o, "swap") /\ UNCHANGED chain /\ UNCHANGED leaseVars
      BY <1>8 DEF Reinsert, At, codeVars
    <2>2. "rereg" \in Points /\ TRUE \in BOOLEAN
      BY DEF Points
    <2>3. ASSUME op' = [op EXCEPT ![o].pc = "rereg", ![o].back = TRUE]
          PROVE  OpsTyped'
      <3> DEFINE next == [op[o] EXCEPT !.pc = "rereg", !.back = TRUE]
      <3>1. next \in OpType /\ next.pc = "rereg"
        BY <1>1, <2>2, FlagTyped
      <3>2. op' = [op EXCEPT ![o] = next]
        BY <2>3 DEF TypeOK
      <3> HIDE DEF next
      <3> QED BY <2>1, <3>1, <3>2, WrittenTyped
    <2>4. ASSUME op' = [op EXCEPT ![o].pc = "rereg", ![o].back = TRUE, ![o].bad = TRUE]
          PROVE  OpsTyped'
      <3> DEFINE next == [op[o] EXCEPT !.pc = "rereg", !.back = TRUE, !.bad = TRUE]
      <3>1. next \in OpType /\ next.pc = "rereg"
        BY <1>1, <2>2, BackBadTyped
      <3>2. op' = [op EXCEPT ![o] = next]
        BY <2>4 DEF TypeOK
      <3> HIDE DEF next
      <3> QED BY <2>1, <3>1, <3>2, WrittenTyped
    <2>5. OpsTyped'
      BY <1>8, <2>3, <2>4 DEF Reinsert
    <2>6. LaneTyped'
      <3>1. op[o].home \in Ops \cup {Old, Free} /\ op[o].before \in [Versions -> RowType]
        BY <1>1 DEF OpType
      <3>2. rows' \in [Versions -> RowType] /\ home' \in Ops \cup {Old, Free}
        <4>1. CASE UNCHANGED <<rows, home>>
          BY <4>1 DEF TypeOK
        <4>2. CASE /\ rows' = [LaneBefore(o) EXCEPT ![op[o].v] = op[o].before[op[o].v]]
                   /\ home' = op[o].home
          BY <1>1, <3>1, <4>2, LanesTyped
        <4> QED BY <1>8, <4>1, <4>2 DEF Reinsert
      <3> QED BY <1>8, <3>2 DEF Reinsert, LaneTyped, TypeOK
    <2>7. BoundsTyped' /\ FilesTyped' /\ CodeTyped'
      BY <1>8, StillTyped DEF Reinsert
    <2> QED BY <2>1, <2>5, <2>6, <2>7, StillTyped, TypeParts
  <1>9. DropRow(o) => \/ /\ rows' = LaneWithout(o) /\ clock' = clock + 1 /\ UNCHANGED bounds
                         /\ home' \in {home, Free}
                         /\ op' = [op EXCEPT ![o].pc = "rereg", ![o].mutated = TRUE]
                      \/ Step(o, "undo") /\ UNCHANGED laneVars /\ (Fault \/ UNCHANGED bounds)
    BY DEF DropRow
  <1> QED BY <1>2, <1>3, <1>4, <1>5, <1>6, <1>7, <1>8, <1>9 DEF Remove


LEMMA HotSwapTyped ==
  ASSUME TypeOK, NEW o \in Ops, HotSwap(o)
  PROVE  TypeOK'
  <1>1. op[o] \in OpType /\ op[o].sel \in Versions \cup {Packaged}
    BY DEF TypeOK, OpType
  <1>2. CASE \E s \in Versions \cup {Packaged} : Resolve(o, s)
    <2>1. PICK s \in Versions \cup {Packaged} : Resolve(o, s)
      BY <1>2
    <2> DEFINE next == [op[o] EXCEPT !.pc = "swap", !.sel = s]
    <2>2. next \in OpType /\ next.pc = "swap"
      <3>1. "swap" \in Points
        BY DEF Points
      <3> QED BY <1>1, <2>1, <3>1, SelectTyped
    <2>3. op' = [op EXCEPT ![o] = next] /\ chain = Free /\ chain' = o
      BY <2>1 DEF Resolve, TypeOK
    <2>4. OpsTyped'
      <3> HIDE DEF next
      <3> QED BY <2>2, <2>3, FreeAssumption DEF TypeOK, OpsTyped, At
    <2>5. LeaseTyped' /\ LaneTyped' /\ FilesTyped' /\ BoundsTyped'
      BY <2>1, StillTyped DEF Resolve
    <2>6. CodeTyped'
      BY <2>1 DEF Resolve, TypeOK, CodeTyped
    <2> QED BY <2>4, <2>5, <2>6, TypeParts
  <1>3. CASE ResolveFails(o)
    BY <1>3, StillTyped, FailsTyped, TypeParts DEF ResolveFails, At, codeVars
  <1>4. CASE Swap(o)
    <2>1. LeaseTyped' /\ OpsTyped'
      BY <1>4, ContinueTyped DEF Swap, At, Points
    <2>2. CodeTyped'
      BY <1>1, <1>4 DEF Swap, Loaded, CodeTyped, TypeOK
    <2> QED BY <1>4, <2>1, <2>2, StillTyped, TypeParts DEF Swap
  <1>5. CASE SwapFails(o)
    <2>1. LeaseTyped' /\ OpsTyped'
      BY <1>5, FailsTyped DEF SwapFails, At
    <2>2. CodeTyped'
      BY <1>1, <1>5 DEF SwapFails, Loaded, CodeTyped, TypeOK
    <2> QED BY <1>5, <2>1, <2>2, StillTyped, TypeParts DEF SwapFails
  <1>6. CASE Sync(o)
    <2>1. ~At(o, "swap") /\ UNCHANGED chain
      BY <1>6 DEF Sync, At, codeVars
    <2>2. LeaseTyped' /\ OpsTyped'
      BY <1>6, <2>1, FinishTyped, ContinueTyped, StepTyped, StillTyped
         DEF Sync, Points, Results
    <2> QED BY <1>6, <2>2, StillTyped, TypeParts DEF Sync
  <1>7. CASE SyncFails(o)
    BY <1>7, StillTyped, FailsTyped, TypeParts DEF SyncFails, At, codeVars
  <1>8. CASE Verify(o)
    <2>1. LeaseTyped' /\ OpsTyped'
      BY <1>8, FinishTyped, ContinueTyped DEF Verify, At, Points, Results, codeVars
    <2> QED BY <1>8, <2>1, StillTyped, TypeParts DEF Verify
  <1>9. CASE VerifyFails(o)
    BY <1>9, StillTyped, FailsTyped, TypeParts DEF VerifyFails, At, codeVars
  <1> QED BY <1>2, <1>3, <1>4, <1>5, <1>6, <1>7, <1>8, <1>9 DEF HotSwap

\* Time and the process.
LEMMA WorldTyped ==
  ASSUME TypeOK, (\E o \in Ops : Renew(o)) \/ RefusedRequest \/ Lapse \/ Restart
  PROVE  TypeOK'
  <1>1. CASE (\E o \in Ops : Renew(o)) \/ RefusedRequest \/ Lapse
    <2>1. LaneTyped' /\ FilesTyped' /\ CodeTyped' /\ OpsTyped'
      BY <1>1, StillTyped DEF Renew, RefusedRequest, Lapse, Unmoved, codeVars
    <2>2. LeaseTyped'
      BY <1>1 DEF Renew, RefusedRequest, Lapse, RenewLease, RenewLeaseFails, LeaseExpires,
         TypeOK, LeaseTyped
    <2>3. BoundsTyped'
      <3>1. CASE UNCHANGED bounds \/ Fault
        BY <3>1, StillTyped
      <3>2. CASE Lapse
        BY <3>2, BoundsAssumption DEF Lapse, TypeOK, BoundsTyped
      <3> QED BY <1>1, <3>1, <3>2 DEF Renew, RefusedRequest
    <2> QED BY <2>1, <2>2, <2>3, TypeParts
  <1>2. CASE Restart
    <2>1. OpsTyped'
      <3>1. \A o \in Ops : [op[o] EXCEPT !.pc = "done", !.result = "died"] \in OpType
                           /\ [op[o] EXCEPT !.pc = "done", !.result = "died"].pc = "done"
        <4>1. "done" \in Points /\ "died" \in Results /\ \A o \in Ops : op[o] \in OpType
          BY DEF Points, Results, TypeOK
        <4> QED
          <5> SUFFICES ASSUME NEW o \in Ops
                       PROVE  /\ [op[o] EXCEPT !.pc = "done", !.result = "died"] \in OpType
                              /\ [op[o] EXCEPT !.pc = "done", !.result = "died"].pc = "done"
            OBVIOUS
          <5>1. op[o] \in OpType
            BY <4>1
          <5> QED BY <4>1, <5>1, FieldTyped
      <3> QED BY <1>2, <3>1, FreeAssumption DEF Restart, TypeOK, OpsTyped, At, InFlight
    <2>2. LeaseTyped' /\ CodeTyped'
      BY <1>2 DEF Restart, TypeOK, LeaseTyped, CodeTyped, AtBoot
    <2>3. LaneTyped' /\ FilesTyped'
      BY <1>2, StillTyped DEF Restart
    <2>4. BoundsTyped'
      <3>1. restarts \in 0 .. MaxRestarts /\ restarts < MaxRestarts /\ MaxRestarts \in Nat
        BY <1>2, BoundsAssumption DEF Restart, TypeOK
      <3>2. restarts + 1 \in 0 .. MaxRestarts
        BY <3>1
      <3> QED BY <1>2, <3>2 DEF Restart, TypeOK, BoundsTyped
    <2> QED BY <2>1, <2>2, <2>3, <2>4, TypeParts
  <1> QED BY <1>1, <1>2

LEMMA StutterTyped == ASSUME TypeOK, UNCHANGED vars PROVE TypeOK'
  BY StillTyped, TypeParts DEF vars, codeVars

LEMMA NextTyped == TypeOK /\ [Next]_vars => TypeOK'
  BY StartTyped, UploadTyped, RollbackTyped, RemoveTyped, HotSwapTyped, WorldTyped,
     StutterTyped DEF Next

\* Every reachable state is well typed, and the re-registration at work is
\* the operation between its selection and its swap: no failure leaves the
\* chain held.
THEOREM CodeTypeCorrect == Spec => []TypeOK
  BY InitTyped, NextTyped, PTL DEF Spec

-----------------------------------------------------------------------------
(* One live version, and what a stale rollback may do. *)

\* The points only one kind of operation reaches; a rollback that has still
\* to commit has not committed.
KindAt ==
    \A o \in Ops :
        /\ op[o].pc \in {"stage", "commit"} => op[o].kind = "upload"
        /\ op[o].pc = "load" => op[o].kind = "rollback" /\ ~op[o].mutated
        /\ op[o].pc \in {"check", "rename", "drop", "reinsert"} => op[o].kind = "remove"

\* Every lane an operation keeps to restore has one live version as well.
OneBefore == \A o \in Ops : OneLiveIndex(op[o].before)

OneInv == OneLive /\ OneBefore /\ KindAt

\* What a step does to the record of an operation at work.
Moved(o, r) ==
    /\ op' = [op EXCEPT ![o] = r]
    /\ r.kind = op[o].kind
    /\ r.before \in {op[o].before, rows}
    /\ r.pc = "commit" => op[o].pc = "stage"
    /\ r.pc = "rename" => op[o].pc = "check"
    /\ r.pc = "drop" => op[o].pc = "rename"
    /\ r.pc = "reinsert" => op[o].kind = "remove"
    /\ r.pc \notin {"new", "stage", "load", "check"}

LEMMA FinishMoves ==
  ASSUME TypeOK, NEW o \in Ops, NEW x, Finish(o, x)
  PROVE  \E r : Moved(o, r)
  <1> DEFINE r == [op[o] EXCEPT !.pc = "done", !.result = x]
  <1>1. op' = [op EXCEPT ![o] = r]
    BY DEF Finish, TypeOK
  <1>2. r.kind = op[o].kind /\ r.before = op[o].before /\ r.pc = "done"
    BY DEF TypeOK, OpType
  <1> QED BY <1>1, <1>2 DEF Moved

LEMMA StepMoves ==
  ASSUME TypeOK, NEW o \in Ops, NEW p, Step(o, p),
         p \notin {"new", "stage", "load", "check", "reinsert"},
         p = "commit" => At(o, "stage"), p = "rename" => At(o, "check"),
         p = "drop" => At(o, "rename")
  PROVE  \E r : Moved(o, r)
  <1> DEFINE r == [op[o] EXCEPT !.pc = p]
  <1>1. op' = [op EXCEPT ![o] = r]
    BY DEF Step, TypeOK
  <1>2. r.kind = op[o].kind /\ r.before = op[o].before /\ r.pc = p
    BY DEF TypeOK, OpType
  <1> QED BY <1>1, <1>2 DEF Moved, At

LEMMA FailsMoves ==
  ASSUME TypeOK, NEW o \in Ops, Fails(o)
  PROVE  \E r : Moved(o, r)
  BY FinishMoves, StepMoves DEF Fails

LEMMA ContinueMoves ==
  ASSUME TypeOK, NEW o \in Ops, NEW p \in {"sync", "verify", "undo"}, Continue(o, p)
  PROVE  \E r : Moved(o, r)
  BY FinishMoves, StepMoves DEF Continue

\* Every action of an operation at work moves its record so.
LEMMA WorkMoves ==
  ASSUME TypeOK, NEW o \in Ops, Upload(o) \/ Rollback(o) \/ Remove(o) \/ HotSwap(o)
  PROVE  \E r : Moved(o, r)
  <1>0. op \in [Ops -> OpType] /\ op[o] \in OpType
    BY DEF TypeOK
  <1>1. CASE Upload(o)
    <2>1. CASE CommitUpload(o)
      <3> DEFINE r == [op[o] EXCEPT !.pc = "rereg", !.before = rows, !.mutated = TRUE]
      <3>1. op' = [op EXCEPT ![o] = r]
        BY <1>0, <2>1 DEF CommitUpload
      <3>2. r.kind = op[o].kind /\ r.before = rows /\ r.pc = "rereg"
        BY <1>0 DEF OpType
      <3> QED BY <3>1, <3>2 DEF Moved
    <2>2. CASE UndoUpload(o)
      <3> DEFINE r == [op[o] EXCEPT !.pc = "rmdir", !.back = TRUE]
      <3>1. op' = [op EXCEPT ![o] = r]
        BY <1>0, <2>2 DEF UndoUpload
      <3>2. r.kind = op[o].kind /\ r.before = op[o].before /\ r.pc = "rmdir"
        BY <1>0 DEF OpType
      <3> QED BY <3>1, <3>2 DEF Moved
    <2> QED BY <1>1, <2>1, <2>2, StepMoves, FinishMoves
            DEF Upload, Stage, StageFails, CommitUploadFails, Unstage, UndoUploadFails,
                RemoveStaged
  <1>2. CASE Rollback(o)
    <2>1. CASE CommitRollback(o)
      <3> DEFINE r == [op[o] EXCEPT !.pc = "rereg", !.at = clock + 1, !.mutated = TRUE]
      <3>1. op' = [op EXCEPT ![o] = r]
        BY <1>0, <2>1 DEF CommitRollback
      <3>2. r.kind = op[o].kind /\ r.before = op[o].before /\ r.pc = "rereg"
        BY <1>0 DEF OpType
      <3> QED BY <3>1, <3>2 DEF Moved
    <2>2. CASE op' = [op EXCEPT ![o].pc = "rereg", ![o].back = TRUE]
      <3> DEFINE r == [op[o] EXCEPT !.pc = "rereg", !.back = TRUE]
      <3>1. op' = [op EXCEPT ![o] = r]
        BY <1>0, <2>2
      <3>2. r.kind = op[o].kind /\ r.before = op[o].before /\ r.pc = "rereg"
        BY <1>0 DEF OpType
      <3> QED BY <3>1, <3>2 DEF Moved
    <2> QED BY <1>2, <2>1, <2>2, FinishMoves DEF Rollback, RollbackRefused, RestoreLane
  <1>3. CASE Remove(o)
    <2>1. CASE op' = [op EXCEPT ![o].pc = "rereg", ![o].mutated = TRUE]
      <3> DEFINE r == [op[o] EXCEPT !.pc = "rereg", !.mutated = TRUE]
      <3>1. op' = [op EXCEPT ![o] = r]
        BY <1>0, <2>1
      <3>2. r.kind = op[o].kind /\ r.before = op[o].before /\ r.pc = "rereg"
        BY <1>0 DEF OpType
      <3> QED BY <3>1, <3>2 DEF Moved
    <2>2. CASE \E b : op[o].kind = "remove"
                      /\ op' = [op EXCEPT ![o].pc = "reinsert", ![o].bad = b]
      <3> PICK b : op' = [op EXCEPT ![o].pc = "reinsert", ![o].bad = b]
        BY <2>2
      <3> DEFINE r == [op[o] EXCEPT !.pc = "reinsert", !.bad = b]
      <3>1. op' = [op EXCEPT ![o] = r]
        BY <1>0, <2>2
      <3>2. r.kind = op[o].kind /\ r.before = op[o].before /\ r.pc = "reinsert"
        BY <1>0 DEF OpType
      <3> QED BY <2>2, <3>1, <3>2 DEF Moved
    <2>3. CASE Reinsert(o)
      <3> DEFINE r == op'[o]
      <3>1. op' = [op EXCEPT ![o] = r] /\ r.kind = op[o].kind /\ r.before = op[o].before
            /\ r.pc = "rereg"
        BY <1>0, <2>3 DEF Reinsert, OpType
      <3> QED BY <3>1 DEF Moved
    <2>4. CASE op' = [op EXCEPT ![o].pc = "rename", ![o].sole = Sole(o)] /\ At(o, "check")
      <3> DEFINE r == [op[o] EXCEPT !.pc = "rename", !.sole = Sole(o)]
      <3>1. op' = [op EXCEPT ![o] = r]
        BY <1>0, <2>4
      <3>2. r.kind = op[o].kind /\ r.before = op[o].before /\ r.pc = "rename"
        BY <1>0 DEF OpType
      <3> QED BY <2>4, <3>1, <3>2 DEF Moved, At
    <2> QED BY <1>3, <2>1, <2>2, <2>3, <2>4, FinishMoves, StepMoves
            DEF Remove, CheckRemove, Quarantine, DropRow, Purge, PutBack
  <1>4. CASE HotSwap(o)
    <2>1. CASE \E s \in Versions \cup {Packaged} : Resolve(o, s)
      <3>1. PICK s \in Versions \cup {Packaged} : Resolve(o, s)
        BY <2>1
      <3> DEFINE r == [op[o] EXCEPT !.pc = "swap", !.sel = s]
      <3>2. op' = [op EXCEPT ![o] = r]
        BY <1>0, <3>1 DEF Resolve
      <3>3. r.kind = op[o].kind /\ r.before = op[o].before /\ r.pc = "swap"
        BY <1>0 DEF OpType
      <3> QED BY <3>2, <3>3 DEF Moved
    <2> QED BY <1>4, <2>1, FinishMoves, StepMoves, FailsMoves, ContinueMoves
            DEF HotSwap, ResolveFails, Swap, SwapFails, Sync, SyncFails, Verify, VerifyFails
  <1> QED BY <1>1, <1>2, <1>3, <1>4


LEMMA MovedKeeps ==
  ASSUME TypeOK, OneInv, NEW o \in Ops, NEW r, Moved(o, r)
  PROVE  OneBefore' /\ KindAt'
  <1>1. op \in [Ops -> OpType]
    BY DEF TypeOK
  <1>2. OneBefore'
    BY <1>1 DEF Moved, OneInv, OneBefore, OneLive, OneLiveIndex, Live
  <1>3. KindAt'
    BY <1>1 DEF Moved, OneInv, KindAt
  <1> QED BY <1>2, <1>3

\* The operations whose transactions write the lane.
Writes(o) ==
    \/ CommitUpload(o) \/ UndoUpload(o)
    \/ CommitRollback(o) \/ RestoreLane(o)
    \/ DropRow(o) \/ Reinsert(o)

LEMMA OnlyWritesWrite ==
  ASSUME TypeOK, Next, rows' # rows
  PROVE  \E o \in Ops : Writes(o)
  BY DEF Next, Start, StartUpload, StartRollback, StartRemove, Writes,
         Upload, Stage, StageFails, CommitUploadFails, Unstage, UndoUploadFails,
         RemoveStaged, Rollback, RollbackRefused, Remove, CheckRemove, Quarantine, Purge, PutBack,
         HotSwap, Resolve, ResolveFails, Swap, SwapFails, Sync, SyncFails,
         Verify, VerifyFails, Renew, RefusedRequest, Lapse, Restart, Unmoved, laneVars

\* Each of them leaves one live version: it demotes the others in the same
\* transaction, restores a lane that had one, or is refused by the index.
LEMMA WritesOne ==
  ASSUME TypeOK, OneInv, NEW o \in Ops, Writes(o)
  PROVE  OneLive'
  <1>1. /\ rows \in [Versions -> RowType]
        /\ OneLiveIndex(op[o].before)
        /\ \A r \in RowType : Demoted(r).status # "live"
    BY DEF TypeOK, OneInv, OneBefore, Demoted, RowType
  <1>2. OneLiveIndex(LaneBefore(o))
    BY <1>1 DEF OneLiveIndex, Live, LaneBefore, Kept
  <1>3. CASE CommitUpload(o)
    BY <1>1, <1>3 DEF CommitUpload, OneLive, OneLiveIndex, Live
  <1>4. CASE UndoUpload(o)
    <2>1. \A v \in Versions : rows'[v].status = "live" => op[o].before[v].status = "live"
      BY <1>1, <1>4 DEF UndoUpload, NoRow, RowType
    <2>2. rows' \in [Versions -> {rows'[v] : v \in Versions}]
      BY <1>4 DEF UndoUpload
    <2> QED BY <1>1, <2>1 DEF OneLive, OneLiveIndex, Live
  <1>5. CASE CommitRollback(o)
    BY <1>1, <1>5 DEF CommitRollback, OneLive, OneLiveIndex, Live
  <1>6. CASE RestoreLane(o)
    BY <1>2, <1>6 DEF RestoreLane, OneInv, OneLive, OneLiveIndex, Live
  <1>7. CASE DropRow(o)
    BY <1>7 DEF DropRow, Droppable, OneInv, OneLive, OneLiveIndex, Live, laneVars
  <1>8. CASE Reinsert(o)
    <2>1. CASE rows' = [LaneBefore(o) EXCEPT ![op[o].v] = op[o].before[op[o].v]]
      <3>1. \A v \in Versions : rows'[v].status = "live" => op[o].before[v].status = "live"
        BY <1>1, <2>1 DEF LaneBefore
      <3> QED BY <1>1, <3>1 DEF OneLive, OneLiveIndex, Live
    <2> QED BY <1>8, <2>1 DEF Reinsert, OneInv, OneLive, OneLiveIndex, Live
  <1> QED BY <1>3, <1>4, <1>5, <1>6, <1>7, <1>8 DEF Writes

LEMMA InitOne == Init => OneInv
  <1> SUFFICES ASSUME Init PROVE OneInv
    OBVIOUS
  <1>1. OneLive
    BY HistoryAssumption DEF Init, OneLive, OneLiveIndex
  <1>2. OneBefore
    BY DEF Init, NewOp, Begun, NoLane, NoRow, OneBefore, OneLiveIndex, Live
  <1>3. KindAt
    BY DEF Init, NewOp, Begun, KindAt
  <1> QED BY <1>1, <1>2, <1>3 DEF OneInv

LEMMA StartOne ==
  ASSUME TypeOK, OneInv, NEW o \in Ops, Start(o)
  PROVE  OneBefore' /\ KindAt'
  <1>1. op \in [Ops -> OpType] /\ OneLiveIndex(rows) /\ OneLiveIndex(NoLane)
    BY DEF TypeOK, OneInv, OneLive, OneLiveIndex, Live, NoLane, NoRow
  <1>2. CASE \E v \in Versions : StartUpload(o, v)
    BY <1>1, <1>2 DEF StartUpload, Begun, OneInv, OneBefore, KindAt
  <1>3. CASE \E v \in Versions : StartRollback(o, v)
    BY <1>1, <1>3 DEF StartRollback, Begun, OneInv, OneBefore, KindAt
  <1>4. CASE \E v \in Versions, w \in Versions \cup {Packaged} : StartRemove(o, v, w)
    BY <1>1, <1>4 DEF StartRemove, Begun, OneInv, OneBefore, KindAt
  <1> QED BY <1>2, <1>3, <1>4 DEF Start

LEMMA NextOne == TypeOK /\ OneInv /\ [Next]_vars => OneInv'
  <1> SUFFICES ASSUME TypeOK, OneInv, [Next]_vars PROVE OneInv'
    OBVIOUS
  <1>1. OneLive'
    <2>1. CASE rows' = rows
      BY <2>1 DEF OneInv, OneLive, OneLiveIndex, Live
    <2>2. CASE rows' # rows
      BY <2>2, OnlyWritesWrite, WritesOne DEF vars, laneVars
    <2> QED BY <2>1, <2>2
  <1>2. OneBefore' /\ KindAt'
    <2>1. CASE op' = op
      BY <2>1 DEF OneInv, OneBefore, KindAt
    <2>2. CASE \E o \in Ops : Start(o)
      BY <2>2, StartOne
    <2>3. CASE \E o \in Ops : Upload(o) \/ Rollback(o) \/ Remove(o) \/ HotSwap(o)
      BY <2>3, WorkMoves, MovedKeeps
    <2>4. CASE Restart
      <3>1. \A o \in Ops : op'[o].before = op[o].before /\ op'[o].kind = op[o].kind
                           /\ op'[o].mutated = op[o].mutated
                           /\ op'[o].pc \in {op[o].pc, "done"}
        BY <2>4 DEF Restart, TypeOK, OpType
      <3> QED BY <3>1 DEF OneInv, OneBefore, KindAt
    <2> QED BY <2>1, <2>2, <2>3, <2>4
            DEF Next, Renew, RefusedRequest, Lapse, Unmoved, vars
  <1> QED BY <1>1, <1>2 DEF OneInv

\* The lane of a tenant never has two live versions, whatever uploads,
\* rollbacks, removals and compensations overlap.
THEOREM OneLiveHolds == Spec => []OneLive
  <1>1. Init => TypeOK /\ OneInv
    BY InitTyped, InitOne
  <1>2. TypeOK /\ OneInv /\ [Next]_vars => (TypeOK /\ OneInv)'
    BY NextTyped, NextOne
  <1>3. TypeOK /\ OneInv => OneLive
    BY DEF OneInv
  <1> QED BY <1>1, <1>2, <1>3, PTL DEF Spec

\* The transaction that writes the rows moves its own operation and no
\* other.
LEMMA WriterMoves ==
  ASSUME TypeOK, NEW p \in Ops, Writes(p), NEW o \in Ops, op'[o] # op[o]
  PROVE  o = p
  <1>1. op \in [Ops -> OpType]
    BY DEF TypeOK
  <1>2. \A q \in Ops : q # p => op'[q] = op[q]
    BY <1>1 DEF Writes, CommitUpload, UndoUpload, CommitRollback, RestoreLane,
                DropRow, Reinsert, Step, Finish
  <1> QED BY <1>2

\* A rollback restores its lane only while the live row is the one it
\* activated itself, so nothing newer is live to be overwritten.
LEMMA RestoresItsOwn ==
  ASSUME TypeOK, NEW o \in Ops, Restorable(o), NEW v \in Live(rows)
  PROVE  rows[v].at = op[o].at
  <1>1. DOMAIN Baseline(rows) = Live(rows) /\ Baseline(rows)[v] = rows[v]
    BY DEF Baseline
  <1>2. DOMAIN Activated(o) = {op[o].v}
        /\ \A w \in DOMAIN Activated(o) : Activated(o)[w].at = op[o].at
    BY DEF Activated
  <1>3. Baseline(rows) = Activated(o)
    BY DEF Restorable
  <1> QED BY <1>1, <1>2, <1>3

LEMMA NextStands ==
  ASSUME TypeOK, OneInv, [Next]_vars, NEW o \in Ops, NEW v \in Live(rows),
         op[o].kind = "rollback", op[o].mutated, op'[o] # op[o], rows[v].at > op[o].at
  PROVE  v \in Live(rows')
  <1>1. CASE rows' = rows
    BY <1>1 DEF Live
  <1>2. CASE rows' # rows
    <2>1. Writes(o)
      <3>1. \E p \in Ops : Writes(p)
        BY <1>2, OnlyWritesWrite DEF vars, laneVars
      <3> QED BY <3>1, WriterMoves
    <2>2. ~CommitUpload(o) /\ ~UndoUpload(o) /\ ~DropRow(o) /\ ~Reinsert(o)
      BY DEF OneInv, KindAt, CommitUpload, UndoUpload, DropRow, Reinsert, At
    <2>3. ~CommitRollback(o)
      BY DEF OneInv, KindAt, CommitRollback, At
    <2>4. ~(RestoreLane(o) /\ Restorable(o))
      <3>1. rows[v].at \in Nat /\ op[o].at \in Nat
        BY DEF TypeOK, RowType, OpType, Live
      <3> QED BY <3>1, RestoresItsOwn
    <2> QED BY <1>2, <2>1, <2>2, <2>3, <2>4 DEF Writes, RestoreLane
  <1> QED BY <1>1, <1>2

\* "Never let stale compensation overwrite a deployment activated by a writer
\* that bypassed or outlived this operation's lease" (restoreLane,
\* deployment-rollback.ts), for any number of operations and lapses.
THEOREM NewerActivationStays == Spec => NewerActivationStands
  <1>1. Init => TypeOK /\ OneInv
    BY InitTyped, InitOne
  <1>2. TypeOK /\ OneInv /\ [Next]_vars => (TypeOK /\ OneInv)'
    BY NextTyped, NextOne
  <1>3. TypeOK /\ OneInv /\ [Next]_vars =>
          [\A o \in Ops : \A v \in Live(rows) :
            /\ op[o].kind = "rollback" /\ op[o].mutated /\ op'[o] # op[o]
            /\ rows[v].at > op[o].at
            => v \in Live(rows')]_vars
    BY NextStands
  <1> QED BY <1>1, <1>2, <1>3, PTL DEF Spec, NewerActivationStands

=============================================================================
