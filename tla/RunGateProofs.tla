---------------------------- MODULE RunGateProofs ----------------------------
(***************************************************************************)
(* Proofs about RunLifecycle, continued: who may change a held or an ended *)
(* run, and that a run gets past a manual action only with that action's   *)
(* decision in hand.                                                       *)
(***************************************************************************)
EXTENDS RunLifecycleProofs

USE DEF eventVars, apiVars

-----------------------------------------------------------------------------
(* The status of a held or ended run                                        *)

\* The row exists once the function has started, "ok" is written by its last step
\* only, and whatever could lift a hold goes back to an accepted resume.
StatusInv ==
    /\ fn.pc = "queued" => run = "none"
    /\ run = "ok" => fn.pc \in {"complete", "done", "dead"}
    /\ resuming \/ resumeInFlight > 0 \/ fn.pc = "unpark" => resumes > 0

\* What TerminalStays and HoldKept ask of one step.
EndKept ==
    run \in Terminal => \/ run' = run
                        \/ run # "ok" /\ run' = "failed" /\ fn.pc = "failing"
HoldEnds ==
    run = "paused" /\ run' # "paused" =>
        \/ run' = "running" /\ resumes > 0
        \/ run' = "failed" /\ fn.pc = "failing"

Kept == StatusInv' /\ EndKept /\ HoldEnds

\* Where the function's record points after each kind of step boundary.
LEMMA PcAfter ==
  ASSUME TypeOK
  PROVE  /\ \A pc \in Pcs : At(pc).pc = pc
         /\ \A pc \in Pcs : Goto(pc) => fn'.pc = pc
         /\ NextAction.pc \in {"gate", "finalize"}
         /\ AfterDecision.pc \in {"gate", "finalize", "failing"}
         /\ Retry => fn'.pc \in {fn.pc, "dead"}
         /\ \A next : Memoized(next) => fn'.pc \in {next.pc, fn.pc, "dead"}
<1>1. \A pc \in Pcs : At(pc).pc = pc
  BY DEF TypeOK, At, Function
<1>2. \A pc \in Pcs : Goto(pc) => fn'.pc = pc
  BY DEF TypeOK, Goto, Function
<1>3. NextAction.pc \in {"gate", "finalize"}
  BY DEF TypeOK, NextAction, Function
<1>4. AfterDecision.pc \in {"gate", "finalize", "failing"}
  BY <1>1, <1>3 DEF AfterDecision, Pcs
<1>5. Retry => fn'.pc \in {fn.pc, "dead"}
  BY DEF TypeOK, Retry, Function
<1>6. \A next : Memoized(next) => fn'.pc \in {next.pc, fn.pc, "dead"}
  BY <1>5 DEF Memoized
<1> QED BY <1>1, <1>2, <1>3, <1>4, <1>5, <1>6

\* An answer brings the waiting function to close-task or to invalid-task-input.
LEMMA WakeupPc ==
  ASSUME TypeOK, NEW m \in wakeups, DeliverWakeup(m)
  PROVE  UNCHANGED fn \/ (fn.pc = "waiting" /\ fn'.pc \in {"invalid", "closing"})
<1>1. ASSUME NEW pc \in Pcs, fn' = [At(pc) EXCEPT !.got = m.resolution]
      PROVE  fn'.pc = pc
  BY <1>1 DEF TypeOK, At, Function
<1>2. CASE fn.pc = "waiting" /\ fn.task = m.task
  BY <1>1, <1>2 DEF DeliverWakeup, Pcs
<1>3. CASE ~(fn.pc = "waiting" /\ fn.task = m.task)
  BY <1>3 DEF DeliverWakeup
<1> QED BY <1>2, <1>3

\* The function's steps keep ended and held rows, failRun excepted.
LEMMA FunctionStepKept ==
  ASSUME TypeOK, StatusInv, FunctionStep
  PROVE  Kept
<1>0. /\ resumes \in Nat /\ resumeInFlight \in Nat
      /\ {"gate", "parking", "parked", "act", "waiting", "emit", "failing", "complete",
          "done", "dead"} \subseteq Pcs
  BY DEF TypeOK, Pcs
<1> USE <1>0, PcAfter DEF Kept, StatusInv, EndKept, HoldEnds
<1>1. CASE InitRun
  BY <1>1 DEF InitRun, Terminal
<1>2. CASE PauseCheck
  BY <1>2 DEF PauseCheck
<1>3. CASE Park
  BY <1>3 DEF Park
<1>4. CASE PauseResume
  BY <1>4 DEF PauseResume, Terminal
<1>5. CASE RunAction
  BY <1>5 DEF RunAction, ActionDone, ActionFails
<1>6. CASE OpenTask
  <2>1. fn.pc = "act" /\ fn'.pc \in {"arming", "act", "dead"}
    BY <1>6 DEF OpenTask, Memoized, Retry, TypeOK, At, Function
  <2> QED BY <1>6, <2>1 DEF OpenTask, Terminal
<1>7. CASE ArmWait
  BY <1>7 DEF ArmWait
<1>8. CASE TimeoutTask \/ InvalidInput
  BY <1>8 DEF TimeoutTask, InvalidInput
<1>9. CASE CloseTask
  BY <1>9 DEF CloseTask, Woken, Terminal
<1>10. CASE FailRun
  BY <1>10 DEF FailRun, Terminal
<1>11. CASE Finalize
  BY <1>11 DEF Finalize, CompletionRefused, ContractRefused, OutboxWritten
<1>12. CASE Emit
  BY <1>12 DEF Emit
<1>13. CASE Complete
  BY <1>13 DEF Complete, Terminal
<1> QED BY <1>1, <1>2, <1>3, <1>4, <1>5, <1>6, <1>7, <1>8, <1>9, <1>10, <1>11, <1>12, <1>13 DEF FunctionStep

\* Every step keeps ended and held rows as TerminalStays and HoldKept ask.
LEMMA StepKept ==
  ASSUME TypeOK, StatusInv, [Next]_vars
  PROVE  Kept
<1>0. /\ resumes \in Nat /\ resumeInFlight \in Nat
      /\ {"failing", "expired", "unpark", "closing", "dead"} \subseteq Pcs
  BY DEF TypeOK, Pcs
<1>1. CASE FunctionStep
  BY <1>1, FunctionStepKept
<1> USE <1>0, PcAfter DEF Kept, StatusInv, EndKept, HoldEnds
<1>2. CASE StepFails \/ PauseWaitTimeout \/ TaskWaitTimeout
  BY <1>2 DEF StepFails, PauseWaitTimeout, TaskWaitTimeout
<1>3. ASSUME NEW m \in wakeups, DeliverWakeup(m)
      PROVE  Kept
  <2>1. \/ fn'.pc = fn.pc
        \/ fn.pc = "waiting" /\ fn'.pc \in {"invalid", "closing"}
    BY <1>3, WakeupPc
  <2> QED BY <1>3, <2>1 DEF DeliverWakeup
<1>4. CASE DeliverResume
  BY <1>4 DEF DeliverResume
<1>5. CASE DeliverCancel
  BY <1>5 DEF DeliverCancel
<1>6. ASSUME NEW t \in TaskIds, FailTask(t)
      PROVE  run' = run \/ (run \in TERMINABLE /\ run' = "failed")
  BY <1>6 DEF FailTask
<1>7. ASSUME NEW c \in Callers, NEW t \in TaskIds, NEW r \in Resolutions, Resolve(c, t, r)
      PROVE  Kept
  BY <1>6, <1>7 DEF Resolve, Recoverable, TERMINABLE, Terminal
<1>8. ASSUME NEW d \in Dispatchers, SendAccepted(d) \/ SendReturns(d) \/ SendThrows(d)
      PROVE  Kept
  BY <1>8 DEF SendAccepted, SendReturns, SendThrows, Settle
<1>9. ASSUME NEW s \in Sweepers, BeginSweep(s) \/ EndSweep(s)
      PROVE  Kept
  BY <1>9 DEF BeginSweep, EndSweep, Orphaned, TERMINABLE, Terminal
<1>10. ASSUME NEW s \in Sweepers, NEW t \in TaskIds, SweepTask(s, t)
       PROVE  Kept
  BY <1>6, <1>10 DEF SweepTask, TERMINABLE, Terminal
<1>11. CASE Pause \/ ResumeSend \/ ResumeCommit
  BY <1>11 DEF Pause, ResumeSend, ResumeCommit, Terminal
<1>12. CASE CancelSend \/ CancelCommit
  BY <1>12 DEF CancelSend, CancelCommit, TERMINABLE, Terminal
<1>13. CASE Clock
  BY <1>13 DEF Clock, RunAges, WeekPasses, AckDeadlinePasses
<1>14. CASE Restart
  BY <1>14 DEF Restart
<1>15. CASE UNCHANGED vars
  BY <1>15 DEF vars
<1> QED BY <1>1, <1>2, <1>3, <1>4, <1>5, <1>7, <1>8, <1>9, <1>10, <1>11, <1>12, <1>13, <1>14,
           <1>15 DEF Next, Deliver, Sweep

\* The status invariant holds in every reachable state.
THEOREM StatusHolds == Spec => []StatusInv
<1>1. Init => StatusInv
  BY DEF Init, StatusInv
<1>2. TypeOK /\ StatusInv /\ [Next]_vars => StatusInv'
  BY StepKept DEF Kept
<1> QED BY <1>1, <1>2, Typed, PTL DEF Spec

\* Whatever the interleaving, an ended run is relabelled by nobody but failRun,
\* and a run that ended "ok" not even by failRun.
THEOREM TerminalIsFinal == Spec => TerminalStays
<1>1. TypeOK /\ StatusInv /\ [Next]_vars => [EndKept]_vars
  BY StepKept DEF Kept
<1>2. [EndKept]_vars => [(run \in Terminal) =>
                           \/ run' = run
                           \/ run # "ok" /\ run' = "failed" /\ fn.pc = "failing"]_vars
  BY DEF EndKept
<1> QED BY <1>1, <1>2, Typed, StatusHolds, PTL DEF Spec, TerminalStays

\* Whatever the interleaving, a hold is lifted by an accepted resume or by the
\* function's own failure.
THEOREM HoldIsKept == Spec => HoldKept
<1>1. TypeOK /\ StatusInv /\ [Next]_vars => [HoldEnds]_vars
  BY StepKept DEF Kept
<1>2. [HoldEnds]_vars => [run = "paused" /\ run' # "paused" =>
                            \/ run' = "running" /\ resumes > 0
                            \/ run' = "failed" /\ fn.pc = "failing"]_vars
  BY DEF HoldEnds
<1> QED BY <1>1, <1>2, Typed, StatusHolds, PTL DEF Spec, HoldKept

-----------------------------------------------------------------------------
(* The invariant, over a function record and the task rows                  *)

AtTask == {"arming", "waiting", "expired", "invalid", "closing"}
Taking == {"invalid", "closing", "failing", "finalize", "emit", "complete", "done", "dead"}
PastPlan == {"finalize", "emit", "complete", "done"}

\* The function has gone past t's action, or stands at it holding t's answer.
Taken(f, t) ==
    \/ tasks[t].ord < f.ord /\ tasks[t].resolution \notin Rejections
    \/ /\ f.pc \in Taking /\ f.task = t
       /\ f.got = tasks[t].resolution /\ tasks[t].ord = f.ord

Decided(o) == \E t \in TaskIds : tasks[t].ord = o /\ tasks[t].status = "resolved"

GateOK(f) ==
    /\ f.pc \in AtTask => tasks[f.task].ord = f.ord
    /\ \A t \in TaskIds : tasks[t].status = "resolved" => Taken(f, t)
    /\ \A o \in 1..Len(Plan) :
        Plan[o] = "manual" /\ (o < f.ord \/ (o = f.ord /\ f.pc \in PastPlan)) => Decided(o)

GateInv == GateOK(fn)

\* The rows' half of a step, seen with the function where it was: only the answer
\* the function holds can become "resolved".
LEMMA RowsGate ==
  ASSUME Inv, GateInv, Moves
  PROVE  /\ fn.pc \in AtTask => tasks'[fn.task].ord = fn.ord
         /\ \A t \in TaskIds : tasks'[t].status = "resolved" =>
              \/ tasks'[t].ord < fn.ord /\ tasks'[t].resolution \notin Rejections
              \/ /\ fn.pc \in Taking /\ fn.task = t
                 /\ fn.got = tasks'[t].resolution /\ tasks'[t].ord = fn.ord
         /\ \A o : Decided(o) => Decided(o)'
<1>1. RowsBound /\ FunctionBound /\ TypeOK
  BY DEF Inv, DecisionInv
<1>2. CASE \A t \in TaskIds : Same(t)
  BY <1>1, <1>2 DEF Same, GateInv, GateOK, Taken, Decided, FunctionBound, AtTask
<1>3. ASSUME NEW t \in TaskIds, Move(t)
      PROVE  /\ fn.pc \in AtTask => tasks'[fn.task].ord = fn.ord
             /\ \A u \in TaskIds : tasks'[u].status = "resolved" =>
                  \/ tasks'[u].ord < fn.ord /\ tasks'[u].resolution \notin Rejections
                  \/ /\ fn.pc \in Taking /\ fn.task = u
                     /\ fn.got = tasks'[u].resolution /\ tasks'[u].ord = fn.ord
             /\ \A o : Decided(o) => Decided(o)'
  <2>1. fn.pc \in AtTask => tasks'[fn.task].ord = fn.ord
    BY <1>1, <1>3 DEF Move, Same, GateInv, GateOK, FunctionBound, AtTask
  <2>2. ASSUME NEW u \in TaskIds \ {t}, tasks'[u].status = "resolved"
        PROVE  \/ tasks'[u].ord < fn.ord /\ tasks'[u].resolution \notin Rejections
               \/ /\ fn.pc \in Taking /\ fn.task = u
                  /\ fn.got = tasks'[u].resolution /\ tasks'[u].ord = fn.ord
    BY <1>3, <2>2 DEF Move, Same, GateInv, GateOK, Taken
  <2>3. ASSUME tasks'[t].status = "resolved"
        PROVE  /\ fn.pc \in Taking /\ fn.task = t
               /\ fn.got = tasks'[t].resolution /\ tasks'[t].ord = fn.ord
    BY <1>1, <1>3, <2>3 DEF Move, GateInv, GateOK, FunctionBound, AtTask, Taking
  <2>4. \A o : Decided(o) => Decided(o)'
    BY <1>3 DEF Move, Same, Decided
  <2> QED BY <2>1, <2>2, <2>3, <2>4
<1> QED BY <1>2, <1>3 DEF Moves

\* The function's half, when it keeps its action, its task and its answer.
LEMMA StayGate ==
  ASSUME Inv, GateInv, Moves, fn'.ord = fn.ord, fn'.task = fn.task, fn'.got = fn.got,
         fn'.pc \in AtTask => fn.pc \in AtTask,
         fn.pc \in Taking => fn'.pc \in Taking,
         fn'.pc \in PastPlan => fn.pc \in PastPlan
  PROVE  GateInv'
<1>1. \A o \in 1..Len(Plan) :
        Plan[o] = "manual" /\ (o < fn.ord \/ (o = fn.ord /\ fn.pc \in PastPlan)) => Decided(o)'
  BY RowsGate DEF GateInv, GateOK
<1> QED BY <1>1, RowsGate DEF GateInv, GateOK, Taken

\* What each step boundary leaves in the function record.
LEMMA FieldsAfter ==
  ASSUME TypeOK
  PROVE  /\ \A pc \in Pcs : /\ At(pc).pc = pc /\ At(pc).ord = fn.ord
                           /\ At(pc).task = fn.task /\ At(pc).got = fn.got
         /\ \A pc \in Pcs : Goto(pc) => /\ fn'.pc = pc /\ fn'.ord = fn.ord
                                       /\ fn'.task = fn.task /\ fn'.got = fn.got
         /\ Retry => /\ fn'.pc \in {fn.pc, "dead"} /\ fn'.ord = fn.ord
                     /\ fn'.task = fn.task /\ fn'.got = fn.got
         /\ NextAction.pc = (IF fn.ord < Len(Plan) THEN "gate" ELSE "finalize")
         /\ NextAction.ord = fn.ord + 1
         /\ fn.ord \in Nat /\ fn.pc \in Pcs
<1>1. \A pc \in Pcs : /\ At(pc).pc = pc /\ At(pc).ord = fn.ord
                     /\ At(pc).task = fn.task /\ At(pc).got = fn.got
  BY DEF TypeOK, At, Function
<1>2. \A pc \in Pcs : Goto(pc) => /\ fn'.pc = pc /\ fn'.ord = fn.ord
                                 /\ fn'.task = fn.task /\ fn'.got = fn.got
  BY DEF TypeOK, Goto, Function
<1>3. Retry => /\ fn'.pc \in {fn.pc, "dead"} /\ fn'.ord = fn.ord
              /\ fn'.task = fn.task /\ fn'.got = fn.got
  BY DEF TypeOK, Retry, Function
<1>4. /\ NextAction.pc = (IF fn.ord < Len(Plan) THEN "gate" ELSE "finalize")
      /\ NextAction.ord = fn.ord + 1
  BY DEF TypeOK, NextAction, Function
<1>5. fn.ord \in Nat /\ fn.pc \in Pcs
  BY PlanDomain DEF TypeOK, Function
<1> QED BY <1>1, <1>2, <1>3, <1>4, <1>5

\* Going on to the next action: the one left behind was automatic, or decided.
LEMMA AdvanceGate ==
  ASSUME Inv, TypeOK', GateInv, Moves, fn' = NextAction, fn.ord \in 1..Len(Plan),
         \A t \in TaskIds : tasks'[t].status = "resolved" /\ tasks'[t].ord = fn.ord
             => tasks'[t].resolution \notin Rejections,
         Plan[fn.ord] = "manual" =>
             \E t \in TaskIds : tasks'[t].ord = fn.ord /\ tasks'[t].status = "resolved"
  PROVE  GateInv'
<1>0. TypeOK /\ tasks \in [TaskIds -> Task] /\ Len(Plan) \in Nat
  BY PlanDomain DEF Inv, TypeOK
<1>1. /\ fn'.ord = fn.ord + 1 /\ fn.ord \in Nat
      /\ fn'.pc = IF fn.ord < Len(Plan) THEN "gate" ELSE "finalize"
  BY <1>0, FieldsAfter
<1>2. ASSUME NEW t \in TaskIds, tasks'[t].status = "resolved"
      PROVE  tasks'[t].ord < fn'.ord /\ tasks'[t].resolution \notin Rejections
  <2>1. \/ tasks'[t].ord < fn.ord /\ tasks'[t].resolution \notin Rejections
        \/ tasks'[t].ord = fn.ord
    BY <1>2, RowsGate
  <2>2. CASE tasks'[t].ord = fn.ord
    BY <1>1, <1>2, <2>2
  <2>3. CASE tasks'[t].ord < fn.ord /\ tasks'[t].resolution \notin Rejections
    <3>1. tasks'[t].ord \in Nat
      BY PlanDomain DEF TypeOK, Task
    <3> QED BY <1>1, <2>3, <3>1
  <2> QED BY <2>1, <2>2, <2>3
<1>3. ASSUME NEW o \in 1..Len(Plan), Plan[o] = "manual", o < fn'.ord
      PROVE  Decided(o)'
  <2>1. CASE o = fn.ord
    BY <1>3, <2>1 DEF Decided
  <2>2. CASE o < fn.ord
    BY <1>3, <2>2, RowsGate DEF GateInv, GateOK
  <2> QED BY <1>1, <1>3, <2>1, <2>2
<1>4. fn'.pc \notin AtTask /\ (fn'.pc \in PastPlan => fn'.ord > Len(Plan))
  BY <1>0, <1>1 DEF AtTask, PastPlan
<1> QED BY <1>1, <1>2, <1>3, <1>4 DEF GateInv, GateOK, Taken

\* One step of the function.
LEMMA FunctionStepGate ==
  ASSUME Inv, TypeOK', GateInv, Moves, FunctionStep
  PROVE  GateInv'
<1>0. TypeOK /\ RowsBound /\ FunctionBound
  BY DEF Inv, DecisionInv
<1>p. Pcs = AtTask \cup Taking \cup {"queued", "gate", "parking", "parked", "unpark", "act"}
  BY DEF Pcs, AtTask, Taking
<1>s. ASSUME NEW pc \in Pcs \ (AtTask \cup PastPlan), Goto(pc) \/ fn' = At(pc),
             fn.pc \in Taking => pc \in Taking
      PROVE  GateInv'
  BY <1>0, <1>s, FieldsAfter, StayGate
<1>r. ASSUME Retry PROVE GateInv'
  <2>1. /\ fn'.pc \in {fn.pc, "dead"} /\ fn'.ord = fn.ord
        /\ fn'.task = fn.task /\ fn'.got = fn.got
    BY <1>0, <1>r, FieldsAfter
  <2> QED BY <2>1, StayGate DEF AtTask, Taking, PastPlan
<1>m. ASSUME NEW pc \in Pcs \ (AtTask \cup PastPlan), Memoized(At(pc)),
             fn.pc \in Taking => pc \in Taking
      PROVE  GateInv'
  BY <1>s, <1>r, <1>m DEF Memoized
<1>1. CASE InitRun \/ PauseCheck \/ Park
  BY <1>1, <1>s, <1>p DEF InitRun, PauseCheck, Park, AtTask, Taking, PastPlan
<1>2. CASE PauseResume \/ TimeoutTask \/ InvalidInput
  BY <1>2, <1>m, <1>p DEF PauseResume, TimeoutTask, InvalidInput, AtTask, Taking, PastPlan
<1>3. CASE FailRun
  BY <1>3, <1>m, <1>p DEF FailRun, AtTask, Taking, PastPlan
<1>4. CASE RunAction
  <2>1. fn.ord \in 1..Len(Plan) /\ fn.pc = "act"
    BY <1>0, <1>4, PlanDomain DEF RunAction, ActionDone, ActionFails, TypeOK, Function, LoopPcs
  <2>2. CASE fn' = NextAction /\ Plan[fn.ord] = "auto"
    <3>1. \A t \in TaskIds : tasks'[t].status = "resolved" /\ tasks'[t].ord = fn.ord
             => tasks'[t].resolution \notin Rejections
      BY <2>1, RowsGate, FieldsAfter, <1>0 DEF Taking
    <3> QED BY <2>1, <2>2, <3>1, AdvanceGate
  <2>3. CASE fn' = At("failing")
    BY <2>1, <2>3, <1>s, <1>p DEF AtTask, Taking, PastPlan
  <2> QED BY <1>4, <2>2, <2>3 DEF RunAction, ActionDone, ActionFails
<1>5. CASE OpenTask
  <2>1. PICK t \in TaskIds : /\ tasks' = [tasks EXCEPT ![t] = Asked(fn.ord)]
                             /\ Memoized([At("arming") EXCEPT !.task = t])
    BY <1>5 DEF OpenTask
  <2>2. CASE fn' = [At("arming") EXCEPT !.task = t]
    <3>1. fn'.pc = "arming" /\ fn'.task = t /\ fn'.ord = fn.ord /\ fn.pc = "act"
      BY <1>0, <1>5, <2>2 DEF OpenTask, At, TypeOK, Function
    <3>2. tasks'[t].ord = fn.ord
      BY <1>0, <2>1 DEF TypeOK, Asked, NoRow
    <3>3. \A u \in TaskIds : tasks'[u].status = "resolved" =>
            tasks'[u].ord < fn.ord /\ tasks'[u].resolution \notin Rejections
      BY <3>1, RowsGate DEF Taking
    <3>4. \A o \in 1..Len(Plan) : Plan[o] = "manual" /\ o < fn.ord => Decided(o)'
      BY RowsGate DEF GateInv, GateOK
    <3> QED BY <3>1, <3>2, <3>3, <3>4 DEF GateInv, GateOK, Taken, PastPlan
  <2> QED BY <1>r, <2>1, <2>2 DEF Memoized
<1>6. CASE ArmWait
  <2>1. fn.pc = "arming" /\ fn'.pc = "waiting" /\ fn'.ord = fn.ord /\ fn'.task = fn.task
        /\ fn'.got = fn.got
    BY <1>0, <1>6, FieldsAfter DEF ArmWait, Pcs
  <2> QED BY <2>1, StayGate DEF AtTask, Taking, PastPlan
<1>7. CASE CloseTask
  <2>1. /\ fn.pc = "closing" /\ fn.task \in TaskIds /\ fn.ord \in 1..Len(Plan)
        /\ tasks[fn.task].ord = fn.ord /\ tasks[fn.task].resolution = fn.got
        /\ fn.got \in Resolutions
    BY <1>0, <1>7, PlanDomain DEF CloseTask, FunctionBound, GateInv, GateOK, AtTask, TypeOK,
       Function, LoopPcs
  <2>2. CASE tasks[fn.task].status = "resolving" /\ fn' = AfterDecision
    <3>1. tasks'[fn.task].status = "resolved" /\ tasks'[fn.task].ord = fn.ord
      BY <1>0, <1>7, <2>1, <2>2, RowsAfter DEF CloseTask, TypeOK
    <3>2. \E t \in TaskIds : tasks'[t].ord = fn.ord /\ tasks'[t].status = "resolved"
      BY <2>1, <3>1
    <3>3. CASE fn.got \notin Rejections
      <4>1. \A t \in TaskIds : tasks'[t].status = "resolved" /\ tasks'[t].ord = fn.ord
              => tasks'[t].resolution \notin Rejections
        BY <3>3, RowsGate
      <4>2. fn' = NextAction
        BY <2>2, <3>3 DEF AfterDecision
      <4> QED BY <2>1, <3>2, <4>1, <4>2, AdvanceGate
    <3>4. CASE fn.got \in Rejections
      <4>1. /\ fn'.pc \in {"finalize", "failing"} /\ fn'.ord = fn.ord
            /\ fn'.task = fn.task /\ fn'.got = fn.got
        BY <1>0, <2>2, <3>4, FieldsAfter DEF AfterDecision, Pcs
      <4>2. \A o \in 1..Len(Plan) : Plan[o] = "manual" /\ o < fn.ord => Decided(o)'
        BY RowsGate DEF GateInv, GateOK
      <4> QED BY <2>1, <3>2, <4>1, <4>2, RowsGate DEF GateInv, GateOK, Taken, Decided, AtTask, Taking
    <3> QED BY <3>3, <3>4
  <2> QED BY <1>7, <1>r, <2>2 DEF CloseTask, Memoized
<1>8. CASE Finalize
  <2>1. fn.pc = "finalize" /\ fn'.pc \in {"emit", "failing", "dead"} /\ fn'.ord = fn.ord
        /\ fn'.task = fn.task /\ fn'.got = fn.got
    BY <1>0, <1>8, FieldsAfter DEF Finalize, CompletionRefused, ContractRefused, OutboxWritten, Pcs
  <2> QED BY <2>1, StayGate DEF AtTask, Taking, PastPlan
<1>9. CASE Emit
  <2>1. fn.pc = "emit" /\ fn'.pc = "complete" /\ fn'.ord = fn.ord
        /\ fn'.task = fn.task /\ fn'.got = fn.got
    BY <1>0, <1>9, FieldsAfter DEF Emit, Pcs
  <2> QED BY <2>1, StayGate DEF AtTask, Taking, PastPlan
<1>10. CASE Complete
  <2>1. CASE fn' = At("done")
    <3>1. fn.pc = "complete" /\ fn'.pc = "done" /\ fn'.ord = fn.ord
          /\ fn'.task = fn.task /\ fn'.got = fn.got
      BY <1>0, <1>10, <2>1, FieldsAfter DEF Complete, Pcs
    <3> QED BY <3>1, StayGate DEF AtTask, Taking, PastPlan
  <2> QED BY <1>10, <1>r, <2>1 DEF Complete, Memoized
<1> QED BY <1>1, <1>2, <1>3, <1>4, <1>5, <1>6, <1>7, <1>8, <1>9, <1>10 DEF FunctionStep

\* Every step keeps the gate invariant: the function advances only with the
\* answer of its own task.
LEMMA StepGate ==
  ASSUME Inv, GateInv, [Next]_vars
  PROVE  GateInv'
<1>0. TypeOK /\ TypeOK' /\ Moves /\ FunctionBound /\ WakeupsBound
  BY StepTyped, StepMoves DEF Inv, DecisionInv
<1>u. ASSUME UNCHANGED fn PROVE GateInv'
  BY <1>0, <1>u, StayGate
<1>d. ASSUME fn' = At("dead") PROVE GateInv'
  <2>1. /\ fn'.pc = "dead" /\ fn'.ord = fn.ord /\ fn'.task = fn.task /\ fn'.got = fn.got
    BY <1>0, <1>d, FieldsAfter DEF Pcs
  <2> QED BY <1>0, <2>1, StayGate DEF AtTask, Taking, PastPlan
<1>1. CASE FunctionStep
  BY <1>0, <1>1, FunctionStepGate
<1>2. CASE StepFails
  <2>1. /\ fn'.pc \in {fn.pc, "dead"} /\ fn'.ord = fn.ord
        /\ fn'.task = fn.task /\ fn'.got = fn.got
    BY <1>0, <1>2, FieldsAfter DEF StepFails
  <2> QED BY <1>0, <2>1, StayGate DEF AtTask, Taking, PastPlan
<1>3. CASE PauseWaitTimeout \/ TaskWaitTimeout
  <2>1. /\ <<fn.pc, fn'.pc>> \in {<<"parked", "failing">>, <<"waiting", "expired">>}
        /\ fn'.ord = fn.ord /\ fn'.task = fn.task /\ fn'.got = fn.got
    BY <1>0, <1>3, FieldsAfter DEF PauseWaitTimeout, TaskWaitTimeout, Pcs
  <2> QED BY <1>0, <2>1, StayGate DEF AtTask, Taking, PastPlan
<1>4. ASSUME NEW m \in wakeups, DeliverWakeup(m)
      PROVE  GateInv'
  <2>1. CASE fn.pc = "waiting" /\ fn.task = m.task
    <3>1. fn'.pc \in {"invalid", "closing"} /\ fn'.ord = fn.ord /\ fn'.task = fn.task
      BY <1>0, <1>4, <2>1 DEF DeliverWakeup, At, TypeOK, Function
    <3>2. \A o \in 1..Len(Plan) : Plan[o] = "manual" /\ o < fn.ord => Decided(o)'
      BY <1>0, RowsGate DEF GateInv, GateOK
    <3> QED BY <1>0, <2>1, <3>1, <3>2, RowsGate DEF GateInv, GateOK, Taken, AtTask, Taking, PastPlan
  <2>2. CASE ~(fn.pc = "waiting" /\ fn.task = m.task)
    BY <1>u, <1>4, <2>2 DEF DeliverWakeup
  <2> QED BY <2>1, <2>2
<1>5. CASE DeliverResume
  <2>1. CASE fn.pc = "parked"
    <3>1. /\ fn'.pc = "unpark" /\ fn'.ord = fn.ord /\ fn'.task = fn.task /\ fn'.got = fn.got
      BY <1>0, <1>5, <2>1, FieldsAfter DEF DeliverResume, Pcs
    <3> QED BY <1>0, <2>1, <3>1, StayGate DEF AtTask, Taking, PastPlan
  <2>2. CASE fn.pc # "parked"
    BY <1>u, <1>5, <2>2 DEF DeliverResume
  <2> QED BY <2>1, <2>2
<1>6. CASE DeliverCancel
  BY <1>u, <1>d, <1>6 DEF DeliverCancel
<1>7. CASE \E c \in Callers, t \in TaskIds, r \in Resolutions : Resolve(c, t, r)
  BY <1>u, <1>7 DEF Resolve
<1>8. CASE \E d \in Dispatchers : SendAccepted(d) \/ SendReturns(d) \/ SendThrows(d)
  BY <1>u, <1>8 DEF SendAccepted, SendReturns, SendThrows, Settle
<1>9. CASE Sweep \/ Clock
  BY <1>u, <1>9 DEF Sweep, BeginSweep, SweepTask, EndSweep, Clock, RunAges, WeekPasses,
     AckDeadlinePasses
<1>10. CASE Pause \/ ResumeSend \/ ResumeCommit \/ CancelSend \/ CancelCommit
  BY <1>u, <1>10 DEF Pause, ResumeSend, ResumeCommit, CancelSend, CancelCommit
<1>11. CASE Restart
  BY <1>u, <1>d, <1>11 DEF Restart
<1>12. CASE UNCHANGED vars
  BY <1>u, <1>12 DEF vars
<1> QED BY <1>1, <1>2, <1>3, <1>4, <1>5, <1>6, <1>7, <1>8, <1>9, <1>10, <1>11, <1>12
        DEF Next, Deliver

\* Nothing is decided or passed yet.
LEMMA InitGate == Init => GateInv
<1> SUFFICES ASSUME Init PROVE GateInv
  OBVIOUS
<1>1. fn.pc = "queued" /\ fn.ord = 1 /\ \A t \in TaskIds : tasks[t].status = "none"
  BY DEF Init, NoRow
<1>2. \A o \in 1..Len(Plan) : ~(o < 1)
  BY PlanDomain
<1> QED BY <1>1, <1>2 DEF GateInv, GateOK, AtTask, PastPlan

\* The function is past a manual action only with that action's decision
\* consumed.
THEOREM GateHolds == Spec => []GateInv
<1>1. Inv /\ GateInv /\ [Next]_vars => GateInv'
  BY StepGate
<1> QED BY <1>1, InitGate, InvHolds, PTL DEF Spec

-----------------------------------------------------------------------------
(* What follows about decisions                                             *)

\* A task never reads "resolved" before the run that asked took the resolution:
\* the claim, the dispatch, the broker and the reconciler cannot make it so.
THEOREM ResolvedMeansConsumed == Spec => []ConsumedByItsRun
<1>1. Inv /\ GateInv => ConsumedByItsRun
  BY PlanDomain DEF GateInv, GateOK, Taken, ConsumedByItsRun, Inv, TypeOK, Task, Function
<1> QED BY <1>1, InvHolds, GateHolds, PTL

\* No action runs after a rejected question, for any plan and either version.
THEOREM RejectionStops == Spec => []RejectionStopsThePlan
<1>1. GateInv => RejectionStopsThePlan
  BY DEF GateInv, GateOK, Taken, RejectionStopsThePlan
<1> QED BY <1>1, GateHolds, PTL

\* However many tasks replays open for one action, one of them is consumed at most.
THEOREM OneDecision == Spec => []OneDecisionPerGate
<1>1. Init => OneDecisionPerGate
  BY DEF Init, NoRow, OneDecisionPerGate
<1>2. Inv /\ GateInv /\ OneDecisionPerGate /\ [Next]_vars => OneDecisionPerGate'
  <2> SUFFICES ASSUME Inv, GateInv, OneDecisionPerGate, Moves
               PROVE  OneDecisionPerGate'
    BY StepMoves
  <2>1. CASE \A t \in TaskIds : Same(t)
    BY <2>1 DEF Same, OneDecisionPerGate
  <2>2. ASSUME NEW t \in TaskIds, Move(t)
        PROVE  OneDecisionPerGate'
    <3>1. CASE tasks'[t].status = "resolved"
      <4>1. fn.pc = "closing" /\ fn.task = t /\ tasks'[t].ord = tasks[t].ord
            /\ tasks[t].ord = fn.ord
        BY <2>2, <3>1 DEF Move, GateInv, GateOK, AtTask
      <4>2. \A u \in TaskIds \ {t} : tasks'[u].status = "resolved" => tasks'[u].ord # fn.ord
        <5> SUFFICES ASSUME NEW u \in TaskIds \ {t}, tasks'[u].status = "resolved"
                     PROVE  tasks'[u].ord # fn.ord
          OBVIOUS
        <5>1. tasks[u].status = "resolved" /\ tasks'[u].ord = tasks[u].ord
          BY <2>2 DEF Move, Same
        <5>2. tasks[u].ord < fn.ord
          BY <4>1, <5>1 DEF GateInv, GateOK, Taken
        <5>3. fn.ord \in Nat
          BY FieldsAfter DEF Inv
        <5> QED BY <5>1, <5>2, <5>3
      <4> QED BY <2>2, <4>1, <4>2 DEF Move, Same, OneDecisionPerGate
    <3>2. CASE tasks'[t].status # "resolved"
      BY <2>2, <3>2 DEF Move, Same, OneDecisionPerGate
    <3> QED BY <3>1, <3>2
  <2> QED BY <2>1, <2>2 DEF Moves
<1> QED BY <1>1, <1>2, InvHolds, GateHolds, PTL DEF Spec

-----------------------------------------------------------------------------
(* What an ended or waiting run shows                                       *)

Ended == {"complete", "done", "dead"}
GivingUp == {"expired", "invalid", "failing", "dead"}

\* Where "ok" and the downstream events come from, and what cannot be left again.
Outward ==
    /\ run' = "ok" => run = "ok" \/ fn.pc = "complete"
    /\ sent => sent'
    /\ fn'.pc \in {"complete", "done"} => fn.pc \in {"complete", "done"} \/ sent'
    /\ fn.pc \in Ended => fn'.pc \in Ended /\ fn'.ord = fn.ord
    /\ fn.pc \in GivingUp => fn'.pc \in GivingUp

\* No step but Complete writes "ok", and nothing undoes Emit.
LEMMA StepOutward ==
  ASSUME TypeOK, StatusInv, [Next]_vars
  PROVE  Outward
<1>0. {"gate", "parking", "parked", "unpark", "act", "waiting", "expired", "emit", "failing",
       "invalid", "complete", "done", "dead"} \subseteq Pcs
  BY DEF Pcs
<1> USE <1>0, FieldsAfter DEF Outward, Ended, GivingUp
<1>1. CASE InitRun \/ PauseCheck \/ Park \/ ArmWait \/ Finalize \/ Emit
  BY <1>1 DEF InitRun, PauseCheck, Park, ArmWait, Finalize, CompletionRefused, ContractRefused, OutboxWritten, Emit
<1>2. CASE PauseResume \/ TimeoutTask \/ InvalidInput \/ FailRun \/ Complete
  BY <1>2 DEF PauseResume, TimeoutTask, InvalidInput, FailRun, Complete, Memoized
<1>3. CASE RunAction \/ CloseTask
  <2>1. /\ fn.pc \in {"act", "closing"} /\ UNCHANGED sent /\ (run' = "ok" => run = "ok")
    BY <1>3 DEF RunAction, ActionDone, ActionFails, CloseTask, Woken
  <2>2. fn'.pc \in {"closing", "gate", "finalize", "failing", "dead"}
    BY <1>3, PcAfter DEF RunAction, ActionDone, ActionFails, CloseTask
  <2> QED BY <2>1, <2>2
<1>4. CASE OpenTask
  <2>1. fn.pc = "act" /\ fn'.pc \in {"arming", "act", "dead"}
    BY <1>4 DEF OpenTask, Memoized, Retry, TypeOK, At, Function
  <2> QED BY <1>4, <2>1 DEF OpenTask
<1>5. CASE StepFails \/ PauseWaitTimeout \/ TaskWaitTimeout
  BY <1>5 DEF StepFails, PauseWaitTimeout, TaskWaitTimeout
<1>6. ASSUME NEW m \in wakeups, DeliverWakeup(m)
      PROVE  Outward
  <2>1. UNCHANGED fn \/ (fn.pc = "waiting" /\ fn'.pc \in {"invalid", "closing"})
    BY <1>6, WakeupPc
  <2> QED BY <1>6, <2>1 DEF DeliverWakeup
<1>7. CASE DeliverResume \/ DeliverCancel
  BY <1>7 DEF DeliverResume, DeliverCancel, Live
<1>8. ASSUME NEW t \in TaskIds, FailTask(t)
      PROVE  run' # "ok" \/ run' = run
  BY <1>8 DEF FailTask
<1>9. ASSUME NEW c \in Callers, NEW t \in TaskIds, NEW r \in Resolutions, Resolve(c, t, r)
      PROVE  Outward
  BY <1>8, <1>9 DEF Resolve
<1>10. ASSUME NEW d \in Dispatchers, SendAccepted(d) \/ SendReturns(d) \/ SendThrows(d)
       PROVE  Outward
  BY <1>10 DEF SendAccepted, SendReturns, SendThrows, Settle
<1>11. ASSUME NEW s \in Sweepers, BeginSweep(s) \/ EndSweep(s)
       PROVE  Outward
  BY <1>11 DEF BeginSweep, EndSweep
<1>12. ASSUME NEW s \in Sweepers, NEW t \in TaskIds, SweepTask(s, t)
       PROVE  Outward
  BY <1>8, <1>12 DEF SweepTask
<1>13. CASE Pause \/ ResumeSend \/ ResumeCommit \/ CancelSend \/ CancelCommit \/ Clock
  BY <1>13 DEF Pause, ResumeSend, ResumeCommit, CancelSend, CancelCommit, Clock, RunAges,
     WeekPasses, AckDeadlinePasses
<1>14. CASE Restart
  BY <1>14 DEF Restart, Live
<1>15. CASE UNCHANGED vars
  BY <1>15 DEF vars
<1> QED BY <1>1, <1>2, <1>3, <1>4, <1>5, <1>6, <1>7, <1>9, <1>10, <1>11, <1>12, <1>13, <1>14,
           <1>15 DEF Next, FunctionStep, Deliver, Sweep

OutcomeInv ==
    /\ fn.pc \in {"complete", "done"} => sent
    /\ OkRunWasDecided

\* Whatever timed out, was replayed, retried or recovered, a run that reads "ok"
\* consumed a human decision at every manual action it passed and has emitted.
THEOREM OkMeansDecided == Spec => []OkRunWasDecided
<1>1. Init => OutcomeInv
  BY DEF Init, OutcomeInv, OkRunWasDecided
<1>2. Inv /\ StatusInv /\ GateInv /\ OutcomeInv /\ [Next]_vars => OutcomeInv'
  <2> SUFFICES ASSUME Inv, StatusInv, GateInv, OutcomeInv, [Next]_vars
               PROVE  OutcomeInv'
    OBVIOUS
  <2>1. Outward /\ Moves
    BY StepOutward, StepMoves DEF Inv
  <2>2. \A o : Decided(o) => Decided(o)'
    BY <2>1, RowsGate
  <2>3. fn'.pc \in {"complete", "done"} => sent'
    BY <2>1 DEF Outward, OutcomeInv
  <2>4. ASSUME run' = "ok"
        PROVE  sent' /\ \A o \in 1..Len(Plan) : Plan[o] = "manual" /\ o <= fn'.ord => Decided(o)'
    <3>1. fn.pc \in Ended /\ fn'.ord = fn.ord
      BY <2>1, <2>4 DEF Outward, StatusInv, Ended
    <3>2. CASE run = "ok"
      BY <2>1, <2>2, <3>1, <3>2 DEF Outward, OutcomeInv, OkRunWasDecided, Decided
    <3>3. CASE fn.pc = "complete"
      <4>1. \A o \in 1..Len(Plan) : o <= fn.ord => o < fn.ord \/ o = fn.ord
        BY PlanDomain, FieldsAfter DEF Inv
      <4>2. \A o \in 1..Len(Plan) : Plan[o] = "manual" /\ o <= fn.ord => Decided(o)
        BY <3>3, <4>1 DEF GateInv, GateOK, PastPlan
      <4>3. sent'
        BY <2>1, <3>3 DEF Outward, OutcomeInv
      <4> QED BY <2>2, <3>1, <4>2, <4>3
    <3> QED BY <2>1, <2>4, <3>2, <3>3 DEF Outward
  <2> QED BY <2>3, <2>4 DEF OutcomeInv, OkRunWasDecided, Decided
<1>3. OutcomeInv => OkRunWasDecided
  BY DEF OutcomeInv
<1> QED BY <1>1, <1>2, <1>3, InvHolds, StatusHolds, GateHolds, PTL DEF Spec

\* A step that leaves the run waiting leaves it an owner.
LEMMA StepOwned ==
  ASSUME TypeOK, StatusInv, WaitingIsOwned, [Next]_vars, run' = "waiting"
  PROVE  WaitingIsOwned'
<1>0. Outward
  BY StepOutward
<1>1. ASSUME run = "waiting", \A t \in TaskIds : tasks'[t].status = tasks[t].status
      PROVE  WaitingIsOwned'
  BY <1>0, <1>1 DEF WaitingIsOwned, Outward, GivingUp
<1>2. ASSUME UNCHANGED <<run, tasks>> PROVE WaitingIsOwned'
  BY <1>1, <1>2
<1>3. ASSUME NEW t \in TaskIds, tasks'[t].status \in {"open", "resolving"}
      PROVE  WaitingIsOwned'
  BY <1>3 DEF WaitingIsOwned
<1>4. ASSUME NEW t \in TaskIds, FailTask(t)
      PROVE  WaitingIsOwned'
  BY <1>2, <1>4 DEF FailTask, TERMINABLE
<1>5. tasks \in [TaskIds -> Task]
  BY DEF TypeOK
<1>6. CASE OpenTask
  <2>1. PICK t \in TaskIds : tasks' = [tasks EXCEPT ![t] = Asked(fn.ord)]
    BY <1>6 DEF OpenTask
  <2>2. tasks'[t].status = "open"
    BY <1>5, <2>1 DEF Asked, NoRow
  <2> QED BY <1>3, <2>2
<1>7. CASE TimeoutTask \/ InvalidInput
  <2>1. fn'.pc \in GivingUp
    BY <1>0, <1>7 DEF TimeoutTask, InvalidInput, Outward, GivingUp
  <2> QED BY <2>1 DEF WaitingIsOwned, GivingUp
<1>8. CASE CloseTask
  BY <1>2, <1>8 DEF CloseTask, Woken
<1>9. CASE FunctionStep
  BY <1>2, <1>6, <1>7, <1>8, <1>9 DEF FunctionStep, InitRun, PauseCheck, Park, PauseResume,
     RunAction, ActionDone, ActionFails, ArmWait, FailRun, Finalize, CompletionRefused, ContractRefused, OutboxWritten, Emit, Complete
<1>10. ASSUME NEW c \in Callers, NEW t \in TaskIds, NEW r \in Resolutions, Resolve(c, t, r)
       PROVE  WaitingIsOwned'
  <2>1. CASE Recoverable(t)
    <3>1. /\ tasks[t] \in Task /\ Claimed(tasks[t], r) \in Task
          /\ tasks[t].status = "open" => tasks' = [tasks EXCEPT ![t] = Dispatching(Claimed(@, r))]
          /\ tasks[t].status # "open" => /\ tasks[t].status = "resolving"
                                        /\ tasks' = [tasks EXCEPT ![t] = Dispatching(@)]
      BY <1>5, <1>10, <2>1, RowTyped DEF Resolve, Accepts
    <3>2. tasks'[t].status = "resolving"
      BY <1>5, <3>1, RowsAfter
    <3> QED BY <1>3, <3>2
  <2>2. CASE ~Recoverable(t)
    BY <1>4, <1>10, <2>2 DEF Resolve
  <2> QED BY <2>1, <2>2
<1>11. ASSUME NEW d \in Dispatchers, NEW resume, Settle(d, resume)
       PROVE  WaitingIsOwned'
  <2>1. run' = run /\ \A t \in TaskIds : tasks'[t].status = tasks[t].status
    BY <1>5, <1>11 DEF Settle, Task
  <2> QED BY <1>1, <2>1
<1>12. ASSUME NEW s \in Sweepers, NEW t \in TaskIds, SweepTask(s, t)
       PROVE  WaitingIsOwned'
  <2>1. CASE UNCHANGED run /\ tasks' = [tasks EXCEPT ![t] = Dispatching(@)]
    <3>1. \A u \in TaskIds : tasks'[u].status = tasks[u].status
      BY <1>5, <2>1, RowsAfter
    <3> QED BY <1>1, <2>1, <3>1
  <2> QED BY <1>2, <1>4, <1>12, <2>1 DEF SweepTask
<1>13. ASSUME NEW s \in Sweepers, EndSweep(s)
       PROVE  WaitingIsOwned'
  BY <1>2, <1>13 DEF EndSweep
<1>14. ASSUME NEW t \in TaskIds, WeekPasses(t) \/ AckDeadlinePasses(t)
       PROVE  WaitingIsOwned'
  <2>1. run' = run /\ \A u \in TaskIds : tasks'[u].status = tasks[u].status
    BY <1>5, <1>14 DEF WeekPasses, AckDeadlinePasses, Task
  <2> QED BY <1>1, <2>1
<1>15. CASE StepFails \/ PauseWaitTimeout \/ TaskWaitTimeout \/ Deliver \/ Restart
  BY <1>2, <1>15 DEF StepFails, PauseWaitTimeout, TaskWaitTimeout, Deliver, DeliverWakeup,
     DeliverResume, DeliverCancel, Restart
<1>16. CASE Pause \/ ResumeSend \/ ResumeCommit \/ CancelSend \/ CancelCommit
  BY <1>2, <1>16 DEF Pause, ResumeSend, ResumeCommit, CancelSend, CancelCommit
<1>17. ASSUME NEW d \in Dispatchers, SendAccepted(d) \/ SendReturns(d) \/ SendThrows(d)
       PROVE  WaitingIsOwned'
  BY <1>2, <1>11, <1>17 DEF SendAccepted, SendReturns, SendThrows
<1>18. CASE Sweep \/ Clock
  BY <1>2, <1>12, <1>13, <1>14, <1>18 DEF Sweep, BeginSweep, Clock, RunAges
<1>19. CASE UNCHANGED vars
  BY <1>2, <1>19 DEF vars
<1> QED BY <1>9, <1>10, <1>15, <1>16, <1>17, <1>18, <1>19 DEF Next

\* A "waiting" run is never left without a task that is still to be answered, unless
\* its function is already giving up or gone.
THEOREM WaitingRunsAreOwned == Spec => []WaitingIsOwned
<1>1. Init => WaitingIsOwned
  BY DEF Init, WaitingIsOwned
<1>2. TypeOK /\ StatusInv /\ WaitingIsOwned /\ [Next]_vars => WaitingIsOwned'
  <2> SUFFICES ASSUME TypeOK, StatusInv, WaitingIsOwned, [Next]_vars
               PROVE  WaitingIsOwned'
    OBVIOUS
  <2>1. CASE run' = "waiting"
    BY <2>1, StepOwned
  <2>2. CASE run' # "waiting"
    BY <2>2 DEF WaitingIsOwned
  <2> QED BY <2>1, <2>2
<1> QED BY <1>1, <1>2, Typed, StatusHolds, PTL DEF Spec
==============================================================================
