------------------------- MODULE RunLifecycleProofs -------------------------
(***************************************************************************)
(* Proofs about RunLifecycle: its types, the inductive invariant about     *)
(* human decisions, and that it implements HumanDecision.                  *)
(***************************************************************************)
EXTENDS RunLifecycle, TLAPS

USE DEF eventVars, apiVars

-----------------------------------------------------------------------------
(* Types                                                                    *)

\* The plan is not empty, and an action is automatic or manual.
LEMMA PlanDomain == /\ Len(Plan) \in Nat \ {0}
                    /\ \A o \in 1..Len(Plan) : Plan[o] \in {"auto", "manual"}
  BY PlanAssumption

\* The bounds are naturals.
LEMMA Bounds == /\ Retries \in Nat /\ 0 \in 0..Retries
                /\ MaxFaults \in Nat /\ 0 \in 0..MaxFaults
                /\ MaxResumes \in Nat /\ V2 \in BOOLEAN
  BY BoundAssumption

\* The first action is an action.
LEMMA FirstAction == 1 \in 1..(Len(Plan) + 1) /\ 0 \in 0..Len(Plan)
  BY PlanDomain

\* The inductive invariant.
Inv == TypeOK /\ DecisionInv

FnOK(f) == f \in Function /\ (f.pc \in LoopPcs => f.ord <= Len(Plan))

\* The function record keeps its type wherever a step sends it.
LEMMA AtTyped ==
  ASSUME FnOK(fn), NEW pc \in Pcs, pc \in LoopPcs => fn.ord <= Len(Plan)
  PROVE  /\ FnOK(At(pc))
         /\ \A t \in TaskIds : FnOK([At(pc) EXCEPT !.task = t])
         /\ \A r \in Resolutions : FnOK([At(pc) EXCEPT !.got = r])
<1>1. At(pc) \in Function /\ At(pc).pc = pc /\ At(pc).ord = fn.ord
  BY Bounds DEF At, Function, FnOK
<1> HIDE DEF At
<1>2. ASSUME NEW t \in TaskIds PROVE FnOK([At(pc) EXCEPT !.task = t])
  BY <1>1 DEF Function, FnOK
<1>3. ASSUME NEW r \in Resolutions PROVE FnOK([At(pc) EXCEPT !.got = r])
  BY <1>1 DEF Function, FnOK
<1> QED BY <1>1, <1>2, <1>3 DEF FnOK

\* The loop stops at the end of the plan.
LEMMA NextActionTyped ==
  ASSUME FnOK(fn), fn.ord <= Len(Plan)
  PROVE  FnOK(NextAction)
<1>1. /\ fn.ord + 1 \in 1..(Len(Plan) + 1)
      /\ fn.ord < Len(Plan) => fn.ord + 1 <= Len(Plan)
  BY PlanDomain DEF Function, FnOK
<1>2. NextAction \in Function
  BY <1>1, Bounds DEF NextAction, Function, Pcs, FnOK
<1>3. NextAction.ord = fn.ord + 1
  BY DEF NextAction, Function, FnOK
<1>4. NextAction.pc = IF fn.ord < Len(Plan) THEN "gate" ELSE "finalize"
  BY DEF NextAction, Function, FnOK
<1> QED BY <1>1, <1>2, <1>3, <1>4 DEF FnOK, LoopPcs

\* A retried attempt stays within the retry budget.
LEMMA RetryTyped ==
  ASSUME FnOK(fn), Retry
  PROVE  FnOK(fn')
<1>1. CASE fn.tries < Retries
  <2>1. fn.tries + 1 \in 0..Retries
    BY <1>1, Bounds DEF Function, FnOK
  <2> QED BY <1>1, <2>1 DEF Retry, Function, FnOK
<1>2. CASE ~(fn.tries < Retries)
  BY <1>2 DEF Retry, Function, FnOK, Pcs, LoopPcs
<1> QED BY <1>1, <1>2

\* A body that is memoized or lost leaves a typed function.
LEMMA MemoizedTyped ==
  ASSUME FnOK(fn), faults \in 0..MaxFaults, NEW next, FnOK(next), Memoized(next)
  PROVE  FnOK(fn') /\ faults' \in 0..MaxFaults
  BY RetryTyped, Bounds DEF Memoized, Fault, FnOK

\* Faults stay within their bound.
LEMMA FaultTyped ==
  ASSUME faults \in 0..MaxFaults, Fault
  PROVE  faults' \in 0..MaxFaults
  BY Bounds DEF Fault

\* So does a task row under each of the writes the code makes to it.
LEMMA RowTyped ==
  ASSUME NEW row \in Task
  PROVE  /\ TimedOut(row) \in Task /\ StepFailed(row) \in Task /\ Failed(row) \in Task
         /\ Dispatching(row) \in Task
         /\ \A r \in Resolutions : /\ Claimed(row, r) \in Task /\ Closed(row, r) \in Task
                                  /\ Refused(row, r) \in Task
         /\ [row EXCEPT !.week = TRUE] \in Task /\ [row EXCEPT !.late = TRUE] \in Task
         /\ [row EXCEPT !.resume = "pending"] \in Task
         /\ [row EXCEPT !.resume = "dispatched"] \in Task
<1>1. StepFailed(row) \in Task
  BY DEF Task, StepFailed
<1>2. Failed(row) \in Task
  BY <1>1 DEF Task, Failed
<1>3. TimedOut(row) \in Task /\ Dispatching(row) \in Task
  BY DEF Task, TimedOut, Dispatching
<1>4. \A r \in Resolutions : /\ Claimed(row, r) \in Task /\ Closed(row, r) \in Task
                           /\ Refused(row, r) \in Task
  BY DEF Task, Claimed, Closed, Refused, TimedOut
<1>5. /\ [row EXCEPT !.week = TRUE] \in Task /\ [row EXCEPT !.late = TRUE] \in Task
      /\ [row EXCEPT !.resume = "pending"] \in Task
      /\ [row EXCEPT !.resume = "dispatched"] \in Task
  BY DEF Task
<1> QED BY <1>1, <1>2, <1>3, <1>4, <1>5

\* The row of a new task is a task row.
LEMMA AskedTyped ==
  ASSUME NEW ord \in 1..Len(Plan)
  PROVE  Asked(ord) \in Task
<1>1. ord \in 0..Len(Plan)
  BY PlanDomain
<1> QED BY <1>1 DEF Asked, NoRow, Task

\* Every variable starts in its domain.
THEOREM InitTyped == Init => TypeOK
<1> SUFFICES ASSUME Init PROVE TypeOK
  OBVIOUS
<1>1. fn \in Function
  BY FirstAction, Bounds DEF Init, Function, Pcs
<1>2. tasks \in [TaskIds -> Task]
  BY FirstAction DEF Init, NoRow, Task
<1>3. send \in [Dispatchers -> Dispatch]
  BY DEF Init, NoSend, Sending, Dispatch
<1>4. fn.ord <= Len(Plan)
  BY PlanDomain DEF Init
<1> QED BY <1>1, <1>2, <1>3, <1>4, Bounds DEF Init, TypeOK, RunStatus, Verdict, NoVerdict

\* The steps of the durable function keep the types.
LEMMA FunctionStepTyped == Inv /\ FunctionStep => TypeOK'
<1> SUFFICES ASSUME TypeOK, DecisionInv, FunctionStep PROVE TypeOK'
  BY DEF Inv
<1>f. FnOK(fn) /\ faults \in 0..MaxFaults
  BY DEF TypeOK, FnOK
<1>p. LoopPcs \subseteq Pcs /\ StepPcs \subseteq Pcs
  BY DEF LoopPcs, StepPcs, Pcs
<1>g. ASSUME NEW pc \in Pcs, Goto(pc), pc \in LoopPcs => fn.ord <= Len(Plan)
      PROVE  FnOK(fn')
  BY <1>f, <1>g, AtTyped DEF Goto, At
<1>1. CASE InitRun
  <2>1. FnOK(fn')
    BY <1>1, <1>f, <1>g DEF InitRun, FnOK, LoopPcs, Pcs, TypeOK
  <2> QED BY <1>1, <2>1 DEF InitRun, TypeOK, FnOK, RunStatus, TERMINABLE
<1>2. CASE PauseCheck
  <2>1. FnOK(fn')
    BY <1>2, <1>f, <1>g DEF PauseCheck, FnOK, LoopPcs, Pcs
  <2> QED BY <1>2, <2>1 DEF PauseCheck, TypeOK, FnOK
<1>3. CASE Park
  <2>1. FnOK(fn')
    BY <1>3, <1>f, <1>g DEF Park, FnOK, LoopPcs, Pcs
  <2> QED BY <1>3, <2>1 DEF Park, TypeOK, FnOK
<1>4. CASE ArmWait
  <2>1. FnOK(fn')
    BY <1>4, <1>f, <1>g DEF ArmWait, FnOK, LoopPcs, Pcs
  <2> QED BY <1>4, <2>1 DEF ArmWait, TypeOK, FnOK
<1>5. CASE Finalize
  <2>1. FnOK(fn')
    BY <1>5, <1>f, <1>g DEF Finalize, CompletionRefused, ContractRefused, OutboxWritten, FnOK, LoopPcs, Pcs
  <2> QED BY <1>5, <2>1 DEF Finalize, CompletionRefused, ContractRefused, OutboxWritten, TypeOK, FnOK
<1>6. CASE Emit
  <2>1. FnOK(fn')
    BY <1>6, <1>f, <1>g DEF Emit, FnOK, LoopPcs, Pcs
  <2> QED BY <1>6, <2>1 DEF Emit, TypeOK, FnOK
<1>7. CASE PauseResume
  <2>1. FnOK(At("act"))
    BY <1>7, <1>f, AtTyped DEF PauseResume, FnOK, LoopPcs, Pcs
  <2>2. FnOK(fn') /\ faults' \in 0..MaxFaults
    BY <1>7, <1>f, <2>1, MemoizedTyped DEF PauseResume
  <2> QED BY <1>7, <2>2 DEF PauseResume, TypeOK, FnOK, RunStatus, TERMINABLE
<1>8. CASE RunAction
  <2>1. FnOK(NextAction) /\ FnOK(At("failing"))
    BY <1>8, <1>f, AtTyped, NextActionTyped DEF RunAction, ActionDone, ActionFails, FnOK, LoopPcs, Pcs
  <2> QED BY <1>8, <2>1 DEF RunAction, ActionDone, ActionFails, TypeOK, FnOK
<1>9. CASE OpenTask
  <2>1. PICK t \in TaskIds :
           /\ tasks' = [tasks EXCEPT ![t] = Asked(fn.ord)]
           /\ Memoized([At("arming") EXCEPT !.task = t])
    BY <1>9 DEF OpenTask
  <2>2. fn.ord \in 1..Len(Plan)
    BY <1>9, <1>f, PlanDomain DEF OpenTask, FnOK, LoopPcs, Function
  <2>3. Asked(fn.ord) \in Task
    BY <2>2, AskedTyped
  <2>4. FnOK([At("arming") EXCEPT !.task = t])
    BY <1>9, <1>f, AtTyped DEF OpenTask, FnOK, LoopPcs, Pcs
  <2>5. FnOK(fn') /\ faults' \in 0..MaxFaults
    BY <1>f, <2>1, <2>4, MemoizedTyped
  <2>6. tasks' \in [TaskIds -> Task]
    BY <2>1, <2>3 DEF TypeOK
  <2> QED BY <1>9, <2>5, <2>6 DEF OpenTask, TypeOK, FnOK, RunStatus, TERMINABLE
<1>10. CASE TimeoutTask
  <2>1. FnOK(At("failing"))
    BY <1>10, <1>f, AtTyped DEF TimeoutTask, LoopPcs, Pcs
  <2>2. FnOK(fn') /\ faults' \in 0..MaxFaults
    BY <1>10, <1>f, <2>1, MemoizedTyped DEF TimeoutTask
  <2>3. tasks' \in [TaskIds -> Task]
    BY <1>10, RowTyped DEF TimeoutTask, TypeOK
  <2> QED BY <1>10, <2>2, <2>3 DEF TimeoutTask, TypeOK, FnOK
<1>11. CASE CloseTask
  <2>1. FnOK(AfterDecision)
    BY <1>11, <1>f, AtTyped, NextActionTyped DEF CloseTask, AfterDecision, FnOK, LoopPcs, Pcs
  <2>2. FnOK(fn') /\ faults' \in 0..MaxFaults
    BY <1>11, <1>f, <2>1, MemoizedTyped, RetryTyped DEF CloseTask
  <2>3. tasks' \in [TaskIds -> Task]
    <3>1. fn.task \in TaskIds /\ fn.got \in Resolutions
      BY <1>11 DEF CloseTask, DecisionInv, FunctionBound
    <3>2. Closed(tasks[fn.task], fn.got) \in Task
      BY <3>1, RowTyped DEF TypeOK
    <3> QED BY <1>11, <3>2 DEF CloseTask, TypeOK
  <2> QED BY <1>11, <2>2, <2>3 DEF CloseTask, TypeOK, FnOK, Woken, RunStatus, TERMINABLE
<1>12. CASE FailRun
  <2>1. FnOK(At("dead"))
    BY <1>12, <1>f, AtTyped DEF FailRun, LoopPcs, Pcs
  <2>2. FnOK(fn') /\ faults' \in 0..MaxFaults
    BY <1>12, <1>f, <2>1, MemoizedTyped DEF FailRun
  <2> QED BY <1>12, <2>2 DEF FailRun, TypeOK, FnOK, RunStatus, Terminal
<1>13. CASE Complete
  <2>1. FnOK(At("done"))
    BY <1>13, <1>f, AtTyped DEF Complete, LoopPcs, Pcs
  <2>2. FnOK(fn') /\ faults' \in 0..MaxFaults
    BY <1>13, <1>f, <2>1, MemoizedTyped, RetryTyped DEF Complete
  <2> QED BY <1>13, <2>2 DEF Complete, TypeOK, FnOK, RunStatus, Terminal
<1>14. CASE InvalidInput
  <2>1. FnOK(At("failing"))
    BY <1>14, <1>f, AtTyped DEF InvalidInput, LoopPcs, Pcs
  <2>2. FnOK(fn') /\ faults' \in 0..MaxFaults
    BY <1>14, <1>f, <2>1, MemoizedTyped DEF InvalidInput
  <2>3. tasks' \in [TaskIds -> Task]
    BY <1>14, RowTyped DEF InvalidInput, TypeOK, DecisionInv, FunctionBound
  <2> QED BY <1>14, <2>2, <2>3 DEF InvalidInput, TypeOK, FnOK
<1> QED BY <1>14, <1>1, <1>2, <1>3, <1>4, <1>5, <1>6, <1>7, <1>8, <1>9, <1>10, <1>11, <1>12, <1>13 DEF FunctionStep

\* Failing a task keeps the rows typed.
LEMMA FailTaskTyped ==
  ASSUME TypeOK, NEW t \in TaskIds, FailTask(t)
  PROVE  tasks' \in [TaskIds -> Task] /\ run' \in RunStatus \cup {"none"}
<1>1. tasks[t] \in Task /\ tasks \in [TaskIds -> Task]
  BY DEF TypeOK
<1>2. Failed(tasks[t]) \in Task
  BY <1>1, RowTyped
<1> QED BY <1>1, <1>2 DEF FailTask, TypeOK, RunStatus, Terminal

\* A resolve request keeps the types.
LEMMA ResolveTyped ==
  ASSUME TypeOK, NEW c \in Callers, NEW t \in TaskIds, NEW r \in Resolutions, Resolve(c, t, r)
  PROVE  TypeOK'
<1>1. CASE Recoverable(t)
  <2>1. tasks' \in [TaskIds -> Task]
    <3>1. /\ Dispatching(Claimed(tasks[t], r)) \in Task
          /\ Dispatching(tasks[t]) \in Task
      BY RowTyped DEF TypeOK
    <3> QED BY <1>1, <3>1 DEF Resolve, TypeOK
  <2>2. send' \in [Dispatchers -> Dispatch]
    <3>1. Sending(t, r) \in Dispatch
      BY DEF Sending, Dispatch
    <3> QED BY <1>1, <3>1 DEF Resolve, TypeOK
  <2> QED BY <1>1, <2>1, <2>2 DEF Resolve, TypeOK, RunStatus, TERMINABLE
<1>2. CASE ~Recoverable(t)
  BY <1>2, FailTaskTyped DEF Resolve, TypeOK
<1> QED BY <1>1, <1>2

\* The dispatch of a stored resolution keeps the types.
LEMMA SendTyped ==
  ASSUME TypeOK, DecisionInv, NEW d \in Dispatchers, SendAccepted(d) \/ SendReturns(d) \/ SendThrows(d)
  PROVE  TypeOK'
<1>1. CASE SendAccepted(d)
  <2>1. send[d].task \in TaskIds
    BY <1>1 DEF SendAccepted, TypeOK, Dispatch
  <2>2. wakeups' \subseteq Wakeup
    BY <1>1, <2>1 DEF SendAccepted, TypeOK, DecisionInv, SendsBound, Wakeup
  <2> QED BY <1>1, <2>1, <2>2 DEF SendAccepted, TypeOK, Dispatch
<1>2. ASSUME NEW resume \in {"pending", "dispatched"}, Settle(d, resume)
      PROVE  tasks' \in [TaskIds -> Task] /\ send' \in [Dispatchers -> Dispatch]
  <2>1. NoSend \in Dispatch
    BY DEF NoSend, Sending, Dispatch
  <2> QED BY <1>2, <2>1, RowTyped DEF Settle, TypeOK
<1>3. CASE SendReturns(d)
  BY <1>2, <1>3 DEF SendReturns, Settle, TypeOK
<1>4. CASE SendThrows(d)
  BY <1>2, <1>4, FaultTyped DEF SendThrows, Settle, TypeOK
<1> QED BY <1>1, <1>3, <1>4

\* Broker deliveries keep the types.
LEMMA DeliverTyped == Inv /\ Deliver => TypeOK'
<1> SUFFICES ASSUME TypeOK, DecisionInv, Deliver PROVE TypeOK'
  BY DEF Inv
<1>f. FnOK(fn)
  BY DEF TypeOK, FnOK
<1>1. ASSUME NEW m \in wakeups, DeliverWakeup(m) PROVE TypeOK'
  <2>1. m.resolution \in Resolutions
    BY DEF TypeOK, Wakeup
  <2>2. FnOK(fn')
    BY <1>1, <1>f, <2>1, AtTyped DEF DeliverWakeup, FnOK, LoopPcs, Pcs
  <2> QED BY <1>1, <2>2 DEF DeliverWakeup, TypeOK, FnOK
<1>2. CASE DeliverResume
  <2>1. FnOK(fn')
    BY <1>2, <1>f, AtTyped DEF DeliverResume, FnOK, LoopPcs, Pcs
  <2> QED BY <1>2, <2>1 DEF DeliverResume, TypeOK, FnOK
<1>3. CASE DeliverCancel
  <2>1. FnOK(fn')
    BY <1>3, <1>f, AtTyped DEF DeliverCancel, LoopPcs, Pcs
  <2> QED BY <1>3, <2>1 DEF DeliverCancel, TypeOK, FnOK
<1> QED BY <1>1, <1>2, <1>3 DEF Deliver

\* The reconciler keeps the types.
LEMMA SweepTyped == Inv /\ Sweep => TypeOK'
<1> SUFFICES ASSUME TypeOK, DecisionInv, Sweep PROVE TypeOK'
  BY DEF Inv
<1>1. ASSUME NEW s \in Sweepers, BeginSweep(s) PROVE TypeOK'
  BY <1>1 DEF BeginSweep, TypeOK
<1>2. ASSUME NEW s \in Sweepers, NEW t \in TaskIds, SweepTask(s, t) PROVE TypeOK'
  <2>1. verdict' \in [Sweepers -> [TaskIds -> Verdict]]
    BY <1>2 DEF SweepTask, TypeOK, Verdict
  <2>2. CASE FailTask(t) /\ UNCHANGED send
    BY <1>2, <2>1, <2>2, FailTaskTyped DEF SweepTask, TypeOK
  <2>3. CASE /\ tasks[t].status = "resolving"
             /\ tasks' = [tasks EXCEPT ![t] = Dispatching(@)]
             /\ send' = [send EXCEPT ![s] = Sending(t, tasks[t].resolution)]
             /\ UNCHANGED run
    <3>1. Sending(t, tasks[t].resolution) \in Dispatch
      BY <2>3 DEF DecisionInv, RowsBound, SendsBound, FunctionBound, Sending, Dispatch
    <3>2. tasks' \in [TaskIds -> Task] /\ send' \in [Dispatchers -> Dispatch]
      BY <2>3, <3>1, RowTyped DEF TypeOK
    <3> QED BY <1>2, <2>1, <2>3, <3>2 DEF SweepTask, TypeOK
  <2>4. CASE UNCHANGED <<run, tasks, send>>
    BY <1>2, <2>1, <2>4 DEF SweepTask, TypeOK
  <2> QED BY <1>2, <2>2, <2>3, <2>4 DEF SweepTask
<1>3. ASSUME NEW s \in Sweepers, EndSweep(s) PROVE TypeOK'
  <2>1. tasks' \in [TaskIds -> Task]
    BY <1>3, RowTyped DEF EndSweep, TypeOK
  <2> QED BY <1>3, <2>1 DEF EndSweep, TypeOK, RunStatus, Terminal
<1> QED BY <1>1, <1>2, <1>3 DEF Sweep

\* The passing of time keeps the types.
LEMMA ClockTyped == Inv /\ Clock => TypeOK'
<1> SUFFICES ASSUME TypeOK, Clock PROVE TypeOK'
  BY DEF Inv
<1>1. CASE RunAges
  BY <1>1 DEF RunAges, TypeOK
<1>2. ASSUME NEW t \in TaskIds, WeekPasses(t) \/ AckDeadlinePasses(t) PROVE TypeOK'
  <2>1. tasks' \in [TaskIds -> Task]
    <3>1. CASE WeekPasses(t)
      BY <3>1, RowTyped DEF WeekPasses, TypeOK
    <3>2. CASE AckDeadlinePasses(t)
      BY <3>2, RowTyped DEF AckDeadlinePasses, TypeOK
    <3> QED BY <1>2, <3>1, <3>2
  <2> QED BY <1>2, <2>1 DEF WeekPasses, AckDeadlinePasses, TypeOK
<1> QED BY <1>1, <1>2 DEF Clock

\* Every step keeps every variable in its domain.
THEOREM StepTyped == Inv /\ [Next]_vars => TypeOK'
<1> SUFFICES ASSUME Inv, [Next]_vars PROVE TypeOK'
  OBVIOUS
<1>0. TypeOK /\ FnOK(fn)
  BY DEF Inv, TypeOK, FnOK
<1>1. CASE FunctionStep
  BY <1>1, FunctionStepTyped
<1>2. CASE StepFails
  BY <1>0, <1>2, RetryTyped, FaultTyped DEF StepFails, TypeOK, FnOK
<1>3. CASE PauseWaitTimeout \/ TaskWaitTimeout
  <2>1. FnOK(fn')
    BY <1>0, <1>3, AtTyped DEF PauseWaitTimeout, TaskWaitTimeout, Goto, At, FnOK, LoopPcs, Pcs
  <2> QED BY <1>0, <1>3, <2>1 DEF PauseWaitTimeout, TaskWaitTimeout, TypeOK, FnOK
<1>4. CASE Deliver
  BY <1>4, DeliverTyped
<1>5. CASE \E c \in Callers, t \in TaskIds, r \in Resolutions : Resolve(c, t, r)
  BY <1>0, <1>5, ResolveTyped
<1>6. CASE \E d \in Dispatchers : SendAccepted(d) \/ SendReturns(d) \/ SendThrows(d)
  BY <1>0, <1>6, SendTyped DEF Inv
<1>7. CASE Sweep
  BY <1>7, SweepTyped
<1>8. CASE Pause \/ ResumeSend \/ ResumeCommit \/ CancelSend \/ CancelCommit
  <2>1. CASE Pause \/ ResumeCommit \/ CancelCommit
    BY <1>0, <2>1 DEF Pause, ResumeCommit, CancelCommit, TypeOK, RunStatus, Terminal, TERMINABLE
  <2>2. CASE ResumeSend
    <3>1. faults' \in 0..MaxFaults /\ resuming' \in BOOLEAN
      BY <1>0, <2>2, FaultTyped DEF ResumeSend, TypeOK
    <3> QED BY <1>0, <2>2, <3>1 DEF ResumeSend, TypeOK
  <2>3. CASE CancelSend
    BY <1>0, <2>3, FaultTyped DEF CancelSend, TypeOK
  <2> QED BY <1>8, <2>1, <2>2, <2>3
<1>9. CASE Clock
  BY <1>9, ClockTyped
<1>10. CASE Restart
  <2>1. FnOK(fn')
    BY <1>0, <1>10, AtTyped DEF Restart, LoopPcs, Pcs
  <2>2. NoSend \in Dispatch /\ NoVerdict \in [TaskIds -> Verdict]
    BY DEF NoSend, Sending, Dispatch, NoVerdict, Verdict
  <2> QED BY <1>0, <1>10, <2>1, <2>2, FaultTyped DEF Restart, TypeOK, FnOK
<1>11. CASE UNCHANGED vars
  BY <1>0, <1>11 DEF vars, TypeOK
<1> QED BY <1>1, <1>2, <1>3, <1>4, <1>5, <1>6, <1>7, <1>8, <1>9, <1>10, <1>11 DEF Next

-----------------------------------------------------------------------------
(* The decision a run takes is the one that was claimed                     *)

Same(t) == /\ tasks'[t].status = tasks[t].status
           /\ tasks'[t].resolution = tasks[t].resolution
           /\ tasks'[t].ord = tasks[t].ord

\* The only ways a step may move a task; a task is opened by the function for its
\* current action, and resolved by the function when it holds the answer.
Move(t) ==
    /\ \A u \in TaskIds \ {t} : Same(u)
    /\ tasks[t].status # "none" => tasks'[t].ord = tasks[t].ord
    /\ \/ /\ tasks[t].status = "none" /\ tasks'[t].status = "open"
          /\ tasks'[t].resolution = None /\ tasks'[t].ord = fn.ord
       \/ /\ tasks[t].status = "open" /\ tasks'[t].status = "resolving"
          /\ tasks'[t].resolution \in Resolutions
       \/ /\ tasks[t].status = "resolving" /\ tasks'[t].status = "resolved"
          /\ tasks'[t].resolution = tasks[t].resolution
          /\ fn.pc = "closing" /\ fn.task = t
       \/ /\ tasks[t].status \in {"open", "resolving"} /\ tasks'[t].status = "failed"
          /\ tasks'[t].resolution = tasks[t].resolution

Moves == (\A t \in TaskIds : Same(t)) \/ \E t \in TaskIds : Move(t)

\* What each row operation leaves in status, resolution and action.
LEMMA RowsAfter ==
  ASSUME TypeOK, NEW row \in Task
  PROVE  /\ TimedOut(row).status = "failed" /\ TimedOut(row).resolution = row.resolution
         /\ StepFailed(row).status = row.status /\ StepFailed(row).resolution = row.resolution
         /\ Failed(row).status = "failed" /\ Failed(row).resolution = row.resolution
         /\ Dispatching(row).status = row.status /\ Dispatching(row).resolution = row.resolution
         /\ \A r : Claimed(row, r).status = "resolving" /\ Claimed(row, r).resolution = r
         /\ \A r : Closed(row, r).status = "resolved" /\ Closed(row, r).resolution = r
         /\ \A o : Asked(o).status = "open" /\ Asked(o).resolution = None /\ Asked(o).ord = o
         /\ TimedOut(row).ord = row.ord /\ StepFailed(row).ord = row.ord
         /\ Failed(row).ord = row.ord /\ Dispatching(row).ord = row.ord
         /\ \A r : Claimed(row, r).ord = row.ord /\ Closed(row, r).ord = row.ord
         /\ \A r : /\ Refused(row, r).status = "failed" /\ Refused(row, r).resolution = r
                   /\ Refused(row, r).ord = row.ord
  BY DEF Task, Refused, TimedOut, StepFailed, Failed, Dispatching, Claimed, Closed, Asked, NoRow

\* Failing a task abandons an open or claimed question, or does nothing.
LEMMA FailTaskMoves ==
  ASSUME TypeOK, NEW t \in TaskIds, FailTask(t)
  PROVE  Moves
<1>1. tasks[t] \in Task
  BY DEF TypeOK
<1>2. CASE tasks[t].status \in {"open", "resolving"}
  <2>1. Move(t)
    BY <1>1, <1>2, RowsAfter DEF FailTask, Move, Same, TypeOK
  <2> QED BY <2>1 DEF Moves
<1>3. CASE tasks[t].status \notin {"open", "resolving"}
  BY <1>3 DEF FailTask, Moves, Same
<1> QED BY <1>2, <1>3

\* Every step moves one task along its life, or none.
LEMMA StepMoves == Inv /\ [Next]_vars => Moves
<1> SUFFICES ASSUME TypeOK, DecisionInv, [Next]_vars PROVE Moves
  BY DEF Inv
<1>0. /\ tasks \in [TaskIds -> Task]
      /\ \A t \in TaskIds : tasks[t] \in Task
  BY DEF TypeOK
<1>1. CASE UNCHANGED tasks
  BY <1>1 DEF Moves, Same
<1>2. CASE OpenTask
  <2>1. PICK t \in TaskIds : tasks[t].status = "none" /\ tasks' = [tasks EXCEPT ![t] = Asked(fn.ord)]
    BY <1>2 DEF OpenTask
  <2>2. Move(t)
    BY <1>0, <2>1, RowsAfter DEF Move, Same
  <2> QED BY <2>2 DEF Moves
<1>3. CASE TimeoutTask
  <2>1. /\ fn.task \in TaskIds
        /\ tasks[fn.task].status \in {"open", "resolving", "failed"}
        /\ tasks' = [tasks EXCEPT ![fn.task] = TimedOut(@)]
    BY <1>3 DEF TimeoutTask, DecisionInv, FunctionBound
  <2>2. CASE tasks[fn.task].status = "failed"
    BY <1>0, <2>1, <2>2, RowsAfter DEF Moves, Same
  <2>3. CASE tasks[fn.task].status \in {"open", "resolving"}
    <3>1. Move(fn.task)
      BY <1>0, <2>1, <2>3, RowsAfter DEF Move, Same
    <3> QED BY <2>1, <3>1 DEF Moves
  <2> QED BY <2>1, <2>2, <2>3
<1>4. CASE CloseTask
  <2>1. /\ fn.task \in TaskIds /\ fn.pc = "closing"
        /\ tasks[fn.task].resolution = fn.got
    BY <1>4 DEF CloseTask, DecisionInv, FunctionBound
  <2>2. CASE tasks[fn.task].status = "resolving"
    <3>1. Move(fn.task)
      BY <1>0, <1>4, <2>1, <2>2, RowsAfter DEF CloseTask, Move, Same
    <3> QED BY <2>1, <3>1 DEF Moves
  <2>3. CASE tasks[fn.task].status # "resolving"
    BY <1>4, <2>3 DEF CloseTask, Moves, Same
  <2> QED BY <2>2, <2>3
<1>5. ASSUME NEW c \in Callers, NEW t \in TaskIds, NEW r \in Resolutions, Resolve(c, t, r)
      PROVE  Moves
  <2>1. CASE ~Recoverable(t)
    BY <1>5, <2>1, FailTaskMoves DEF Resolve
  <2>2. CASE Recoverable(t) /\ tasks[t].status = "open"
    <3>1. tasks' = [tasks EXCEPT ![t] = Dispatching(Claimed(@, r))] /\ Claimed(tasks[t], r) \in Task
      BY <1>0, <1>5, <2>2, RowTyped DEF Resolve
    <3>2. Move(t)
      BY <1>0, <2>2, <3>1, RowsAfter DEF Move, Same
    <3> QED BY <3>2 DEF Moves
  <2>3. CASE Recoverable(t) /\ tasks[t].status # "open"
    <3>1. tasks' = [tasks EXCEPT ![t] = Dispatching(@)]
      BY <1>5, <2>3 DEF Resolve
    <3> QED BY <1>0, <3>1, RowsAfter DEF Moves, Same
  <2> QED BY <2>1, <2>2, <2>3
<1>6. ASSUME NEW d \in Dispatchers, NEW resume, Settle(d, resume)
      PROVE  Moves
  BY <1>0, <1>6 DEF Settle, Moves, Same, Task
<1>7. ASSUME NEW s \in Sweepers, NEW t \in TaskIds, SweepTask(s, t)
      PROVE  Moves
  <2>1. CASE FailTask(t)
    BY <2>1, FailTaskMoves
  <2>2. CASE tasks' = [tasks EXCEPT ![t] = Dispatching(@)]
    BY <1>0, <2>2, RowsAfter DEF Moves, Same
  <2> QED BY <1>1, <1>7, <2>1, <2>2 DEF SweepTask
<1>8. ASSUME NEW s \in Sweepers, EndSweep(s)
      PROVE  Moves
  BY <1>0, <1>8, RowsAfter DEF EndSweep, Moves, Same
<1>9. ASSUME NEW t \in TaskIds, WeekPasses(t) \/ AckDeadlinePasses(t)
      PROVE  Moves
  BY <1>0, <1>9 DEF WeekPasses, AckDeadlinePasses, Moves, Same, Task
<1>i. CASE InvalidInput
  <2>1. /\ fn.task \in TaskIds
        /\ tasks[fn.task].status \in {"resolving", "failed"}
        /\ tasks[fn.task].resolution = fn.got
        /\ tasks' = [tasks EXCEPT ![fn.task] = Refused(@, fn.got)]
    BY <1>i DEF InvalidInput, DecisionInv, FunctionBound
  <2>2. CASE tasks[fn.task].status = "failed"
    BY <1>0, <2>1, <2>2, RowsAfter DEF Moves, Same
  <2>3. CASE tasks[fn.task].status = "resolving"
    <3>1. Move(fn.task)
      BY <1>0, <2>1, <2>3, RowsAfter DEF Move, Same
    <3> QED BY <2>1, <3>1 DEF Moves
  <2> QED BY <2>1, <2>2, <2>3
<1>10. CASE FunctionStep
  BY <1>1, <1>2, <1>3, <1>4, <1>i, <1>10 DEF FunctionStep, InitRun, PauseCheck, Park, PauseResume,
     RunAction, ActionDone, ActionFails, ArmWait, FailRun, Finalize, CompletionRefused, ContractRefused, OutboxWritten, Emit, Complete
<1>11. CASE StepFails \/ PauseWaitTimeout \/ TaskWaitTimeout \/ Pause \/ ResumeSend
             \/ ResumeCommit \/ CancelSend \/ CancelCommit \/ Restart
  BY <1>1, <1>11 DEF StepFails, PauseWaitTimeout, TaskWaitTimeout, Pause, ResumeSend,
     ResumeCommit, CancelSend, CancelCommit, Restart
<1>12. CASE Deliver
  BY <1>1, <1>12 DEF Deliver, DeliverWakeup, DeliverResume, DeliverCancel
<1>13. ASSUME NEW d \in Dispatchers, SendAccepted(d) \/ SendReturns(d) \/ SendThrows(d)
       PROVE  Moves
  BY <1>1, <1>6, <1>13 DEF SendAccepted, SendReturns, SendThrows
<1>14. CASE Sweep
  BY <1>1, <1>7, <1>8, <1>14 DEF Sweep, BeginSweep
<1>15. CASE Clock
  BY <1>1, <1>9, <1>15 DEF Clock, RunAges
<1> QED BY <1>1, <1>5, <1>10, <1>11, <1>12, <1>13, <1>14, <1>15 DEF Next, vars

\* What a move leaves standing, for the rows and for whoever holds a resolution.
LEMMA MovesKeepBinding ==
  ASSUME Inv, Moves
  PROVE  /\ RowsBound'
         /\ \A t \in TaskIds : tasks[t].resolution \in Resolutions
                => tasks'[t].resolution = tasks[t].resolution
         /\ fn.pc \in {"arming", "waiting", "expired"} =>
                tasks'[fn.task].status \in {"open", "resolving", "failed"}
         /\ fn.pc = "closing" =>
                /\ tasks'[fn.task].resolution = fn.got
                /\ tasks'[fn.task].status \in {"resolving", "resolved", "failed"}
         /\ fn.pc = "invalid" =>
                /\ tasks'[fn.task].resolution = fn.got
                /\ tasks'[fn.task].status \in {"resolving", "failed"}
<1> USE NullAssumption
<1>1. /\ RowsBound /\ FunctionBound
      /\ \A t \in TaskIds : tasks[t].status \in {"none", "open", "resolving", "resolved", "failed"}
  BY DEF Inv, DecisionInv, TypeOK, Task
<1>2. CASE \A t \in TaskIds : Same(t)
  BY <1>1, <1>2 DEF Same, RowsBound, FunctionBound
<1>3. ASSUME NEW t \in TaskIds, Move(t)
      PROVE  /\ RowsBound'
             /\ \A u \in TaskIds : tasks[u].resolution \in Resolutions
                    => tasks'[u].resolution = tasks[u].resolution
             /\ fn.pc \in {"arming", "waiting", "expired"} =>
                    tasks'[fn.task].status \in {"open", "resolving", "failed"}
             /\ fn.pc = "closing" =>
                    /\ tasks'[fn.task].resolution = fn.got
                    /\ tasks'[fn.task].status \in {"resolving", "resolved", "failed"}
             /\ fn.pc = "invalid" =>
                    /\ tasks'[fn.task].resolution = fn.got
                    /\ tasks'[fn.task].status \in {"resolving", "failed"}
  <2>1. RowsBound'
    BY <1>1, <1>3 DEF Move, Same, RowsBound
  <2>2. \A u \in TaskIds : tasks[u].resolution \in Resolutions
            => tasks'[u].resolution = tasks[u].resolution
    BY <1>1, <1>3 DEF Move, Same, RowsBound
  <2>3. fn.pc \in {"arming", "waiting", "expired"} =>
            tasks'[fn.task].status \in {"open", "resolving", "failed"}
    BY <1>1, <1>3 DEF Move, Same, FunctionBound
  <2>4. fn.pc = "closing" => tasks'[fn.task].status \in {"resolving", "resolved", "failed"}
    BY <1>1, <1>3 DEF Move, Same, FunctionBound
  <2>5. fn.pc = "invalid" => tasks'[fn.task].status \in {"resolving", "failed"}
    BY <1>1, <1>3 DEF Move, Same, FunctionBound
  <2> QED BY <1>1, <2>1, <2>2, <2>3, <2>4, <2>5 DEF FunctionBound
<1> QED BY <1>2, <1>3 DEF Moves

\* The function's part: it takes a task it opened, or an answer the broker brought.
LEMMA FunctionBoundStep ==
  ASSUME Inv, [Next]_vars, Moves
  PROVE  FunctionBound'
<1>1. FunctionBound /\ FnOK(fn) /\ fn \in Function
  BY DEF Inv, DecisionInv, TypeOK, FnOK
<1>2. ASSUME UNCHANGED fn PROVE FunctionBound'
  BY <1>1, <1>2, MovesKeepBinding DEF FunctionBound
<1>3. ASSUME NEW pc \in Pcs \ {"arming", "waiting", "expired", "invalid", "closing"}, fn'.pc = pc
      PROVE  FunctionBound'
  BY <1>3 DEF FunctionBound
<1>4. ASSUME Retry PROVE FunctionBound'
  <2>1. CASE fn'.pc = "dead"
    BY <2>1 DEF FunctionBound
  <2>2. CASE fn'.pc = fn.pc /\ fn'.task = fn.task /\ fn'.got = fn.got
    BY <1>1, <2>2, MovesKeepBinding DEF FunctionBound
  <2> QED BY <1>1, <1>4, <2>1, <2>2 DEF Retry, Function
<1>5. ASSUME NEW next, Memoized(next), next.pc \notin {"arming", "waiting", "expired", "invalid", "closing"}
      PROVE  FunctionBound'
  <2>1. CASE fn' = next
    BY <1>5, <2>1 DEF FunctionBound
  <2> QED BY <1>4, <1>5, <2>1 DEF Memoized
<1>6. \A pc \in Pcs : At(pc).pc = pc /\ At(pc).task = fn.task /\ At(pc).got = fn.got
  BY <1>1 DEF At, Function
<1>7. NextAction.pc \in {"gate", "finalize"}
  BY <1>1 DEF NextAction, Function
<1>8. CASE OpenTask
  <2>1. PICK t \in TaskIds : /\ tasks[t].status = "none"
                             /\ tasks' = [tasks EXCEPT ![t] = Asked(fn.ord)]
                             /\ Memoized([At("arming") EXCEPT !.task = t])
    BY <1>8 DEF OpenTask
  <2>2. CASE fn' = [At("arming") EXCEPT !.task = t]
    <3>1. fn'.pc = "arming" /\ fn'.task = t
      BY <1>1, <2>2 DEF At, Function
    <3>2. tasks'[t].status = "open"
      BY <2>1, RowsAfter DEF Inv, TypeOK, Asked, NoRow
    <3> QED BY <3>1, <3>2 DEF FunctionBound
  <2> QED BY <1>4, <2>1, <2>2 DEF Memoized
<1>9. CASE ArmWait \/ TaskWaitTimeout
  <2>1. /\ fn.pc \in {"arming", "waiting"} /\ fn'.pc \in {"waiting", "expired"}
        /\ fn'.task = fn.task
    BY <1>1, <1>9 DEF ArmWait, TaskWaitTimeout, Goto, Function
  <2> QED BY <1>1, <2>1, MovesKeepBinding DEF FunctionBound
<1>10. ASSUME NEW m \in wakeups, DeliverWakeup(m)
       PROVE  FunctionBound'
  <2>1. CASE fn.pc = "waiting" /\ fn.task = m.task
    <3>1. fn'.pc \in {"invalid", "closing"} /\ fn'.task = fn.task /\ fn'.got = m.resolution
      BY <1>1, <1>10, <2>1 DEF DeliverWakeup, At, Function
    <3>2. m.resolution \in Resolutions /\ tasks[fn.task].resolution = m.resolution
      BY <2>1 DEF Inv, DecisionInv, TypeOK, WakeupsBound, Wakeup
    <3>3. fn.task \in TaskIds /\ tasks[fn.task].status \in {"open", "resolving", "failed"}
      BY <1>1, <2>1 DEF FunctionBound
    <3>4. tasks[fn.task].status # "open"
      BY <3>2, <3>3, NullAssumption DEF Inv, DecisionInv, RowsBound
    <3>5. UNCHANGED tasks
      BY <1>10 DEF DeliverWakeup
    <3> QED BY <3>1, <3>2, <3>3, <3>4, <3>5 DEF FunctionBound
  <2>2. CASE ~(fn.pc = "waiting" /\ fn.task = m.task)
    BY <1>2, <1>10, <2>2 DEF DeliverWakeup
  <2> QED BY <2>1, <2>2
<1>11. CASE FunctionStep
  <2>1. ASSUME NEW pc \in Pcs \ {"arming", "waiting", "expired", "invalid", "closing"}, Goto(pc)
        PROVE  FunctionBound'
    BY <1>1, <1>3, <2>1 DEF Goto, Function
  <2>2. CASE InitRun \/ PauseCheck \/ Park \/ Finalize \/ Emit
    BY <2>1, <2>2 DEF InitRun, PauseCheck, Park, Finalize, CompletionRefused, ContractRefused, OutboxWritten, Emit, Pcs
  <2>3. CASE RunAction
    BY <1>6, <1>7, <2>3 DEF RunAction, ActionDone, ActionFails, FunctionBound, Pcs
  <2>4. CASE PauseResume \/ TimeoutTask \/ InvalidInput \/ FailRun
    BY <1>5, <1>6, <2>4 DEF PauseResume, TimeoutTask, InvalidInput, FailRun, Pcs
  <2>5. CASE Complete
    BY <1>4, <1>5, <1>6, <2>5 DEF Complete, Pcs
  <2>6. CASE CloseTask
    BY <1>4, <1>5, <1>6, <1>7, <2>6 DEF CloseTask, AfterDecision, Pcs
  <2> QED BY <1>8, <1>9, <1>11, <2>2, <2>3, <2>4, <2>5, <2>6 DEF FunctionStep
<1>12. CASE StepFails
  BY <1>4, <1>12 DEF StepFails
<1>13. CASE PauseWaitTimeout \/ TaskWaitTimeout
  BY <1>1, <1>3, <1>9, <1>13 DEF PauseWaitTimeout, Goto, Function, Pcs
<1>14. CASE Deliver
  BY <1>2, <1>3, <1>6, <1>10, <1>14 DEF Deliver, DeliverResume, DeliverCancel, Pcs
<1>15. CASE Restart
  BY <1>2, <1>3, <1>6, <1>15 DEF Restart, Pcs
<1>16. CASE Sweep \/ Clock \/ Pause \/ ResumeSend \/ ResumeCommit \/ CancelSend \/ CancelCommit
  BY <1>2, <1>16 DEF Sweep, Clock, BeginSweep, SweepTask, EndSweep, RunAges, WeekPasses,
     AckDeadlinePasses, Pause, ResumeSend, ResumeCommit, CancelSend, CancelCommit
<1>17. CASE \E c \in Callers, t \in TaskIds, r \in Resolutions : Resolve(c, t, r)
  BY <1>2, <1>17 DEF Resolve
<1>18. CASE \E d \in Dispatchers : SendAccepted(d) \/ SendReturns(d) \/ SendThrows(d)
  BY <1>2, <1>18 DEF SendAccepted, SendReturns, SendThrows, Settle
<1> QED BY <1>2, <1>11, <1>12, <1>13, <1>14, <1>15, <1>16, <1>17, <1>18 DEF Next, vars

\* A dispatched resolution stays the one claimed on its row.
LEMMA SendsBoundStep ==
  ASSUME Inv, [Next]_vars, Moves
  PROVE  SendsBound'
<1>1. SendsBound /\ RowsBound /\ send \in [Dispatchers -> Dispatch] /\ tasks \in [TaskIds -> Task]
  BY DEF Inv, DecisionInv, TypeOK
<1>2. ASSUME UNCHANGED send PROVE SendsBound'
  BY <1>1, <1>2, MovesKeepBinding DEF SendsBound
<1>3. ASSUME NEW d \in Dispatchers, NEW next, send' = [send EXCEPT ![d] = next],
             next.task \in TaskIds => /\ next.resolution \in Resolutions
                                      /\ tasks'[next.task].resolution = next.resolution
      PROVE  SendsBound'
  BY <1>1, <1>3, MovesKeepBinding DEF SendsBound
<1>4. NoSend.task \notin TaskIds
  BY NullAssumption DEF NoSend, Sending
<1>5. ASSUME NEW t, NEW r PROVE Sending(t, r).task = t /\ Sending(t, r).resolution = r
  BY DEF Sending
<1>6. ASSUME NEW c \in Callers, NEW t \in TaskIds, NEW r \in Resolutions, Resolve(c, t, r)
      PROVE  SendsBound'
  <2>1. CASE ~Recoverable(t)
    BY <1>2, <1>6, <2>1 DEF Resolve
  <2>2. CASE Recoverable(t)
    <3>1. send' = [send EXCEPT ![c] = Sending(t, r)] /\ c \in Dispatchers
      BY <1>6, <2>2 DEF Resolve, Dispatchers
    <3>2. Claimed(tasks[t], r) \in Task /\ tasks[t] \in Task
      BY <1>1, RowTyped
    <3>3. tasks'[t].resolution = r
      BY <1>1, <1>6, <2>2, <3>2, RowsAfter DEF Resolve, Accepts, Inv
    <3> DEFINE next == Sending(t, r)
    <3>4. next.task = t /\ next.resolution = r
      BY <1>5
    <3> HIDE DEF next
    <3>5. send' = [send EXCEPT ![c] = next]
      BY <3>1 DEF next
    <3> QED BY <1>3, <3>1, <3>3, <3>4, <3>5
  <2> QED BY <2>1, <2>2
<1>7. ASSUME NEW d \in Dispatchers, SendAccepted(d)
      PROVE  SendsBound'
  <2> DEFINE next == [send[d] EXCEPT !.accepted = TRUE]
  <2>1. next.task = send[d].task /\ next.resolution = send[d].resolution
    BY <1>1 DEF Dispatch
  <2>2. send' = [send EXCEPT ![d] = next] /\ UNCHANGED tasks
    BY <1>7 DEF SendAccepted
  <2> HIDE DEF next
  <2> QED BY <1>1, <1>3, <2>1, <2>2 DEF SendsBound
<1>8. ASSUME NEW d \in Dispatchers, NEW resume, Settle(d, resume)
      PROVE  SendsBound'
  BY <1>3, <1>4, <1>8 DEF Settle
<1>9. ASSUME NEW s \in Sweepers, NEW t \in TaskIds, SweepTask(s, t)
      PROVE  SendsBound'
  <2>1. CASE UNCHANGED send
    BY <1>2, <2>1
  <2>2. CASE /\ tasks[t].status = "resolving"
             /\ tasks' = [tasks EXCEPT ![t] = Dispatching(@)]
             /\ send' = [send EXCEPT ![s] = Sending(t, tasks[t].resolution)]
    <3>1. tasks[t].resolution \in Resolutions
      BY <1>1, <2>2 DEF RowsBound
    <3>2. tasks'[t].resolution = tasks[t].resolution
      BY <3>1, MovesKeepBinding
    <3>3. s \in Dispatchers
      BY DEF Dispatchers
    <3> DEFINE next == Sending(t, tasks[t].resolution)
    <3>4. next.task = t /\ next.resolution = tasks[t].resolution
      BY <1>5
    <3> HIDE DEF next
    <3>5. send' = [send EXCEPT ![s] = next]
      BY <2>2 DEF next
    <3> QED BY <1>3, <3>1, <3>2, <3>3, <3>4, <3>5
  <2> QED BY <1>9, <2>1, <2>2 DEF SweepTask
<1>10. CASE Restart
  BY <1>4, <1>10 DEF Restart, SendsBound
<1>11. CASE FunctionStep
  BY <1>2, <1>11 DEF FunctionStep, InitRun, PauseCheck, Park, PauseResume, RunAction, ActionDone, ActionFails, OpenTask,
     ArmWait, TimeoutTask, InvalidInput, CloseTask, FailRun, Finalize, CompletionRefused, ContractRefused, OutboxWritten, Emit, Complete
<1>12. CASE StepFails \/ PauseWaitTimeout \/ TaskWaitTimeout \/ Deliver \/ Clock
  BY <1>2, <1>12 DEF StepFails, PauseWaitTimeout, TaskWaitTimeout, Deliver, DeliverWakeup,
     DeliverResume, DeliverCancel, Clock, RunAges, WeekPasses, AckDeadlinePasses
<1>13. CASE Pause \/ ResumeSend \/ ResumeCommit \/ CancelSend \/ CancelCommit
  BY <1>2, <1>13 DEF Pause, ResumeSend, ResumeCommit, CancelSend, CancelCommit
<1>14. CASE Sweep
  BY <1>2, <1>9, <1>14 DEF Sweep, BeginSweep, EndSweep
<1>15. CASE \E d \in Dispatchers : SendAccepted(d) \/ SendReturns(d) \/ SendThrows(d)
  BY <1>7, <1>8, <1>15 DEF SendReturns, SendThrows
<1> QED BY <1>2, <1>6, <1>10, <1>11, <1>12, <1>13, <1>14, <1>15 DEF Next, vars

\* A resolution in the broker stays the one claimed on its row.
LEMMA WakeupsBoundStep ==
  ASSUME Inv, [Next]_vars, Moves
  PROVE  WakeupsBound'
<1>1. WakeupsBound /\ SendsBound /\ wakeups \subseteq Wakeup /\ send \in [Dispatchers -> Dispatch]
  BY DEF Inv, DecisionInv, TypeOK
<1>2. ASSUME wakeups' \subseteq wakeups PROVE WakeupsBound'
  BY <1>1, <1>2, MovesKeepBinding DEF WakeupsBound, Wakeup
<1>3. ASSUME NEW d \in Dispatchers, SendAccepted(d)
      PROVE  WakeupsBound'
  <2>1. send[d].task \in TaskIds
    BY <1>1, <1>3 DEF SendAccepted, Dispatch
  <2> QED BY <1>1, <1>3, <2>1 DEF SendAccepted, WakeupsBound, SendsBound
<1>4. CASE FunctionStep
  BY <1>2, <1>4 DEF FunctionStep, InitRun, PauseCheck, Park, PauseResume, RunAction, ActionDone, ActionFails, OpenTask,
     ArmWait, TimeoutTask, InvalidInput, CloseTask, FailRun, Finalize, CompletionRefused, ContractRefused, OutboxWritten, Emit, Complete
<1>5. CASE StepFails \/ PauseWaitTimeout \/ TaskWaitTimeout \/ Deliver \/ Clock \/ Restart
  BY <1>2, <1>5 DEF StepFails, PauseWaitTimeout, TaskWaitTimeout, Deliver, DeliverWakeup,
     DeliverResume, DeliverCancel, Clock, RunAges, WeekPasses, AckDeadlinePasses, Restart
<1>6. CASE Pause \/ ResumeSend \/ ResumeCommit \/ CancelSend \/ CancelCommit \/ Sweep
  BY <1>2, <1>6 DEF Pause, ResumeSend, ResumeCommit, CancelSend, CancelCommit, Sweep,
     BeginSweep, SweepTask, EndSweep
<1>7. CASE \E c \in Callers, t \in TaskIds, r \in Resolutions : Resolve(c, t, r)
  BY <1>2, <1>7 DEF Resolve
<1>8. CASE \E d \in Dispatchers : SendAccepted(d) \/ SendReturns(d) \/ SendThrows(d)
  BY <1>2, <1>3, <1>8 DEF SendReturns, SendThrows, Settle
<1> QED BY <1>2, <1>4, <1>5, <1>6, <1>7, <1>8 DEF Next, vars

\* The invariant holds before anything happened.
THEOREM InitInv == Init => Inv
<1> SUFFICES ASSUME Init PROVE DecisionInv
  BY InitTyped DEF Inv
<1>1. \A t \in TaskIds : tasks[t].status = "none" /\ tasks[t].resolution = None
  BY DEF Init, NoRow
<1>2. \A d \in Dispatchers : send[d].task \notin TaskIds
  BY NullAssumption DEF Init, NoSend, Sending
<1> QED BY <1>1, <1>2 DEF Init, DecisionInv, RowsBound, SendsBound, WakeupsBound, FunctionBound

\* Every step keeps the invariant.
THEOREM StepInv == Inv /\ [Next]_vars => Inv'
<1> SUFFICES ASSUME Inv, [Next]_vars PROVE Inv'
  OBVIOUS
<1>1. TypeOK'
  BY StepTyped
<1>2. Moves
  BY StepMoves
<1>3. RowsBound' /\ SendsBound' /\ WakeupsBound' /\ FunctionBound'
  BY <1>2, MovesKeepBinding, SendsBoundStep, WakeupsBoundStep, FunctionBoundStep
<1> QED BY <1>1, <1>3 DEF Inv, DecisionInv

\* The inductive invariant of all three proof modules about RunLifecycle.
THEOREM InvHolds == Spec => []Inv
  BY InitInv, StepInv, PTL DEF Spec

\* Every reachable state is well typed: no attempt past the retry budget, no
\* action past the end of the plan, for every plan, fault bound and set of callers.
THEOREM Typed == Spec => []TypeOK
<1>1. Inv => TypeOK
  BY DEF Inv
<1> QED BY <1>1, InvHolds, PTL

\* Whatever is sent, delivered late, lost or sent again, a function that takes an
\* answer takes the one the task row was claimed with.
THEOREM DecisionBound == Spec => []DecisionInv
<1>1. Inv => DecisionInv
  BY DEF Inv
<1> QED BY <1>1, InvHolds, PTL

-----------------------------------------------------------------------------
(* The refinement                                                           *)

\* Initial states map to initial states of HumanDecision.
LEMMA InitImplements == Init => HD!Init
  BY DEF Init, HD!Init, Phase, NoRow

\* A move of a task maps to a step of HumanDecision, anything else to a stutter.
LEMMA MovesImplement == Inv /\ Moves => [HD!Next]_(HD!vars)
<1> SUFFICES ASSUME Inv, Moves PROVE [HD!Next]_(HD!vars)
  OBVIOUS
<1>0. RowsBound
  BY DEF Inv, DecisionInv
<1>1. \A u \in TaskIds : Same(u) => Phase(u)' = Phase(u)
  BY DEF Same, Phase
<1>2. CASE \A u \in TaskIds : Same(u)
  BY <1>1, <1>2 DEF Same, HD!vars
<1>3. ASSUME NEW t \in TaskIds, Move(t)
      PROVE  HD!Next
  <2>1. \A u \in TaskIds \ {t} : /\ Phase(u)' = Phase(u)
                                 /\ tasks'[u].resolution = tasks[u].resolution
    BY <1>1, <1>3 DEF Move, Same
  <2>2. CASE tasks[t].status = "none" /\ tasks'[t].status = "open" /\ tasks'[t].resolution = None
    <3>1. Phase(t) = "unasked" /\ Phase(t)' = "open" /\ tasks[t].resolution = None
      BY <1>0, <2>2 DEF Phase, RowsBound
    <3>2. HD!Ask(t)
      BY <2>1, <2>2, <3>1 DEF HD!Ask
    <3> QED BY <3>2 DEF HD!Next
  <2>3. CASE /\ tasks[t].status = "open" /\ tasks'[t].status = "resolving"
             /\ tasks'[t].resolution \in Resolutions
    <3>1. Phase(t) = "open" /\ Phase(t)' = "claimed"
      BY <2>3 DEF Phase
    <3>2. PICK r \in Resolutions : tasks'[t].resolution = r
      BY <2>3
    <3>3. HD!Claim(t, r)
      BY <2>1, <3>1, <3>2 DEF HD!Claim
    <3> QED BY <3>3 DEF HD!Next
  <2>4. CASE /\ tasks[t].status = "resolving" /\ tasks'[t].status = "resolved"
             /\ tasks'[t].resolution = tasks[t].resolution
    <3>1. Phase(t) = "claimed" /\ Phase(t)' = "consumed"
      BY <2>4 DEF Phase
    <3>2. HD!Consume(t)
      BY <2>1, <2>4, <3>1 DEF HD!Consume
    <3> QED BY <3>2 DEF HD!Next
  <2>5. CASE /\ tasks[t].status \in {"open", "resolving"} /\ tasks'[t].status = "failed"
             /\ tasks'[t].resolution = tasks[t].resolution
    <3>1. Phase(t) \in {"open", "claimed"} /\ Phase(t)' = "abandoned"
      BY <2>5 DEF Phase
    <3>2. HD!Abandon(t)
      BY <2>1, <2>5, <3>1 DEF HD!Abandon
    <3> QED BY <3>2 DEF HD!Next
  <2> QED BY <1>3, <2>2, <2>3, <2>4, <2>5 DEF Move
<1> QED BY <1>2, <1>3 DEF Moves

\* The whole machinery - retries, replays, redelivery, restarts, the reconciler
\* and any number of operators - does to each question only what HumanDecision
\* allows: the first answer wins, and it is consumed once or abandoned, not both.
THEOREM Refinement == Spec => ImplementsHumanDecision
<1>1. Inv /\ [Next]_vars => [HD!Next]_(HD!vars)
  BY StepMoves, MovesImplement
<1> QED BY <1>1, InitImplements, InvHolds, PTL DEF Spec, ImplementsHumanDecision, HD!Spec
=============================================================================
