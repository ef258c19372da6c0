---------------------------- MODULE RunLifecycle ----------------------------
(***************************************************************************)
(* One manifest run: the durable function that executes it, the run and    *)
(* task rows, the operator routes (pause, resume, cancel, resolve), the    *)
(* resume dispatcher and the periodic reconciler.                          *)
(*                                                                         *)
(* The function (packages/runtime/src/register.ts) is a sequence of        *)
(* step.run bodies and waitForEvent calls.  A body commits and is then     *)
(* memoized; an invocation lost between the two runs the body again.  A    *)
(* wait only sees events delivered after it was registered.  Code between  *)
(* two awaits is one action; every await is a place another actor may run. *)
(***************************************************************************)
EXTENDS Naturals, Sequences

CONSTANTS
    Plan,           \* the kinds ("auto", "manual") of the actions this run selects
    V2,             \* BOOLEAN: a Studio definition, for which a reject is an outcome
    TaskIds,        \* ids makeId("tsk") may return
    Resolutions,    \* distinct (decision, payload) requests operators may submit
    Rejections,     \* those whose decision is "reject"
    Callers,        \* concurrent POST /tasks/:id/resolve requests
    Sweepers,       \* passes of the reconciler that may overlap
    NoTask, None,   \* null task id, null resolution
    Retries,        \* functionRetries(agent)
    MaxFaults,      \* bound: lost invocations, failed sends, restarts
    MaxResumes      \* bound: resume requests the broker accepts

ASSUME PlanAssumption == Plan \in Seq({"auto", "manual"}) /\ Len(Plan) > 0
ASSUME NullAssumption == NoTask \notin TaskIds /\ None \notin Resolutions
ASSUME BoundAssumption ==
    /\ Retries \in Nat /\ MaxFaults \in Nat /\ MaxResumes \in Nat
    /\ V2 \in BOOLEAN /\ Rejections \subseteq Resolutions

VARIABLES
    run,            \* runs.status, "none" before the row exists
    aged,           \* startedAt is older than AGENTIC_RUN_TIMEOUT_MS
    fn,             \* the durable function
    tasks,          \* the task rows, each with its manual wait step
    wakeups,        \* task.resolved events the broker accepted and not delivered
    resumes,        \* run.resume events accepted so far
    resumeInFlight, \* ... of which not yet delivered
    cancelInFlight, \* a run.cancel event is accepted and not delivered
    send,           \* per dispatcher, the resume dispatch it awaits
    verdict,        \* per pass and task, what the pass's snapshot says to do
    sweeping,       \* the reconciler passes under way
    resuming,       \* the resume route has sent and not yet committed
    cancelling,     \* the cancel route has sent and not yet committed
    sent,           \* the downstream dispatch is behind: accepted, or suppressed
    faults          \* faults so far

vars == <<run, aged, fn, tasks, wakeups, resumes, resumeInFlight, cancelInFlight,
          send, verdict, sweeping, resuming, cancelling, sent, faults>>

eventVars == <<wakeups, resumes, resumeInFlight, cancelInFlight>>
apiVars == <<send, verdict, sweeping, resuming, cancelling>>

-----------------------------------------------------------------------------
(* Types                                                                    *)

Terminal == {"ok", "failed", "cancelled"}

\* Mutant: recovery treats a held run like an active one.
TERMINABLEWithHold == {"queued", "running", "waiting", "paused"}
TERMINABLE == {"queued", "running", "waiting"}

RunStatus == Terminal \cup TERMINABLE \cup {"paused"}

Pcs == {"queued", "gate", "parking", "parked", "unpark", "act", "arming", "waiting",
        "expired", "invalid", "closing", "failing", "finalize", "emit", "complete", "done", "dead"}

\* Inside the loop over the plan's actions.
LoopPcs == {"queued", "gate", "parking", "parked", "unpark", "act", "arming", "waiting", "expired",
            "invalid", "closing"}

\* The places where a step.run body is about to execute.
StepPcs == Pcs \ {"parking", "parked", "waiting", "done", "dead"}

Function == [pc : Pcs, ord : 1..(Len(Plan) + 1), tries : 0..Retries,
             task : TaskIds \cup {NoTask}, got : Resolutions \cup {None}]

Task == [status : {"none", "open", "resolving", "resolved", "failed"},
         resume : {"pending", "dispatching", "dispatched", "acknowledged", "failed"},
         resolution : Resolutions \cup {None},
         wait : {"none", "running", "ok", "failed"},     \* its wait step's status
         ord : 0..Len(Plan),
         week : BOOLEAN,    \* AGENTIC_HITL_WAIT_TIMEOUT_MS since createdAt
         late : BOOLEAN]    \* AGENTIC_HITL_RESUME_TIMEOUT_MS since resolutionRequestedAt

NoRow == [status |-> "none", resume |-> "pending", resolution |-> None, wait |-> "none",
          ord |-> 0, week |-> FALSE, late |-> FALSE]

Dispatchers == Callers \cup Sweepers
Dispatch == [task : TaskIds \cup {NoTask}, resolution : Resolutions \cup {None},
             accepted : BOOLEAN]
Sending(t, r) == [task |-> t, resolution |-> r, accepted |-> FALSE]
NoSend == Sending(NoTask, None)
Wakeup == [task : TaskIds, resolution : Resolutions]

Verdict == {"none", "expired", "retry", "keep"}
NoVerdict == [t \in TaskIds |-> "none"]

Init ==
    /\ run = "none"
    /\ aged = FALSE
    /\ fn = [pc |-> "queued", ord |-> 1, tries |-> 0, task |-> NoTask, got |-> None]
    /\ tasks = [t \in TaskIds |-> NoRow]
    /\ wakeups = {}
    /\ resumes = 0
    /\ resumeInFlight = 0
    /\ cancelInFlight = FALSE
    /\ send = [d \in Dispatchers |-> NoSend]
    /\ verdict = [s \in Sweepers |-> NoVerdict]
    /\ sweeping = {}
    /\ resuming = FALSE
    /\ cancelling = FALSE
    /\ sent = FALSE
    /\ faults = 0

-----------------------------------------------------------------------------
(* The function's step boundaries                                           *)

Live == fn.pc \notin {"done", "dead"}

Goto(pc) == fn' = [fn EXCEPT !.pc = pc, !.tries = 0]

\* A step attempt failed: the broker re-invokes until the retries are spent,
\* then the StepError leaves the handler and no failRun follows.
Retry == fn' = IF fn.tries < Retries THEN [fn EXCEPT !.tries = @ + 1]
                                     ELSE [fn EXCEPT !.pc = "dead"]

Fault == faults < MaxFaults /\ faults' = faults + 1

\* A body's effects are committed; the result is memoized and the function
\* goes on, or the invocation is lost first and the body will run again.
Memoized(next) ==
    \/ fn' = next /\ UNCHANGED faults
    \/ Retry /\ Fault

At(pc) == [fn EXCEPT !.pc = pc, !.tries = 0]

\* Mutant: the loop runs one action too far.
NextActionRunsOff ==
    [fn EXCEPT !.pc = "gate", !.ord = @ + 1, !.tries = 0, !.task = NoTask, !.got = None]

\* The loop's next action, or the end of the plan.
NextAction == [fn EXCEPT !.pc = IF fn.ord < Len(Plan) THEN "gate" ELSE "finalize",
                         !.ord = @ + 1, !.tries = 0, !.task = NoTask, !.got = None]

-----------------------------------------------------------------------------
(* The function                                                             *)

InitRun ==
    /\ fn.pc = "queued"
    /\ run' = "running"
    /\ Goto("gate")
    /\ UNCHANGED <<aged, tasks, sent, faults, eventVars, apiVars>>

\* An attempt of a step body ends before it committed anything.
StepFails ==
    /\ fn.pc \in StepPcs
    /\ Retry /\ Fault
    /\ UNCHANGED <<run, aged, tasks, sent, eventVars, apiVars>>

PauseCheck ==
    /\ fn.pc = "gate"
    /\ Goto(IF run = "paused" THEN "parking" ELSE "act")
    /\ UNCHANGED <<run, aged, tasks, sent, faults, eventVars, apiVars>>

\* From here on, and not before, a run.resume event wakes the function.
Park ==
    /\ fn.pc = "parking"
    /\ Goto("parked")
    /\ UNCHANGED <<run, aged, tasks, sent, faults, eventVars, apiVars>>

\* pause-wait times out: its 7d are longer than the run timeout.
PauseWaitTimeout ==
    /\ fn.pc = "parked" /\ aged
    /\ Goto("failing")
    /\ UNCHANGED <<run, aged, tasks, sent, faults, eventVars, apiVars>>

PauseResume ==
    /\ fn.pc = "unpark"
    /\ run' = IF run = "paused" THEN "running" ELSE run
    /\ Memoized(At("act"))
    /\ UNCHANGED <<aged, tasks, sent, eventVars, apiVars>>

\* A tool, logic or other non-manual action completes, its own retries and soft
\* failures included; any action may fail for good, a manual one before it asks
\* (its inputs do not bind), and the handler calls failRun.
ActionDone == Plan[fn.ord] = "auto" /\ fn' = NextAction
ActionFails == fn' = At("failing")
RunAction ==
    /\ fn.pc = "act"
    /\ ActionDone \/ ActionFails
    /\ UNCHANGED <<run, aged, tasks, sent, faults, eventVars, apiVars>>

Asked(ord) == [NoRow EXCEPT !.status = "open", !.wait = "running", !.ord = ord]

\* init-task: the id is drawn inside the body, so a second run of the body
\* opens a second task.
OpenTask ==
    /\ fn.pc = "act" /\ Plan[fn.ord] = "manual"
    /\ \E t \in TaskIds :
        /\ tasks[t].status = "none"
        /\ tasks' = [tasks EXCEPT ![t] = Asked(fn.ord)]
        /\ Memoized([At("arming") EXCEPT !.task = t])
    /\ run' = IF run = "running" THEN "waiting" ELSE run
    /\ UNCHANGED <<aged, sent, eventVars, apiVars>>

\* evidence-task, then the wait is registered.
ArmWait ==
    /\ fn.pc = "arming"
    /\ Goto("waiting")
    /\ UNCHANGED <<run, aged, tasks, sent, faults, eventVars, apiVars>>

\* Mutant: an expired wait falls through as if the human had answered.
TaskWaitTimeoutFallsThrough ==
    /\ fn.pc = "waiting" /\ aged
    /\ fn' = NextAction
    /\ UNCHANGED <<run, aged, tasks, sent, faults, eventVars, apiVars>>

\* The broker's clock: its 7d run from the registration of the wait, and not by
\* the rows' clock (WeekPasses).
TaskWaitTimeout ==
    /\ fn.pc = "waiting" /\ aged
    /\ Goto("expired")
    /\ UNCHANGED <<run, aged, tasks, sent, faults, eventVars, apiVars>>

TimedOut(row) == [row EXCEPT !.status = "failed", !.resume = "failed", !.wait = "failed"]

TimeoutTask ==
    /\ fn.pc = "expired"
    /\ tasks' = [tasks EXCEPT ![fn.task] = TimedOut(@)]
    /\ Memoized(At("failing"))
    /\ UNCHANGED <<run, aged, sent, eventVars, apiVars>>

Refused(row, r) == [TimedOut(row) EXCEPT !.resolution = r]

\* invalid-task-input: the answer does not fit the action's input binding.  Like
\* timeout-task it writes the row by id, whatever its status; failRun follows.
InvalidInput ==
    /\ fn.pc = "invalid"
    /\ tasks' = [tasks EXCEPT ![fn.task] = Refused(@, fn.got)]
    /\ Memoized(At("failing"))
    /\ UNCHANGED <<run, aged, sent, eventVars, apiVars>>

\* Mutant: the outcome of a Studio reject is recorded and the loop goes on.
AfterDecisionGoesOn ==
    IF fn.got \notin Rejections \/ V2 THEN NextAction ELSE At("failing")

\* What the handler does after close-task.
AfterDecision ==
    IF fn.got \notin Rejections THEN NextAction
    ELSE IF V2 THEN At("finalize") ELSE At("failing")

\* Mutant: the closed task leaves its run waiting.
StaysWaiting == run

Woken == IF run = "waiting" THEN "running" ELSE run

Closed(row, r) ==
    [row EXCEPT !.status = "resolved", !.resume = "acknowledged", !.resolution = r,
                !.wait = IF r \in Rejections /\ ~V2 THEN "failed" ELSE "ok"]

\* close-task: acknowledges the claim, closes the step and wakes the run in one
\* transaction; a task that is no longer resolving makes the body throw.
CloseTask ==
    /\ fn.pc = "closing"
    /\ IF tasks[fn.task].status = "resolving"
       THEN /\ tasks' = [tasks EXCEPT ![fn.task] = Closed(@, fn.got)]
            /\ run' = Woken
            /\ Memoized(AfterDecision)
       ELSE Retry /\ UNCHANGED <<run, tasks, faults>>
    /\ UNCHANGED <<aged, sent, eventVars, apiVars>>

\* failRun writes the row whatever its status, then the handler throws.
FailRun ==
    /\ fn.pc = "failing"
    /\ run' = "failed"
    /\ Memoized(At("dead"))
    /\ UNCHANGED <<aged, tasks, sent, eventVars, apiVars>>

\* Output validation, completion evidence or routing refuses: failRun.
CompletionRefused == Goto("failing")

\* An event contract refuses, on every attempt, and no failRun follows.
ContractRefused == Goto("dead")

\* finalize: the outbox rows.
OutboxWritten == Goto("emit")

Finalize ==
    /\ fn.pc = "finalize"
    /\ CompletionRefused \/ ContractRefused \/ OutboxWritten
    /\ UNCHANGED <<run, aged, tasks, sent, faults, eventVars, apiVars>>

\* The sends, or nothing where an evaluation or a test suppresses them.
Emit ==
    /\ fn.pc = "emit"
    /\ sent' = TRUE
    /\ Goto("complete")
    /\ UNCHANGED <<run, aged, tasks, faults, eventVars, apiVars>>

\* finalize-dispatched: running -> ok, and nothing else.
Complete ==
    /\ fn.pc = "complete"
    /\ IF run = "running"
       THEN run' = "ok" /\ Memoized(At("done"))
       ELSE Retry /\ UNCHANGED <<run, faults>>
    /\ UNCHANGED <<aged, tasks, sent, eventVars, apiVars>>

-----------------------------------------------------------------------------
(* The broker                                                               *)

\* An answer that is no rejection may turn out not to fit the input binding: the
\* route checked the descriptor on the task row, the handler checks its own.
DeliverWakeup(m) ==
    /\ m \in wakeups
    /\ wakeups' = wakeups \ {m}
    /\ IF fn.pc = "waiting" /\ fn.task = m.task
       THEN \/ fn' = [At("closing") EXCEPT !.got = m.resolution]
            \/ m.resolution \notin Rejections /\ fn' = [At("invalid") EXCEPT !.got = m.resolution]
       ELSE UNCHANGED fn
    /\ UNCHANGED <<run, aged, tasks, resumes, resumeInFlight, cancelInFlight, sent, faults,
                   apiVars>>

DeliverResume ==
    /\ resumeInFlight > 0
    /\ resumeInFlight' = resumeInFlight - 1
    /\ fn' = IF fn.pc = "parked" THEN At("unpark") ELSE fn
    /\ UNCHANGED <<run, aged, tasks, wakeups, resumes, cancelInFlight, sent, faults, apiVars>>

DeliverCancel ==
    /\ cancelInFlight
    /\ cancelInFlight' = FALSE
    /\ fn' = IF Live THEN At("dead") ELSE fn
    /\ UNCHANGED <<run, aged, tasks, wakeups, resumes, resumeInFlight, sent, faults, apiVars>>

-----------------------------------------------------------------------------
(* Human resolutions                                                        *)

Recoverable(t) == run \in {"waiting", "running"} /\ tasks[t].wait = "running"

StepFailed(row) == [row EXCEPT !.wait = IF @ = "running" THEN "failed" ELSE @]
Failed(row) == [StepFailed(row) EXCEPT !.status = "failed", !.resume = "failed"]

\* Mutant: the task is failed by id alone.
FailTaskById(t) ==
    /\ tasks' = [tasks EXCEPT ![t] = Failed(@)]
    /\ run' = IF run \in TERMINABLE THEN "failed" ELSE run

\* failHumanTask, and the same writes in requestHumanTaskResolution.
FailTask(t) ==
    IF tasks[t].status \in {"open", "resolving"}
    THEN /\ tasks' = [tasks EXCEPT ![t] = Failed(@)]
         /\ run' = IF run \in TERMINABLE THEN "failed" ELSE run
    ELSE UNCHANGED <<run, tasks>>

\* The task row as dispatchStoredHumanResolution leaves it before its send.
Dispatching(row) == [row EXCEPT !.resume = "dispatching"]

\* Mutant: the claim is recorded as if the run had already taken it.
ClaimedAsResolved(row, r) == [row EXCEPT !.status = "resolved", !.resume = "acknowledged",
                                         !.resolution = r, !.late = FALSE]

Claimed(row, r) == [row EXCEPT !.status = "resolving", !.resolution = r, !.late = FALSE]

\* Mutant: a second, different request joins the resume under way.
AcceptsAnyRequest(t, r) == tasks[t].status \in {"open", "resolving"}

\* An open task takes any request, a resolving one only the request it stores.
Accepts(t, r) ==
    \/ tasks[t].status = "open"
    \/ tasks[t].status = "resolving" /\ tasks[t].resolution = r

\* requestHumanTaskResolution by a caller with request r, up to the first await.
Resolve(c, t, r) ==
    /\ send[c] = NoSend
    /\ Accepts(t, r)
    /\ IF Recoverable(t)
       THEN /\ tasks' = [tasks EXCEPT ![t] =
                            IF @.status = "open" THEN Dispatching(Claimed(@, r))
                                                 ELSE Dispatching(@)]
            /\ run' = "waiting"
            /\ send' = [send EXCEPT ![c] = Sending(t, r)]
       ELSE FailTask(t) /\ UNCHANGED send
    /\ UNCHANGED <<aged, fn, eventVars, verdict, sweeping, resuming, cancelling, sent, faults>>

\* The broker accepts the event a dispatcher is sending.
SendAccepted(d) ==
    /\ send[d].task # NoTask /\ ~send[d].accepted
    /\ wakeups' = wakeups \cup {[task |-> send[d].task, resolution |-> send[d].resolution]}
    /\ send' = [send EXCEPT ![d] = [@ EXCEPT !.accepted = TRUE]]
    /\ UNCHANGED <<run, aged, fn, tasks, resumes, resumeInFlight, cancelInFlight, verdict,
                   sweeping, resuming, cancelling, sent, faults>>

\* After the await; a task closed meanwhile keeps its acknowledgement.
Settle(d, resume) ==
    /\ tasks' = IF tasks[send[d].task].status = "resolving"
                THEN [tasks EXCEPT ![send[d].task] = [@ EXCEPT !.resume = resume]]
                ELSE tasks
    /\ send' = [send EXCEPT ![d] = NoSend]
    /\ UNCHANGED <<run, aged, fn, eventVars, verdict, sweeping, resuming, cancelling, sent>>

SendReturns(d) ==
    /\ send[d].task # NoTask /\ send[d].accepted
    /\ Settle(d, "dispatched")
    /\ UNCHANGED faults

\* The send throws, whether or not the broker had accepted the event.
SendThrows(d) ==
    /\ send[d].task # NoTask
    /\ Fault
    /\ Settle(d, "pending")

-----------------------------------------------------------------------------
(* The reconciler                                                           *)

\* Mutant: no deadline for the acknowledgement.
VerdictsWithoutDeadline(row) ==
    CASE row.status \notin {"open", "resolving"} -> {"none"}
      [] row.status = "open" -> IF row.week THEN {"expired"} ELSE {"keep"}
      [] OTHER -> IF row.resume = "dispatched" THEN {"retry", "keep"} ELSE {"retry"}

\* What one pass may decide from its snapshot of the row and the clock; whether
\* AGENTIC_HITL_RESUME_RETRY_MS passed since the last dispatch is left open.
Verdicts(row) ==
    CASE row.status \notin {"open", "resolving"} -> {"none"}
      [] row.status = "open" -> IF row.week THEN {"expired"} ELSE {"keep"}
      [] row.status = "resolving" /\ row.late -> {"expired"}
      [] OTHER -> IF row.resume = "dispatched" THEN {"retry", "keep"} ELSE {"retry"}

\* The timer starts a pass whether or not the last one has ended.
BeginSweep(s) ==
    /\ s \notin sweeping
    /\ sweeping' = sweeping \cup {s}
    /\ \E v \in [TaskIds -> Verdict] :
        /\ \A t \in TaskIds : v[t] \in Verdicts(tasks[t])
        /\ verdict' = [verdict EXCEPT ![s] = v]
    /\ UNCHANGED <<run, aged, fn, tasks, eventVars, send, resuming, cancelling, sent, faults>>

\* The next candidate: the wait is looked up now, the rest is the snapshot's.
SweepTask(s, t) ==
    /\ verdict[s][t] # "none" /\ send[s] = NoSend
    /\ verdict' = [verdict EXCEPT ![s] = [@ EXCEPT ![t] = "none"]]
    /\ IF ~Recoverable(t) \/ verdict[s][t] = "expired"
       THEN FailTask(t) /\ UNCHANGED send
       ELSE IF verdict[s][t] = "retry" /\ tasks[t].status = "resolving"
       THEN /\ tasks' = [tasks EXCEPT ![t] = Dispatching(@)]
            /\ send' = [send EXCEPT ![s] = Sending(t, tasks[t].resolution)]
            /\ UNCHANGED run
       ELSE UNCHANGED <<run, tasks, send>>
    /\ UNCHANGED <<aged, fn, eventVars, sweeping, resuming, cancelling, sent, faults>>

\* Mutant: only one of the active statuses is swept.
OrphanedRunning ==
    /\ run = "running" /\ aged
    /\ \A t \in TaskIds : tasks[t].status \notin {"open", "resolving"}

\* reconcileOrphanedRuns: an old active run with no open or resolving task.
Orphaned ==
    /\ run \in TERMINABLE /\ aged
    /\ \A t \in TaskIds : tasks[t].status \notin {"open", "resolving"}

EndSweep(s) ==
    /\ s \in sweeping /\ send[s] = NoSend /\ verdict[s] = NoVerdict
    /\ sweeping' = sweeping \ {s}
    /\ run' = IF Orphaned THEN "failed" ELSE run
    /\ tasks' = IF Orphaned
                THEN [t \in TaskIds |-> StepFailed(tasks[t])]
                ELSE tasks
    /\ UNCHANGED <<aged, fn, eventVars, send, verdict, resuming, cancelling, sent, faults>>

-----------------------------------------------------------------------------
(* The operator routes on the run                                           *)

Pause ==
    /\ run \in {"running", "waiting"}
    /\ run' = "paused"
    /\ UNCHANGED <<aged, fn, tasks, sent, faults, eventVars, apiVars>>

\* The resume signal is sent first ...
ResumeSend ==
    /\ run = "paused" /\ ~resuming
    /\ resumes < MaxResumes
    /\ resumes' = resumes + 1
    /\ resumeInFlight' = resumeInFlight + 1
    /\ \/ resuming' = TRUE /\ UNCHANGED faults
       \/ resuming' = FALSE /\ Fault        \* accepted, but the send timed out: 502
    /\ UNCHANGED <<run, aged, fn, tasks, wakeups, cancelInFlight, send, verdict, sweeping,
                   cancelling, sent>>

\* ... and the row follows once the broker accepted it.
ResumeCommit ==
    /\ resuming
    /\ resuming' = FALSE
    /\ run' = IF run = "paused" THEN "running" ELSE run
    /\ UNCHANGED <<aged, fn, tasks, eventVars, send, verdict, sweeping, cancelling, sent, faults>>

\* The row is read, and the cancel signal sent if it is not terminal.  The
\* event id is stable, so the broker keeps one copy.
CancelSend ==
    /\ run \notin Terminal \cup {"none"} /\ ~cancelling
    /\ cancelInFlight' = TRUE
    /\ \/ cancelling' = TRUE /\ UNCHANGED faults
       \/ cancelling' = FALSE /\ Fault      \* accepted, but the send timed out: 502
    /\ UNCHANGED <<run, aged, fn, tasks, wakeups, resumes, resumeInFlight, send, verdict,
                   sweeping, resuming, sent>>

\* Mutant: the row is marked by id, whatever happened during the send.
CancelCommitUnguarded ==
    /\ cancelling
    /\ cancelling' = FALSE
    /\ run' = "cancelled"
    /\ UNCHANGED <<aged, fn, tasks, eventVars, send, verdict, sweeping, resuming, sent, faults>>

CancelCommit ==
    /\ cancelling
    /\ cancelling' = FALSE
    /\ run' = IF run \in TERMINABLE THEN "cancelled" ELSE run
    /\ UNCHANGED <<aged, fn, tasks, eventVars, send, verdict, sweeping, resuming, sent, faults>>

-----------------------------------------------------------------------------
(* Time and restarts                                                        *)

RunAges ==
    /\ run # "none" /\ ~aged
    /\ aged' = TRUE
    /\ UNCHANGED <<run, fn, tasks, sent, faults, eventVars, apiVars>>

\* The rows' clock, for the sweep; a week is longer than the run timeout.
WeekPasses(t) ==
    /\ aged /\ tasks[t].status \in {"open", "resolving"} /\ ~tasks[t].week
    /\ tasks' = [tasks EXCEPT ![t] = [@ EXCEPT !.week = TRUE]]
    /\ UNCHANGED <<run, aged, fn, sent, faults, eventVars, apiVars>>

AckDeadlinePasses(t) ==
    /\ tasks[t].status = "resolving" /\ ~tasks[t].late
    /\ tasks' = [tasks EXCEPT ![t] = [@ EXCEPT !.late = TRUE]]
    /\ UNCHANGED <<run, aged, fn, sent, faults, eventVars, apiVars>>

\* The process restarts: every request and pass in progress is gone, and so may
\* be the function's handler; rows and accepted events survive.
Restart ==
    /\ Fault
    /\ send' = [d \in Dispatchers |-> NoSend]
    /\ verdict' = [s \in Sweepers |-> NoVerdict]
    /\ sweeping' = {} /\ resuming' = FALSE /\ cancelling' = FALSE
    /\ \/ UNCHANGED fn
       \/ Live /\ fn' = At("dead")
    /\ UNCHANGED <<run, aged, tasks, sent, eventVars>>

-----------------------------------------------------------------------------
FunctionStep ==
    \/ InitRun \/ PauseCheck \/ Park \/ PauseResume \/ RunAction \/ OpenTask \/ ArmWait
    \/ TimeoutTask \/ InvalidInput \/ CloseTask \/ FailRun \/ Finalize \/ Emit \/ Complete

Deliver ==
    \/ \E m \in wakeups : DeliverWakeup(m)
    \/ DeliverResume
    \/ DeliverCancel

Sweep ==
    \E s \in Sweepers :
        \/ BeginSweep(s)
        \/ \E t \in TaskIds : SweepTask(s, t)
        \/ EndSweep(s)

Clock ==
    \/ RunAges
    \/ \E t \in TaskIds : WeekPasses(t) \/ AckDeadlinePasses(t)

Next ==
    \/ FunctionStep \/ StepFails \/ PauseWaitTimeout \/ TaskWaitTimeout
    \/ Deliver
    \/ \E c \in Callers, t \in TaskIds, r \in Resolutions : Resolve(c, t, r)
    \/ \E d \in Dispatchers : SendAccepted(d) \/ SendReturns(d) \/ SendThrows(d)
    \/ Sweep
    \/ Pause \/ ResumeSend \/ ResumeCommit \/ CancelSend \/ CancelCommit
    \/ Clock
    \/ Restart

Spec == Init /\ [][Next]_vars

\* Operators owe nothing.  The broker invokes and delivers what it accepted,
\* the timer starts passes, a pass and a route run on, and time passes.
Fairness ==
    /\ WF_vars(FunctionStep)
    /\ WF_vars(\E m \in wakeups : DeliverWakeup(m))
    /\ WF_vars(DeliverResume)
    /\ WF_vars(DeliverCancel)
    /\ \A d \in Dispatchers : WF_vars(SendAccepted(d) \/ SendReturns(d))
    /\ \A s \in Sweepers :
        /\ WF_vars(BeginSweep(s))
        /\ \A t \in TaskIds : WF_vars(SweepTask(s, t))
        /\ WF_vars(EndSweep(s))
    /\ WF_vars(ResumeCommit)
    /\ WF_vars(CancelCommit)
    /\ WF_vars(RunAges)
    /\ \A t \in TaskIds : WF_vars(WeekPasses(t)) /\ WF_vars(AckDeadlinePasses(t))

FairSpec == Spec /\ Fairness

-----------------------------------------------------------------------------
(* Invariants                                                               *)

\* Every variable stays in its declared domain: no step attempt is counted past
\* the agent's retry budget, and the loop never runs past the end of the plan.
TypeOK ==
    /\ fn.pc \in LoopPcs => fn.ord <= Len(Plan)
    /\ run \in RunStatus \cup {"none"}
    /\ aged \in BOOLEAN
    /\ fn \in Function
    /\ tasks \in [TaskIds -> Task]
    /\ wakeups \subseteq Wakeup
    /\ resumes \in Nat
    /\ resumeInFlight \in Nat
    /\ cancelInFlight \in BOOLEAN
    /\ send \in [Dispatchers -> Dispatch]
    /\ verdict \in [Sweepers -> [TaskIds -> Verdict]]
    /\ sweeping \subseteq Sweepers
    /\ resuming \in BOOLEAN
    /\ cancelling \in BOOLEAN
    /\ sent \in BOOLEAN
    /\ faults \in 0..MaxFaults

\* A row carries a resolution exactly when someone has claimed it.
RowsBound ==
    \A t \in TaskIds :
        /\ tasks[t].status \in {"resolving", "resolved"} => tasks[t].resolution \in Resolutions
        /\ tasks[t].status \in {"none", "open"} => tasks[t].resolution = None

SendsBound ==
    \A d \in Dispatchers : send[d].task \in TaskIds =>
        /\ send[d].resolution \in Resolutions
        /\ tasks[send[d].task].resolution = send[d].resolution

WakeupsBound == \A m \in wakeups : tasks[m.task].resolution = m.resolution

FunctionBound ==
    /\ fn.pc \in {"arming", "waiting", "expired", "closing"} => fn.task \in TaskIds
    /\ fn.pc \in {"arming", "waiting", "expired"} =>
        tasks[fn.task].status \in {"open", "resolving", "failed"}
    /\ fn.pc = "invalid" =>
        /\ fn.task \in TaskIds /\ fn.got \in Resolutions
        /\ tasks[fn.task].resolution = fn.got
        /\ tasks[fn.task].status \in {"resolving", "failed"}
    /\ fn.pc = "closing" =>
        /\ fn.got \in Resolutions
        /\ tasks[fn.task].resolution = fn.got
        /\ tasks[fn.task].status \in {"resolving", "resolved", "failed"}

\* A resolution on its way - dispatched, in the broker or taken by the function -
\* is the one claimed on the task row, and the function never waits on a task
\* that is already closed.
DecisionInv == RowsBound /\ SendsBound /\ WakeupsBound /\ FunctionBound

\* A task reads "resolved" only when the run that asked has taken exactly that
\* resolution: the function is past the action, or holds the answer
\* (hitl-recovery.ts never writes "resolved"; close-task does).
ConsumedByItsRun ==
    \A t \in TaskIds : tasks[t].status = "resolved" =>
        \/ fn.ord > tasks[t].ord
        \/ fn.task = t /\ fn.got = tasks[t].resolution

\* A run ends "ok" only with its downstream dispatch behind it and after a human
\* decision was consumed at every manual action it went through: no timeout,
\* retry or recovery path slips a run past a human gate.
OkRunWasDecided ==
    run = "ok" =>
        /\ sent
        /\ \A o \in 1..Len(Plan) : Plan[o] = "manual" /\ o <= fn.ord =>
            \E t \in TaskIds : tasks[t].ord = o /\ tasks[t].status = "resolved"

\* However often a lost init-task attempt asks the same question again, at most
\* one of the tasks opened for an action is ever consumed.
OneDecisionPerGate ==
    \A t, u \in TaskIds :
        /\ tasks[t].status = "resolved" /\ tasks[u].status = "resolved"
        /\ tasks[t].ord = tasks[u].ord
        => t = u

\* A rejected question stops the plan where it was asked: no action after it
\* executes, whether the reject is an outcome or fails the run.
RejectionStopsThePlan ==
    \A t \in TaskIds :
        tasks[t].status = "resolved" /\ tasks[t].resolution \in Rejections
            => fn.ord = tasks[t].ord

\* A "waiting" run always has an owner that will move it on: an open or
\* resolving task, or a function about to fail it; failing those, its function
\* is gone and the orphan sweep no longer excludes it.
WaitingIsOwned ==
    run = "waiting" =>
        \/ \E t \in TaskIds : tasks[t].status \in {"open", "resolving"}
        \/ fn.pc \in {"expired", "invalid", "failing", "dead"}

-----------------------------------------------------------------------------
(* Action properties                                                        *)

\* "ok" is final, and a failed or cancelled row is rewritten by failRun only:
\* no late cancel, resume, sweep or completion revives or relabels it.
TerminalStays ==
    [][ (run \in Terminal) =>
        \/ run' = run
        \/ run # "ok" /\ run' = "failed" /\ fn.pc = "failing" ]_vars

\* An operator's hold ends by a resume the broker accepted or by the function's
\* own failure; closing a task, sweeping or cancelling never lifts it.
HoldKept ==
    [][ run = "paused" /\ run' # "paused" =>
        \/ run' = "running" /\ resumes > 0
        \/ run' = "failed" /\ fn.pc = "failing" ]_vars

-----------------------------------------------------------------------------
(* The promise about human decisions                                        *)

Phase(t) ==
    CASE tasks[t].status = "none"      -> "unasked"
      [] tasks[t].status = "open"      -> "open"
      [] tasks[t].status = "resolving" -> "claimed"
      [] tasks[t].status = "resolved"  -> "consumed"
      [] OTHER                         -> "abandoned"

HD == INSTANCE HumanDecision WITH
        phase <- [t \in TaskIds |-> Phase(t)],
        bound <- [t \in TaskIds |-> tasks[t].resolution]

\* First answer wins, consumed at most once, never both consumed and abandoned,
\* under retries, redelivery, restarts and concurrent operators.
ImplementsHumanDecision == HD!Spec

-----------------------------------------------------------------------------
(* Liveness                                                                 *)

\* A claimed decision is consumed or explicitly failed: it never hangs in
\* "resolving", whatever was lost on the way.
DecisionSettles ==
    \A t \in TaskIds : tasks[t].status = "resolving" ~> tasks[t].status \in {"resolved", "failed"}

\* An active run ends or is put on hold, even when its function is gone.
ActiveRunLeaves == run \in {"running", "waiting"} ~> run \in Terminal \cup {"paused"}

-----------------------------------------------------------------------------
(* What the repository says and the code does not do                        *)

\* routes/v1/runs.ts: "a resume the runtime never received must not look resumed".
ResumedMeansWoken ==
    run = "running" /\ fn.pc = "parked" => resumeInFlight > 0

\* hitl-recovery.ts: a decision never remains "resolved" without consumption.
NeverFalselyResolved ==
    \A t \in TaskIds :
        tasks[t].status = "resolved" /\ fn.task = t /\ fn.got \notin Rejections
            => fn.pc # "dead"

=============================================================================
