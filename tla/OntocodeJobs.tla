----------------------------- MODULE OntocodeJobs -----------------------------
(***************************************************************************)
(* One OntoCode build session: the commands its user proposes, the Harness *)
(* jobs that execute them, the workers that lease those jobs, and the      *)
(* build executions that outlive a job because a build may ask its user a  *)
(* question and go on in another job.                                      *)
(*                                                                         *)
(* Every operation of the session store and every fenced write of a worker *)
(* is one SQLite transaction and one action here.  A worker's lease is the *)
(* startedAt of its claim; `owner` stands for it, since a worker has one   *)
(* claim at a time.  `fresh` says that updatedAt is younger than the lease *)
(* timeout, or than the retry delay for a scheduled retry.                 *)
(***************************************************************************)
EXTENDS Naturals, FiniteSets

CONSTANTS
    Workers,        \* calls of runNext that may be under way
    NoWorker,
    MaxAttempts,    \* ONTOCODE_HARNESS_MAX_ATTEMPTS
    Plans,          \* bounds: each behaviour keeps to one plan
    Size            \* bound: the jobs, and the commands, of a session

\* One action for each class of the policy table and each kind of executor.
Reads == {"analyze_scope"}
Pipeline == {"analyze_scope", "propose_blueprint", "generate_package"}
Actions == Pipeline \cup {"run_tests", "deploy_release"}

Modes == {"guide", "copilot", "sandbox_autopilot"}

ASSUME WorkerAssumption == NoWorker \notin Workers
ASSUME SizeAssumption == MaxAttempts \in Nat /\ Size \in Nat
ASSUME PlanAssumption == Plans \subseteq
    [acts : SUBSET Actions, modes : SUBSET Modes,   \* what the user asks for, the modes chosen
     ways : SUBSET {"turn", "post"},                \* commands come in turns, or by themselves
     stops : BOOLEAN,                               \* is work cancelled and the session closed?
     jobs : Nat,                                    \* jobs the user creates
     cmds : Nat, answers : Nat,                     \* commands for new work, and for answers
     asks : Nat, retries : Nat,                     \* questions of a build, retries by the user
     faults : Nat]                                  \* deaths, lost claims, overrun leases

Jobs == 1 .. Size
Cmds == 1 .. Size

None == 0

VARIABLES
    plan,       \* the bounds of this behaviour
    mode,       \* autonomyMode
    phase,      \* "completed", or "open" for any other phase
    activity,   \* "idle", "cancelled", or "busy" for any other activityState
    cmds, jobs,
    execs,      \* execs[e]: the execution that job e created
    inbox,      \* the answers the engine's mailbox has accepted
    wk,         \* wk[w]: what worker w is doing
    retries, faults

vars == <<plan, mode, phase, activity, cmds, jobs, execs, inbox, wk, retries, faults>>
session == <<plan, mode, phase>>

CmdStates == {"awaiting_approval", "approved", "queued", "running", "succeeded", "failed", "rejected"}

JobStates == {"queued", "leased", "running", "waiting_user", "retry_scheduled", "failed_recoverable",
              "failed_terminal", "succeeded", "cancelled"}

ExecStates == {"running", "waiting_user", "resuming", "generated_unverified", "candidate_ready",
               "failed_recoverable", "failed_terminal", "cancelled"}

InFlight == {"leased", "running"}
Pending == {"queued", "retry_scheduled"}
Blocking == InFlight \cup Pending \cup {"waiting_user"}

NoCmd == [st |-> "none", act |-> "none", human |-> FALSE, decided |-> FALSE, resumes |-> None, pipe |-> FALSE]
NoJob == [st |-> "none", cmd |-> None, owner |-> NoWorker, tries |-> 0, fresh |-> FALSE, exec |-> None, again |-> FALSE]
NoExec == [st |-> "none", asked |-> 0, ask |-> 0, answer |-> None, sent |-> FALSE]
Idle == [pc |-> "idle", job |-> None, mode |-> "guide", ask |-> 0]

Init ==
    /\ plan \in Plans /\ mode \in plan.modes
    /\ phase = "open" /\ activity = "idle"
    /\ cmds = [c \in Cmds |-> NoCmd]
    /\ jobs = [j \in Jobs |-> NoJob]
    /\ execs = [e \in Jobs |-> NoExec]
    /\ inbox = {}
    /\ wk = [w \in Workers |-> Idle]
    /\ retries = 0 /\ faults = 0

-----------------------------------------------------------------------------
(* The policy and the session                                               *)

\* resolveOntoCodeAutonomyActionPolicy
Allowed(m, a) == m # "guide" \/ a \in Reads

NeedsHuman(m, a) == a = "deploy_release" \/ (m = "copilot" /\ a \notin Reads)

Writable == phase # "completed" /\ activity # "cancelled"

Present == {j \in Jobs : jobs[j].st # "none"}

\* Jobs, and commands, are numbered in the order of their createdAt.
IsNextJob(j) == j \notin Present /\ \A k \in Jobs \ Present : j <= k
IsNextCmd(c) == cmds[c].st = "none" /\ \A d \in Cmds : cmds[d].st = "none" => c <= d
NewJob == CHOOSE j \in Jobs : IsNextJob(j)
NewCmd == CHOOSE c \in Cmds : IsNextCmd(c)
JobLeft(n) == \E j \in Jobs : IsNextJob(j) /\ j <= n
CmdLeft == \E c \in Cmds : IsNextCmd(c)

Act(j) == cmds[jobs[j].cmd].act

Live(states) == {j \in Jobs : jobs[j].st \in states}

\* Mutant: only work that is being executed blocks a change.
ModeFree_Executing == Live(InFlight) = {}

\* The modes' guard: neither a live job nor a command that may still run.
ModeFree ==
    /\ Live(Blocking) = {}
    /\ \A c \in Cmds : cmds[c].st \notin {"awaiting_approval", "approved", "queued", "running"}

UpdateMode(m) ==
    /\ Writable /\ m \in plan.modes \ {mode} /\ ModeFree
    /\ mode' = m
    /\ UNCHANGED <<plan, phase, activity, cmds, jobs, execs, inbox, wk, retries, faults>>

\* A turn that executes nothing; a PATCH of activityState to idle does the same.
Talk ==
    /\ plan.stops /\ Writable /\ activity # "idle"
    /\ activity' = "idle"
    /\ UNCHANGED <<session, cmds, jobs, execs, inbox, wk, retries, faults>>

\* Mutant: a job between two attempts is overlooked.
Closable_RetryOverlooked == Live(Blocking \ {"retry_scheduled"}) = {} /\ activity = "idle"

Closable == Live(Blocking) = {} /\ activity = "idle"

\* Only a session in release or observe may be completed, which a PATCH makes of
\* any open one: that guard excludes nothing.
Close ==
    /\ plan.stops /\ Writable /\ Closable
    /\ \/ phase' = "completed" /\ UNCHANGED activity
       \/ activity' = "cancelled" /\ UNCHANGED phase
    /\ UNCHANGED <<plan, mode, cmds, jobs, execs, inbox, wk, retries, faults>>

-----------------------------------------------------------------------------
(* Commands and jobs                                                        *)

\* A waiting build whose question can still be answered.
Answerable(p) ==
    LET e == jobs[p].exec IN
    /\ jobs[p].st = "waiting_user" /\ Act(p) = "generate_package" /\ e # None
    /\ execs[e].st = "waiting_user" /\ execs[e].ask # 0 /\ execs[e].answer = None

\* The jobs a new command may resume, None for a command without an answer.
Resumable(a) == {None} \cup (IF a = "generate_package" THEN {p \in Present : Answerable(p)} ELSE {})

\* Mutant: the job that asked goes on waiting.
Attach_ParentWaits(p, j, new) ==
    IF p = None
    THEN jobs' = [jobs EXCEPT ![j] = new] /\ UNCHANGED execs
    ELSE LET e == jobs[p].exec IN
         /\ jobs' = [jobs EXCEPT ![j] = [new EXCEPT !.exec = e]]
         /\ execs' = [execs EXCEPT ![e].st = "resuming", ![e].answer = j, ![e].sent = FALSE]

\* attachOntoCodeBuildContinuation: job j takes the execution of p over.
Attach(p, j, new) ==
    IF p = None
    THEN jobs' = [jobs EXCEPT ![j] = new] /\ UNCHANGED execs
    ELSE LET e == jobs[p].exec IN
         /\ jobs' = [jobs EXCEPT ![j] = [new EXCEPT !.exec = e], ![p].st = "cancelled"]
         /\ execs' = [execs EXCEPT ![e].st = "resuming", ![e].answer = j, ![e].sent = FALSE]

Command(a, st, p, pipe) ==
    [st |-> st, act |-> a, human |-> NeedsHuman(mode, a), decided |-> FALSE, resumes |-> p, pipe |-> pipe]

\* The bound on commands.
WithinPlan(p) ==
    LET alike == {c \in Cmds : cmds[c].st # "none" /\ (cmds[c].resumes = None <=> p = None)} IN
    CmdLeft /\ Cardinality(alike) < IF p = None THEN plan.cmds ELSE plan.answers

MayAsk(a, p) == Writable /\ a \in plan.acts /\ Allowed(mode, a) /\ p \in Resumable(a) /\ WithinPlan(p)

\* createOntoCodeTurn with behavior execute.  The mark of a full-build pipeline
\* comes from a mode read before the planner was awaited.
Turn(a, p, pipe) ==
    LET human == NeedsHuman(mode, a) IN
    /\ "turn" \in plan.ways /\ MayAsk(a, p) /\ JobLeft(plan.jobs)
    /\ pipe => a = "analyze_scope" /\ \A c \in Cmds : ~cmds[c].pipe
    /\ cmds' = [cmds EXCEPT ![NewCmd] =
                   Command(a, IF human THEN "awaiting_approval" ELSE "queued", p, pipe)]
    /\ Attach(p, NewJob, [NoJob EXCEPT !.st = IF human THEN "waiting_user" ELSE "queued", !.cmd = NewCmd])
    /\ activity' = "busy"
    /\ UNCHANGED <<session, inbox, wk, retries, faults>>

CreateCommand(a, p) ==
    LET human == NeedsHuman(mode, a) IN
    /\ "post" \in plan.ways /\ MayAsk(a, p)
    /\ cmds' = [cmds EXCEPT ![NewCmd] = Command(a, IF human THEN "awaiting_approval" ELSE "approved", p, FALSE)]
    /\ activity' = IF human THEN "busy" ELSE "idle"
    /\ UNCHANGED <<session, jobs, execs, inbox, wk, retries, faults>>

\* decideOntoCodeCommand: the linked job follows, an execution it took over does
\* not.  No code writes the other status it accepts, "proposed".
Decide(c, approve) ==
    LET linked == {j \in Jobs : jobs[j].cmd = c /\ jobs[j].st = "waiting_user"} IN
    /\ Writable /\ cmds[c].st = "awaiting_approval"
    /\ cmds' = [cmds EXCEPT ![c].st = IF approve THEN "approved" ELSE "rejected", ![c].decided = approve]
    /\ jobs' = [j \in Jobs |-> IF j \in linked
                               THEN [jobs[j] EXCEPT !.st = IF approve THEN "queued" ELSE "cancelled"]
                               ELSE jobs[j]]
    /\ activity' = IF approve /\ linked = {} THEN "idle" ELSE "busy"
    /\ UNCHANGED <<session, execs, inbox, wk, retries, faults>>

\* Mutant: whether the question is still open is not checked again.
Executable_StaleQuestion(c) ==
    /\ cmds[c].st = "approved"
    /\ Allowed(mode, cmds[c].act) /\ cmds[c].human = NeedsHuman(mode, cmds[c].act)

\* The route's and the store's checks on the command of a new job.
Executable(c) ==
    /\ cmds[c].st = "approved"
    /\ Allowed(mode, cmds[c].act) /\ cmds[c].human = NeedsHuman(mode, cmds[c].act)
    /\ cmds[c].resumes # None => Answerable(cmds[c].resumes)

\* createOntoCodeHarnessJob
PostJob(c) ==
    /\ Writable /\ Executable(c) /\ JobLeft(plan.jobs)
    /\ cmds' = [cmds EXCEPT ![c].st = "queued"]
    /\ Attach(cmds[c].resumes, NewJob, [NoJob EXCEPT !.st = "queued", !.cmd = c])
    /\ activity' = "busy"
    /\ UNCHANGED <<session, inbox, wk, retries, faults>>

\* cancelOntoCodeSessionJob, for one job or for all; commands keep their status.
Cancel(S) ==
    LET victims == S \cap Live(InFlight \cup Pending)
        bound == {jobs[j].exec : j \in victims} IN
    /\ plan.stops /\ victims # {}
    /\ jobs' = [j \in Jobs |-> IF j \in victims THEN [jobs[j] EXCEPT !.st = "cancelled"] ELSE jobs[j]]
    /\ execs' = [e \in Jobs |-> IF e \in bound
                                THEN [NoExec EXCEPT !.st = "cancelled", !.asked = execs[e].asked]
                                ELSE execs[e]]
    /\ activity' = "idle"
    /\ UNCHANGED <<session, cmds, inbox, wk, retries, faults>>

\* Mutant: the execution of the retried job stays failed.
Retry_ExecutionForgotten(j) ==
    /\ Writable /\ retries < plan.retries
    /\ jobs[j].st = "failed_recoverable" /\ cmds[jobs[j].cmd].st = "failed"
    /\ Live(InFlight \cup Pending) = {} /\ jobs[j].tries >= 1
    /\ jobs' = [jobs EXCEPT ![j] = [@ EXCEPT !.st = "retry_scheduled", !.owner = NoWorker,
                                             !.fresh = TRUE, !.again = TRUE]]
    /\ cmds' = [cmds EXCEPT ![jobs[j].cmd].st = "queued"]
    /\ activity' = "busy"
    /\ retries' = retries + 1
    /\ UNCHANGED <<session, execs, inbox, wk, faults>>

\* retryOntoCodeSessionJob
Retry(j) ==
    LET e == jobs[j].exec IN
    /\ Writable /\ retries < plan.retries
    /\ jobs[j].st = "failed_recoverable" /\ cmds[jobs[j].cmd].st = "failed"
    /\ Live(InFlight \cup Pending) = {} /\ jobs[j].tries >= 1
    /\ e # None => execs[e].st = "failed_recoverable"
    /\ jobs' = [jobs EXCEPT ![j] = [@ EXCEPT !.st = "retry_scheduled", !.owner = NoWorker,
                                             !.fresh = TRUE, !.again = TRUE]]
    /\ cmds' = [cmds EXCEPT ![jobs[j].cmd].st = "queued"]
    /\ execs' = IF e = None THEN execs ELSE [execs EXCEPT ![e].st = "resuming"]
    /\ activity' = "busy"
    /\ retries' = retries + 1
    /\ UNCHANGED <<session, inbox, wk, faults>>

-----------------------------------------------------------------------------
(* Workers                                                                  *)

\* Mutant: the fence compares the owner only.
Holds_OwnerOnly(w) == wk[w].job # None /\ jobs[wk[w].job].owner = w

Holds(w) ==
    LET j == wk[w].job IN
    j # None /\ jobs[j].st = "running" /\ jobs[j].owner = w

Leave(w) == wk' = [wk EXCEPT ![w] = Idle]

\* Mutant: the siblings are not looked at.
Claimable_Siblings(j) ==
    \/ jobs[j].st = "queued"
    \/ jobs[j].st \in InFlight \cup {"retry_scheduled"} /\ ~jobs[j].fresh

\* Mutant: stale claims are not taken back.
Claimable_NoRecovery(j) ==
    /\ \/ jobs[j].st = "queued"
       \/ jobs[j].st = "retry_scheduled" /\ ~jobs[j].fresh
    /\ Live(InFlight) \subseteq {j}

\* claimNextJob.  Which of several candidates comes first is left open.
Claimable(j) ==
    /\ \/ jobs[j].st = "queued"
       \/ jobs[j].st \in InFlight \cup {"retry_scheduled"} /\ ~jobs[j].fresh
    /\ Live(InFlight) \subseteq {j}

\* enforceProductionAuthorization
Authorized(c) == cmds[c].act = "deploy_release" => cmds[c].human /\ cmds[c].decided

\* attemptNo counts on beyond the maximum, which makes no difference.
Attempted(j) == IF jobs[j].tries < MaxAttempts THEN jobs[j].tries + 1 ELSE jobs[j].tries

\* Claim, context and markRunning: no await between them.  The session's phase
\* becomes the job's, whatever it was.
Start(w, j) ==
    LET c == jobs[j].cmd IN
    /\ wk[w].pc = "idle" /\ Claimable(j)
    /\ jobs' = [jobs EXCEPT ![j] = [jobs[j] EXCEPT !.st = "running", !.owner = w, !.fresh = TRUE,
                                                   !.tries = Attempted(j)]]
    /\ cmds' = [cmds EXCEPT ![c].st = "running"]
    /\ wk' = [wk EXCEPT ![w] = [pc |-> IF Authorized(c) THEN "running" ELSE "failed_terminal",
                                job |-> j, mode |-> mode, ask |-> 0]]
    /\ activity' = "busy" /\ phase' = "open"
    /\ UNCHANGED <<plan, mode, execs, inbox, retries, faults>>

\* markRunning, exactCandidateTargetFailure: the candidate of a verification moved
\* on.  The status does not depend on what the failure calls recoverable.
StartRefused(w, j) ==
    /\ wk[w].pc = "idle" /\ Claimable(j) /\ Act(j) = "run_tests"
    /\ jobs' = [jobs EXCEPT ![j] = [jobs[j] EXCEPT !.st = "failed_recoverable", !.owner = NoWorker,
                                                   !.tries = Attempted(j)]]
    /\ cmds' = [cmds EXCEPT ![jobs[j].cmd].st = "failed"]
    /\ activity' = "busy" /\ phase' = "open"
    /\ UNCHANGED <<plan, mode, execs, inbox, wk, retries, faults>>

\* The context cannot be loaded, or the process dies before markRunning.
StartLost(w, j) ==
    /\ wk[w].pc = "idle" /\ Claimable(j)
    /\ faults < plan.faults /\ faults' = faults + 1
    /\ jobs' = [jobs EXCEPT ![j] = [@ EXCEPT !.st = "leased", !.owner = NoWorker, !.fresh = TRUE]]
    /\ UNCHANGED <<session, activity, cmds, execs, inbox, wk, retries>>

\* heartbeat and appendProgress
Heartbeat(w) ==
    /\ Holds(w) /\ ~jobs[wk[w].job].fresh
    /\ jobs' = [jobs EXCEPT ![wk[w].job].fresh = TRUE]
    /\ UNCHANGED <<session, activity, cmds, execs, inbox, wk, retries, faults>>

\* A heartbeat or a fenced write that finds another owner: nothing is written.
LoseLease(w) ==
    /\ wk[w].pc # "idle" /\ ~Holds(w)
    /\ Leave(w)
    /\ UNCHANGED <<session, activity, cmds, jobs, execs, inbox, retries, faults>>

\* The retry delay runs out, or the lease of a claim nobody heartbeats.
Age(j) ==
    /\ jobs[j].st \in InFlight \cup {"retry_scheduled"} /\ jobs[j].fresh
    /\ \A w \in Workers : ~(Holds(w) /\ wk[w].job = j)
    /\ jobs' = [jobs EXCEPT ![j].fresh = FALSE]
    /\ UNCHANGED <<session, activity, cmds, execs, inbox, wk, retries, faults>>

\* The heartbeats of a living worker come too late.
Overrun(w) ==
    /\ Holds(w) /\ jobs[wk[w].job].fresh
    /\ faults < plan.faults /\ faults' = faults + 1
    /\ jobs' = [jobs EXCEPT ![wk[w].job].fresh = FALSE]
    /\ UNCHANGED <<session, activity, cmds, execs, inbox, wk, retries>>

Die ==
    /\ faults < plan.faults /\ faults' = faults + 1
    /\ \E w \in Workers : wk[w].pc # "idle"
    /\ wk' = [w \in Workers |-> Idle]
    /\ UNCHANGED <<session, activity, cmds, jobs, execs, inbox, retries>>

-----------------------------------------------------------------------------
(* Builds                                                                   *)

\* The execution job j is bound to, or the one it creates.
Own(j) == IF jobs[j].exec = None THEN j ELSE jobs[j].exec

Dead == {"cancelled", "failed_terminal", "candidate_ready"}

Resumed(st) == IF st \in {"waiting_user", "failed_recoverable", "generated_unverified"}
               THEN "resuming" ELSE "running"

\* The question an attempt still has to deliver the answer of.
Undelivered(e) == IF execs[e].answer # None /\ ~execs[e].sent THEN execs[e].ask ELSE 0

\* ensureOntoCodeBuildExecution, whose transaction carries the job's fence, and
\* the recovery that reads the pending answer.
Ensure(w) ==
    LET j == wk[w].job
        e == Own(j)
        st == Resumed(execs[e].st) IN
    /\ Holds(w) /\ wk[w].pc = "running" /\ Act(j) = "generate_package"
    /\ IF execs[e].st \in Dead
       THEN /\ wk' = [wk EXCEPT ![w].pc = "failed_recoverable"]
            /\ UNCHANGED <<jobs, execs>>
       ELSE /\ execs' = [execs EXCEPT ![e].st = st]
            /\ jobs' = [jobs EXCEPT ![j].exec = e, ![j].fresh = TRUE]
            /\ wk' = [wk EXCEPT ![w].ask = Undelivered(e),
                                ![w].pc = IF st # "running" THEN "failed_recoverable"
                                          ELSE IF Undelivered(e) = 0 THEN "building" ELSE "bound"]
    /\ UNCHANGED <<session, activity, cmds, inbox, retries, faults>>

Envelope(w) ==
    LET x == execs[jobs[wk[w].job].exec] IN
    x.st \in {"running", "resuming"} /\ x.ask = wk[w].ask /\ x.answer = wk[w].job

Mailed(w) == inbox \cup {[exec |-> jobs[wk[w].job].exec, ask |-> wk[w].ask, answer |-> wk[w].job]}

\* The answer enters the mailbox and is then marked as delivered.  Neither write
\* carries the job's fence.  The mailbox is at least once: it refuses a copy of
\* what is queued or leased, and takes one of what the engine has acknowledged,
\* which the set does not tell apart.  A failed check ends the attempt; those of
\* the conversation and its ledger end it like Fail and RetryLater.
Deliver(w) ==
    /\ wk[w].pc = "bound"
    /\ inbox' = Mailed(w)
    /\ IF Envelope(w)
       THEN /\ execs' = [execs EXCEPT ![jobs[wk[w].job].exec].sent = TRUE]
            /\ wk' = [wk EXCEPT ![w].pc = "building"]
       ELSE /\ wk' = [wk EXCEPT ![w].pc = "failed_recoverable"]
            /\ UNCHANGED execs
    /\ UNCHANGED <<session, activity, cmds, jobs, retries, faults>>

\* Mutant: the answer is marked first and mailed second.
DeliverAndDie_MarkedFirst(w) ==
    /\ wk[w].pc = "bound" /\ Envelope(w)
    /\ faults < plan.faults /\ faults' = faults + 1
    /\ execs' = [execs EXCEPT ![jobs[wk[w].job].exec].sent = TRUE]
    /\ wk' = [v \in Workers |-> Idle]
    /\ UNCHANGED <<session, activity, cmds, jobs, inbox, retries>>

\* The process dies between the two.
DeliverAndDie(w) ==
    /\ wk[w].pc = "bound"
    /\ faults < plan.faults /\ faults' = faults + 1
    /\ inbox' = Mailed(w)
    /\ wk' = [v \in Workers |-> Idle]
    /\ UNCHANGED <<session, activity, cmds, jobs, execs, retries>>

-----------------------------------------------------------------------------
(* Outcomes                                                                 *)

\* projectOntoCodeBuildExecution: nothing for a job without an execution.
Project(j, x) == IF jobs[j].exec = None THEN execs ELSE [execs EXCEPT ![jobs[j].exec] = x]

Exec(j) == IF jobs[j].exec = None THEN NoExec ELSE execs[jobs[j].exec]

Settled(j, st) == [NoExec EXCEPT !.st = st, !.asked = Exec(j).asked]

\* The executor has come to its end.
Executed(w) ==
    wk[w].pc = IF Act(wk[w].job) = "generate_package" THEN "building" ELSE "running"

NextAction(a) == IF a = "analyze_scope" THEN "propose_blueprint" ELSE "generate_package"

\* prepareAutopilotBuildContinuation, with the mode read when the job was claimed.
Continues(w) ==
    LET j == wk[w].job
        c == jobs[j].cmd IN
    /\ cmds[c].pipe /\ Act(j) # "generate_package"
    /\ wk[w].mode = "sandbox_autopilot"
    /\ \A d \in Cmds : ~(cmds[d].pipe /\ cmds[d].act = NextAction(Act(j)))
    /\ Live(InFlight \cup Pending) = {j}

\* activityAfterSuccess
BusyAfter(j) ==
    \/ Live(InFlight \cup Pending) \ {j} # {}
    \/ \E k \in Live({"waiting_user"}) : k > j
    \/ \E c \in Cmds : cmds[c].st = "awaiting_approval"

\* The phase an executor reports, if it reports one, is written.
Advances == phase' \in {phase, "open"}

Success(w) ==
    LET j == wk[w].job
        c == jobs[j].cmd
        done == [jobs EXCEPT ![j].st = "succeeded"]
        paid == [cmds EXCEPT ![c].st = "succeeded"]
        next == [NoCmd EXCEPT !.st = "queued", !.act = NextAction(Act(j)), !.pipe = TRUE] IN
    /\ Holds(w) /\ Executed(w)
    /\ Continues(w) => JobLeft(Size) /\ CmdLeft
    /\ IF Continues(w)
       THEN /\ jobs' = [done EXCEPT ![NewJob] = [NoJob EXCEPT !.st = "queued", !.cmd = NewCmd]]
            /\ cmds' = [paid EXCEPT ![NewCmd] = next]
       ELSE jobs' = done /\ cmds' = paid
    /\ \E st \in {"candidate_ready", "generated_unverified"} : execs' = Project(j, Settled(j, st))
    /\ activity' = IF Continues(w) \/ BusyAfter(j) THEN "busy" ELSE "idle"
    /\ Advances
    /\ Leave(w)
    /\ UNCHANGED <<plan, mode, inbox, retries, faults>>

\* finalizeWaiting; only some executors ask.
Wait(w) ==
    LET j == wk[w].job
        n == Exec(j).asked + 1 IN
    /\ Holds(w) /\ Executed(w) /\ Act(j) \in {"generate_package", "deploy_release"}
    /\ n <= plan.asks
    /\ jobs' = [jobs EXCEPT ![j].st = "waiting_user"]
    /\ cmds' = [cmds EXCEPT ![jobs[j].cmd].st = "approved"]
    /\ execs' = Project(j, [NoExec EXCEPT !.st = "waiting_user", !.asked = n, !.ask = n])
    /\ activity' = "busy" /\ Advances
    /\ Leave(w)
    /\ UNCHANGED <<plan, mode, inbox, retries, faults>>

Working == {"running", "bound", "building"}

\* finalizeFailure of a retryable failure, a stopped worker included.
RetryLater(w) ==
    LET j == wk[w].job IN
    /\ Holds(w) /\ wk[w].pc \in Working /\ jobs[j].tries < MaxAttempts
    /\ jobs' = [jobs EXCEPT ![j] = [@ EXCEPT !.st = "retry_scheduled", !.fresh = TRUE]]
    /\ cmds' = [cmds EXCEPT ![jobs[j].cmd].st = "queued"]
    /\ execs' = Project(j, [Exec(j) EXCEPT !.st = "resuming"])
    /\ activity' = "busy"
    /\ Leave(w)
    /\ UNCHANGED <<session, inbox, retries, faults>>

\* Any other failure: the receipt is awaited before the transaction.
Fail(w, st) ==
    /\ wk[w].pc \in Working
    /\ wk' = [wk EXCEPT ![w].pc = st]
    /\ UNCHANGED <<session, activity, cmds, jobs, execs, inbox, retries, faults>>

\* Mutant: the failure is written without the fence.
FinishFail_Unfenced(w) ==
    LET j == wk[w].job
        st == wk[w].pc IN
    /\ st \in {"failed_recoverable", "failed_terminal"}
    /\ jobs' = [jobs EXCEPT ![j].st = IF Holds(w) THEN st ELSE @]
    /\ cmds' = [cmds EXCEPT ![jobs[j].cmd].st = "failed"]
    /\ execs' = Project(j, IF st = "failed_terminal" THEN Settled(j, st) ELSE [Exec(j) EXCEPT !.st = st])
    /\ activity' = "busy"
    /\ Leave(w)
    /\ UNCHANGED <<session, inbox, retries, faults>>

\* Mutant: the command takes the status of its job.
FinishFail_CommandTakesIt(w) ==
    LET j == wk[w].job
        st == wk[w].pc IN
    /\ Holds(w) /\ st \in {"failed_recoverable", "failed_terminal"}
    /\ jobs' = [jobs EXCEPT ![j].st = st]
    /\ cmds' = [cmds EXCEPT ![jobs[j].cmd].st = st]
    /\ execs' = Project(j, IF st = "failed_terminal" THEN Settled(j, st) ELSE [Exec(j) EXCEPT !.st = st])
    /\ activity' = "busy"
    /\ Leave(w)
    /\ UNCHANGED <<session, inbox, retries, faults>>

FinishFail(w) ==
    LET j == wk[w].job
        st == wk[w].pc IN
    /\ Holds(w) /\ st \in {"failed_recoverable", "failed_terminal"}
    /\ jobs' = [jobs EXCEPT ![j].st = st]
    /\ cmds' = [cmds EXCEPT ![jobs[j].cmd].st = "failed"]
    /\ execs' = Project(j, IF st = "failed_terminal" THEN Settled(j, st) ELSE [Exec(j) EXCEPT !.st = st])
    /\ activity' = "busy"
    /\ Leave(w)
    /\ UNCHANGED <<session, inbox, retries, faults>>

-----------------------------------------------------------------------------

User ==
    \/ \E m \in Modes : UpdateMode(m)
    \/ Talk \/ Close
    \/ \E a \in plan.acts, p \in Jobs \cup {None} :
          CreateCommand(a, p) \/ \E pipe \in BOOLEAN : Turn(a, p, pipe)
    \/ \E c \in Cmds : PostJob(c) \/ \E approve \in BOOLEAN : Decide(c, approve)
    \/ \E j \in Jobs : Retry(j) \/ Cancel({j})
    \/ Cancel(Jobs)

Attempt(w) ==
    \/ \E j \in Jobs : Start(w, j) \/ StartRefused(w, j)
    \/ Heartbeat(w) \/ LoseLease(w) \/ Ensure(w) \/ Deliver(w)
    \/ Success(w) \/ Wait(w) \/ RetryLater(w) \/ FinishFail(w)
    \/ \E st \in {"failed_recoverable", "failed_terminal"} : Fail(w, st)

Faults ==
    \/ Die
    \/ \E w \in Workers : Overrun(w) \/ DeliverAndDie(w) \/ \E j \in Jobs : StartLost(w, j)

Next ==
    \/ User
    \/ \E w \in Workers : Attempt(w)
    \/ \E j \in Jobs : Age(j)
    \/ Faults

\* The scheduler polls, executors end or are aborted, clocks advance.
Fairness ==
    /\ \A w \in Workers : WF_vars(Attempt(w))
    /\ WF_vars(\E j \in Jobs : Age(j))

Spec == Init /\ [][Next]_vars /\ Fairness

-----------------------------------------------------------------------------

CmdRow == [st : CmdStates \cup {"none"}, act : Actions \cup {"none"}, human : BOOLEAN,
           decided : BOOLEAN, resumes : Jobs \cup {None}, pipe : BOOLEAN]

JobRow == [st : JobStates \cup {"none"}, cmd : Cmds \cup {None}, owner : Workers \cup {NoWorker},
           tries : 0 .. MaxAttempts, fresh : BOOLEAN, exec : Jobs \cup {None}, again : BOOLEAN]

ExecRow == [st : ExecStates \cup {"none"}, asked : Nat, ask : Nat, answer : Jobs \cup {None}, sent : BOOLEAN]

WorkerRow == [pc : Working \cup {"idle", "failed_recoverable", "failed_terminal"},
              job : Jobs \cup {None}, mode : Modes, ask : Nat]

\* The states of the rows.
TypeOK ==
    /\ plan \in Plans /\ mode \in Modes
    /\ phase \in {"open", "completed"} /\ activity \in {"idle", "busy", "cancelled"}
    /\ cmds \in [Cmds -> CmdRow] /\ jobs \in [Jobs -> JobRow] /\ execs \in [Jobs -> ExecRow]
    /\ inbox \subseteq [exec : Jobs \cup {None}, ask : Nat, answer : Jobs]
    /\ wk \in [Workers -> WorkerRow]
    /\ retries \in Nat /\ faults \in Nat

\* The jobs of a session are serialized: two workers, stale claims and retries
\* included, never have two of its jobs claimed at once (claimNextJob).
OneInFlight == \A j, k \in Live(InFlight) : j = k

\* A closed session has no job left that could be claimed, decided or answered
\* (closeOntoCodeSession reads the jobs, the workers never read the session).
ClosedIsQuiet == ~Writable => Live(Blocking) = {}

\* A closed session stays closed: no cancel, claim, outcome or failure that was
\* under way writes its phase or its activityState again (requireWritableSessionRow guards
\* the store's operations, and only the job's fence guards the workers').
ClosedStays == [][~Writable => ~Writable']_vars

Final == {"succeeded", "cancelled", "failed_terminal"}

\* The last word on a job is never overwritten: a worker whose job the user has
\* cancelled, or which another worker has finished, changes nothing any more
\* (the fence of finalizeSuccess, finalizeWaiting and finalizeFailure).
FinalStays == [][\A j \in Jobs : jobs[j].st \in Final => jobs'[j].st = jobs[j].st]_vars

\* The autonomy mode holds for the work that executes, not only for the request
\* that asked for it: in guide mode nothing but analysis runs, and what the mode
\* reserves to the user has been approved, whatever modes were chosen since the
\* command was accepted (updateOntoCodeSession).  A job its user retries is
\* left out: retryOntoCodeSessionJob does not look at the mode.
WorkFitsMode ==
    \A j \in Live(InFlight) :
        ~jobs[j].again =>
            /\ Allowed(mode, Act(j))
            /\ NeedsHuman(mode, Act(j)) => cmds[jobs[j].cmd].decided

\* The execution of a build agrees with the job that carries it, across
\* retries, questions, cancellation and lost leases (projectOntoCodeBuildExecution).
ExecutionFollows ==
    \A j \in Present :
        LET x == Exec(j).st IN
        jobs[j].exec # None =>
            /\ jobs[j].st \in Pending \cup InFlight => x \in {"running", "resuming"}
            /\ jobs[j].st = "failed_recoverable" => x = "failed_recoverable"
            /\ jobs[j].st = "waiting_user" => x \in {"waiting_user", "resuming"}

\* An execution belongs to one job at a time: the job that asked is out before
\* the job that answers comes in (attachOntoCodeBuildContinuation).
OneOwner ==
    \A j, k \in Present :
        j # k /\ jobs[j].exec = jobs[k].exec /\ jobs[j].exec # None =>
            jobs[j].st \in Final \/ jobs[k].st \in Final

\* An answer marked as delivered is in the engine's mailbox, wherever the
\* process died in between: a build never waits for an answer nobody sends.
DeliveredWasMailed ==
    \A e \in Jobs :
        execs[e].sent => [exec |-> e, ask |-> execs[e].ask, answer |-> execs[e].answer] \in inbox

\* The engine never gets two different answers to a question, although the user
\* may prepare several.  The same answer it may get again: see Deliver.
OneAnswer == \A x, y \in inbox : x.exec = y.exec /\ x.ask = y.ask => x = y

\* Once the user adds no more, all work comes to an end or to the user: dead
\* workers, lost claims and scheduled retries leave nothing behind.
Rests == Live(InFlight \cup Pending) # {} ~> Live(InFlight \cup Pending) = {}

=============================================================================
