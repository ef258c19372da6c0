-------------------------- MODULE OntocodeJobsProofs --------------------------
(***************************************************************************)
(* Proofs about OntocodeJobs: types, one claim at a time, closed sessions, *)
(* and the autonomy mode of the work that executes.                        *)
(***************************************************************************)
EXTENDS OntocodeJobs, TLAPS

USE DEF session

LEMMA Numbers == /\ None \notin Jobs /\ None \notin Cmds
                 /\ Jobs \subseteq Nat /\ Cmds \subseteq Nat
BY SizeAssumption DEF Jobs, Cmds, None

LEMMA NewJobFree == ASSUME NEW n, JobLeft(n) PROVE NewJob \in Jobs /\ NewJob \notin Present
BY DEF JobLeft, NewJob, IsNextJob

LEMMA NewCmdFree == ASSUME CmdLeft PROVE NewCmd \in Cmds /\ cmds[NewCmd].st = "none"
BY DEF CmdLeft, NewCmd, IsNextCmd

-----------------------------------------------------------------------------
(* Types                                                                    *)

BusyHasJob == \A w \in Workers : wk[w].pc # "idle" => wk[w].job \in Jobs

Typed == TypeOK /\ BusyHasJob

LEMMA Rows ==
  ASSUME Typed
  PROVE  /\ \A j \in Jobs : jobs[j] \in JobRow /\ execs[j] \in ExecRow
         /\ \A c \in Cmds : cmds[c] \in CmdRow
         /\ \A w \in Workers : wk[w] \in WorkerRow
BY DEF Typed, TypeOK

LEMMA Blank == NoCmd \in CmdRow /\ NoJob \in JobRow /\ NoExec \in ExecRow /\ Idle \in WorkerRow
BY SizeAssumption DEF NoCmd, NoJob, NoExec, Idle, CmdRow, JobRow, ExecRow, WorkerRow, Modes

LEMMA TypeInit == Init => Typed
BY Blank, PlanAssumption DEF Init, Typed, TypeOK, BusyHasJob, Idle, Modes

\* A row whose status changes, and a row put in the place of another.
LEMMA JobSet ==
  ASSUME NEW f \in [Jobs -> JobRow], NEW j, NEW st \in JobStates
  PROVE  [f EXCEPT ![j].st = st] \in [Jobs -> JobRow]
BY DEF JobRow

LEMMA JobPut ==
  ASSUME NEW f \in [Jobs -> JobRow], NEW j, NEW r \in JobRow
  PROVE  [f EXCEPT ![j] = r] \in [Jobs -> JobRow]
OBVIOUS

LEMMA JobMoves ==
  ASSUME Typed, NEW S, NEW st \in JobStates, jobs' = [j \in Jobs |-> IF j \in S THEN [jobs[j] EXCEPT !.st = st] ELSE jobs[j]]
  PROVE  jobs' \in [Jobs -> JobRow]
<1>1. ASSUME NEW j \in Jobs PROVE [jobs[j] EXCEPT !.st = st] \in JobRow /\ jobs[j] \in JobRow
  BY <1>1, Rows DEF JobRow
<1> QED
  BY <1>1

LEMMA CmdSet ==
  ASSUME NEW f \in [Cmds -> CmdRow], NEW c, NEW st \in CmdStates
  PROVE  [f EXCEPT ![c].st = st] \in [Cmds -> CmdRow]
BY DEF CmdRow

LEMMA CmdPut ==
  ASSUME NEW f \in [Cmds -> CmdRow], NEW c, NEW r \in CmdRow
  PROVE  [f EXCEPT ![c] = r] \in [Cmds -> CmdRow]
OBVIOUS

LEMMA ExecSet ==
  ASSUME NEW f \in [Jobs -> ExecRow], NEW e, NEW st \in ExecStates
  PROVE  [f EXCEPT ![e].st = st] \in [Jobs -> ExecRow]
BY DEF ExecRow

LEMMA ExecPut ==
  ASSUME NEW f \in [Jobs -> ExecRow], NEW e, NEW r \in ExecRow
  PROVE  [f EXCEPT ![e] = r] \in [Jobs -> ExecRow]
OBVIOUS

LEMMA TypeAttach ==
  ASSUME Typed, NEW p \in Jobs \cup {None}, NEW j \in Jobs, NEW new \in JobRow, Attach(p, j, new)
  PROVE  jobs' \in [Jobs -> JobRow] /\ execs' \in [Jobs -> ExecRow]
<1>1. CASE p = None
  BY <1>1, JobPut DEF Attach, Typed, TypeOK
<1>2. CASE p # None
  <2> DEFINE e == jobs[p].exec
             r == [new EXCEPT !.exec = e]
  <2>1. p \in Jobs /\ e \in Jobs \cup {None}
    BY <1>2 DEF Typed, TypeOK, JobRow
  <2>2. r \in JobRow
    BY <2>1 DEF JobRow
  <2>3. jobs' = [[jobs EXCEPT ![j] = r] EXCEPT ![p].st = "cancelled"]
    BY <1>2, <2>1 DEF Attach
  <2>4. jobs' \in [Jobs -> JobRow]
    BY <2>2, <2>3, JobPut, JobSet DEF Typed, TypeOK, JobStates
  <2>5. execs' \in [Jobs -> ExecRow]
    BY <1>2, <2>1 DEF Attach, Typed, TypeOK, ExecRow, ExecStates
  <2> QED
    BY <2>4, <2>5
<1> QED
  BY <1>1, <1>2

LEMMA TypeUser ==
  ASSUME Typed, User
  PROVE  Typed'
<1> USE Numbers, Rows
<1>1. ASSUME NEW m \in Modes, UpdateMode(m) PROVE Typed'
  BY <1>1 DEF UpdateMode, Typed, TypeOK, BusyHasJob
<1>2. CASE Talk \/ Close
  BY <1>2 DEF Talk, Close, Typed, TypeOK, BusyHasJob
<1>4. ASSUME NEW a \in plan.acts, NEW p \in Jobs \cup {None}, NEW pipe \in BOOLEAN, Turn(a, p, pipe) PROVE Typed'
  <2> DEFINE human == NeedsHuman(mode, a)
             cmd == Command(a, IF human THEN "awaiting_approval" ELSE "queued", p, pipe)
             new == [NoJob EXCEPT !.st = IF human THEN "waiting_user" ELSE "queued", !.cmd = NewCmd]
  <2>1. NewJob \in Jobs /\ NewCmd \in Cmds /\ a \in Actions
    BY <1>4, NewJobFree, NewCmdFree, PlanAssumption DEF Turn, MayAsk, WithinPlan, Typed, TypeOK
  <2>2. cmd \in CmdRow
    BY <2>1 DEF CmdRow, Command, CmdStates, NeedsHuman
  <2>3. new \in JobRow
    BY <2>1, Blank DEF JobRow, JobStates
  <2>4. jobs' \in [Jobs -> JobRow] /\ execs' \in [Jobs -> ExecRow]
    BY <1>4, <2>1, <2>3, TypeAttach DEF Turn
  <2>5. cmds' \in [Cmds -> CmdRow]
    BY <1>4, <2>2, CmdPut DEF Turn, Typed, TypeOK
  <2> QED
    BY <1>4, <2>4, <2>5 DEF Turn, Typed, TypeOK, BusyHasJob
<1>5. ASSUME NEW a \in plan.acts, NEW p \in Jobs \cup {None}, CreateCommand(a, p) PROVE Typed'
  <2> DEFINE cmd == Command(a, IF NeedsHuman(mode, a) THEN "awaiting_approval" ELSE "approved", p, FALSE)
  <2>1. NewCmd \in Cmds /\ a \in Actions
    BY <1>5, NewCmdFree, PlanAssumption DEF CreateCommand, MayAsk, WithinPlan, Typed, TypeOK
  <2>2. cmd \in CmdRow
    BY <2>1 DEF CmdRow, Command, CmdStates, NeedsHuman
  <2>3. cmds' \in [Cmds -> CmdRow]
    BY <1>5, <2>2, CmdPut DEF CreateCommand, Typed, TypeOK
  <2> QED
    BY <1>5, <2>3 DEF CreateCommand, Typed, TypeOK, BusyHasJob
<1>6. ASSUME NEW c \in Cmds, PostJob(c) PROVE Typed'
  <2> DEFINE new == [NoJob EXCEPT !.st = "queued", !.cmd = c]
  <2>1. NewJob \in Jobs /\ cmds[c].resumes \in Jobs \cup {None}
    BY <1>6, NewJobFree DEF PostJob, Typed, TypeOK, CmdRow
  <2>2. new \in JobRow
    BY Blank DEF JobRow, JobStates
  <2>3. jobs' \in [Jobs -> JobRow] /\ execs' \in [Jobs -> ExecRow]
    BY <1>6, <2>1, <2>2, TypeAttach DEF PostJob
  <2>4. cmds' \in [Cmds -> CmdRow]
    BY <1>6, CmdSet DEF PostJob, Typed, TypeOK, CmdStates
  <2> QED
    BY <1>6, <2>3, <2>4 DEF PostJob, Typed, TypeOK, BusyHasJob
<1>7. ASSUME NEW c \in Cmds, NEW approve \in BOOLEAN, Decide(c, approve) PROVE Typed'
  <2> DEFINE st == IF approve THEN "approved" ELSE "rejected"
             r == [cmds[c] EXCEPT !.st = st, !.decided = approve]
  <2>1. jobs' \in [Jobs -> JobRow]
    <3> DEFINE to == IF approve THEN "queued" ELSE "cancelled"
               linked == {j \in Jobs : jobs[j].cmd = c /\ jobs[j].st = "waiting_user"}
    <3>1. to \in JobStates
      BY DEF JobStates
    <3>2. jobs' = [j \in Jobs |-> IF j \in linked THEN [jobs[j] EXCEPT !.st = to] ELSE jobs[j]]
      BY <1>7 DEF Decide
    <3> HIDE DEF to, linked
    <3> QED
      BY <3>1, <3>2, JobMoves
  <2>2. cmds' \in [Cmds -> CmdRow]
    <3>1. r \in CmdRow
      BY Rows DEF CmdRow, CmdStates
    <3>2. cmds' = [cmds EXCEPT ![c] = r]
      BY <1>7 DEF Decide, Typed, TypeOK
    <3> QED
      BY <3>1, <3>2, CmdPut DEF Typed, TypeOK
  <2> QED
    BY <1>7, <2>1, <2>2 DEF Decide, Typed, TypeOK, BusyHasJob
<1>8. ASSUME NEW S, Cancel(S) PROVE Typed'
  <2>1. jobs' \in [Jobs -> JobRow]
    <3> DEFINE victims == S \cap Live(InFlight \cup Pending)
    <3>1. jobs' = [j \in Jobs |-> IF j \in victims THEN [jobs[j] EXCEPT !.st = "cancelled"] ELSE jobs[j]]
      BY <1>8 DEF Cancel
    <3> HIDE DEF victims
    <3> QED
      BY <3>1, JobMoves DEF JobStates
  <2>2. execs' \in [Jobs -> ExecRow]
    BY <1>8 DEF Cancel, Typed, TypeOK, ExecRow, ExecStates, NoExec
  <2> QED
    BY <1>8, <2>1, <2>2 DEF Cancel, Typed, TypeOK, BusyHasJob
<1>9. ASSUME NEW j \in Jobs, Retry(j) PROVE Typed'
  <2>1. jobs' \in [Jobs -> JobRow]
    <3> DEFINE r == [jobs[j] EXCEPT !.st = "retry_scheduled", !.owner = NoWorker, !.fresh = TRUE, !.again = TRUE]
    <3>1. r \in JobRow
      BY Rows DEF JobRow, JobStates
    <3>2. jobs' = [jobs EXCEPT ![j] = r]
      BY <1>9 DEF Retry
    <3> QED
      BY <3>1, <3>2, JobPut DEF Typed, TypeOK
  <2>2. cmds' \in [Cmds -> CmdRow]
    BY <1>9, CmdSet DEF Retry, Typed, TypeOK, CmdStates
  <2>3. execs' \in [Jobs -> ExecRow]
    BY <1>9, ExecSet DEF Retry, Typed, TypeOK, ExecStates
  <2> QED
    BY <1>9, <2>1, <2>2, <2>3 DEF Retry, Typed, TypeOK, BusyHasJob
<1> QED
  BY <1>1, <1>2, <1>4, <1>5, <1>6, <1>7, <1>8, <1>9 DEF User

LEMMA TypeProject ==
  ASSUME Typed, NEW j \in Jobs, NEW x \in ExecRow, execs' = Project(j, x)
  PROVE  execs' \in [Jobs -> ExecRow]
BY ExecPut DEF Project, Typed, TypeOK

LEMMA TypeExec ==
  ASSUME Typed, NEW j \in Jobs, NEW st \in ExecStates
  PROVE  /\ Exec(j) \in ExecRow
         /\ [Exec(j) EXCEPT !.st = st] \in ExecRow
         /\ Settled(j, st) \in ExecRow
<1>1. Exec(j) \in ExecRow
  BY Rows, Blank DEF Exec, JobRow
<1> QED
  BY <1>1, Blank DEF Settled, ExecRow

LEMMA HeldJob == ASSUME Typed, NEW w \in Workers, Holds(w) PROVE wk[w].job \in Jobs
BY Rows DEF Holds, WorkerRow

LEMMA TypeLeave == ASSUME Typed, NEW w, Leave(w) PROVE wk' \in [Workers -> WorkerRow] /\ BusyHasJob'
BY Blank DEF Leave, Typed, TypeOK, BusyHasJob, Idle

LEMMA TypeAttempted == ASSUME Typed, NEW j \in Jobs PROVE Attempted(j) \in 0 .. MaxAttempts
<1>1. jobs[j].tries \in 0 .. MaxAttempts
  BY Rows DEF JobRow
<1> QED
  BY <1>1, SizeAssumption DEF Attempted

LEMMA TypeClaim ==
  ASSUME Typed, NEW w \in Workers
  PROVE  /\ \A j \in Jobs : Start(w, j) => Typed'
         /\ \A j \in Jobs : StartRefused(w, j) => Typed'
         /\ \A j \in Jobs : StartLost(w, j) => Typed'
         /\ Heartbeat(w) => Typed'
         /\ LoseLease(w) => Typed'
         /\ Overrun(w) => Typed'
<1>1. ASSUME NEW j \in Jobs, Start(w, j) PROVE Typed'
  <2> DEFINE r == [jobs[j] EXCEPT !.st = "running", !.owner = w, !.fresh = TRUE,
                                 !.tries = Attempted(j)]
             v == [pc |-> IF Authorized(jobs[j].cmd) THEN "running" ELSE "failed_terminal",
                   job |-> j, mode |-> mode, ask |-> 0]
  <2>1. r \in JobRow
    BY Rows, TypeAttempted DEF JobRow, JobStates
  <2>2. jobs' \in [Jobs -> JobRow]
    <3>1. jobs' = [jobs EXCEPT ![j] = r]
      BY <1>1 DEF Start
    <3> HIDE DEF r
    <3> QED
      BY <2>1, <3>1, JobPut DEF Typed, TypeOK
  <2>3. cmds' \in [Cmds -> CmdRow]
    BY <1>1, CmdSet DEF Start, Typed, TypeOK, CmdStates
  <2>4. v \in WorkerRow
    BY DEF WorkerRow, Working, Typed, TypeOK
  <2>5. wk' = [wk EXCEPT ![w] = v]
    BY <1>1 DEF Start
  <2> HIDE DEF v
  <2>6. wk' \in [Workers -> WorkerRow]
    BY <2>4, <2>5 DEF Typed, TypeOK
  <2>7. BusyHasJob'
    BY <2>5 DEF v, Typed, TypeOK, BusyHasJob
  <2> QED
    BY <1>1, <2>2, <2>3, <2>6, <2>7 DEF Start, Typed, TypeOK
<1>2. ASSUME NEW j \in Jobs, StartRefused(w, j) PROVE Typed'
  <2> DEFINE r == [jobs[j] EXCEPT !.st = "failed_recoverable", !.owner = NoWorker, !.tries = Attempted(j)]
  <2>1. r \in JobRow
    BY Rows, TypeAttempted DEF JobRow, JobStates
  <2>2. jobs' \in [Jobs -> JobRow]
    <3>1. jobs' = [jobs EXCEPT ![j] = r]
      BY <1>2 DEF StartRefused
    <3> HIDE DEF r
    <3> QED
      BY <2>1, <3>1, JobPut DEF Typed, TypeOK
  <2>3. cmds' \in [Cmds -> CmdRow]
    BY <1>2, CmdSet DEF StartRefused, Typed, TypeOK, CmdStates
  <2> QED
    BY <1>2, <2>2, <2>3 DEF StartRefused, Typed, TypeOK, BusyHasJob
<1>3. ASSUME NEW j \in Jobs, StartLost(w, j) PROVE Typed'
  <2> DEFINE r == [jobs[j] EXCEPT !.st = "leased", !.owner = NoWorker, !.fresh = TRUE]
  <2>1. r \in JobRow
    BY Rows DEF JobRow, JobStates
  <2>2. jobs' \in [Jobs -> JobRow]
    BY <1>3, <2>1, JobPut DEF StartLost, Typed, TypeOK
  <2> QED
    BY <1>3, <2>2 DEF StartLost, Typed, TypeOK, BusyHasJob
<1>4. ASSUME Heartbeat(w) PROVE Typed'
  <2> DEFINE r == [jobs[wk[w].job] EXCEPT !.fresh = TRUE]
  <2>1. r \in JobRow
    <3>1. wk[w].job \in Jobs
      BY <1>4, HeldJob DEF Heartbeat
    <3> QED
      BY <3>1, Rows DEF JobRow
  <2>2. jobs' \in [Jobs -> JobRow]
    BY <1>4, <2>1, JobPut DEF Heartbeat, Typed, TypeOK
  <2> QED
    BY <1>4, <2>2 DEF Heartbeat, Typed, TypeOK, BusyHasJob
<1>5. ASSUME LoseLease(w) PROVE Typed'
  BY <1>5, TypeLeave DEF LoseLease, Typed, TypeOK
<1>6. ASSUME Overrun(w) PROVE Typed'
  <2> DEFINE r == [jobs[wk[w].job] EXCEPT !.fresh = FALSE]
  <2>1. r \in JobRow
    <3>1. wk[w].job \in Jobs
      BY <1>6, HeldJob DEF Overrun
    <3> QED
      BY <3>1, Rows DEF JobRow
  <2>2. jobs' \in [Jobs -> JobRow]
    BY <1>6, <2>1, JobPut DEF Overrun, Typed, TypeOK
  <2> QED
    BY <1>6, <2>2 DEF Overrun, Typed, TypeOK, BusyHasJob
<1> QED
  BY <1>1, <1>2, <1>3, <1>4, <1>5, <1>6

LEMMA TypeBuild ==
  ASSUME Typed, NEW w \in Workers
  PROVE  /\ Ensure(w) => Typed'
         /\ Deliver(w) => Typed'
         /\ DeliverAndDie(w) => Typed'
<1> DEFINE j == wk[w].job
<1> USE Numbers
<1>1. ASSUME Ensure(w) PROVE Typed'
  <2> DEFINE e == Own(j)
  <2>1. j \in Jobs /\ e \in Jobs
    BY <1>1, HeldJob, Rows DEF Ensure, Own, JobRow
  <2>2. jobs' \in [Jobs -> JobRow]
    BY <1>1, <2>1 DEF Ensure, Typed, TypeOK, JobRow
  <2>3. execs' \in [Jobs -> ExecRow]
    <3>1. Resumed(execs[e].st) \in ExecStates
      BY DEF Resumed, ExecStates
    <3>2. execs' = execs \/ execs' = [execs EXCEPT ![e].st = Resumed(execs[e].st)]
      BY <1>1 DEF Ensure
    <3> QED
      BY <3>1, <3>2, ExecSet DEF Typed, TypeOK
  <2>4. Undelivered(e) \in Nat
    BY <2>1, Rows DEF Undelivered, ExecRow
  <2>5. wk' \in [Workers -> WorkerRow] /\ BusyHasJob'
    BY <1>1, <2>1, <2>4 DEF Ensure, Typed, TypeOK, WorkerRow, Working, BusyHasJob
  <2> QED
    BY <1>1, <2>2, <2>3, <2>5 DEF Ensure, Typed, TypeOK
<1>2. ASSUME wk[w].pc = "bound" PROVE Mailed(w) \subseteq [exec : Jobs \cup {None}, ask : Nat, answer : Jobs]
  <2>1. j \in Jobs
    BY <1>2 DEF Typed, BusyHasJob
  <2> DEFINE m == [exec |-> jobs[j].exec, ask |-> wk[w].ask, answer |-> j]
  <2>2. m \in [exec : Jobs \cup {None}, ask : Nat, answer : Jobs]
    <3>1. jobs[j].exec \in Jobs \cup {None} /\ wk[w].ask \in Nat
      BY <2>1, Rows DEF WorkerRow, JobRow
    <3> QED
      BY <2>1, <3>1
  <2> QED
    BY <2>2 DEF Mailed, Typed, TypeOK
<1>3. ASSUME Deliver(w) PROVE Typed'
  <2>1. inbox' \subseteq [exec : Jobs \cup {None}, ask : Nat, answer : Jobs]
    BY <1>2, <1>3 DEF Deliver
  <2>2. execs' \in [Jobs -> ExecRow]
    <3> DEFINE e == jobs[j].exec
               r == [execs[e] EXCEPT !.sent = TRUE]
    <3>1. execs' = execs \/ execs' = [execs EXCEPT ![e].sent = TRUE]
      BY <1>3 DEF Deliver
    <3>2. [execs EXCEPT ![e].sent = TRUE] \in [Jobs -> ExecRow]
      BY DEF Typed, TypeOK, ExecRow
    <3> QED
      BY <3>1, <3>2 DEF Typed, TypeOK
  <2>3. wk' \in [Workers -> WorkerRow] /\ BusyHasJob'
    BY <1>3 DEF Deliver, Typed, TypeOK, WorkerRow, Working, BusyHasJob
  <2> QED
    BY <1>3, <2>1, <2>2, <2>3 DEF Deliver, Typed, TypeOK
<1>4. ASSUME DeliverAndDie(w) PROVE Typed'
  <2>1. inbox' \subseteq [exec : Jobs \cup {None}, ask : Nat, answer : Jobs]
    BY <1>2, <1>4 DEF DeliverAndDie
  <2> QED
    BY <1>4, <2>1, Blank DEF DeliverAndDie, Typed, TypeOK, BusyHasJob, Idle
<1> QED
  BY <1>1, <1>3, <1>4

LEMMA TypeOutcome ==
  ASSUME Typed, NEW w \in Workers
  PROVE  /\ Success(w) => Typed'
         /\ Wait(w) => Typed'
         /\ RetryLater(w) => Typed'
         /\ \A st \in {"failed_recoverable", "failed_terminal"} : Fail(w, st) => Typed'
         /\ FinishFail(w) => Typed'
<1> DEFINE j == wk[w].job
           c == jobs[j].cmd
<1>1. ASSUME Success(w) PROVE Typed'
  <2> DEFINE done == [jobs EXCEPT ![j].st = "succeeded"]
             paid == [cmds EXCEPT ![c].st = "succeeded"]
             new == [NoJob EXCEPT !.st = "queued", !.cmd = NewCmd]
             next == [NoCmd EXCEPT !.st = "queued", !.act = NextAction(Act(j)), !.pipe = TRUE]
  <2>1. j \in Jobs
    BY <1>1, HeldJob DEF Success
  <2>2. done \in [Jobs -> JobRow] /\ paid \in [Cmds -> CmdRow]
    BY JobSet, CmdSet DEF Typed, TypeOK, JobStates, CmdStates
  <2>3. ASSUME Continues(w) PROVE jobs' \in [Jobs -> JobRow] /\ cmds' \in [Cmds -> CmdRow]
    <3>1. new \in JobRow
      BY <1>1, <2>3, NewCmdFree, Blank DEF Success, JobRow, JobStates
    <3>2. next \in CmdRow
      BY Blank DEF CmdRow, CmdStates, NextAction, Actions, Pipeline
    <3>3. jobs' = [done EXCEPT ![NewJob] = new] /\ cmds' = [paid EXCEPT ![NewCmd] = next]
      BY <1>1, <2>3 DEF Success
    <3> HIDE DEF done, paid, new, next
    <3> QED
      BY <2>2, <3>1, <3>2, <3>3, JobPut, CmdPut
  <2>4. jobs' \in [Jobs -> JobRow] /\ cmds' \in [Cmds -> CmdRow]
    BY <1>1, <2>2, <2>3 DEF Success, Typed, TypeOK
  <2>5. execs' \in [Jobs -> ExecRow]
    <3>1. PICK st \in {"candidate_ready", "generated_unverified"} : execs' = Project(j, Settled(j, st))
      BY <1>1 DEF Success
    <3> QED
      BY <2>1, <3>1, TypeExec, TypeProject DEF ExecStates
  <2> QED
    BY <1>1, <2>4, <2>5, TypeLeave DEF Success, Advances, Typed, TypeOK
<1>2. ASSUME Wait(w) PROVE Typed'
  <2> DEFINE n == Exec(j).asked + 1
             x == [NoExec EXCEPT !.st = "waiting_user", !.asked = n, !.ask = n]
  <2>1. j \in Jobs
    BY <1>2, HeldJob DEF Wait
  <2>2. x \in ExecRow
    <3>1. Exec(j) \in ExecRow
      BY <2>1, TypeExec DEF ExecStates
    <3>2. n \in Nat
      BY <3>1 DEF ExecRow
    <3> HIDE DEF n
    <3> QED
      BY <3>2, Blank DEF ExecRow, ExecStates
  <2>3. execs' \in [Jobs -> ExecRow]
    BY <1>2, <2>1, <2>2, TypeProject DEF Wait
  <2>4. jobs' \in [Jobs -> JobRow] /\ cmds' \in [Cmds -> CmdRow]
    BY <1>2, JobSet, CmdSet DEF Wait, Typed, TypeOK, JobStates, CmdStates
  <2> QED
    BY <1>2, <2>3, <2>4, TypeLeave DEF Wait, Advances, Typed, TypeOK
<1>3. ASSUME RetryLater(w) PROVE Typed'
  <2> DEFINE r == [jobs[j] EXCEPT !.st = "retry_scheduled", !.fresh = TRUE]
  <2>1. j \in Jobs
    BY <1>3, HeldJob DEF RetryLater
  <2>2. r \in JobRow
    BY <2>1, Rows DEF JobRow, JobStates
  <2>3. execs' \in [Jobs -> ExecRow]
    BY <1>3, <2>1, TypeExec, TypeProject DEF RetryLater, ExecStates
  <2>4. jobs' \in [Jobs -> JobRow] /\ cmds' \in [Cmds -> CmdRow]
    BY <1>3, <2>2, JobPut, CmdSet DEF RetryLater, Typed, TypeOK, CmdStates
  <2> QED
    BY <1>3, <2>3, <2>4, TypeLeave DEF RetryLater, Typed, TypeOK
<1>4. ASSUME NEW st \in {"failed_recoverable", "failed_terminal"}, Fail(w, st) PROVE Typed'
  <2>1. wk' \in [Workers -> WorkerRow] /\ BusyHasJob'
    BY <1>4 DEF Fail, Typed, TypeOK, WorkerRow, BusyHasJob, Working
  <2> QED
    BY <1>4, <2>1 DEF Fail, Typed, TypeOK
<1>5. ASSUME FinishFail(w) PROVE Typed'
  <2> DEFINE st == wk[w].pc
             x == IF st = "failed_terminal" THEN Settled(j, st) ELSE [Exec(j) EXCEPT !.st = st]
  <2>1. j \in Jobs /\ st \in JobStates /\ st \in ExecStates
    BY <1>5, HeldJob DEF FinishFail, JobStates, ExecStates
  <2>2. x \in ExecRow
    BY <2>1, TypeExec
  <2>3. execs' \in [Jobs -> ExecRow]
    BY <1>5, <2>1, <2>2, TypeProject DEF FinishFail
  <2>4. jobs' \in [Jobs -> JobRow] /\ cmds' \in [Cmds -> CmdRow]
    BY <1>5, <2>1, JobSet, CmdSet DEF FinishFail, Typed, TypeOK, CmdStates
  <2> QED
    BY <1>5, <2>3, <2>4, TypeLeave DEF FinishFail, Typed, TypeOK
<1> QED
  BY <1>1, <1>2, <1>3, <1>4, <1>5

LEMMA TypeStep == Typed /\ [Next]_vars => Typed'
<1> SUFFICES ASSUME Typed, [Next]_vars PROVE Typed'
  OBVIOUS
<1>1. CASE User
  BY <1>1, TypeUser
<1>2. ASSUME NEW w \in Workers, Attempt(w) PROVE Typed'
  BY <1>2, TypeClaim, TypeBuild, TypeOutcome DEF Attempt
<1>3. ASSUME NEW j \in Jobs, Age(j) PROVE Typed'
  BY <1>3 DEF Age, Typed, TypeOK, BusyHasJob, JobRow
<1>4. CASE Faults
  <2>1. CASE Die
    BY <2>1, Blank DEF Die, Typed, TypeOK, BusyHasJob, Idle
  <2> QED
    BY <1>4, <2>1, TypeClaim, TypeBuild DEF Faults
<1>5. CASE UNCHANGED vars
  BY <1>5 DEF vars, Typed, TypeOK, BusyHasJob
<1> QED
  BY <1>1, <1>2, <1>3, <1>4, <1>5 DEF Next

\* The rows keep their types, and a worker that is busy knows its job.
THEOREM TypeCorrect == Spec => []TypeOK
<1>1. Typed => TypeOK
  BY DEF Typed
<1> QED
  BY <1>1, TypeInit, TypeStep, PTL DEF Spec

-----------------------------------------------------------------------------
(* What a step may do to the statuses of jobs and to the session            *)

Stopped(st) == st \notin InFlight \cup Pending

\* A job that is not under way moves only while the session is open or works.
JobMove(j) ==
    \/ jobs'[j].st = jobs[j].st
    \/ jobs[j].st \in InFlight \cup Pending
    \/ (Writable \/ Live(InFlight \cup Pending) # {}) /\ jobs[j].st \in {"none", "waiting_user", "failed_recoverable"}

\* At most one job comes in flight, and only with no other in flight.
ClaimMove ==
    \/ \A k \in Jobs : jobs'[k].st \in InFlight => jobs[k].st \in InFlight
    \/ \E j \in Jobs : \A k \in Jobs : jobs'[k].st \in InFlight => k = j

SessionMove ==
    \/ UNCHANGED <<phase, activity>>
    \/ /\ phase' \in {phase, "open"} /\ activity' # "cancelled"
       /\ Writable \/ Live(InFlight \cup Pending) # {}
    \/ Writable /\ Closable /\ UNCHANGED jobs

Moves == (\A j \in Jobs : JobMove(j)) /\ ClaimMove /\ SessionMove

LEMMA StillMoves ==
  ASSUME \A j \in Jobs : jobs'[j].st = jobs[j].st
  PROVE  (\A j \in Jobs : JobMove(j)) /\ ClaimMove
BY DEF JobMove, ClaimMove

LEMMA MovesUser ==
  ASSUME Typed, User
  PROVE  Moves
<1> USE Numbers DEF JobMove, ClaimMove, SessionMove, InFlight, Pending
<1>1. ASSUME NEW m \in Modes, UpdateMode(m) PROVE Moves
  BY <1>1 DEF UpdateMode, Moves
<1>2. CASE Talk
  BY <1>2 DEF Talk, Moves
<1>3. CASE Close
  BY <1>3 DEF Close, Moves
<1>4. ASSUME NEW p \in Jobs \cup {None}, NEW j \in Jobs, NEW new \in JobRow, Attach(p, j, new),
             Writable, j \notin Present, p # None => jobs[p].st = "waiting_user", new.st \notin InFlight
      PROVE  (\A k \in Jobs : JobMove(k)) /\ ClaimMove
  <2>1. ASSUME NEW k \in Jobs PROVE jobs'[k].st = jobs[k].st \/ k = j \/ (k = p /\ jobs'[k].st = "cancelled")
    <3>1. CASE p = None
      BY <1>4, <3>1 DEF Attach, Typed, TypeOK
    <3>2. CASE p # None
      <4> DEFINE r == [new EXCEPT !.exec = jobs[p].exec]
      <4>1. jobs' = [jobs EXCEPT ![j] = r, ![p].st = "cancelled"]
        BY <1>4, <3>2 DEF Attach
      <4> HIDE DEF r
      <4>2. jobs[p] \in JobRow
        BY <3>2, Rows
      <4> QED
        BY <4>1, <4>2 DEF Typed, TypeOK, JobRow
    <3> QED
      BY <3>1, <3>2
  <2>2. jobs'[j].st \notin InFlight
    BY <1>4 DEF Attach, Typed, TypeOK, JobRow, Present
  <2> QED
    BY <1>4, <2>1, <2>2 DEF Present
<1>5. ASSUME NEW a \in plan.acts, NEW p \in Jobs \cup {None}, NEW pipe \in BOOLEAN, Turn(a, p, pipe) PROVE Moves
  <2> DEFINE new == [NoJob EXCEPT !.st = IF NeedsHuman(mode, a) THEN "waiting_user" ELSE "queued", !.cmd = NewCmd]
  <2>1. NewJob \in Jobs /\ NewJob \notin Present /\ NewCmd \in Cmds /\ Writable
    BY <1>5, NewJobFree, NewCmdFree DEF Turn, MayAsk, WithinPlan
  <2>2. new \in JobRow /\ new.st \notin InFlight
    BY <2>1, Blank DEF JobRow, JobStates, NoJob
  <2>3. p # None => jobs[p].st = "waiting_user"
    BY <1>5 DEF Turn, MayAsk, Resumable, Answerable
  <2>4. Attach(p, NewJob, new)
    BY <1>5 DEF Turn
  <2> HIDE DEF new
  <2>5. (\A k \in Jobs : JobMove(k)) /\ ClaimMove
    BY <2>1, <2>2, <2>3, <2>4, <1>4
  <2> QED
    BY <1>5, <2>1, <2>5 DEF Turn, Moves
<1>6. ASSUME NEW a \in plan.acts, NEW p \in Jobs \cup {None}, CreateCommand(a, p) PROVE Moves
  BY <1>6 DEF CreateCommand, MayAsk, Moves
<1>7. ASSUME NEW c \in Cmds, PostJob(c) PROVE Moves
  <2> DEFINE new == [NoJob EXCEPT !.st = "queued", !.cmd = c]
             p == cmds[c].resumes
  <2>1. NewJob \in Jobs /\ NewJob \notin Present /\ Writable /\ p \in Jobs \cup {None}
    BY <1>7, NewJobFree, Rows DEF PostJob, CmdRow
  <2>2. new \in JobRow /\ new.st \notin InFlight
    BY <2>1, Blank DEF JobRow, JobStates, NoJob
  <2>3. p # None => jobs[p].st = "waiting_user"
    BY <1>7 DEF PostJob, Executable, Answerable
  <2>4. Attach(p, NewJob, new)
    BY <1>7 DEF PostJob
  <2> HIDE DEF new, p
  <2>5. (\A k \in Jobs : JobMove(k)) /\ ClaimMove
    BY <2>1, <2>2, <2>3, <2>4, <1>4
  <2> QED
    BY <1>7, <2>1, <2>5 DEF PostJob, Moves
<1>8. ASSUME NEW c \in Cmds, NEW approve \in BOOLEAN, Decide(c, approve) PROVE Moves
  <2>1. ASSUME NEW k \in Jobs
        PROVE  jobs'[k].st = jobs[k].st \/ (jobs[k].st = "waiting_user" /\ jobs'[k].st \notin InFlight)
    BY <1>8, Rows DEF Decide, JobRow
  <2>2. Writable /\ phase' = phase /\ activity' # "cancelled"
    BY <1>8 DEF Decide
  <2> QED
    BY <2>1, <2>2 DEF Moves
<1>9. ASSUME NEW S, Cancel(S) PROVE Moves
  <2>1. ASSUME NEW k \in Jobs
        PROVE  jobs'[k].st = jobs[k].st \/ (jobs[k].st \in InFlight \cup Pending /\ jobs'[k].st = "cancelled")
    BY <1>9, Rows DEF Cancel, Live, JobRow
  <2>2. Live(InFlight \cup Pending) # {} /\ phase' = phase /\ activity' = "idle"
    BY <1>9 DEF Cancel
  <2> QED
    BY <2>1, <2>2 DEF Moves
<1>10. ASSUME NEW j \in Jobs, Retry(j) PROVE Moves
  <2>1. ASSUME NEW k \in Jobs
        PROVE  jobs'[k].st = jobs[k].st \/ (jobs[k].st = "failed_recoverable" /\ jobs'[k].st = "retry_scheduled")
    BY <1>10, Rows DEF Retry, Typed, TypeOK, JobRow
  <2>2. Writable /\ phase' = phase /\ activity' = "busy"
    BY <1>10 DEF Retry
  <2> QED
    BY <2>1, <2>2 DEF Moves
<1> QED
  BY <1>1, <1>2, <1>3, <1>5, <1>6, <1>7, <1>8, <1>9, <1>10 DEF User

LEMMA MovesAttempt ==
  ASSUME Typed, NEW w \in Workers, Attempt(w) \/ Overrun(w) \/ DeliverAndDie(w) \/ \E j \in Jobs : StartLost(w, j)
  PROVE  Moves
<1> USE Numbers DEF JobMove, ClaimMove, SessionMove, InFlight, Pending
<1> DEFINE i == wk[w].job
<1>1. ASSUME NEW j \in Jobs, NEW r, jobs' = [jobs EXCEPT ![j] = r]
      PROVE  \A k \in Jobs : jobs'[k].st = IF k = j THEN r.st ELSE jobs[k].st
  BY <1>1 DEF Typed, TypeOK
<1>2. ASSUME NEW j \in Jobs, Claimable(j)
      PROVE  /\ jobs[j].st \in InFlight \cup Pending /\ Live(InFlight \cup Pending) # {}
             /\ \A k \in Jobs : jobs[k].st \in InFlight => k = j
  BY <1>2 DEF Claimable, Live
<1>3. ASSUME Holds(w)
      PROVE  i \in Jobs /\ jobs[i].st = "running" /\ Live(InFlight \cup Pending) # {}
  BY <1>3, HeldJob DEF Holds, Live
<1>4. ASSUME NEW j \in Jobs, Start(w, j) PROVE Moves
  <2>1. \A k \in Jobs : k # j => jobs'[k].st = jobs[k].st
    BY <1>4 DEF Start, Typed, TypeOK
  <2> QED
    BY <1>2, <1>4, <2>1 DEF Start, Moves
<1>5. ASSUME NEW j \in Jobs, StartRefused(w, j) PROVE Moves
  <2>1. \A k \in Jobs : k # j => jobs'[k].st = jobs[k].st
    BY <1>5 DEF StartRefused, Typed, TypeOK
  <2> QED
    BY <1>2, <1>5, <2>1 DEF StartRefused, Moves
<1>6. ASSUME NEW j \in Jobs, StartLost(w, j) PROVE Moves
  <2>1. \A k \in Jobs : k # j => jobs'[k].st = jobs[k].st
    BY <1>6 DEF StartLost, Typed, TypeOK
  <2>2. Claimable(j) /\ UNCHANGED <<phase, activity>>
    BY <1>6 DEF StartLost
  <2>3. \A k \in Jobs : JobMove(k)
    BY <1>2, <2>1, <2>2
  <2>4. \A k \in Jobs : jobs'[k].st \in InFlight => k = j
    BY <1>2, <2>1, <2>2
  <2> QED
    BY <2>2, <2>3, <2>4 DEF Moves
<1>7. ASSUME Heartbeat(w) \/ Overrun(w) PROVE Moves
  <2>1. \A k \in Jobs : jobs'[k].st = jobs[k].st
    BY <1>7, Rows DEF Heartbeat, Overrun, Typed, TypeOK, JobRow
  <2> QED
    BY <1>7, <2>1, StillMoves DEF Heartbeat, Overrun, Moves
<1>8. ASSUME LoseLease(w) PROVE Moves
  BY <1>8 DEF LoseLease, Moves
<1>9. ASSUME Ensure(w) PROVE Moves
  <2>1. \A k \in Jobs : jobs'[k].st = jobs[k].st
    BY <1>9, Rows DEF Ensure, Typed, TypeOK, JobRow
  <2> QED
    BY <1>9, <2>1, StillMoves DEF Ensure, Moves
<1>10. ASSUME Deliver(w) \/ DeliverAndDie(w) PROVE Moves
  BY <1>10 DEF Deliver, DeliverAndDie, Moves
<1>11. ASSUME NEW st, Fail(w, st) PROVE Moves
  BY <1>11 DEF Fail, Moves
<1>12. ASSUME Wait(w) \/ RetryLater(w) \/ FinishFail(w) PROVE Moves
  <2>1. Holds(w)
    BY <1>12 DEF Wait, RetryLater, FinishFail
  <2>2. \A k \in Jobs : jobs'[k].st = jobs[k].st \/ (k = i /\ jobs'[k].st \notin InFlight)
    <3>1. i \in Jobs /\ jobs[i] \in JobRow
      BY <1>3, <2>1, Rows
    <3>2. CASE Wait(w)
      BY <3>1, <3>2 DEF Wait, Typed, TypeOK, JobRow
    <3>3. CASE RetryLater(w)
      BY <3>1, <3>3 DEF RetryLater, Typed, TypeOK, JobRow
    <3>4. CASE FinishFail(w)
      BY <3>1, <3>4 DEF FinishFail, Typed, TypeOK, JobRow
    <3> QED
      BY <1>12, <3>2, <3>3, <3>4
  <2>3. phase' \in {phase, "open"} /\ activity' = "busy"
    BY <1>12 DEF Wait, RetryLater, FinishFail, Advances
  <2> QED
    BY <1>3, <2>1, <2>2, <2>3 DEF Moves
<1>13. ASSUME Success(w) PROVE Moves
  <2> DEFINE done == [jobs EXCEPT ![i].st = "succeeded"]
             new == [NoJob EXCEPT !.st = "queued", !.cmd = NewCmd]
  <2>1. Holds(w) /\ i \in Jobs
    BY <1>3, <1>13 DEF Success
  <2>2. \A k \in Jobs : done[k].st = IF k = i THEN "succeeded" ELSE jobs[k].st
    BY <2>1 DEF Typed, TypeOK, JobRow
  <2>3. jobs' = done \/ (jobs' = [done EXCEPT ![NewJob] = new] /\ NewJob \in Jobs /\ NewJob \notin Present)
    BY <1>13, NewJobFree DEF Success
  <2>4. DOMAIN done = Jobs /\ new.st = "queued"
    BY DEF Typed, TypeOK, NoJob
  <2> HIDE DEF done, new
  <2>5. \A k \in Jobs : \/ jobs'[k].st = jobs[k].st
                        \/ k = i /\ jobs'[k].st \notin InFlight
                        \/ jobs[k].st = "none" /\ jobs'[k].st = "queued"
    BY <2>2, <2>3, <2>4 DEF Present
  <2>6. phase' \in {phase, "open"} /\ activity' # "cancelled"
    BY <1>13 DEF Success, Advances
  <2> QED
    BY <1>3, <2>1, <2>5, <2>6 DEF Moves
<1> QED
  BY <1>4, <1>5, <1>6, <1>7, <1>8, <1>9, <1>10, <1>11, <1>12, <1>13 DEF Attempt

LEMMA MovesStep == ASSUME Typed, [Next]_vars PROVE Moves
<1>1. CASE User
  BY <1>1, MovesUser
<1>2. ASSUME NEW w \in Workers, Attempt(w) PROVE Moves
  BY <1>2, MovesAttempt
<1>3. ASSUME NEW j \in Jobs, Age(j) PROVE Moves
  <2>1. \A k \in Jobs : jobs'[k].st = jobs[k].st
    BY <1>3, Rows DEF Age, Typed, TypeOK, JobRow
  <2> QED
    BY <1>3, <2>1, StillMoves DEF Age, Moves, SessionMove
<1>4. CASE Faults
  <2>1. CASE Die
    BY <2>1, StillMoves DEF Die, Moves, SessionMove
  <2> QED
    BY <1>4, <2>1, MovesAttempt DEF Faults
<1>5. CASE UNCHANGED vars
  BY <1>5, StillMoves DEF vars, Moves, SessionMove
<1> QED
  BY <1>1, <1>2, <1>3, <1>4, <1>5 DEF Next

-----------------------------------------------------------------------------
(* One claim at a time, closed sessions, final statuses                     *)

Quiet == ClosedIsQuiet /\ OneInFlight

LEMMA QuietInit == Init => Quiet
BY DEF Init, Quiet, ClosedIsQuiet, OneInFlight, Writable, Live, InFlight, NoJob

LEMMA QuietStep ==
  ASSUME Typed, Quiet, [Next]_vars
  PROVE  /\ Quiet'
         /\ ~Writable => ~Writable'
         /\ \A j \in Jobs : jobs[j].st \in Final => jobs'[j].st = jobs[j].st
<1>1. Moves
  BY MovesStep
<1>2. ASSUME ~Writable
      PROVE  ~Writable' /\ \A j \in Jobs : jobs'[j].st = jobs[j].st
  <2>1. Live(Blocking) = {} /\ Live(InFlight \cup Pending) = {}
    BY <1>2 DEF Quiet, ClosedIsQuiet, Live, Blocking
  <2>2. UNCHANGED <<phase, activity>>
    BY <1>1, <1>2, <2>1 DEF Moves, SessionMove
  <2>3. \A j \in Jobs : jobs'[j].st = jobs[j].st
    BY <1>1, <1>2, <2>1 DEF Moves, JobMove, Live
  <2> QED
    BY <1>2, <2>2, <2>3 DEF Writable
<1>3. ASSUME Writable, ~Writable'
      PROVE  Live(Blocking) = {} /\ UNCHANGED jobs
  BY <1>1, <1>3 DEF Moves, SessionMove, Writable, Closable
<1>4. ClosedIsQuiet'
  BY <1>2, <1>3 DEF Quiet, ClosedIsQuiet, Live
<1>5. OneInFlight'
  BY <1>1 DEF Moves, ClaimMove, Quiet, OneInFlight, Live
<1>6. \A j \in Jobs : jobs[j].st \in Final => jobs'[j].st = jobs[j].st
  BY <1>1 DEF Moves, JobMove, Final, InFlight, Pending
<1> QED
  BY <1>2, <1>4, <1>5, <1>6 DEF Quiet

LEMMA QuietAlways == Spec => [](Typed /\ Quiet)
<1>1. Init => Typed /\ Quiet
  BY TypeInit, QuietInit
<1>2. Typed /\ Quiet /\ [Next]_vars => (Typed /\ Quiet)'
  BY TypeStep, QuietStep
<1> QED
  BY <1>1, <1>2, PTL DEF Spec

\* Two workers never have two jobs of the session claimed at once.
THEOREM ClaimsAreSerial == Spec => []OneInFlight
<1>1. Typed /\ Quiet => OneInFlight
  BY DEF Quiet
<1> QED
  BY <1>1, QuietAlways, PTL

\* A closed session has no job left that anybody could move.
THEOREM ClosedSessionsRest == Spec => []ClosedIsQuiet
<1>1. Typed /\ Quiet => ClosedIsQuiet
  BY DEF Quiet
<1> QED
  BY <1>1, QuietAlways, PTL

\* A closed session stays closed, although the workers' writes do not look at it.
THEOREM ClosedForGood == Spec => ClosedStays
<1>1. Typed /\ Quiet /\ [Next]_vars => [~Writable => ~Writable']_vars
  BY QuietStep
<1> QED
  BY <1>1, QuietAlways, PTL DEF Spec, ClosedStays

\* A job's last status is never overwritten.
THEOREM FinalForGood == Spec => FinalStays
<1>1. Typed /\ Quiet /\ [Next]_vars => [\A j \in Jobs : jobs[j].st \in Final => jobs'[j].st = jobs[j].st]_vars
  BY QuietStep
<1> QED
  BY <1>1, QuietAlways, PTL DEF Spec, FinalStays

-----------------------------------------------------------------------------
(* The autonomy mode of the work                                            *)

Undecided == {"awaiting_approval", "rejected"}

\* A job has a command, and work that may run does what the mode allows with
\* the approval it takes.
JobFits(j) ==
    LET c == jobs[j].cmd IN
    jobs[j].st # "none" =>
        /\ c \in Cmds /\ cmds[c].st # "none"
        /\ jobs[j].st \in InFlight \cup Pending => cmds[c].st \notin Undecided
        /\ jobs[j].st \in Blocking /\ ~jobs[j].again =>
            /\ Allowed(mode, cmds[c].act)
            /\ NeedsHuman(mode, cmds[c].act) =>
                \/ cmds[c].decided
                \/ jobs[j].st = "waiting_user" /\ cmds[c].st = "awaiting_approval"

CmdFits(c) == cmds[c].st \notin Undecided \cup {"none"} => (cmds[c].human => cmds[c].decided)

WorkerFits(w) == Holds(w) => wk[w].mode = mode

ModeInv ==
    /\ \A j \in Jobs : JobFits(j)
    /\ \A c \in Cmds : CmdFits(c)
    /\ \A w \in Workers : WorkerFits(w)

LEMMA ModeInit == Init => ModeInv
BY Numbers DEF Init, ModeInv, JobFits, CmdFits, WorkerFits, Holds, NoJob, NoCmd, Idle

\* What a worker holds after a step it held before, unless it claims.
Holding == \A w \in Workers : Holds(w)' => Holds(w) /\ wk'[w].mode = wk[w].mode

SameJob(j) == jobs'[j].st = jobs[j].st /\ jobs'[j].cmd = jobs[j].cmd /\ jobs'[j].again = jobs[j].again

\* Nothing but a lease, a worker or an execution changes.
LEMMA ModeKept ==
  ASSUME ModeInv, Holding, UNCHANGED <<mode, cmds>>, \A j \in Jobs : SameJob(j)
  PROVE  ModeInv'
BY DEF ModeInv, JobFits, CmdFits, WorkerFits, Holding, SameJob, Allowed, NeedsHuman

\* A job under way, or one its user retries, moves, and its command with it.
LEMMA ModeMoved ==
  ASSUME Typed, ModeInv, mode' = mode, NEW j \in Jobs, NEW st \in CmdStates \ Undecided,
         jobs[j].st \in InFlight \cup Pending \/ (jobs'[j].again /\ cmds[jobs[j].cmd].st = "failed"),
         \A k \in Jobs \ {j} : SameJob(k),
         jobs[j].st # "none", jobs'[j].cmd = jobs[j].cmd, jobs[j].again => jobs'[j].again,
         cmds' = [cmds EXCEPT ![jobs[j].cmd].st = st]
  PROVE  (\A k \in Jobs : JobFits(k)') /\ (\A c \in Cmds : CmdFits(c)')
<1> DEFINE c == jobs[j].cmd
<1>1. c \in Cmds /\ cmds[c].st \notin Undecided \cup {"none"}
  BY DEF ModeInv, JobFits, Undecided
<1>2. \A d \in Cmds : /\ cmds'[d].act = cmds[d].act /\ cmds'[d].human = cmds[d].human
                      /\ cmds'[d].decided = cmds[d].decided
                      /\ cmds'[d].st = IF d = c THEN st ELSE cmds[d].st
  BY <1>1, Rows DEF Typed, TypeOK, CmdRow
<1>3. st # "none"
  BY DEF CmdStates
<1>4. ASSUME NEW k \in Jobs PROVE JobFits(k)'
  <2>1. CASE k # j
    BY <1>1, <1>2, <1>3, <2>1 DEF ModeInv, JobFits, SameJob, Undecided, InFlight, Pending, Blocking
  <2>2. CASE k = j
    BY <1>1, <1>2, <1>3, <2>2 DEF ModeInv, JobFits, Undecided, InFlight, Pending, Blocking
  <2> QED
    BY <2>1, <2>2
<1>5. ASSUME NEW d \in Cmds PROVE CmdFits(d)'
  BY <1>1, <1>2, <1>3 DEF ModeInv, CmdFits
<1> QED
  BY <1>4, <1>5

\* Commands keep what they are, and a decided one stays decided.
CmdGrows ==
    \A c \in Cmds : cmds[c].st # "none" =>
        /\ cmds'[c].act = cmds[c].act /\ cmds'[c].human = cmds[c].human /\ cmds'[c].decided = cmds[c].decided
        /\ \/ cmds'[c].st = cmds[c].st
           \/ cmds[c].st \notin Undecided /\ cmds'[c].st \notin Undecided \cup {"none"}

Ended(j) == jobs[j].st # "none" /\ jobs'[j].cmd = jobs[j].cmd /\ jobs'[j].st \notin Blocking

LEMMA JobStill ==
  ASSUME ModeInv, mode' = mode, CmdGrows, NEW j \in Jobs, SameJob(j) \/ Ended(j)
  PROVE  JobFits(j)'
<1>1. CASE SameJob(j)
  BY <1>1 DEF ModeInv, JobFits, SameJob, CmdGrows, Undecided
<1>2. CASE Ended(j)
  BY <1>2 DEF ModeInv, JobFits, Ended, CmdGrows, Blocking
<1> QED
  BY <1>1, <1>2

LEMMA WorkersStill == ASSUME ModeInv, mode' = mode, Holding PROVE \A w \in Workers : WorkerFits(w)'
BY DEF ModeInv, WorkerFits, Holding

LEMMA HoldingRows ==
  ASSUME Typed, UNCHANGED wk, \A j \in Jobs : jobs'[j].st = "running" => jobs[j].st = "running" /\ jobs'[j].owner = jobs[j].owner
  PROVE  Holding
BY Rows DEF Holding, Holds, WorkerRow

\* A new job fits when its command does.
LEMMA AttachFits ==
  ASSUME Typed, ModeInv, mode' = mode, CmdGrows, NEW p \in Jobs \cup {None}, NEW j \in Jobs \ Present, NEW new \in JobRow,
         Attach(p, j, new), p # None => jobs[p].st = "waiting_user",
         new.st \in {"queued", "waiting_user"}, new.cmd \in Cmds, cmds'[new.cmd].st # "none",
         new.st = "queued" => cmds'[new.cmd].st \notin Undecided,
         Allowed(mode, cmds'[new.cmd].act),
         NeedsHuman(mode, cmds'[new.cmd].act) =>
             \/ cmds'[new.cmd].decided
             \/ new.st = "waiting_user" /\ cmds'[new.cmd].st = "awaiting_approval"
  PROVE  /\ \A k \in Jobs : JobFits(k)'
         /\ \A k \in Jobs : jobs'[k].st = "running" => jobs[k].st = "running" /\ jobs'[k].owner = jobs[k].owner
<1> USE Numbers
<1>1. jobs'[j].st = new.st /\ jobs'[j].cmd = new.cmd
  BY DEF Attach, Typed, TypeOK, JobRow, Present
<1>2. ASSUME NEW k \in Jobs \ {j}
      PROVE  (SameJob(k) \/ Ended(k)) /\ (jobs'[k].st = "running" => jobs[k].st = "running" /\ jobs'[k].owner = jobs[k].owner)
  <2>1. CASE p = None
    BY <2>1 DEF Attach, SameJob, Typed, TypeOK
  <2>2. CASE p # None
    <3> DEFINE r == [new EXCEPT !.exec = jobs[p].exec]
    <3>1. jobs' = [jobs EXCEPT ![j] = r, ![p].st = "cancelled"]
      BY <2>2 DEF Attach
    <3> HIDE DEF r
    <3>2. jobs[p] \in JobRow /\ p \in Jobs
      BY <2>2, Rows
    <3>3. IF k = p THEN jobs'[k].st = "cancelled" /\ jobs'[k].cmd = jobs[k].cmd ELSE jobs'[k] = jobs[k]
      BY <3>1, <3>2 DEF Typed, TypeOK, JobRow
    <3> QED
      BY <2>2, <3>3 DEF SameJob, Ended, Blocking, InFlight, Pending
  <2> QED
    BY <2>1, <2>2
<1>3. JobFits(j)'
  BY <1>1 DEF JobFits, Undecided, InFlight, Pending, Blocking, Allowed, NeedsHuman
<1> QED
  BY <1>1, <1>2, <1>3, JobStill

LEMMA ModeUser ==
  ASSUME Typed, ModeInv, User
  PROVE  ModeInv'
<1> USE Numbers
<1>1. ASSUME NEW m \in Modes, UpdateMode(m) PROVE ModeInv'
  <2>1. \A j \in Jobs : jobs[j].st \notin Blocking
    BY <1>1 DEF UpdateMode, ModeFree, Live
  <2>2. UNCHANGED <<jobs, cmds, wk>>
    BY <1>1 DEF UpdateMode
  <2>3. \A j \in Jobs : JobFits(j)'
    BY <2>1, <2>2 DEF ModeInv, JobFits, Blocking
  <2>4. \A c \in Cmds : CmdFits(c)'
    BY <2>2 DEF ModeInv, CmdFits
  <2>5. \A w \in Workers : ~Holds(w)
    BY <2>1, HeldJob DEF Holds, Blocking, InFlight
  <2>6. \A w \in Workers : WorkerFits(w)'
    BY <2>2, <2>5 DEF WorkerFits, Holds
  <2> QED
    BY <2>3, <2>4, <2>6 DEF ModeInv
<1>2. CASE Talk \/ Close
  <2>1. UNCHANGED <<mode, cmds, jobs, wk>>
    BY <1>2 DEF Talk, Close
  <2> QED
    BY <2>1, ModeKept DEF Holding, Holds, SameJob
<1>3. ASSUME NEW a \in plan.acts, NEW p \in Jobs \cup {None}, NEW pipe \in BOOLEAN, Turn(a, p, pipe) PROVE ModeInv'
  <2> DEFINE human == NeedsHuman(mode, a)
             new == [NoJob EXCEPT !.st = IF human THEN "waiting_user" ELSE "queued", !.cmd = NewCmd]
             cmd == Command(a, IF human THEN "awaiting_approval" ELSE "queued", p, pipe)
  <2>1. NewJob \in Jobs \ Present /\ NewCmd \in Cmds /\ cmds[NewCmd].st = "none" /\ Allowed(mode, a)
    BY <1>3, NewJobFree, NewCmdFree DEF Turn, MayAsk, WithinPlan
  <2>2. new \in JobRow /\ new.st = (IF human THEN "waiting_user" ELSE "queued") /\ new.cmd = NewCmd
    BY <2>1, Blank DEF JobRow, JobStates, NoJob
  <2>3. cmds' = [cmds EXCEPT ![NewCmd] = cmd] /\ Attach(p, NewJob, new) /\ UNCHANGED <<mode, wk>>
    BY <1>3 DEF Turn
  <2>4. p # None => jobs[p].st = "waiting_user"
    BY <1>3 DEF Turn, MayAsk, Resumable, Answerable
  <2>5. /\ cmd.act = a /\ cmd.human = human /\ cmd.st = IF human THEN "awaiting_approval" ELSE "queued"
    BY DEF Command
  <2> HIDE DEF new, cmd, human
  <2>6. cmds'[NewCmd] = cmd /\ \A c \in Cmds \ {NewCmd} : cmds'[c] = cmds[c]
    BY <2>1, <2>3 DEF Typed, TypeOK
  <2>7. CmdGrows
    BY <2>1, <2>6 DEF CmdGrows
  <2>8. /\ \A k \in Jobs : JobFits(k)'
        /\ \A k \in Jobs : jobs'[k].st = "running" => jobs[k].st = "running" /\ jobs'[k].owner = jobs[k].owner
    BY <2>1, <2>2, <2>3, <2>4, <2>5, <2>6, <2>7, AttachFits DEF Undecided, human
  <2>9. \A c \in Cmds : CmdFits(c)'
    BY <2>5, <2>6 DEF ModeInv, CmdFits, Undecided
  <2> QED
    BY <2>3, <2>8, <2>9, HoldingRows, WorkersStill DEF ModeInv
<1>4. ASSUME NEW a \in plan.acts, NEW p \in Jobs \cup {None}, CreateCommand(a, p) PROVE ModeInv'
  <2> DEFINE human == NeedsHuman(mode, a)
             cmd == Command(a, IF human THEN "awaiting_approval" ELSE "approved", p, FALSE)
  <2>1. NewCmd \in Cmds /\ cmds[NewCmd].st = "none"
    BY <1>4, NewCmdFree DEF CreateCommand, MayAsk, WithinPlan
  <2>2. cmds' = [cmds EXCEPT ![NewCmd] = cmd] /\ UNCHANGED <<mode, wk, jobs>>
    BY <1>4 DEF CreateCommand
  <2>3. cmd.human = human /\ cmd.st = IF human THEN "awaiting_approval" ELSE "approved"
    BY DEF Command
  <2> HIDE DEF cmd, human
  <2>4. cmds'[NewCmd] = cmd /\ \A c \in Cmds \ {NewCmd} : cmds'[c] = cmds[c]
    BY <2>1, <2>2 DEF Typed, TypeOK
  <2>5. CmdGrows
    BY <2>1, <2>4 DEF CmdGrows
  <2>6. \A k \in Jobs : JobFits(k)'
    BY <2>2, <2>5, JobStill DEF SameJob
  <2>7. \A c \in Cmds : CmdFits(c)'
    BY <2>3, <2>4 DEF ModeInv, CmdFits, Undecided
  <2> QED
    BY <2>2, <2>6, <2>7, HoldingRows, WorkersStill DEF ModeInv
<1>5. ASSUME NEW c \in Cmds, PostJob(c) PROVE ModeInv'
  <2> DEFINE new == [NoJob EXCEPT !.st = "queued", !.cmd = c]
             p == cmds[c].resumes
  <2>1. NewJob \in Jobs \ Present /\ p \in Jobs \cup {None}
    BY <1>5, NewJobFree, Rows DEF PostJob, CmdRow
  <2>2. new \in JobRow /\ new.st = "queued" /\ new.cmd = c
    BY Blank DEF JobRow, JobStates, NoJob
  <2>3. /\ cmds' = [cmds EXCEPT ![c].st = "queued"] /\ Attach(p, NewJob, new) /\ UNCHANGED <<mode, wk>>
        /\ cmds[c].st = "approved" /\ Allowed(mode, cmds[c].act) /\ cmds[c].human = NeedsHuman(mode, cmds[c].act)
    BY <1>5 DEF PostJob, Executable
  <2>4. p # None => jobs[p].st = "waiting_user"
    BY <1>5 DEF PostJob, Executable, Answerable
  <2>5. \A d \in Cmds : /\ cmds'[d].act = cmds[d].act /\ cmds'[d].human = cmds[d].human
                        /\ cmds'[d].decided = cmds[d].decided
                        /\ cmds'[d].st = IF d = c THEN "queued" ELSE cmds[d].st
    BY <2>3, Rows DEF Typed, TypeOK, CmdRow
  <2>6. cmds[c].human => cmds[c].decided
    BY <2>3 DEF ModeInv, CmdFits, Undecided
  <2> HIDE DEF new, p
  <2>7. CmdGrows
    BY <2>3, <2>5 DEF CmdGrows, Undecided
  <2>8. /\ \A k \in Jobs : JobFits(k)'
        /\ \A k \in Jobs : jobs'[k].st = "running" => jobs[k].st = "running" /\ jobs'[k].owner = jobs[k].owner
    BY <2>1, <2>2, <2>3, <2>4, <2>5, <2>6, <2>7, AttachFits DEF Undecided
  <2>9. \A d \in Cmds : CmdFits(d)'
    BY <2>5, <2>6 DEF ModeInv, CmdFits, Undecided
  <2> QED
    BY <2>3, <2>8, <2>9, HoldingRows, WorkersStill DEF ModeInv
<1>6. ASSUME NEW c \in Cmds, NEW approve \in BOOLEAN, Decide(c, approve) PROVE ModeInv'
  <2> DEFINE linked == {j \in Jobs : jobs[j].cmd = c /\ jobs[j].st = "waiting_user"}
  <2>1. cmds[c].st = "awaiting_approval" /\ UNCHANGED <<mode, wk>>
    BY <1>6 DEF Decide
  <2>2. \A d \in Cmds : /\ cmds'[d].act = cmds[d].act /\ cmds'[d].human = cmds[d].human
                        /\ cmds'[d].decided = IF d = c THEN approve ELSE cmds[d].decided
                        /\ cmds'[d].st = IF d = c THEN (IF approve THEN "approved" ELSE "rejected") ELSE cmds[d].st
    BY <1>6, Rows DEF Decide, Typed, TypeOK, CmdRow
  <2>3. ASSUME NEW j \in Jobs
        PROVE  /\ jobs'[j].cmd = jobs[j].cmd /\ jobs'[j].again = jobs[j].again /\ jobs'[j].owner = jobs[j].owner
               /\ jobs'[j].st = IF j \in linked THEN (IF approve THEN "queued" ELSE "cancelled") ELSE jobs[j].st
    BY <1>6, Rows DEF Decide, JobRow
  <2>4. ASSUME NEW j \in Jobs PROVE JobFits(j)'
    <3>1. JobFits(j)
      BY DEF ModeInv
    <3>2. CASE j \in linked
      BY <2>1, <2>2, <2>3, <3>1, <3>2 DEF JobFits, Undecided, InFlight, Pending, Blocking, Allowed, NeedsHuman
    <3>3. CASE j \notin linked /\ jobs[j].cmd = c
      BY <2>1, <2>2, <2>3, <3>1, <3>3 DEF JobFits, Undecided, InFlight, Pending, Blocking
    <3>4. CASE jobs[j].st = "none"
      BY <2>3, <3>4 DEF JobFits
    <3>5. CASE j \notin linked /\ jobs[j].cmd # c /\ jobs[j].st # "none"
      <4> DEFINE d == jobs[j].cmd
      <4>1. d \in Cmds
        BY <3>1, <3>5 DEF JobFits
      <4>2. cmds'[d].act = cmds[d].act /\ cmds'[d].decided = cmds[d].decided /\ cmds'[d].st = cmds[d].st
        BY <2>2, <3>5, <4>1
      <4>3. SameJob(j) /\ mode' = mode
        BY <2>1, <2>3, <3>5 DEF SameJob
      <4> QED
        BY <3>1, <4>1, <4>2, <4>3 DEF JobFits, SameJob
    <3> QED
      BY <3>2, <3>3, <3>4, <3>5
  <2>5. \A d \in Cmds : CmdFits(d)'
    BY <2>2 DEF ModeInv, CmdFits, Undecided
  <2> QED
    BY <2>1, <2>3, <2>4, <2>5, HoldingRows, WorkersStill DEF ModeInv
<1>7. ASSUME NEW S, Cancel(S) PROVE ModeInv'
  <2>1. UNCHANGED <<mode, wk, cmds>>
    BY <1>7 DEF Cancel
  <2>2. CmdGrows
    BY <2>1 DEF CmdGrows
  <2>3. ASSUME NEW j \in Jobs
        PROVE  jobs'[j] = jobs[j] \/ (jobs[j].st # "none" /\ jobs'[j].cmd = jobs[j].cmd /\ jobs'[j].st = "cancelled")
    BY <1>7, Rows DEF Cancel, Live, JobRow, InFlight, Pending
  <2>4. \A j \in Jobs : JobFits(j)'
    BY <2>1, <2>2, <2>3, JobStill DEF SameJob, Ended, Blocking, InFlight, Pending
  <2>5. \A c \in Cmds : CmdFits(c)'
    BY <2>1 DEF ModeInv, CmdFits
  <2> QED
    BY <2>1, <2>3, <2>4, <2>5, HoldingRows, WorkersStill DEF ModeInv
<1>8. ASSUME NEW j \in Jobs, Retry(j) PROVE ModeInv'
  <2>1. UNCHANGED <<mode, wk>> /\ jobs[j].st = "failed_recoverable" /\ cmds[jobs[j].cmd].st = "failed"
    BY <1>8 DEF Retry
  <2>2. \A k \in Jobs \ {j} : jobs'[k] = jobs[k]
    BY <1>8 DEF Retry, Typed, TypeOK
  <2>3. jobs'[j].cmd = jobs[j].cmd /\ jobs'[j].again /\ jobs'[j].st = "retry_scheduled"
    BY <1>8, Rows DEF Retry, Typed, TypeOK, JobRow
  <2>4. cmds' = [cmds EXCEPT ![jobs[j].cmd].st = "queued"] /\ "queued" \in CmdStates \ Undecided
    BY <1>8 DEF Retry, CmdStates, Undecided
  <2>5. (\A k \in Jobs : JobFits(k)') /\ (\A c \in Cmds : CmdFits(c)')
    BY <2>1, <2>2, <2>3, <2>4, ModeMoved DEF SameJob
  <2> QED
    BY <2>1, <2>2, <2>3, <2>5, HoldingRows, WorkersStill DEF ModeInv
<1> QED
  BY <1>1, <1>2, <1>3, <1>4, <1>5, <1>6, <1>7, <1>8 DEF User

\* A worker goes on with its job, or leaves it; nobody claims.
LEMMA HoldingWork ==
  ASSUME Typed, NEW w \in Workers, NEW r, wk' = [wk EXCEPT ![w] = r],
         r.job = None \/ (r.job = wk[w].job /\ r.mode = wk[w].mode),
         \A j \in Jobs : jobs'[j].st = "running" => jobs[j].st = "running" /\ jobs'[j].owner = jobs[j].owner
  PROVE  Holding
<1>1. ASSUME NEW v \in Workers PROVE wk'[v] = IF v = w THEN r ELSE wk[v]
  BY DEF Typed, TypeOK
<1>2. \A v \in Workers : wk[v].job \in Jobs \cup {None}
  BY Rows DEF WorkerRow
<1> QED
  BY <1>1, <1>2 DEF Holding, Holds

\* The new job of a pipeline takes a free row, its command too.
LEMMA ContinueFits ==
  ASSUME Typed, ModeInv, mode' = mode, NEW i \in Jobs, jobs[i].st = "running",
         NEW j \in Jobs \ Present, NEW c \in Cmds, cmds[c].st = "none", mode = "sandbox_autopilot",
         NEW a \in Pipeline,
         jobs' = [[jobs EXCEPT ![i].st = "succeeded"] EXCEPT ![j] = [NoJob EXCEPT !.st = "queued", !.cmd = c]],
         cmds' = [[cmds EXCEPT ![jobs[i].cmd].st = "succeeded"]
                      EXCEPT ![c] = [NoCmd EXCEPT !.st = "queued", !.act = a, !.pipe = TRUE]]
  PROVE  (\A k \in Jobs : JobFits(k)') /\ (\A d \in Cmds : CmdFits(d)')
<1> DEFINE b == jobs[i].cmd
<1>1. b \in Cmds /\ cmds[b].st \notin Undecided \cup {"none"} /\ i # j /\ b # c
  BY DEF ModeInv, JobFits, Present, InFlight, Undecided
<1>2. /\ jobs'[i].st = "succeeded" /\ jobs'[i].cmd = b
      /\ jobs'[j].st = "queued" /\ jobs'[j].cmd = c
      /\ \A k \in Jobs \ {i, j} : jobs'[k] = jobs[k]
  BY <1>1, Rows DEF NoJob, Typed, TypeOK, JobRow
<1>3. /\ cmds'[c].st = "queued" /\ cmds'[c].act = a /\ cmds'[c].human = FALSE
      /\ \A d \in Cmds \ {c} : /\ cmds'[d].act = cmds[d].act /\ cmds'[d].human = cmds[d].human
                               /\ cmds'[d].decided = cmds[d].decided
                               /\ cmds'[d].st = IF d = b THEN "succeeded" ELSE cmds[d].st
  BY <1>1, Rows DEF NoCmd, Typed, TypeOK, CmdRow
<1>4. CmdGrows
  <2>1. ASSUME NEW d \in Cmds, cmds[d].st # "none"
        PROVE  /\ cmds'[d].act = cmds[d].act /\ cmds'[d].human = cmds[d].human /\ cmds'[d].decided = cmds[d].decided
               /\ cmds'[d].st = IF d = b THEN "succeeded" ELSE cmds[d].st
    BY <1>3, <2>1
  <2>2. ASSUME NEW d \in Cmds, cmds[d].st # "none"
        PROVE  \/ cmds'[d].st = cmds[d].st
               \/ cmds[d].st \notin Undecided /\ cmds'[d].st \notin Undecided \cup {"none"}
    <3>1. CASE d # b
      BY <2>1, <2>2, <3>1
    <3>2. CASE d = b
      <4>1. cmds'[d].st = "succeeded" /\ cmds[d].st \notin Undecided
        BY <1>1, <2>1, <2>2, <3>2
      <4> QED
        BY <4>1 DEF Undecided
    <3> QED
      BY <3>1, <3>2
  <2> QED
    BY <2>1, <2>2 DEF CmdGrows
<1>5. ASSUME NEW k \in Jobs \ {j} PROVE JobFits(k)'
  BY <1>2, <1>4, JobStill DEF SameJob, Ended, Blocking, InFlight, Pending
<1>6. JobFits(j)'
  BY <1>2, <1>3 DEF JobFits, Undecided, Allowed, NeedsHuman, Pipeline
<1>7. ASSUME NEW d \in Cmds PROVE CmdFits(d)'
  <2>1. CmdFits(d)
    BY DEF ModeInv
  <2>2. CASE d = c
    BY <1>3, <2>2 DEF CmdFits
  <2>3. CASE d # c /\ d # b
    <3>1. cmds'[d] = cmds[d]
      BY <1>1, <2>3, Rows DEF Typed, TypeOK, CmdRow
    <3> QED
      BY <2>1, <3>1 DEF CmdFits
  <2>4. CASE d = b
    <3>1. cmds'[d].human = cmds[d].human /\ cmds'[d].decided = cmds[d].decided
      BY <1>1, <1>3, <2>4
    <3>2. cmds[d].st \notin Undecided \cup {"none"}
      BY <1>1, <2>4
    <3> QED
      BY <2>1, <3>1, <3>2 DEF CmdFits
  <2> QED
    BY <2>2, <2>3, <2>4
<1> QED
  BY <1>5, <1>6, <1>7

LEMMA ModeAttempt ==
  ASSUME Typed, ModeInv, NEW w \in Workers,
         Attempt(w) \/ Overrun(w) \/ DeliverAndDie(w) \/ \E j \in Jobs : StartLost(w, j)
  PROVE  ModeInv'
<1> USE Numbers
<1> DEFINE i == wk[w].job
<1>1. ASSUME NEW j \in Jobs, Claimable(j) PROVE jobs[j].st \in InFlight \cup Pending /\ jobs[j].cmd \in Cmds
  BY <1>1 DEF Claimable, ModeInv, JobFits, InFlight, Pending
<1>2. ASSUME Holds(w) PROVE i \in Jobs /\ jobs[i].st = "running" /\ jobs[i].cmd \in Cmds
  BY <1>2, HeldJob DEF Holds, ModeInv, JobFits
<1>3. ASSUME NEW j \in Jobs, Start(w, j) PROVE ModeInv'
  <2> DEFINE row == [jobs[j] EXCEPT !.st = "running", !.owner = w, !.fresh = TRUE, !.tries = Attempted(j)]
  <2>1. jobs' = [jobs EXCEPT ![j] = row] /\ mode' = mode /\ cmds' = [cmds EXCEPT ![jobs[j].cmd].st = "running"]
        /\ jobs[j].st \in InFlight \cup Pending
    BY <1>1, <1>3 DEF Start
  <2>2. row.st = "running" /\ row.owner = w /\ row.cmd = jobs[j].cmd /\ row.again = jobs[j].again
    BY Rows DEF JobRow
  <2> HIDE DEF row
  <2>3. jobs'[j] = row /\ \A k \in Jobs \ {j} : jobs'[k] = jobs[k]
    BY <2>1 DEF Typed, TypeOK
  <2>4. jobs[j].st # "none" /\ "running" \in CmdStates \ Undecided
    BY <2>1 DEF CmdStates, Undecided, InFlight, Pending
  <2>5. (\A k \in Jobs : JobFits(k)') /\ (\A c \in Cmds : CmdFits(c)')
    BY <2>1, <2>2, <2>3, <2>4, ModeMoved DEF SameJob
  <2>6. /\ wk'[w].mode = mode
        /\ \A v \in Workers \ {w} : wk'[v] = wk[v]
    BY <1>3 DEF Start, Typed, TypeOK
  <2>7. \A v \in Workers : wk[v].job \in Jobs \cup {None}
    BY Rows DEF WorkerRow
  <2>8. ASSUME NEW v \in Workers PROVE WorkerFits(v)'
    BY <2>1, <2>2, <2>3, <2>6, <2>7 DEF WorkerFits, Holds, ModeInv
  <2> QED
    BY <2>5, <2>8 DEF ModeInv
<1>4. ASSUME NEW j \in Jobs, StartRefused(w, j) PROVE ModeInv'
  <2> DEFINE row == [jobs[j] EXCEPT !.st = "failed_recoverable", !.owner = NoWorker, !.tries = Attempted(j)]
  <2>1. jobs' = [jobs EXCEPT ![j] = row] /\ UNCHANGED <<mode, wk>> /\ cmds' = [cmds EXCEPT ![jobs[j].cmd].st = "failed"]
        /\ jobs[j].st \in InFlight \cup Pending
    BY <1>1, <1>4 DEF StartRefused
  <2>2. row.st = "failed_recoverable" /\ row.cmd = jobs[j].cmd /\ row.again = jobs[j].again
    BY Rows DEF JobRow
  <2> HIDE DEF row
  <2>3. jobs'[j] = row /\ \A k \in Jobs \ {j} : jobs'[k] = jobs[k]
    BY <2>1 DEF Typed, TypeOK
  <2>4. jobs[j].st # "none" /\ "failed" \in CmdStates \ Undecided
    BY <2>1 DEF CmdStates, Undecided, InFlight, Pending
  <2>5. (\A k \in Jobs : JobFits(k)') /\ (\A c \in Cmds : CmdFits(c)')
    BY <2>1, <2>2, <2>3, <2>4, ModeMoved DEF SameJob
  <2> QED
    BY <2>1, <2>2, <2>3, <2>5, HoldingRows, WorkersStill DEF ModeInv
<1>5. ASSUME NEW j \in Jobs, StartLost(w, j) PROVE ModeInv'
  <2> DEFINE row == [jobs[j] EXCEPT !.st = "leased", !.owner = NoWorker, !.fresh = TRUE]
  <2>1. jobs' = [jobs EXCEPT ![j] = row] /\ UNCHANGED <<mode, wk, cmds>> /\ jobs[j].st \in InFlight \cup Pending
    BY <1>1, <1>5 DEF StartLost
  <2>2. row.st = "leased" /\ row.cmd = jobs[j].cmd /\ row.again = jobs[j].again
    BY Rows DEF JobRow
  <2> HIDE DEF row
  <2>3. jobs'[j] = row /\ \A k \in Jobs \ {j} : jobs'[k] = jobs[k]
    BY <2>1 DEF Typed, TypeOK
  <2>4. ASSUME NEW k \in Jobs PROVE JobFits(k)'
    BY <2>1, <2>2, <2>3 DEF ModeInv, JobFits, InFlight, Pending, Blocking
  <2>5. \A c \in Cmds : CmdFits(c)'
    BY <2>1 DEF ModeInv, CmdFits
  <2> QED
    BY <2>1, <2>2, <2>3, <2>4, <2>5, HoldingRows, WorkersStill DEF ModeInv
<1>6. ASSUME Heartbeat(w) \/ Overrun(w) PROVE ModeInv'
  <2>1. UNCHANGED <<mode, cmds, wk>>
    BY <1>6 DEF Heartbeat, Overrun
  <2>2. \A j \in Jobs : SameJob(j) /\ jobs'[j].owner = jobs[j].owner
    BY <1>2, <1>6, Rows DEF Heartbeat, Overrun, SameJob, Typed, TypeOK, JobRow
  <2> QED
    BY <2>1, <2>2, HoldingRows, ModeKept DEF SameJob
<1>7. ASSUME LoseLease(w) PROVE ModeInv'
  <2>1. UNCHANGED <<mode, cmds, jobs>> /\ wk' = [wk EXCEPT ![w] = Idle] /\ Idle.job = None
    BY <1>7 DEF LoseLease, Leave, Idle
  <2> QED
    BY <2>1, HoldingWork, ModeKept DEF SameJob
<1>8. ASSUME Ensure(w) PROVE ModeInv'
  <2>1. UNCHANGED <<mode, cmds>>
    BY <1>8 DEF Ensure
  <2>2. \A j \in Jobs : SameJob(j) /\ jobs'[j].owner = jobs[j].owner
    BY <1>2, <1>8, Rows DEF Ensure, SameJob, Typed, TypeOK, JobRow
  <2>3. \A v \in Workers : wk'[v].job = wk[v].job /\ wk'[v].mode = wk[v].mode
    BY <1>8 DEF Ensure, Typed, TypeOK, WorkerRow
  <2>4. \A v \in Workers : wk[v].job \in Jobs \cup {None}
    BY Rows DEF WorkerRow
  <2>5. Holding
    BY <2>2, <2>3, <2>4 DEF Holding, Holds, SameJob
  <2> QED
    BY <2>1, <2>2, <2>5, ModeKept
<1>9. ASSUME Deliver(w) PROVE ModeInv'
  <2>1. UNCHANGED <<mode, cmds, jobs>>
    BY <1>9 DEF Deliver
  <2>2. \A v \in Workers : wk'[v].job = wk[v].job /\ wk'[v].mode = wk[v].mode
    BY <1>9 DEF Deliver, Typed, TypeOK, WorkerRow
  <2> QED
    BY <2>1, <2>2, ModeKept DEF Holding, Holds, SameJob
<1>10. ASSUME DeliverAndDie(w) PROVE ModeInv'
  <2>1. UNCHANGED <<mode, cmds, jobs>> /\ \A v \in Workers : wk'[v].job = None
    BY <1>10 DEF DeliverAndDie, Idle
  <2> QED
    BY <2>1, ModeKept DEF Holding, Holds, SameJob
<1>11. ASSUME NEW st, Fail(w, st) PROVE ModeInv'
  <2>1. UNCHANGED <<mode, cmds, jobs>>
    BY <1>11 DEF Fail
  <2>2. \A v \in Workers : wk'[v].job = wk[v].job /\ wk'[v].mode = wk[v].mode
    BY <1>11 DEF Fail, Typed, TypeOK, WorkerRow
  <2> QED
    BY <2>1, <2>2, ModeKept DEF Holding, Holds, SameJob
<1>12. ASSUME Holds(w), UNCHANGED <<mode>>, Leave(w), NEW r, jobs' = [jobs EXCEPT ![i] = r],
              r.st # "running", r.cmd = jobs[i].cmd, r.again = jobs[i].again,
              NEW st \in CmdStates \ Undecided, cmds' = [cmds EXCEPT ![jobs[i].cmd].st = st]
       PROVE  ModeInv'
  <2>1. i \in Jobs /\ jobs[i].st \in InFlight /\ jobs[i].st # "none"
    BY <1>2, <1>12 DEF InFlight
  <2>2. jobs'[i] = r /\ \A k \in Jobs \ {i} : jobs'[k] = jobs[k]
    BY <1>12, <2>1 DEF Typed, TypeOK
  <2>3. (\A k \in Jobs : JobFits(k)') /\ (\A c \in Cmds : CmdFits(c)')
    BY <1>12, <2>1, <2>2, ModeMoved DEF SameJob
  <2>4. wk' = [wk EXCEPT ![w] = Idle] /\ Idle.job = None
    BY <1>12 DEF Leave, Idle
  <2>5. Holding
    BY <1>12, <2>2, <2>4, HoldingWork
  <2> QED
    BY <1>12, <2>3, <2>5, WorkersStill DEF ModeInv
<1>13. ASSUME Wait(w) PROVE ModeInv'
  <2> DEFINE r == [jobs[i] EXCEPT !.st = "waiting_user"]
  <2>1. Holds(w) /\ jobs' = [jobs EXCEPT ![i] = r] /\ mode' = mode /\ Leave(w)
        /\ cmds' = [cmds EXCEPT ![jobs[i].cmd].st = "approved"]
    BY <1>13 DEF Wait
  <2>2. r.st # "running" /\ r.cmd = jobs[i].cmd /\ r.again = jobs[i].again /\ "approved" \in CmdStates \ Undecided
    BY <1>2, <2>1, Rows DEF JobRow, CmdStates, Undecided
  <2> HIDE DEF r
  <2> QED
    BY <1>12, <2>1, <2>2
<1>14. ASSUME RetryLater(w) PROVE ModeInv'
  <2> DEFINE r == [jobs[i] EXCEPT !.st = "retry_scheduled", !.fresh = TRUE]
  <2>1. Holds(w) /\ jobs' = [jobs EXCEPT ![i] = r] /\ mode' = mode /\ Leave(w)
        /\ cmds' = [cmds EXCEPT ![jobs[i].cmd].st = "queued"]
    BY <1>14 DEF RetryLater
  <2>2. r.st # "running" /\ r.cmd = jobs[i].cmd /\ r.again = jobs[i].again /\ "queued" \in CmdStates \ Undecided
    BY <1>2, <2>1, Rows DEF JobRow, CmdStates, Undecided
  <2> HIDE DEF r
  <2> QED
    BY <1>12, <2>1, <2>2
<1>15. ASSUME FinishFail(w) PROVE ModeInv'
  <2> DEFINE r == [jobs[i] EXCEPT !.st = wk[w].pc]
  <2>1. Holds(w) /\ jobs' = [jobs EXCEPT ![i] = r] /\ mode' = mode /\ Leave(w)
        /\ cmds' = [cmds EXCEPT ![jobs[i].cmd].st = "failed"] /\ wk[w].pc \in {"failed_recoverable", "failed_terminal"}
    BY <1>15 DEF FinishFail
  <2>2. r.st # "running" /\ r.cmd = jobs[i].cmd /\ r.again = jobs[i].again /\ "failed" \in CmdStates \ Undecided
    BY <1>2, <2>1, Rows DEF JobRow, CmdStates, Undecided
  <2> HIDE DEF r
  <2> QED
    BY <1>12, <2>1, <2>2
<1>16. ASSUME Success(w) PROVE ModeInv'
  <2>1. Holds(w) /\ mode' = mode /\ Leave(w)
    BY <1>16 DEF Success
  <2>2. CASE ~Continues(w)
    <3> DEFINE r == [jobs[i] EXCEPT !.st = "succeeded"]
    <3>1. jobs' = [jobs EXCEPT ![i] = r] /\ cmds' = [cmds EXCEPT ![jobs[i].cmd].st = "succeeded"]
      BY <1>16, <2>2 DEF Success
    <3>2. r.st # "running" /\ r.cmd = jobs[i].cmd /\ r.again = jobs[i].again /\ "succeeded" \in CmdStates \ Undecided
      BY <1>2, <2>1, Rows DEF JobRow, CmdStates, Undecided
    <3> HIDE DEF r
    <3> QED
      BY <1>12, <2>1, <3>1, <3>2
  <2>3. CASE Continues(w)
    <3>1. NewJob \in Jobs \ Present /\ NewCmd \in Cmds /\ cmds[NewCmd].st = "none"
      BY <1>16, <2>3, NewJobFree, NewCmdFree DEF Success
    <3>2. wk[w].mode = "sandbox_autopilot" /\ mode = "sandbox_autopilot"
      BY <2>1, <2>3 DEF Continues, ModeInv, WorkerFits
    <3>3. NextAction(Act(i)) \in Pipeline
      BY DEF NextAction, Pipeline
    <3>4. /\ jobs' = [[jobs EXCEPT ![i].st = "succeeded"] EXCEPT ![NewJob] = [NoJob EXCEPT !.st = "queued", !.cmd = NewCmd]]
          /\ cmds' = [[cmds EXCEPT ![jobs[i].cmd].st = "succeeded"]
                 EXCEPT ![NewCmd] = [NoCmd EXCEPT !.st = "queued", !.act = NextAction(Act(i)), !.pipe = TRUE]]
      BY <1>16, <2>3 DEF Success
    <3>5. (\A k \in Jobs : JobFits(k)') /\ (\A d \in Cmds : CmdFits(d)')
      BY <1>2, <2>1, <3>1, <3>2, <3>3, <3>4, ContinueFits
    <3>6. \A k \in Jobs : jobs'[k].st = "running" => jobs'[k] = jobs[k]
      BY <1>2, <2>1, <3>1, <3>4, Rows DEF Typed, TypeOK, JobRow, NoJob
    <3>7. wk' = [wk EXCEPT ![w] = Idle] /\ Idle.job = None
      BY <2>1 DEF Leave, Idle
    <3>8. Holding
      BY <3>6, <3>7, HoldingWork
    <3> QED
      BY <2>1, <3>5, <3>8, WorkersStill DEF ModeInv
  <2> QED
    BY <2>2, <2>3
<1> QED
  BY <1>3, <1>4, <1>5, <1>6, <1>7, <1>8, <1>9, <1>10, <1>11, <1>13, <1>14, <1>15, <1>16 DEF Attempt

LEMMA ModeStep == Typed /\ ModeInv /\ [Next]_vars => ModeInv'
<1> SUFFICES ASSUME Typed, ModeInv, [Next]_vars PROVE ModeInv'
  OBVIOUS
<1>1. CASE User
  BY <1>1, ModeUser
<1>2. ASSUME NEW w \in Workers, Attempt(w) PROVE ModeInv'
  BY <1>2, ModeAttempt
<1>3. ASSUME NEW j \in Jobs, Age(j) PROVE ModeInv'
  <2>1. UNCHANGED <<mode, cmds, wk>>
    BY <1>3 DEF Age
  <2>2. \A k \in Jobs : SameJob(k) /\ jobs'[k].owner = jobs[k].owner
    BY <1>3, Rows DEF Age, SameJob, Typed, TypeOK, JobRow
  <2> QED
    BY <2>1, <2>2, HoldingRows, ModeKept DEF SameJob
<1>4. CASE Faults
  <2>1. CASE Die
    <3>1. UNCHANGED <<mode, cmds, jobs>> /\ \A v \in Workers : wk'[v].job = None
      BY <2>1 DEF Die, Idle
    <3> QED
      BY <3>1, ModeKept DEF Holding, Holds, SameJob
  <2> QED
    BY <1>4, <2>1, ModeAttempt DEF Faults
<1>5. CASE UNCHANGED vars
  BY <1>5, ModeKept DEF vars, Holding, Holds, SameJob
<1> QED
  BY <1>1, <1>2, <1>3, <1>4, <1>5 DEF Next

\* Work that executes fits the autonomy mode of its session.
THEOREM ModeHolds == Spec => []WorkFitsMode
<1>1. ASSUME Typed, ModeInv PROVE WorkFitsMode
  BY <1>1 DEF ModeInv, JobFits, WorkFitsMode, Live, Act, InFlight, Pending, Blocking
<1>2. Typed /\ ModeInv => WorkFitsMode
  BY <1>1
<1> QED
  BY <1>2, TypeInit, TypeStep, ModeInit, ModeStep, PTL DEF Spec

=============================================================================
