-------------------------- MODULE OntocodeBuildsProofs --------------------------
(***************************************************************************)
(* Proofs about the build executions of OntocodeJobs: whose they are, what *)
(* their jobs may expect of them, and the answers sent to their questions. *)
(***************************************************************************)
EXTENDS OntocodeJobsProofs

Active == InFlight \cup Pending

\* A job has an execution only once it exists; the job that created the
\* execution keeps it; and only the jobs of builds have one.
Rooted(j) ==
    /\ jobs[j].st = "none" => jobs[j].exec = None
    /\ jobs[j].exec # None => jobs[jobs[j].exec].exec = jobs[j].exec /\ Act(j) = "generate_package"

ResumesBuild(c) == cmds[c].resumes # None => cmds[c].act = "generate_package"

\* What ExecutionFollows says of one job, and that a job which waits for an
\* answer does not wait for an approval too.
Fits(j) ==
    LET x == execs[jobs[j].exec].st IN
    jobs[j].exec # None =>
        /\ jobs[j].st \in Active => x \in {"running", "resuming"}
        /\ jobs[j].st = "failed_recoverable" => x = "failed_recoverable"
        /\ jobs[j].st = "waiting_user" => x \in {"waiting_user", "resuming"}
        /\ jobs[j].st = "waiting_user" /\ x = "waiting_user" => cmds[jobs[j].cmd].st # "awaiting_approval"

OwnInv ==
    /\ \A j \in Jobs : Rooted(j)
    /\ \A c \in Cmds : ResumesBuild(c)
    /\ OneOwner
    /\ \A j \in Jobs : Fits(j)

\* The answers that are in the mailbox or may still come into it.
Held(w) == [exec |-> jobs[wk[w].job].exec, ask |-> wk[w].ask, answer |-> wk[w].job]
Attached(e) == [exec |-> e, ask |-> execs[e].ask, answer |-> execs[e].answer]

Bound == {w \in Workers : wk[w].pc = "bound"}
Answered == {e \in Jobs : execs[e].answer # None}
Copies == inbox \cup {Held(w) : w \in Bound} \cup {Attached(e) : e \in Answered}

\* A question gets one answer; its number does not come again; and while it is
\* open nobody has answered it.
MailInv ==
    /\ \A x, y \in Copies : x.exec = y.exec /\ x.ask = y.ask => x = y
    /\ \A x \in Copies : x.exec \in Jobs /\ x.ask <= execs[x.exec].asked
    /\ \A e \in Jobs : execs[e].ask <= execs[e].asked
    /\ \A e \in Jobs : execs[e].ask # 0 /\ execs[e].answer = None =>
          \A x \in Copies : ~(x.exec = e /\ x.ask = execs[e].ask)

\* The answer an execution carries is that of the job it belongs to.
AnswerInv ==
    /\ \A j \in Jobs : jobs[j].exec # None /\ jobs[j].st \notin Final =>
          execs[jobs[j].exec].answer \in {None, j}
    /\ \A e \in Jobs : execs[e].answer # None => jobs[e].exec = e
    /\ \A w \in Bound : jobs[wk[w].job].exec # None

BuildInv == OwnInv /\ MailInv /\ AnswerInv /\ DeliveredWasMailed

LEMMA BuildInit == Init => BuildInv
BY Numbers DEF Init, BuildInv, OwnInv, Rooted, ResumesBuild, OneOwner, Fits, MailInv, AnswerInv, DeliveredWasMailed,
   Copies, Bound, Answered, Present, NoJob, NoCmd, NoExec, Idle

-----------------------------------------------------------------------------
(* Steps that give no job an execution                                      *)

\* A job keeps its execution, and its command once it has one.
JobKept(j) ==
    /\ jobs'[j].exec = jobs[j].exec
    /\ jobs'[j].st = jobs[j].st \/ jobs[j].st \notin Final
    /\ jobs[j].st # "none" => jobs'[j].st # "none" /\ jobs'[j].cmd = jobs[j].cmd

JobsKept == \A j \in Jobs : JobKept(j)

CmdKept(c) ==
    IF cmds[c].st = "none"
    THEN ResumesBuild(c)'
    ELSE /\ cmds'[c].act = cmds[c].act /\ cmds'[c].resumes = cmds[c].resumes
         /\ cmds'[c].st = "awaiting_approval" => cmds[c].st = "awaiting_approval"

CmdsKept == \A c \in Cmds : CmdKept(c)

\* A question and its answer stay, or go, or a new question takes their place.
ExecKept(e) ==
    \/ /\ execs'[e].ask = execs[e].ask /\ execs'[e].answer = execs[e].answer
       /\ execs'[e].asked = execs[e].asked
    \/ execs'[e].ask = 0 /\ execs'[e].answer = None /\ execs'[e].asked = execs[e].asked
    \/ /\ execs'[e].ask = execs[e].asked + 1 /\ execs'[e].answer = None
       /\ execs'[e].asked = execs[e].asked + 1

ExecsKept == \A e \in Jobs : ExecKept(e)

SentKept(e) ==
    execs'[e].sent => /\ execs[e].sent
                      /\ execs'[e].ask = execs[e].ask /\ execs'[e].answer = execs[e].answer

WorkersKept ==
    \A w \in Workers : wk'[w].pc = "bound" =>
        wk[w].pc = "bound" /\ wk'[w].job = wk[w].job /\ wk'[w].ask = wk[w].ask

LEMMA CmdsStill == ASSUME OwnInv, UNCHANGED cmds PROVE CmdsKept
BY DEF CmdsKept, CmdKept, OwnInv, ResumesBuild

LEMMA OwnKept ==
  ASSUME Typed, ModeInv, OwnInv, JobsKept, CmdsKept
  PROVE  (\A j \in Jobs : Rooted(j)') /\ (\A c \in Cmds : ResumesBuild(c)') /\ OneOwner'
<1>1. ASSUME NEW j \in Jobs PROVE Rooted(j)'
  <2>1. Rooted(j) /\ JobKept(j)
    BY DEF OwnInv, JobsKept
  <2>2. CASE jobs[j].exec = None
    BY <2>1, <2>2 DEF Rooted, JobKept
  <2>3. CASE jobs[j].exec # None
    <3> DEFINE e == jobs[j].exec
               c == jobs[j].cmd
    <3>1. e \in Jobs /\ jobs[j].st # "none"
      BY <2>1, <2>3, Rows DEF JobRow, Rooted
    <3>2. c \in Cmds /\ cmds[c].st # "none"
      BY <3>1 DEF ModeInv, JobFits
    <3>3. cmds'[c].act = cmds[c].act
      BY <3>2 DEF CmdsKept, CmdKept
    <3>4. jobs'[e].exec = jobs[e].exec
      BY <3>1 DEF JobsKept, JobKept
    <3> QED
      BY <2>1, <2>3, <3>1, <3>3, <3>4 DEF Rooted, JobKept, Act
  <2> QED
    BY <2>2, <2>3
<1>2. ASSUME NEW c \in Cmds PROVE ResumesBuild(c)'
  BY DEF OwnInv, CmdsKept, CmdKept, ResumesBuild
<1>3. OneOwner'
  <2>1. ASSUME NEW j \in Jobs, jobs'[j].exec # None
        PROVE  jobs[j].st # "none" /\ jobs'[j].exec = jobs[j].exec /\ (jobs[j].st \in Final => jobs'[j].st = jobs[j].st)
    BY <2>1 DEF JobsKept, JobKept, OwnInv, Rooted
  <2> QED
    BY <2>1 DEF OwnInv, OneOwner, Present
<1> QED
  BY <1>1, <1>2, <1>3

LEMMA MailKept ==
  ASSUME Typed, MailInv, ExecsKept, Copies' \subseteq Copies
  PROVE  MailInv'
<1>1. ASSUME NEW e \in Jobs PROVE execs[e].ask \in Nat /\ execs[e].asked \in Nat /\ ExecKept(e)
  BY Rows DEF ExecRow, ExecsKept
<1>2. ASSUME NEW x \in Copies PROVE x.ask \in Nat
  <2>1. CASE x \in inbox
    BY <2>1 DEF Typed, TypeOK
  <2>2. ASSUME NEW w \in Bound, x = Held(w) PROVE x.ask \in Nat
    BY <2>2, Rows DEF Held, Bound, WorkerRow
  <2>3. ASSUME NEW e \in Answered, x = Attached(e) PROVE x.ask \in Nat
    BY <1>1, <2>3 DEF Attached, Answered
  <2> QED
    BY <2>1, <2>2, <2>3 DEF Copies
<1>3. \A x, y \in Copies' : x.exec = y.exec /\ x.ask = y.ask => x = y
  BY DEF MailInv
<1>4. ASSUME NEW x \in Copies' PROVE x.exec \in Jobs /\ x.ask <= execs'[x.exec].asked
  <2>1. x.exec \in Jobs /\ x.ask <= execs[x.exec].asked
    BY DEF MailInv
  <2> QED
    BY <1>1, <1>2, <2>1 DEF ExecKept
<1>5. ASSUME NEW e \in Jobs PROVE execs'[e].ask <= execs'[e].asked
  BY <1>1 DEF MailInv, ExecKept
<1>6. ASSUME NEW e \in Jobs, execs'[e].ask # 0, execs'[e].answer = None, NEW x \in Copies',
             x.exec = e, x.ask = execs'[e].ask
      PROVE  FALSE
  <2>1. CASE execs'[e].ask = execs[e].ask /\ execs'[e].answer = execs[e].answer
    BY <1>6, <2>1 DEF MailInv
  <2>2. CASE execs'[e].ask = execs[e].asked + 1
    <3>1. x.ask <= execs[e].asked
      BY <1>6 DEF MailInv
    <3> QED
      BY <1>1, <1>2, <1>6, <2>2, <3>1
  <2> QED
    BY <1>1, <1>6, <2>1, <2>2 DEF ExecKept
<1> QED
  BY <1>3, <1>4, <1>5, <1>6 DEF MailInv

LEMMA AnswerKept ==
  ASSUME Typed, OwnInv, AnswerInv, JobsKept, ExecsKept
  PROVE  /\ \A j \in Jobs : jobs'[j].exec # None /\ jobs'[j].st \notin Final =>
                execs'[jobs'[j].exec].answer \in {None, j}
         /\ \A e \in Jobs : execs'[e].answer # None => jobs'[e].exec = e
<1>1. ASSUME NEW j \in Jobs, jobs'[j].exec # None, jobs'[j].st \notin Final
      PROVE  execs'[jobs'[j].exec].answer \in {None, j}
  <2> DEFINE e == jobs[j].exec
  <2>1. jobs'[j].exec = e /\ e \in Jobs /\ jobs[j].st \notin Final
    BY <1>1, Rows DEF JobsKept, JobKept, JobRow
  <2>2. execs[e].answer \in {None, j}
    BY <1>1, <2>1 DEF AnswerInv
  <2> QED
    BY <2>1, <2>2 DEF ExecsKept, ExecKept
<1>2. ASSUME NEW e \in Jobs, execs'[e].answer # None PROVE jobs'[e].exec = e
  BY <1>2 DEF AnswerInv, JobsKept, JobKept, ExecsKept, ExecKept
<1> QED
  BY <1>1, <1>2

\* An execution whose answer stays is no new copy, nor is a worker's.
LEMMA CopiesKept ==
  ASSUME Typed, AnswerInv, JobsKept, ExecsKept, WorkersKept, inbox' \subseteq Copies
  PROVE  Copies' \subseteq Copies /\ (\A w \in Bound' : jobs'[wk'[w].job].exec # None)
<1>1. ASSUME NEW w \in Bound'
      PROVE  w \in Bound /\ Held(w)' = Held(w) /\ jobs'[wk'[w].job].exec # None
  <2>1. w \in Bound /\ wk'[w].job = wk[w].job /\ wk'[w].ask = wk[w].ask
    BY <1>1 DEF Bound, WorkersKept
  <2>2. wk[w].job \in Jobs
    BY <2>1 DEF Bound, Typed, BusyHasJob
  <2>3. jobs'[wk[w].job].exec = jobs[wk[w].job].exec
    BY <2>2 DEF JobsKept, JobKept
  <2> QED
    BY <2>1, <2>3 DEF Held, AnswerInv
<1>2. ASSUME NEW e \in Answered' PROVE e \in Answered /\ Attached(e)' = Attached(e)
  BY <1>2 DEF Answered, Attached, ExecsKept, ExecKept
<1> QED
  BY <1>1, <1>2 DEF Copies

LEMMA SentStays ==
  ASSUME DeliveredWasMailed, inbox \subseteq inbox', \A e \in Jobs : SentKept(e)
  PROVE  DeliveredWasMailed'
BY DEF DeliveredWasMailed, SentKept

LEMMA BuildKept ==
  ASSUME Typed, ModeInv, BuildInv, JobsKept, CmdsKept, ExecsKept, WorkersKept, UNCHANGED inbox,
         \A e \in Jobs : SentKept(e), \A j \in Jobs : Fits(j)'
  PROVE  BuildInv'
<1> USE DEF BuildInv
<1>1. inbox' \subseteq Copies
  BY DEF Copies
<1> QED
  BY <1>1, OwnKept, MailKept, AnswerKept, CopiesKept, SentStays DEF OwnInv, AnswerInv

-----------------------------------------------------------------------------
(* What the jobs may expect of their executions                             *)

\* A job that changes nothing, and whose execution keeps its status.
LEMMA FitsStill ==
  ASSUME ModeInv, OwnInv, CmdsKept, NEW j \in Jobs, JobKept(j), jobs'[j].st = jobs[j].st \/ jobs'[j].st \in Final,
         execs'[jobs[j].exec].st = execs[jobs[j].exec].st
  PROVE  Fits(j)'
<1>1. CASE jobs'[j].st \in Final \/ jobs[j].exec = None
  BY <1>1 DEF JobKept, Fits, Final, Active, InFlight, Pending
<1>2. CASE jobs'[j].st = jobs[j].st /\ jobs[j].exec # None
  <2> DEFINE c == jobs[j].cmd
  <2>1. Fits(j) /\ jobs[j].st # "none"
    BY <1>2 DEF OwnInv, Rooted
  <2>2. c \in Cmds /\ cmds[c].st # "none" /\ jobs'[j].cmd = c
    BY <2>1 DEF ModeInv, JobFits, JobKept
  <2>3. cmds'[c].st = "awaiting_approval" => cmds[c].st = "awaiting_approval"
    BY <2>2 DEF CmdsKept, CmdKept
  <2> QED
    BY <1>2, <2>1, <2>2, <2>3 DEF JobKept, Fits
<1> QED
  BY <1>1, <1>2

\* No execution changes its status: jobs end, go on, or are approved.
LEMMA FitsQuiet ==
  ASSUME Typed, ModeInv, OwnInv, CmdsKept, JobsKept, \A e \in Jobs : execs'[e].st = execs[e].st,
         \A j \in Jobs : jobs[j].exec # None =>
             \/ jobs'[j].st = jobs[j].st
             \/ jobs'[j].st \in Final
             \/ jobs'[j].st \in Active /\ execs[jobs[j].exec].st \in {"running", "resuming"}
  PROVE  \A j \in Jobs : Fits(j)'
<1> SUFFICES ASSUME NEW j \in Jobs PROVE Fits(j)'
  OBVIOUS
<1> DEFINE e == jobs[j].exec
<1>1. JobKept(j) /\ e \in Jobs \cup {None}
  BY Rows DEF JobsKept, JobRow
<1>2. CASE e = None
  BY <1>1, <1>2 DEF Fits, JobKept
<1>3. CASE e # None /\ (jobs'[j].st = jobs[j].st \/ jobs'[j].st \in Final)
  BY <1>1, <1>3, FitsStill
<1>4. CASE e # None /\ jobs'[j].st \in Active /\ execs[e].st \in {"running", "resuming"}
  BY <1>1, <1>4 DEF Fits, JobKept, Active, InFlight, Pending
<1> QED
  BY <1>2, <1>3, <1>4

\* One job moves together with the execution it has, if it has one.
LEMMA FitsOwned ==
  ASSUME Typed, ModeInv, OwnInv, CmdsKept, JobsKept, NEW i \in Jobs, jobs[i].st \notin Final, Fits(i)',
         \A e \in Jobs \ {jobs[i].exec} : execs'[e].st = execs[e].st,
         \A j \in Jobs \ {i} : jobs[j].exec = None \/ jobs'[j].st = jobs[j].st
  PROVE  \A j \in Jobs : Fits(j)'
<1> SUFFICES ASSUME NEW j \in Jobs PROVE Fits(j)'
  OBVIOUS
<1> DEFINE e == jobs[j].exec
<1>1. JobKept(j) /\ e \in Jobs \cup {None}
  BY Rows DEF JobsKept, JobRow
<1>2. CASE e = None
  BY <1>1, <1>2 DEF Fits, JobKept
<1>3. CASE j # i /\ e # None /\ e # jobs[i].exec
  BY <1>1, <1>3, FitsStill
<1>4. CASE j # i /\ e # None /\ e = jobs[i].exec
  <2>1. jobs[j].st # "none" /\ jobs[i].st # "none"
    BY <1>4 DEF OwnInv, Rooted
  <2>2. jobs[j].st \in Final
    BY <1>4, <2>1 DEF OwnInv, OneOwner, Present
  <2>3. jobs'[j].st \in Final
    BY <1>4, <2>2
  <2> QED
    BY <2>3 DEF Fits, Final, Active, InFlight, Pending
<1> QED
  BY <1>2, <1>3, <1>4

-----------------------------------------------------------------------------
(* A job takes an execution over                                            *)

LEMMA Taken ==
  ASSUME Typed, ModeInv, BuildInv, CmdsKept, NEW p \in Jobs, Answerable(p), NEW j \in Jobs \ Present, NEW new \in JobRow,
         Attach(p, j, new), new.st \in {"queued", "waiting_user"}, new.cmd \in Cmds,
         cmds'[new.cmd].act = "generate_package", UNCHANGED <<inbox, wk>>
  PROVE  BuildInv'
<1> DEFINE e == jobs[p].exec
<1>1. /\ e \in Jobs /\ e # None /\ jobs[p].st = "waiting_user"
      /\ execs[e].ask # 0 /\ execs[e].answer = None
  BY Rows DEF Answerable, JobRow
<1>2. jobs[j].st = "none" /\ jobs[j].exec = None /\ j # p /\ j # e /\ jobs[e].exec = e
  BY <1>1 DEF Present, BuildInv, OwnInv, Rooted
<1>3. /\ jobs'[j].exec = e /\ jobs'[j].st = new.st /\ jobs'[j].cmd = new.cmd
      /\ jobs'[p].exec = e /\ jobs'[p].st = "cancelled" /\ jobs'[p].cmd = jobs[p].cmd
      /\ \A k \in Jobs \ {j, p} : jobs'[k] = jobs[k]
  <2> DEFINE r == [new EXCEPT !.exec = e]
  <2>1. jobs' = [jobs EXCEPT ![j] = r, ![p].st = "cancelled"]
    BY <1>1, Numbers DEF Attach
  <2>2. r.exec = e /\ r.st = new.st /\ r.cmd = new.cmd
    BY DEF JobRow
  <2> HIDE DEF r
  <2>3. jobs[p] \in JobRow
    BY Rows
  <2> QED
    BY <1>2, <2>1, <2>2, <2>3 DEF Typed, TypeOK, JobRow
<1>4. /\ execs'[e].st = "resuming" /\ execs'[e].answer = j /\ execs'[e].sent = FALSE
      /\ execs'[e].ask = execs[e].ask /\ execs'[e].asked = execs[e].asked
      /\ \A d \in Jobs \ {e} : execs'[d] = execs[d]
  <2>1. execs' = [execs EXCEPT ![e].st = "resuming", ![e].answer = j, ![e].sent = FALSE]
    BY <1>1, Numbers DEF Attach
  <2>2. execs[e] \in ExecRow
    BY <1>1, Rows
  <2> QED
    BY <1>1, <2>1, <2>2 DEF Typed, TypeOK, ExecRow
<1>5. ASSUME NEW k \in Jobs \ {j}
      PROVE  JobKept(k) /\ (jobs'[k].st = jobs[k].st \/ jobs'[k].st \in Final)
  BY <1>1, <1>3 DEF JobKept, Final
<1>6. ASSUME NEW k \in Jobs PROVE Rooted(k)'
  <2>1. CASE k = j
    BY <1>1, <1>2, <1>3, <1>5, <2>1 DEF Rooted, Act, JobKept
  <2>2. CASE k # j /\ jobs[k].exec = None
    BY <1>5, <2>2 DEF JobKept, Rooted
  <2>3. CASE k # j /\ jobs[k].exec # None
    <3> DEFINE d == jobs[k].exec
               c == jobs[k].cmd
    <3>1. d \in Jobs /\ jobs[k].st # "none" /\ jobs[d].exec = d /\ Act(k) = "generate_package"
      BY <2>3, Rows DEF JobRow, BuildInv, OwnInv, Rooted
    <3>2. c \in Cmds /\ cmds[c].st # "none"
      BY <3>1 DEF ModeInv, JobFits
    <3>3. cmds'[c].act = cmds[c].act /\ jobs'[d].exec = d
      BY <1>2, <1>5, <2>3, <3>1, <3>2 DEF CmdsKept, CmdKept, JobKept
    <3> QED
      BY <1>5, <2>3, <3>1, <3>3 DEF Rooted, JobKept, Act
  <2> QED
    BY <2>1, <2>2, <2>3
<1>7. ASSUME NEW k \in Jobs \ {j}, jobs[k].exec = e PROVE jobs'[k].st \in Final
  <2>1. jobs[k].st # "none" /\ jobs[p].st # "none"
    BY <1>1, <1>7 DEF BuildInv, OwnInv, Rooted
  <2>2. k # p => jobs[k].st \in Final
    BY <1>1, <1>7, <2>1 DEF BuildInv, OwnInv, OneOwner, Present, Final
  <2> QED
    BY <1>3, <2>2 DEF Final
<1>8. OneOwner'
  <2> SUFFICES ASSUME NEW k \in Jobs, NEW l \in Jobs, k # l, jobs'[k].exec = jobs'[l].exec, jobs'[k].exec # None,
                      jobs'[k].st \notin Final, jobs'[l].st \notin Final
               PROVE  FALSE
    BY DEF OneOwner, Present
  <2>1. k # j /\ l # j
    BY <1>3, <1>5, <1>7 DEF JobKept
  <2>2. /\ jobs[k].exec = jobs[l].exec /\ jobs[k].exec # None
        /\ jobs[k].st \notin Final /\ jobs[l].st \notin Final
    BY <1>5, <2>1 DEF JobKept
  <2>3. jobs[k].st # "none" /\ jobs[l].st # "none"
    BY <2>2 DEF BuildInv, OwnInv, Rooted
  <2> QED
    BY <2>2, <2>3 DEF BuildInv, OwnInv, OneOwner, Present
<1>9. ASSUME NEW k \in Jobs PROVE Fits(k)'
  <2>1. CASE k = j
    BY <1>3, <1>4, <2>1 DEF Fits, Active, InFlight, Pending
  <2>2. CASE k # j /\ jobs[k].exec \in {e, None}
    BY <1>5, <1>7, <2>2 DEF Fits, JobKept, Final, Active, InFlight, Pending
  <2>3. CASE k # j /\ jobs[k].exec \notin {e, None}
    <3>1. execs'[jobs[k].exec].st = execs[jobs[k].exec].st
      BY <1>4, <2>3, Rows DEF JobRow
    <3> QED
      BY <1>5, <2>3, <3>1, FitsStill DEF BuildInv
  <2> QED
    BY <2>1, <2>2, <2>3
<1>10. OwnInv'
  BY <1>6, <1>8, <1>9 DEF OwnInv, BuildInv, CmdsKept, CmdKept, ResumesBuild
<1> DEFINE m == [exec |-> e, ask |-> execs[e].ask, answer |-> j]
<1>11. Copies' \subseteq Copies \cup {m} /\ (\A w \in Bound' : jobs'[wk'[w].job].exec # None)
  <2>1. ASSUME NEW w \in Bound'
        PROVE  w \in Bound /\ Held(w)' = Held(w) /\ jobs'[wk'[w].job].exec # None
    <3>1. w \in Bound /\ wk' = wk
      BY <2>1 DEF Bound
    <3>2. wk[w].job \in Jobs /\ jobs[wk[w].job].exec # None
      BY <3>1 DEF Bound, Typed, BusyHasJob, BuildInv, AnswerInv
    <3>3. jobs'[wk[w].job].exec = jobs[wk[w].job].exec
      BY <1>2, <1>5, <3>2 DEF JobKept
    <3> QED
      BY <3>1, <3>2, <3>3 DEF Held
  <2>2. ASSUME NEW d \in Answered' PROVE Attached(d)' \in Copies \cup {m}
    BY <1>4, <2>2 DEF Answered, Attached, Copies
  <2> QED
    BY <2>1, <2>2 DEF Copies
<1>12. ASSUME NEW d \in Jobs PROVE execs'[d].ask = execs[d].ask /\ execs'[d].asked = execs[d].asked
  BY <1>4
<1>13. MailInv'
  <2>1. \A x, y \in Copies' : x.exec = y.exec /\ x.ask = y.ask => x = y
    BY <1>1, <1>11 DEF BuildInv, MailInv
  <2>2. \A x \in Copies' : x.exec \in Jobs /\ x.ask <= execs'[x.exec].asked
    BY <1>1, <1>11, <1>12 DEF BuildInv, MailInv
  <2>3. \A d \in Jobs : execs'[d].ask <= execs'[d].asked
    BY <1>12 DEF BuildInv, MailInv
  <2>4. ASSUME NEW d \in Jobs, execs'[d].ask # 0, execs'[d].answer = None, NEW x \in Copies'
        PROVE  ~(x.exec = d /\ x.ask = execs'[d].ask)
    <3>1. d # e
      BY <1>4, <2>4, Numbers
    <3> QED
      BY <1>4, <1>11, <2>4, <3>1 DEF BuildInv, MailInv
  <2> QED
    BY <2>1, <2>2, <2>3, <2>4 DEF MailInv
<1>14. AnswerInv'
  <2>1. ASSUME NEW k \in Jobs, jobs'[k].exec # None, jobs'[k].st \notin Final
        PROVE  execs'[jobs'[k].exec].answer \in {None, k}
    <3>1. CASE k = j
      BY <1>3, <1>4, <3>1
    <3>2. CASE k # j
      <4>1. jobs'[k].exec = jobs[k].exec /\ jobs[k].exec # e /\ jobs[k].st \notin Final
        BY <1>5, <1>7, <2>1, <3>2 DEF JobKept
      <4>2. jobs[k].exec \in Jobs
        BY <2>1, <4>1, Rows DEF JobRow
      <4> QED
        BY <1>4, <2>1, <4>1, <4>2 DEF BuildInv, AnswerInv
    <3> QED
      BY <3>1, <3>2
  <2>2. ASSUME NEW d \in Jobs, execs'[d].answer # None PROVE jobs'[d].exec = d
    <3>1. d = e \/ execs[d].answer # None
      BY <1>4, <2>2
    <3>2. jobs[d].exec = d
      BY <1>2, <3>1 DEF BuildInv, AnswerInv
    <3> QED
      BY <1>2, <1>5, <3>2, Numbers DEF JobKept
  <2> QED
    BY <1>11, <2>1, <2>2 DEF AnswerInv
<1>15. DeliveredWasMailed'
  BY <1>4 DEF BuildInv, DeliveredWasMailed
<1> QED
  BY <1>10, <1>13, <1>14, <1>15 DEF BuildInv

-----------------------------------------------------------------------------
(* What the user does                                                       *)

LEMMA NewCommand ==
  ASSUME Typed, OwnInv, NEW c \in Cmds, cmds[c].st = "none", NEW r, cmds' = [cmds EXCEPT ![c] = r],
         r.resumes # None => r.act = "generate_package"
  PROVE  CmdsKept
BY DEF CmdsKept, CmdKept, OwnInv, ResumesBuild, Typed, TypeOK

LEMMA CmdMoved ==
  ASSUME Typed, OwnInv, NEW c, NEW st, st # "awaiting_approval", cmds' = [cmds EXCEPT ![c].st = st]
  PROVE  CmdsKept
<1>1. ASSUME NEW d \in Cmds
      PROVE  /\ cmds'[d].act = cmds[d].act /\ cmds'[d].resumes = cmds[d].resumes
             /\ cmds'[d].st \in {cmds[d].st, st}
  BY Rows DEF Typed, TypeOK, CmdRow
<1> QED
  BY <1>1 DEF CmdsKept, CmdKept, OwnInv, ResumesBuild

LEMMA ExecsStill == ASSUME UNCHANGED execs PROVE ExecsKept /\ \A e \in Jobs : SentKept(e)
BY DEF ExecsKept, ExecKept, SentKept

LEMMA WorkersSame == ASSUME UNCHANGED wk PROVE WorkersKept
BY DEF WorkersKept

\* A step that leaves the executions alone.
LEMMA QuietKept ==
  ASSUME Typed, ModeInv, BuildInv, JobsKept, CmdsKept, WorkersKept, UNCHANGED <<execs, inbox>>,
         \A j \in Jobs : jobs[j].exec # None =>
             \/ jobs'[j].st = jobs[j].st
             \/ jobs'[j].st \in Final
             \/ jobs'[j].st \in Active /\ execs[jobs[j].exec].st \in {"running", "resuming"}
  PROVE  BuildInv'
BY BuildKept, ExecsStill, FitsQuiet DEF BuildInv

\* A new job without an execution.
LEMMA Created ==
  ASSUME Typed, ModeInv, BuildInv, CmdsKept, NEW j \in Jobs \ Present, NEW new, jobs' = [jobs EXCEPT ![j] = new],
         new.exec = None, UNCHANGED <<execs, inbox, wk>>
  PROVE  BuildInv'
<1>1. jobs[j].st = "none" /\ jobs[j].exec = None
  BY DEF Present, BuildInv, OwnInv, Rooted
<1>2. jobs'[j] = new /\ \A k \in Jobs \ {j} : jobs'[k] = jobs[k]
  BY DEF Typed, TypeOK
<1>3. JobsKept
  BY <1>1, <1>2 DEF JobsKept, JobKept, Final
<1> QED
  BY <1>1, <1>2, <1>3, QuietKept, WorkersSame

LEMMA BuildUser ==
  ASSUME Typed, ModeInv, BuildInv, User
  PROVE  BuildInv'
<1> USE Numbers
<1>1. CASE UNCHANGED <<cmds, jobs, execs, inbox, wk>>
  <2>1. JobsKept /\ CmdsKept
    BY <1>1, CmdsStill DEF JobsKept, JobKept, BuildInv
  <2> QED
    BY <1>1, <2>1, QuietKept, WorkersSame
<1>2. ASSUME NEW a \in plan.acts, NEW p \in Jobs \cup {None}, NEW pipe \in BOOLEAN, Turn(a, p, pipe) PROVE BuildInv'
  <2> DEFINE human == NeedsHuman(mode, a)
             new == [NoJob EXCEPT !.st = IF human THEN "waiting_user" ELSE "queued", !.cmd = NewCmd]
             cmd == Command(a, IF human THEN "awaiting_approval" ELSE "queued", p, pipe)
  <2>1. NewJob \in Jobs \ Present /\ NewCmd \in Cmds /\ cmds[NewCmd].st = "none" /\ p \in Resumable(a)
    BY <1>2, NewJobFree, NewCmdFree DEF Turn, MayAsk, WithinPlan
  <2>2. new \in JobRow /\ new.st \in {"queued", "waiting_user"} /\ new.cmd = NewCmd /\ new.exec = None
    BY <2>1, Blank DEF JobRow, JobStates, NoJob
  <2>3. cmds' = [cmds EXCEPT ![NewCmd] = cmd] /\ Attach(p, NewJob, new) /\ UNCHANGED <<inbox, wk>>
    BY <1>2 DEF Turn
  <2>4. cmd.act = a /\ cmd.resumes = p
    BY DEF Command
  <2>5. p # None => a = "generate_package" /\ Answerable(p)
    BY <2>1 DEF Resumable
  <2> HIDE DEF new, cmd, human
  <2>6. CmdsKept /\ cmds'[NewCmd] = cmd
    BY <2>1, <2>3, <2>4, <2>5, NewCommand DEF BuildInv, Typed, TypeOK
  <2>7. CASE p = None
    BY <2>1, <2>2, <2>3, <2>6, <2>7, Created DEF Attach
  <2>8. CASE p # None
    BY <2>1, <2>2, <2>3, <2>4, <2>5, <2>6, <2>8, Taken
  <2> QED
    BY <2>7, <2>8
<1>3. ASSUME NEW a \in plan.acts, NEW p \in Jobs \cup {None}, CreateCommand(a, p) PROVE BuildInv'
  <2> DEFINE cmd == Command(a, IF NeedsHuman(mode, a) THEN "awaiting_approval" ELSE "approved", p, FALSE)
  <2>1. NewCmd \in Cmds /\ cmds[NewCmd].st = "none" /\ (p # None => a = "generate_package")
    BY <1>3, NewCmdFree DEF CreateCommand, MayAsk, WithinPlan, Resumable
  <2>2. cmds' = [cmds EXCEPT ![NewCmd] = cmd] /\ UNCHANGED <<jobs, execs, inbox, wk>>
    BY <1>3 DEF CreateCommand
  <2>3. cmd.act = a /\ cmd.resumes = p
    BY DEF Command
  <2> HIDE DEF cmd
  <2>4. CmdsKept /\ JobsKept
    BY <2>1, <2>2, <2>3, NewCommand DEF BuildInv, JobsKept, JobKept
  <2> QED
    BY <2>2, <2>4, QuietKept, WorkersSame
<1>4. ASSUME NEW c \in Cmds, PostJob(c) PROVE BuildInv'
  <2> DEFINE new == [NoJob EXCEPT !.st = "queued", !.cmd = c]
             p == cmds[c].resumes
  <2>1. NewJob \in Jobs \ Present /\ p \in Jobs \cup {None}
    BY <1>4, NewJobFree, Rows DEF PostJob, CmdRow
  <2>2. new \in JobRow /\ new.st = "queued" /\ new.cmd = c /\ new.exec = None
    BY Blank DEF JobRow, JobStates, NoJob
  <2>3. /\ cmds' = [cmds EXCEPT ![c].st = "queued"] /\ Attach(p, NewJob, new) /\ UNCHANGED <<inbox, wk>>
        /\ cmds[c].st = "approved" /\ (p # None => Answerable(p))
    BY <1>4 DEF PostJob, Executable
  <2>4. CmdsKept
    BY <2>3, CmdMoved DEF BuildInv
  <2>5. p # None => cmds'[c].act = "generate_package"
    BY <2>3, <2>4 DEF BuildInv, OwnInv, ResumesBuild, CmdsKept, CmdKept
  <2> HIDE DEF new, p
  <2>6. CASE p = None
    BY <2>1, <2>2, <2>3, <2>4, <2>6, Created DEF Attach
  <2>7. CASE p # None
    BY <2>1, <2>2, <2>3, <2>4, <2>5, <2>7, Taken
  <2> QED
    BY <2>6, <2>7
<1>5. ASSUME NEW c \in Cmds, NEW approve \in BOOLEAN, Decide(c, approve) PROVE BuildInv'
  <2> DEFINE linked == {j \in Jobs : jobs[j].cmd = c /\ jobs[j].st = "waiting_user"}
  <2>1. cmds[c].st = "awaiting_approval" /\ UNCHANGED <<execs, inbox, wk>>
    BY <1>5 DEF Decide
  <2>2. \A d \in Cmds : /\ cmds'[d].act = cmds[d].act /\ cmds'[d].resumes = cmds[d].resumes
                        /\ cmds'[d].st = IF d = c THEN (IF approve THEN "approved" ELSE "rejected") ELSE cmds[d].st
    BY <1>5, Rows DEF Decide, Typed, TypeOK, CmdRow
  <2>3. CmdsKept
    BY <2>2 DEF CmdsKept, CmdKept, BuildInv, OwnInv, ResumesBuild
  <2>4. ASSUME NEW j \in Jobs
        PROVE  /\ jobs'[j].cmd = jobs[j].cmd /\ jobs'[j].exec = jobs[j].exec
               /\ jobs'[j].st = IF j \in linked THEN (IF approve THEN "queued" ELSE "cancelled") ELSE jobs[j].st
    BY <1>5, Rows DEF Decide, JobRow
  <2>5. JobsKept
    BY <2>4 DEF JobsKept, JobKept, Final
  <2>6. ASSUME NEW j \in linked, jobs[j].exec # None PROVE execs[jobs[j].exec].st \in {"running", "resuming"}
    BY <2>1, <2>6 DEF BuildInv, OwnInv, Fits
  <2> QED
    BY <2>1, <2>3, <2>4, <2>5, <2>6, QuietKept, WorkersSame DEF Final, Active, Pending
<1>6. ASSUME NEW S, Cancel(S) PROVE BuildInv'
  <2> DEFINE victims == S \cap Live(InFlight \cup Pending)
             bound == {jobs[j].exec : j \in victims}
  <2>1. UNCHANGED <<cmds, inbox, wk>>
    BY <1>6 DEF Cancel
  <2>2. ASSUME NEW j \in Jobs
        PROVE  /\ jobs'[j].exec = jobs[j].exec /\ jobs'[j].cmd = jobs[j].cmd
               /\ jobs'[j].st = IF j \in victims THEN "cancelled" ELSE jobs[j].st
               /\ j \in victims => jobs[j].st \in Active
    BY <1>6, Rows DEF Cancel, JobRow, Live, Active
  <2>3. ASSUME NEW e \in Jobs
        PROVE  IF e \in bound
               THEN /\ execs'[e].st = "cancelled" /\ execs'[e].ask = 0 /\ execs'[e].answer = None
                    /\ execs'[e].asked = execs[e].asked /\ execs'[e].sent = FALSE
               ELSE execs'[e] = execs[e]
    BY <1>6 DEF Cancel, NoExec
  <2>4. JobsKept
    BY <2>2 DEF JobsKept, JobKept, Final, Active, InFlight, Pending
  <2>5. CmdsKept
    BY <2>1, CmdsStill DEF BuildInv
  <2>6. ExecsKept /\ \A e \in Jobs : SentKept(e)
    BY <2>3 DEF ExecsKept, ExecKept, SentKept
  <2>7. ASSUME NEW j \in Jobs PROVE Fits(j)'
    <3>1. CASE j \in victims \/ jobs[j].exec = None
      BY <2>2, <3>1 DEF Fits, Active, InFlight, Pending
    <3>2. CASE j \notin victims /\ jobs[j].exec # None /\ jobs[j].exec \notin bound
      <4>1. execs'[jobs[j].exec] = execs[jobs[j].exec]
        BY <2>3, <3>2, Rows DEF JobRow
      <4> QED
        BY <2>2, <2>4, <2>5, <3>2, <4>1, FitsStill DEF BuildInv, JobsKept
    <3>3. CASE j \notin victims /\ jobs[j].exec # None /\ jobs[j].exec \in bound
      <4>1. PICK k \in victims : jobs[k].exec = jobs[j].exec
        BY <3>3
      <4>2. k \in Jobs /\ jobs[k].st \notin Final
        BY <2>2, <4>1 DEF Live, Final, Active, InFlight, Pending
      <4>3. jobs[j].st # "none" /\ jobs[k].st # "none"
        BY <3>3, <4>1, <4>2 DEF BuildInv, OwnInv, Rooted
      <4>4. jobs[j].st \in Final
        BY <3>3, <4>1, <4>2, <4>3 DEF BuildInv, OwnInv, OneOwner, Present
      <4> QED
        BY <2>2, <3>3, <4>4 DEF Fits, Final, Active, InFlight, Pending
    <3> QED
      BY <3>1, <3>2, <3>3
  <2> QED
    BY <2>1, <2>4, <2>5, <2>6, <2>7, BuildKept, WorkersSame
<1>7. ASSUME NEW j \in Jobs, Retry(j) PROVE BuildInv'
  <2> DEFINE e == jobs[j].exec
  <2>1. jobs[j].st = "failed_recoverable" /\ UNCHANGED <<inbox, wk>>
    BY <1>7 DEF Retry
  <2>2. /\ jobs'[j].cmd = jobs[j].cmd /\ jobs'[j].exec = e /\ jobs'[j].st = "retry_scheduled"
        /\ \A k \in Jobs \ {j} : jobs'[k] = jobs[k]
    BY <1>7, Rows DEF Retry, Typed, TypeOK, JobRow
  <2>3. CmdsKept
    BY <1>7, CmdMoved DEF Retry, BuildInv
  <2>4. execs' = IF e = None THEN execs ELSE [execs EXCEPT ![e].st = "resuming"]
    BY <1>7 DEF Retry
  <2>5. ASSUME NEW d \in Jobs
        PROVE  /\ execs'[d].ask = execs[d].ask /\ execs'[d].asked = execs[d].asked
               /\ execs'[d].answer = execs[d].answer /\ execs'[d].sent = execs[d].sent
               /\ execs'[d].st = IF d = e THEN "resuming" ELSE execs[d].st
    BY <2>4, Rows DEF Typed, TypeOK, ExecRow
  <2>6. JobsKept /\ ExecsKept /\ \A d \in Jobs : SentKept(d)
    BY <2>1, <2>2, <2>5 DEF JobsKept, JobKept, ExecsKept, ExecKept, SentKept, Final
  <2>7. Fits(j)'
    <3>1. e \in Jobs \cup {None}
      BY Rows DEF JobRow
    <3> QED
      BY <2>2, <2>5, <3>1 DEF Fits, Active, Pending
  <2>8. \A k \in Jobs : Fits(k)'
    BY <2>1, <2>2, <2>3, <2>5, <2>6, <2>7, FitsOwned DEF BuildInv, Final
  <2> QED
    BY <2>1, <2>3, <2>6, <2>8, BuildKept, WorkersSame
<1>8. ASSUME NEW m \in Modes, UpdateMode(m) PROVE BuildInv'
  BY <1>1, <1>8 DEF UpdateMode
<1>9. CASE Talk \/ Close
  BY <1>1, <1>9 DEF Talk, Close
<1> QED
  BY <1>2, <1>3, <1>4, <1>5, <1>6, <1>7, <1>8, <1>9 DEF User

-----------------------------------------------------------------------------
(* What the workers do                                                      *)

\* What projectOntoCodeBuildExecution may make of an execution.
Outcome(x, y) ==
    \/ /\ x.ask = y.ask /\ x.answer = y.answer /\ x.asked = y.asked
       /\ x.sent => y.sent
    \/ x.ask = 0 /\ x.answer = None /\ x.asked = y.asked /\ x.sent = FALSE
    \/ x.ask = y.asked + 1 /\ x.answer = None /\ x.asked = y.asked + 1 /\ x.sent = FALSE

LEMMA Projected ==
  ASSUME Typed, NEW i \in Jobs, NEW x, Outcome(x, Exec(i)), execs' = Project(i, x)
  PROVE  /\ ExecsKept /\ \A e \in Jobs : SentKept(e)
         /\ \A e \in Jobs \ {jobs[i].exec} : execs'[e].st = execs[e].st
         /\ jobs[i].exec # None => execs'[jobs[i].exec].st = x.st
<1> DEFINE e == jobs[i].exec
<1>1. e \in Jobs \cup {None}
  BY Rows DEF JobRow
<1>2. CASE e = None
  BY <1>2, Numbers, ExecsStill DEF Project
<1>3. CASE e # None
  <2>1. execs'[e] = x /\ Outcome(x, execs[e]) /\ \A d \in Jobs \ {e} : execs'[d] = execs[d]
    BY <1>1, <1>3 DEF Project, Exec, Typed, TypeOK
  <2>2. ASSUME NEW d \in Jobs PROVE ExecKept(d) /\ SentKept(d)
    BY <2>1 DEF ExecKept, SentKept, Outcome
  <2> QED
    BY <2>1, <2>2 DEF ExecsKept
<1> QED
  BY <1>2, <1>3

\* The holder of a job writes the job's end, its command's and its execution's.
LEMMA Written ==
  ASSUME Typed, ModeInv, BuildInv, NEW i \in Jobs, jobs[i].st = "running", CmdsKept, JobsKept, WorkersKept,
         UNCHANGED inbox, NEW x, Outcome(x, Exec(i)), execs' = Project(i, x),
         \A j \in Jobs \ {i} : jobs[j].exec = None \/ jobs'[j].st = jobs[j].st,
         jobs'[i].st \in Active => x.st \in {"running", "resuming"},
         jobs'[i].st = "failed_recoverable" => x.st = "failed_recoverable",
         jobs'[i].st = "waiting_user" => x.st = "waiting_user" /\ cmds'[jobs'[i].cmd].st # "awaiting_approval"
  PROVE  BuildInv'
<1>1. /\ ExecsKept /\ \A e \in Jobs : SentKept(e)
      /\ \A e \in Jobs \ {jobs[i].exec} : execs'[e].st = execs[e].st
      /\ jobs[i].exec # None => execs'[jobs[i].exec].st = x.st
  BY Projected
<1>2. jobs'[i].exec = jobs[i].exec
  BY DEF JobsKept, JobKept
<1>3. Fits(i)'
  BY <1>1, <1>2 DEF Fits
<1>4. jobs[i].st \notin Final /\ OwnInv
  BY DEF Final, BuildInv
<1>5. \A j \in Jobs : Fits(j)'
  BY <1>1, <1>3, <1>4, FitsOwned
<1> QED
  BY <1>1, <1>5, BuildKept

LEMMA Reported ==
  ASSUME Typed, ModeInv, BuildInv, NEW w \in Workers, Holds(w), Leave(w), CmdsKept, JobsKept, UNCHANGED inbox,
         NEW x, Outcome(x, Exec(wk[w].job)), execs' = Project(wk[w].job, x),
         \A j \in Jobs \ {wk[w].job} : jobs[j].exec = None \/ jobs'[j].st = jobs[j].st,
         jobs'[wk[w].job].st \in Active => x.st \in {"running", "resuming"},
         jobs'[wk[w].job].st = "failed_recoverable" => x.st = "failed_recoverable",
         jobs'[wk[w].job].st = "waiting_user" =>
             x.st = "waiting_user" /\ cmds'[jobs'[wk[w].job].cmd].st # "awaiting_approval"
  PROVE  BuildInv'
<1>1. wk[w].job \in Jobs /\ jobs[wk[w].job].st = "running"
  BY HeldJob DEF Holds
<1>2. WorkersKept
  BY DEF Leave, Idle, WorkersKept, Typed, TypeOK
<1> QED
  BY <1>1, <1>2, Written

\* A job that is held moves, and its row keeps what it is.
LEMMA HeldMoves ==
  ASSUME Typed, NEW w \in Workers, Holds(w), NEW r, jobs' = [jobs EXCEPT ![wk[w].job] = r],
         r.exec = jobs[wk[w].job].exec, r.cmd = jobs[wk[w].job].cmd, r.st # "none"
  PROVE  /\ JobsKept
         /\ jobs'[wk[w].job] = r /\ \A j \in Jobs \ {wk[w].job} : jobs'[j] = jobs[j]
<1>1. wk[w].job \in Jobs /\ jobs[wk[w].job].st = "running"
  BY HeldJob DEF Holds
<1> QED
  BY <1>1 DEF JobsKept, JobKept, Final, Typed, TypeOK

LEMMA BuildOutcome ==
  ASSUME Typed, ModeInv, BuildInv, NEW w \in Workers
  PROVE  /\ Wait(w) => BuildInv'
         /\ RetryLater(w) => BuildInv'
         /\ FinishFail(w) => BuildInv'
         /\ Success(w) => BuildInv'
<1> DEFINE i == wk[w].job
           c == jobs[i].cmd
<1>1. ASSUME Holds(w) PROVE i \in Jobs /\ jobs[i].st = "running" /\ c \in Cmds /\ cmds[c] \in CmdRow
                            /\ Exec(i) \in ExecRow /\ jobs[i] \in JobRow
  BY <1>1, HeldJob, Rows, TypeExec DEF Holds, ModeInv, JobFits, ExecStates
<1>2. ASSUME Wait(w) PROVE BuildInv'
  <2> DEFINE n == Exec(i).asked + 1
             x == [NoExec EXCEPT !.st = "waiting_user", !.asked = n, !.ask = n]
             r == [jobs[i] EXCEPT !.st = "waiting_user"]
  <2>1. Holds(w) /\ Leave(w) /\ UNCHANGED inbox /\ jobs' = [jobs EXCEPT ![i] = r] /\ execs' = Project(i, x)
        /\ cmds' = [cmds EXCEPT ![c].st = "approved"]
    BY <1>2 DEF Wait
  <2>2. r.exec = jobs[i].exec /\ r.cmd = c /\ r.st = "waiting_user"
    BY <1>1, <2>1 DEF JobRow
  <2>3. Outcome(x, Exec(i)) /\ x.st = "waiting_user"
    BY DEF Outcome, NoExec
  <2>4. CmdsKept /\ cmds'[c].st = "approved"
    BY <1>1, <2>1, CmdMoved DEF BuildInv, Typed, TypeOK, CmdRow
  <2> HIDE DEF r, x
  <2>5. JobsKept /\ jobs'[i] = r /\ \A j \in Jobs \ {i} : jobs'[j] = jobs[j]
    BY <2>1, <2>2, HeldMoves
  <2> QED
    BY <2>1, <2>2, <2>3, <2>4, <2>5, Reported DEF Active, InFlight, Pending
<1>3. ASSUME RetryLater(w) PROVE BuildInv'
  <2> DEFINE x == [Exec(i) EXCEPT !.st = "resuming"]
             r == [jobs[i] EXCEPT !.st = "retry_scheduled", !.fresh = TRUE]
  <2>1. Holds(w) /\ Leave(w) /\ UNCHANGED inbox /\ jobs' = [jobs EXCEPT ![i] = r] /\ execs' = Project(i, x)
        /\ cmds' = [cmds EXCEPT ![c].st = "queued"]
    BY <1>3 DEF RetryLater
  <2>2. r.exec = jobs[i].exec /\ r.cmd = c /\ r.st = "retry_scheduled"
    BY <1>1, <2>1 DEF JobRow
  <2>3. Outcome(x, Exec(i)) /\ x.st = "resuming"
    BY <1>1, <2>1 DEF Outcome, ExecRow
  <2>4. CmdsKept
    BY <2>1, CmdMoved DEF BuildInv
  <2> HIDE DEF r, x
  <2>5. JobsKept /\ jobs'[i] = r /\ \A j \in Jobs \ {i} : jobs'[j] = jobs[j]
    BY <2>1, <2>2, HeldMoves
  <2> QED
    BY <2>1, <2>2, <2>3, <2>4, <2>5, Reported DEF Active, InFlight, Pending
<1>4. ASSUME FinishFail(w) PROVE BuildInv'
  <2> DEFINE st == wk[w].pc
             x == IF st = "failed_terminal" THEN Settled(i, st) ELSE [Exec(i) EXCEPT !.st = st]
             r == [jobs[i] EXCEPT !.st = st]
  <2>1. Holds(w) /\ Leave(w) /\ UNCHANGED inbox /\ jobs' = [jobs EXCEPT ![i] = r] /\ execs' = Project(i, x)
        /\ cmds' = [cmds EXCEPT ![c].st = "failed"] /\ st \in {"failed_recoverable", "failed_terminal"}
    BY <1>4 DEF FinishFail
  <2>2. r.exec = jobs[i].exec /\ r.cmd = c /\ r.st = st
    BY <1>1, <2>1 DEF JobRow
  <2>3. Outcome(x, Exec(i)) /\ x.st = st
    <3>1. Outcome(Settled(i, st), Exec(i)) /\ Settled(i, st).st = st
      BY DEF Outcome, Settled, NoExec
    <3>2. Outcome([Exec(i) EXCEPT !.st = st], Exec(i)) /\ [Exec(i) EXCEPT !.st = st].st = st
      BY <1>1, <2>1 DEF Outcome, ExecRow
    <3> QED
      BY <3>1, <3>2
  <2>4. CmdsKept
    BY <2>1, CmdMoved DEF BuildInv
  <2> HIDE DEF r, x, st
  <2>5. JobsKept /\ jobs'[i] = r /\ \A j \in Jobs \ {i} : jobs'[j] = jobs[j]
    BY <2>1, <2>2, HeldMoves
  <2> QED
    BY <2>1, <2>2, <2>3, <2>4, <2>5, Reported DEF Active, InFlight, Pending
<1>5. ASSUME Success(w) PROVE BuildInv'
  <2> DEFINE r == [jobs[i] EXCEPT !.st = "succeeded"]
             new == [NoJob EXCEPT !.st = "queued", !.cmd = NewCmd]
             next == [NoCmd EXCEPT !.st = "queued", !.act = NextAction(Act(i)), !.pipe = TRUE]
  <2>1. Holds(w) /\ Leave(w) /\ UNCHANGED inbox
    BY <1>5 DEF Success
  <2>2. PICK st \in {"candidate_ready", "generated_unverified"} : execs' = Project(i, Settled(i, st))
    BY <1>5 DEF Success
  <2>3. Outcome(Settled(i, st), Exec(i))
    BY DEF Outcome, Settled, NoExec
  <2>4. r.exec = jobs[i].exec /\ r.cmd = c /\ r.st = "succeeded"
    BY <1>1, <2>1 DEF JobRow
  <2>5. CASE ~Continues(w)
    <3>1. jobs' = [jobs EXCEPT ![i] = r] /\ cmds' = [cmds EXCEPT ![c].st = "succeeded"]
      BY <1>5, <2>5 DEF Success
    <3> HIDE DEF r
    <3>2. JobsKept /\ jobs'[i] = r /\ \A j \in Jobs \ {i} : jobs'[j] = jobs[j]
      BY <2>1, <2>4, <3>1, HeldMoves
    <3>3. CmdsKept
      BY <3>1, CmdMoved DEF BuildInv
    <3> QED
      BY <2>1, <2>2, <2>3, <2>4, <3>2, <3>3, Reported DEF Active, InFlight, Pending
  <2>6. CASE Continues(w)
    <3>1. NewJob \in Jobs /\ jobs[NewJob].st = "none" /\ NewCmd \in Cmds /\ cmds[NewCmd].st = "none"
      BY <1>5, <2>6, NewJobFree, NewCmdFree DEF Success, Present
    <3>2. /\ jobs' = [[jobs EXCEPT ![i] = r] EXCEPT ![NewJob] = new]
          /\ cmds' = [[cmds EXCEPT ![c].st = "succeeded"] EXCEPT ![NewCmd] = next]
      BY <1>5, <2>6 DEF Success
    <3>3. new.exec = None /\ next.resumes = None
      BY DEF NoJob, NoCmd
    <3> HIDE DEF r, new, next
    <3>4. NewJob # i /\ jobs'[i] = r /\ jobs'[NewJob] = new /\ \A j \in Jobs \ {i, NewJob} : jobs'[j] = jobs[j]
      BY <1>1, <2>1, <3>1, <3>2 DEF Typed, TypeOK
    <3>5. jobs[NewJob].exec = None
      BY <3>1 DEF BuildInv, OwnInv, Rooted
    <3>6. JobsKept
      BY <1>1, <2>1, <2>4, <3>1, <3>3, <3>4, <3>5 DEF JobsKept, JobKept, Final
    <3>7. CmdsKept
      <4>1. cmds[c].st # "none"
        BY <1>1, <2>1 DEF ModeInv, JobFits
      <4>2. /\ cmds'[NewCmd] = next
            /\ \A d \in Cmds \ {NewCmd} : /\ cmds'[d].act = cmds[d].act /\ cmds'[d].resumes = cmds[d].resumes
                                          /\ cmds'[d].st \in {cmds[d].st, "succeeded"}
        BY <1>1, <2>1, <3>1, <3>2, <4>1, Rows DEF Typed, TypeOK, CmdRow
      <4> QED
        BY <3>1, <3>3, <4>2 DEF CmdsKept, CmdKept, BuildInv, OwnInv, ResumesBuild
    <3> QED
      BY <2>1, <2>2, <2>3, <2>4, <3>4, <3>5, <3>6, <3>7, Reported DEF Active, InFlight, Pending
  <2> QED
    BY <2>5, <2>6
<1> QED
  BY <1>2, <1>3, <1>4, <1>5

\* A worker moves on without writing anything.
LEMMA WorkerMoves ==
  ASSUME Typed, ModeInv, BuildInv, NEW w \in Workers, NEW r, wk' = [wk EXCEPT ![w] = r], r.pc # "bound",
         UNCHANGED <<cmds, jobs, execs, inbox>>
  PROVE  BuildInv'
<1>1. WorkersKept
  BY DEF WorkersKept, Typed, TypeOK
<1>2. JobsKept /\ CmdsKept
  BY CmdsStill DEF JobsKept, JobKept, BuildInv
<1> QED
  BY <1>1, <1>2, QuietKept

LEMMA BuildClaim ==
  ASSUME Typed, ModeInv, BuildInv, NEW w \in Workers
  PROVE  /\ \A j \in Jobs : Start(w, j) \/ StartRefused(w, j) \/ StartLost(w, j) => BuildInv'
         /\ Heartbeat(w) \/ Overrun(w) => BuildInv'
         /\ LoseLease(w) => BuildInv'
         /\ \A st \in {"failed_recoverable", "failed_terminal"} : Fail(w, st) => BuildInv'
<1>1. ASSUME NEW j \in Jobs, Start(w, j) \/ StartRefused(w, j) \/ StartLost(w, j) PROVE BuildInv'
  <2>1. jobs[j].st \in Active /\ UNCHANGED <<execs, inbox>>
    BY <1>1 DEF Start, StartRefused, StartLost, Claimable, Active, InFlight, Pending
  <2>2. /\ jobs'[j].exec = jobs[j].exec /\ jobs'[j].cmd = jobs[j].cmd
        /\ jobs'[j].st \in Active \/ (Act(j) = "run_tests" /\ jobs'[j].st = "failed_recoverable")
        /\ \A k \in Jobs \ {j} : jobs'[k] = jobs[k]
    <3>1. jobs[j] \in JobRow
      BY Rows
    <3>2. CASE Start(w, j)
      BY <3>1, <3>2 DEF Start, Typed, TypeOK, JobRow, Active, InFlight
    <3>3. CASE StartRefused(w, j)
      BY <3>1, <3>3 DEF StartRefused, Typed, TypeOK, JobRow
    <3>4. CASE StartLost(w, j)
      BY <3>1, <3>4 DEF StartLost, Typed, TypeOK, JobRow, Active, InFlight
    <3> QED
      BY <1>1, <3>2, <3>3, <3>4
  <2>3. JobsKept
    BY <2>1, <2>2 DEF JobsKept, JobKept, Active, InFlight, Pending, Final
  <2>4. CmdsKept
    BY <1>1, CmdMoved, CmdsStill DEF Start, StartRefused, StartLost, BuildInv
  <2>5. WorkersKept
    BY <1>1 DEF Start, StartRefused, StartLost, WorkersKept, Typed, TypeOK
  <2>6. jobs[j].exec # None => /\ Act(j) = "generate_package"
                               /\ execs[jobs[j].exec].st \in {"running", "resuming"}
    BY <2>1 DEF BuildInv, OwnInv, Rooted, Fits
  <2> QED
    BY <2>1, <2>2, <2>3, <2>4, <2>5, <2>6, QuietKept
<1>2. ASSUME Heartbeat(w) \/ Overrun(w) PROVE BuildInv'
  <2>1. UNCHANGED <<cmds, execs, inbox, wk>>
    BY <1>2 DEF Heartbeat, Overrun
  <2>2. \A j \in Jobs : jobs'[j].st = jobs[j].st /\ jobs'[j].exec = jobs[j].exec /\ jobs'[j].cmd = jobs[j].cmd
    BY <1>2, Rows DEF Heartbeat, Overrun, Typed, TypeOK, JobRow
  <2>3. JobsKept /\ CmdsKept
    BY <2>1, <2>2, CmdsStill DEF JobsKept, JobKept, BuildInv
  <2> QED
    BY <2>1, <2>2, <2>3, QuietKept, WorkersSame
<1>4. ASSUME LoseLease(w) PROVE BuildInv'
  <2>1. wk' = [wk EXCEPT ![w] = Idle] /\ Idle.pc # "bound" /\ UNCHANGED <<cmds, jobs, execs, inbox>>
    BY <1>4 DEF LoseLease, Leave, Idle
  <2> QED
    BY <2>1, WorkerMoves
<1>5. ASSUME NEW st \in {"failed_recoverable", "failed_terminal"}, Fail(w, st) PROVE BuildInv'
  <2> DEFINE r == [wk[w] EXCEPT !.pc = st]
  <2>1. wk' = [wk EXCEPT ![w] = r] /\ UNCHANGED <<cmds, jobs, execs, inbox>>
    BY <1>5 DEF Fail
  <2>2. r.pc # "bound"
    BY Rows DEF WorkerRow
  <2> HIDE DEF r
  <2> QED
    BY <2>1, <2>2, WorkerMoves
<1> QED
  BY <1>1, <1>2, <1>4, <1>5

\* An answer is mailed.  Nothing else changes but the mark and the worker.
LEMMA Mailing ==
  ASSUME Typed, ModeInv, BuildInv, NEW w \in Bound, inbox' = Mailed(w), UNCHANGED <<cmds, jobs>>, WorkersKept,
         \A e \in Jobs : /\ execs'[e].st = execs[e].st /\ execs'[e].ask = execs[e].ask
                         /\ execs'[e].answer = execs[e].answer /\ execs'[e].asked = execs[e].asked
                         /\ execs'[e].sent => execs[e].sent \/ (e = jobs[wk[w].job].exec /\ Envelope(w))
  PROVE  BuildInv'
<1>1. inbox' = inbox \cup {Held(w)}
  BY DEF Mailed, Held
<1>2. inbox' \subseteq Copies /\ inbox \subseteq inbox'
  BY <1>1 DEF Copies
<1>3. ExecsKept /\ JobsKept /\ CmdsKept
  BY CmdsStill DEF ExecsKept, ExecKept, JobsKept, JobKept, BuildInv
<1>4. \A j \in Jobs : Fits(j)'
  BY <1>3, FitsQuiet DEF BuildInv
<1>5. DeliveredWasMailed'
  <2> SUFFICES ASSUME NEW e \in Jobs, execs'[e].sent
               PROVE  [exec |-> e, ask |-> execs[e].ask, answer |-> execs[e].answer] \in inbox'
    BY DEF DeliveredWasMailed
  <2>1. CASE execs[e].sent
    BY <1>2, <2>1 DEF BuildInv, DeliveredWasMailed
  <2>2. CASE e = jobs[wk[w].job].exec /\ Envelope(w)
    BY <1>1, <2>2 DEF Envelope, Held
  <2> QED
    BY <2>1, <2>2
<1> QED
  BY <1>2, <1>3, <1>4, <1>5, OwnKept, MailKept, AnswerKept, CopiesKept DEF BuildInv, OwnInv, AnswerInv

LEMMA BuildDeliver ==
  ASSUME Typed, ModeInv, BuildInv, NEW w \in Workers, Deliver(w) \/ DeliverAndDie(w)
  PROVE  BuildInv'
<1>1. w \in Bound /\ inbox' = Mailed(w) /\ UNCHANGED <<cmds, jobs>>
  BY DEF Deliver, DeliverAndDie, Bound
<1>2. WorkersKept
  <2>1. CASE Deliver(w)
    <3>1. wk'[w].pc # "bound" /\ \A v \in Workers \ {w} : wk'[v] = wk[v]
      BY <2>1, Rows DEF Deliver, Typed, TypeOK, WorkerRow
    <3> QED
      BY <3>1 DEF WorkersKept
  <2>2. CASE DeliverAndDie(w)
    BY <2>2 DEF DeliverAndDie, WorkersKept, Idle
  <2> QED
    BY <2>1, <2>2
<1>3. UNCHANGED execs \/ (Envelope(w) /\ execs' = [execs EXCEPT ![jobs[wk[w].job].exec].sent = TRUE])
  BY DEF Deliver, DeliverAndDie
<1>4. ASSUME NEW e \in Jobs
      PROVE  /\ execs'[e].st = execs[e].st /\ execs'[e].ask = execs[e].ask
             /\ execs'[e].answer = execs[e].answer /\ execs'[e].asked = execs[e].asked
             /\ execs'[e].sent => execs[e].sent \/ (e = jobs[wk[w].job].exec /\ Envelope(w))
  BY <1>3, Rows DEF Typed, TypeOK, ExecRow
<1> QED
  BY <1>1, <1>2, <1>4, Mailing

\* A job creates its execution: nobody else can have it.
LEMMA BuildBind ==
  ASSUME Typed, ModeInv, BuildInv, NEW i \in Jobs, jobs[i].st = "running", jobs[i].exec = None,
         Act(i) = "generate_package", UNCHANGED <<cmds, inbox>>, WorkersKept,
         jobs'[i].exec = i, jobs'[i].st = jobs[i].st, jobs'[i].cmd = jobs[i].cmd,
         \A k \in Jobs \ {i} : jobs'[k] = jobs[k],
         execs'[i].st \in {"running", "resuming"},
         \A d \in Jobs : /\ execs'[d].ask = execs[d].ask /\ execs'[d].answer = execs[d].answer
                         /\ execs'[d].asked = execs[d].asked /\ execs'[d].sent = execs[d].sent
                         /\ d # i => execs'[d].st = execs[d].st
  PROVE  BuildInv'
<1> USE Numbers
<1>1. ASSUME NEW k \in Jobs PROVE jobs[k].exec # i /\ jobs[k].exec \in Jobs \cup {None}
  BY Rows DEF BuildInv, OwnInv, Rooted, JobRow
<1>2. CmdsKept /\ ExecsKept
  BY CmdsStill DEF BuildInv, ExecsKept, ExecKept
<1>3. ASSUME NEW k \in Jobs PROVE Rooted(k)'
  <2>1. Rooted(k)
    BY DEF BuildInv, OwnInv
  <2>2. CASE k = i
    BY <2>2 DEF Rooted, Act
  <2>3. CASE k # i /\ jobs[k].exec = None
    BY <2>1, <2>3 DEF Rooted
  <2>4. CASE k # i /\ jobs[k].exec # None
    <3>1. jobs[k].exec \in Jobs \ {i}
      BY <1>1, <2>4
    <3>2. jobs'[k] = jobs[k] /\ jobs'[jobs[k].exec] = jobs[jobs[k].exec]
      BY <2>4, <3>1
    <3> QED
      BY <2>1, <2>4, <3>2 DEF Rooted, Act
  <2> QED
    BY <2>2, <2>3, <2>4
<1>4. OneOwner'
  <2> SUFFICES ASSUME NEW k \in Jobs, NEW l \in Jobs, k # l, jobs'[k].exec = jobs'[l].exec, jobs'[k].exec # None
               PROVE  jobs'[k].st \in Final \/ jobs'[l].st \in Final
    BY DEF OneOwner, Present
  <2>1. k # i /\ l # i
    BY <1>1
  <2>2. jobs[k].st # "none" /\ jobs[l].st # "none"
    BY <2>1 DEF BuildInv, OwnInv, Rooted
  <2> QED
    BY <2>1, <2>2 DEF BuildInv, OwnInv, OneOwner, Present
<1>5. ASSUME NEW k \in Jobs PROVE Fits(k)'
  <2>1. CASE k = i
    BY <2>1 DEF Fits
  <2>2. CASE k # i
    <3>1. execs'[jobs[k].exec].st = execs[jobs[k].exec].st \/ jobs[k].exec = None
      BY <1>1
    <3>2. JobKept(k)
      BY <2>2 DEF JobKept
    <3>3. CASE jobs[k].exec = None
      BY <3>2, <3>3 DEF Fits, JobKept
    <3> QED
      BY <1>2, <2>2, <3>1, <3>2, <3>3, FitsStill DEF BuildInv
  <2> QED
    BY <2>1, <2>2
<1>6. OwnInv'
  BY <1>3, <1>4, <1>5 DEF BuildInv, OwnInv, ResumesBuild
<1>7. ASSUME NEW v \in Bound'
      PROVE  v \in Bound /\ Held(v)' = Held(v) /\ jobs'[wk'[v].job].exec # None
  <2>1. v \in Bound /\ wk'[v].job = wk[v].job /\ wk'[v].ask = wk[v].ask
    BY <1>7 DEF Bound, WorkersKept
  <2>2. wk[v].job \in Jobs /\ jobs[wk[v].job].exec # None
    BY <2>1 DEF Bound, Typed, BusyHasJob, BuildInv, AnswerInv
  <2>3. jobs'[wk[v].job] = jobs[wk[v].job]
    BY <2>2
  <2> QED
    BY <2>1, <2>2, <2>3 DEF Held
<1>8. ASSUME NEW d \in Answered' PROVE d \in Answered /\ Attached(d)' = Attached(d)
  BY <1>8 DEF Answered, Attached
<1>9. Copies' \subseteq Copies
  BY <1>7, <1>8 DEF Copies
<1>10. MailInv'
  BY <1>2, <1>9, MailKept DEF BuildInv
<1>11. AnswerInv'
  <2>1. ASSUME NEW k \in Jobs, jobs'[k].exec # None, jobs'[k].st \notin Final
        PROVE  execs'[jobs'[k].exec].answer \in {None, k}
    <3>1. CASE k = i
      BY <3>1 DEF BuildInv, AnswerInv
    <3>2. CASE k # i
      <4>1. jobs'[k] = jobs[k] /\ jobs[k].exec \in Jobs
        BY <1>1, <2>1, <3>2
      <4> QED
        BY <2>1, <4>1 DEF BuildInv, AnswerInv
    <3> QED
      BY <3>1, <3>2
  <2>2. ASSUME NEW d \in Jobs, execs'[d].answer # None PROVE jobs'[d].exec = d
    BY <2>2 DEF BuildInv, AnswerInv
  <2> QED
    BY <1>7, <2>1, <2>2 DEF AnswerInv
<1>12. DeliveredWasMailed'
  BY DEF BuildInv, DeliveredWasMailed
<1> QED
  BY <1>6, <1>10, <1>11, <1>12 DEF BuildInv

LEMMA FitsRunning ==
  ASSUME Typed, ModeInv, OwnInv, CmdsKept, JobsKept, NEW i \in Jobs, jobs[i].st = "running",
         \A j \in Jobs : jobs'[j].st = jobs[j].st, execs'[jobs[i].exec].st \in {"running", "resuming"},
         \A d \in Jobs \ {jobs[i].exec} : execs'[d].st = execs[d].st
  PROVE  \A j \in Jobs : Fits(j)'
<1>1. jobs'[i].exec = jobs[i].exec /\ jobs'[i].st = "running"
  BY DEF JobsKept, JobKept
<1>2. Fits(i)'
  BY <1>1 DEF Fits
<1> QED
  BY <1>2, FitsOwned DEF Final

LEMMA BuildEnsure ==
  ASSUME Typed, ModeInv, BuildInv, NEW w \in Workers, Ensure(w)
  PROVE  BuildInv'
<1> DEFINE i == wk[w].job
           e == Own(i)
           st == Resumed(execs[e].st)
<1>1. /\ i \in Jobs /\ e \in Jobs /\ jobs[i].st = "running" /\ Act(i) = "generate_package"
      /\ UNCHANGED <<cmds, inbox>> /\ jobs[i].exec \in Jobs \cup {None}
  BY HeldJob, Rows DEF Ensure, Holds, Own, JobRow
<1>2. CASE execs[e].st \in Dead
  <2> DEFINE r == [wk[w] EXCEPT !.pc = "failed_recoverable"]
  <2>1. wk' = [wk EXCEPT ![w] = r] /\ UNCHANGED <<cmds, jobs, execs, inbox>>
    BY <1>2 DEF Ensure
  <2>2. r.pc # "bound"
    BY Rows DEF WorkerRow
  <2> HIDE DEF r
  <2> QED
    BY <2>1, <2>2, WorkerMoves
<1>3. CASE execs[e].st \notin Dead
  <2>1. /\ execs' = [execs EXCEPT ![e].st = st]
        /\ jobs' = [jobs EXCEPT ![i].exec = e, ![i].fresh = TRUE]
        /\ wk' = [wk EXCEPT ![w].ask = Undelivered(e),
                            ![w].pc = IF st # "running" THEN "failed_recoverable"
                                      ELSE IF Undelivered(e) = 0 THEN "building" ELSE "bound"]
    BY <1>3 DEF Ensure
  <2>2. /\ jobs'[i].exec = e /\ jobs'[i].st = jobs[i].st /\ jobs'[i].cmd = jobs[i].cmd
        /\ \A k \in Jobs \ {i} : jobs'[k] = jobs[k]
    BY <1>1, <2>1, Rows DEF Typed, TypeOK, JobRow
  <2>3. ASSUME NEW d \in Jobs
        PROVE  /\ execs'[d].ask = execs[d].ask /\ execs'[d].answer = execs[d].answer
               /\ execs'[d].asked = execs[d].asked /\ execs'[d].sent = execs[d].sent
               /\ execs'[d].st = IF d = e THEN st ELSE execs[d].st
    BY <2>1, Rows DEF Typed, TypeOK, ExecRow
  <2>4. st \in {"running", "resuming"}
    BY DEF Resumed
  <2>5. /\ \A v \in Workers \ {w} : wk'[v] = wk[v]
        /\ wk'[w].job = i /\ wk'[w].ask = Undelivered(e)
        /\ wk'[w].pc = "bound" => Undelivered(e) # 0
    BY <2>1, Rows DEF Typed, TypeOK, WorkerRow
  <2>6. CASE jobs[i].exec = None
    <3>1. e = i
      BY <2>6 DEF Own
    <3>2. execs[i].answer = None
      BY <1>1, <2>6, Numbers DEF BuildInv, AnswerInv
    <3>3. WorkersKept
      BY <2>5, <3>1, <3>2 DEF WorkersKept, Undelivered
    <3> HIDE DEF st, i, e
    <3> QED
      BY <1>1, <2>2, <2>3, <2>4, <2>6, <3>1, <3>3, BuildBind
  <2>7. CASE jobs[i].exec # None
    <3>1. e = jobs[i].exec
      BY <2>7 DEF Own
    <3>2. JobsKept
      BY <1>1, <2>2, <3>1 DEF JobsKept, JobKept
    <3>3. CmdsKept /\ ExecsKept /\ \A d \in Jobs : SentKept(d)
      BY <1>1, <2>3, CmdsStill DEF BuildInv, ExecsKept, ExecKept, SentKept
    <3>4. \A j \in Jobs : Fits(j)'
      <4>1. execs'[e].st \in {"running", "resuming"}
        BY <1>1, <2>3, <2>4
      <4>2. \A d \in Jobs \ {e} : execs'[d].st = execs[d].st
        BY <2>3
      <4>3. \A j \in Jobs : jobs'[j].st = jobs[j].st
        BY <2>2
      <4> HIDE DEF e, st
      <4> QED
        BY <1>1, <3>1, <3>2, <3>3, <4>1, <4>2, <4>3, FitsRunning DEF BuildInv
    <3>5. ASSUME NEW v \in Bound'
          PROVE  Held(v)' \in Copies /\ jobs'[wk'[v].job].exec # None
      <4>1. CASE v = w
        <5>1. Undelivered(e) # 0
          BY <2>5, <3>5, <4>1 DEF Bound
        <5>2. execs[e].answer # None /\ Undelivered(e) = execs[e].ask
          BY <5>1 DEF Undelivered
        <5>3. execs[e].answer = i
          BY <1>1, <2>7, <3>1, <5>2 DEF BuildInv, AnswerInv, Final
        <5>4. Held(v)' = [exec |-> e, ask |-> execs[e].ask, answer |-> i]
          BY <2>2, <2>5, <4>1, <5>2 DEF Held
        <5>5. Held(v)' = Attached(e) /\ e \in Answered
          BY <1>1, <5>2, <5>3, <5>4 DEF Attached, Answered
        <5> QED
          BY <2>2, <2>5, <2>7, <3>1, <4>1, <5>5 DEF Copies
      <4>2. CASE v # w
        <5>1. v \in Bound /\ wk'[v] = wk[v]
          BY <2>5, <3>5, <4>2 DEF Bound
        <5>2. wk[v].job \in Jobs
          BY <5>1 DEF Bound, Typed, BusyHasJob
        <5>3. jobs'[wk[v].job].exec = jobs[wk[v].job].exec
          BY <3>2, <5>2 DEF JobsKept, JobKept
        <5> QED
          BY <5>1, <5>3 DEF Held, Copies, BuildInv, AnswerInv
      <4> QED
        BY <4>1, <4>2
    <3>6. ASSUME NEW d \in Answered' PROVE d \in Answered /\ Attached(d)' = Attached(d)
      BY <2>3, <3>6 DEF Answered, Attached
    <3>7. Copies' \subseteq Copies
      BY <1>1, <3>5, <3>6 DEF Copies
    <3>8. OwnInv'
      BY <3>2, <3>3, <3>4, OwnKept DEF BuildInv, OwnInv
    <3>9. MailInv'
      BY <3>3, <3>7, MailKept DEF BuildInv
    <3>10. AnswerInv'
      BY <3>2, <3>3, <3>5, AnswerKept DEF BuildInv, AnswerInv
    <3>11. DeliveredWasMailed'
      BY <1>1, <3>3, SentStays DEF BuildInv
    <3> QED
      BY <3>8, <3>9, <3>10, <3>11 DEF BuildInv
  <2> QED
    BY <2>6, <2>7
<1> QED
  BY <1>2, <1>3

LEMMA BuildStep == Typed /\ ModeInv /\ BuildInv /\ [Next]_vars => BuildInv'
<1> SUFFICES ASSUME Typed, ModeInv, BuildInv, [Next]_vars PROVE BuildInv'
  OBVIOUS
<1>1. CASE User
  BY <1>1, BuildUser
<1>2. ASSUME NEW w \in Workers, Attempt(w) PROVE BuildInv'
  BY <1>2, BuildClaim, BuildOutcome, BuildDeliver, BuildEnsure DEF Attempt
<1>3. ASSUME NEW j \in Jobs, Age(j) PROVE BuildInv'
  <2>1. UNCHANGED <<cmds, execs, inbox, wk>>
    BY <1>3 DEF Age
  <2>2. \A k \in Jobs : jobs'[k].st = jobs[k].st /\ jobs'[k].exec = jobs[k].exec /\ jobs'[k].cmd = jobs[k].cmd
    BY <1>3, Rows DEF Age, Typed, TypeOK, JobRow
  <2>3. JobsKept /\ CmdsKept
    BY <2>1, <2>2, CmdsStill DEF JobsKept, JobKept, BuildInv
  <2> QED
    BY <2>1, <2>2, <2>3, QuietKept, WorkersSame
<1>4. CASE Die
  <2>1. UNCHANGED <<cmds, jobs, execs, inbox>>
    BY <1>4 DEF Die
  <2>2. WorkersKept /\ JobsKept /\ CmdsKept
    BY <1>4, <2>1, CmdsStill DEF Die, Idle, WorkersKept, JobsKept, JobKept, BuildInv
  <2> QED
    BY <2>1, <2>2, QuietKept
<1>5. CASE Faults
  BY <1>4, <1>5, BuildClaim, BuildDeliver DEF Faults
<1>6. CASE UNCHANGED vars
  <2>1. UNCHANGED <<cmds, jobs, execs, inbox, wk>>
    BY <1>6 DEF vars
  <2>2. JobsKept /\ CmdsKept
    BY <2>1, CmdsStill DEF JobsKept, JobKept, BuildInv
  <2> QED
    BY <2>1, <2>2, QuietKept, WorkersSame
<1> QED
  BY <1>1, <1>2, <1>3, <1>5, <1>6 DEF Next

LEMMA BuildAlways == Spec => [](Typed /\ BuildInv)
BY TypeInit, TypeStep, ModeInit, ModeStep, BuildInit, BuildStep, PTL DEF Spec

\* The execution of a build agrees with the job that carries it.
THEOREM ExecutionsFollow == Spec => []ExecutionFollows
<1>1. ASSUME Typed, BuildInv PROVE ExecutionFollows
  <2>1. ASSUME NEW j \in Jobs, jobs[j].exec # None PROVE Fits(j) /\ Exec(j) = execs[jobs[j].exec]
    BY <1>1, <2>1 DEF BuildInv, OwnInv, Exec
  <2> QED
    BY <2>1 DEF Fits, ExecutionFollows, Active, Present
<1>2. Typed /\ BuildInv => ExecutionFollows
  BY <1>1
<1> QED
  BY <1>2, BuildAlways, PTL

\* An execution belongs to at most one job that is not over.
THEOREM ExecutionsAreOwned == Spec => []OneOwner
<1>1. Typed /\ BuildInv => OneOwner
  BY DEF BuildInv, OwnInv
<1> QED
  BY <1>1, BuildAlways, PTL

\* An answer marked as delivered is in the engine's mailbox.
THEOREM MarksAreTrue == Spec => []DeliveredWasMailed
<1>1. Typed /\ BuildInv => DeliveredWasMailed
  BY DEF BuildInv
<1> QED
  BY <1>1, BuildAlways, PTL

\* The engine never gets two answers to one question.
THEOREM AnswersAreUnique == Spec => []OneAnswer
<1>1. Typed /\ BuildInv => OneAnswer
  BY DEF BuildInv, MailInv, Copies, OneAnswer
<1> QED
  BY <1>1, BuildAlways, PTL

=============================================================================
