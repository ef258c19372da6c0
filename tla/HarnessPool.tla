------------------------------ MODULE HarnessPool ------------------------------
(***************************************************************************)
(* The controller that polls for OntoCode jobs: a timer, the promises of   *)
(* runOnce it waits for, and the jobs in flight.  Every job here belongs   *)
(* to a session of its own, so that claimNextJob may take any of them.     *)
(***************************************************************************)
EXTENDS Naturals, FiniteSets

CONSTANTS
    Sessions,
    Concurrency     \* ONTOCODE_HARNESS_CONCURRENCY, 3 by default

VARIABLES
    active,
    timer,      \* is the timer set?
    awaited,    \* what the promises of runOnce under way wait for
    job         \* job[s]: the job of session s

vars == <<active, timer, awaited, job>>

Any == "any"    \* all slots busy: the promise waits for any job

Init ==
    /\ active = FALSE /\ timer = FALSE /\ awaited = {}
    /\ job = [s \in Sessions |-> "none"]

InFlight == {s \in Sessions : job[s] = "running"}

\* A user's turn queues the job.
Enqueue(s) ==
    /\ job[s] = "none"
    /\ job' = [job EXCEPT ![s] = "queued"]
    /\ UNCHANGED <<active, timer, awaited>>

Start ==
    /\ ~active
    /\ active' = TRUE /\ timer' = TRUE
    /\ UNCHANGED <<awaited, job>>

\* stop() aborts the jobs in flight; they end in their own time.
Stop ==
    /\ active
    /\ active' = FALSE /\ timer' = FALSE
    /\ UNCHANGED <<awaited, job>>

\* The timer fires and runOnce is called: a poll that finds nothing sets the
\* timer again, a claimed job is waited for until it has been executed.
Tick ==
    /\ timer
    /\ IF Cardinality(InFlight) >= Concurrency
       THEN /\ timer' = FALSE /\ awaited' = awaited \cup {Any}
            /\ UNCHANGED job
       ELSE \/ /\ \A s \in Sessions : job[s] # "queued"
               /\ timer' = TRUE
               /\ UNCHANGED <<awaited, job>>
            \/ \E s \in Sessions :
               /\ job[s] = "queued"
               /\ job' = [job EXCEPT ![s] = "running"]
               /\ timer' = FALSE /\ awaited' = awaited \cup {s}
    /\ UNCHANGED active

\* The job has been executed: whoever waited for it schedules the next poll.
Finish(s) ==
    /\ job[s] = "running"
    /\ job' = [job EXCEPT ![s] = "ended"]
    /\ awaited' = awaited \ {s, Any}
    /\ timer' = (timer \/ (active /\ awaited \cap {s, Any} # {}))
    /\ UNCHANGED active

Next ==
    \/ Start \/ Stop \/ Tick
    \/ \E s \in Sessions : Enqueue(s) \/ Finish(s)

\* Timers fire; nothing bounds the time a Build takes.
Spec == Init /\ [][Next]_vars /\ WF_vars(Tick)

-----------------------------------------------------------------------------
(* What the repository says and the code does not do                        *)

\* ontocode-harness-worker.ts: the pool "Was a single slot: one long Build
\* starved every session of every tenant"; with a free slot the next job is
\* looked for at once, "that is what makes the pool actually parallel".
FreeSlotIsUsed ==
    \A s \in Sessions :
        (active /\ job[s] = "queued" /\ Cardinality(InFlight) < Concurrency)
            ~> (job[s] # "queued" \/ ~active \/ Cardinality(InFlight) >= Concurrency)

===============================================================================
