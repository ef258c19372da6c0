# Agentic Operator: a TLA+ model of its coordination core

Agentic Operator runs *manifest workflows*: a tenant's workflow is a set of agents, every
agent is a durable function (Inngest) executing a plan of actions, and a manual action is a
question to a human operator.  The modules here model the coordination that has to be right
whatever is lost, repeated or reordered in between.  Paths are relative to `src/`.

## 1. The system

| component | state | operations | hard behaviour | what makes it correct |
| --- | --- | --- | --- | --- |
| Run lifecycle: `packages/runtime/src/register.ts`, `apps/api/src/routes/v1/runs.ts` | `runs.status`, `steps`, the durable function's position and memoized steps | init, pause gate, actions, manual wait, fail, finalize; pause, resume, cancel | step bodies run at least once; waits miss earlier events; operator routes send an event, await, then write a row | terminal rows stay, holds are kept, an `ok` run passed every gate, active runs end |
| Human resolution: `services/hitl-recovery.ts`, `routes/v1/tasks.ts`, `services/reconcile-runs.ts` | `tasks.status`, `resumeStatus`, `resolution`, deadlines | claim, dispatch, retry, expire, orphan sweep | the resume send can throw after acceptance; the answer may arrive before the wait; the reconciler acts on a snapshot | first answer wins, is consumed at most once, never hangs |
| Idempotency: `services/idempotency.ts` | `idempotency_keys` rows with owner token, lease and expiry | claim, complete, release, abandon, sweep | takeover of a stale owner, late completion by the loser, expiry while an owner lives | one owner at a time completes; a completed answer is replayed unchanged |
| Tenant-code deployments: `routes/v1/tenant-code.ts`, `services/deployment-rollback.ts`, `services/durable-lease.ts`, `bootstrap.ts`, `services/inngest-registry.ts`, `tenant-loader.ts` | deployment rows, package directories, quarantine, lease row, cached registry, served functions | upload, remove, roll back, hot swap, boot selection; acquire, renew, release | compensation after a failed swap while a stale owner works; a crash between files and rows | one live version; what is served is what is live; a rollback never undoes a newer activation |
| Recycle bin: `apps/api/src/queries/runs.ts`, `packages/runtime/src/retention.ts` | `runs.deletedAt`, logs, artifacts | soft delete, restore, purge, bulk | purge awaits file I/O between its select and its delete | an in-flight run is never touched; a live run keeps its files |
| Writer lease: `packages/db/src/writer-lease.ts`, `writer-lease-recovery.ts`, `apps/api/scripts/sqlite-writer-supervisor.ts` | a lease directory with an owner and a heartbeat record; supervisor and child processes | acquire, inherit, heartbeat, release, recover | a supervisor that dies before its child; crashes between file-system steps; a recovery that acts on what it proved earlier | one process tree writes the database file |
| Trigger intake: `routes/v1/events.ts`, `routes/v1/webhooks.ts`, `packages/runtime/src/event-ledger.ts` | event rows, idempotency keys | claim, record, send | a send that fails after the row; a retry with the same key | an accepted trigger is sent, once per key |
| Workflow deployments and manifest import: `routes/v1/deployments.ts`, `tenant-workflow-mutation.ts`, `inngest-sync.ts` | workflow deployment rows, generation per tenant, pending imports | bootstrap, import, activate, sync, roll back | an activation interleaved with a sync; a crash between activation and sync | one generation is served; a failed mutation leaves the previous one |
| Scheduler: `packages/runtime/src/scheduler.ts` | cron registrations | register, fire | overlapping fires | a schedule fires once per tick |
| Code-agent runs: `packages/agents/src/run-engine.ts` | abort controllers, run rows | invoke, cancel, finish | cancel racing completion | a cancelled run is not relabelled |
| Run completion: `run-completion-reconciliation.ts` | none (pure) | verdict over a tool ledger | precedence of verdicts | a claimed success is backed by a receipt |
| LLM gateway: `packages/llm-gateway` | budget and usage rows | reserve, settle | concurrent requests at the limit | spend stays within the cap |
| MCP manager, Codex harness | connections, pending requests | connect, call, close | a response after a timeout or a close | each request settles once |
| Agent Factory: conductor, run registry, mailbox, sandboxes, promotion, challenges | factory runs, mail, sandbox rows, promotion journal, challenge rows | start, cancel, fence, drain, reap, promote, recover | cancel racing provisioning; crash mid-promotion | no sandbox outlives its run unseen; a promotion is all or nothing after recovery |
| Ontocode session jobs: `services/ontocode-session-store.ts`, `ontocode-harness-worker.ts` | session, command, job and build-execution rows, the engine's mailbox | turn, approve, post, cancel, retry, close, change mode; claim, heartbeat, ask, deliver, finish | a claim whose worker died, an outcome after a cancel, an answer delivered twice, a mode changed under accepted work | one job of a session at a time; a closed session is quiet; a build's answer arrives once |
| Ontocode assistant runs, sandbox attempts, configuration tasks | store rows with leases and versions | claim, heartbeat, finish | attempt takeover | one attempt at a time |
| Ontology compiler, tools, skills, SDKs, web, CLI, mock ERP | documents and user interfaces | compile, render | none that interleaves | not a coordination problem |

How they interact.  A trigger becomes a broker event; the broker invokes the function of every
subscribed agent; the function reads and writes run, step and task rows and suspends on broker
events.  Operators reach it only through rows and events: the resolve route claims the task row
and sends `task.resolved`, pause writes the run row the function re-reads before every action,
resume and cancel send an event and then write the row.  A timer (`reconcile-runs.ts`) sweeps
tasks and runs in the same process.  Nothing is shared in memory between function and routes.
Deployments replace the functions themselves: upload, removal and rollback change files and rows
under a lease, then rebuild the tenant's functions in the process and register them with the
broker.

`PROJECT.json` lists every component with its status, and every hazard at its line.

## 2. Plan

1. **RunLifecycle** with **HumanDecision** as its abstract specification and two proof modules
   (done).
2. **KeyedRequests**: the claim of an `Idempotency-Key` under the manifest, asynchronous and
   webhook routes, with **KeyedOperation** as its abstract specification and its proofs (done).  Left of this component: the legacy `POST /events`
   cache (EventIntake) and the synchronous invoke (SyncInvoke).
3. **TenantCode** over **DurableLease**: the tenant-code lane with its hot swap, compensations and
   boot selection, with its proofs (done).
4. **OntocodeJobs**: the commands, jobs, leases and build executions of one session, with its
   proofs (done), and **HarnessPool**, the controller that polls for jobs (done).
5. **WriterLease**: supervisors, children and recovery over the lease directory, with its proofs
   (done).
6. RunRecycleBin: delete, restore and purge against in-flight runs.
7. WorkflowLane over DurableLease: manifest import, generations, activation and rollback of the
   workflow lane.
8. CodeAgentRun, RunCompletion (pure, against a reference definition).
9. SandboxLifecycle, FactoryRun with its mailbox, Promotion, AuthorizationChallenge.
10. The other Ontocode stores, Budget, AppServerClient, MCP, scheduler, tenant lifecycle.

Proofs to add with them: that RunRecycleBin never touches an in-flight run; that recovery of a
promotion ends all or nothing.  In all of them recursion stays out of the modules that carry
theorems.

## 3. RunLifecycle

One run of one manifest agent: the durable function, its rows, the operator routes, the resume
dispatcher and the reconciler.

**State.**  `run` is `runs.status`; `aged` says that `startedAt` is older than
`AGENTIC_RUN_TIMEOUT_MS`; `tasks[t]` is a `tasks` row with its manual wait step, and its two
clocks for the sweep (`week` since `createdAt`, `late` since `resolutionRequestedAt`); the 7 days
of the function's own wait are the broker's and run out apart from `week`.  `fn` is the function's
position: `pc` names the next `step.run` body or wait, `ord` the action, `tries` the attempts of
the current step, `task` and `got` the memoized results of `init-task` and the wait.  `wakeups`,
`resumeInFlight` and `cancelInFlight` are events the broker accepted and has not delivered.
`send`, `verdict`, `sweeping`, `resuming` and `cancelling` are what the API process holds across
its awaits, lost on `Restart`; each pass in `Sweepers` has a snapshot and a dispatch of its own.
`sent` says that the downstream dispatch is behind, because the broker took the events or because
an evaluation or a test suppressed them (5029-5045).

**Actions.**  The code between two awaits is one action: SQLite transactions are synchronous and
node runs one continuation at a time.

| actions | code |
| --- | --- |
| `InitRun`, `PauseCheck`, `Park`, `PauseWaitTimeout`, `PauseResume`, `RunAction` | `register.ts` 1429-2000, 3855-4545 |
| `OpenTask`, `ArmWait`, `TaskWaitTimeout`, `TimeoutTask`, `InvalidInput`, `CloseTask` | the manual branch, `register.ts` 3460-3854 |
| `FailRun`, `Finalize`, `Emit`, `Complete` | `register.ts` 4703-5433 and `failRun` |
| `Resolve`, `SendAccepted`, `SendReturns`, `SendThrows` | `requestHumanTaskResolution`, `dispatchStoredHumanResolution` |
| `BeginSweep`, `SweepTask`, `EndSweep` | `reconcileHumanTaskResumes`, `reconcileOrphanedRuns` and their timer |
| `Pause`, `ResumeSend`, `ResumeCommit`, `CancelSend`, `CancelCommit` | `routes/v1/runs.ts` |
| `StepFails`, `Memoized`, `Deliver*` | the broker, external: at-least-once bodies, waits that see later events only |
| `RunAges`, `WeekPasses`, `AckDeadlinePasses`, `Restart` | time and process death |

**Abstractions.**  `Plan` lists the actions a run selects: conditions and branches are already
resolved.  A tool or logic action completes or fails.  `Finalize` has the three ends of its step:
the run is held or already ended, an event contract is broken, or the outbox row is written; the
second throws without `failRun`, so the function dies and the sweep ends the run.  The task row and its wait step are written
in one transaction and are one record.  Deliveries arrive in any order.  A redelivered `init`
that inserts a second run row is not followed: that row has no function and is ended by the
sweep like any orphan.  Passes of the reconciler may overlap, because its timer starts one
whether or not the last has ended (`reconcile-runs.ts:230`); the proofs hold for any number, and
TLC's instances have one, as two exceed its time (6 M states of them showed no violation).
`AGENTIC_HITL_RESUME_RETRY_MS` is left open: the reconciler may redispatch or keep any claimed task.
The 422 for an invalid human input changes nothing and is not an action.  Left out: step rows of
automatic actions, artifacts, receipts, traces, streams, and the recycle-bin routes of `runs.ts`.

| run | checks | instance |
| --- | --- | --- |
| `run_safety` | types, `DecisionInv`, `ConsumedByItsRun`, `OkRunWasDecided`, `RejectionStopsThePlan`, `WaitingIsOwned`, `TerminalStays`, `HoldKept`, refinement of `HumanDecision` | a Studio definition, a gate then a tool, one task, accept and reject, one fault, one resume; 1.6 M states |
| `run_replays` | `OneDecisionPerGate` | one gate, two task ids, so a lost `init-task` opens a second task; 3.8 M states |
| `run_settles` | `DecisionSettles`, `ActiveRunLeaves` under fairness | one gate, one fault or one accepted resume (`FairOneDisturbance`); 0.3 M states |
| `resume_wakes`, `resolved_consumed` | one statement of the repository each, violated | smallest instance that shows it |

**Why the bounds are enough.**  One fault already places a lost attempt, a failed send or a
restart at every point of the run; two tasks are needed only when a body repeats, and
`run_replays` has them.  One caller and the sweeper are two dispatchers, and the sweeper races
the caller at every step; two different resolutions make first-wins observable.  One retry
distinguishes a retried step from an exhausted one.  The liveness run uses a legacy definition,
so both kinds are explored.  A second manual action repeats the first
from a state the gate resets (`NextAction`); the proofs do not depend on any of these numbers.

**Fairness.**  Operators owe nothing: `Pause`, `Resolve`, `ResumeSend` and `CancelSend` are not
fair.  The function's steps and each delivery are weakly fair because the broker re-invokes a
durable function until it settles and delivers what it accepted; the sweep because it is a
`setInterval`; sends and route continuations because a promise settles; the clocks because time
passes.  Faults and restarts are not fair and are bounded.

## 4. KeyedRequests

All the requests that carry one `Idempotency-Key` on one route with durable claims.  `route` is
chosen at the start and stays; the three routes share `services/idempotency.ts` and differ in what they do with a
claim.

**State.**  `row` is the row of `idempotency_keys` (`owner` is the client whose request drew the
owner token, `body` its fingerprint, `op` the event id of its recipe, `expired` that `expiresAt`
has passed); `over[c]` says that the lease written by `c` has run out.  `pc`, `op`, `ack` are the
request of each client: where it is, the recipe it executes, the event its success answer names.
`rows` are the durable rows written before the send (event rows, or reserved runs), `started`
and `cancelled` what became of reserved runs, `delivered` the broker, which keeps the first copy
of an event id.

**Actions.**  `Lookup`, `ClaimFirst`, `Reclaim`, `ClaimDenied` and `Respond` are the functions of
`idempotency.ts`, each one transaction, together with the route's code up to its next await;
`ValidationFails` is a refusal between the lookup and the claim; `Persist` is the ledger and event row of a manifest invoke; `SendAccepted` and `SendThrows` are
the broker send, and a throw after acceptance is possible; `RespondFails` and `ReplayFails` are
failed completions and failed mandatory audits; a webhook's failures `Abandon` the claim, the
other routes keep it.  `StartRun` and `CancelQueued` act on the reserved run of an asynchronous
invoke; `LeaseEnds`, `RowExpires`, `Purge` are time and retention; `Restart` drops every request.
A client has one request at a time; a client that gives up and sends again while the server is
still executing is another client with the same body.

| run | checks | instance |
| --- | --- | --- |
| `keyed_safety` | types, `OneOperation`, `AckIsBacked`, `LeaseIsExclusive`, `CompletedStays`, the refinement of `KeyedOperation`, and `Answered` under `FairSpec` | each route, two copies of a request and one with another body, two event ids, three faults; 0.9 M states |

**The promise.**  `KeyedOperation` has no row, leases, ledger or retries: while the row is retained,
one operation is performed or withdrawn, and an answer names it, is given to a client that has none,
for the body that client sent.  `KO` maps `delivered`, `cancelled` and `ack` to it, and a dropped row
(`lapsed`) to `Forget`.  It says more than the invariants together: a cancelled run is also the one
operation of its key, and an answer once given stands until its client asks again.

Bounds: three clients allow a stale owner, its successor and a stranger at once; two event ids
allow the second operation that must not happen; three faults allow a lost send, a lost takeover
and a restart in one behaviour; the row lapses once, after which `OneOperation` promises nothing.
Fairness: requests run on, leases end, and a client without a success sends again, as every
refusal tells it to; resending is the client's part of the contract and is assumed of it.

`AckIsBacked` speaks of the body for the two invoke routes only: a webhook's event id is a hash of
the key, so a sender that reuses a key for another body after an abandoned delivery is served the
first body.  Left out: the synchronous invoke, `releaseIdempotency` (tenant creation) and
`storeIdempotency` (the legacy cache of `POST /events`).

## 5. TenantCode and DurableLease

The code a tenant's functions run: packages uploaded as versions, one of them live.  An upload, a
rollback and a removal each take the tenant's durable lease, change files and rows, rebuild the
functions in the process, register them with the broker and, when any of that fails, compensate.

**State.**  `DurableLease` is one row of `operation_leases` (`holder`, `expired`) and what each
operation's handle knows (`lost`); an operation draws its token once, so the token is the operation.
`rows[v]` is the deployment row of version `v` with its workflow version, `home` the workflow row that
holds them, `clock` the last `deployedAt`.  `dirs` and `aside` are the package directories and the
quarantine of removals.  `op[o]` is an operation: where it is, the lane it read (`before`), what
it activated (`at`), whether it is compensating (`back`) and its answer.  `chain` is the
re-registration queue of the process, `cached` the tenant's entry of `cachedExpanded`, `served` the
version its registered functions run.

| actions | code |
| --- | --- |
| `Acquire`, `Owned`, `AssertOwnedFails`, `RenewLease`, `Release`, `LeaseExpires` | `services/durable-lease.ts` |
| `StartUpload`, `Stage`, `CommitUpload`, `Unstage`, `UndoUpload`, `UndoUploadFails`, `RemoveStaged` | the upload route, `tenant-code.ts` 181-560 and `stageArchiveDurably` |
| `StartRollback`, `CommitRollback`, `RollbackRefused`, `RestoreLane` | `deployment-rollback.ts` |
| `StartRemove`, `CheckRemove`, `Quarantine`, `DropRow`, `Purge`, `PutBack`, `Reinsert` | `removeLiveTenantCode`, `tenant-code.ts` 735-1060 |
| `Resolve`, `Swap`, `Sync`, `Verify` and their failures | `rebuildTenantFns`, `inngest-registry.ts`, `resolveLiveVersion` |
| `Restart` | process death and `loadLiveTenants` at boot |

**Abstractions.**  The history check of an upload lets a version have one row, so rows are indexed
by version; a row whose workflow version was deleted with its workflow counts as none.  Times are
logical and never tie.  There is one API process.  Whether a removal is of the
only version is read after its checks, as at `tenant-code.ts:901`.  A quarantine or its undoing
may fail with the rename done, when only the sync of the directory failed, and the transaction of
an upload's compensation may fail itself.  A release may fail, and is then only logged.
Refusals that come from the workflow lane (a pending import) are faults of the swap.  The last
`assertOwned` of the wrapper turns a removal's success into an error; an upload's answer is written
before it.

| run | checks | instance |
| --- | --- | --- |
| `code_lane` | types, `OneLive`, `ServedIsLive`, `PackageKept`, `AnswersTruthfully`, `RestoredExactly`, `NewerActivationStands` | two operations, three versions, an empty lane and lanes with one or two uploads, three faults, one lapse, one restart; 2.4 M states |
| `removed_code` | `ReturnedToPackaged` violated | one removal of the only upload, no fault |

**Premises.**  Uploads and removals acquire the lease and never assert it, so some properties hold
only as long as leases last (`lapses = 0`), and some also across a lapse provided no removal takes
part (`RemovalsAlone`): a swap that meets a package in quarantine keeps the old functions and
succeeds.  Without the premise TLC shows a stale upload swapped in over the owner's version; a lane
that compares equal again after a stale upload was activated and undone, so that a rollback vouches
for code it does not serve; and a failed first upload brought back by a removal's compensation.
`RestoredExactly` speaks of the served code only where the operation swapped again or no recovery
was broken before it: a removal that fails before it touched the rows does not swap, and leaves
whatever an earlier broken recovery had left served (three faults show it).  `OneLive` and
`NewerActivationStands` have no premise.  A crash between staging and commit leaves a
package without a row, which boot serves when the lane is empty; `ServedIsLive` speaks of lanes
with a live row.

**Bounds.**  Two operations are an owner and a stale one, or one that fails and its successor; three
versions let an upload, a rollback and a bystander differ; three faults allow a failure, a failed
compensation and a failure of the successor; one lapse makes one operation stale, and two were
explored as well without a change.  Each operation runs once, so a behaviour may stop: `CHECK_DEADLOCK FALSE`.

## 6. OntocodeJobs and HarnessPool

One build session of OntoCode: its user proposes commands, in chat turns or by themselves,
approves or rejects them, and a pool of workers executes each as a Harness job.  A build may stop
at a question; the answer is another command, whose job takes the build's execution over.

**State.**  `mode`, `phase` and `activity` are columns of the session row (`activity` keeps apart
idle, cancelled and everything else, and `phase` completed from any other, because nothing
reads more).  Workers write the phase with the activity, under the fence of their claim (`Start`,
`StartRefused`, `Wait`, and `Advances` in `Success`).  `cmds[c]` is a command, with
the human decision recorded for it and the job whose question it answers; `jobs[j]` a Harness job
with its attempts, the worker of its claim and the execution it is bound to; `again` is a history
flag for a retry by the user.  `execs[e]` is the build execution that job `e` created: its state,
its pending question, the pending answer and whether that is marked as delivered.  `inbox` is the
mailbox of the generation engine.  `wk[w]` is one call of `runNext`: its claim, the mode read with
it, the question it has to deliver, and where it is.

| actions | code |
| --- | --- |
| `UpdateMode`, `Talk`, `Close`, `CreateCommand`, `Turn`, `Decide`, `PostJob`, `Cancel`, `Retry` | the operations of `ontocode-session-store.ts`, one transaction each, with the checks of their routes |
| `Start`, `StartRefused`, `StartLost` | `claimNextJob`, `loadContext`, `markRunning`: no await lies between them |
| `Ensure`, `Deliver`, `DeliverAndDie` | `ensureOntoCodeBuildExecution`, the enqueueing of the answer and its mark |
| `Success`, `Wait`, `RetryLater`, `Fail`, `FinishFail` | `finalizeSuccess` with the continuation of a pipeline, `finalizeWaiting`, `finalizeFailure` |
| `Heartbeat`, `LoseLease`, `Age`, `Overrun`, `Die` | leases, retry delays and process death |
| `Start`, `Stop`, `Tick`, `Finish` of HarnessPool | the controller's timer and `runOnce` |

**Abstractions.**  The eleven kinds of command are one for each class of the policy table and each
kind of executor.  A claim is fenced by `startedAt`, for which `owner` stands; the candidates of a
claim come in any order.  A revision conflict (409) or an idempotent replay changes nothing.  `Decide`
does not ask for `proposed`, which no code writes, nor `Close` for a phase beside release and
observe, which excludes no state that its other guards let through.  A refused candidate ends
`failed_recoverable`, which `markRunning` writes for every reason of refusal.  The checks of a
delivery against its conversation and ledger end as `RetryLater` and `Fail` do.  `inbox` is a set:
the engine's mailbox refuses a copy of a message that is queued or leased, and may take the same
answer again after its acknowledgement (`agent-factory/mailbox.ts:299`); delivery is at least once
and such copies are not told apart.  Left
out: deletion of a session, configuration tasks (which also block a close), jobs without a command
(internal callers only), the adoption of executions that older versions left unbound, candidate
details, and what an executor computes.

| run | checks | instance |
| --- | --- | --- |
| `onto_jobs` | types, `OneInFlight`, `ClosedIsQuiet`, `WorkFitsMode`, `ExecutionFollows`, `OneOwner`, `DeliveredWasMailed`, `OneAnswer`, `ClosedStays`, `FinalStays`, and `Rests` under fairness | ten plans, two workers, up to four jobs; 0.65 M states |
| `pool_serial` | `FreeSlotIsUsed` violated | two sessions, three slots |

**Bounds.**  All features at once are out of TLC's reach, so a behaviour keeps to one of ten
`Plans`: which commands its user sends, which modes are chosen, whether there are cancellations,
and how many jobs, questions, retries and faults there may be.  Each plan lets one part of the
protocol unfold against the workers: verifications with a fault and a retry, builds with a
question and a fault, a build that asks twice, two answers prepared for one question, builds under
approval, pipelines while the mode changes, releases.  The proofs hold for every set of plans.
Two workers are an owner and the one that takes over.  They are two calls of `runNext`, which the
pool is designed for and a second process would give; that the shipped controller runs them one
after the other is what `pool_serial` shows.

**Fairness.**  A worker's next step, because the scheduler polls and an executor ends or is
aborted at its deadline; the clocks.  Not the user, and not faults, whose number is bounded: a job
whose context can never be loaded is claimed and lost again for ever, because an attempt is
counted only by `markRunning`, and `Rests` would not hold.

## 7. WriterLease

The directory beside the SQLite file that permits one supervised process tree to write it.

**State.**  `pc[s]` and `child[s]` are a supervisor and its child, a migration and then the
server, which outlives a supervisor that is killed.  `lease` is what stands at the path: the
directory, named after the supervisor that made it, and the tokens in its two records.  `rec[r]`
is a recovery command: what it has proved, and of whom.  `robbed` is a history variable: the
trees whose lease somebody else removed while they lived.

**Actions.**  One for each file-system call that another process may come in front of:
`Mkdir`, `WriteOwner`, `WriteBeat`, `AcquireFails`, `UnlinkOwner`, `UnlinkBeat`, `Rmdir`
(`acquireSqliteWriterLease` and its cleanup); `StartMigration`,
`StartServer`, `Close`, `HeartbeatFails`, `HeartbeatLost`, `Retain` (`runSqliteWriterSupervisor`);
`FinalBeat`, `Authorize`, `OpenOwn`, `Checkpoint`, `CloseFails`, `Release`
(`checkpointAndRelease`); `ChildCheck`,
`ChildOpen`, `ChildExit` (`assertWritableDatabaseAuthorized`, `getDb`); `Inspect`, `ProveDead`,
`ProveClosed`, `Refuse`, `Remove` (`recoverStaleSqliteWriterLease`); `Crash`.

**Abstractions.**  A supervisor is one launch with a token of its own; pids are not reused.  The
sequence number of the heartbeat plays no part.  The check and the rename of a release are two
steps.  Left out: the recovery inside the production setup, which proves no owner's death and
whose comment admits a narrowed window, and the exception for a container's proxy process.

| run | checks | instance |
| --- | --- | --- |
| `writer_lease` | types, `OverlapNeedsTheft`, and `TheftIsNoticed` under `FairSpec` | three supervisors, two recoveries; 0.5 M states |
| `lease_stolen` | `OneWriterTree` violated | two supervisors, one recovery |

**Bounds.**  Two supervisors are a dead owner's orphan and its successor, the third a lease that
is fresh when a slow recovery removes it; two recoveries let the second act on the first one's
proof.  **Fairness.**  The heartbeat's timer fires, and a child that was sent SIGTERM is killed
when it does not end.

## 8. What is proved

Every theorem holds for every value of the constants that meets the named assumptions
(`PlanAssumption`, `NullAssumption`, `BoundAssumption`; `RouteAssumption`,
`KeyedNullAssumption`, `StableIdAssumption`, `FaultAssumption`; `FreeAssumption`,
`BoundsAssumption`, `OldAssumption`, `HistoryAssumption`; `WorkerAssumption`, `SizeAssumption` and
the `PlanAssumption` of OntocodeJobs; `NobodyAssumption`): any plan, any number of tasks, callers,
clients, operations, versions, starting lanes, workers, jobs, supervisors, recoveries, faults and
lapses.

*RunLifecycleProofs.*  The inductive invariant is `TypeOK /\ DecisionInv`.  `DecisionInv` is
needed because "the first answer wins" is not inductive: it has to follow the answer through
the claim on the row, the dispatcher, the broker and the function, and say that all of them hold
the one claimed on the row (`RowsBound`, `SendsBound`, `WakeupsBound`, `FunctionBound`).  The
lemma `StepMoves` reduces every step of `Next` to one move of one task along its life, or to none;
the invariant's parts and the refinement of `HumanDecision` (`Refinement`) are proved of moves.

*RunGateProofs.*  `TerminalIsFinal` and `HoldIsKept` rest on `StatusInv`: the row exists once
the function has started, "ok" is written by its last step only, and whatever may lift a hold
(a committing or undelivered resume, an unparked function) goes back to an accepted resume.

In the same module `GateInv` relates the function's position to the tasks: a resolved task belongs
to an action already passed, or is the one whose answer the function holds, and every manual
action already passed has a resolved task.  It gives `ResolvedMeansConsumed`, `OneDecision`,
`RejectionStops` and, with what the last steps write, `OkMeansDecided`; `WaitingRunsAreOwned`
follows the tasks of a waiting run.

*KeyedRequestsProofs.*  `BackedInv` follows one operation id from the claim that drew it to the
answers that name it: whoever executes it, stores it or had it delivered speaks for one body, and
its row is written before it is sent; `AckBacked` is its last conjunct.  `OneInv` says that, until
the row lapses, everyone executing and everything delivered is the row's operation, and for a webhook
always the key's own id; `OneHolds` follows.  `LeaseInv` says that a request under a
running lease is the owner of the stored claim; `LeaseHolds` assumes `TtlCoversLease`.  It has to:
the configuration accepts a TTL below the lease, and TLC then finds two requests executing at once.
`KeyKeepsItsPromise` is the refinement of `KeyedOperation`: `StepKeepsPromise` maps every action to a
step of the promise or a stutter, from `BackedInv`, `OneInv` and `PromiseInv` (only the reserved run
of the row can be cancelled while the row is retained, and no request is answered twice).
`RetainedAnswersAgree` then follows from the promise alone.

*TenantCodeProofs.*  `CodeTypeCorrect` is the type invariant.  `OneLiveHolds` rests on
`OneInv == OneLive /\ OneBefore /\ KindAt`: the lane an operation read and may write back has one
live version as well, and an operation stands only where its kind can be, which keeps the moves of
an upload, a rollback and a removal apart.  `Writes` lists the actions that write rows; the lemma
`OnlyWritesWrite` says that there are no others, `WorkMoves` what a step does to an operation's
own record, and `WritesOne` goes through the writers.  `NewerActivationStays` needs `KindAt` and
`RestoresItsOwn`: a rollback writes twice, the second time only when the live version is the one
it activated itself.

*TenantCodeLaneProofs.*  Rows, files and served code are related by two accounts, because no one
account covers what the properties cover.  `AloneInv` is for the time while leases last: only the
holder of the row is at work (`HeldInv`, which is `OneAtWork`), so one can say at each of its
points what it has made of the lane (`Uploaded`, `RolledBack`, `Removed`, ...), whether its
package is in place, and from which point on the live version is what is served (`SwapAt`).  Each
stage relates the rows to the lane the operation read, which is what makes the compensations exact:
`UndoRestores`, `RestoreRestores` and `ReinsertRestores` compute that writing the statuses or the
rows back gives the very lane that was read.  `CoveredInv` says that a known version has its package
in a directory or in quarantine, `CalmInv` that beside no operation the live version is served,
unless a recovery was reported broken or the package is missing.  `OverlapInv` is for uploads and
rollbacks that overlap after lapses: `OwnersInv` says whose package a directory is, so that no
cleanup takes another's, and `SwapInv` with `ChainInv` that whoever changed the live row has still
to swap, compensates, or has reported a broken recovery.  Both rest on `LaneInv`: rows need a
workflow row, a blank row is blank in every lane that is kept, and an upload that has not committed
has left its id nowhere, so that its compensation deletes nobody else's row.  `LaneAccounts` puts
them together; `LivePackageKept`, `QuietTenantServesLive`, `SuccessIsTrue` and
`RestorationIsExact` follow, the last two through `Answers`, which lists the five steps that
answer.

*OntocodeJobsProofs.*  `ClaimsAreSerial`, `FinalForGood` and `ClosedForGood` need little beyond
types: the claim looks at the siblings, every write of a worker carries its fence, and the
activity of a closed session is written only by operations that a closed session refuses.
`ClosedSessionsRest` needs that a worker whose claim still holds has its job in a blocking state.
`ModeHolds` is the deep one: `WorkFitsMode` is not inductive, because what executes now was
accepted earlier.  `ModeInv` follows it: whatever may still execute fits the mode as it stands
(`JobFits`), a command that may still run was accepted under this mode (`CmdFits`), which the
guard of `updateOntoCodeSession` secures, and a worker that may continue a pipeline by itself
holds a mode that is still the session's (`WorkerFits`).

*OntocodeBuildsProofs.*  `BuildInv` adds to the modes' invariant whose executions are whose.
`OneOwner` needs that the job which created an execution keeps it (`Rooted`), so that a job which
creates its own cannot meet another's.  `ExecutionFollows` needs that a job waiting for an answer
does not also wait for an approval (`Fits`): its approval would queue it with the question still
open.  For `OneAnswer` the mailbox is not enough: `Copies` adds the answers that executions carry
and that workers hold, whether they still have their lease or not, and `MailInv` says that these
never disagree, because the number of a question does not come again and an open question has no
copy of an answer.  `AnswerInv` says that a job delivers its own answer only.  The steps fall into
those that keep who has which execution (`BuildKept`), the one that creates an execution
(`BuildBind`) and the one that takes it over (`Taken`).

*WriterLeaseProofs.*  `LeaseExcludes` follows a tree from its lease to its open file: a tree that
lives after its lease was written either still has it or was robbed, so two trees that write at
once cannot both have theirs.

Only model-checked: liveness (`DecisionSettles`, `ActiveRunLeaves`, `Answered`, `Rests`,
`TheftIsNoticed`), because the prover handles neither fairness nor `ENABLED`; and the violated
statements, which are counterexamples.  What a recursive
definition computes for every input would need induction over data, which is out of the prover's
reach too; nothing so far depends on it.

## 9. Where the code and its documentation differ

Each is a run that TLC must find violated, with the quoted line in `PROJECT.json`.

- `resume_wakes`: a resume between the pause check and the registration of the wait is accepted
  and lost; the row reads `running` over a parked function.
- `resolved_consumed`: an attempt lost after `close-task` committed leaves a `resolved` task and
  a function that gives up.
- `removed_code`: after the removal of the only uploaded version the cached registry keeps the
  removed code, which stays served until the next boot.
- `pool_serial`: while one Harness job executes nothing polls for another, whatever the configured
  concurrency.
- `lease_stolen`: a recovery removes a lease under a tree whose child is about to open the file.

Others are visible in the models and have no run.  Pausing a run that waits on a task
(`routes/v1/runs.ts:672`, "Run will park before its next action until resumed.") makes its owner
unrecoverable (`Recoverable`), and the next sweep fails the task.  A reserved run whose send failed
and that was cancelled in the queue is acknowledged as enqueued at the next retry, although
`routes/v1/agent-invoke.ts:679` says its status proves that the event was consumed (`Settled`;
`AckIsBacked` leaves cancelled runs out).  Cancelling a paused run kills its function and
leaves the row `paused` (`DeliverCancel`, `CancelCommit`).  A pause after the last gate makes
`finalize-dispatched` throw until the function is gone, its events already sent (`Complete`).
Rejecting a task of a legacy manifest fails the run (`AfterDecision`), although `CONTEXT.md` calls
a reject a resolution and not a failure.  A key TTL configured below the lease lets two operations
execute (`TtlCoversLease`).  Uploads and removals never assert their lease (`Holds`), so after a
lapse a stale one compensates over its successor (`UndoUpload`, `Reinsert`).  In OntoCode, a cancel
ends the jobs and leaves their commands `queued` or `running` for ever, which blocks any later
change of mode (`Cancel`, `ModeFree`); a command approved with its job linked stays `approved`
and can be posted as a second job on one approval (`Decide`, `PostJob`); rejecting the command of an answer
leaves its build `resuming` with every job cancelled (`Decide`); a deployment that waits for its
user can never leave that state, so the session can be neither closed nor given another mode
(`Wait`, `Resumable`); a retry by the user does not look at the mode (`Retry`, the exemption in
`WorkFitsMode`); a chat turn makes a session with a running job read idle (`Talk`).  A supervisor
killed between `mkdir` and its records leaves a lease that the recovery command refuses to inspect.

Hazards of the code that no property covers, and that `PROJECT.json` does not list: a live function whose row the orphan
sweep ended (`reconcile-runs.ts:110`); event rows and run rows inserted twice by a lost `finalize`
or `init` attempt (`register.ts:4904`, `1429`); the legacy upsert of `POST /events`
(`events.ts:160`); recovery of a synchronous invoke (`agent-invoke.ts:823`); a webhook key reused
for another body after an ambiguous send (`webhooks.ts:762`); a swap that meets a package in
quarantine (`bootstrap.ts:320`); the disk fallback at boot for a first upload that never committed
(`tenant-loader.ts:225`); and a lease assertion that discards committed work
(`durable-lease.ts:194`).

## 10. Not modelled

Parts of pure data transformation (manifest parsing, condition evaluation, the ontology
compiler), user interfaces, generated protocol types, request-local authentication, and leaf
tools.  The remaining coordination parts are in the plan above with their order, and in
`PROJECT.json` with the reason for each.
