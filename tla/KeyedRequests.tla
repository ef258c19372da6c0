---------------------------- MODULE KeyedRequests ----------------------------
(***************************************************************************)
(* The requests that carry one Idempotency-Key on a route with durable     *)
(* claims: POST /agents/:name/invoke for a manifest agent ("manifest") or  *)
(* for a code agent run asynchronously ("async"), and the signed webhook   *)
(* ("webhook").  One row of idempotency_keys arbitrates.                   *)
(*                                                                         *)
(* Every function of services/idempotency.ts is one SQLite transaction and *)
(* one action here, together with the code of the route up to its next     *)
(* await.  A client sends one request at a time and may send it again; the *)
(* copies of a duplicated request are different clients with one body.     *)
(***************************************************************************)
EXTENDS Naturals

CONSTANTS
    Routes,         \* the routes considered, of "manifest", "async" and "webhook"
    Clients,
    Body,           \* Body[c]: what the fingerprint of c's request tells apart
    OpIds,          \* event ids of the operation recipes
    StableId,       \* a webhook's event id, a hash of tenant, source and key
    NoClient, NoOp, NoBody,
    TtlCoversLease, \* AGENTIC_IDEMPOTENCY_TTL_MS >= AGENTIC_IDEMPOTENCY_LEASE_MS
    MaxFaults       \* bound: failed validations, sends and writes, restarts, overrun leases

Bodies == {Body[c] : c \in Clients}

ASSUME RouteAssumption == Routes \subseteq {"manifest", "async", "webhook"}
ASSUME KeyedNullAssumption == NoClient \notin Clients /\ NoOp \notin OpIds /\ NoBody \notin Bodies
ASSUME StableIdAssumption == StableId \in OpIds
ASSUME FaultAssumption == MaxFaults \in Nat /\ TtlCoversLease \in BOOLEAN

VARIABLES
    route,      \* the route these requests use
    row,        \* the row of the key
    over,       \* over[c]: the lease of c's claim has run out
    pc,         \* pc[c]: where c's request is
    op,         \* op[c]: the event id of the recipe c executes
    ack,        \* ack[c]: the event id of the success answer c got
    rows,       \* events rows ("manifest") or reserved runs rows ("async")
    started,    \* reserved runs the worker has started
    cancelled,  \* reserved runs an operator cancelled while they were queued
    delivered,  \* what the broker accepted under each event id
    lapsed,     \* the row has outlived its TTL and was dropped
    faults

vars == <<route, row, over, pc, op, ack, rows, started, cancelled, delivered, lapsed, faults>>
world == <<rows, started, cancelled, delivered>>

Pcs == {"idle", "looked", "ledger", "sending", "sent", "done"}

\* After the claim and before the answer.
Executing == {"ledger", "sending", "sent"}

NoRow == [state |-> "absent", owner |-> NoClient, body |-> NoBody, op |-> NoOp,
          expired |-> FALSE]

Row == [state : {"pending", "complete"}, owner : Clients, body : Bodies, op : OpIds,
        expired : BOOLEAN]

Init ==
    /\ route \in Routes
    /\ row = NoRow
    /\ over = [c \in Clients |-> TRUE]
    /\ pc = [c \in Clients |-> "idle"]
    /\ op = [c \in Clients |-> NoOp]
    /\ ack = [c \in Clients |-> NoOp]
    /\ rows = {} /\ started = {} /\ cancelled = {}
    /\ delivered = [o \in OpIds |-> NoBody]
    /\ lapsed = FALSE
    /\ faults = 0

Fault == faults < MaxFaults /\ faults' = faults + 1

-----------------------------------------------------------------------------
(* Answers                                                                  *)

\* A success answer, the caller's own or the stored one.
Answer(c, o) ==
    /\ pc' = [pc EXCEPT ![c] = "done"]
    /\ ack' = [ack EXCEPT ![c] = o]

\* 409, 500, 502 or 503: no success; the client may send the request again.
Refuse(c) ==
    /\ pc' = [pc EXCEPT ![c] = "done"]
    /\ UNCHANGED ack

Goto(c, p) ==
    /\ pc' = [pc EXCEPT ![c] = p]
    /\ UNCHANGED ack

-----------------------------------------------------------------------------
(* The row                                                                  *)

Present == row.state # "absent" /\ ~row.expired

Replayable == Present /\ row.state = "complete"

\* Mutant: a pending claim is taken over whatever its lease says.
ReclaimableAtOnce == row.state = "pending"

Reclaimable == row.state = "pending" /\ over[row.owner]

FirstClaim(c, o) ==
    [state |-> "pending", owner |-> c, body |-> Body[c], op |-> o, expired |-> FALSE]

\* A recovered claim keeps the stored recipe.
Reclaimed(c) == [row EXCEPT !.owner = c, !.expired = FALSE]

\* Mutant: the completion checks nothing.
OwnsUnchecked(c) == TRUE

Owns(c) == row.state = "pending" /\ row.body = Body[c] /\ row.owner = c

Completed(r) == [r EXCEPT !.state = "complete", !.expired = FALSE]

\* Mutant: the claim is deleted by key alone.
AbandonByKey(c) == row' = NoRow

\* abandonIdempotency: a missing row is fine, a row of someone else throws.
Abandon(c) == row' = IF Owns(c) THEN NoRow ELSE row

-----------------------------------------------------------------------------
(* The routes                                                               *)

\* Mutant: the stored answer is replayed whatever body the request has.
LookupAnyBody(c) ==
    /\ route # "webhook" /\ pc[c] = "idle"
    /\ IF Replayable THEN Answer(c, row.op) ELSE Goto(c, "looked")
    /\ UNCHANGED <<route, row, over, op, world, lapsed, faults>>

\* lookupIdempotency, ahead of the validations that await; not in the webhook.
Lookup(c) ==
    /\ route # "webhook" /\ pc[c] = "idle"
    /\ IF Present /\ row.body # Body[c] THEN Refuse(c)
       ELSE IF Replayable THEN Answer(c, row.op)
       ELSE Goto(c, "looked")
    /\ UNCHANGED <<route, row, over, op, world, lapsed, faults>>

\* A validation between the lookup and the claim refuses: the agent is gone or
\* disabled, the gateway has no such provider.  Bounded like a failed call.
ValidationFails(c) ==
    /\ route # "webhook" /\ pc[c] = "looked"
    /\ Fault /\ Refuse(c)
    /\ UNCHANGED <<route, row, over, op, world, lapsed>>

\* Mutants: an existing run row is taken for a started run; the events row of a
\* recovered recipe is written again.
ExistingMeansSettled(o) == route = "async" /\ o \in rows
PersistsAgain(o) == route = "manifest"

\* The reserved run is no longer queued.
Settled(o) == route = "async" /\ o \in started \cup cancelled
NeedsLedger(o) == route = "manifest" /\ o \notin rows

\* What the owner of claim r does up to its first await: a run that left the
\* queue is acknowledged at once, anything else is sent (again).
Execute(c, o, r) ==
    /\ op' = [op EXCEPT ![c] = o]
    /\ over' = [over EXCEPT ![c] = FALSE]
    /\ rows' = IF route = "async" THEN rows \cup {o} ELSE rows
    /\ IF Settled(o)
       THEN row' = Completed(r) /\ Answer(c, o)
       ELSE row' = r /\ Goto(c, IF NeedsLedger(o) THEN "ledger" ELSE "sending")

\* Event ids seen nowhere; a webhook's id does not depend on the request.
FreshIds ==
    {o \in OpIds : /\ o \notin rows /\ delivered[o] = NoBody /\ row.op # o
                   /\ \A c \in Clients : op[c] # o /\ ack[c] # o}
NewIds == IF route = "webhook" THEN {StableId} ELSE FreshIds

AtClaim(c) == pc[c] = IF route = "webhook" THEN "idle" ELSE "looked"

\* claimIdempotency, no row or an expired one.
ClaimFirst(c) ==
    /\ AtClaim(c) /\ ~Present
    /\ \E o \in NewIds : Execute(c, o, FirstClaim(c, o))
    /\ lapsed' = (lapsed \/ row.state # "absent")
    /\ UNCHANGED <<route, started, cancelled, delivered, faults>>

\* Mutant: a recovered claim executes the recipe of the new request.
ReclaimNewRecipe(c) ==
    /\ AtClaim(c) /\ Present /\ row.body = Body[c] /\ Reclaimable
    /\ \E o \in NewIds : Execute(c, o, [Reclaimed(c) EXCEPT !.op = o])
    /\ UNCHANGED <<route, started, cancelled, delivered, lapsed, faults>>

\* claimIdempotency, the lease of the stored claim has run out.
Reclaim(c) ==
    /\ AtClaim(c) /\ Present /\ row.body = Body[c] /\ Reclaimable
    /\ Execute(c, row.op, Reclaimed(c))
    /\ UNCHANGED <<route, started, cancelled, delivered, lapsed, faults>>

\* claimIdempotency, replay, live claim of another, or another body.
ClaimDenied(c) ==
    /\ AtClaim(c) /\ Present
    /\ IF row.body = Body[c] /\ Replayable THEN Answer(c, row.op)
       ELSE (row.body = Body[c] => ~Reclaimable) /\ Refuse(c)
    /\ UNCHANGED <<route, row, over, op, world, lapsed, faults>>

\* The webhook's replay is not acknowledged without its audit record.
ReplayFails(c) ==
    /\ route = "webhook" /\ AtClaim(c) /\ Replayable /\ row.body = Body[c]
    /\ Fault /\ Refuse(c)
    /\ UNCHANGED <<route, row, over, op, world, lapsed>>

\* After appendToLedger; a second insert of the same id is a primary-key error.
Persist(c) ==
    /\ pc[c] = "ledger"
    /\ IF op[c] \in rows THEN Refuse(c) /\ UNCHANGED rows
       ELSE rows' = rows \cup {op[c]} /\ Goto(c, "sending")
    /\ UNCHANGED <<route, row, over, op, started, cancelled, delivered, lapsed, faults>>

PersistFails(c) ==
    /\ pc[c] = "ledger"
    /\ Fault /\ Refuse(c)
    /\ UNCHANGED <<route, row, over, op, world, lapsed>>

\* The broker keeps the first copy of an event id.
SendAccepted(c) ==
    /\ pc[c] = "sending"
    /\ Goto(c, "sent")
    /\ delivered' = [delivered EXCEPT ![op[c]] = IF @ = NoBody THEN Body[c] ELSE @]
    /\ UNCHANGED <<route, row, over, op, rows, started, cancelled, lapsed, faults>>

\* The send throws, whether or not the broker had accepted the event.
SendThrows(c) ==
    /\ pc[c] \in {"sending", "sent"}
    /\ Fault /\ Refuse(c)
    /\ IF route = "webhook" THEN Abandon(c) ELSE UNCHANGED row
    /\ UNCHANGED <<route, over, op, world, lapsed>>

\* completeIdempotency, then the answer.
Respond(c) ==
    /\ pc[c] = "sent"
    /\ IF Owns(c) THEN row' = Completed(row) /\ Answer(c, op[c])
       ELSE Refuse(c) /\ UNCHANGED row
    /\ UNCHANGED <<route, over, op, world, lapsed, faults>>

\* The write of the completion, or the webhook's mandatory audit, fails.
RespondFails(c) ==
    /\ pc[c] = "sent"
    /\ Fault /\ Refuse(c)
    /\ \/ UNCHANGED row
       \/ route = "webhook" /\ Abandon(c)
    /\ UNCHANGED <<route, over, op, world, lapsed>>

-----------------------------------------------------------------------------
(* Everything else                                                          *)

\* The code agent's worker promotes the reserved run.
StartRun(o) ==
    /\ route = "async" /\ o \in rows \ (started \cup cancelled) /\ delivered[o] # NoBody
    /\ started' = started \cup {o}
    /\ UNCHANGED <<route, row, over, pc, op, ack, rows, cancelled, delivered, lapsed, faults>>

\* POST /runs/:id/cancel on a queued code-agent run writes the row at once.
CancelQueued(o) ==
    /\ route = "async" /\ o \in rows \ (started \cup cancelled)
    /\ cancelled' = cancelled \cup {o}
    /\ UNCHANGED <<route, row, over, pc, op, ack, rows, started, delivered, lapsed, faults>>

\* A lease that runs out under a request still executing counts as a fault.
LeaseEnds(c) ==
    /\ ~over[c]
    /\ over' = [over EXCEPT ![c] = TRUE]
    /\ IF pc[c] \in Executing THEN Fault ELSE UNCHANGED faults
    /\ UNCHANGED <<route, row, pc, op, ack, world, lapsed>>

\* expiresAt passes: claiming sets lease and expiry together, completing and
\* reclaiming set it again.  Bound: one lapse.
RowExpires ==
    /\ Present /\ ~lapsed
    /\ row.state = "complete" \/ over[row.owner] \/ ~TtlCoversLease
    /\ row' = [row EXCEPT !.expired = TRUE]
    /\ UNCHANGED <<route, over, pc, op, ack, world, lapsed, faults>>

\* The retention pass deletes expired rows.
Purge ==
    /\ row.expired
    /\ row' = NoRow
    /\ lapsed' = TRUE
    /\ UNCHANGED <<route, over, pc, op, ack, world, faults>>

Resend(c) ==
    /\ pc[c] = "done"
    /\ pc' = [pc EXCEPT ![c] = "idle"]
    /\ op' = [op EXCEPT ![c] = NoOp]
    /\ ack' = [ack EXCEPT ![c] = NoOp]
    /\ UNCHANGED <<route, row, over, world, lapsed, faults>>

\* The process restarts: requests in progress get no answer.
Restart ==
    /\ Fault
    /\ pc' = [c \in Clients |-> IF pc[c] = "idle" THEN "idle" ELSE "done"]
    /\ UNCHANGED <<route, row, over, op, ack, world, lapsed>>

-----------------------------------------------------------------------------
Handle(c) ==
    \/ Lookup(c) \/ ClaimFirst(c) \/ Reclaim(c) \/ ClaimDenied(c)
    \/ Persist(c) \/ SendAccepted(c) \/ Respond(c)

Next ==
    \/ \E c \in Clients :
        \/ Handle(c) \/ ValidationFails(c) \/ ReplayFails(c) \/ PersistFails(c) \/ SendThrows(c)
        \/ RespondFails(c) \/ LeaseEnds(c) \/ Resend(c)
    \/ \E o \in OpIds : StartRun(o) \/ CancelQueued(o)
    \/ RowExpires \/ Purge \/ Restart

Spec == Init /\ [][Next]_vars

\* Requests run on, time passes, and a client without a success tries again, as
\* every refusal tells it to.
FairSpec ==
    /\ Spec
    /\ \A c \in Clients :
        /\ WF_vars(Handle(c))
        /\ WF_vars(LeaseEnds(c))
        /\ WF_vars(ack[c] = NoOp /\ Resend(c))

-----------------------------------------------------------------------------
(* Properties                                                               *)

\* Every variable stays in its domain, and a request that executes has a recipe.
TypeOK ==
    /\ route \in Routes
    /\ row \in Row \cup {NoRow}
    /\ over \in [Clients -> BOOLEAN]
    /\ pc \in [Clients -> Pcs]
    /\ op \in [Clients -> OpIds \cup {NoOp}]
    /\ \A c \in Clients : pc[c] \in Executing => op[c] \in OpIds
    /\ ack \in [Clients -> OpIds \cup {NoOp}]
    /\ rows \subseteq OpIds
    /\ started \subseteq rows /\ cancelled \subseteq rows
    /\ delivered \in [OpIds -> Bodies \cup {NoBody}]
    /\ lapsed \in BOOLEAN
    /\ faults \in 0..MaxFaults

\* However many requests race, retry or recover a claim, the broker gets at most
\* one event for the key while its row is retained (idempotency.ts: a recovered
\* claim inherits the stored recipe).
OneOperation ==
    ~lapsed => \A o, p \in OpIds :
        delivered[o] # NoBody /\ delivered[p] # NoBody => o = p

\* A success answer, also a replayed one, names an event the broker accepted, for
\* the body that client sent, and whose durable row exists (or a reserved run that
\* an operator cancelled in the queue).
AckIsBacked ==
    \A c \in Clients : ack[c] # NoOp /\ ack[c] \notin cancelled =>
        /\ delivered[ack[c]] # NoBody
        /\ route # "webhook" => delivered[ack[c]] = Body[c] /\ ack[c] \in rows

\* No two requests execute the operation under running leases (idempotency.ts:
\* "concurrent callers therefore observe pending/replay instead of executing").
LeaseIsExclusive ==
    \A c, d \in Clients :
        /\ pc[c] \in Executing /\ ~over[c]
        /\ pc[d] \in Executing /\ ~over[d]
        => c = d

\* A stored answer is replayed unchanged until it expires: no stale owner's
\* completion, abandon or recovery touches it.
CompletedStays ==
    [][ row.state = "complete" /\ ~row.expired =>
          row' = row \/ row' = [row EXCEPT !.expired = TRUE] ]_vars

\* The claims, their recovery and the replays together are a KeyedOperation: every
\* answer given under a retained row, the executor's or a replay, first or repeated,
\* names the one operation, and stands until its client asks again.
KO == INSTANCE KeyedOperation WITH
    performed <- delivered, withdrawn <- cancelled, answer <- ack,
    retained <- ~lapsed, shared <- (route = "webhook")

ImplementsKeyedOperation == KO!Spec

\* A client that keeps trying gets a success answer, whatever was lost, unless
\* the key is in use for a request with another body.
Answered == \A c \in Clients : []<>(ack[c] # NoOp \/ (Present /\ row.body # Body[c]))

=============================================================================
