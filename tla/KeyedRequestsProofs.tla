------------------------- MODULE KeyedRequestsProofs -------------------------
(***************************************************************************)
(* Proofs about KeyedRequests, for every set of clients, every assignment  *)
(* of bodies and any number of faults.                                     *)
(*                                                                         *)
(* Two inductive invariants carry the theorems.  BackedInv follows one     *)
(* operation id from the claim that drew it to the answers that name it:   *)
(* whoever executes it, stores it or delivered it speaks for one body.     *)
(* LeaseInv says that a request that executes under a running lease is the *)
(* owner of the stored, unexpired, pending claim.                          *)
(***************************************************************************)
EXTENDS KeyedRequests, TLAPS

\* What the broker has under an id comes from a request it was claimed for.
DeliveredBacked ==
    /\ \A c \in Clients : pc[c] = "sent" => delivered[op[c]] # NoBody
    /\ row.state = "complete" /\ row.op \notin cancelled => delivered[row.op] # NoBody
    /\ \A o \in started : delivered[o] # NoBody

\* The durable row is written before the event is sent.
DurableFirst ==
    route # "webhook" =>
        /\ \A c \in Clients : pc[c] \in {"sending", "sent"} => op[c] \in rows
        /\ row.state = "complete" => row.op \in rows

\* Everyone who speaks for an operation id speaks for the same body.
OneBody ==
    route # "webhook" =>
        /\ \A c \in Clients : pc[c] \in Executing =>
            /\ row.state # "absent" /\ row.op = op[c] => row.body = Body[c]
            /\ delivered[op[c]] # NoBody => delivered[op[c]] = Body[c]
            /\ \A d \in Clients : pc[d] \in Executing /\ op[d] = op[c] => Body[d] = Body[c]
        /\ row.state # "absent" /\ delivered[row.op] # NoBody => delivered[row.op] = row.body

\* The owner of a pending claim that executes, executes the stored recipe.
OwnerRecipe ==
    \A c \in Clients :
        row.state = "pending" /\ row.owner = c /\ pc[c] \in Executing => op[c] = row.op

BackedInv == OwnerRecipe /\ DeliveredBacked /\ DurableFirst /\ OneBody /\ AckIsBacked

\* While the row is retained there is one operation, the row's; a webhook's is
\* the key's own.
OneInv ==
    /\ ~lapsed /\ route # "webhook" =>
        /\ \A c \in Clients : pc[c] \in Executing => row.state # "absent" /\ op[c] = row.op
        /\ \A o \in OpIds : delivered[o] # NoBody => row.state # "absent" /\ o = row.op
    /\ route = "webhook" =>
        /\ row.state # "absent" => row.op = StableId
        /\ \A c \in Clients : pc[c] \in Executing => op[c] = StableId
        /\ \A o \in OpIds : delivered[o] # NoBody => o = StableId

LeaseInv ==
    TtlCoversLease =>
        \A c \in Clients : pc[c] \in Executing /\ ~over[c] =>
            row.state = "pending" /\ row.owner = c /\ ~row.expired

-----------------------------------------------------------------------------
(* Types                                                                    *)

\* Every variable starts in its domain.
LEMMA KeyedInitTyped == Init => TypeOK
<1> SUFFICES ASSUME Init PROVE TypeOK
  OBVIOUS
<1>1. faults \in 0..MaxFaults
  BY FaultAssumption DEF Init
<1>2. /\ pc \in [Clients -> Pcs] /\ over \in [Clients -> BOOLEAN]
      /\ \A c \in Clients : pc[c] \notin Executing
  BY DEF Init, Pcs, Executing
<1> QED BY <1>1, <1>2 DEF Init, TypeOK

\* Rows that a claim, a recovery or a completion writes are rows.
LEMMA RowsTyped ==
  ASSUME TypeOK
  PROVE  /\ \A c \in Clients, o \in OpIds : FirstClaim(c, o) \in Row
         /\ \A c \in Clients : row.state # "absent" => Reclaimed(c) \in Row
         /\ \A r \in Row : Completed(r) \in Row
         /\ row.state # "absent" => row \in Row /\ [row EXCEPT !.expired = TRUE] \in Row
<1>1. \A c \in Clients, o \in OpIds : FirstClaim(c, o) \in Row
  BY DEF FirstClaim, Row, Bodies
<1>2. row.state # "absent" => row \in Row
  BY DEF TypeOK, NoRow
<1>3. \A r \in Row : Completed(r) \in Row
  BY DEF Completed, Row
<1>4. row \in Row => /\ [row EXCEPT !.expired = TRUE] \in Row
                      /\ \A c \in Clients : Reclaimed(c) \in Row
  BY DEF Reclaimed, Row
<1> QED BY <1>1, <1>2, <1>3, <1>4

\* A claimed operation leaves every variable in its domain.
LEMMA ExecuteTyped ==
  ASSUME TypeOK, NEW c \in Clients, NEW o \in OpIds, NEW r \in Row, Execute(c, o, r),
         UNCHANGED <<route, started, cancelled, delivered>>, lapsed' \in BOOLEAN, UNCHANGED faults
  PROVE  TypeOK'
<1>1. Completed(r) \in Row
  BY RowsTyped
<1> QED BY <1>1 DEF TypeOK, Execute, Answer, Goto, Pcs, Executing

\* Every step keeps every variable in its domain.
LEMMA KeyedStepTyped == TypeOK /\ [Next]_vars => TypeOK'
<1> SUFFICES ASSUME TypeOK, [Next]_vars PROVE TypeOK'
  OBVIOUS
<1> USE FaultAssumption DEF Pcs, Executing, world
<1>1. ASSUME NEW c \in Clients, Lookup(c) PROVE TypeOK'
  BY <1>1 DEF TypeOK, Lookup, Refuse, Answer, Goto, Replayable, Present, Row, NoRow
<1>2. ASSUME NEW c \in Clients, ClaimFirst(c) PROVE TypeOK'
  <2>1. PICK o \in NewIds : Execute(c, o, FirstClaim(c, o))
    BY <1>2 DEF ClaimFirst
  <2>2. o \in OpIds
    BY <2>1, StableIdAssumption DEF NewIds, FreshIds
  <2> QED BY <1>2, <2>1, <2>2, RowsTyped, ExecuteTyped DEF ClaimFirst, TypeOK
<1>3. ASSUME NEW c \in Clients, Reclaim(c) PROVE TypeOK'
  <2>1. row.state # "absent" /\ row.op \in OpIds
    BY <1>3 DEF Reclaim, Present, TypeOK, Row, NoRow
  <2> QED BY <1>3, <2>1, RowsTyped, ExecuteTyped DEF Reclaim, TypeOK
<1>4. ASSUME NEW c \in Clients, ClaimDenied(c) PROVE TypeOK'
  BY <1>4 DEF TypeOK, ClaimDenied, Refuse, Answer, Replayable, Present, Row, NoRow
<1>5. ASSUME NEW c \in Clients, Persist(c) PROVE TypeOK'
  BY <1>5 DEF TypeOK, Persist, Refuse, Goto
<1>6. ASSUME NEW c \in Clients, PersistFails(c) \/ ReplayFails(c) \/ ValidationFails(c) PROVE TypeOK'
  BY <1>6 DEF TypeOK, PersistFails, ReplayFails, ValidationFails, Refuse, Fault
<1>7. ASSUME NEW c \in Clients, SendAccepted(c) PROVE TypeOK'
  <2>1. Body[c] \in Bodies
    BY DEF Bodies
  <2> QED BY <1>7, <2>1 DEF TypeOK, SendAccepted, Goto
<1>8. ASSUME NEW c \in Clients, SendThrows(c) PROVE TypeOK'
  BY <1>8 DEF TypeOK, SendThrows, Refuse, Fault, Abandon
<1>9. ASSUME NEW c \in Clients, Respond(c) PROVE TypeOK'
  <2>1. Owns(c) => Completed(row) \in Row
    BY RowsTyped DEF Owns
  <2> QED BY <1>9, <2>1 DEF TypeOK, Respond, Refuse, Answer
<1>10. ASSUME NEW c \in Clients, RespondFails(c) PROVE TypeOK'
  BY <1>10 DEF TypeOK, RespondFails, Refuse, Fault, Abandon
<1>11. ASSUME NEW c \in Clients, LeaseEnds(c) PROVE TypeOK'
  BY <1>11 DEF TypeOK, LeaseEnds, Fault
<1>12. ASSUME NEW c \in Clients, Resend(c) PROVE TypeOK'
  BY <1>12 DEF TypeOK, Resend
<1>13. ASSUME NEW o \in OpIds, StartRun(o) PROVE TypeOK'
  BY <1>13 DEF TypeOK, StartRun
<1>14. ASSUME NEW o \in OpIds, CancelQueued(o) PROVE TypeOK'
  BY <1>14 DEF TypeOK, CancelQueued
<1>15. CASE RowExpires
  BY <1>15, RowsTyped DEF TypeOK, RowExpires, Present
<1>16. CASE Purge
  BY <1>16 DEF TypeOK, Purge
<1>17. CASE Restart
  BY <1>17 DEF TypeOK, Restart, Fault
<1>18. CASE UNCHANGED vars
  BY <1>18 DEF TypeOK, vars
<1> QED
  BY <1>1, <1>2, <1>3, <1>4, <1>5, <1>6, <1>7, <1>8, <1>9, <1>10, <1>11, <1>12, <1>13,
     <1>14, <1>15, <1>16, <1>17, <1>18 DEF Next, Handle

\* The type invariant, as an invariant of the specification: every variable keeps
\* its domain and a request between claim and answer always has a recipe.
THEOREM KeyedTyped == Spec => []TypeOK
<1>1. Init => TypeOK
  BY KeyedInitTyped
<1>2. TypeOK /\ [Next]_vars => TypeOK'
  BY KeyedStepTyped
<1> QED BY <1>1, <1>2, PTL DEF Spec

-----------------------------------------------------------------------------
(* The lease                                                                *)

\* A running lease and the stored claim stay together through every step.
LEMMA LeaseStep == TypeOK /\ LeaseInv /\ [Next]_vars => LeaseInv'
<1> SUFFICES ASSUME TypeOK, LeaseInv, [Next]_vars, TtlCoversLease,
                    NEW c \in Clients, pc'[c] \in Executing, ~over'[c]
             PROVE  row'.state = "pending" /\ row'.owner = c /\ ~row'.expired
  BY DEF LeaseInv
<1> USE DEF LeaseInv, Executing
<1>1. ASSUME NEW d \in Clients, NEW o \in OpIds, NEW r \in Row, Execute(d, o, r),
             r.state = "pending", r.owner = d, ~r.expired,
             \A e \in Clients \ {d} : pc[e] \in Executing => over[e]
      PROVE  row'.state = "pending" /\ row'.owner = c /\ ~row'.expired
  BY <1>1 DEF TypeOK, Execute, Answer, Goto, Pcs
<1>2. ASSUME NEW d \in Clients, ClaimFirst(d)
      PROVE  row'.state = "pending" /\ row'.owner = c /\ ~row'.expired
  <2>1. PICK o \in NewIds : Execute(d, o, FirstClaim(d, o))
    BY <1>2 DEF ClaimFirst
  <2>2. o \in OpIds
    BY <2>1, StableIdAssumption DEF NewIds, FreshIds
  <2>3. \A e \in Clients : pc[e] \in Executing => over[e]
    BY <1>2 DEF ClaimFirst, Present
  <2> QED BY <1>1, <2>1, <2>2, <2>3, RowsTyped DEF FirstClaim
<1>3. ASSUME NEW d \in Clients, Reclaim(d)
      PROVE  row'.state = "pending" /\ row'.owner = c /\ ~row'.expired
  <2>1. /\ row \in Row /\ row.state = "pending" /\ row.op \in OpIds /\ Reclaimed(d) \in Row
        /\ Execute(d, row.op, Reclaimed(d))
    BY <1>3, RowsTyped DEF Reclaim, Reclaimable, Row
  <2>2. /\ Reclaimed(d).state = "pending" /\ Reclaimed(d).owner = d /\ ~Reclaimed(d).expired
    BY <2>1 DEF Reclaimed, Row
  <2>3. \A e \in Clients : pc[e] \in Executing => over[e]
    BY <1>3 DEF Reclaim, Reclaimable
  <2> QED BY <1>1, <2>1, <2>2, <2>3
<1>4. ASSUME NEW d \in Clients,
             Lookup(d) \/ ClaimDenied(d) \/ Persist(d) \/ PersistFails(d)
               \/ ReplayFails(d) \/ ValidationFails(d) \/ SendAccepted(d)
      PROVE  row'.state = "pending" /\ row'.owner = c /\ ~row'.expired
  BY <1>4 DEF TypeOK, Lookup, ClaimDenied, Persist, PersistFails, ReplayFails, ValidationFails, SendAccepted,
              Refuse, Answer, Goto
<1>5. ASSUME NEW d \in Clients, SendThrows(d) \/ Respond(d) \/ RespondFails(d)
      PROVE  row'.state = "pending" /\ row'.owner = c /\ ~row'.expired
  BY <1>5 DEF TypeOK, SendThrows, Respond, RespondFails, Refuse, Answer, Abandon, Owns
<1>6. ASSUME NEW d \in Clients, LeaseEnds(d) \/ Resend(d)
      PROVE  row'.state = "pending" /\ row'.owner = c /\ ~row'.expired
  BY <1>6 DEF TypeOK, LeaseEnds, Resend
<1>7. CASE RowExpires
  BY <1>7 DEF TypeOK, RowExpires, Present
<1>8. CASE Purge
  BY <1>8 DEF TypeOK, Purge
<1>9. CASE Restart
  BY <1>9 DEF TypeOK, Restart
<1>10. ASSUME NEW o \in OpIds, StartRun(o) \/ CancelQueued(o)
       PROVE  row'.state = "pending" /\ row'.owner = c /\ ~row'.expired
  BY <1>10 DEF StartRun, CancelQueued
<1>11. CASE UNCHANGED vars
  BY <1>11 DEF vars
<1> QED
  BY <1>2, <1>3, <1>4, <1>5, <1>6, <1>7, <1>8, <1>9, <1>10, <1>11 DEF Next, Handle

\* While the TTL covers the lease, no two requests execute the operation under
\* running leases: the second observes a pending or a stored answer.
THEOREM LeaseHolds == TtlCoversLease /\ Spec => []LeaseIsExclusive
<1> SUFFICES ASSUME TtlCoversLease PROVE Spec => []LeaseIsExclusive
  OBVIOUS
<1>1. Init => LeaseInv
  BY DEF Init, LeaseInv, Executing
<1>2. TypeOK /\ LeaseInv /\ [Next]_vars => LeaseInv'
  BY LeaseStep
<1>3. LeaseInv => LeaseIsExclusive
  <2> SUFFICES ASSUME LeaseInv, NEW c \in Clients, NEW d \in Clients,
                      pc[c] \in Executing, ~over[c], pc[d] \in Executing, ~over[d]
               PROVE  c = d
    BY Zenon DEF LeaseIsExclusive
  <2>1. row.owner = c /\ row.owner = d
    BY Zenon DEF LeaseInv
  <2> QED BY <2>1
<1> QED BY <1>1, <1>2, <1>3, KeyedTyped, PTL DEF Spec

-----------------------------------------------------------------------------
(* The stored answer                                                        *)

\* No step rewrites a stored answer before it expires.
THEOREM AnswerStays == Spec => CompletedStays
<1>1. TypeOK /\ [Next]_vars =>
        (row.state = "complete" /\ ~row.expired =>
            row' = row \/ row' = [row EXCEPT !.expired = TRUE])
  <2> SUFFICES ASSUME TypeOK, [Next]_vars, row.state = "complete", ~row.expired
               PROVE  row' = row \/ row' = [row EXCEPT !.expired = TRUE]
    OBVIOUS
  <2>1. ASSUME NEW c \in Clients, ClaimFirst(c) \/ Reclaim(c) PROVE FALSE
    BY <2>1 DEF ClaimFirst, Reclaim, Present, Reclaimable
  <2>2. ASSUME NEW c \in Clients,
               Lookup(c) \/ ClaimDenied(c) \/ Persist(c) \/ PersistFails(c)
                 \/ ReplayFails(c) \/ ValidationFails(c) \/ SendAccepted(c) \/ LeaseEnds(c) \/ Resend(c)
        PROVE  row' = row
    BY <2>2 DEF Lookup, ClaimDenied, Persist, PersistFails, ReplayFails, ValidationFails, SendAccepted,
                LeaseEnds, Resend
  <2>3. ASSUME NEW c \in Clients, SendThrows(c) \/ Respond(c) \/ RespondFails(c)
        PROVE  row' = row
    BY <2>3 DEF SendThrows, Respond, RespondFails, Abandon, Owns
  <2>4. ASSUME NEW o \in OpIds, StartRun(o) \/ CancelQueued(o) PROVE row' = row
    BY <2>4 DEF StartRun, CancelQueued
  <2>5. CASE RowExpires
    BY <2>5 DEF RowExpires
  <2>6. CASE Purge \/ Restart
    BY <2>6 DEF Purge, Restart
  <2>7. CASE UNCHANGED vars
    BY <2>7 DEF vars
  <2> QED BY <2>1, <2>2, <2>3, <2>4, <2>5, <2>6, <2>7 DEF Next, Handle
<1> QED BY <1>1, KeyedTyped, PTL DEF Spec, CompletedStays

-----------------------------------------------------------------------------
(* The answers                                                              *)

\* A claim executes its recipe: the id is new, or the row's own for one body.
LEMMA ExecuteBacked ==
  ASSUME TypeOK, BackedInv, NEW c \in Clients, NEW o \in OpIds, NEW r \in Row,
         Execute(c, o, r), UNCHANGED <<route, started, cancelled, delivered>>,
         r.state = "pending", r.owner = c, r.op = o, r.body = Body[c],
         route # "webhook" =>
            \/ /\ o \notin rows /\ delivered[o] = NoBody
               /\ \A d \in Clients : op[d] # o /\ ack[d] # o
            \/ row.state # "absent" /\ row.op = o /\ row.body = Body[c]
  PROVE  BackedInv'
<1>1. OwnerRecipe'
  BY DEF TypeOK, BackedInv, OwnerRecipe, Execute, Answer, Goto, Completed, Executing, Row
<1>2. DeliveredBacked'
  BY DEF TypeOK, BackedInv, DeliveredBacked, Execute, Answer, Goto, Completed, Settled, Row
<1>3. DurableFirst'
  BY RouteAssumption
     DEF TypeOK, BackedInv, DurableFirst, Execute, Answer, Goto, Completed, Settled,
         NeedsLedger, Row
<1>4. OneBody'
  <2> SUFFICES ASSUME route # "webhook" PROVE OneBody'
    BY DEF OneBody
  <2>1. row'.state # "absent" /\ row'.op = o /\ row'.body = Body[c]
    BY DEF Execute, Completed, Row
  <2>2. op' \in [Clients -> OpIds \cup {NoOp}] /\ op'[c] = o /\ delivered' = delivered
    BY DEF TypeOK, Execute
  <2>3. ASSUME NEW d \in Clients, d # c, pc'[d] \in Executing
        PROVE  pc[d] \in Executing /\ op'[d] = op[d]
    BY <2>3 DEF TypeOK, Execute, Answer, Goto, Executing
  <2>4. ASSUME NEW d \in Clients, pc[d] \in Executing, op[d] = o PROVE Body[d] = Body[c]
    BY <2>4 DEF BackedInv, OneBody
  <2>5. delivered[o] # NoBody => delivered[o] = Body[c]
    BY DEF BackedInv, OneBody
  <2>6. ASSUME NEW d \in Clients, NEW e \in Clients, pc[d] \in Executing,
               pc[e] \in Executing, op[e] = op[d]
        PROVE  Body[e] = Body[d]
    BY <2>6 DEF BackedInv, OneBody
  <2>7. ASSUME NEW d \in Clients, pc[d] \in Executing, delivered[op[d]] # NoBody
        PROVE  delivered[op[d]] = Body[d]
    BY <2>7 DEF BackedInv, OneBody
  <2> QED BY <2>1, <2>2, <2>3, <2>4, <2>5, <2>6, <2>7 DEF OneBody
<1>5. AckIsBacked'
  BY RouteAssumption
     DEF TypeOK, BackedInv, AckIsBacked, DeliveredBacked, OneBody, Execute, Answer, Goto,
         Settled
<1> QED BY <1>1, <1>2, <1>3, <1>4, <1>5 DEF BackedInv

\* Every step keeps the answers backed.
LEMMA BackedStep == TypeOK /\ BackedInv /\ [Next]_vars => BackedInv'
<1> SUFFICES ASSUME TypeOK, BackedInv, [Next]_vars PROVE BackedInv'
  OBVIOUS
<1> USE DEF BackedInv, OwnerRecipe, DeliveredBacked, DurableFirst, OneBody, AckIsBacked, Executing
<1>1. ASSUME NEW c \in Clients, Lookup(c) PROVE BackedInv'
  BY <1>1 DEF TypeOK, Lookup, Refuse, Answer, Goto, Replayable, Present, world
<1>2. ASSUME NEW c \in Clients, ClaimFirst(c) PROVE BackedInv'
  <2>1. PICK o \in NewIds : Execute(c, o, FirstClaim(c, o))
    BY <1>2 DEF ClaimFirst
  <2>2. o \in OpIds /\ (route # "webhook" => o \in FreshIds)
    BY <2>1, StableIdAssumption DEF NewIds, FreshIds
  <2>3. route # "webhook" =>
          /\ o \notin rows /\ delivered[o] = NoBody
          /\ \A d \in Clients : op[d] # o /\ ack[d] # o
    BY <2>2 DEF FreshIds
  <2> QED BY <1>2, <2>1, <2>2, <2>3, RowsTyped, ExecuteBacked DEF ClaimFirst, FirstClaim
<1>3. ASSUME NEW c \in Clients, Reclaim(c) PROVE BackedInv'
  <2>1. /\ row \in Row /\ row.state = "pending" /\ row.op \in OpIds /\ Reclaimed(c) \in Row
        /\ row.body = Body[c] /\ Execute(c, row.op, Reclaimed(c))
    BY <1>3, RowsTyped DEF Reclaim, Reclaimable, Row
  <2>2. /\ Reclaimed(c).state = "pending" /\ Reclaimed(c).owner = c
        /\ Reclaimed(c).op = row.op /\ Reclaimed(c).body = Body[c]
    BY <2>1 DEF Reclaimed, Row
  <2> QED BY <1>3, <2>1, <2>2, ExecuteBacked DEF Reclaim
<1>4. ASSUME NEW c \in Clients, ClaimDenied(c) PROVE BackedInv'
  BY <1>4 DEF TypeOK, ClaimDenied, Refuse, Answer, Replayable, Present, world
<1>5. ASSUME NEW c \in Clients, Persist(c) PROVE BackedInv'
  BY <1>5 DEF TypeOK, Persist, Refuse, Goto
<1>6. ASSUME NEW c \in Clients, PersistFails(c) \/ ReplayFails(c) \/ ValidationFails(c) PROVE BackedInv'
  BY <1>6 DEF TypeOK, PersistFails, ReplayFails, ValidationFails, Refuse, world
<1>7. ASSUME NEW c \in Clients, SendAccepted(c) PROVE BackedInv'
  BY <1>7, KeyedNullAssumption DEF TypeOK, SendAccepted, Goto, Bodies
<1>8. ASSUME NEW c \in Clients, SendThrows(c) \/ RespondFails(c) PROVE BackedInv'
  BY <1>8 DEF TypeOK, SendThrows, RespondFails, Refuse, Abandon, NoRow, world
<1>9. ASSUME NEW c \in Clients, Respond(c) PROVE BackedInv'
  <2>1. CASE ~Owns(c)
    BY <1>9, <2>1 DEF TypeOK, Respond, Refuse, world
  <2>2. CASE Owns(c)
    <3>1. /\ row \in Row /\ op[c] = row.op /\ op[c] \in OpIds
          /\ delivered[op[c]] # NoBody
          /\ route # "webhook" => op[c] \in rows /\ delivered[op[c]] = Body[c]
      BY <1>9, <2>2 DEF TypeOK, Respond, Owns, NoRow
    <3>2. row' = Completed(row) /\ Answer(c, op[c]) /\ UNCHANGED <<over, op, world>>
      BY <1>9, <2>2 DEF Respond
    <3>3. /\ row'.state = "complete" /\ row'.op = row.op /\ row'.body = row.body
          /\ row.state # "absent"
      BY <2>2, <3>1, <3>2 DEF Completed, Row, Owns
    <3>4. /\ ack' = [ack EXCEPT ![c] = op[c]] /\ pc' = [pc EXCEPT ![c] = "done"]
          /\ \A d \in Clients : pc'[d] \in Executing => pc[d] \in Executing /\ d # c
          /\ \A d \in Clients : pc'[d] \in {"sending", "sent"} => pc[d] = pc'[d]
      BY <3>2 DEF TypeOK, Answer
    <3>5. UNCHANGED <<route, op, rows, started, cancelled, delivered>>
      BY <1>9, <3>2 DEF Respond, world
    <3>6. OwnerRecipe' /\ DeliveredBacked'
      BY <3>1, <3>3, <3>4, <3>5
    <3>7. DurableFirst'
      BY <3>1, <3>3, <3>4, <3>5
    <3>8. OneBody'
      BY <3>1, <3>3, <3>4, <3>5
    <3>9. AckIsBacked'
      BY <3>1, <3>4, <3>5 DEF TypeOK
    <3> QED BY <3>6, <3>7, <3>8, <3>9
  <2> QED BY <2>1, <2>2
<1>10. ASSUME NEW c \in Clients, LeaseEnds(c) PROVE BackedInv'
  BY <1>10 DEF TypeOK, LeaseEnds, world
<1>11. ASSUME NEW c \in Clients, Resend(c) PROVE BackedInv'
  BY <1>11 DEF TypeOK, Resend, world
<1>12. ASSUME NEW o \in OpIds, StartRun(o) \/ CancelQueued(o) PROVE BackedInv'
  BY <1>12 DEF TypeOK, StartRun, CancelQueued
<1>13. CASE RowExpires \/ Purge
  BY <1>13 DEF TypeOK, RowExpires, Purge, Present, Row, NoRow, world
<1>14. CASE Restart
  BY <1>14 DEF TypeOK, Restart, world
<1>15. CASE UNCHANGED vars
  BY <1>15 DEF vars
<1> QED
  BY <1>1, <1>2, <1>3, <1>4, <1>5, <1>6, <1>7, <1>8, <1>9, <1>10, <1>11, <1>12, <1>13,
     <1>14, <1>15 DEF Next, Handle

\* A success answer, also a replayed one, names an event the broker accepted, for
\* the body that client sent, with its durable row written.
THEOREM AckBacked == Spec => []AckIsBacked
<1>1. Init => BackedInv
  BY DEF Init, BackedInv, OwnerRecipe, DeliveredBacked, DurableFirst, OneBody, AckIsBacked,
         Executing, NoRow
<1>2. TypeOK /\ BackedInv /\ [Next]_vars => BackedInv'
  BY BackedStep
<1>3. BackedInv => AckIsBacked
  BY DEF BackedInv
<1> QED BY <1>1, <1>2, <1>3, KeyedTyped, PTL DEF Spec

-----------------------------------------------------------------------------
(* One operation                                                            *)

\* No step brings a second operation under a retained row.
LEMMA OneStep == TypeOK /\ OneInv /\ [Next]_vars => OneInv'
<1> SUFFICES ASSUME TypeOK, OneInv, [Next]_vars PROVE OneInv'
  OBVIOUS
<1> USE DEF OneInv, Executing
<1>1. ASSUME NEW c \in Clients, ClaimFirst(c) PROVE OneInv'
  <2>1. PICK o \in NewIds : Execute(c, o, FirstClaim(c, o))
    BY <1>1 DEF ClaimFirst
  <2>2. o \in OpIds /\ FirstClaim(c, o).state = "pending" /\ FirstClaim(c, o).op = o
    BY <2>1, StableIdAssumption DEF NewIds, FreshIds, FirstClaim
  <2>3. FirstClaim(c, o) \in Row /\ (route = "webhook" => o = StableId)
    BY <2>1, <2>2, RowsTyped DEF NewIds
  <2>4. /\ row'.state # "absent" /\ row'.op = o
        /\ op' = [op EXCEPT ![c] = o] /\ op \in [Clients -> OpIds \cup {NoOp}]
        /\ UNCHANGED <<route, delivered>>
    BY <1>1, <2>1, <2>2, <2>3 DEF TypeOK, ClaimFirst, Execute, Completed, Row
  <2>5. \A d \in Clients \ {c} : pc'[d] \in Executing => pc[d] \in Executing
    BY <2>1 DEF TypeOK, Execute, Answer, Goto
  <2>6. ~lapsed' => ~lapsed /\ row.state = "absent"
    BY <1>1 DEF ClaimFirst, TypeOK
  <2> QED BY <2>2, <2>3, <2>4, <2>5, <2>6
<1>2. ASSUME NEW c \in Clients, Reclaim(c) PROVE OneInv'
  <2>1. /\ row \in Row /\ row.state = "pending" /\ Reclaimed(c) \in Row
        /\ Execute(c, row.op, Reclaimed(c))
    BY <1>2, RowsTyped DEF Reclaim, Reclaimable
  <2>2. Reclaimed(c).state = "pending" /\ Reclaimed(c).op = row.op
    BY <2>1 DEF Reclaimed, Row
  <2> QED BY <1>2, <2>1, <2>2 DEF TypeOK, Reclaim, Execute, Answer, Goto, Completed, Row
<1>3. ASSUME NEW c \in Clients,
             Lookup(c) \/ ClaimDenied(c) \/ Persist(c) \/ PersistFails(c) \/ ReplayFails(c) \/ ValidationFails(c)
      PROVE  OneInv'
  BY <1>3 DEF TypeOK, Lookup, ClaimDenied, Persist, PersistFails, ReplayFails, ValidationFails, Refuse, Answer,
              Goto, world
<1>4. ASSUME NEW c \in Clients, SendAccepted(c) PROVE OneInv'
  BY <1>4 DEF TypeOK, SendAccepted, Goto
<1>5. ASSUME NEW c \in Clients, SendThrows(c) \/ RespondFails(c) PROVE OneInv'
  BY <1>5 DEF TypeOK, SendThrows, RespondFails, Refuse, Abandon, NoRow, world
<1>6. ASSUME NEW c \in Clients, Respond(c) PROVE OneInv'
  BY <1>6 DEF TypeOK, Respond, Refuse, Answer, Owns, Completed, Row, NoRow, world
<1>7. ASSUME NEW c \in Clients, LeaseEnds(c) \/ Resend(c) PROVE OneInv'
  BY <1>7 DEF TypeOK, LeaseEnds, Resend, world
<1>8. ASSUME NEW o \in OpIds, StartRun(o) \/ CancelQueued(o) PROVE OneInv'
  BY <1>8 DEF TypeOK, StartRun, CancelQueued
<1>9. CASE RowExpires \/ Purge
  BY <1>9 DEF TypeOK, RowExpires, Purge, Present, Row, NoRow, world
<1>10. CASE Restart
  BY <1>10 DEF TypeOK, Restart, world
<1>11. CASE UNCHANGED vars
  BY <1>11 DEF vars
<1> QED
  BY <1>1, <1>2, <1>3, <1>4, <1>5, <1>6, <1>7, <1>8, <1>9, <1>10, <1>11 DEF Next, Handle

\* However many requests race, retry and recover claims, the broker accepts one
\* event for the key while its row is retained.
THEOREM OneHolds == Spec => []OneOperation
<1>1. Init => OneInv
  BY DEF Init, OneInv, Executing, NoRow
<1>2. TypeOK /\ OneInv /\ [Next]_vars => OneInv'
  BY OneStep
<1>3. OneInv => OneOperation
  BY DEF OneInv, OneOperation
<1> QED BY <1>1, <1>2, <1>3, KeyedTyped, PTL DEF Spec

-----------------------------------------------------------------------------
(* The promise                                                              *)

\* A client has an answer only once its request is done; the ledger is the manifest
\* route's; the asynchronous route reserves no second run while the row is retained,
\* and only its runs are cancelled.
PromiseInv ==
    /\ \A c \in Clients : pc[c] # "done" => ack[c] = NoOp
    /\ \A c \in Clients : pc[c] = "ledger" => route = "manifest"
    /\ route # "async" => cancelled = {}
    /\ route = "async" /\ ~lapsed => \A o \in rows : row.state # "absent" /\ o = row.op

\* A claim draws no second reserved run.
LEMMA ExecutePromise ==
  ASSUME TypeOK, PromiseInv, NEW c \in Clients, NEW o \in OpIds, NEW r \in Row,
         Execute(c, o, r), UNCHANGED <<route, started, cancelled, delivered>>,
         r.state = "pending", r.op = o, pc[c] # "done",
         ~lapsed' => ~lapsed /\ (row.state = "absent" \/ row.op = o)
  PROVE  PromiseInv'
<1>1. row'.state # "absent" /\ row'.op = o
  BY DEF Execute, Completed, Row
<1>2. rows' \subseteq rows \cup {o} /\ (route = "async" => rows' = rows \cup {o})
  BY DEF Execute
<1>3. \A d \in Clients : /\ pc'[d] # "done" => ack'[d] = NoOp
                         /\ pc'[d] = "ledger" => route = "manifest"
  <2>1. CASE Answer(c, o)
    BY <2>1 DEF TypeOK, PromiseInv, Answer
  <2>2. CASE Goto(c, IF NeedsLedger(o) THEN "ledger" ELSE "sending")
    BY <2>2 DEF TypeOK, PromiseInv, Goto, NeedsLedger
  <2> QED BY <2>1, <2>2 DEF Execute
<1> QED BY <1>1, <1>2, <1>3 DEF PromiseInv

\* Every step keeps the promise's accounts.
LEMMA PromiseStep == TypeOK /\ PromiseInv /\ [Next]_vars => PromiseInv'
<1> SUFFICES ASSUME TypeOK, PromiseInv, [Next]_vars PROVE PromiseInv'
  OBVIOUS
<1> USE DEF PromiseInv
<1>1. ASSUME NEW c \in Clients, ClaimFirst(c) PROVE PromiseInv'
  <2>1. PICK o \in NewIds : Execute(c, o, FirstClaim(c, o))
    BY <1>1 DEF ClaimFirst
  <2>2. o \in OpIds /\ FirstClaim(c, o).state = "pending" /\ FirstClaim(c, o).op = o
    BY <2>1, StableIdAssumption DEF NewIds, FreshIds, FirstClaim
  <2>3. FirstClaim(c, o) \in Row /\ pc[c] # "done"
    BY <1>1, <2>2, RowsTyped DEF ClaimFirst, AtClaim
  <2>4. ~lapsed' => ~lapsed /\ row.state = "absent"
    BY <1>1 DEF ClaimFirst, TypeOK
  <2> QED BY <1>1, <2>1, <2>2, <2>3, <2>4, ExecutePromise DEF ClaimFirst
<1>2. ASSUME NEW c \in Clients, Reclaim(c) PROVE PromiseInv'
  <2>1. /\ row \in Row /\ row.state = "pending" /\ row.op \in OpIds /\ Reclaimed(c) \in Row
        /\ Execute(c, row.op, Reclaimed(c)) /\ pc[c] # "done"
    BY <1>2, RowsTyped DEF Reclaim, Reclaimable, Row, AtClaim
  <2>2. Reclaimed(c).state = "pending" /\ Reclaimed(c).op = row.op
    BY <2>1 DEF Reclaimed, Row
  <2> QED BY <1>2, <2>1, <2>2, ExecutePromise DEF Reclaim
<1>3. ASSUME NEW c \in Clients,
             Lookup(c) \/ ClaimDenied(c) \/ PersistFails(c) \/ ReplayFails(c) \/ ValidationFails(c) \/ LeaseEnds(c)
      PROVE  PromiseInv'
  BY <1>3 DEF TypeOK, Lookup, ClaimDenied, PersistFails, ReplayFails, ValidationFails, LeaseEnds, AtClaim,
              Refuse, Answer, Goto, world
<1>4. ASSUME NEW c \in Clients, Persist(c) \/ SendAccepted(c) PROVE PromiseInv'
  BY <1>4 DEF TypeOK, Persist, SendAccepted, NeedsLedger, Refuse, Goto
<1>5. ASSUME NEW c \in Clients, SendThrows(c) \/ RespondFails(c) PROVE PromiseInv'
  BY <1>5 DEF TypeOK, SendThrows, RespondFails, Refuse, Abandon, world
<1>6. ASSUME NEW c \in Clients, Respond(c) PROVE PromiseInv'
  BY <1>6 DEF TypeOK, Respond, Refuse, Answer, Owns, Completed, Row, NoRow, world
<1>7. ASSUME NEW c \in Clients, Resend(c) PROVE PromiseInv'
  BY <1>7 DEF TypeOK, Resend, world
<1>8. ASSUME NEW o \in OpIds, StartRun(o) \/ CancelQueued(o) PROVE PromiseInv'
  BY <1>8 DEF TypeOK, StartRun, CancelQueued
<1>9. CASE RowExpires \/ Purge
  BY <1>9 DEF TypeOK, RowExpires, Purge, Present, Row, NoRow, world
<1>10. CASE Restart
  BY <1>10 DEF TypeOK, Restart, world
<1>11. CASE UNCHANGED vars
  BY <1>11 DEF vars
<1> QED
  BY <1>1, <1>2, <1>3, <1>4, <1>5, <1>6, <1>7, <1>8, <1>9, <1>10, <1>11 DEF Next, Handle

-----------------------------------------------------------------------------
(* The refinement of KeyedOperation                                         *)

\* The initial states are initial states of the promise.
LEMMA InitKeepsPromise == Init => KO!Init
  BY DEF Init, KO!Init

\* While the row is retained, whatever happened under the key is the row's operation
\* (a webhook's is the key's own).
LEMMA SettledIsTheRows ==
  ASSUME TypeOK, OneInv, PromiseInv, ~lapsed, NEW o \in OpIds,
         \/ \E c \in Clients : pc[c] \in Executing /\ op[c] = o
         \/ route = "async" /\ o \in rows
  PROVE  KO!Settled \subseteq {o}
<1>1. ASSUME NEW p \in OpIds, delivered[p] # NoBody PROVE p = o
  BY <1>1 DEF OneInv, PromiseInv
<1>2. ASSUME NEW p \in cancelled PROVE p = o
  BY <1>2, RouteAssumption DEF TypeOK, OneInv, PromiseInv
<1> QED BY <1>1, <1>2 DEF KO!Settled

\* An answer is a fresh one to an operation that happened, for the client's body.
LEMMA AnswerKeepsPromise ==
  ASSUME TypeOK, PromiseInv, NEW c \in Clients, NEW o \in OpIds, Answer(c, o),
         pc[c] # "done", UNCHANGED <<delivered, cancelled, route>>, UNCHANGED lapsed,
         o \notin cancelled =>
            /\ delivered[o] # NoBody
            /\ route # "webhook" => delivered[o] = Body[c]
  PROVE  KO!Next
<1>1. ack[c] = NoOp /\ ack' = [ack EXCEPT ![c] = o]
  BY DEF PromiseInv, Answer
<1>2. o \in KO!Settled
  BY DEF KO!Settled
<1>3. KO!Acknowledge(c, o)
  BY <1>1, <1>2 DEF KO!Acknowledge
<1> QED BY <1>3 DEF KO!Next

\* What a stored or recovered recipe stands for, to a client with the row's body.
LEMMA RowBacked ==
  ASSUME TypeOK, BackedInv, NEW c \in Clients, row.state # "absent", row.body = Body[c],
         row.op \notin cancelled, row.state = "complete" \/ row.op \in started
  PROVE  /\ row.op \in OpIds
         /\ delivered[row.op] # NoBody
         /\ route # "webhook" => delivered[row.op] = Body[c]
<1>1. row.op \in OpIds
  BY DEF TypeOK, Row, NoRow
<1> QED BY <1>1 DEF BackedInv, DeliveredBacked, OneBody

\* Every step is a step of the promise or changes nothing it speaks of.
LEMMA StepKeepsPromise ==
  TypeOK /\ BackedInv /\ OneInv /\ PromiseInv /\ [Next]_vars => [KO!Next]_(KO!vars)
<1> SUFFICES ASSUME TypeOK, BackedInv, OneInv, PromiseInv, [Next]_vars,
                    ~UNCHANGED <<delivered, cancelled, ack, lapsed, route>>
             PROVE  KO!Next
  BY DEF KO!vars
<1> USE DEF world
<1>1. ASSUME NEW c \in Clients, Lookup(c) \/ ClaimDenied(c) PROVE KO!Next
  <2>1. /\ Answer(c, row.op) /\ row.state = "complete" /\ row.body = Body[c]
        /\ pc[c] # "done" /\ UNCHANGED <<delivered, cancelled, route>> /\ UNCHANGED lapsed
    BY <1>1 DEF Lookup, ClaimDenied, Refuse, Goto, Replayable, Present, AtClaim
  <2>2. row.op \in OpIds
    BY <2>1 DEF TypeOK, Row, NoRow
  <2> QED BY <2>1, <2>2, RowBacked, AnswerKeepsPromise
<1>2. ASSUME NEW c \in Clients, ClaimFirst(c) PROVE KO!Next
  <2>1. PICK o \in NewIds : Execute(c, o, FirstClaim(c, o))
    BY <1>2 DEF ClaimFirst
  <2>2. ~Settled(o)
    BY <2>1 DEF Settled, NewIds, FreshIds, TypeOK
  <2>3. ~lapsed /\ lapsed' /\ UNCHANGED <<delivered, cancelled, ack, route>>
    BY <1>2, <2>1, <2>2 DEF ClaimFirst, Execute, Goto, TypeOK
  <2>4. KO!Forget
    BY <2>3 DEF KO!Forget
  <2> QED BY <2>4 DEF KO!Next
<1>3. ASSUME NEW c \in Clients, Reclaim(c) PROVE KO!Next
  <2>1. /\ Settled(row.op) /\ Answer(c, row.op) /\ pc[c] # "done" /\ row.state # "absent"
        /\ row.body = Body[c] /\ UNCHANGED <<delivered, cancelled, route>> /\ UNCHANGED lapsed
    BY <1>3 DEF Reclaim, Reclaimable, Execute, Goto, AtClaim
  <2>2. row.op \in OpIds
    BY <2>1 DEF TypeOK, Row, NoRow
  <2> QED BY <2>1, <2>2, RowBacked, AnswerKeepsPromise DEF Settled
<1>4. ASSUME NEW c \in Clients,
             Persist(c) \/ PersistFails(c) \/ ReplayFails(c) \/ ValidationFails(c) \/ SendThrows(c)
               \/ RespondFails(c) \/ LeaseEnds(c)
      PROVE  KO!Next
  BY <1>4 DEF Persist, PersistFails, ReplayFails, ValidationFails, SendThrows, RespondFails, LeaseEnds,
              Refuse, Goto
<1>5. ASSUME NEW c \in Clients, SendAccepted(c) PROVE KO!Next
  <2> DEFINE o == op[c]
  <2>1. /\ o \in OpIds /\ delivered[o] = NoBody /\ pc[c] \in Executing
        /\ delivered' = [delivered EXCEPT ![o] = Body[c]]
        /\ UNCHANGED <<cancelled, ack, route>> /\ UNCHANGED lapsed
    BY <1>5 DEF TypeOK, SendAccepted, Goto, Executing
  <2>2. ~lapsed => KO!Settled \subseteq {o}
    BY <2>1, SettledIsTheRows
  <2>3. KO!Perform(o, Body[c])
    BY <2>1, <2>2 DEF KO!Perform, KO!Only
  <2> QED BY <2>1, <2>3 DEF KO!Next
<1>6. ASSUME NEW c \in Clients, Respond(c) PROVE KO!Next
  <2>1. /\ Answer(c, op[c]) /\ pc[c] = "sent" /\ op[c] \in OpIds
        /\ UNCHANGED <<delivered, cancelled, route>> /\ UNCHANGED lapsed
    BY <1>6 DEF Respond, Refuse, TypeOK, Executing
  <2>2. /\ delivered[op[c]] # NoBody
        /\ route # "webhook" => delivered[op[c]] = Body[c]
    BY <2>1 DEF BackedInv, DeliveredBacked, OneBody, Executing
  <2> QED BY <2>1, <2>2, AnswerKeepsPromise
<1>7. ASSUME NEW c \in Clients, Resend(c) PROVE KO!Next
  <2>1. ack[c] # NoOp /\ ack' = [ack EXCEPT ![c] = NoOp]
        /\ UNCHANGED <<delivered, cancelled, route>> /\ UNCHANGED lapsed
    BY <1>7 DEF TypeOK, Resend
  <2>2. KO!Ask(c)
    BY <2>1 DEF KO!Ask
  <2> QED BY <2>2 DEF KO!Next
<1>8. ASSUME NEW o \in OpIds, StartRun(o) \/ CancelQueued(o) PROVE KO!Next
  <2>1. /\ route = "async" /\ o \in rows \ cancelled /\ cancelled' = cancelled \cup {o}
        /\ UNCHANGED <<delivered, ack, route>> /\ UNCHANGED lapsed
    BY <1>8 DEF StartRun, CancelQueued
  <2>2. ~lapsed => KO!Settled \subseteq {o}
    BY <2>1, SettledIsTheRows
  <2>3. KO!Withdraw(o)
    BY <2>1, <2>2 DEF KO!Withdraw, KO!Only
  <2> QED BY <2>3 DEF KO!Next
<1>9. CASE Purge
  <2>1. ~lapsed /\ lapsed' /\ UNCHANGED <<delivered, cancelled, ack, route>>
    BY <1>9 DEF Purge, TypeOK
  <2>2. KO!Forget
    BY <2>1 DEF KO!Forget
  <2> QED BY <2>2 DEF KO!Next
<1>10. CASE RowExpires \/ Restart \/ UNCHANGED vars
  BY <1>10 DEF RowExpires, Restart, vars
<1> QED
  BY <1>1, <1>2, <1>3, <1>4, <1>5, <1>6, <1>7, <1>8, <1>9, <1>10 DEF Next, Handle

\* Claims, recoveries, replays, repeats and restarts together keep the promise of the
\* key: under a retained row one operation, and every answer names it.
THEOREM KeyKeepsItsPromise == Spec => ImplementsKeyedOperation
<1>1. Init => BackedInv /\ OneInv /\ PromiseInv
  BY DEF Init, BackedInv, OwnerRecipe, DeliveredBacked, DurableFirst, OneBody, AckIsBacked,
         OneInv, PromiseInv, Executing, NoRow
<1>2. TypeOK /\ BackedInv /\ OneInv /\ PromiseInv /\ [Next]_vars
        => (BackedInv /\ OneInv /\ PromiseInv)'
  BY BackedStep, OneStep, PromiseStep
<1> QED
  BY <1>1, <1>2, InitKeepsPromise, StepKeepsPromise, KeyedTyped, PTL
     DEF Spec, ImplementsKeyedOperation, KO!Spec

\* A KeyedOperation holds its answers to what happened.
PromisedInv ==
    /\ delivered \in [OpIds -> Bodies \cup {NoBody}] /\ ack \in [Clients -> OpIds \cup {NoOp}]
    /\ \A c \in Clients : ack[c] # NoOp => ack[c] \in KO!Settled
    /\ ~lapsed => \A o, p \in KO!Settled : o = p

\* Copies of a request, first, replayed or recovered, and requests with another body
\* are all told of one operation while the row is retained: it follows from the promise.
THEOREM RetainedAnswersAgree == Spec => []KO!AnswersAgree
<1>1. Init => PromisedInv
  BY DEF Init, PromisedInv, KO!Settled
<1>2. TypeOK' /\ PromisedInv /\ [KO!Next]_(KO!vars) => PromisedInv'
  <2> SUFFICES ASSUME TypeOK', PromisedInv, [KO!Next]_(KO!vars) PROVE PromisedInv'
    OBVIOUS
  <2> USE DEF PromisedInv, KO!Settled
  <2>0. delivered' \in [OpIds -> Bodies \cup {NoBody}] /\ ack' \in [Clients -> OpIds \cup {NoOp}]
    BY DEF TypeOK
  <2>1. ASSUME NEW o \in OpIds, NEW c \in Clients, KO!Perform(o, Body[c]) PROVE PromisedInv'
    <3>1. KO!Settled' \subseteq KO!Settled \cup {o} /\ KO!Settled \subseteq KO!Settled'
      BY <2>0, <2>1 DEF KO!Perform
    <3> QED BY <2>0, <2>1, <3>1 DEF KO!Perform, KO!Only
  <2>2. ASSUME NEW o \in OpIds, NEW c \in Clients, KO!Acknowledge(c, o) PROVE PromisedInv'
    BY <2>0, <2>2 DEF KO!Acknowledge
  <2>3. ASSUME NEW o \in OpIds, KO!Withdraw(o) PROVE PromisedInv'
    BY <2>0, <2>3 DEF KO!Withdraw, KO!Only
  <2>4. ASSUME NEW c \in Clients, KO!Ask(c) PROVE PromisedInv'
    BY <2>0, <2>4 DEF KO!Ask
  <2>5. CASE KO!Forget
    BY <2>0, <2>5 DEF KO!Forget
  <2>6. CASE UNCHANGED KO!vars
    BY <2>0, <2>6 DEF KO!vars
  <2> QED BY <2>1, <2>2, <2>3, <2>4, <2>5, <2>6 DEF KO!Next
<1>3. PromisedInv => KO!AnswersAgree
  BY DEF PromisedInv, KO!AnswersAgree
<1> QED
  BY <1>1, <1>2, <1>3, KeyKeepsItsPromise, KeyedTyped, PTL
     DEF Spec, ImplementsKeyedOperation, KO!Spec
=============================================================================
