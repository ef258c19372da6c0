---------------------------- MODULE DurableLease ----------------------------
(***************************************************************************)
(* The durable lease of one resource, apps/api/src/services/               *)
(* durable-lease.ts: one row of operation_leases and the handles of the    *)
(* operations that took it.  An operation draws its owner token when it    *)
(* acquires, once, so the token is the operation.  Times are abstracted to *)
(* whether the expiry stored in the row has passed.                        *)
(***************************************************************************)
CONSTANTS
    Ops,        \* the operations that ask for the lease
    Free        \* no row

ASSUME FreeAssumption == Free \notin Ops

VARIABLES
    holder,     \* ownerToken of the row
    expired,    \* expiresAt of the row has passed
    lost        \* the operations whose handle has noticed the loss

leaseVars == <<holder, expired, lost>>

LeaseInit == holder = Free /\ expired = FALSE /\ lost = {}

\* An expired row is deleted before the insert; a running one is busy.
Available == holder = Free \/ expired

Acquire(o) ==
    /\ Available
    /\ holder' = o
    /\ expired' = FALSE
    /\ UNCHANGED lost

Owned(o) == holder = o /\ ~expired /\ o \notin lost

\* assertOwned when it throws: a missing or expired row marks the handle.
AssertOwnedFails(o) ==
    /\ ~Owned(o)
    /\ lost' = lost \cup {o}
    /\ UNCHANGED <<holder, expired>>

\* The renewal looks for its token and not at the expiry, so it revives an
\* expired row nobody took.
RenewLease(o) ==
    /\ o \notin lost
    /\ IF holder = o THEN expired' = FALSE /\ UNCHANGED lost
                     ELSE lost' = lost \cup {o} /\ UNCHANGED expired
    /\ UNCHANGED holder

RenewLeaseFails(o) ==
    /\ o \notin lost
    /\ lost' = lost \cup {o}
    /\ UNCHANGED <<holder, expired>>

\* The delete by token may fail: the error is logged and the row stays.
Release(o) ==
    /\ \/ holder = o /\ holder' = Free /\ expired' = FALSE
       \/ UNCHANGED <<holder, expired>>
    /\ lost' = lost \ {o}

LeaseExpires ==
    /\ holder # Free
    /\ ~expired
    /\ expired' = TRUE
    /\ UNCHANGED <<holder, lost>>

=============================================================================
