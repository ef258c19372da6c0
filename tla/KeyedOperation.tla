--------------------------- MODULE KeyedOperation ---------------------------
(***************************************************************************)
(* What one Idempotency-Key promises its clients, without the row, the     *)
(* leases and the retries: while the key's row is retained one operation   *)
(* happens under it, and every success answer names that operation and is  *)
(* an answer to the client's own body.                                     *)
(*                                                                         *)
(* KeyedRequests implements this specification (KeyedRequestsProofs).      *)
(***************************************************************************)
CONSTANTS
    Clients,
    Body,           \* Body[c]: what c asks for
    OpIds,          \* the operations that may happen
    NoOp, NoBody

VARIABLES
    performed,  \* performed[o]: the body operation o was performed for
    withdrawn,  \* operations an operator withdrew before they began
    answer,     \* answer[c]: the operation c's success answer names
    retained,   \* the row of the key has not been dropped
    shared      \* operations are named after the key, whatever the body

vars == <<performed, withdrawn, answer, retained, shared>>

Init ==
    /\ performed = [o \in OpIds |-> NoBody]
    /\ withdrawn = {}
    /\ answer = [c \in Clients |-> NoOp]
    /\ retained = TRUE
    /\ shared \in BOOLEAN

Settled == withdrawn \cup {o \in OpIds : performed[o] # NoBody}

\* Under a retained row no second operation begins.
Only(o) == retained => Settled \subseteq {o}

Perform(o, b) ==
    /\ performed[o] = NoBody /\ Only(o)
    /\ performed' = [performed EXCEPT ![o] = b]
    /\ UNCHANGED <<withdrawn, answer, retained, shared>>

Withdraw(o) ==
    /\ o \notin withdrawn /\ Only(o)
    /\ withdrawn' = withdrawn \cup {o}
    /\ UNCHANGED <<performed, answer, retained, shared>>

Acknowledge(c, o) ==
    /\ answer[c] = NoOp
    /\ o \in Settled
    /\ o \in withdrawn \/ shared \/ performed[o] = Body[c]
    /\ answer' = [answer EXCEPT ![c] = o]
    /\ UNCHANGED <<performed, withdrawn, retained, shared>>

\* The client sends its request again.
Ask(c) ==
    /\ answer[c] # NoOp
    /\ answer' = [answer EXCEPT ![c] = NoOp]
    /\ UNCHANGED <<performed, withdrawn, retained, shared>>

Forget ==
    /\ retained
    /\ retained' = FALSE
    /\ UNCHANGED <<performed, withdrawn, answer, shared>>

Next ==
    \/ \E o \in OpIds :
        \/ \E c \in Clients : Perform(o, Body[c]) \/ Acknowledge(c, o)
        \/ Withdraw(o)
    \/ \E c \in Clients : Ask(c)
    \/ Forget

Spec == Init /\ [][Next]_vars

\* Two success answers under one retained row are answers about one operation.
AnswersAgree ==
    retained => \A c, d \in Clients : answer[c] # NoOp /\ answer[d] # NoOp => answer[c] = answer[d]
=============================================================================
