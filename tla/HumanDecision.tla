--------------------------- MODULE HumanDecision ---------------------------
(***************************************************************************)
(* What the human-in-the-loop machinery promises about every task, without *)
(* any of the machinery: a question is asked, at most one resolution is    *)
(* ever bound to it, and the bound resolution is either consumed by the    *)
(* run that asked or the question is abandoned; both ends are final.       *)
(*                                                                         *)
(* RunLifecycle implements this specification (RunLifecycleProofs).        *)
(***************************************************************************)
CONSTANTS
    TaskIds,        \* the questions that may be asked
    Resolutions,    \* the distinct answers an operator may submit
    None            \* no answer yet

VARIABLES
    phase,          \* [TaskIds -> Phases]
    bound           \* [TaskIds -> Resolutions \cup {None}]

vars == <<phase, bound>>

Phases == {"unasked", "open", "claimed", "consumed", "abandoned"}

Init ==
    /\ phase = [t \in TaskIds |-> "unasked"]
    /\ bound = [t \in TaskIds |-> None]

Ask(t) ==
    /\ phase[t] = "unasked"
    /\ phase' = [phase EXCEPT ![t] = "open"]
    /\ UNCHANGED bound

\* The first resolution wins: only an open question can be claimed.
Claim(t, r) ==
    /\ phase[t] = "open"
    /\ phase' = [phase EXCEPT ![t] = "claimed"]
    /\ bound' = [bound EXCEPT ![t] = r]

\* The run that asked takes the bound resolution, exactly once.
Consume(t) ==
    /\ phase[t] = "claimed"
    /\ phase' = [phase EXCEPT ![t] = "consumed"]
    /\ UNCHANGED bound

Abandon(t) ==
    /\ phase[t] \in {"open", "claimed"}
    /\ phase' = [phase EXCEPT ![t] = "abandoned"]
    /\ UNCHANGED bound

Next ==
    \E t \in TaskIds :
        \/ Ask(t)
        \/ \E r \in Resolutions : Claim(t, r)
        \/ Consume(t)
        \/ Abandon(t)

Spec == Init /\ [][Next]_vars
=============================================================================
