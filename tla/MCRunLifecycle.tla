--------------------------- MODULE MCRunLifecycle ---------------------------
(***************************************************************************)
(* Instances of RunLifecycle for TLC.                                      *)
(***************************************************************************)
EXTENDS RunLifecycle, TLC

CONSTANTS t1, t2, c1, c2, s1, s2, yes, no

GateOnly == <<"manual">>
GateThenTool == <<"manual", "auto">>
ToolThenTool == <<"auto", "auto">>

Symmetry == Permutations(TaskIds) \cup Permutations(Callers) \cup Permutations(Sweepers)
\* The liveness run: one disturbance, a fault or a resume, wherever it comes.
FairOneDisturbance == Init /\ [][Next /\ faults' + resumes' <= 1]_vars /\ Fairness
=============================================================================
