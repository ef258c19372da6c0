---------------------------- MODULE MCOntocodeJobs ----------------------------
\* Plans of one session: each lets one part of the protocol unfold, so that the
\* instance is the sum of small state spaces and not their product.
EXTENDS OntocodeJobs

P(acts, modes, ways, stops, n, cs, as, asks, retries_, faults_) ==
    [acts |-> acts, modes |-> modes, ways |-> ways, stops |-> stops, jobs |-> n, cmds |-> cs,
     answers |-> as, asks |-> asks, retries |-> retries_, faults |-> faults_]

Auto == {"sandbox_autopilot"}
Turns == {"turn"}
Both == {"turn", "post"}
Generate == {"generate_package"}

\* Two jobs, two workers, a fault, a retry by the user.
Verifications == P({"run_tests"}, Auto, Turns, TRUE, 2, 2, 0, 0, 1, 1)

\* Builds, a question, its answer, and a fault anywhere between them.
Builds == P(Generate, Auto, Turns, TRUE, 2, 2, 1, 1, 0, 1)
RetriedBuild == P(Generate, Auto, Turns, TRUE, 2, 1, 1, 1, 1, 0)

\* A build that asks twice.
LongBuild == P(Generate, Auto, Turns, FALSE, 3, 1, 2, 2, 0, 0)

\* Commands prepared by themselves, two for one question.
PreparedBuild == P(Generate, Auto, Both, FALSE, 3, 1, 2, 1, 0, 0)
ApprovedBuild == P(Generate, {"copilot"}, Both, TRUE, 2, 1, 1, 1, 0, 0)

\* The full-build pipeline while its user changes the mode.
Pipelines == P({"analyze_scope"}, Modes, Turns, TRUE, 1, 1, 0, 0, 0, 1)
ApprovedPipelines == P({"analyze_scope", "generate_package"}, Modes \ {"guide"}, Both, TRUE, 1, 2, 0, 1, 0, 0)

\* Releases, which every mode reserves to the user.
Releases == P({"deploy_release"}, {"guide", "copilot"}, Turns, TRUE, 2, 2, 0, 1, 1, 0)
PreparedReleases == P({"deploy_release"}, {"guide", "copilot"}, Both, TRUE, 2, 1, 0, 1, 1, 0)

MCPlans == {Verifications, Builds, RetriedBuild, LongBuild, PreparedBuild, ApprovedBuild,
            Pipelines, ApprovedPipelines, Releases, PreparedReleases}
===============================================================================
