------------------------------- MODULE MCGitOps -------------------------------
(* The GitOps agent: a request that patches the repository and one that registers
   a chart, with a revert of either, with pull requests, or on one manifest; or a
   chart or a manifest applied directly and the removal of the release. *)
EXTENDS GitOps

CONSTANTS r1, r2, r3, m1, m2

Setting(repo, pr, argo, dryRun) == [repo |-> repo, pr |-> pr, argo |-> argo, dryRun |-> dryRun]

Placement(second) ==
    [c \in Requests \cup {Developer} |-> IF c = r2 THEN second ELSE m1]

Mirror == [r \in Requests |-> CASE r = r1 -> {"git_patch"}
                                [] r = r2 -> {"helm_deploy"}
                                [] r = r3 -> {"git_revert"}]

MirrorOnly == [Mirror EXCEPT ![r3] = {}]

Direct == [r \in Requests |-> CASE r = r1 -> {"repo_apply", "helm_deploy"}
                                [] r = r2 -> {"undeploy"}
                                [] r = r3 -> {}]

Scenario(set, second, offers) == [set |-> set, manifest |-> Placement(second), offers |-> offers]

MCScenarios ==
    {Scenario(Setting(TRUE, FALSE, TRUE, TRUE), m1, MirrorOnly),
     Scenario(Setting(TRUE, FALSE, FALSE, TRUE), m2, Mirror),
     Scenario(Setting(TRUE, TRUE, FALSE, FALSE), m2, MirrorOnly),
     Scenario(Setting(FALSE, FALSE, FALSE, TRUE), m2, Mirror),
     Scenario(Setting(TRUE, FALSE, FALSE, TRUE), m2, Direct)}

=============================================================================
