----------------------------- MODULE MCRunGraph -----------------------------
(* Instances of RunGraph for TLC. *)
EXTENDS RunGraph

P(action, content) ==
    [action |-> action, content |-> content, critical |-> FALSE, rollbackSafe |-> TRUE]
Critical(plan) == [plan EXCEPT !.critical = TRUE, !.rollbackSafe = FALSE]

\* Each action where it matters: low and high risk, allowed and refused, flagged.
DiagnosePlans ==
    {P("restart", "fine"), Critical(P("restart", "fine")), P("git_patch", "fine"),
     P("git_patch", "refused"), P("git_patch", "flagged"), P("helm_deploy", "fine"),
     P("noop", "fine"), P("escalate_human", "fine")}
DeployPlans ==
    {P("helm_deploy", "fine"), P("helm_deploy", "refused"), P("repo_apply", "flagged"),
     P("git_patch", "fine"), P("noop", "fine")}
CiPlans == {P("cicd_open_pr", "fine"), P("cicd_rerun", "hollow"), P("noop", "fine")}

AllPlansFor ==
    [m \in IncidentModes |->
        CASE m \in {"diagnose", "rollback"} -> DiagnosePlans
          [] m = "pre-deploy" -> DeployPlans
          [] m = "ci-failure" -> CiPlans]

\* Two plans: enough to go round the loop.
LoopPlansFor ==
    [m \in IncidentModes |-> {P("helm_deploy", "fine"), P("git_patch", "fine")}]

Base ==
    [mode |-> "diagnose", user |-> TRUE, agentic |-> FALSE, stack |-> FALSE, needsBuild |-> FALSE,
     autonomy |-> "full", prod |-> FALSE, securityNamespace |-> TRUE,
     autonomyNamespace |-> TRUE, ragGrounding |-> TRUE, buildNeedsHil |-> TRUE,
     rollback |-> "hil"]

Settings ==
    {[Base EXCEPT !.autonomy = a, !.prod = p] : a \in AutonomyModes, p \in BOOLEAN}

\* Every autonomy mode, prod or not, for each kind of run; what else a setting
\* decides is varied where it makes a difference.
DiagnoseEnvs ==
    {[s EXCEPT !.mode = m] : s \in Settings, m \in {"diagnose", "rollback"}}
    \cup {[Base EXCEPT !.user = FALSE], [Base EXCEPT !.ragGrounding = FALSE],
          [Base EXCEPT !.autonomyNamespace = FALSE], [Base EXCEPT !.securityNamespace = FALSE]}

AgenticEnvs == {[s EXCEPT !.agentic = TRUE] : s \in Settings}

DeployEnvs ==
    {[s EXCEPT !.mode = "pre-deploy", !.rollback = r] : s \in Settings, r \in {"auto", "hil"}}
    \cup {[s EXCEPT !.mode = "pre-deploy", !.rollback = "off", !.stack = TRUE] : s \in Settings}
    \cup {[s EXCEPT !.mode = "pre-deploy", !.needsBuild = TRUE, !.buildNeedsHil = h] :
            s \in Settings, h \in BOOLEAN}

CiEnvs == {[s EXCEPT !.mode = "ci-failure"] : s \in Settings}

AllEnvs == DiagnoseEnvs \cup AgenticEnvs \cup DeployEnvs \cup CiEnvs

\* One setting is enough to show a divergence.
BaseEnv == {Base}
HilEnv == {[Base EXCEPT !.autonomy = "hil_all"]}
ProdEnv == {[Base EXCEPT !.prod = TRUE]}
=============================================================================
