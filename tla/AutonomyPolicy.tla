---------------------------- MODULE AutonomyPolicy ----------------------------
(***************************************************************************)
(* The rules that decide what may happen to a remediation plan before it   *)
(* is executed: the brain's preflight validator, the security agent's      *)
(* authorize-action, the tool compiler, and the two policy gates           *)
(* (shared/src/policy.ts and shared/src/tool-policy.ts).  All of them are  *)
(* pure functions of the plan and of the environment.                      *)
(*                                                                         *)
(* A plan is a record [action, content, critical, rollbackSafe].  content  *)
(* abstracts the patch or chart:                                           *)
(*   "fine"     nothing objects to it,                                     *)
(*   "flagged"  the preflight validator finds a HIGH issue in it,          *)
(*   "refused"  the security agent's patch or chart validator refuses it,  *)
(*   "hollow"   it lacks what its tool needs, so it compiles to no call.   *)
(***************************************************************************)
EXTENDS Naturals

RemediationActions ==
    {"restart", "git_patch", "helm_deploy", "repo_apply", "git_revert",
     "cicd_rerun", "cicd_open_pr", "cicd_code_pr", "coding_agent_handoff",
     "noop", "escalate_human"}

Contents == {"fine", "flagged", "refused", "hollow"}

RemediationPlans ==
    [action: RemediationActions, content: Contents,
     critical: BOOLEAN, rollbackSafe: BOOLEAN]

IncidentModes == {"diagnose", "rollback", "pre-deploy", "ci-failure"}
AutonomyModes == {"hil_all", "low_risk_only", "full"}

GitOpsActions == {"git_patch", "helm_deploy", "repo_apply"}
DeployActions == {"helm_deploy", "repo_apply"}
CiActions == {"cicd_rerun", "cicd_open_pr", "cicd_code_pr", "coding_agent_handoff"}
HumanActions == {"noop", "escalate_human"}

-----------------------------------------------------------------------------
(* The brain's preflight validator *)

\* validatePlanPreflight: whether a plan may go on at all.
PreflightAllows(plan) == plan.content # "flagged"

\* validatePlanPreflight: whether it is marked as needing a human.
PreflightWantsHuman(plan, env) ==
    ~PreflightAllows(plan) \/ (env.prod /\ plan.action # "noop")

-----------------------------------------------------------------------------
(* The security agent's authorize-action *)

\* The default SECURITY_ALLOWED_ACTIONS: everything but git_revert.
AllowedActions == RemediationActions \ {"git_revert"}

AuthorizeAllows(plan, env) ==
    /\ plan.action \in AllowedActions
    /\ env.securityNamespace
    /\ ~(plan.action \in {"git_patch", "helm_deploy"} /\ plan.content = "refused")

AuthorizeForcesHil(plan, env) ==
    \/ ~AuthorizeAllows(plan, env)
    \/ env.prod /\ plan.action \in GitOpsActions
    \/ plan.action = "escalate_human"

-----------------------------------------------------------------------------
(* The tool compiler and the tool registry *)

CoreTools(plan) ==
    CASE plan.content = "hollow" /\ plan.action \in CiActions -> {}
      [] plan.action = "restart" -> {"executor.restart_workload"}
      [] plan.action \in GitOpsActions -> {"gitops.apply_plan"}
      [] plan.action = "cicd_rerun" -> {"cicd.rerun_workflow"}
      [] plan.action = "cicd_open_pr" -> {"cicd.open_pr"}
      [] plan.action = "cicd_code_pr" -> {"cicd.open_code_pr"}
      [] plan.action = "coding_agent_handoff" -> {"coding_agent.run_fix"}
      [] OTHER -> {}

\* compilePlanToToolCalls, less the notification step, which no gate looks at.
CompiledTools(plan, mode) ==
    CoreTools(plan) \cup
    IF mode = "pre-deploy" /\ plan.action \notin HumanActions
    THEN {"investigator.repo_inspect"} ELSE {}

\* compileFromToolCalls: an empty pipeline is valid only for noop and escalation.
CompiledOk(plan, mode) ==
    CompiledTools(plan, mode) # {} \/ plan.action \in HumanActions

\* The registry's entries with requiresHilInProd, and with risk 'high'.
ToolsNeedingHilInProd ==
    {"gitops.apply_plan", "argo.rollout_promote", "cicd.rerun_workflow",
     "cicd.open_pr", "cicd.open_code_pr", "coding_agent.run_fix"}
HighRiskTools == ToolsNeedingHilInProd \ {"cicd.rerun_workflow"}

-----------------------------------------------------------------------------
(* The two policy gates *)

\* Low risk: what AUTONOMY_MODE=low_risk_only executes without a human.
LowRisk(plan, env) ==
    \/ plan.action \in DeployActions /\ ~env.prod
    \/ plan.action = "restart" /\ (env.prod => plan.rollbackSafe)

\* Prod deploys and CRITICAL plans wait for a human even in full mode.
FullModeException(plan, env) ==
    env.prod /\ (plan.action \in DeployActions \/ plan.critical)

\* evaluatePolicyGate(...).autoExecute
PolicyGate(plan, env, forceHil) ==
    /\ ~forceHil
    /\ env.autonomyNamespace
    /\ plan.action \notin HumanActions
    /\ \/ env.autonomy = "full" /\ ~FullModeException(plan, env)
       \/ env.autonomy = "low_risk_only" /\ LowRisk(plan, env)

\* evaluateCompiledToolPolicy(...).autoExecute
ToolGate(tools, env, forceHil) ==
    /\ ~forceHil
    /\ tools # {}
    /\ env.autonomy # "hil_all"
    /\ env.prod => tools \cap (IF env.autonomy = "full" THEN HighRiskTools
                                                   ELSE ToolsNeedingHilInProd) = {}

\* evaluateCombinedPolicy
AutoExecute(plan, tools, env, forceHil) ==
    PolicyGate(plan, env, forceHil) /\ ToolGate(tools, env, forceHil)

=============================================================================
