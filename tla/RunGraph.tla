------------------------------ MODULE RunGraph ------------------------------
(***************************************************************************)
(* One orchestrator run (agents/orchestrator/src/graph.ts): the LangGraph  *)
(* state machine startRun drives from observe to verify, and the two hand- *)
(* written continuations that /resume-run drives after an approval:        *)
(* resumeRunAfterApproval and resumeAfterSourceBuildApproval.              *)
(*                                                                         *)
(* `at` is the node about to run, `flow` says who drives the nodes:        *)
(*   "graph"   the LangGraph graph,                                        *)
(*   "resume"  resumeRunAfterApproval, "retry" its second actNode,         *)
(*   "build"   resumeAfterSourceBuildApproval,                             *)
(*   "lost"    nobody: a continuation threw, and nothing wrote the record. *)
(* A node is one action: what it awaits is answered inside it, by every    *)
(* answer the callee can give.  What the planner, the analyst, the cluster *)
(* and the user say is nondeterministic; the gates are the functions of    *)
(* AutonomyPolicy.  Per-tool approval (PER_TOOL_HIL, off by default) is    *)
(* left out.                                                               *)
(***************************************************************************)
EXTENDS AutonomyPolicy, Sequences, FiniteSets

CONSTANTS
    Envs,           \* requests and deployment settings to be considered
    PlansFor,       \* the plans a planner may answer with, by mode
    NoPlan,         \* pendingPlan: undefined
    MaxIterations,  \* AUTONOMY_MAX_ITERATIONS
    MaxAgentTurns,  \* min(AGENTIC_MAX_TURNS, AGENTIC_MAX_READ_TOOLS)
    RecursionLimit, \* graphRecursionLimit()
    MaxResumes      \* bound: approvals of this run's asks

RunStatuses == {"running", "awaiting_human", "succeeded", "failed", "escalated", "cancelled"}

EnvRecords ==
    [mode: IncidentModes, user: BOOLEAN, agentic: BOOLEAN, stack: BOOLEAN, needsBuild: BOOLEAN,
     autonomy: AutonomyModes, prod: BOOLEAN, securityNamespace: BOOLEAN,
     autonomyNamespace: BOOLEAN, ragGrounding: BOOLEAN, buildNeedsHil: BOOLEAN,
     rollback: {"off", "auto", "hil"}]

\* Only a diagnosis is agentic: isAgenticDiagnose, and planNode's condition on the mode.
ASSUME RunGraphAssumption ==
    /\ Envs \subseteq EnvRecords
    /\ \A e \in Envs : e.agentic => e.mode = "diagnose"
    /\ PlansFor \in [IncidentModes -> SUBSET RemediationPlans]
    /\ NoPlan \notin RemediationPlans
    /\ MaxIterations \in Nat \ {0} /\ MaxAgentTurns \in Nat
    /\ RecursionLimit \in Nat /\ MaxResumes \in Nat

VARIABLES
    env,        \* the request and the settings, fixed
    flow, at,
    g,          \* the graph state
    run,        \* the stored run
    ask,        \* the plan HIL was last asked to approve and has not yet answered
    acts,       \* history: what was executed
    ignored,    \* an operator had HIL ignore the resource
    steps,      \* nodes run by the graph
    resumes     \* approvals delivered

vars == <<env, flow, at, g, run, ask, acts, ignored, steps, resumes>>

-----------------------------------------------------------------------------
(* Plans the code writes itself, and types *)

\* decidePostDeployRecovery's plan
RestartPlan ==
    [action |-> "restart", content |-> "fine", critical |-> FALSE, rollbackSafe |-> TRUE]
\* buildGitRevertPlan
RevertPlan ==
    [action |-> "git_revert", content |-> "fine", critical |-> FALSE, rollbackSafe |-> TRUE]
\* buildHilPlan of the source build
BuildPlan ==
    [action |-> "repo_apply", content |-> "fine", critical |-> FALSE, rollbackSafe |-> TRUE]
\* stackSummaryPlan
StackPlan ==
    [action |-> "helm_deploy", content |-> "fine", critical |-> FALSE, rollbackSafe |-> TRUE]

Plans == {RestartPlan, RevertPlan, BuildPlan, StackPlan}
            \cup UNION {PlansFor[m] : m \in IncidentModes}
MaybePlans == Plans \cup {NoPlan}

Nodes == {"start", "observe", "ragTriage", "agentDecide", "agentRead",
          "agentFinalize", "sanitize", "ragGrounding", "provenanceGate",
          "sourceBuild", "plan", "preflight", "authorize", "policy", "act",
          "afterAct", "analyzeFailure", "afterRetry", "verify", "finish", "end"}
Flows == {"graph", "resume", "retry", "build", "lost"}

Outcomes == {"none", "ok", "failed"}

GraphStates ==
    [status: RunStatuses \ {"cancelled"}, plan: MaybePlans, forceHil: BOOLEAN,
     iteration: 0..(MaxIterations + 1), turns: 0..MaxAgentTurns,
     factsRaw: BOOLEAN, facts: BOOLEAN, direct: BOOLEAN, stack: BOOLEAN,
     preflights: 0..1, lastAct: Outcomes, lastAction: RemediationActions \cup {"none"},
     everFailed: BOOLEAN, analysis: {"unused", "pending", "used"}, recovered: BOOLEAN]

RunRecords ==
    [status: RunStatuses, compiled: MaybePlans, build: {"none", "pending", "approved", "done"},
     deployCommit: BOOLEAN, reverted: BOOLEAN]

BuildTool == "investigator.source_build"
RevertTool == "gitops.revert_deploy"
Drivers == {"policy", "human", "analyst"}

-----------------------------------------------------------------------------
(* Where control goes after a node *)

Stopped(s) == s \in {"failed", "escalated"}
Halted(s) == Stopped(s) \/ s = "awaiting_human"
Done(s) == Halted(s) \/ s = "succeeded"

\* Mutant: a suspended pre-deploy or diagnose run is not stopped before it acts.
RouteAfterPolicyIgnoringWait(s) ==
    IF Stopped(s.status) \/ s.status = "succeeded" THEN "finish" ELSE "act"

RouteAfterPolicy(s) == IF Done(s.status) THEN "finish" ELSE "act"

\* Of ragGrounding, provenanceGate and sourceBuild.
RouteUnlessHalted(s, next) == IF Halted(s.status) THEN "finish" ELSE next

RouteAfterPreflight(s) == IF Stopped(s.status) THEN "finish" ELSE "authorize"

\* A match brings facts.
RouteAfterRagTriage(s) == IF s.factsRaw THEN "sanitize" ELSE "agentDecide"

RouteAfterSanitize(s) ==
    CASE Stopped(s.status) -> "finish"
      [] ~Stopped(s.status) /\ env.mode = "diagnose" /\ env.ragGrounding -> "ragGrounding"
      [] ~Stopped(s.status) /\ env.mode = "diagnose" /\ ~env.ragGrounding -> "provenanceGate"
      [] ~Stopped(s.status) /\ env.mode = "pre-deploy" /\ env.needsBuild -> "sourceBuild"
      [] OTHER -> "plan"

RouteAfterAnalyzeFailure(s) ==
    IF ~Stopped(s.status) /\ s.plan # NoPlan THEN "authorize" ELSE "finish"

\* Unless the driver is the graph, a failed act is the continuation's business.
RouteAfterAct(s) ==
    CASE flow = "graph" /\ Done(s.status) -> "finish"
      [] flow = "graph" /\ ~Done(s.status) /\ s.analysis = "pending" -> "analyzeFailure"
      [] flow = "resume" -> "afterAct"
      [] flow = "retry" -> "afterRetry"
      [] OTHER -> "verify"

\* Mutant: the run ends after an unhealthy verification.
RouteAfterVerifyEnds(s) == "finish"

\* awaiting_human is not among the statuses that stop here.
RouteAfterVerify(s) ==
    CASE Stopped(s.status) \/ s.status = "succeeded" \/ env.mode = "ci-failure" -> "finish"
      [] env.mode = "pre-deploy" /\ ~Stopped(s.status) /\ s.status # "succeeded" ->
            IF s.plan # NoPlan THEN "authorize" ELSE "finish"
      [] OTHER -> IF env.agentic THEN "agentDecide" ELSE "observe"

Entry == IF env.agentic THEN "ragTriage" ELSE "observe"

-----------------------------------------------------------------------------
(* Every node: it runs while the graph has supersteps left *)

Node(name) ==
    /\ at = name
    /\ flow = "graph" => steps < RecursionLimit
    /\ steps' = IF flow = "graph" THEN steps + 1 ELSE steps
    /\ UNCHANGED <<env, ignored, resumes>>

GoTo(next) == at' = next

Quiet == UNCHANGED <<run, ask, acts>>

\* isRunRequestIgnored: a run that no user asked for is skipped, unless HIL cannot be asked.
Start ==
    /\ at = "start"
    /\ \/ at' = Entry /\ UNCHANGED run
       \/ /\ ignored /\ ~env.user
          /\ at' = "end"
          /\ run' = [run EXCEPT !.status = "cancelled"]
    /\ UNCHANGED <<env, flow, g, ask, acts, ignored, steps, resumes>>

\* What observe may find: of a build, its run or none; of a deploy, that its namespace is
\* missing, or cannot be read, and that its repository cannot be cloned.
CiFindings == {"facts", "nothing"}
NamespaceFindings == {"facts", "namespaceMissing"}
RepositoryFindings == {"facts", "unreadable"}

Findings ==
    CASE env.mode = "ci-failure" -> CiFindings
      [] env.mode = "pre-deploy" -> NamespaceFindings \cup RepositoryFindings
      [] OTHER -> {"facts"}

\* The user is asked whether to create a missing namespace.
Observe ==
    /\ Node("observe")
    /\ \E how \in Findings :
          g' = [g EXCEPT !.iteration = @ + 1,
                         !.factsRaw = @ \/ how # "nothing",
                         !.status = CASE how = "facts" -> @
                                      [] how = "namespaceMissing" -> "awaiting_human"
                                      [] OTHER -> "failed"]
    /\ GoTo("sanitize")
    /\ Quiet /\ UNCHANGED flow

\* A runbook match skips the investigation, and may bring its own plan.
RagTriage ==
    /\ Node("ragTriage")
    /\ \/ UNCHANGED g
       \/ \E plan \in {NoPlan} \cup
                       {p \in PlansFor["diagnose"] : p.action \in {"restart", "noop"}} :
             g' = [g EXCEPT !.factsRaw = TRUE, !.plan = plan, !.direct = plan # NoPlan]
    /\ GoTo(RouteAfterRagTriage(g'))
    /\ Quiet /\ UNCHANGED flow

\* agentNextRead: what the evidence suggests, or the LLM, in whose place the former is taken
\* when its answer is no decision or no tool.
HeuristicNextReads == {"read", "enough", "ask"}
NextReads == HeuristicNextReads \cup {"escalate"}

\* The next read, the end of the investigation, or no more than a question or a warning.
AgentDecide ==
    /\ Node("agentDecide")
    /\ IF g.turns >= MaxAgentTurns
       THEN g' = [g EXCEPT !.status = "escalated"] /\ GoTo("finish")
       ELSE \E decision \in NextReads :
              CASE decision \in {"ask", "escalate"} ->
                     g' = [g EXCEPT !.status = "escalated"] /\ GoTo("finish")
                [] decision = "enough" -> UNCHANGED g /\ GoTo("agentFinalize")
                [] decision = "read" -> UNCHANGED g /\ GoTo("agentRead")
    /\ Quiet /\ UNCHANGED flow

AgentRead ==
    /\ Node("agentRead")
    /\ g' = [g EXCEPT !.turns = @ + 1]
    /\ GoTo("agentDecide")
    /\ Quiet /\ UNCHANGED flow

AgentFinalize ==
    /\ Node("agentFinalize")
    /\ g' = [g EXCEPT !.iteration = @ + 1, !.factsRaw = TRUE]
    /\ GoTo("sanitize")
    /\ Quiet /\ UNCHANGED flow

Sanitize ==
    /\ Node("sanitize")
    /\ \E blocked \in BOOLEAN :
        LET s == CASE ~g.factsRaw -> [g EXCEPT !.status = "failed"]
                   [] g.factsRaw /\ blocked -> [g EXCEPT !.status = "escalated"]
                   [] OTHER -> [g EXCEPT !.facts = TRUE]
        IN  g' = s
    /\ GoTo(RouteAfterSanitize(g'))
    /\ Quiet /\ UNCHANGED flow

RagGrounding ==
    /\ Node("ragGrounding")
    /\ GoTo(RouteUnlessHalted(g, "provenanceGate"))
    /\ UNCHANGED <<flow, g>> /\ Quiet

\* The run waits for the user when the Git or Helm source is incomplete.
ProvenanceGate ==
    /\ Node("provenanceGate")
    /\ \/ UNCHANGED g
       \/ ~Stopped(g.status) /\ g' = [g EXCEPT !.status = "awaiting_human"]
    /\ GoTo(RouteUnlessHalted(g', "plan"))
    /\ Quiet /\ UNCHANGED flow

-----------------------------------------------------------------------------
(* Asking for approval, and the source build *)

\* requestHilApproval: of a resource that is ignored HIL asks nobody, whoever wants the run,
\* and the run waits all the same.
Requested(plan) == IF ignored THEN ask ELSE plan

\* requestHilApproval and setRunStatus(awaiting_human)
AskFor(plan) ==
    /\ ask' = Requested(plan)
    /\ run' = [run EXCEPT !.status = "awaiting_human"]

Executed(plan, tools) ==
    acts' = Append(acts, [plan |-> plan, tools |-> tools,
                          by |-> CASE flow = "resume" -> "human"
                                   [] flow = "retry" -> "analyst"
                                   [] OTHER -> "policy"])

BuildMayStart == env.buildNeedsHil => run.build = "approved"

SourceBuild ==
    /\ Node("sourceBuild")
    /\ \/ /\ ~BuildMayStart
          /\ g' = [g EXCEPT !.status = "awaiting_human", !.plan = BuildPlan, !.forceHil = TRUE]
          /\ ask' = Requested(BuildPlan)
          /\ run' = [run EXCEPT !.status = "awaiting_human", !.build = "pending"]
          /\ UNCHANGED acts
       \/ /\ BuildMayStart
          /\ \E ok \in BOOLEAN :
                /\ g' = IF ok THEN g ELSE [g EXCEPT !.status = "failed"]
                /\ run' = [run EXCEPT !.build = IF ok THEN "done" ELSE "approved"]
          /\ Executed(BuildPlan, {BuildTool})
          /\ UNCHANGED ask
    /\ GoTo(RouteUnlessHalted(g', "plan"))
    /\ UNCHANGED flow

-----------------------------------------------------------------------------
(* plan, preflight, authorize, policy *)

\* The capability planner stores its pipeline with the plan; a plan parsed from what the
\* operator said, and the question asked in its place, leave the stored pipeline alone.
PlannedRuns(plan) ==
    {run} \cup (IF env.agentic THEN {[run EXCEPT !.compiled = plan]} ELSE {})

Plan ==
    /\ Node("plan")
    /\ \/ /\ g.direct /\ g.plan # NoPlan
          /\ UNCHANGED <<g, run>>
       \/ /\ env.mode = "pre-deploy" /\ env.stack
          /\ g' = [g EXCEPT !.plan = StackPlan, !.stack = TRUE]
          /\ UNCHANGED run
       \/ /\ ~(g.direct /\ g.plan # NoPlan)
          /\ ~(env.mode = "pre-deploy" /\ env.stack)
          /\ \E plan \in PlansFor[env.mode] :
                /\ g' = [g EXCEPT !.plan = plan]
                /\ run' \in PlannedRuns(plan)
    /\ GoTo("preflight")
    /\ UNCHANGED <<flow, ask, acts>>

Preflight ==
    /\ Node("preflight")
    /\ \/ /\ g.plan # NoPlan /\ PreflightAllows(g.plan)
          /\ g' = [g EXCEPT !.forceHil = @ \/ PreflightWantsHuman(g.plan, env)]
       \/ /\ g.plan # NoPlan /\ ~PreflightAllows(g.plan) /\ g.preflights < 1
          /\ \E revised \in PlansFor[env.mode] :
                g' = [g EXCEPT !.preflights = @ + 1, !.forceHil = TRUE,
                               !.plan = IF PreflightAllows(revised) THEN revised ELSE @,
                               !.status = IF PreflightAllows(revised) THEN @ ELSE "escalated"]
       \/ /\ g.plan # NoPlan /\ ~PreflightAllows(g.plan) /\ g.preflights >= 1
          /\ g' = [g EXCEPT !.forceHil = TRUE, !.status = "escalated"]
    /\ GoTo(RouteAfterPreflight(g'))
    /\ Quiet /\ UNCHANGED flow

\* authorizeNode: whatever forceHil was, it becomes the security agent's verdict.
\* The graph goes on to policy even when the plan is denied; the continuation of
\* a source build stops.
Authorize ==
    /\ Node("authorize")
    /\ g' = [g EXCEPT !.forceHil = AuthorizeForcesHil(g.plan, env),
                      !.status = IF AuthorizeAllows(g.plan, env) THEN @ ELSE "escalated"]
    /\ GoTo(IF flow = "build" /\ g'.status = "escalated" THEN "finish" ELSE "policy")
    /\ Quiet /\ UNCHANGED flow

\* stored?.compiled ?? compileAndValidatePlan(...): the pipeline of an earlier
\* plan of the run is kept.
CompiledOf(plan) == IF run.compiled # NoPlan THEN run.compiled ELSE plan

\* Mutant: the security agent's verdict does not reach the gates.
AutoExecutesUnforced(plan, compiled) ==
    AutoExecute(plan, CompiledTools(compiled, env.mode), env, FALSE)

AutoExecutes(plan, compiled) ==
    AutoExecute(plan, CompiledTools(compiled, env.mode), env, g.forceHil)

\* Mutant: the run is suspended without asking.
AskNeededNever == FALSE

\* The ask is skipped when the stored run is already waiting.
AskNeeded == run.status # "awaiting_human"

\* policyNode will send the ask before it writes the run's status.
AsksFirst ==
    /\ g.plan.action \notin HumanActions
    /\ CompiledOk(CompiledOf(g.plan), env.mode)
    /\ ~AutoExecutes(g.plan, CompiledOf(g.plan))
    /\ AskNeeded

\* In the source-build continuation 'succeeded' does not stop the run.
AfterPolicy(s) ==
    IF flow = "build" THEN (IF Halted(s.status) THEN "finish" ELSE "act")
                      ELSE RouteAfterPolicy(s)

PolicyWithoutGate ==
    /\ g.plan.action \in HumanActions
    /\ g' = [g EXCEPT !.status = IF g.plan.action = "noop" THEN "succeeded" ELSE "escalated"]
    /\ UNCHANGED <<run, ask>>

PolicyUncompilable ==
    /\ g.plan.action \notin HumanActions
    /\ ~CompiledOk(CompiledOf(g.plan), env.mode)
    /\ g' = [g EXCEPT !.status = "failed"]
    /\ UNCHANGED <<run, ask>>

PolicyGated ==
    LET compiled == CompiledOf(g.plan)
    IN  /\ g.plan.action \notin HumanActions
        /\ CompiledOk(compiled, env.mode)
        /\ \/ /\ AutoExecutes(g.plan, compiled)
              /\ run' = [run EXCEPT !.compiled = compiled]
              /\ UNCHANGED <<g, ask>>
           \/ /\ ~AutoExecutes(g.plan, compiled)
              /\ g' = [g EXCEPT !.status = "awaiting_human"]
              /\ run' = [run EXCEPT !.compiled = compiled, !.status = "awaiting_human"]
              /\ ask' = IF AskNeeded THEN Requested(g.plan) ELSE ask

Policy ==
    /\ Node("policy")
    /\ PolicyWithoutGate \/ PolicyUncompilable \/ PolicyGated
    /\ GoTo(AfterPolicy(g'))
    /\ UNCHANGED <<flow, acts>>

-----------------------------------------------------------------------------
(* act *)

\* actNode's record of what happened, and where it sends a failure.
Recorded(s, ok) ==
    [s EXCEPT !.lastAct = IF ok THEN "ok" ELSE "failed",
              !.lastAction = g.plan.action,
              !.everFailed = @ \/ ~ok]

\* canAttemptGitRollback
CanRevert == env.rollback # "off" /\ ~env.prod /\ run.deployCommit /\ ~run.reverted

\* The attempt is recorded when the revert was answered, for good or ill; a call that
\* threw is not.
RevertedRuns(ok) ==
    {[run EXCEPT !.reverted = TRUE]} \cup (IF ok THEN {} ELSE {run})

ActRevert ==
    /\ g.plan.action = "git_revert"
    /\ \E ok \in BOOLEAN :
        /\ ok => CanRevert
        /\ g' = [Recorded(g, ok) EXCEPT !.status = IF ok THEN "succeeded" ELSE "failed"]
        /\ \/ CanRevert /\ Executed(g.plan, {RevertTool}) /\ run' \in RevertedRuns(ok)
           \/ ~CanRevert /\ UNCHANGED <<acts, run>>

ActStack ==
    /\ g.plan.action # "git_revert"
    /\ g.stack
    /\ \E ok \in BOOLEAN :
        g' = [Recorded(g, ok) EXCEPT !.status = IF ok THEN "succeeded" ELSE "failed"]
    /\ Executed(g.plan, {"gitops.apply_plan"})
    /\ UNCHANGED run

\* executeAction runs the stored pipeline if it has calls, else compiles the plan.
PipelineOf(plan) ==
    IF run.compiled # NoPlan /\ CompiledTools(run.compiled, env.mode) # {}
    THEN run.compiled ELSE plan

\* What a failed action makes of the run: a Git patch the mirror refused is
\* offered as a cluster hot-fix, the first failure goes to the analyst, any
\* other fails the run.
Failures(s) ==
    LET hotfix == [s EXCEPT !.forceHil = TRUE]
        analyse == [s EXCEPT !.plan = NoPlan, !.analysis = "pending"]
        fail == [s EXCEPT !.status = "failed"]
    IN  {IF s.analysis # "used" /\ ~g.everFailed THEN analyse ELSE fail}
            \cup (IF g.plan.action = "git_patch" THEN {hotfix} ELSE {})

\* A GitOps commit is recorded for a later revert.
Commits(plan, tools) ==
    "gitops.apply_plan" \in tools /\ plan.action \in {"git_patch", "helm_deploy"}

ActPlan ==
    LET compiled == PipelineOf(g.plan)
        tools == CompiledTools(compiled, env.mode)
    IN  /\ g.plan.action # "git_revert"
        /\ ~g.stack
        /\ IF tools = {}
           THEN /\ g' \in Failures(Recorded(g, FALSE))
                /\ run' = [run EXCEPT !.compiled = compiled]
                /\ UNCHANGED acts
           ELSE /\ Executed(g.plan, tools)
                /\ \/ /\ g' = Recorded(g, TRUE)
                      /\ run' = [run EXCEPT !.compiled = compiled,
                                            !.deployCommit = @ \/ Commits(g.plan, tools)]
                   \/ /\ g' \in Failures(Recorded(g, FALSE))
                      /\ run' = [run EXCEPT !.compiled = compiled]

Act ==
    /\ Node("act")
    /\ ActRevert \/ ActStack \/ ActPlan
    /\ GoTo(RouteAfterAct(g'))
    /\ UNCHANGED <<flow, ask>>

-----------------------------------------------------------------------------
(* analyzeFailure and verify *)

\* The failure analyst's verdicts, by the LLM or by the kind of the error: on a missing
\* namespace, the latter's are that a human creates it.
DeterministicVerdicts == {"retry", "escalate", "createNamespace"}
Verdicts == {"stop"} \cup DeterministicVerdicts

\* What becomes of a verdict.  A retry plan is not validated again.
Analyses(s) ==
    UNION {CASE verdict = "stop" -> {[s EXCEPT !.status = "failed"]}
             [] verdict = "createNamespace" /\ env.mode = "pre-deploy" ->
                    {[s EXCEPT !.status = "awaiting_human"]}
             [] verdict = "retry" ->
                    {[s EXCEPT !.plan = p,
                               !.status = CASE p.action = "escalate_human" -> "escalated"
                                            [] p.action = "noop" -> "failed"
                                            [] OTHER -> @] : p \in PlansFor[env.mode]}
             [] OTHER -> {[s EXCEPT !.status = "escalated"]} : verdict \in Verdicts}

AnalyzeFailure ==
    LET s == [g EXCEPT !.analysis = "used"]
        retry == flow = "resume" /\ g'.plan # NoPlan /\ ~Halted(g'.status)
    IN  /\ Node("analyzeFailure")
        /\ g' \in IF g.facts THEN Analyses(s) ELSE {[s EXCEPT !.status = "failed"]}
        /\ GoTo(CASE flow # "resume" -> RouteAfterAnalyzeFailure(g')
                  [] retry -> "act"
                  [] OTHER -> "afterRetry")
        /\ flow' = IF retry THEN "retry" ELSE flow
        /\ Quiet

VerifyEnds(status) ==
    g' = [g EXCEPT !.status = status] /\ UNCHANGED <<run, ask, acts>>

VerifyCi ==
    /\ env.mode = "ci-failure"
    /\ VerifyEnds(IF g.lastAct = "failed" THEN "failed" ELSE "succeeded")

VerifyHealthy == env.mode # "ci-failure" /\ VerifyEnds("succeeded")

\* Mutant: nothing remembers that a recovery was tried.
RecoveryLeftAlways == TRUE

RecoveryLeft == ~g.recovered

\* Applied but unhealthy: one restart, announced as automatic or on confirmation;
\* or the readiness watcher takes over and the run counts as succeeded.
VerifyDeployed ==
    /\ env.mode = "pre-deploy" /\ g.lastAct = "ok"
    /\ \/ VerifyEnds("succeeded")
       \/ /\ RecoveryLeft
          /\ \E confirm \in BOOLEAN :
                g' = [g EXCEPT !.plan = RestartPlan, !.recovered = TRUE, !.forceHil = confirm]
          /\ UNCHANGED <<run, ask, acts>>

\* Not applied: the Git revert is asked for, or done, or out of the question.
VerifyNotDeployed ==
    /\ env.mode = "pre-deploy" /\ g.lastAct # "ok"
    /\ \/ /\ CanRevert /\ env.rollback = "hil"
          /\ g' = [g EXCEPT !.status = "awaiting_human", !.plan = RevertPlan]
          /\ AskFor(RevertPlan)
          /\ UNCHANGED acts
       \/ /\ CanRevert /\ env.rollback = "auto"
          /\ g' = [g EXCEPT !.status = "escalated"]
          /\ run' \in RevertedRuns(FALSE)
          /\ Executed(RevertPlan, {RevertTool})
          /\ UNCHANGED ask
       \/ ~CanRevert /\ VerifyEnds("escalated")

\* Mutant: the iteration cap is off by one.
IterationsLeftOneMore == g.iteration <= MaxIterations

IterationsLeft == g.iteration < MaxIterations

\* agentReflect, of a workload that is not healthy while there are iterations left.
Reflections == {"retry", "escalate", "ask"}

\* applyAgentReflect: an agent that asks its user ends the run.
Reflect ==
    \E outcome \in IF env.agentic THEN Reflections ELSE {"retry"} :
        IF outcome = "retry"
        THEN g' = [g EXCEPT !.plan = NoPlan] /\ UNCHANGED <<run, ask, acts>>
        ELSE VerifyEnds("escalated")

\* A diagnosis whose fix did not help: hold while pods are still coming up, ask
\* after a fix that did apply, else escalate or go round again.
VerifyUnhealthy ==
    /\ env.mode \in {"diagnose", "rollback"}
    /\ \/ env.mode = "diagnose" /\ VerifyEnds("awaiting_human")
       \/ IF /\ env.mode = "diagnose" /\ g.lastAct = "ok" /\ RecoveryLeft
             /\ g.lastAction \in {"git_patch", "restart"}
          THEN /\ g' = [g EXCEPT !.status = "awaiting_human", !.recovered = TRUE]
               /\ UNCHANGED <<run, ask, acts>>
          ELSE IF ~IterationsLeft
               THEN VerifyEnds("escalated")
               ELSE (env.mode = "rollback" /\ VerifyEnds("awaiting_human")) \/ Reflect

Verify ==
    /\ Node("verify")
    /\ VerifyCi \/ VerifyHealthy \/ VerifyDeployed \/ VerifyNotDeployed \/ VerifyUnhealthy
    /\ GoTo(IF flow = "graph" THEN RouteAfterVerify(g') ELSE "finish")
    /\ UNCHANGED flow

-----------------------------------------------------------------------------
(* The end of an invocation, and /resume-run *)

\* executeRunGraph: setRunStatus(final.status).
FinishGraph ==
    /\ at = "finish" /\ flow \in {"graph", "build"}
    /\ at' = "end"
    /\ run' = [run EXCEPT !.status = g.status]
    /\ UNCHANGED <<env, flow, g, ask, acts, ignored, steps, resumes>>

\* The end of resumeRunAfterApproval: a plan still pending is asked for.
FinishResume ==
    /\ at = "finish" /\ flow \in {"resume", "retry"}
    /\ at' = "end"
    /\ \/ /\ g.status = "running" /\ g.plan # NoPlan
          /\ g' = [g EXCEPT !.status = "awaiting_human"]
          /\ AskFor(g.plan)
       \/ /\ g.status = "running" /\ g.plan = NoPlan
          /\ g' = [g EXCEPT !.status = "failed"]
          /\ run' = [run EXCEPT !.status = "failed"]
          /\ UNCHANGED ask
       \/ /\ g.status # "running"
          /\ run' = [run EXCEPT !.status = g.status]
          /\ UNCHANGED <<g, ask>>
    /\ UNCHANGED <<env, flow, acts, ignored, steps, resumes>>

\* GRAPH_RECURSION_LIMIT: executeRunGraph's catch fails the run.
RecursionError ==
    /\ flow = "graph" /\ steps >= RecursionLimit
    /\ at \notin {"start", "finish", "end"}
    /\ at' = "end"
    /\ run' = [run EXCEPT !.status = "failed"]
    /\ UNCHANGED <<env, flow, g, ask, acts, ignored, steps, resumes>>

\* A node throws (a service is down or answers with an error).  A graph run fails;
\* of a continuation only a log line remains.  The ask may have reached HIL.
NodeThrows ==
    /\ at \notin {"start", "finish", "end"}
    /\ at' = "end"
    /\ IF flow = "graph"
       THEN run' = [run EXCEPT !.status = "failed"] /\ UNCHANGED flow
       ELSE flow' = "lost" /\ UNCHANGED run
    /\ \/ UNCHANGED ask
       \/ at = "policy" /\ AsksFirst /\ ask' = Requested(g.plan)
    /\ UNCHANGED <<env, g, acts, ignored, steps, resumes>>

\* onIgnored: an operator ignores the resource, in answer to this run's ask, which cancels
\* the run's record if the call gets through, or to another's.  A graph that is not at its
\* end goes on, and writes over the record.
Ignore ==
    /\ ~ignored /\ ignored' = TRUE
    /\ \/ ask = NoPlan /\ UNCHANGED <<ask, run>>
       \/ /\ ask # NoPlan /\ ask' = NoPlan
          /\ UNCHANGED run \/ run' = [run EXCEPT !.status = "cancelled"]
    /\ UNCHANGED <<env, flow, at, g, acts, steps, resumes>>

FreshState ==
    [status |-> "running", plan |-> NoPlan, forceHil |-> FALSE, iteration |-> 0,
     turns |-> 0, factsRaw |-> FALSE, facts |-> FALSE, direct |-> FALSE, stack |-> FALSE,
     preflights |-> 0, lastAct |-> "none", lastAction |-> "none", everFailed |-> FALSE,
     analysis |-> "unused", recovered |-> FALSE]

\* resumeAfterSourceBuildApproval: the build, and then the nodes from plan to verify.
ResumeAfterSourceBuild ==
    /\ run.build \in {"pending", "approved"}
    /\ flow' = "build" /\ at' = "sourceBuild"
    /\ g' = [FreshState EXCEPT !.iteration = 1, !.facts = TRUE, !.factsRaw = TRUE]
    /\ run' = [run EXCEPT !.status = "running", !.build = "approved"]

\* resumeRunAfterApproval.  The iteration restarts from the length of the transcript, at
\* least 1.
ResumeRun ==
    /\ run.build \notin {"pending", "approved"}
    /\ flow' = "resume" /\ at' = "act"
    /\ \E i \in 1..MaxIterations :
          g' = [FreshState EXCEPT !.iteration = i, !.plan = ask]
    /\ run' = [run EXCEPT !.status = "running"]

\* The human approved: HIL posts the command with the plan it was asked about.
Resume ==
    /\ at = "end" /\ ask # NoPlan /\ resumes < MaxResumes
    /\ resumes' = resumes + 1
    /\ ask' = NoPlan
    /\ ResumeAfterSourceBuild \/ ResumeRun
    /\ UNCHANGED <<env, acts, ignored, steps>>

\* After the approved act: a hot-fix is asked for, a first failure analysed on
\* fresh facts, if they can be had.
AfterApprovedAct ==
    /\ at = "afterAct"
    /\ \/ /\ g.plan # NoPlan /\ g.forceHil /\ g.lastAct = "failed"
          /\ g.status \notin {"awaiting_human", "succeeded"}
          /\ g' = [g EXCEPT !.status = "awaiting_human"]
          /\ AskFor(g.plan)
          /\ at' = "end"
       \/ /\ g.analysis = "pending"
          /\ \E gathered \in BOOLEAN : g' = [g EXCEPT !.facts = gathered]
          /\ at' = "analyzeFailure"
          /\ UNCHANGED <<run, ask>>
       \/ /\ ~(g.plan # NoPlan /\ g.forceHil /\ g.lastAct = "failed")
          /\ g.analysis # "pending"
          /\ at' = "afterRetry"
          /\ UNCHANGED <<g, run, ask>>
    /\ UNCHANGED <<env, flow, acts, ignored, steps, resumes>>

\* A failed act fails the run, unless verification finds the workload healthy.
AfterRetry ==
    LET s == IF g.lastAct = "failed" /\ g.status # "awaiting_human"
             THEN [g EXCEPT !.status = "failed"] ELSE g
    IN  /\ at = "afterRetry"
        /\ g' = s
        /\ at' = IF s.status \in {"awaiting_human", "succeeded"} THEN "finish" ELSE "verify"
        /\ UNCHANGED <<env, flow, run, ask, acts, ignored, steps, resumes>>

-----------------------------------------------------------------------------
Init ==
    /\ env \in Envs
    /\ flow = "graph" /\ at = "start"
    /\ g = FreshState
    /\ run = [status |-> "running", compiled |-> NoPlan, build |-> "none",
              deployCommit |-> FALSE, reverted |-> FALSE]
    /\ ask = NoPlan /\ acts = << >> /\ ignored = FALSE /\ steps = 0 /\ resumes = 0

\* The code's own progress, that is all but the human's approval.
Advance ==
    \/ Start \/ Observe \/ RagTriage \/ AgentDecide \/ AgentRead \/ AgentFinalize
    \/ Sanitize \/ RagGrounding \/ ProvenanceGate \/ SourceBuild
    \/ Plan \/ Preflight \/ Authorize \/ Policy \/ Act \/ AnalyzeFailure \/ Verify
    \/ FinishGraph \/ FinishResume \/ RecursionError \/ NodeThrows
    \/ AfterApprovedAct \/ AfterRetry

Settled == at = "end" /\ (ask = NoPlan \/ resumes = MaxResumes) /\ UNCHANGED vars

Next == Advance \/ Resume \/ Ignore \/ Settled

Spec == Init /\ [][Next]_vars /\ WF_vars(Advance)

-----------------------------------------------------------------------------
(* Properties *)

\* Every variable has its type.
TypeOK ==
    /\ env \in Envs /\ flow \in Flows /\ at \in Nodes
    /\ g \in GraphStates /\ run \in RunRecords /\ ask \in MaybePlans /\ ignored \in BOOLEAN
    /\ \A i \in DOMAIN acts :
          /\ acts[i].plan \in Plans
          /\ acts[i].by \in Drivers
    /\ steps \in 0..RecursionLimit /\ resumes \in 0..MaxResumes

\* The executions of a plan, as opposed to an image build or an automatic revert.
PlanActs == {acts[i] : i \in {k \in DOMAIN acts : acts[k].tools \notin {{BuildTool}, {RevertTool}}}}

\* Whatever path a plan took to actNode (a retry of the analyst, a recovery
\* restart, a re-plan, the continuation of a build), if no human approved it the
\* security agent allows it without a human and both policy gates let it pass.
OnlyClearedPlansRunUnattended ==
    \A a \in PlanActs : a.by = "policy" =>
        /\ AuthorizeAllows(a.plan, env) /\ ~AuthorizeForcesHil(a.plan, env)
        /\ AutoExecute(a.plan, a.tools, env, FALSE)

\* Once the run waits for a user, an approval or an operator's hint, or has been
\* given up, the graph never reaches actNode, although several edges after such a
\* node do not look at the status.
ActOnlyWhileRunning == at = "act" /\ flow = "graph" => g.status = "running"

\* An invocation that came to its end leaves no record that says 'running': such a
\* run would block its resource and its namespace's quota until it is stale.
EndedRunIsSettled ==
    at = "end" /\ flow \in {"graph", "resume", "retry"} => run.status # "running"

\* When the policy gate suspends the run, the plan HIL is asked about is the plan
\* the run is suspended on, although policyNode skips the ask when the stored run
\* already waits: a graph that goes on must not find it waiting.  A resource that is
\* ignored is not asked about.
SuspendedOnWhatIsAsked ==
    [][at = "policy" /\ at' = "finish" /\ g.status # "awaiting_human"
        /\ g'.status = "awaiting_human" =>
            IF ignored THEN ask' = ask ELSE ask' = g'.plan]_vars

\* Without a human the run acts at most once per iteration, once more after the
\* failure analysis, and once more on a runbook match, which skips the node that
\* counts; a deployment at most three times: act, retry, restart.
UnattendedActsBounded ==
    Cardinality({i \in DOMAIN acts : acts[i].by = "policy"
                                     /\ acts[i].tools \notin {{BuildTool}, {RevertTool}}}) <=
        CASE env.mode = "pre-deploy" -> 3
          [] env.agentic -> MaxIterations + 2
          [] OTHER -> MaxIterations + 1

\* What the run does without a human is cleared and comes to an end, on every path to actNode
\* (graph.ts:1681, 1795).
UnattendedActsAreCleared == OnlyClearedPlansRunUnattended /\ UnattendedActsBounded

\* A run that waits acts on nothing, and waits for what its human was shown (graph.ts:1717).
WaitingIsRespected == []ActOnlyWhileRunning /\ SuspendedOnWhatIsAsked

\* AUTONOMY_MAX_ITERATIONS stops the loop, and never LangGraph's recursion limit.
StepsSuffice ==
    ~(flow = "graph" /\ steps >= RecursionLimit /\ at \notin {"start", "finish", "end"})

-----------------------------------------------------------------------------
(* What the documentation says, and the code does not do *)

\* docs/ARCHITECTURE.md: authorize comes before every act, so that what the
\* analyst's retry executes after an approval is allowed by the security agent.
RetriesAreAuthorized ==
    \A a \in PlanActs : a.by = "analyst" => AuthorizeAllows(a.plan, env)

\* agents/orchestrator/src/graph.ts: a run that the policy suspended is one that HIL asks
\* about, also when its user once ignored the resource.
SuspendedRunsAreAsked ==
    [][at = "policy" /\ at' = "finish" /\ g'.status = "awaiting_human" => ask' = g'.plan]_vars

\* graph.ts tells the user that a plan preflight marked as sensitive will need
\* human approval.
SensitivePlansWaitForHuman ==
    \A a \in PlanActs : a.by = "policy" => ~PreflightWantsHuman(a.plan, env)

\* docs/ARCHITECTURE.md: a restart is executed by the executor, a patch or a
\* chart by gitops.
ToolsMatchThePlan ==
    \A a \in PlanActs : a.tools = CompiledTools(a.plan, env.mode) \/ env.stack
=============================================================================
