--------------------------- MODULE RunGraphProofs ---------------------------
(***************************************************************************)
(* Theorems about RunGraph, for every set of requests and settings, every  *)
(* set of plans a planner may answer with, and every iteration, turn,      *)
(* recursion and resume limit.                                             *)
(***************************************************************************)
EXTENDS RunGraph, FiniteSetTheorems, TLAPS

ToolNames ==
    {BuildTool, RevertTool, "executor.restart_workload", "gitops.apply_plan",
     "cicd.rerun_workflow", "cicd.open_pr", "cicd.open_code_pr", "coding_agent.run_fix",
     "investigator.repo_inspect"}
ActRecords == [plan: Plans, tools: SUBSET ToolNames, by: Drivers]

\* The gates stand before actNode only where the graph drives, or the continuation of
\* a build.
Gated == flow \in {"graph", "build"}

\* Where a round of the graph begins, and its nodes up to actNode.
Gathering == {"start", "observe", "ragTriage", "agentDecide", "agentRead", "agentFinalize"}
Preparing == {"sanitize", "ragGrounding", "provenanceGate", "sourceBuild", "plan"}
Clearing == {"preflight", "authorize", "policy", "act"}

Typed == TypeOK /\ acts \in Seq(ActRecords)

\* Which nodes a driver runs, and that the gates and actNode have a plan.
DriversKnowTheirNodes ==
    /\ flow = "graph" => at \notin {"afterAct", "afterRetry"}
    /\ flow = "build" =>
          at \in {"sourceBuild", "plan", "preflight", "authorize", "policy", "act",
                  "verify", "finish", "end"}
    /\ flow = "resume" =>
          at \in {"act", "afterAct", "analyzeFailure", "afterRetry", "verify", "finish", "end"}
    /\ flow = "retry" => at \in {"act", "afterRetry", "verify", "finish", "end"}
    /\ flow = "lost" => at = "end"
    /\ at = "ragTriage" => env.agentic
    /\ at \in {"authorize", "policy", "act"} => g.plan # NoPlan

\* The graph acts, analyses and verifies only while it runs, and finishes when it does not.
GraphStatus ==
    flow = "graph" =>
        /\ at \in {"act", "analyzeFailure", "verify"} => g.status = "running"
        /\ at = "finish" => g.status # "running"
        /\ at = "analyzeFailure" => g.analysis = "pending"

\* A round begins with an iteration left, unless the run already waits; one that waits
\* counts one round more, in which it does not act.
RoundsLeft ==
    flow = "graph" =>
        /\ at \in Gathering => g.iteration <= MaxIterations
        /\ at \in Gathering /\ g.status = "running" => g.iteration < MaxIterations
        /\ g.status = "running" => g.iteration <= MaxIterations
        /\ at = "agentRead" => g.turns < MaxAgentTurns

\* The executions that no human and no analyst ordered.
Unattended ==
    {i \in DOMAIN acts : acts[i].by = "policy"
                         /\ acts[i].tools \notin {{BuildTool}, {RevertTool}}}

\* A source build that is not done is the first thing a run does: nothing was compiled
\* or executed before it.
BuildComesFirst ==
    /\ at = "sourceBuild" \/ flow = "build" \/ run.build # "none" => env.mode = "pre-deploy"
    /\ run.build \in {"pending", "approved"} =>
          /\ Unattended = {} /\ run.compiled = NoPlan
          /\ flow = "graph" => at \in {"finish", "end"}
          /\ flow = "build" => at \in {"sourceBuild", "finish", "end"}
          /\ flow \notin {"resume", "retry"}
    /\ flow = "build" /\ at = "sourceBuild" => run.build = "approved"
    /\ flow = "build" /\ at \in Preparing \cup Clearing => Unattended = {}
    /\ flow = "build" /\ at \in Preparing \cup {"preflight", "authorize", "policy"} =>
          run.compiled = NoPlan /\ g.analysis = "unused"
    /\ flow = "graph" /\ env.mode = "pre-deploy" /\ at \in Gathering \cup Preparing =>
          Unattended = {} /\ run.compiled = NoPlan

\* A stack is deployed by its summary plan, and by that plan's pipeline.
StackIsItsPlan ==
    Gated /\ g.stack =>
        /\ at \in Clearing \cup {"verify", "finish", "end"}
        /\ at = "verify" => flow = "build"
        /\ at \in {"preflight", "authorize", "policy"} =>
              g.plan = StackPlan /\ run.compiled = NoPlan /\ env.mode = "pre-deploy"

Cleared(plan, tools) ==
    /\ AuthorizeAllows(plan, env) /\ ~AuthorizeForcesHil(plan, env)
    /\ AutoExecute(plan, tools, env, FALSE)

\* What the policy gate knows of the security agent's verdict, and what actNode knows of
\* the gates': of the continuation of a build, that a plan to do nothing does nothing.
GatesWereAsked ==
    /\ Gated /\ at = "policy" => g.forceHil = AuthorizeForcesHil(g.plan, env)
    /\ Gated /\ at = "act" =>
          \/ /\ run.compiled # NoPlan
             /\ Cleared(g.plan, CompiledTools(run.compiled, env.mode))
             /\ g.stack => ToolGate({"gitops.apply_plan"}, env, FALSE)
          \/ /\ flow = "build" /\ g.plan.action = "noop"
             /\ ~g.stack /\ run.compiled = NoPlan

\* How often the run may have acted by now: every way round to actNode is paid for, by an
\* iteration, the failure analysis, the recovery, or the runbook match.
Allowance ==
    (IF env.mode = "pre-deploy" THEN 1 + (IF g.recovered THEN 1 ELSE 0)
     ELSE g.iteration + (IF env.agentic THEN 1 ELSE 0))
    + (IF g.analysis = "used" THEN 1 ELSE 0)

ActsArePaidFor ==
    /\ flow = "graph" /\ g.status = "running" =>
          /\ at \in Preparing \cup Clearing => Cardinality(Unattended) + 1 <= Allowance
          /\ Cardinality(Unattended) <= Allowance
          /\ at \in {"start", "ragTriage"} => Unattended = {}
    /\ UnattendedActsBounded

\* Until the graph or the continuation ends, its record waits only when a Git revert was
\* asked for, whose plan goes through the gates once more.
RecordWaitsForTheRevert ==
    Gated /\ at \notin {"finish", "end"} /\ run.status = "awaiting_human" =>
        /\ flow = "graph" /\ at \in {"authorize", "policy"} /\ g.status # "running"
        /\ ignored \/ ask = g.plan

GraphInv ==
    /\ Typed
    /\ DriversKnowTheirNodes /\ GraphStatus /\ RoundsLeft
    /\ BuildComesFirst /\ StackIsItsPlan /\ GatesWereAsked /\ ActsArePaidFor
    /\ OnlyClearedPlansRunUnattended
    /\ RecordWaitsForTheRevert
    /\ EndedRunIsSettled

-----------------------------------------------------------------------------
(* Plans and settings *)

LEMMA PlanFacts ==
    /\ Plans \subseteq RemediationPlans /\ NoPlan \notin Plans
    /\ {RestartPlan, RevertPlan, BuildPlan, StackPlan} \subseteq Plans
    /\ \A m \in IncidentModes : PlansFor[m] \subseteq Plans
<1>1. \A m \in IncidentModes : PlansFor[m] \subseteq RemediationPlans
  BY RunGraphAssumption
<1>2. {RestartPlan, RevertPlan, BuildPlan, StackPlan} \subseteq RemediationPlans
  BY DEF RestartPlan, RevertPlan, BuildPlan, StackPlan, RemediationPlans, RemediationActions,
         Contents
<1>3. QED BY <1>1, <1>2, RunGraphAssumption DEF Plans

LEMMA EnvFacts ==
    ASSUME env \in Envs
    PROVE  /\ env \in EnvRecords
           /\ env.mode \in IncidentModes
           /\ env.agentic => env.mode = "diagnose"
  BY RunGraphAssumption DEF EnvRecords

\* A pipeline's tools are among the registry's names.
LEMMA CompiledToolNames ==
    \A plan, mode : CompiledTools(plan, mode) \subseteq ToolNames
  BY DEF CompiledTools, CoreTools, ToolNames

-----------------------------------------------------------------------------
(* Counting what was executed *)

Counts(a) == a.by = "policy" /\ a.tools \notin {{BuildTool}, {RevertTool}}

LEMMA UnattendedFinite ==
    ASSUME acts \in Seq(ActRecords)
    PROVE  /\ IsFiniteSet(Unattended) /\ Cardinality(Unattended) \in Nat
           /\ Unattended \subseteq 1..Len(acts)
           /\ Unattended = {} => Cardinality(Unattended) = 0
<1>1. Unattended \subseteq 1..Len(acts) /\ Len(acts) \in Nat
  BY DEF Unattended
<1>2. IsFiniteSet(1..Len(acts))
  BY <1>1, FS_Interval
<1>3. IsFiniteSet(Unattended)
  BY <1>1, <1>2, FS_Subset
<1>4. QED BY <1>1, <1>3, FS_CardinalityType, FS_EmptySet

\* One more execution counts at most once, and not at all unless no human and no analyst
\* ordered it, and it is no build and no revert.
LEMMA OneMoreAct ==
    ASSUME acts \in Seq(ActRecords), NEW a \in ActRecords, acts' = Append(acts, a)
    PROVE  /\ acts' \in Seq(ActRecords)
           /\ ~Counts(a) => Unattended' = Unattended
           /\ Counts(a) => Cardinality(Unattended') = Cardinality(Unattended) + 1
<1> DEFINE n == Len(acts) + 1
<1>1. /\ acts' \in Seq(ActRecords) /\ Len(acts) \in Nat
      /\ DOMAIN acts' = 1..n /\ DOMAIN acts = 1..Len(acts)
      /\ acts'[n] = a /\ \A i \in DOMAIN acts : acts'[i] = acts[i]
  OBVIOUS
<1>2. 1..n = (1..Len(acts)) \cup {n} /\ n \notin 1..Len(acts)
  BY <1>1
<1>3. Unattended' = IF Counts(a) THEN Unattended \cup {n} ELSE Unattended
  BY <1>1, <1>2 DEF Unattended, Counts
<1>4. n \notin Unattended
  BY <1>1, <1>2 DEF Unattended
<1>5. QED BY <1>1, <1>3, <1>4, UnattendedFinite, FS_AddElement

\* One more record adds at most itself to the executions of plans.
LEMMA PlanActsGrow ==
    ASSUME acts \in Seq(ActRecords), NEW a \in ActRecords, acts' = Append(acts, a)
    PROVE  PlanActs' \subseteq PlanActs \cup {a}
  BY DEF PlanActs

\* What the type invariant says of the history follows from its being one of records.
LEMMA ActsTyped ==
    ASSUME NEW s \in Seq(ActRecords)
    PROVE  \A i \in DOMAIN s : s[i].plan \in Plans /\ s[i].by \in Drivers
<1>1. \A i \in DOMAIN s : s[i] \in ActRecords
  OBVIOUS
<1>2. QED BY <1>1 DEF ActRecords

\* A step that executes nothing, or nothing that counts.
NothingCounted ==
    /\ acts' \in Seq(ActRecords)
    /\ \A i \in DOMAIN acts' : acts'[i].plan \in Plans /\ acts'[i].by \in Drivers
    /\ Unattended' = Unattended
    /\ OnlyClearedPlansRunUnattended' /\ UnattendedActsBounded'

\* It leaves what was executed as cleared and as bounded as it was.
LEMMA HistoryKept ==
    ASSUME GraphInv, env' = env,
           \/ acts' = acts
           \/ \E a \in ActRecords : acts' = Append(acts, a) /\ ~Counts(a)
    PROVE  NothingCounted
<1>1. acts \in Seq(ActRecords) /\ OnlyClearedPlansRunUnattended /\ UnattendedActsBounded
  BY DEF GraphInv, Typed, ActsArePaidFor
<1>2. CASE acts' = acts
  <2>1. Unattended' = Unattended BY <1>2 DEF Unattended
  <2>2. OnlyClearedPlansRunUnattended' BY <1>1, <1>2 DEF OnlyClearedPlansRunUnattended, PlanActs
  <2>3. UnattendedActsBounded' BY <1>1, <1>2 DEF UnattendedActsBounded
  <2>4. QED BY <1>1, <1>2, <2>1, <2>2, <2>3, ActsTyped DEF NothingCounted
<1>3. CASE \E a \in ActRecords : acts' = Append(acts, a) /\ ~Counts(a)
  <2>1. PICK a \in ActRecords : acts' = Append(acts, a) /\ ~Counts(a) BY <1>3
  <2>2. acts' \in Seq(ActRecords) /\ Unattended' = Unattended
    BY <1>1, <2>1, OneMoreAct
  <2>3. PlanActs' \subseteq PlanActs \cup {a}
    BY <1>1, <2>1, PlanActsGrow
  <2>4. a \in PlanActs' => a.by # "policy"
    BY <2>1 DEF PlanActs, Counts
  <2>5. OnlyClearedPlansRunUnattended'
    BY <1>1, <2>3, <2>4 DEF OnlyClearedPlansRunUnattended
  <2>6. UnattendedActsBounded'
    BY <1>1, <2>2 DEF UnattendedActsBounded, Unattended
  <2>7. QED BY <2>2, <2>5, <2>6, ActsTyped DEF NothingCounted
<1>4. QED BY <1>2, <1>3

-----------------------------------------------------------------------------
(* What the steps start from *)

\* What every step starts from.
LEMMA KnownFacts ==
    ASSUME GraphInv
    PROVE  /\ env \in Envs /\ env \in EnvRecords /\ env.mode \in IncidentModes
           /\ env.agentic => env.mode = "diagnose"
           /\ flow \in Flows /\ steps \in 0..RecursionLimit
           /\ g \in GraphStates /\ run \in RunRecords
           /\ g.status \in {"running", "awaiting_human", "succeeded", "failed", "escalated"}
           /\ g.plan \in MaybePlans
           /\ g.iteration \in 0..(MaxIterations + 1) /\ g.turns \in 0..MaxAgentTurns
           /\ Cardinality(Unattended) \in Nat
           /\ Unattended = {} => Cardinality(Unattended) = 0
<1>1. TypeOK /\ acts \in Seq(ActRecords)
  BY DEF GraphInv, Typed
<1>2. /\ g.status \in {"running", "awaiting_human", "succeeded", "failed", "escalated"}
      /\ g.plan \in MaybePlans
      /\ g.iteration \in 0..(MaxIterations + 1) /\ g.turns \in 0..MaxAgentTurns
  BY <1>1 DEF TypeOK, GraphStates, RunStatuses
<1>3. QED BY <1>1, <1>2, EnvFacts, UnattendedFinite DEF TypeOK

\* A superstep is within the recursion limit.
LEMMA NodeSteps ==
    ASSUME steps \in 0..RecursionLimit, NEW name, Node(name)
    PROVE  steps' \in 0..RecursionLimit
  BY RunGraphAssumption DEF Node

-----------------------------------------------------------------------------
(* How a verification ends *)

Ends ==
    /\ \E s \in {"awaiting_human", "succeeded", "failed", "escalated"} :
          g' = [g EXCEPT !.status = s]
    /\ UNCHANGED <<run, ask, acts>>
Restarts ==
    /\ env.mode = "pre-deploy" /\ ~g.recovered
    /\ \E confirm \in BOOLEAN :
          g' = [g EXCEPT !.plan = RestartPlan, !.recovered = TRUE, !.forceHil = confirm]
    /\ UNCHANGED <<run, ask, acts>>
AsksRevert ==
    /\ env.mode = "pre-deploy"
    /\ g' = [g EXCEPT !.status = "awaiting_human", !.plan = RevertPlan]
    /\ AskFor(RevertPlan)
    /\ UNCHANGED acts
Reverts ==
    /\ g' = [g EXCEPT !.status = "escalated"]
    /\ run' = run \/ run' = [run EXCEPT !.reverted = TRUE]
    /\ Executed(RevertPlan, {RevertTool})
    /\ UNCHANGED ask
Holds ==
    /\ g' = [g EXCEPT !.status = "awaiting_human", !.recovered = TRUE]
    /\ UNCHANGED <<run, ask, acts>>
GoesRound ==
    /\ env.mode \in {"diagnose", "rollback"} /\ g.iteration < MaxIterations
    /\ g' = [g EXCEPT !.plan = NoPlan]
    /\ UNCHANGED <<run, ask, acts>>
\* The six ways a verification can end, whatever was verified.
VerifyOutcome == Ends \/ Restarts \/ AsksRevert \/ Reverts \/ Holds \/ GoesRound

\* The Git revert is asked for, unless the resource is ignored.
RevertAsked ==
    /\ env.mode = "pre-deploy" /\ g'.status = "awaiting_human" /\ g'.plan = RevertPlan
    /\ ignored \/ ask' = g'.plan
    /\ RevertPlan # NoPlan


\* Every verification ends in one of the six ways.
LEMMA VerifyOutcomes ==
    ASSUME Verify
    PROVE  VerifyOutcome
<1>1. CASE \E s \in {"awaiting_human", "succeeded", "failed", "escalated"} : VerifyEnds(s)
  BY <1>1 DEF VerifyOutcome, Ends, VerifyEnds
<1>2. CASE VerifyCi \/ VerifyHealthy
  BY <1>1, <1>2 DEF VerifyCi, VerifyHealthy
<1>3. CASE VerifyDeployed
  BY <1>1, <1>3 DEF VerifyDeployed, VerifyOutcome, Restarts, RecoveryLeft
<1>4. CASE VerifyNotDeployed
  BY <1>1, <1>4 DEF VerifyNotDeployed, RevertedRuns, VerifyOutcome, AsksRevert, Reverts
<1>5. CASE VerifyUnhealthy
  <2>1. CASE Reflect /\ IterationsLeft
    BY <1>1, <1>5, <2>1 DEF VerifyUnhealthy, VerifyOutcome, GoesRound, Reflect, IterationsLeft
  <2>2. CASE ~(Reflect /\ IterationsLeft)
    BY <1>1, <1>5, <2>2 DEF VerifyUnhealthy, VerifyOutcome, Holds
  <2>3. QED BY <2>1, <2>2
<1>6. QED BY <1>2, <1>3, <1>4, <1>5 DEF Verify

-----------------------------------------------------------------------------
(* The nodes from start to authorize keep the invariant *)

LEMMA StartStep == GraphInv /\ Start => GraphInv'
<1> SUFFICES ASSUME GraphInv, Start PROVE GraphInv'
  OBVIOUS
<1> USE RunGraphAssumption DEF GraphInv
<1>1. NothingCounted
  BY HistoryKept DEF Start, Entry
<1>2. g' \in GraphStates
  BY KnownFacts DEF Start, Entry, GraphStates, RunStatuses
<1>3. run' \in RunRecords
  BY KnownFacts DEF Start, Entry, RunRecords, RunStatuses
<1>4. Typed'
  BY KnownFacts, <1>2, <1>1, <1>3 DEF Start, Entry, Typed, TypeOK, NothingCounted, Nodes, Flows
<1>5. DriversKnowTheirNodes' /\ GraphStatus' /\ RoundsLeft'
  BY KnownFacts, PlanFacts
  DEF Start, Entry, GraphStates, Flows, DriversKnowTheirNodes, GraphStatus, RoundsLeft,
      Gathering
<1>6. BuildComesFirst' /\ StackIsItsPlan'
  BY KnownFacts, <1>1, PlanFacts
  DEF Start, Entry, GraphStates, RunRecords, NothingCounted, BuildComesFirst, StackIsItsPlan,
      Gated, Gathering, Preparing, Clearing, DriversKnowTheirNodes
<1>7. GatesWereAsked'
  BY KnownFacts DEF Start, Entry, GraphStates, GatesWereAsked, Gated
<1>8. ActsArePaidFor'
  BY KnownFacts, <1>1
  DEF Start, Entry, GraphStates, NothingCounted, ActsArePaidFor, Allowance, Gathering,
      Preparing, Clearing, DriversKnowTheirNodes, GraphStatus, RoundsLeft, BuildComesFirst
<1>9. RecordWaitsForTheRevert' /\ EndedRunIsSettled'
  BY KnownFacts
  DEF Start, Entry, GraphStates, RunRecords, RecordWaitsForTheRevert, EndedRunIsSettled, Gated,
      DriversKnowTheirNodes
<1>10. QED BY <1>4, <1>5, <1>6, <1>7, <1>8, <1>9, <1>1 DEF NothingCounted

LEMMA ObserveStep == GraphInv /\ Observe => GraphInv'
<1> SUFFICES ASSUME GraphInv, Observe PROVE GraphInv'
  OBVIOUS
<1> USE RunGraphAssumption DEF GraphInv
<1>1. /\ g.iteration + 1 \in 0..(MaxIterations + 1)
      /\ g.status = "running" => g.iteration + 1 <= MaxIterations
  BY KnownFacts
  DEF Observe, Findings, CiFindings, NamespaceFindings, RepositoryFindings, Node, GoTo, Quiet,
      Flows, DriversKnowTheirNodes, RoundsLeft, Gathering
<1>2. PICK s \in {g.status, "awaiting_human", "failed"}, b \in BOOLEAN :
         g' = [g EXCEPT !.iteration = g.iteration + 1, !.factsRaw = b, !.status = s]
  BY KnownFacts
  DEF Observe, Findings, CiFindings, NamespaceFindings, RepositoryFindings, Node, GoTo
<1>3. NothingCounted
  BY HistoryKept, <1>1, <1>2
  DEF Observe, Findings, CiFindings, NamespaceFindings, RepositoryFindings, Node, GoTo, Quiet
<1>4. g' \in GraphStates
  BY KnownFacts, <1>1, <1>2, ZenonT(60) DEF GraphStates, RunStatuses, MaybePlans
<1>5. run' \in RunRecords
  BY KnownFacts, <1>1, <1>2
  DEF Observe, Findings, CiFindings, NamespaceFindings, RepositoryFindings, Node, GoTo, Quiet,
      RunRecords, RunStatuses
<1>6. Typed'
  BY KnownFacts, <1>4, <1>3, <1>5, <1>1, <1>2
  DEF Observe, Findings, CiFindings, NamespaceFindings, RepositoryFindings, Node, GoTo, Quiet,
      Typed, TypeOK, NothingCounted, Nodes, Flows
<1>7. DriversKnowTheirNodes' /\ GraphStatus' /\ RoundsLeft'
  BY KnownFacts, <1>1, <1>2, PlanFacts
  DEF Observe, Findings, CiFindings, NamespaceFindings, RepositoryFindings, Node, GoTo, Quiet,
      GraphStates, Flows, DriversKnowTheirNodes, GraphStatus, RoundsLeft, Gathering
<1>8. BuildComesFirst' /\ StackIsItsPlan'
  BY KnownFacts, <1>1, <1>2, <1>3, PlanFacts
  DEF Observe, Findings, CiFindings, NamespaceFindings, RepositoryFindings, Node, GoTo, Quiet,
      GraphStates, RunRecords, NothingCounted, BuildComesFirst, StackIsItsPlan, Gated,
      Gathering, Preparing, Clearing, DriversKnowTheirNodes
<1>9. GatesWereAsked'
  BY KnownFacts, <1>1, <1>2
  DEF Observe, Findings, CiFindings, NamespaceFindings, RepositoryFindings, Node, GoTo, Quiet,
      GraphStates, GatesWereAsked, Gated
<1>10. ActsArePaidFor'
  <2>1. /\ at = "observe" /\ at' = "sanitize" /\ UNCHANGED <<flow, env>>
        /\ Unattended' = Unattended /\ UnattendedActsBounded'
    BY <1>3 DEF Observe, Node, GoTo, Quiet, NothingCounted
  <2>2. /\ g'.status = "running" => g.status = "running"
        /\ g'.iteration = g.iteration + 1 /\ g.iteration \in Nat
        /\ g'.analysis = g.analysis /\ g'.recovered = g.recovered
    BY KnownFacts, <1>2 DEF GraphStates
  <2>3. Cardinality(Unattended) \in Nat /\ Allowance \in Int
    BY KnownFacts DEF Allowance
  <2>4. flow = "graph" /\ g.status = "running" => Cardinality(Unattended) + 1 <= Allowance'
    <3> SUFFICES ASSUME flow = "graph", g.status = "running"
                 PROVE  Cardinality(Unattended) + 1 <= Allowance'
      OBVIOUS
    <3>1. CASE env.mode = "pre-deploy"
      <4>1. Cardinality(Unattended) = 0
        BY <2>1, <3>1, KnownFacts DEF BuildComesFirst, Gathering
      <4>2. Allowance' >= 1
        BY <2>1, <3>1 DEF Allowance
      <4>3. QED BY <2>1, <4>1, <4>2 DEF Allowance
    <3>2. CASE env.mode # "pre-deploy"
      <4>1. Cardinality(Unattended) <= Allowance
        BY DEF ActsArePaidFor
      <4>2. Allowance' = Allowance + 1
        BY <2>1, <2>2, <3>2 DEF Allowance
      <4>3. QED BY <2>3, <4>1, <4>2
    <3>3. QED BY <3>1, <3>2
  <2>5. at' \notin {"start", "ragTriage"}
    BY <2>1
  <2>6. Allowance' \in Int
    BY <2>1, <2>2 DEF Allowance
  <2>7. flow = "graph" /\ g.status = "running" => Cardinality(Unattended) <= Allowance'
    BY <2>3, <2>4, <2>6
  <2>8. QED BY <2>1, <2>2, <2>4, <2>5, <2>7 DEF ActsArePaidFor
<1>11. RecordWaitsForTheRevert' /\ EndedRunIsSettled'
  BY KnownFacts, <1>1, <1>2
  DEF Observe, Findings, CiFindings, NamespaceFindings, RepositoryFindings, Node, GoTo, Quiet,
      GraphStates, RunRecords, RecordWaitsForTheRevert, EndedRunIsSettled, Gated,
      DriversKnowTheirNodes
<1>12. QED BY <1>6, <1>7, <1>8, <1>9, <1>10, <1>11, <1>3 DEF NothingCounted

LEMMA RagTriageStep == GraphInv /\ RagTriage => GraphInv'
<1> SUFFICES ASSUME GraphInv, RagTriage PROVE GraphInv'
  OBVIOUS
<1> USE RunGraphAssumption DEF GraphInv
<1>1. PICK plan \in MaybePlans, b \in BOOLEAN, r \in BOOLEAN :
            g' = [g EXCEPT !.factsRaw = r, !.plan = plan, !.direct = b]
  <2>1. CASE UNCHANGED g
    <3>1. g' = [g EXCEPT !.factsRaw = g.factsRaw, !.plan = g.plan, !.direct = g.direct]
        /\ g.factsRaw \in BOOLEAN /\ g.direct \in BOOLEAN
      BY <2>1, KnownFacts DEF GraphStates
    <3>2. QED BY <3>1, KnownFacts
  <2>2. CASE g' # g
    <3>1. PICK plan \in {NoPlan} \cup
                        {p \in PlansFor["diagnose"] : p.action \in {"restart", "noop"}} :
             g' = [g EXCEPT !.factsRaw = TRUE, !.plan = plan, !.direct = plan # NoPlan]
      BY <2>2 DEF RagTriage, RouteAfterRagTriage, Node, GoTo
    <3>2. plan \in MaybePlans /\ (plan # NoPlan) \in BOOLEAN
      BY PlanFacts DEF MaybePlans, IncidentModes
    <3>3. QED BY <3>1, <3>2
  <2>3. QED BY <2>1, <2>2
<1>2. at = "ragTriage" /\ at' \in {"sanitize", "agentDecide"}
  BY DEF RagTriage, RouteAfterRagTriage, Node, GoTo
<1>3. UNCHANGED <<env, flow, run, ask, acts, ignored, resumes>> /\ steps' \in 0..RecursionLimit
  BY NodeSteps, KnownFacts DEF RagTriage, RouteAfterRagTriage, Node, GoTo, Quiet
<1>4. NothingCounted
  BY HistoryKept, <1>1, <1>2, <1>3 DEF RagTriage, RouteAfterRagTriage, Node, GoTo
<1>5. g' \in GraphStates
  BY KnownFacts, <1>1, <1>2, <1>3, ZenonT(60) DEF GraphStates, RunStatuses, MaybePlans
<1>6. run' \in RunRecords
  BY KnownFacts, <1>1, <1>2, <1>3 DEF RunRecords, RunStatuses, MaybePlans
<1>7. Typed'
  BY KnownFacts, <1>5, <1>4, <1>6, <1>1, <1>2, <1>3
  DEF Typed, TypeOK, NothingCounted, Nodes, Flows
<1>8. DriversKnowTheirNodes' /\ GraphStatus' /\ RoundsLeft'
  BY KnownFacts, <1>1, <1>2, <1>3, PlanFacts
  DEF GraphStates, Flows, DriversKnowTheirNodes, GraphStatus, RoundsLeft, Gathering
<1>9. BuildComesFirst' /\ StackIsItsPlan'
  BY KnownFacts, <1>1, <1>2, <1>3, <1>4, PlanFacts
  DEF GraphStates, RunRecords, NothingCounted, BuildComesFirst, StackIsItsPlan, Gated,
      Gathering, Preparing, Clearing, DriversKnowTheirNodes
<1>10. GatesWereAsked'
  BY KnownFacts, <1>1, <1>2, <1>3 DEF GraphStates, GatesWereAsked, Gated, Cleared
<1>11. ActsArePaidFor'
  BY KnownFacts, <1>1, <1>2, <1>3, <1>4, SMTT(30)
  DEF GraphStates, NothingCounted, ActsArePaidFor, Allowance, Gathering, Preparing, Clearing,
      DriversKnowTheirNodes, GraphStatus, RoundsLeft, BuildComesFirst, Flows
<1>12. RecordWaitsForTheRevert' /\ EndedRunIsSettled'
  BY KnownFacts, <1>1, <1>2, <1>3
  DEF GraphStates, RunRecords, RecordWaitsForTheRevert, EndedRunIsSettled, Gated,
      DriversKnowTheirNodes
<1>13. QED BY <1>7, <1>8, <1>9, <1>10, <1>11, <1>12, <1>4 DEF NothingCounted

LEMMA AgentDecideStep == GraphInv /\ AgentDecide => GraphInv'
<1> SUFFICES ASSUME GraphInv, AgentDecide PROVE GraphInv'
  OBVIOUS
<1> USE RunGraphAssumption DEF GraphInv
<1>1. NothingCounted
  BY HistoryKept DEF AgentDecide, NextReads, HeuristicNextReads, Node, GoTo, Quiet
<1>2. g' \in GraphStates
  BY KnownFacts
  DEF AgentDecide, NextReads, HeuristicNextReads, Node, GoTo, Quiet, GraphStates, RunStatuses
<1>3. run' \in RunRecords
  BY KnownFacts
  DEF AgentDecide, NextReads, HeuristicNextReads, Node, GoTo, Quiet, RunRecords, RunStatuses
<1>4. Typed'
  BY KnownFacts, <1>2, <1>1, <1>3
  DEF AgentDecide, NextReads, HeuristicNextReads, Node, GoTo, Quiet, Typed, TypeOK,
      NothingCounted, Nodes, Flows
<1>5. DriversKnowTheirNodes' /\ GraphStatus' /\ RoundsLeft'
  BY KnownFacts, PlanFacts
  DEF AgentDecide, NextReads, HeuristicNextReads, Node, GoTo, Quiet, GraphStates, Flows,
      DriversKnowTheirNodes, GraphStatus, RoundsLeft, Gathering
<1>6. BuildComesFirst' /\ StackIsItsPlan'
  BY KnownFacts, <1>1, PlanFacts
  DEF AgentDecide, NextReads, HeuristicNextReads, Node, GoTo, Quiet, GraphStates, RunRecords,
      NothingCounted, BuildComesFirst, StackIsItsPlan, Gated, Gathering, Preparing, Clearing,
      DriversKnowTheirNodes
<1>7. GatesWereAsked'
  BY KnownFacts
  DEF AgentDecide, NextReads, HeuristicNextReads, Node, GoTo, Quiet, GraphStates,
      GatesWereAsked, Gated
<1>8. ActsArePaidFor'
  BY KnownFacts, <1>1, SMTT(30)
  DEF AgentDecide, NextReads, HeuristicNextReads, Node, GoTo, Quiet, GraphStates,
      NothingCounted, ActsArePaidFor, Allowance, Gathering, Preparing, Clearing,
      DriversKnowTheirNodes, GraphStatus, RoundsLeft, BuildComesFirst
<1>9. RecordWaitsForTheRevert' /\ EndedRunIsSettled'
  BY KnownFacts
  DEF AgentDecide, NextReads, HeuristicNextReads, Node, GoTo, Quiet, GraphStates, RunRecords,
      RecordWaitsForTheRevert, EndedRunIsSettled, Gated, DriversKnowTheirNodes
<1>10. QED BY <1>4, <1>5, <1>6, <1>7, <1>8, <1>9, <1>1 DEF NothingCounted

LEMMA AgentReadStep == GraphInv /\ AgentRead => GraphInv'
<1> SUFFICES ASSUME GraphInv, AgentRead PROVE GraphInv'
  OBVIOUS
<1> USE RunGraphAssumption DEF GraphInv
<1>1. g.turns + 1 \in 0..MaxAgentTurns /\ g' = [g EXCEPT !.turns = g.turns + 1]
  BY KnownFacts DEF AgentRead, Node, GoTo, Quiet, Flows, RoundsLeft, DriversKnowTheirNodes
<1>2. NothingCounted
  BY HistoryKept, <1>1 DEF AgentRead, Node, GoTo, Quiet
<1>3. g' \in GraphStates
  BY KnownFacts, <1>1 DEF GraphStates, RunStatuses, MaybePlans
<1>4. run' \in RunRecords
  BY KnownFacts, <1>1 DEF AgentRead, Node, GoTo, Quiet, RunRecords, RunStatuses
<1>5. Typed'
  BY KnownFacts, <1>3, <1>2, <1>4, <1>1, SMTT(30)
  DEF AgentRead, Node, GoTo, Quiet, Typed, TypeOK, NothingCounted, Nodes, Flows, MaybePlans
<1>6. DriversKnowTheirNodes' /\ GraphStatus' /\ RoundsLeft'
  BY KnownFacts, <1>1, PlanFacts
  DEF AgentRead, Node, GoTo, Quiet, GraphStates, Flows, DriversKnowTheirNodes, GraphStatus,
      RoundsLeft, Gathering
<1>7. BuildComesFirst' /\ StackIsItsPlan'
  BY KnownFacts, <1>1, <1>2, PlanFacts
  DEF AgentRead, Node, GoTo, Quiet, GraphStates, RunRecords, NothingCounted, BuildComesFirst,
      StackIsItsPlan, Gated, Gathering, Preparing, Clearing, DriversKnowTheirNodes
<1>8. GatesWereAsked'
  BY KnownFacts, <1>1 DEF AgentRead, Node, GoTo, Quiet, GraphStates, GatesWereAsked, Gated
<1>9. ActsArePaidFor'
  BY KnownFacts, <1>1, <1>2
  DEF AgentRead, Node, GoTo, Quiet, GraphStates, NothingCounted, ActsArePaidFor, Allowance,
      Gathering, Preparing, Clearing, DriversKnowTheirNodes, GraphStatus, RoundsLeft,
      BuildComesFirst
<1>10. RecordWaitsForTheRevert' /\ EndedRunIsSettled'
  BY KnownFacts, <1>1
  DEF AgentRead, Node, GoTo, Quiet, GraphStates, RunRecords, RecordWaitsForTheRevert,
      EndedRunIsSettled, Gated, DriversKnowTheirNodes
<1>11. QED BY <1>5, <1>6, <1>7, <1>8, <1>9, <1>10, <1>2 DEF NothingCounted

LEMMA AgentFinalizeStep == GraphInv /\ AgentFinalize => GraphInv'
<1> SUFFICES ASSUME GraphInv, AgentFinalize PROVE GraphInv'
  OBVIOUS
<1> USE RunGraphAssumption DEF GraphInv
<1>1. /\ g.iteration + 1 \in 0..(MaxIterations + 1)
      /\ g.status = "running" => g.iteration + 1 <= MaxIterations
  BY KnownFacts
  DEF AgentFinalize, Node, GoTo, Quiet, Flows, RoundsLeft, Gathering, DriversKnowTheirNodes
<1>2. g' = [g EXCEPT !.iteration = g.iteration + 1, !.factsRaw = TRUE]
  BY KnownFacts DEF AgentFinalize, Node, GoTo, Quiet
<1>3. NothingCounted
  BY HistoryKept, <1>1, <1>2 DEF AgentFinalize, Node, GoTo, Quiet
<1>4. g' \in GraphStates
  BY KnownFacts, <1>1, <1>2 DEF GraphStates, RunStatuses, MaybePlans
<1>5. run' \in RunRecords
  BY KnownFacts, <1>1, <1>2 DEF AgentFinalize, Node, GoTo, Quiet, RunRecords, RunStatuses
<1>6. Typed'
  BY KnownFacts, <1>4, <1>3, <1>5, <1>1, <1>2
  DEF AgentFinalize, Node, GoTo, Quiet, Typed, TypeOK, NothingCounted, Nodes, Flows
<1>7. DriversKnowTheirNodes' /\ GraphStatus' /\ RoundsLeft'
  BY KnownFacts, <1>1, <1>2, PlanFacts
  DEF AgentFinalize, Node, GoTo, Quiet, GraphStates, Flows, DriversKnowTheirNodes, GraphStatus,
      RoundsLeft, Gathering
<1>8. BuildComesFirst' /\ StackIsItsPlan'
  BY KnownFacts, <1>1, <1>2, <1>3, PlanFacts
  DEF AgentFinalize, Node, GoTo, Quiet, GraphStates, RunRecords, NothingCounted,
      BuildComesFirst, StackIsItsPlan, Gated, Gathering, Preparing, Clearing,
      DriversKnowTheirNodes
<1>9. GatesWereAsked'
  BY KnownFacts, <1>1, <1>2
  DEF AgentFinalize, Node, GoTo, Quiet, GraphStates, GatesWereAsked, Gated
<1>10. ActsArePaidFor'
  BY KnownFacts, <1>1, <1>2, <1>3, SMTT(30)
  DEF AgentFinalize, Node, GoTo, Quiet, GraphStates, NothingCounted, ActsArePaidFor, Allowance,
      Gathering, Preparing, Clearing, DriversKnowTheirNodes, GraphStatus, RoundsLeft,
      BuildComesFirst, Flows
<1>11. RecordWaitsForTheRevert' /\ EndedRunIsSettled'
  BY KnownFacts, <1>1, <1>2
  DEF AgentFinalize, Node, GoTo, Quiet, GraphStates, RunRecords, RecordWaitsForTheRevert,
      EndedRunIsSettled, Gated, DriversKnowTheirNodes
<1>12. QED BY <1>6, <1>7, <1>8, <1>9, <1>10, <1>11, <1>3 DEF NothingCounted

LEMMA SanitizeStep == GraphInv /\ Sanitize => GraphInv'
<1> SUFFICES ASSUME GraphInv, Sanitize PROVE GraphInv'
  OBVIOUS
<1> USE RunGraphAssumption DEF GraphInv
<1>1. PICK s \in {g.status, "escalated", "failed"}, b \in BOOLEAN :
         g' = [g EXCEPT !.status = s, !.facts = b]
  <2>1. PICK blocked \in BOOLEAN : g' = CASE ~g.factsRaw -> [g EXCEPT !.status = "failed"]
                   [] g.factsRaw /\ blocked -> [g EXCEPT !.status = "escalated"]
                   [] OTHER -> [g EXCEPT !.facts = TRUE]
    BY DEF Sanitize, RouteAfterSanitize, Stopped, Node, GoTo
  <2>2. g' \in {[g EXCEPT !.status = "failed", !.facts = g.facts],
                [g EXCEPT !.status = "escalated", !.facts = g.facts],
                [g EXCEPT !.status = g.status, !.facts = TRUE]}
    BY <2>1, KnownFacts DEF GraphStates
  <2>3. g.facts \in BOOLEAN BY KnownFacts DEF GraphStates
  <2>4. QED BY <2>2, <2>3
<1>2. NothingCounted
  BY HistoryKept, <1>1 DEF Sanitize, RouteAfterSanitize, Stopped, Node, GoTo, Quiet
<1>3. g' \in GraphStates
  BY KnownFacts, <1>1 DEF GraphStates, RunStatuses, MaybePlans
<1>4. run' \in RunRecords
  BY KnownFacts, <1>1
  DEF Sanitize, RouteAfterSanitize, Stopped, Node, GoTo, Quiet, RunRecords, RunStatuses
<1>5. Typed'
  BY KnownFacts, <1>3, <1>2, <1>4, <1>1
  DEF Sanitize, RouteAfterSanitize, Stopped, Node, GoTo, Quiet, Typed, TypeOK, NothingCounted,
      Nodes, Flows
<1>6. DriversKnowTheirNodes' /\ GraphStatus' /\ RoundsLeft'
  BY KnownFacts, <1>1, PlanFacts
  DEF Sanitize, RouteAfterSanitize, Stopped, Node, GoTo, Quiet, GraphStates, Flows,
      DriversKnowTheirNodes, GraphStatus, RoundsLeft, Gathering
<1>7. BuildComesFirst' /\ StackIsItsPlan'
  BY KnownFacts, <1>1, <1>2, PlanFacts
  DEF Sanitize, RouteAfterSanitize, Stopped, Node, GoTo, Quiet, GraphStates, RunRecords,
      NothingCounted, BuildComesFirst, StackIsItsPlan, Gated, Gathering, Preparing, Clearing,
      DriversKnowTheirNodes
<1>8. GatesWereAsked'
  BY KnownFacts, <1>1
  DEF Sanitize, RouteAfterSanitize, Stopped, Node, GoTo, Quiet, GraphStates, GatesWereAsked,
      Gated
<1>9. ActsArePaidFor'
  BY KnownFacts, <1>1, <1>2
  DEF Sanitize, RouteAfterSanitize, Stopped, Node, GoTo, Quiet, GraphStates, NothingCounted,
      ActsArePaidFor, Allowance, Gathering, Preparing, Clearing, DriversKnowTheirNodes,
      GraphStatus, RoundsLeft, BuildComesFirst
<1>10. RecordWaitsForTheRevert' /\ EndedRunIsSettled'
  BY KnownFacts, <1>1
  DEF Sanitize, RouteAfterSanitize, Stopped, Node, GoTo, Quiet, GraphStates, RunRecords,
      RecordWaitsForTheRevert, EndedRunIsSettled, Gated, DriversKnowTheirNodes
<1>11. QED BY <1>5, <1>6, <1>7, <1>8, <1>9, <1>10, <1>2 DEF NothingCounted

LEMMA RagGroundingStep == GraphInv /\ RagGrounding => GraphInv'
<1> SUFFICES ASSUME GraphInv, RagGrounding PROVE GraphInv'
  OBVIOUS
<1> USE RunGraphAssumption DEF GraphInv
<1>1. NothingCounted
  BY HistoryKept DEF RagGrounding, RouteUnlessHalted, Halted, Stopped, Node, GoTo, Quiet
<1>2. g' \in GraphStates
  BY KnownFacts
  DEF RagGrounding, RouteUnlessHalted, Halted, Stopped, Node, GoTo, Quiet, GraphStates,
      RunStatuses
<1>3. run' \in RunRecords
  BY KnownFacts
  DEF RagGrounding, RouteUnlessHalted, Halted, Stopped, Node, GoTo, Quiet, RunRecords,
      RunStatuses
<1>4. Typed'
  BY KnownFacts, <1>2, <1>1, <1>3
  DEF RagGrounding, RouteUnlessHalted, Halted, Stopped, Node, GoTo, Quiet, Typed, TypeOK,
      NothingCounted, Nodes, Flows
<1>5. DriversKnowTheirNodes' /\ GraphStatus' /\ RoundsLeft'
  BY KnownFacts, PlanFacts
  DEF RagGrounding, RouteUnlessHalted, Halted, Stopped, Node, GoTo, Quiet, GraphStates, Flows,
      DriversKnowTheirNodes, GraphStatus, RoundsLeft, Gathering
<1>6. BuildComesFirst' /\ StackIsItsPlan'
  BY KnownFacts, <1>1, PlanFacts
  DEF RagGrounding, RouteUnlessHalted, Halted, Stopped, Node, GoTo, Quiet, GraphStates,
      RunRecords, NothingCounted, BuildComesFirst, StackIsItsPlan, Gated, Gathering, Preparing,
      Clearing, DriversKnowTheirNodes
<1>7. GatesWereAsked'
  BY KnownFacts
  DEF RagGrounding, RouteUnlessHalted, Halted, Stopped, Node, GoTo, Quiet, GraphStates,
      GatesWereAsked, Gated
<1>8. ActsArePaidFor'
  BY KnownFacts, <1>1
  DEF RagGrounding, RouteUnlessHalted, Halted, Stopped, Node, GoTo, Quiet, GraphStates,
      NothingCounted, ActsArePaidFor, Allowance, Gathering, Preparing, Clearing,
      DriversKnowTheirNodes, GraphStatus, RoundsLeft, BuildComesFirst
<1>9. RecordWaitsForTheRevert' /\ EndedRunIsSettled'
  BY KnownFacts
  DEF RagGrounding, RouteUnlessHalted, Halted, Stopped, Node, GoTo, Quiet, GraphStates,
      RunRecords, RecordWaitsForTheRevert, EndedRunIsSettled, Gated, DriversKnowTheirNodes
<1>10. QED BY <1>4, <1>5, <1>6, <1>7, <1>8, <1>9, <1>1 DEF NothingCounted

LEMMA ProvenanceGateStep == GraphInv /\ ProvenanceGate => GraphInv'
<1> SUFFICES ASSUME GraphInv, ProvenanceGate PROVE GraphInv'
  OBVIOUS
<1> USE RunGraphAssumption DEF GraphInv
<1>1. NothingCounted
  BY HistoryKept DEF ProvenanceGate, RouteUnlessHalted, Halted, Stopped, Node, GoTo, Quiet
<1>2. g' \in GraphStates
  BY KnownFacts
  DEF ProvenanceGate, RouteUnlessHalted, Halted, Stopped, Node, GoTo, Quiet, GraphStates,
      RunStatuses
<1>3. run' \in RunRecords
  BY KnownFacts
  DEF ProvenanceGate, RouteUnlessHalted, Halted, Stopped, Node, GoTo, Quiet, RunRecords,
      RunStatuses
<1>4. Typed'
  BY KnownFacts, <1>2, <1>1, <1>3
  DEF ProvenanceGate, RouteUnlessHalted, Halted, Stopped, Node, GoTo, Quiet, Typed, TypeOK,
      NothingCounted, Nodes, Flows
<1>5. DriversKnowTheirNodes' /\ GraphStatus' /\ RoundsLeft'
  BY KnownFacts, PlanFacts
  DEF ProvenanceGate, RouteUnlessHalted, Halted, Stopped, Node, GoTo, Quiet, GraphStates, Flows,
      DriversKnowTheirNodes, GraphStatus, RoundsLeft, Gathering
<1>6. BuildComesFirst' /\ StackIsItsPlan'
  BY KnownFacts, <1>1, PlanFacts
  DEF ProvenanceGate, RouteUnlessHalted, Halted, Stopped, Node, GoTo, Quiet, GraphStates,
      RunRecords, NothingCounted, BuildComesFirst, StackIsItsPlan, Gated, Gathering, Preparing,
      Clearing, DriversKnowTheirNodes
<1>7. GatesWereAsked'
  BY KnownFacts
  DEF ProvenanceGate, RouteUnlessHalted, Halted, Stopped, Node, GoTo, Quiet, GraphStates,
      GatesWereAsked, Gated
<1>8. ActsArePaidFor'
  BY KnownFacts, <1>1
  DEF ProvenanceGate, RouteUnlessHalted, Halted, Stopped, Node, GoTo, Quiet, GraphStates,
      NothingCounted, ActsArePaidFor, Allowance, Gathering, Preparing, Clearing,
      DriversKnowTheirNodes, GraphStatus, RoundsLeft, BuildComesFirst
<1>9. RecordWaitsForTheRevert' /\ EndedRunIsSettled'
  BY KnownFacts
  DEF ProvenanceGate, RouteUnlessHalted, Halted, Stopped, Node, GoTo, Quiet, GraphStates,
      RunRecords, RecordWaitsForTheRevert, EndedRunIsSettled, Gated, DriversKnowTheirNodes
<1>10. QED BY <1>4, <1>5, <1>6, <1>7, <1>8, <1>9, <1>1 DEF NothingCounted

LEMMA SourceBuildStep == GraphInv /\ SourceBuild => GraphInv'
<1> SUFFICES ASSUME GraphInv, SourceBuild PROVE GraphInv'
  OBVIOUS
<1> USE RunGraphAssumption DEF GraphInv
<1>1. PICK s \in {g.status, "awaiting_human", "failed"}, p \in MaybePlans, h \in BOOLEAN :
        /\ g' = [g EXCEPT !.status = s, !.plan = p, !.forceHil = h]
        /\ s # "awaiting_human" => p = g.plan
  <2>1. g.forceHil \in BOOLEAN BY KnownFacts DEF GraphStates
  <2>2. CASE g' = [g EXCEPT !.status = "awaiting_human", !.plan = BuildPlan, !.forceHil = TRUE]
    BY <2>2, PlanFacts DEF MaybePlans
  <2>3. CASE \E ok \in BOOLEAN : g' = IF ok THEN g ELSE [g EXCEPT !.status = "failed"]
    <3>1. g' = [g EXCEPT !.status = g.status, !.plan = g.plan, !.forceHil = g.forceHil]
          \/ g' = [g EXCEPT !.status = "failed", !.plan = g.plan, !.forceHil = g.forceHil]
      BY <2>3, KnownFacts, ZenonT(60) DEF GraphStates
    <3>2. QED BY <3>1, <2>1, KnownFacts
  <2>4. QED BY <2>2, <2>3 DEF SourceBuild
<1>2. /\ at = "sourceBuild" /\ flow \in {"graph", "build"} /\ flow' = flow
      /\ at' = IF g'.status \in {"failed", "escalated", "awaiting_human"}
               THEN "finish" ELSE "plan"
      /\ UNCHANGED <<env, ignored, resumes>>
  BY KnownFacts
  DEF SourceBuild, RouteUnlessHalted, Halted, Stopped, BuildMayStart, Node, GoTo, Quiet,
      DriversKnowTheirNodes, Flows
<1>3. /\ steps' \in 0..RecursionLimit /\ ask' \in MaybePlans
  BY KnownFacts, NodeSteps, PlanFacts
  DEF SourceBuild, RouteUnlessHalted, Halted, Stopped, BuildMayStart, Node, GoTo, Quiet, Typed,
      TypeOK, Requested, MaybePlans
<1>4. \/ /\ run' = [run EXCEPT !.status = "awaiting_human", !.build = "pending"]
         /\ g'.status = "awaiting_human" /\ flow = "graph"
      \/ run' = [run EXCEPT !.build = "done"] /\ g'.status = g.status
      \/ run' = [run EXCEPT !.build = "approved"] /\ g'.status = "failed"
  <2>1. CASE ~BuildMayStart
    <3>1. flow = "graph" BY <2>1, <1>2 DEF BuildComesFirst, BuildMayStart
    <3>2. g' = [g EXCEPT !.status = "awaiting_human", !.plan = BuildPlan, !.forceHil = TRUE]
          /\ run' = [run EXCEPT !.status = "awaiting_human", !.build = "pending"]
      BY <2>1 DEF SourceBuild
    <3>3. QED BY <3>1, <3>2, KnownFacts DEF GraphStates
  <2>2. CASE BuildMayStart
    <3>1. PICK ok \in BOOLEAN : g' = (IF ok THEN g ELSE [g EXCEPT !.status = "failed"])
             /\ run' = [run EXCEPT !.build = IF ok THEN "done" ELSE "approved"]
      BY <2>2 DEF SourceBuild
    <3>2. QED BY <3>1, KnownFacts DEF GraphStates
  <2>3. QED BY <2>1, <2>2
<1>5. acts' = acts \/ \E a \in ActRecords : acts' = Append(acts, a) /\ ~Counts(a)
  <2>1. [plan |-> BuildPlan, tools |-> {BuildTool}, by |-> "policy"] \in ActRecords
    BY PlanFacts DEF ActRecords, ToolNames, Drivers
  <2>2. ~Counts([plan |-> BuildPlan, tools |-> {BuildTool}, by |-> "policy"])
    BY DEF Counts
  <2>3. CASE acts' = Append(acts, [plan |-> BuildPlan, tools |-> {BuildTool}, by |-> "policy"])
    BY <2>1, <2>2, <2>3
  <2>4. QED BY <2>3, <1>2 DEF SourceBuild, Executed
<1>6. /\ env.mode = "pre-deploy" /\ Unattended = {} /\ run.compiled = NoPlan
      /\ flow = "build" => g.analysis = "unused"
  BY <1>2 DEF BuildComesFirst, Preparing, Gathering
<1>7. NothingCounted
  BY HistoryKept, <1>2, <1>5
  DEF SourceBuild, RouteUnlessHalted, Halted, Stopped, BuildMayStart, Node, GoTo
<1>8. g' \in GraphStates
  BY KnownFacts, <1>1, <1>2, <1>3, <1>4, <1>6 DEF GraphStates, RunStatuses, MaybePlans
<1>9. run' \in RunRecords
  BY KnownFacts, <1>1, <1>2, <1>3, <1>4, <1>6 DEF RunRecords, RunStatuses, MaybePlans
<1>10. Typed'
  BY KnownFacts, <1>8, <1>7, <1>9, <1>1, <1>2, <1>3, <1>4, <1>6
  DEF Typed, TypeOK, NothingCounted, Nodes, Flows
<1>11. DriversKnowTheirNodes' /\ GraphStatus' /\ RoundsLeft'
  BY KnownFacts, <1>1, <1>2, <1>3, <1>4, <1>6, PlanFacts
  DEF GraphStates, Flows, DriversKnowTheirNodes, GraphStatus, RoundsLeft, Gathering
<1>12. BuildComesFirst' /\ StackIsItsPlan'
  BY KnownFacts, <1>1, <1>2, <1>3, <1>4, <1>6, <1>7, PlanFacts, ZenonT(60)
  DEF GraphStates, RunRecords, NothingCounted, BuildComesFirst, StackIsItsPlan, Gated,
      Gathering, Preparing, Clearing, DriversKnowTheirNodes, Flows
<1>13. GatesWereAsked'
  BY KnownFacts, <1>1, <1>2, <1>3, <1>4, <1>6 DEF GraphStates, GatesWereAsked, Gated, Cleared
<1>14. ActsArePaidFor'
  BY KnownFacts, <1>1, <1>2, <1>3, <1>4, <1>6, <1>7
  DEF GraphStates, NothingCounted, ActsArePaidFor, Allowance, Gathering, Preparing, Clearing,
      DriversKnowTheirNodes, GraphStatus, RoundsLeft, BuildComesFirst
<1>15. RecordWaitsForTheRevert' /\ EndedRunIsSettled'
  BY KnownFacts, <1>1, <1>2, <1>3, <1>4, <1>6
  DEF GraphStates, RunRecords, RecordWaitsForTheRevert, EndedRunIsSettled, Gated,
      DriversKnowTheirNodes
<1>16. QED BY <1>10, <1>11, <1>12, <1>13, <1>14, <1>15, <1>7 DEF NothingCounted

LEMMA PlanStep == GraphInv /\ Plan => GraphInv'
<1> SUFFICES ASSUME GraphInv, Plan PROVE GraphInv'
  OBVIOUS
<1> USE RunGraphAssumption DEF GraphInv
<1>1. PICK plan \in Plans, b \in BOOLEAN :
         /\ g' = [g EXCEPT !.plan = plan, !.stack = b]
         /\ b # g.stack => b /\ plan = StackPlan /\ env.mode = "pre-deploy"
  <2>1. g.stack \in BOOLEAN BY KnownFacts DEF GraphStates
  <2>2. CASE UNCHANGED g /\ g.plan # NoPlan
    <3>1. g' = [g EXCEPT !.plan = g.plan, !.stack = g.stack] /\ g.plan \in Plans
      BY <2>2, KnownFacts DEF GraphStates, MaybePlans
    <3>2. QED BY <3>1, <2>1
  <2>3. CASE env.mode = "pre-deploy" /\ g' = [g EXCEPT !.plan = StackPlan, !.stack = TRUE]
    <3>1. StackPlan \in Plans BY PlanFacts
    <3>2. QED BY <2>3, <3>1
  <2>4. CASE \E plan \in PlansFor[env.mode] : g' = [g EXCEPT !.plan = plan]
    <3>1. PICK plan \in PlansFor[env.mode] : g' = [g EXCEPT !.plan = plan] BY <2>4
    <3>2. g' = [g EXCEPT !.plan = plan, !.stack = g.stack] /\ plan \in Plans
      BY <3>1, KnownFacts, PlanFacts DEF GraphStates
    <3>3. QED BY <3>2, <2>1
  <2>5. QED BY <2>2, <2>3, <2>4 DEF Plan, Node, GoTo, Quiet
<1>2. PICK c \in MaybePlans :
         /\ run' = [run EXCEPT !.compiled = c]
         /\ ~env.agentic => c = run.compiled
  <2>1. CASE UNCHANGED run
    <3>1. run' = [run EXCEPT !.compiled = run.compiled] /\ run.compiled \in MaybePlans
      BY <2>1, KnownFacts DEF RunRecords
    <3>2. QED BY <3>1
  <2>2. CASE env.agentic /\ \E p \in PlansFor[env.mode] : run' = [run EXCEPT !.compiled = p]
    BY <2>2, KnownFacts, PlanFacts DEF MaybePlans
  <2>3. QED BY <2>1, <2>2 DEF Plan, PlannedRuns, Node, GoTo, Quiet
<1>3. /\ at = "plan" /\ at' = "preflight" /\ UNCHANGED <<env, flow, ask, acts, ignored, resumes>>
      /\ steps' \in 0..RecursionLimit
  BY NodeSteps, KnownFacts DEF Plan, Node, GoTo, Quiet
<1>4. NothingCounted
  BY HistoryKept, <1>1, <1>2, <1>3 DEF Plan, Node, GoTo, Quiet
<1>5. g' \in GraphStates
  BY KnownFacts, <1>1, <1>2, <1>3, ZenonT(60) DEF GraphStates, RunStatuses, MaybePlans
<1>6. run' \in RunRecords
  BY KnownFacts, <1>1, <1>2, <1>3 DEF RunRecords, RunStatuses, MaybePlans
<1>7. Typed'
  BY KnownFacts, <1>5, <1>4, <1>6, <1>1, <1>2, <1>3
  DEF Typed, TypeOK, NothingCounted, Nodes, Flows
<1>8. DriversKnowTheirNodes' /\ GraphStatus' /\ RoundsLeft'
  BY KnownFacts, <1>1, <1>2, <1>3, PlanFacts
  DEF GraphStates, Flows, DriversKnowTheirNodes, GraphStatus, RoundsLeft, Gathering
<1>9. BuildComesFirst' /\ StackIsItsPlan'
  BY KnownFacts, <1>1, <1>2, <1>3, <1>4, PlanFacts
  DEF GraphStates, RunRecords, NothingCounted, BuildComesFirst, StackIsItsPlan, Gated,
      Gathering, Preparing, Clearing, DriversKnowTheirNodes
<1>10. GatesWereAsked'
  BY KnownFacts, <1>1, <1>2, <1>3 DEF GraphStates, GatesWereAsked, Gated, Cleared
<1>11. ActsArePaidFor'
  BY KnownFacts, <1>1, <1>2, <1>3, <1>4
  DEF GraphStates, NothingCounted, ActsArePaidFor, Allowance, Gathering, Preparing, Clearing,
      DriversKnowTheirNodes, GraphStatus, RoundsLeft, BuildComesFirst
<1>12. RecordWaitsForTheRevert' /\ EndedRunIsSettled'
  BY KnownFacts, <1>1, <1>2, <1>3
  DEF GraphStates, RunRecords, RecordWaitsForTheRevert, EndedRunIsSettled, Gated,
      DriversKnowTheirNodes
<1>13. QED BY <1>7, <1>8, <1>9, <1>10, <1>11, <1>12, <1>4 DEF NothingCounted

LEMMA PreflightStep == GraphInv /\ Preflight => GraphInv'
<1> SUFFICES ASSUME GraphInv, Preflight PROVE GraphInv'
  OBVIOUS
<1> USE RunGraphAssumption DEF GraphInv
<1>1. PICK h \in BOOLEAN, n \in 0..1, plan \in Plans, s \in {g.status, "escalated"} :
        /\ g' = [g EXCEPT !.forceHil = h, !.preflights = n, !.plan = plan, !.status = s]
        /\ g.plan = StackPlan => plan = g.plan
  <2>1. g.plan \in Plans /\ g.plan # NoPlan /\ g.preflights \in 0..1 /\ g.forceHil \in BOOLEAN
    BY KnownFacts
    DEF Preflight, RouteAfterPreflight, Stopped, Node, GoTo, Quiet, MaybePlans, GraphStates
  <2>2. CASE g' = [g EXCEPT !.forceHil = g.forceHil \/ PreflightWantsHuman(g.plan, env)]
    <3>1. PICK h \in BOOLEAN : h = (g.forceHil \/ PreflightWantsHuman(g.plan, env))
       OBVIOUS
    <3>2. g' = [g EXCEPT !.forceHil = h, !.preflights = g.preflights, !.plan = g.plan,
                         !.status = g.status]
       BY <2>2, <3>1, KnownFacts DEF GraphStates
    <3>3. QED BY <3>2, <2>1
  <2>3. CASE /\ ~PreflightAllows(g.plan) /\ g.preflights < 1
             /\ \E revised \in PlansFor[env.mode] : g' =
               [g EXCEPT !.preflights = @ + 1, !.forceHil = TRUE,
                         !.plan = IF PreflightAllows(revised) THEN revised ELSE @,
                         !.status = IF PreflightAllows(revised) THEN @ ELSE "escalated"]
    <3>1. PICK revised \in PlansFor[env.mode] : g' =
               [g EXCEPT !.preflights = @ + 1, !.forceHil = TRUE,
                         !.plan = IF PreflightAllows(revised) THEN revised ELSE @,
                         !.status = IF PreflightAllows(revised) THEN @ ELSE "escalated"]
       BY <2>3
    <3>2. PICK plan \in Plans, s \in {g.status, "escalated"} : 
              /\ plan = IF PreflightAllows(revised) THEN revised ELSE g.plan
              /\ s = IF PreflightAllows(revised) THEN g.status ELSE "escalated"
       BY <2>1, KnownFacts, PlanFacts
    <3>3. g' = [g EXCEPT !.forceHil = TRUE, !.preflights = g.preflights + 1, !.plan = plan,
                         !.status = s]
      BY <3>1, <3>2, KnownFacts DEF GraphStates
    <3>4. g.plan # StackPlan BY <2>3 DEF PreflightAllows, StackPlan
    <3>5. g.preflights + 1 \in 0..1 BY <2>1, <2>3
    <3>6. QED BY <3>3, <3>4, <3>5
  <2>4. CASE g' = [g EXCEPT !.forceHil = TRUE, !.status = "escalated"]
    <3>1. g' = [g EXCEPT !.forceHil = TRUE, !.preflights = g.preflights, !.plan = g.plan,
                         !.status = "escalated"]
       BY <2>4, KnownFacts DEF GraphStates
    <3>2. QED BY <3>1, <2>1
  <2>5. QED BY <2>2, <2>3, <2>4 DEF Preflight
<1>2. /\ at = "preflight"
      /\ at' = IF g'.status \in {"failed", "escalated"} THEN "finish" ELSE "authorize"
  BY DEF Preflight, RouteAfterPreflight, Stopped, Node, GoTo
<1>3. UNCHANGED <<env, flow, run, ask, acts, ignored, resumes>> /\ steps' \in 0..RecursionLimit
  BY NodeSteps, KnownFacts DEF Preflight, RouteAfterPreflight, Stopped, Node, GoTo, Quiet
<1>4. NothingCounted
  BY HistoryKept, <1>1, <1>2, <1>3 DEF Preflight, RouteAfterPreflight, Stopped, Node, GoTo
<1>5. g' \in GraphStates
  BY KnownFacts, <1>1, <1>2, <1>3, ZenonT(60) DEF GraphStates, RunStatuses, MaybePlans
<1>6. run' \in RunRecords
  BY KnownFacts, <1>1, <1>2, <1>3 DEF RunRecords, RunStatuses, MaybePlans
<1>7. Typed'
  BY KnownFacts, <1>5, <1>4, <1>6, <1>1, <1>2, <1>3
  DEF Typed, TypeOK, NothingCounted, Nodes, Flows
<1>8. DriversKnowTheirNodes' /\ GraphStatus' /\ RoundsLeft'
  BY KnownFacts, <1>1, <1>2, <1>3, PlanFacts
  DEF GraphStates, Flows, DriversKnowTheirNodes, GraphStatus, RoundsLeft, Gathering
<1>9. BuildComesFirst' /\ StackIsItsPlan'
  BY KnownFacts, <1>1, <1>2, <1>3, <1>4, PlanFacts
  DEF GraphStates, RunRecords, NothingCounted, BuildComesFirst, StackIsItsPlan, Gated,
      Gathering, Preparing, Clearing, DriversKnowTheirNodes
<1>10. GatesWereAsked'
  BY KnownFacts, <1>1, <1>2, <1>3 DEF GraphStates, GatesWereAsked, Gated, Cleared
<1>11. ActsArePaidFor'
  BY KnownFacts, <1>1, <1>2, <1>3, <1>4
  DEF GraphStates, NothingCounted, ActsArePaidFor, Allowance, Gathering, Preparing, Clearing,
      DriversKnowTheirNodes, GraphStatus, RoundsLeft, BuildComesFirst
<1>12. RecordWaitsForTheRevert' /\ EndedRunIsSettled'
  BY KnownFacts, <1>1, <1>2, <1>3
  DEF GraphStates, RunRecords, RecordWaitsForTheRevert, EndedRunIsSettled, Gated,
      DriversKnowTheirNodes
<1>13. QED BY <1>7, <1>8, <1>9, <1>10, <1>11, <1>12, <1>4 DEF NothingCounted

LEMMA AuthorizeStep == GraphInv /\ Authorize => GraphInv'
<1> SUFFICES ASSUME GraphInv, Authorize PROVE GraphInv'
  OBVIOUS
<1> USE RunGraphAssumption DEF GraphInv
<1>1. AuthorizeForcesHil(g.plan, env) \in BOOLEAN
  BY DEF AuthorizeForcesHil
<1>2. PICK s \in {g.status, "escalated"} :
       g' = [g EXCEPT !.forceHil = AuthorizeForcesHil(g.plan, env), !.status = s]
  BY KnownFacts DEF Authorize, Node, GoTo, Quiet
<1>3. NothingCounted
  BY HistoryKept, <1>1, <1>2 DEF Authorize, Node, GoTo, Quiet
<1>4. g' \in GraphStates
  BY KnownFacts, <1>1, <1>2, ZenonT(60) DEF GraphStates, RunStatuses, MaybePlans
<1>5. run' \in RunRecords
  BY KnownFacts, <1>1, <1>2 DEF Authorize, Node, GoTo, Quiet, RunRecords, RunStatuses
<1>6. Typed'
  BY KnownFacts, <1>4, <1>3, <1>5, <1>1, <1>2
  DEF Authorize, Node, GoTo, Quiet, Typed, TypeOK, NothingCounted, Nodes, Flows
<1>7. DriversKnowTheirNodes' /\ GraphStatus' /\ RoundsLeft'
  BY KnownFacts, <1>1, <1>2, PlanFacts
  DEF Authorize, Node, GoTo, Quiet, GraphStates, Flows, DriversKnowTheirNodes, GraphStatus,
      RoundsLeft, Gathering
<1>8. BuildComesFirst' /\ StackIsItsPlan'
  BY KnownFacts, <1>1, <1>2, <1>3, PlanFacts
  DEF Authorize, Node, GoTo, Quiet, GraphStates, RunRecords, NothingCounted, BuildComesFirst,
      StackIsItsPlan, Gated, Gathering, Preparing, Clearing, DriversKnowTheirNodes
<1>9. GatesWereAsked'
  BY KnownFacts, <1>1, <1>2 DEF Authorize, Node, GoTo, Quiet, GraphStates, GatesWereAsked, Gated
<1>10. ActsArePaidFor'
  BY KnownFacts, <1>1, <1>2, <1>3
  DEF Authorize, Node, GoTo, Quiet, GraphStates, NothingCounted, ActsArePaidFor, Allowance,
      Gathering, Preparing, Clearing, DriversKnowTheirNodes, GraphStatus, RoundsLeft,
      BuildComesFirst
<1>11. RecordWaitsForTheRevert' /\ EndedRunIsSettled'
  BY KnownFacts, <1>1, <1>2
  DEF Authorize, Node, GoTo, Quiet, GraphStates, RunRecords, RecordWaitsForTheRevert,
      EndedRunIsSettled, Gated, DriversKnowTheirNodes
<1>12. QED BY <1>6, <1>7, <1>8, <1>9, <1>10, <1>11, <1>3 DEF NothingCounted

-----------------------------------------------------------------------------
(* policyNode keeps it *)

LEMMA PolicyStep == GraphInv /\ Policy => GraphInv'
<1> SUFFICES ASSUME GraphInv, Policy PROVE GraphInv'
  OBVIOUS
<1> USE RunGraphAssumption DEF GraphInv
<1>1. /\ at = "policy" /\ flow \in {"graph", "build"} /\ g.plan \in Plans /\ NoPlan \notin Plans
      /\ g.forceHil = AuthorizeForcesHil(g.plan, env)
      /\ UNCHANGED <<env, flow, acts, ignored, resumes>> /\ steps' \in 0..RecursionLimit
      /\ CompiledOf(g.plan) \in Plans
      /\ run.compiled = NoPlan => CompiledOf(g.plan) = g.plan
  BY KnownFacts, PlanFacts, NodeSteps
  DEF Policy, Node, DriversKnowTheirNodes, Flows, GatesWereAsked, Gated, MaybePlans, CompiledOf,
      RunRecords
<1>2. PICK s \in RunStatuses \ {"cancelled"} :
        g' = [g EXCEPT !.status = s] /\ (s = "running" => g.status = "running")
  <2>1. g = [g EXCEPT !.status = g.status]
    BY KnownFacts DEF GraphStates
  <2>2. QED
    BY <2>1, KnownFacts
    DEF Policy, PolicyWithoutGate, PolicyUncompilable, PolicyGated, RunStatuses
<1>3. /\ g'.plan = g.plan /\ g'.iteration = g.iteration /\ g'.turns = g.turns
      /\ g'.stack = g.stack /\ g'.analysis = g.analysis /\ g'.recovered = g.recovered
      /\ g.plan # NoPlan
  BY <1>1, <1>2, KnownFacts DEF GraphStates
<1>4. /\ run' \in RunRecords /\ run'.build = run.build /\ ask' \in MaybePlans
      /\ run'.status # run.status =>
            run'.status = "awaiting_human" /\ g'.status = "awaiting_human"
      /\ run'.status \in {run.status, "awaiting_human"}
  <2>1. CASE UNCHANGED <<run, ask>>
    BY <2>1, KnownFacts DEF Typed, TypeOK
  <2>2. CASE run' = [run EXCEPT !.compiled = CompiledOf(g.plan)] /\ ask' = ask
    BY <2>2, <1>1, KnownFacts DEF Typed, TypeOK, RunRecords, MaybePlans
  <2>3. CASE /\ run' = [run EXCEPT !.compiled = CompiledOf(g.plan), !.status = "awaiting_human"]
             /\ g' = [g EXCEPT !.status = "awaiting_human"]
             /\ ask' \in {ask, g.plan}
    <3>1. "awaiting_human" \in RunStatuses BY DEF RunStatuses
    <3>2. QED
      BY <2>3, <3>1, <1>1, KnownFacts DEF Typed, TypeOK, RunRecords, MaybePlans, GraphStates
  <2>4. QED
    BY <2>1, <2>2, <2>3
    DEF Policy, PolicyWithoutGate, PolicyUncompilable, PolicyGated, Requested
<1>5. /\ at' \in {"finish", "act"}
      /\ at' = "act" /\ flow = "graph" => g'.status = "running"
      /\ at' = "finish" /\ flow = "graph" => g'.status # "running"
      /\ at' = "act" => g'.status # "awaiting_human"
  BY <1>1, <1>2
  DEF Policy, AfterPolicy, RouteAfterPolicy, Done, Halted, Stopped, GoTo, RunStatuses
<1>6. at' = "act" =>
         \/ /\ run'.compiled = CompiledOf(g.plan) /\ AutoExecutes(g.plan, CompiledOf(g.plan))
         \/ /\ flow = "build" /\ run' = run /\ g.plan.action = "noop"
  <2>1. CASE PolicyWithoutGate
    BY <2>1, <1>1, <1>2, KnownFacts
    DEF AfterPolicy, RouteAfterPolicy, Done, Halted, Stopped, GoTo, GraphStates, Policy,
        PolicyWithoutGate
  <2>2. CASE PolicyUncompilable
    BY <2>2, <1>1, <1>2, KnownFacts
    DEF AfterPolicy, RouteAfterPolicy, Done, Halted, Stopped, GoTo, GraphStates, Policy,
        PolicyUncompilable
  <2>3. CASE PolicyGated
    <3>1. g'.status = "awaiting_human" => at' # "act" BY <1>5
    <3>2. QED BY <2>3, <3>1, KnownFacts DEF PolicyGated, GraphStates, RunRecords
  <2>4. QED BY <2>1, <2>2, <2>3 DEF Policy
<1>7. at' = "act" /\ run'.compiled = CompiledOf(g.plan)
        /\ AutoExecutes(g.plan, CompiledOf(g.plan)) =>
         /\ run'.compiled # NoPlan /\ Cleared(g.plan, CompiledTools(run'.compiled, env.mode))
         /\ g.stack => ToolGate({"gitops.apply_plan"}, env, FALSE)
  <2> SUFFICES ASSUME at' = "act", run'.compiled = CompiledOf(g.plan),
                      AutoExecutes(g.plan, CompiledOf(g.plan))
               PROVE  /\ run'.compiled # NoPlan
                      /\ Cleared(g.plan, CompiledTools(run'.compiled, env.mode))
                      /\ g.stack => ToolGate({"gitops.apply_plan"}, env, FALSE)
    OBVIOUS
  <2>1. g.forceHil = FALSE
    BY KnownFacts DEF AutoExecutes, AutoExecute, PolicyGate, GraphStates
  <2>2. AutoExecute(g.plan, CompiledTools(run'.compiled, env.mode), env, FALSE)
    BY <2>1 DEF AutoExecutes
  <2>3. Cleared(g.plan, CompiledTools(run'.compiled, env.mode))
    BY <1>1, <2>1, <2>2 DEF Cleared, AuthorizeForcesHil
  <2>4. ASSUME g.stack PROVE ToolGate({"gitops.apply_plan"}, env, FALSE)
    <3>1. run'.compiled = StackPlan
      BY <2>4, <1>1 DEF StackIsItsPlan, Gated, Clearing
    <3>2. "gitops.apply_plan" \in CompiledTools(run'.compiled, env.mode)
      BY <3>1 DEF StackPlan, CompiledTools, CoreTools, GitOpsActions
    <3>3. ToolGate(CompiledTools(run'.compiled, env.mode), env, FALSE)
      BY <2>2 DEF AutoExecute
    <3>4. QED BY <3>2, <3>3 DEF ToolGate
  <2>5. QED BY <1>1, <2>3, <2>4
<1>8. NothingCounted
  BY HistoryKept, <1>1, <1>2, <1>3, <1>4, <1>5, <1>7 DEF Policy, Node
<1>9. g' \in GraphStates
  BY KnownFacts, <1>1, <1>2, <1>3, <1>4, <1>5, <1>7 DEF GraphStates, RunStatuses, MaybePlans
<1>10. run' \in RunRecords
  BY KnownFacts, <1>1, <1>2, <1>3, <1>4, <1>5, <1>7 DEF RunRecords, RunStatuses, MaybePlans
<1>11. Typed'
  BY KnownFacts, <1>9, <1>8, <1>10, <1>1, <1>2, <1>3, <1>4, <1>5, <1>7
  DEF Typed, TypeOK, NothingCounted, Nodes, Flows
<1>12. DriversKnowTheirNodes' /\ GraphStatus' /\ RoundsLeft'
  BY KnownFacts, <1>1, <1>2, <1>3, <1>4, <1>5, <1>7, PlanFacts
  DEF GraphStates, Flows, DriversKnowTheirNodes, GraphStatus, RoundsLeft, Gathering
<1>13. BuildComesFirst' /\ StackIsItsPlan'
  BY KnownFacts, <1>1, <1>2, <1>3, <1>4, <1>5, <1>7, <1>8, PlanFacts
  DEF GraphStates, RunRecords, NothingCounted, BuildComesFirst, StackIsItsPlan, Gated,
      Gathering, Preparing, Clearing, DriversKnowTheirNodes
<1>14. GatesWereAsked'
  <2>1. CASE /\ at' = "act" /\ run'.compiled = CompiledOf(g.plan)
             /\ AutoExecutes(g.plan, CompiledOf(g.plan))
    <3>1. Cleared(g.plan, CompiledTools(run.compiled, env.mode))' <=>
             Cleared(g.plan, CompiledTools(run'.compiled, env.mode))
      BY <1>1, <1>2, KnownFacts DEF Cleared, GraphStates
    <3>2. g'.plan = g.plan /\ g'.stack = g.stack BY <1>2, KnownFacts DEF GraphStates
    <3>3. QED BY <2>1, <1>1, <1>7, <3>1, <3>2 DEF GatesWereAsked
  <2>2. CASE at' = "act" /\ flow = "build" /\ run' = run /\ g.plan.action = "noop"
    <3>1. run.compiled = NoPlan BY <2>2, <1>1 DEF BuildComesFirst
    <3>2. ~g.stack BY <2>2, <1>1, KnownFacts DEF StackIsItsPlan, Gated, StackPlan, GraphStates
    <3>3. g'.plan = g.plan /\ g'.stack = g.stack BY <1>2, KnownFacts DEF GraphStates
    <3>4. QED BY <2>2, <1>1, <3>1, <3>2, <3>3 DEF GatesWereAsked
  <2>3. QED BY <1>5, <1>6, <2>1, <2>2 DEF GatesWereAsked
<1>15. ActsArePaidFor'
  BY KnownFacts, <1>1, <1>2, <1>3, <1>4, <1>5, <1>7, <1>8
  DEF GraphStates, NothingCounted, ActsArePaidFor, Allowance, Gathering, Preparing, Clearing,
      DriversKnowTheirNodes, GraphStatus, RoundsLeft, BuildComesFirst
<1>16. RecordWaitsForTheRevert' /\ EndedRunIsSettled'
  BY KnownFacts, <1>1, <1>2, <1>3, <1>4, <1>5, <1>7
  DEF GraphStates, RunRecords, RecordWaitsForTheRevert, EndedRunIsSettled, Gated,
      DriversKnowTheirNodes
<1>17. QED BY <1>11, <1>12, <1>13, <1>14, <1>15, <1>16, <1>8 DEF NothingCounted

-----------------------------------------------------------------------------
(* actNode keeps it *)

\* actNode leaves the rounds, a used analysis and the recovery as they are.
ActKeeps(s) ==
    /\ s \in GraphStates
    /\ s.iteration = g.iteration /\ s.turns = g.turns /\ s.stack = g.stack
    /\ s.recovered = g.recovered
    /\ s.analysis = "used" <=> g.analysis = "used"
    /\ s.status = "running" => g.status = "running"

\* Recording what happened disturbs none of them, ...
LEMMA RecordedKeeps ==
    ASSUME g \in GraphStates, g.plan \in Plans, NEW ok \in BOOLEAN
    PROVE  /\ ActKeeps(Recorded(g, ok))
           /\ Recorded(g, ok).status = g.status
           /\ Recorded(g, ok).analysis = g.analysis
<1>1. /\ g.plan.action \in RemediationActions \cup {"none"}
      /\ (IF ok THEN "ok" ELSE "failed") \in Outcomes
  BY PlanFacts DEF RemediationPlans, Outcomes
<1>2. (g.everFailed \/ ~ok) \in BOOLEAN
  OBVIOUS
<1>3. QED BY <1>1, <1>2 DEF Recorded, ActKeeps, GraphStates

\* ... nor does what becomes of a failure.
LEMMA FailuresKeep ==
    ASSUME g \in GraphStates, g.plan \in Plans, NEW s \in Failures(Recorded(g, FALSE))
    PROVE  ActKeeps(s) /\ (s.analysis # g.analysis => s.analysis = "pending")
<1> DEFINE r == Recorded(g, FALSE)
<1>1. ActKeeps(r) /\ r.status = g.status /\ r.analysis = g.analysis
  BY RecordedKeeps
<1>2. "failed" \in RunStatuses \ {"cancelled"} /\ NoPlan \in MaybePlans
  BY DEF RunStatuses, MaybePlans
<1>3. \/ s = [r EXCEPT !.forceHil = TRUE]
      \/ s = [r EXCEPT !.plan = NoPlan, !.analysis = "pending"] /\ r.analysis # "used"
      \/ s = [r EXCEPT !.status = "failed"]
  BY DEF Failures
<1>4. r \in GraphStates
  BY <1>1 DEF ActKeeps
<1> HIDE DEF r
<1>5. CASE s = [r EXCEPT !.forceHil = TRUE]
  BY <1>1, <1>4, <1>5 DEF ActKeeps, GraphStates
<1>6. CASE s = [r EXCEPT !.plan = NoPlan, !.analysis = "pending"] /\ r.analysis # "used"
  BY <1>1, <1>2, <1>4, <1>6 DEF ActKeeps, GraphStates
<1>7. CASE s = [r EXCEPT !.status = "failed"]
  BY <1>1, <1>2, <1>4, <1>7 DEF ActKeeps, GraphStates
<1>8. QED BY <1>3, <1>5, <1>6, <1>7

\* What actNode may change; a stack ends the run, well or not.
ActOutcome ==
    /\ ActKeeps(g')
    /\ g'.analysis # g.analysis => g'.analysis = "pending"
    /\ g.stack => g'.status # "running"
    /\ run' \in RunRecords /\ run'.status = run.status /\ run'.build = run.build

\* On each of actNode's three ways.
LEMMA ActOutcomes ==
    ASSUME Act, g \in GraphStates, run \in RunRecords, g.plan \in Plans
    PROVE  ActOutcome
<1>1. "failed" \in RunStatuses \ {"cancelled"} /\ "succeeded" \in RunStatuses \ {"cancelled"}
  BY DEF RunStatuses
<1>2. ASSUME NEW ok \in BOOLEAN,
             g' = [Recorded(g, ok) EXCEPT !.status = IF ok THEN "succeeded" ELSE "failed"]
      PROVE  ActKeeps(g') /\ g'.analysis = g.analysis /\ g'.status # "running"
  BY <1>1, <1>2, RecordedKeeps DEF ActKeeps, GraphStates
<1>3. CASE ActRevert
  <2>1. ActKeeps(g') /\ g'.analysis = g.analysis /\ g'.status # "running"
    BY <1>2, <1>3 DEF ActRevert
  <2>2. run' \in RunRecords /\ run'.status = run.status /\ run'.build = run.build
    BY <1>3 DEF ActRevert, RevertedRuns, RunRecords
  <2>3. QED BY <2>1, <2>2 DEF ActOutcome
<1>4. CASE ActStack
  BY <1>2, <1>4 DEF ActStack, ActOutcome
<1>5. CASE ActPlan
  <2>1. g' = Recorded(g, TRUE) \/ g' \in Failures(Recorded(g, FALSE))
    BY <1>5 DEF ActPlan
  <2>2. ActKeeps(g') /\ (g'.analysis # g.analysis => g'.analysis = "pending")
    BY <2>1, RecordedKeeps, FailuresKeep
  <2>3. PICK c \in MaybePlans, d \in BOOLEAN :
           run' = [run EXCEPT !.compiled = c, !.deployCommit = d]
    <3>1. PipelineOf(g.plan) \in MaybePlans /\ run.deployCommit \in BOOLEAN
      BY DEF PipelineOf, RunRecords, MaybePlans
    <3>2. CASE run' = [run EXCEPT !.compiled = PipelineOf(g.plan)]
      <4>1. run' = [run EXCEPT !.compiled = PipelineOf(g.plan), !.deployCommit = run.deployCommit]
        BY <3>2 DEF RunRecords
      <4>2. QED BY <3>1, <4>1
    <3>3. CASE run' # [run EXCEPT !.compiled = PipelineOf(g.plan)]
      <4> DEFINE tools == CompiledTools(PipelineOf(g.plan), env.mode)
                 d == run.deployCommit \/ Commits(g.plan, tools)
      <4>1. run' = [run EXCEPT !.compiled = PipelineOf(g.plan), !.deployCommit = d]
        BY <3>3, <1>5 DEF ActPlan
      <4>2. d \in BOOLEAN OBVIOUS
      <4>3. QED BY <3>1, <4>1, <4>2
    <3>4. QED BY <3>2, <3>3
  <2>4. run' \in RunRecords /\ run'.status = run.status /\ run'.build = run.build
    BY <2>3 DEF RunRecords
  <2>5. ~g.stack
    BY <1>5 DEF ActPlan
  <2>6. QED BY <2>2, <2>4, <2>5 DEF ActOutcome
<1>6. QED BY <1>3, <1>4, <1>5 DEF Act

\* An execution that counts passed the security agent and both gates.
LEMMA ActsAreCleared ==
    ASSUME GraphInv, Act
    PROVE  \/ acts' = acts
           \/ \E a \in ActRecords :
                /\ acts' = Append(acts, a)
                /\ Counts(a) => Gated /\ Cleared(a.plan, a.tools)
<1> USE DEF GraphInv
<1>1. /\ at = "act" /\ g.plan \in Plans /\ flow \in {"graph", "build", "resume", "retry"}
      /\ flow' = flow /\ env' = env
      /\ g \in GraphStates /\ run \in RunRecords
  BY DEF Act, Node, Typed, TypeOK, DriversKnowTheirNodes, Flows, GraphStates, MaybePlans
<1> DEFINE by == CASE flow = "resume" -> "human" [] flow = "retry" -> "analyst"
                   [] OTHER -> "policy"
           rec(tools) == [plan |-> g.plan, tools |-> tools, by |-> by]
<1>2. ASSUME NEW tools \in SUBSET ToolNames PROVE rec(tools) \in ActRecords
  BY <1>1 DEF ActRecords, Drivers
<1>3. by = "policy" => Gated
  BY <1>1 DEF Gated
<1>4. CASE ActRevert
  <2>1. acts' = acts \/ acts' = Append(acts, rec({RevertTool}))
    BY <1>4 DEF ActRevert, Executed
  <2>2. ~Counts(rec({RevertTool})) /\ {RevertTool} \in SUBSET ToolNames
    BY DEF Counts, ToolNames
  <2>3. QED BY <1>2, <2>1, <2>2
<1>5. CASE ActStack
  <2>1. acts' = Append(acts, rec({"gitops.apply_plan"}))
    BY <1>5 DEF ActStack, Executed
  <2>2. {"gitops.apply_plan"} \in SUBSET ToolNames
    BY DEF ToolNames
  <2>3. Gated => Cleared(g.plan, {"gitops.apply_plan"})
    BY <1>1, <1>5 DEF ActStack, GatesWereAsked, Cleared, AutoExecute
  <2>4. Counts(rec({"gitops.apply_plan"})) => Gated
    BY <1>3 DEF Counts
  <2>5. QED BY <1>2, <2>1, <2>2, <2>3, <2>4
<1>6. CASE ActPlan
  <2> DEFINE tools == CompiledTools(PipelineOf(g.plan), env.mode)
  <2>1. acts' = acts \/ (tools # {} /\ acts' = Append(acts, rec(tools)))
    BY <1>6 DEF ActPlan, Executed
  <2>2. tools \in SUBSET ToolNames
    BY CompiledToolNames
  <2>3. ASSUME Gated, tools # {} PROVE Cleared(g.plan, tools)
    <3>1. CASE run.compiled # NoPlan /\ Cleared(g.plan, CompiledTools(run.compiled, env.mode))
      <4>1. CompiledTools(run.compiled, env.mode) # {}
        BY <3>1 DEF Cleared, AutoExecute, ToolGate
      <4>2. PipelineOf(g.plan) = run.compiled
        BY <3>1, <4>1 DEF PipelineOf
      <4>3. QED BY <3>1, <4>2
    <3>2. CASE flow = "build" /\ g.plan.action = "noop" /\ run.compiled = NoPlan
      <4>1. PipelineOf(g.plan) = g.plan
        BY <3>2 DEF PipelineOf
      <4>2. CompiledTools(g.plan, env.mode) = {}
        BY <3>2 DEF CompiledTools, CoreTools, GitOpsActions, CiActions, HumanActions
      <4>3. QED BY <2>3, <4>1, <4>2
    <3>3. QED BY <1>1, <2>3, <3>1, <3>2 DEF GatesWereAsked
  <2>4. Counts(rec(tools)) => Gated
    BY <1>3 DEF Counts
  <2>5. QED BY <1>2, <2>1, <2>2, <2>3, <2>4
<1>7. QED BY <1>4, <1>5, <1>6 DEF Act

\* It leaves what was executed cleared, and within the bound.
LEMMA ActsAreAllowed ==
    ASSUME GraphInv, Act
    PROVE  /\ acts' \in Seq(ActRecords)
           /\ OnlyClearedPlansRunUnattended' /\ UnattendedActsBounded'
           /\ \/ Unattended' = Unattended
              \/ /\ Cardinality(Unattended') = Cardinality(Unattended) + 1
                 /\ Gated
           /\ Cardinality(Unattended) \in Nat
<1>1. /\ at = "act" /\ env' = env /\ env \in Envs /\ acts \in Seq(ActRecords)
      /\ g \in GraphStates /\ flow \in Flows
      /\ OnlyClearedPlansRunUnattended /\ UnattendedActsBounded
  BY DEF GraphInv, Typed, TypeOK, Act, Node, ActsArePaidFor
<1>2. CASE acts' = acts \/ \E a \in ActRecords : acts' = Append(acts, a) /\ ~Counts(a)
  BY <1>1, <1>2, HistoryKept, UnattendedFinite DEF NothingCounted
<1>3. CASE \E a \in ActRecords :
              acts' = Append(acts, a) /\ Counts(a) /\ Gated /\ Cleared(a.plan, a.tools)
  <2>1. PICK a \in ActRecords :
              acts' = Append(acts, a) /\ Counts(a) /\ Gated /\ Cleared(a.plan, a.tools)
    BY <1>3
  <2>2. /\ acts' \in Seq(ActRecords)
        /\ Cardinality(Unattended') = Cardinality(Unattended) + 1
        /\ Cardinality(Unattended) \in Nat
        /\ Unattended = {} => Cardinality(Unattended) = 0
    BY <1>1, <2>1, OneMoreAct, UnattendedFinite
  <2>3. PlanActs' \subseteq PlanActs \cup {a}
    BY <1>1, <2>1, PlanActsGrow
  <2>4. OnlyClearedPlansRunUnattended'
    BY <1>1, <2>1, <2>3 DEF OnlyClearedPlansRunUnattended, Cleared
  <2>5. /\ flow = "graph" => Cardinality(Unattended) + 1 <= Allowance
        /\ flow = "build" => Cardinality(Unattended) = 0
    BY <1>1, <2>2 DEF GraphInv, ActsArePaidFor, GraphStatus, BuildComesFirst, Clearing
  <2>6. /\ flow = "graph" => g.iteration <= MaxIterations
        /\ g.iteration \in Nat /\ MaxIterations \in Nat \ {0}
    BY <1>1, RunGraphAssumption DEF GraphInv, GraphStatus, RoundsLeft, GraphStates
  <2>7. Cardinality(Unattended') <=
           CASE env.mode = "pre-deploy" -> 3
             [] env.agentic -> MaxIterations + 2
             [] OTHER -> MaxIterations + 1
    BY <2>1, <2>2, <2>5, <2>6, <1>1, EnvFacts DEF Allowance, Gated
  <2>8. UnattendedActsBounded'
    BY <1>1, <2>7 DEF UnattendedActsBounded, Unattended
  <2>9. QED BY <2>1, <2>2, <2>4, <2>8
<1>4. QED BY <1>2, <1>3, ActsAreCleared

LEMMA ActStep == GraphInv /\ Act => GraphInv'
<1> SUFFICES ASSUME GraphInv, Act PROVE GraphInv'
  OBVIOUS
<1>1. /\ acts' \in Seq(ActRecords)
      /\ OnlyClearedPlansRunUnattended' /\ UnattendedActsBounded'
      /\ \/ Unattended' = Unattended
         \/ Cardinality(Unattended') = Cardinality(Unattended) + 1 /\ Gated
      /\ Cardinality(Unattended) \in Nat
  BY ActsAreAllowed
<1> USE DEF GraphInv
<1>2. /\ at = "act" /\ flow \in {"graph", "build", "resume", "retry"}
      /\ UNCHANGED <<env, flow, ask, ignored, resumes>> /\ steps' \in 0..RecursionLimit
      /\ env \in Envs /\ g \in GraphStates /\ g.plan \in Plans /\ run \in RunRecords
      /\ g.status \in RunStatuses \ {"cancelled"} /\ g.iteration \in Nat
  BY NodeSteps
  DEF Act, Node, Typed, TypeOK, Flows, DriversKnowTheirNodes, GraphStates, MaybePlans
<1>3. ActOutcome
  BY <1>2, ActOutcomes
<1>4. /\ at' = RouteAfterAct(g') /\ g' \in GraphStates
      /\ g'.status \in {"running", "awaiting_human", "succeeded", "failed", "escalated"}
  BY <1>3 DEF Act, GoTo, ActOutcome, ActKeeps, GraphStates, RunStatuses
<1>5. /\ flow = "graph" => at' \in {"finish", "analyzeFailure", "verify"}
      /\ flow = "build" => at' = "verify"
      /\ flow = "resume" => at' = "afterAct"
      /\ flow = "retry" => at' = "afterRetry"
  BY <1>2, <1>4 DEF RouteAfterAct
<1>6. /\ flow = "graph" /\ at' = "finish" => g'.status # "running"
      /\ flow = "graph" /\ at' # "finish" => g'.status = "running"
      /\ flow = "graph" /\ at' = "analyzeFailure" => g'.analysis = "pending"
  BY <1>2, <1>4 DEF RouteAfterAct, Done, Halted, Stopped
<1>7. \A i \in DOMAIN acts' : acts'[i].plan \in Plans /\ acts'[i].by \in Drivers
  BY <1>1, ActsTyped
<1>8. Typed'
  BY <1>2, <1>3, <1>4, <1>5, <1>7, <1>1 DEF Typed, TypeOK, ActOutcome, Nodes
<1>9. DriversKnowTheirNodes' /\ GraphStatus' /\ RoundsLeft'
  BY <1>2, <1>3, <1>4, <1>5, <1>6
  DEF DriversKnowTheirNodes, GraphStatus, RoundsLeft, Gathering, ActOutcome, ActKeeps
<1>10. BuildComesFirst'
  BY <1>2, <1>3, <1>4, <1>5 DEF BuildComesFirst, Preparing, Clearing, Gathering, ActOutcome
<1>11. StackIsItsPlan'
  BY <1>2, <1>3, <1>4, <1>5, <1>6 DEF StackIsItsPlan, Gated, Clearing, ActOutcome, ActKeeps
<1>12. GatesWereAsked'
  BY <1>2, <1>5 DEF GatesWereAsked, Gated
<1>13. ActsArePaidFor'
  <2>1. Allowance' = Allowance /\ Allowance \in Int
    BY <1>2, <1>3 DEF Allowance, ActOutcome, ActKeeps
  <2>2. flow = "graph" => Cardinality(Unattended) + 1 <= Allowance
    BY <1>2 DEF ActsArePaidFor, GraphStatus, Clearing
  <2>3. QED BY <1>2, <1>5, <2>1, <2>2, <1>1 DEF ActsArePaidFor, Preparing, Clearing
<1>14. RecordWaitsForTheRevert' /\ EndedRunIsSettled'
  BY <1>2, <1>3, <1>5 DEF RecordWaitsForTheRevert, EndedRunIsSettled, Gated, ActOutcome
<1>15. QED BY <1>8, <1>9, <1>10, <1>11, <1>12, <1>13, <1>14, <1>1

-----------------------------------------------------------------------------
(* The failure analysis and the verification keep it *)

LEMMA AnalyzeFailureStep == GraphInv /\ AnalyzeFailure => GraphInv'
<1> SUFFICES ASSUME GraphInv, AnalyzeFailure PROVE GraphInv'
  OBVIOUS
<1> USE RunGraphAssumption DEF GraphInv
<1>1. /\ at = "analyzeFailure" /\ flow \in {"graph", "resume"}
      /\ UNCHANGED <<env, run, ask, acts, ignored, resumes>> /\ steps' \in 0..RecursionLimit
  BY KnownFacts, NodeSteps DEF AnalyzeFailure, Node, Quiet, DriversKnowTheirNodes, Flows
<1>2. PICK p \in MaybePlans, s \in RunStatuses \ {"cancelled"} :
        /\ g' = [g EXCEPT !.analysis = "used", !.plan = p, !.status = s]
        /\ s \in {"failed", "escalated", "awaiting_human"} \/ (s = g.status /\ p # NoPlan)
  <2> DEFINE r == [g EXCEPT !.analysis = "used"]
             Ended == {[r EXCEPT !.status = s] : s \in {"failed", "escalated", "awaiting_human"}}
             Retried(p) ==
               [r EXCEPT !.plan = p,
                         !.status = CASE p.action = "escalate_human" -> "escalated"
                                      [] p.action = "noop" -> "failed"
                                      [] OTHER -> @]
  <2>1. RunStatuses =
          {"running", "awaiting_human", "succeeded", "failed", "escalated", "cancelled"}
    BY DEF RunStatuses
  <2>2. ASSUME NEW s \in {"failed", "escalated", "awaiting_human"}, g' = [r EXCEPT !.status = s]
        PROVE  g' = [g EXCEPT !.analysis = "used", !.plan = g.plan, !.status = s]
    BY <2>2, KnownFacts DEF GraphStates
  <2>3. CASE g' \in Ended
    BY <2>1, <2>2, <2>3, KnownFacts
  <2>4. CASE \E p \in PlansFor[env.mode] : g' = Retried(p)
    <3>1. PICK p \in PlansFor[env.mode] : g' = Retried(p)
      BY <2>4
    <3>2. \E s \in {"failed", "escalated", g.status} :
            g' = [g EXCEPT !.analysis = "used", !.plan = p, !.status = s]
      BY <3>1, KnownFacts DEF GraphStates
    <3>3. p \in MaybePlans /\ p # NoPlan
      BY KnownFacts, PlanFacts DEF MaybePlans
    <3>4. QED BY <2>1, <3>2, <3>3, KnownFacts
  <2>5. g' \in Analyses(r) \/ g' = [r EXCEPT !.status = "failed"]
    BY DEF AnalyzeFailure
  <2>6. ASSUME g' \in Analyses(r)
        PROVE  \/ g' \in Ended
               \/ \E p \in PlansFor[env.mode] : g' = Retried(p)
    <3>1. PICK verdict \in {"stop", "retry", "escalate", "createNamespace"} :
             g' \in CASE verdict = "stop" -> {[r EXCEPT !.status = "failed"]}
                     [] verdict = "createNamespace" /\ env.mode = "pre-deploy" ->
                          {[r EXCEPT !.status = "awaiting_human"]}
                     [] verdict = "retry" -> {Retried(p) : p \in PlansFor[env.mode]}
                     [] OTHER -> {[r EXCEPT !.status = "escalated"]}
      BY <2>6 DEF Analyses, Verdicts, DeterministicVerdicts
    <3>2. CASE verdict = "retry" BY <3>1, <3>2
    <3>3. CASE verdict # "retry" BY <3>1, <3>3
    <3>4. QED BY <3>2, <3>3
  <2>7. QED BY <2>3, <2>4, <2>5, <2>6
<1>3. /\ flow = "graph" =>
            /\ flow' = flow
            /\ at' = IF g'.status \notin {"failed", "escalated"} /\ g'.plan # NoPlan
                     THEN "authorize" ELSE "finish"
      /\ flow = "resume" => \/ flow' = "retry" /\ at' = "act" /\ g'.plan # NoPlan
                            \/ flow' = flow /\ at' = "afterRetry"
  BY <1>1 DEF AnalyzeFailure, RouteAfterAnalyzeFailure, Stopped, Halted, GoTo
<1>4. /\ g'.iteration = g.iteration /\ g'.turns = g.turns /\ g'.stack = g.stack
      /\ g'.recovered = g.recovered /\ g'.analysis = "used"
      /\ g'.status = "running" => g'.plan # NoPlan /\ g.status = "running"
  BY <1>2, KnownFacts DEF GraphStates
<1>5. NothingCounted
  BY HistoryKept, <1>1, <1>2, <1>3, <1>4 DEF AnalyzeFailure, Node, Quiet
<1>6. g' \in GraphStates
  BY KnownFacts, <1>1, <1>2, <1>3, <1>4 DEF GraphStates, RunStatuses, MaybePlans
<1>7. run' \in RunRecords
  BY KnownFacts, <1>1, <1>2, <1>3, <1>4 DEF RunRecords, RunStatuses, MaybePlans
<1>8. Typed'
  BY KnownFacts, <1>6, <1>5, <1>7, <1>1, <1>2, <1>3, <1>4
  DEF Typed, TypeOK, NothingCounted, Nodes, Flows
<1>9. DriversKnowTheirNodes' /\ GraphStatus' /\ RoundsLeft'
  BY KnownFacts, <1>1, <1>2, <1>3, <1>4, PlanFacts
  DEF GraphStates, Flows, DriversKnowTheirNodes, GraphStatus, RoundsLeft, Gathering
<1>10. BuildComesFirst' /\ StackIsItsPlan'
  BY KnownFacts, <1>1, <1>2, <1>3, <1>4, <1>5, PlanFacts
  DEF GraphStates, RunRecords, NothingCounted, BuildComesFirst, StackIsItsPlan, Gated,
      Gathering, Preparing, Clearing, DriversKnowTheirNodes
<1>11. GatesWereAsked'
  BY KnownFacts, <1>1, <1>2, <1>3, <1>4 DEF GraphStates, GatesWereAsked, Gated, Cleared
<1>12. ActsArePaidFor'
  <2>1. flow = "graph" => Allowance' = Allowance + 1
    BY <1>1, <1>4, KnownFacts DEF Allowance, GraphStatus
  <2>2. Allowance \in Int
    BY KnownFacts DEF Allowance
  <2>3. QED
    BY <1>1, <1>3, <1>4, <1>5, KnownFacts, <2>1, <2>2
    DEF ActsArePaidFor, NothingCounted, Preparing, Clearing
<1>13. RecordWaitsForTheRevert' /\ EndedRunIsSettled'
  BY KnownFacts, <1>1, <1>2, <1>3, <1>4
  DEF GraphStates, RunRecords, RecordWaitsForTheRevert, EndedRunIsSettled, Gated,
      DriversKnowTheirNodes
<1>14. QED BY <1>8, <1>9, <1>10, <1>11, <1>12, <1>13, <1>5 DEF NothingCounted

LEMMA VerifyStep == GraphInv /\ Verify => GraphInv'
<1> SUFFICES ASSUME GraphInv, Verify PROVE GraphInv'
  OBVIOUS
<1> USE RunGraphAssumption DEF GraphInv
<1>1. /\ at = "verify" /\ flow \in {"graph", "build", "resume", "retry"}
      /\ UNCHANGED <<env, flow, ignored, resumes>> /\ steps' \in 0..RecursionLimit
      /\ {RestartPlan, RevertPlan} \subseteq Plans /\ NoPlan \notin Plans
  BY KnownFacts, PlanFacts, NodeSteps DEF Verify, Node, Flows, DriversKnowTheirNodes
<1>2. /\ VerifyOutcome
      /\ at' = IF flow = "graph" THEN RouteAfterVerify(g') ELSE "finish"
  BY <1>1, KnownFacts, VerifyOutcomes DEF Verify, GoTo
<1>3. /\ g' \in GraphStates /\ run' \in RunRecords /\ ask' \in MaybePlans
      /\ g'.iteration = g.iteration /\ g'.turns = g.turns /\ g'.stack = g.stack
      /\ g'.analysis = g.analysis
      /\ run'.build = run.build /\ run'.compiled = run.compiled
      /\ run'.status = run.status \/ (run'.status = "awaiting_human" /\ RevertAsked)
  <2>1. /\ RunStatuses =
          {"running", "awaiting_human", "succeeded", "failed", "escalated", "cancelled"}
        /\ ask \in MaybePlans /\ {NoPlan, RestartPlan, RevertPlan} \subseteq MaybePlans
    BY <1>1 DEF RunStatuses, Typed, TypeOK, MaybePlans
  <2>2. CASE Ends BY <2>1, <2>2, KnownFacts DEF Ends, GraphStates
  <2>3. CASE Restarts BY <2>1, <2>3, KnownFacts DEF Restarts, GraphStates
  <2>4. CASE AsksRevert
    <3>1. g' \in GraphStates /\ g'.iteration = g.iteration /\ g'.turns = g.turns
          /\ g'.stack = g.stack /\ g'.analysis = g.analysis
          /\ g'.status = "awaiting_human" /\ g'.plan = RevertPlan
      BY <2>1, <2>4, KnownFacts DEF AsksRevert, GraphStates
    <3>2. /\ run' \in RunRecords /\ run'.build = run.build /\ run'.compiled = run.compiled
          /\ run'.status = "awaiting_human"
      BY <2>1, <2>4, KnownFacts DEF AsksRevert, AskFor, RunRecords
    <3>3. QED BY <1>1, <2>1, <2>4, <3>1, <3>2 DEF AsksRevert, AskFor, Requested, RevertAsked
  <2>5. CASE Reverts BY <2>1, <2>5, KnownFacts DEF Reverts, GraphStates, RunRecords
  <2>6. CASE Holds BY <2>1, <2>6, KnownFacts DEF Holds, GraphStates
  <2>7. CASE GoesRound BY <2>1, <2>7, KnownFacts DEF GoesRound, GraphStates
  <2>8. QED BY <1>2, <2>2, <2>3, <2>4, <2>5, <2>6, <2>7 DEF VerifyOutcome
<1>4. /\ g'.status = "running" /\ g.status = "running" =>
            \/ env.mode = "pre-deploy" /\ ~g.recovered /\ g'.recovered /\ g'.plan # NoPlan
            \/ /\ env.mode \in {"diagnose", "rollback"} /\ g.iteration < MaxIterations
               /\ g'.recovered = g.recovered
  <2>1. CASE Ends BY <2>1, KnownFacts DEF Ends, GraphStates
  <2>2. CASE Restarts BY <1>1, <2>2, KnownFacts DEF Restarts, GraphStates
  <2>3. CASE AsksRevert \/ Reverts \/ Holds
    BY <2>3, KnownFacts DEF AsksRevert, Reverts, Holds, GraphStates
  <2>4. CASE GoesRound BY <2>4, KnownFacts DEF GoesRound, GraphStates
  <2>5. QED BY <1>2, <2>1, <2>2, <2>3, <2>4 DEF VerifyOutcome
<1>5. /\ flow # "graph" => at' = "finish"
      /\ flow = "graph" =>
            /\ at' \in {"authorize", "observe", "agentDecide", "finish"}
            /\ at' = "authorize" => env.mode = "pre-deploy" /\ g'.plan # NoPlan
            /\ at' \in {"observe", "agentDecide"} => env.mode # "pre-deploy"
            /\ RevertAsked => at' = "authorize"
  BY <1>1, <1>2 DEF RouteAfterVerify, Stopped, RevertAsked
<1>6. at' = "finish" /\ g.status = "running" /\ flow = "graph" => g'.status # "running"
  BY <1>1, <1>2, <1>4, KnownFacts DEF RouteAfterVerify, Stopped
<1>7. acts' = acts \/ \E a \in ActRecords : acts' = Append(acts, a) /\ ~Counts(a)
  <2>1. CASE Reverts
    <3>1. PICK by \in Drivers :
             acts' = Append(acts, [plan |-> RevertPlan, tools |-> {RevertTool}, by |-> by])
      BY <2>1 DEF Reverts, Executed, Drivers
    <3>2. [plan |-> RevertPlan, tools |-> {RevertTool}, by |-> by] \in ActRecords
      BY <1>1 DEF ActRecords, ToolNames
    <3>3. ~Counts([plan |-> RevertPlan, tools |-> {RevertTool}, by |-> by])
      BY DEF Counts
    <3>4. QED BY <3>1, <3>2, <3>3
  <2>2. CASE ~Reverts
    BY <2>2, <1>2 DEF VerifyOutcome, Ends, Restarts, AsksRevert, Holds, GoesRound
  <2>3. QED BY <2>1, <2>2
<1>8. NothingCounted
  BY HistoryKept, <1>7 DEF Verify, Node
<1>9. g' \in GraphStates
  BY KnownFacts, <1>1, <1>2, <1>3, <1>4, <1>5, <1>6 DEF GraphStates, RunStatuses, MaybePlans
<1>10. run' \in RunRecords
  BY KnownFacts, <1>1, <1>2, <1>3, <1>4, <1>5, <1>6 DEF RunRecords, RunStatuses, MaybePlans
<1>11. Typed'
  BY KnownFacts, <1>9, <1>8, <1>10, <1>1, <1>2, <1>3, <1>4, <1>5, <1>6
  DEF Typed, TypeOK, NothingCounted, Nodes, Flows
<1>12. DriversKnowTheirNodes' /\ GraphStatus' /\ RoundsLeft'
  BY KnownFacts, <1>1, <1>2, <1>3, <1>4, <1>5, <1>6, PlanFacts
  DEF GraphStates, Flows, DriversKnowTheirNodes, GraphStatus, RoundsLeft, Gathering
<1>13. BuildComesFirst' /\ StackIsItsPlan'
  BY KnownFacts, <1>1, <1>2, <1>3, <1>4, <1>5, <1>6, <1>8, PlanFacts
  DEF GraphStates, RunRecords, NothingCounted, BuildComesFirst, StackIsItsPlan, Gated,
      Gathering, Preparing, Clearing, DriversKnowTheirNodes
<1>14. GatesWereAsked'
  BY KnownFacts, <1>1, <1>2, <1>3, <1>4, <1>5, <1>6
  DEF GraphStates, GatesWereAsked, Gated, Cleared
<1>15. ActsArePaidFor'
  <2>1. flow = "graph" /\ at' = "authorize" /\ g'.status = "running" =>
           Allowance' = Allowance + 1 /\ Allowance \in Int
    BY <1>1, <1>3, <1>4, <1>5, KnownFacts DEF Allowance, GraphStatus, GraphStates
  <2>2. flow = "graph" /\ at' # "authorize" /\ g'.status = "running" => Allowance' = Allowance
    BY <1>1, <1>3, <1>4, <1>5, KnownFacts, <1>6
    DEF Allowance, GraphStatus, GraphStates, RouteAfterVerify
  <2>3. flow = "graph" => g.status = "running" BY <1>1 DEF GraphStatus
  <2>4. QED
    BY <1>1, <1>3, <1>4, <1>6, <1>5, <1>8, KnownFacts, <2>1, <2>2, <2>3
    DEF ActsArePaidFor, NothingCounted, Preparing, Clearing
<1>16. RecordWaitsForTheRevert' /\ EndedRunIsSettled'
  BY KnownFacts, <1>1, <1>2, <1>3, <1>4, <1>5, <1>6
  DEF GraphStates, RunRecords, RevertAsked, RecordWaitsForTheRevert, EndedRunIsSettled, Gated,
      DriversKnowTheirNodes
<1>17. QED BY <1>11, <1>12, <1>13, <1>14, <1>15, <1>16, <1>8 DEF NothingCounted

-----------------------------------------------------------------------------
(* The ends of an invocation, an operator's answers and the continuations keep it *)

LEMMA FinishGraphStep == GraphInv /\ FinishGraph => GraphInv'
<1> SUFFICES ASSUME GraphInv, FinishGraph PROVE GraphInv'
  OBVIOUS
<1> USE RunGraphAssumption DEF GraphInv
<1>1. g' = g /\ run' = [run EXCEPT !.status = g.status] /\ g.status \in RunStatuses
  BY KnownFacts DEF FinishGraph, RunStatuses
<1>2. NothingCounted
  BY HistoryKept, <1>1 DEF FinishGraph
<1>3. g' \in GraphStates
  BY KnownFacts, <1>1 DEF GraphStates, RunStatuses, MaybePlans
<1>4. run' \in RunRecords
  BY KnownFacts, <1>1 DEF FinishGraph, RunRecords, RunStatuses, MaybePlans
<1>5. Typed'
  BY KnownFacts, <1>3, <1>2, <1>4, <1>1
  DEF FinishGraph, Typed, TypeOK, NothingCounted, Nodes, Flows
<1>6. DriversKnowTheirNodes' /\ GraphStatus' /\ RoundsLeft'
  BY KnownFacts, <1>1, PlanFacts
  DEF FinishGraph, GraphStates, Flows, DriversKnowTheirNodes, GraphStatus, RoundsLeft,
      Gathering
<1>7. BuildComesFirst' /\ StackIsItsPlan'
  BY KnownFacts, <1>1, <1>2, PlanFacts
  DEF FinishGraph, GraphStates, RunRecords, NothingCounted, BuildComesFirst, StackIsItsPlan,
      Gated, Gathering, Preparing, Clearing, DriversKnowTheirNodes
<1>8. GatesWereAsked'
  BY KnownFacts, <1>1 DEF FinishGraph, GraphStates, GatesWereAsked, Gated
<1>9. ActsArePaidFor'
  BY KnownFacts, <1>1, <1>2
  DEF FinishGraph, GraphStates, NothingCounted, ActsArePaidFor, Allowance, Gathering, Preparing,
      Clearing, DriversKnowTheirNodes, GraphStatus, RoundsLeft, BuildComesFirst
<1>10. RecordWaitsForTheRevert' /\ EndedRunIsSettled'
  BY KnownFacts, <1>1
  DEF FinishGraph, GraphStates, RunRecords, RecordWaitsForTheRevert, EndedRunIsSettled, Gated,
      DriversKnowTheirNodes, GraphStatus
<1>11. QED BY <1>5, <1>6, <1>7, <1>8, <1>9, <1>10, <1>2 DEF NothingCounted

LEMMA FinishResumeStep == GraphInv /\ FinishResume => GraphInv'
<1> SUFFICES ASSUME GraphInv, FinishResume PROVE GraphInv'
  OBVIOUS
<1> USE RunGraphAssumption DEF GraphInv
<1>1. PICK s \in RunStatuses \ {"cancelled"}, t \in RunStatuses \ {"running"} :
        g' = [g EXCEPT !.status = s] /\ run' = [run EXCEPT !.status = t]
  <2>1. CASE g.status = "running"
    BY <2>1 DEF FinishResume, AskFor, Requested, RunStatuses
  <2>2. CASE g.status # "running"
    <3>1. g' = [g EXCEPT !.status = g.status]
      BY <2>2, KnownFacts DEF FinishResume, AskFor, Requested, GraphStates
    <3>2. QED BY <3>1, <2>2, KnownFacts DEF FinishResume, AskFor, Requested, RunStatuses
  <2>3. QED BY <2>1, <2>2
<1>2. ask' \in MaybePlans
  BY KnownFacts DEF FinishResume, AskFor, Requested, Typed, TypeOK
<1>3. NothingCounted
  BY HistoryKept, <1>1, <1>2 DEF FinishResume, AskFor, Requested
<1>4. g' \in GraphStates
  BY KnownFacts, <1>1, <1>2 DEF GraphStates, RunStatuses, MaybePlans
<1>5. run' \in RunRecords
  BY KnownFacts, <1>1, <1>2 DEF FinishResume, AskFor, Requested, RunRecords, RunStatuses
<1>6. Typed'
  BY KnownFacts, <1>4, <1>3, <1>5, <1>1, <1>2
  DEF FinishResume, AskFor, Requested, Typed, TypeOK, NothingCounted, Nodes, Flows
<1>7. DriversKnowTheirNodes' /\ GraphStatus' /\ RoundsLeft'
  BY KnownFacts, <1>1, <1>2, PlanFacts
  DEF FinishResume, AskFor, Requested, GraphStates, Flows, DriversKnowTheirNodes, GraphStatus,
      RoundsLeft, Gathering
<1>8. BuildComesFirst' /\ StackIsItsPlan'
  BY KnownFacts, <1>1, <1>2, <1>3, PlanFacts
  DEF FinishResume, AskFor, Requested, GraphStates, RunRecords, NothingCounted, BuildComesFirst,
      StackIsItsPlan, Gated, Gathering, Preparing, Clearing, DriversKnowTheirNodes
<1>9. GatesWereAsked'
  BY KnownFacts, <1>1, <1>2
  DEF FinishResume, AskFor, Requested, GraphStates, GatesWereAsked, Gated
<1>10. ActsArePaidFor'
  BY KnownFacts, <1>1, <1>2, <1>3
  DEF FinishResume, AskFor, Requested, GraphStates, NothingCounted, ActsArePaidFor, Allowance,
      Gathering, Preparing, Clearing, DriversKnowTheirNodes, GraphStatus, RoundsLeft,
      BuildComesFirst
<1>11. RecordWaitsForTheRevert' /\ EndedRunIsSettled'
  BY KnownFacts, <1>1, <1>2
  DEF FinishResume, AskFor, Requested, GraphStates, RunRecords, RecordWaitsForTheRevert,
      EndedRunIsSettled, Gated, DriversKnowTheirNodes
<1>12. QED BY <1>6, <1>7, <1>8, <1>9, <1>10, <1>11, <1>3 DEF NothingCounted

LEMMA RecursionErrorStep == GraphInv /\ RecursionError => GraphInv'
<1> SUFFICES ASSUME GraphInv, RecursionError PROVE GraphInv'
  OBVIOUS
<1> USE RunGraphAssumption DEF GraphInv
<1>1. g' = g /\ run' = [run EXCEPT !.status = "failed"] /\ "failed" \in RunStatuses
  BY KnownFacts DEF RecursionError, RunStatuses
<1>2. NothingCounted
  BY HistoryKept, <1>1 DEF RecursionError
<1>3. g' \in GraphStates
  BY KnownFacts, <1>1 DEF GraphStates, RunStatuses, MaybePlans
<1>4. run' \in RunRecords
  BY KnownFacts, <1>1 DEF RecursionError, RunRecords, RunStatuses, MaybePlans
<1>5. Typed'
  BY KnownFacts, <1>3, <1>2, <1>4, <1>1
  DEF RecursionError, Typed, TypeOK, NothingCounted, Nodes, Flows
<1>6. DriversKnowTheirNodes' /\ GraphStatus' /\ RoundsLeft'
  BY KnownFacts, <1>1, PlanFacts
  DEF RecursionError, GraphStates, Flows, DriversKnowTheirNodes, GraphStatus, RoundsLeft,
      Gathering
<1>7. BuildComesFirst' /\ StackIsItsPlan'
  BY KnownFacts, <1>1, <1>2, PlanFacts
  DEF RecursionError, GraphStates, RunRecords, NothingCounted, BuildComesFirst, StackIsItsPlan,
      Gated, Gathering, Preparing, Clearing, DriversKnowTheirNodes
<1>8. GatesWereAsked'
  BY KnownFacts, <1>1 DEF RecursionError, GraphStates, GatesWereAsked, Gated
<1>9. ActsArePaidFor'
  BY KnownFacts, <1>1, <1>2
  DEF RecursionError, GraphStates, NothingCounted, ActsArePaidFor, Allowance, Gathering,
      Preparing, Clearing, DriversKnowTheirNodes, GraphStatus, RoundsLeft, BuildComesFirst
<1>10. RecordWaitsForTheRevert' /\ EndedRunIsSettled'
  BY KnownFacts, <1>1
  DEF RecursionError, GraphStates, RunRecords, RecordWaitsForTheRevert, EndedRunIsSettled,
      Gated, DriversKnowTheirNodes
<1>11. QED BY <1>5, <1>6, <1>7, <1>8, <1>9, <1>10, <1>2 DEF NothingCounted

LEMMA NodeThrowsStep == GraphInv /\ NodeThrows => GraphInv'
<1> SUFFICES ASSUME GraphInv, NodeThrows PROVE GraphInv'
  OBVIOUS
<1> USE RunGraphAssumption DEF GraphInv
<1>1. /\ g' = g /\ "failed" \in RunStatuses
      /\ run' = run \/ run' = [run EXCEPT !.status = "failed"]
  BY KnownFacts DEF NodeThrows, Requested, RunStatuses
<1>2. ask' \in MaybePlans
  BY KnownFacts DEF NodeThrows, Requested, Typed, TypeOK
<1>3. NothingCounted
  BY HistoryKept, <1>1, <1>2 DEF NodeThrows, Requested
<1>4. g' \in GraphStates
  BY KnownFacts, <1>1, <1>2 DEF GraphStates, RunStatuses, MaybePlans
<1>5. run' \in RunRecords
  BY KnownFacts, <1>1, <1>2 DEF NodeThrows, Requested, RunRecords, RunStatuses
<1>6. Typed'
  BY KnownFacts, <1>4, <1>3, <1>5, <1>1, <1>2
  DEF NodeThrows, Requested, Typed, TypeOK, NothingCounted, Nodes, Flows
<1>7. DriversKnowTheirNodes' /\ GraphStatus' /\ RoundsLeft'
  BY KnownFacts, <1>1, <1>2, PlanFacts
  DEF NodeThrows, Requested, GraphStates, Flows, DriversKnowTheirNodes, GraphStatus, RoundsLeft,
      Gathering
<1>8. BuildComesFirst' /\ StackIsItsPlan'
  BY KnownFacts, <1>1, <1>2, <1>3, PlanFacts
  DEF NodeThrows, Requested, GraphStates, RunRecords, NothingCounted, BuildComesFirst,
      StackIsItsPlan, Gated, Gathering, Preparing, Clearing, DriversKnowTheirNodes
<1>9. GatesWereAsked'
  BY KnownFacts, <1>1, <1>2 DEF NodeThrows, Requested, GraphStates, GatesWereAsked, Gated
<1>10. ActsArePaidFor'
  BY KnownFacts, <1>1, <1>2, <1>3
  DEF NodeThrows, Requested, GraphStates, NothingCounted, ActsArePaidFor, Allowance, Gathering,
      Preparing, Clearing, DriversKnowTheirNodes, GraphStatus, RoundsLeft, BuildComesFirst
<1>11. RecordWaitsForTheRevert' /\ EndedRunIsSettled'
  BY KnownFacts, <1>1, <1>2
  DEF NodeThrows, Requested, GraphStates, RunRecords, RecordWaitsForTheRevert,
      EndedRunIsSettled, Gated, DriversKnowTheirNodes
<1>12. QED BY <1>6, <1>7, <1>8, <1>9, <1>10, <1>11, <1>3 DEF NothingCounted

LEMMA AfterApprovedActStep == GraphInv /\ AfterApprovedAct => GraphInv'
<1> SUFFICES ASSUME GraphInv, AfterApprovedAct PROVE GraphInv'
  OBVIOUS
<1> USE RunGraphAssumption DEF GraphInv
<1>1. flow = "resume"
  BY KnownFacts DEF AfterApprovedAct, AskFor, Requested, DriversKnowTheirNodes, Flows
<1>2. PICK s \in {g.status, "awaiting_human"}, b \in BOOLEAN :
         g' = [g EXCEPT !.status = s, !.facts = b]
  <2>1. g.facts \in BOOLEAN /\ g = [g EXCEPT !.status = g.status, !.facts = g.facts]
        /\ [g EXCEPT !.status = "awaiting_human"] =
              [g EXCEPT !.status = "awaiting_human", !.facts = g.facts]
        /\ \A b \in BOOLEAN :
              [g EXCEPT !.facts = b] = [g EXCEPT !.status = g.status, !.facts = b]
    BY KnownFacts DEF GraphStates
  <2>2. CASE g' = [g EXCEPT !.status = "awaiting_human"] BY <2>1, <2>2
  <2>3. CASE \E b \in BOOLEAN : g' = [g EXCEPT !.facts = b] BY <2>1, <2>3
  <2>4. CASE g' = g BY <2>1, <2>4
  <2>5. QED BY <2>2, <2>3, <2>4 DEF AfterApprovedAct, AskFor, Requested
<1>3. /\ "awaiting_human" \in RunStatuses
      /\ run' = run \/ run' = [run EXCEPT !.status = "awaiting_human"]
      /\ at' = "end" => run' = [run EXCEPT !.status = "awaiting_human"]
  BY DEF AfterApprovedAct, AskFor, Requested, RunStatuses
<1>4. ask' \in MaybePlans
  BY KnownFacts DEF AfterApprovedAct, AskFor, Requested, Typed, TypeOK
<1>5. NothingCounted
  BY HistoryKept, <1>1, <1>2, <1>3, <1>4 DEF AfterApprovedAct, AskFor, Requested
<1>6. g' \in GraphStates
  BY KnownFacts, <1>1, <1>2, <1>3, <1>4 DEF GraphStates, RunStatuses, MaybePlans
<1>7. run' \in RunRecords
  BY KnownFacts, <1>1, <1>2, <1>3, <1>4
  DEF AfterApprovedAct, AskFor, Requested, RunRecords, RunStatuses
<1>8. Typed'
  BY KnownFacts, <1>6, <1>5, <1>7, <1>1, <1>2, <1>3, <1>4
  DEF AfterApprovedAct, AskFor, Requested, Typed, TypeOK, NothingCounted, Nodes, Flows
<1>9. DriversKnowTheirNodes' /\ GraphStatus' /\ RoundsLeft'
  BY KnownFacts, <1>1, <1>2, <1>3, <1>4, PlanFacts
  DEF AfterApprovedAct, AskFor, Requested, GraphStates, Flows, DriversKnowTheirNodes,
      GraphStatus, RoundsLeft, Gathering
<1>10. BuildComesFirst' /\ StackIsItsPlan'
  BY KnownFacts, <1>1, <1>2, <1>3, <1>4, <1>5, PlanFacts
  DEF AfterApprovedAct, AskFor, Requested, GraphStates, RunRecords, NothingCounted,
      BuildComesFirst, StackIsItsPlan, Gated, Gathering, Preparing, Clearing,
      DriversKnowTheirNodes
<1>11. GatesWereAsked'
  BY KnownFacts, <1>1, <1>2, <1>3, <1>4
  DEF AfterApprovedAct, AskFor, Requested, GraphStates, GatesWereAsked, Gated
<1>12. ActsArePaidFor'
  BY KnownFacts, <1>1, <1>2, <1>3, <1>4, <1>5
  DEF AfterApprovedAct, AskFor, Requested, GraphStates, NothingCounted, ActsArePaidFor,
      Allowance, Gathering, Preparing, Clearing, DriversKnowTheirNodes, GraphStatus, RoundsLeft,
      BuildComesFirst
<1>13. RecordWaitsForTheRevert' /\ EndedRunIsSettled'
  BY KnownFacts, <1>1, <1>2, <1>3, <1>4
  DEF AfterApprovedAct, AskFor, Requested, GraphStates, RunRecords, RecordWaitsForTheRevert,
      EndedRunIsSettled, Gated, DriversKnowTheirNodes
<1>14. QED BY <1>8, <1>9, <1>10, <1>11, <1>12, <1>13, <1>5 DEF NothingCounted

LEMMA AfterRetryStep == GraphInv /\ AfterRetry => GraphInv'
<1> SUFFICES ASSUME GraphInv, AfterRetry PROVE GraphInv'
  OBVIOUS
<1> USE RunGraphAssumption DEF GraphInv
<1>1. flow \in {"resume", "retry"} /\ at' \in {"finish", "verify"}
  BY KnownFacts DEF AfterRetry, DriversKnowTheirNodes, Flows
<1>2. PICK s \in {g.status, "failed"} : g' = [g EXCEPT !.status = s]
  <2>1. g = [g EXCEPT !.status = g.status] BY KnownFacts DEF GraphStates
  <2>2. QED BY <2>1 DEF AfterRetry
<1>3. NothingCounted
  BY HistoryKept, <1>1, <1>2 DEF AfterRetry
<1>4. g' \in GraphStates
  BY KnownFacts, <1>1, <1>2 DEF GraphStates, RunStatuses, MaybePlans
<1>5. run' \in RunRecords
  BY KnownFacts, <1>1, <1>2 DEF AfterRetry, RunRecords, RunStatuses, MaybePlans
<1>6. Typed'
  BY KnownFacts, <1>4, <1>3, <1>5, <1>1, <1>2
  DEF AfterRetry, Typed, TypeOK, NothingCounted, Nodes, Flows
<1>7. DriversKnowTheirNodes' /\ GraphStatus' /\ RoundsLeft'
  BY KnownFacts, <1>1, <1>2, PlanFacts
  DEF AfterRetry, GraphStates, Flows, DriversKnowTheirNodes, GraphStatus, RoundsLeft, Gathering
<1>8. BuildComesFirst' /\ StackIsItsPlan'
  BY KnownFacts, <1>1, <1>2, <1>3, PlanFacts
  DEF AfterRetry, GraphStates, RunRecords, NothingCounted, BuildComesFirst, StackIsItsPlan,
      Gated, Gathering, Preparing, Clearing, DriversKnowTheirNodes
<1>9. GatesWereAsked'
  BY KnownFacts, <1>1, <1>2 DEF AfterRetry, GraphStates, GatesWereAsked, Gated
<1>10. ActsArePaidFor'
  BY KnownFacts, <1>1, <1>2, <1>3
  DEF AfterRetry, GraphStates, NothingCounted, ActsArePaidFor, Allowance, Gathering, Preparing,
      Clearing, DriversKnowTheirNodes, GraphStatus, RoundsLeft, BuildComesFirst
<1>11. RecordWaitsForTheRevert' /\ EndedRunIsSettled'
  BY KnownFacts, <1>1, <1>2
  DEF AfterRetry, GraphStates, RunRecords, RecordWaitsForTheRevert, EndedRunIsSettled, Gated,
      DriversKnowTheirNodes
<1>12. QED BY <1>6, <1>7, <1>8, <1>9, <1>10, <1>11, <1>3 DEF NothingCounted

LEMMA IgnoreStep == GraphInv /\ Ignore => GraphInv'
<1> SUFFICES ASSUME GraphInv, Ignore PROVE GraphInv'
  OBVIOUS
<1> USE RunGraphAssumption DEF GraphInv
<1>1. run'.compiled = run.compiled /\ g' = g
  BY KnownFacts DEF Ignore, RunRecords
<1>2. /\ g' = g /\ "cancelled" \in RunStatuses
      /\ run' = run \/ run' = [run EXCEPT !.status = "cancelled"]
  BY KnownFacts DEF Ignore, RunStatuses
<1>3. ask' \in MaybePlans
  BY KnownFacts DEF Ignore, Typed, TypeOK, MaybePlans
<1>4. NothingCounted
  BY HistoryKept, <1>1, <1>2, <1>3 DEF Ignore
<1>5. g' \in GraphStates
  BY KnownFacts, <1>1, <1>2, <1>3 DEF GraphStates, RunStatuses, MaybePlans
<1>6. run' \in RunRecords
  BY KnownFacts, <1>1, <1>2, <1>3 DEF Ignore, RunRecords, RunStatuses, MaybePlans
<1>7. Typed'
  BY KnownFacts, <1>5, <1>4, <1>6, <1>1, <1>2, <1>3
  DEF Ignore, Typed, TypeOK, NothingCounted, Nodes, Flows
<1>8. DriversKnowTheirNodes' /\ GraphStatus' /\ RoundsLeft'
  BY KnownFacts, <1>1, <1>2, <1>3, PlanFacts
  DEF Ignore, GraphStates, Flows, DriversKnowTheirNodes, GraphStatus, RoundsLeft, Gathering
<1>9. BuildComesFirst' /\ StackIsItsPlan'
  BY KnownFacts, <1>1, <1>2, <1>3, <1>4, PlanFacts
  DEF Ignore, GraphStates, RunRecords, NothingCounted, BuildComesFirst, StackIsItsPlan, Gated,
      Gathering, Preparing, Clearing, DriversKnowTheirNodes
<1>10. GatesWereAsked'
  BY KnownFacts, <1>1, <1>2, <1>3 DEF Ignore, GraphStates, GatesWereAsked, Gated, Cleared
<1>11. ActsArePaidFor'
  BY KnownFacts, <1>1, <1>2, <1>3, <1>4
  DEF Ignore, GraphStates, NothingCounted, ActsArePaidFor, Allowance, Gathering, Preparing,
      Clearing, DriversKnowTheirNodes, GraphStatus, RoundsLeft, BuildComesFirst
<1>12. RecordWaitsForTheRevert' /\ EndedRunIsSettled'
  BY KnownFacts, <1>1, <1>2, <1>3
  DEF Ignore, GraphStates, RunRecords, RecordWaitsForTheRevert, EndedRunIsSettled, Gated,
      DriversKnowTheirNodes
<1>13. QED BY <1>7, <1>8, <1>9, <1>10, <1>11, <1>12, <1>4 DEF NothingCounted

LEMMA ResumeStep == GraphInv /\ Resume => GraphInv'
<1> SUFFICES ASSUME GraphInv, Resume PROVE GraphInv'
  OBVIOUS
<1> USE RunGraphAssumption DEF GraphInv
<1>1. /\ ask \in Plans /\ NoPlan \notin Plans
      /\ ask' = NoPlan /\ UNCHANGED <<env, acts, ignored, steps>>
      /\ resumes' = resumes + 1 /\ resumes < MaxResumes /\ resumes \in 0..MaxResumes
  BY PlanFacts DEF Resume, Typed, TypeOK, MaybePlans
<1>2. resumes' \in 0..MaxResumes
  BY <1>1
<1>3. /\ flow' \in {"build", "resume"}
      /\ flow' = "build" =>
            /\ run.build \in {"pending", "approved"}
            /\ at' = "sourceBuild"
            /\ run' = [run EXCEPT !.status = "running", !.build = "approved"]
      /\ flow' = "resume" =>
            /\ run.build \notin {"pending", "approved"}
            /\ at' = "act" /\ g'.plan # NoPlan
            /\ run' = [run EXCEPT !.status = "running"]
  BY <1>1 DEF Resume, ResumeAfterSourceBuild, ResumeRun, FreshState
<1>4. /\ g' \in GraphStates /\ g'.status = "running" /\ g'.analysis = "unused"
      /\ ~g'.stack /\ ~g'.recovered
  <2>1. /\ FreshState \in GraphStates /\ FreshState.status = "running"
        /\ FreshState.analysis = "unused" /\ ~FreshState.stack /\ ~FreshState.recovered
    BY DEF GraphStates, FreshState, RunStatuses, MaybePlans, Outcomes
  <2>2. CASE ResumeAfterSourceBuild
    <3>1. 1 \in 0..(MaxIterations + 1) OBVIOUS
    <3>2. QED BY <2>1, <2>2, <3>1 DEF ResumeAfterSourceBuild, GraphStates
  <2>3. CASE ResumeRun
    <3>1. PICK i \in 1..MaxIterations : g' = [FreshState EXCEPT !.iteration = i, !.plan = ask]
      BY <2>3 DEF ResumeRun
    <3>2. i \in 0..(MaxIterations + 1) /\ ask \in MaybePlans
      BY <1>1 DEF MaybePlans
    <3>3. QED BY <2>1, <3>1, <3>2 DEF GraphStates
  <2>4. QED BY <2>2, <2>3 DEF Resume
<1>5. NothingCounted
  BY HistoryKept, <1>1, <1>2, <1>3, <1>4 DEF Resume
<1>6. g' \in GraphStates
  BY KnownFacts, <1>1, <1>2, <1>3, <1>4 DEF GraphStates, RunStatuses, MaybePlans
<1>7. run' \in RunRecords
  BY KnownFacts, <1>1, <1>2, <1>3, <1>4 DEF RunRecords, RunStatuses, MaybePlans
<1>8. Typed'
  BY KnownFacts, <1>6, <1>5, <1>7, <1>1, <1>2, <1>3, <1>4
  DEF Typed, TypeOK, NothingCounted, Nodes, Flows, MaybePlans
<1>9. DriversKnowTheirNodes' /\ GraphStatus' /\ RoundsLeft'
  BY KnownFacts, <1>1, <1>2, <1>3, <1>4, PlanFacts
  DEF GraphStates, Flows, DriversKnowTheirNodes, GraphStatus, RoundsLeft, Gathering
<1>10. BuildComesFirst' /\ StackIsItsPlan'
  BY KnownFacts, <1>1, <1>2, <1>3, <1>4, <1>5, PlanFacts
  DEF GraphStates, RunRecords, NothingCounted, BuildComesFirst, StackIsItsPlan, Gated,
      Gathering, Preparing, Clearing, DriversKnowTheirNodes
<1>11. GatesWereAsked'
  BY KnownFacts, <1>1, <1>2, <1>3, <1>4 DEF GraphStates, GatesWereAsked, Gated, Cleared
<1>12. ActsArePaidFor'
  BY KnownFacts, <1>1, <1>2, <1>3, <1>4, <1>5
  DEF GraphStates, NothingCounted, ActsArePaidFor, Allowance, Gathering, Preparing, Clearing,
      DriversKnowTheirNodes, GraphStatus, RoundsLeft, BuildComesFirst
<1>13. RecordWaitsForTheRevert' /\ EndedRunIsSettled'
  BY KnownFacts, <1>1, <1>2, <1>3, <1>4
  DEF GraphStates, RunRecords, RecordWaitsForTheRevert, EndedRunIsSettled, Gated,
      DriversKnowTheirNodes
<1>14. QED BY <1>8, <1>9, <1>10, <1>11, <1>12, <1>13, <1>5 DEF NothingCounted

-----------------------------------------------------------------------------
(* The invariant, and what follows from it *)

LEMMA InitInv == Init => GraphInv
<1> SUFFICES ASSUME Init PROVE GraphInv
  OBVIOUS
<1> USE RunGraphAssumption DEF Init
<1>1. Unattended = {} /\ PlanActs = {} /\ acts \in Seq(ActRecords)
  BY DEF Unattended, PlanActs
<1>2. UnattendedActsBounded
  <2>1. Cardinality(Unattended) = 0
    BY <1>1, UnattendedFinite
  <2>2. QED BY <2>1, EnvFacts DEF UnattendedActsBounded, Unattended
<1>3. g \in GraphStates /\ run \in RunRecords
  BY DEF FreshState, GraphStates, RunRecords, MaybePlans, RunStatuses, Outcomes
<1>4. Typed
  <2>1. \A i \in DOMAIN acts : acts[i].plan \in Plans /\ acts[i].by \in Drivers
    BY <1>1, ActsTyped
  <2>2. steps \in 0..RecursionLimit /\ resumes \in 0..MaxResumes
    OBVIOUS
  <2>3. /\ env \in Envs /\ flow \in Flows /\ at \in Nodes
        /\ ask \in MaybePlans /\ ignored \in BOOLEAN
    BY DEF Flows, Nodes, MaybePlans
  <2> HIDE DEF Init
  <2>4. QED BY <1>1, <1>3, <2>1, <2>2, <2>3 DEF Typed, TypeOK
<1>5. DriversKnowTheirNodes /\ GraphStatus /\ RoundsLeft
  BY DEF DriversKnowTheirNodes, GraphStatus, RoundsLeft, Gathering, FreshState
<1>6. BuildComesFirst /\ StackIsItsPlan
  BY <1>1 DEF BuildComesFirst, StackIsItsPlan, Gated, Gathering, Preparing, Clearing, FreshState
<1>7. GatesWereAsked /\ ActsArePaidFor
  BY <1>1, <1>2, UnattendedFinite
  DEF GatesWereAsked, ActsArePaidFor, Allowance, Preparing, Clearing, FreshState
<1>8. OnlyClearedPlansRunUnattended /\ RecordWaitsForTheRevert /\ EndedRunIsSettled
  BY <1>1 DEF OnlyClearedPlansRunUnattended, RecordWaitsForTheRevert, EndedRunIsSettled
<1>9. QED BY <1>4, <1>5, <1>6, <1>7, <1>8 DEF GraphInv

LEMMA NextInv == GraphInv /\ [Next]_vars => GraphInv'
<1> SUFFICES ASSUME GraphInv, [Next]_vars PROVE GraphInv'
  OBVIOUS
<1>1. CASE Advance
  BY <1>1, StartStep, ObserveStep, RagTriageStep, AgentDecideStep, AgentReadStep,
     AgentFinalizeStep, SanitizeStep, RagGroundingStep, ProvenanceGateStep, SourceBuildStep,
     PlanStep, PreflightStep, AuthorizeStep, PolicyStep, ActStep, AnalyzeFailureStep,
     VerifyStep, FinishGraphStep, FinishResumeStep, RecursionErrorStep, NodeThrowsStep,
     AfterApprovedActStep, AfterRetryStep DEF Advance
<1>2. CASE Resume
  BY <1>2, ResumeStep
<1>3. CASE Ignore
  BY <1>3, IgnoreStep
<1>4. CASE UNCHANGED vars
  <2>1. Typed' /\ DriversKnowTheirNodes' /\ GraphStatus' /\ RoundsLeft'
    BY <1>4 DEF GraphInv, Typed, TypeOK, DriversKnowTheirNodes, GraphStatus, RoundsLeft, vars
  <2>2. Unattended' = Unattended /\ PlanActs' = PlanActs /\ Allowance' = Allowance
    BY <1>4 DEF Unattended, PlanActs, Allowance, vars
  <2>3. BuildComesFirst' /\ StackIsItsPlan' /\ GatesWereAsked'
    BY <1>4, <2>2
    DEF GraphInv, BuildComesFirst, StackIsItsPlan, GatesWereAsked, Gated, Cleared, vars
  <2>4. ActsArePaidFor' /\ OnlyClearedPlansRunUnattended'
    BY <1>4, <2>2
    DEF GraphInv, ActsArePaidFor, UnattendedActsBounded, OnlyClearedPlansRunUnattended, vars
  <2>5. RecordWaitsForTheRevert' /\ EndedRunIsSettled'
    BY <1>4 DEF GraphInv, RecordWaitsForTheRevert, EndedRunIsSettled, Gated, vars
  <2>6. QED BY <2>1, <2>3, <2>4, <2>5 DEF GraphInv
<1>5. QED BY <1>1, <1>2, <1>3, <1>4 DEF Next, Settled

LEMMA GraphInvariant == Spec => []GraphInv
  BY InitInv, NextInv, PTL DEF Spec

\* Every variable keeps its type: the state of the graph, the stored run, what HIL was asked
\* and what was executed (graph.ts).
THEOREM TypesAreKept == Spec => []TypeOK
<1>1. GraphInv => TypeOK
  BY DEF GraphInv, Typed
<1>2. QED BY <1>1, GraphInvariant, PTL

\* Whatever way a plan came to actNode, what no human approved the security agent allows
\* without one, and both gates of the policy let pass; and a run without a human acts no
\* more often than its iterations, the failure analysis and the recovery allow.
THEOREM UnattendedActsStayCleared == Spec => []UnattendedActsAreCleared
<1>1. GraphInv => UnattendedActsAreCleared
  BY DEF GraphInv, ActsArePaidFor, UnattendedActsAreCleared
<1>2. QED BY <1>1, GraphInvariant, PTL

\* An invocation that came to its end, but for a continuation that threw, leaves no record
\* that says the run is running.
THEOREM EndedRunsAreSettled == Spec => []EndedRunIsSettled
<1>1. GraphInv => EndedRunIsSettled
  BY DEF GraphInv
<1>2. QED BY <1>1, GraphInvariant, PTL

\* The graph does not reach actNode in a run that waits or was given up; and the plan
\* policyNode suspends a run on is the one HIL asks about, unless its resource is ignored:
\* no record waits before, but for a Git revert, which was asked for.
THEOREM RunsWaitForWhatWasAsked == Spec => WaitingIsRespected
<1>1. GraphInv => ActOnlyWhileRunning
  BY DEF GraphInv, GraphStatus, ActOnlyWhileRunning
<1>2. GraphInv /\ [Next]_vars =>
         [at = "policy" /\ at' = "finish" /\ g.status # "awaiting_human"
           /\ g'.status = "awaiting_human" =>
               IF ignored THEN ask' = ask ELSE ask' = g'.plan]_vars
  <2> SUFFICES ASSUME GraphInv, Next, at = "policy", at' = "finish",
                      g.status # "awaiting_human", g'.status = "awaiting_human"
               PROVE  IF ignored THEN ask' = ask ELSE ask' = g'.plan
    OBVIOUS
  <2>1. Policy
    BY DEF Next, Advance, Resume, ResumeAfterSourceBuild, ResumeRun, Ignore, Settled, vars,
           Start, Observe, RagTriage, AgentDecide, AgentRead, AgentFinalize, Sanitize,
           RagGrounding, ProvenanceGate, SourceBuild, Plan, Preflight, Authorize, Act,
           AnalyzeFailure, Verify, FinishGraph, FinishResume, RecursionError, NodeThrows,
           AfterApprovedAct, AfterRetry, Node
  <2>2. g \in GraphStates /\ flow \in {"graph", "build"}
    BY <2>1, KnownFacts DEF GraphInv, DriversKnowTheirNodes, Policy, Node, Flows
  <2>3. g' = [g EXCEPT !.status = "awaiting_human"]
    BY <2>1, <2>2 DEF Policy, PolicyWithoutGate, PolicyUncompilable, PolicyGated
  <2>4. g'.plan = g.plan /\ ask' = IF AskNeeded THEN Requested(g.plan) ELSE ask
    BY <2>1, <2>2, <2>3
    DEF Policy, PolicyWithoutGate, PolicyUncompilable, PolicyGated, GraphStates
  <2>5. ~AskNeeded => ignored \/ ask = g.plan
    BY <2>2 DEF GraphInv, RecordWaitsForTheRevert, AskNeeded, Gated
  <2>6. QED BY <2>4, <2>5 DEF Requested
<1>3. QED BY <1>1, <1>2, GraphInvariant, PTL
  DEF Spec, WaitingIsRespected, SuspendedOnWhatIsAsked
=============================================================================
