------------------------------ MODULE ToolRuntime ------------------------------
(***************************************************************************)
(* The execution of a compiled plan: executeAction (orchestrator/src/      *)
(* tools.ts), executeCompiledPlan and its handlers (tool-runtime.ts), the  *)
(* executor they post restarts to (executor/src), and the wait for the     *)
(* rollout (shared/src/workload-readiness-wait.ts).                        *)
(*                                                                         *)
(* A plan is a sequence of tool calls, executed from left to right.  It is *)
(* executed again when the graph retries a run, and from the index where   *)
(* it stopped when PER_TOOL_HIL paused it for a human.  A call is a POST   *)
(* with a deadline: it may be answered, refused, fail on the way, or take  *)
(* effect and be answered too late.                                        *)
(***************************************************************************)
EXTENDS AutonomyPolicy, Sequences, FiniteSets

CONSTANTS
    MaxExecutions,  \* executions of the plan
    PostTimeout,    \* ticks after which a POST is abandoned (120 seconds)
    RolloutTimeouts,\* values of EXECUTOR_ROLLOUT_TIMEOUT_MS, in ticks
    RestartWait,    \* ticks the runtime waits for a restart to become ready,
    DefaultWait,    \* for another change,
    ImageWait       \* and for a new image

ASSUME RuntimeAssumption ==
    /\ {MaxExecutions, PostTimeout, RestartWait, DefaultWait, ImageWait} \subseteq Nat \ {0}
    /\ RolloutTimeouts \subseteq Nat

VARIABLES
    setting,  \* the plan's action and what the run and the environment fix
    run,      \* the stored record: status, resumeFrom (0: unset), pendingTool
    ex,       \* the execution under way
    sent,     \* per call, the requests sent for it by this execution
    effects,  \* per call, how often it took effect, in all executions
    ran,      \* the calls some execution has completed, in any way
    count     \* executions so far, and approvals given per call

vars == <<setting, run, ex, sent, effects, ran, count>>

-----------------------------------------------------------------------------
(* The registry and the pipelines *)

ToolNames == {"investigator.repo_inspect", "executor.restart_workload", "gitops.apply_plan",
              "investigator.verify_health", "commander.notify", "cicd.rerun_workflow",
              "cicd.open_pr", "cicd.open_code_pr", "coding_agent.run_fix"}

Idempotent(tool) == tool \notin ToolsNeedingHilInProd

\* Mutant: whatever is in the registry may be tried again.
MaxRetriesAll(tool) == IF tool = "investigator.verify_health" THEN 3 ELSE 2

MaxRetries(tool) ==
    CASE tool = "investigator.verify_health" -> 3
      [] Idempotent(tool) /\ tool # "investigator.verify_health" -> 2
      [] OTHER -> 1

MutateTools == {"gitops.apply_plan", "executor.restart_workload"}

\* The handlers that turn an exception into a failed result.
CatchesErrors(tool) == tool \in {"cicd.rerun_workflow", "cicd.open_pr", "cicd.open_code_pr",
                                 "coding_agent.run_fix"}

NotifyCall(s) == IF s.chat THEN <<"commander.notify">> ELSE <<>>

CoreCall(action) ==
    CHOOSE tool \in CoreTools([action |-> action, content |-> "fine"]) : TRUE

\* compilePlanToToolCalls: inspect before a deploy, act, and notify unless the
\* agents that act report by themselves.
ClassicPipeline(s) ==
    (IF s.mode = "pre-deploy" THEN <<"investigator.repo_inspect">> ELSE <<>>)
    \o <<CoreCall(s.action)>>
    \o (IF s.mode \in {"pre-deploy", "ci-failure"} THEN <<>> ELSE NotifyCall(s))

\* planCapability: act, verify, notify.
CapabilityPipeline(s) ==
    <<CoreCall(s.action), "investigator.verify_health">> \o NotifyCall(s)

Calls == IF setting.capability THEN CapabilityPipeline(setting) ELSE ClassicPipeline(setting)
Indices == 1..Len(Calls)

\* applies is FALSE when the GitOps agent answers success and applies nothing: to a
\* plain manifest, which REGISTRY_DRY_RUN (true by default) only runs dry, and to a
\* git_patch without operations.
Settings ==
    {s \in [action: RemediationActions \ (HumanActions \cup {"git_revert"}),
            mode: IncidentModes, capability: BOOLEAN, chat: BOOLEAN, prod: BOOLEAN,
            perToolHil: BOOLEAN, imagePatch: BOOLEAN, applies: BOOLEAN,
            rolloutTimeout: RolloutTimeouts] :
        /\ s.mode = "ci-failure" <=> s.action \in CiActions
        /\ s.mode = "pre-deploy" => s.action # "restart"
        /\ s.capability => /\ s.mode = "diagnose"
                           /\ s.action \in {"restart", "git_patch", "helm_deploy", "repo_apply"}
        /\ s.imagePatch => s.action = "git_patch"
        /\ ~s.applies => s.action \in GitOpsActions /\ ~s.imagePatch}

-----------------------------------------------------------------------------
(* Executions *)

\* at: "idle"    no execution is under way
\*     "before"  about to begin the call at index i
\*     "call"    about to send it
\*     "post"    it is sent, and took effect or not (took)
\*     "wait"    the runtime polls the rollout itself
\* age counts the ticks of the POST or of the wait.
NotExecuting == [at |-> "idle", i |-> 1, attempt |-> 0, overall |-> TRUE,
                 mutateFailed |-> FALSE, priorMutate |-> FALSE, took |-> FALSE, age |-> 0, outcome |-> "none"]

Init ==
    /\ setting \in Settings
    /\ run = [status |-> "running", resumeFrom |-> 0, pendingTool |-> 0]
    /\ ex = NotExecuting
    /\ sent = [i \in Indices |-> 0]
    /\ effects = [i \in Indices |-> 0]
    /\ ran = {}
    /\ count = [executions |-> 0, approvals |-> [i \in Indices |-> 0]]

Tool == Calls[ex.i]

\* Mutant: an index that is not set is not told from one that is.
StartAtStored == run.resumeFrom

\* executeAction: load the record, begin at the index it holds.
StartIndex == IF run.resumeFrom = 0 THEN 1 ELSE run.resumeFrom

ExecuteAction ==
    /\ ex.at = "idle"
    /\ run.status = "running"
    /\ count.executions < MaxExecutions
    /\ ex' = [NotExecuting EXCEPT !.at = "before", !.i = StartIndex]
    /\ sent' = [i \in Indices |-> 0]
    /\ count' = [count EXCEPT !.executions = @ + 1]
    /\ UNCHANGED <<setting, run, effects, ran>>

\* The onBeforeTool callback of executeAction.
PausesBefore(tool) ==
    setting.perToolHil /\ setting.prod /\ tool \in ToolsNeedingHilInProd

\* Mutant: the record holds the index after the tool that waits.
PauseAfter(index) ==
    [status |-> "awaiting_human", resumeFrom |-> index + 1, pendingTool |-> index]

\* The tool needs a human: remember the index, ask HIL, and suspend the run.
PauseAt(index) == [status |-> "awaiting_human", resumeFrom |-> index, pendingTool |-> index]

PauseForTool ==
    /\ ex.at = "before" /\ ex.i \in Indices
    /\ PausesBefore(Tool)
    /\ run' = PauseAt(ex.i)
    /\ ex' = [NotExecuting EXCEPT !.outcome = "paused"]
    /\ UNCHANGED <<setting, sent, effects, ran, count>>

\* A mutation failed: everything but the notification is passed over.
SkipsTool(tool) == ex.mutateFailed /\ tool # "commander.notify"

SkipTool ==
    /\ ex.at = "before" /\ ex.i \in Indices
    /\ ~PausesBefore(Tool)
    /\ SkipsTool(Tool)
    /\ ex' = [ex EXCEPT !.i = @ + 1]
    /\ UNCHANGED <<setting, run, sent, effects, ran, count>>

\* After a mutation, the health check becomes a wait for the rollout.
BeginTool ==
    /\ ex.at = "before" /\ ex.i \in Indices
    /\ ~PausesBefore(Tool) /\ ~SkipsTool(Tool)
    /\ ex' = IF Tool = "investigator.verify_health" /\ ex.priorMutate
             THEN [ex EXCEPT !.at = "wait", !.age = 0]
             ELSE [ex EXCEPT !.at = "call", !.attempt = 0]
    /\ UNCHANGED <<setting, run, sent, effects, ran, count>>

\* Mutant: the verdict of the last call is the verdict of the execution.
LastResultWins(success) ==
    [ex EXCEPT
        !.at = "before", !.i = @ + 1, !.attempt = 0, !.took = FALSE, !.age = 0,
        !.overall = success \/ Tool = "investigator.repo_inspect",
        !.mutateFailed = @ \/ (~success /\ Tool \in MutateTools),
        !.priorMutate = @ \/ (success /\ Tool \in MutateTools)]

\* What the loop does with the result of a call.
AfterResult(success) ==
    [ex EXCEPT
        !.at = "before", !.i = @ + 1, !.attempt = 0, !.took = FALSE, !.age = 0,
        !.overall = (@ /\ success) \/ (~success /\ Tool = "investigator.repo_inspect"),
        !.mutateFailed = @ \/ (~success /\ Tool \in MutateTools),
        !.priorMutate = @ \/ (success /\ Tool \in MutateTools)]

\* One attempt is over.  A refusal ends the call when the tool is idempotent, an
\* exception never does: both are retried while attempts are left.
AttemptEnds(result) ==
    LET answer == IF result = "threw" /\ CatchesErrors(Tool) THEN "refused" ELSE result
        final == \/ answer = "ok"
                 \/ answer = "refused" /\ Idempotent(Tool)
                 \/ ex.attempt >= MaxRetries(Tool)
    IN IF final
       THEN /\ ex' = AfterResult(answer = "ok")
            /\ ran' = ran \cup {ex.i}
       ELSE /\ ex' = [ex EXCEPT !.at = "call", !.age = 0]
            /\ UNCHANGED ran

\* A call of the acting tool that the agent has nothing to do for.
AppliesNothing == ~setting.applies /\ Tool = CoreCall(setting.action)

\* The request is sent, and reaches the agent and takes effect, or does not.
CallTool ==
    /\ ex.at = "call"
    /\ sent' = [sent EXCEPT ![ex.i] = @ + 1]
    /\ \E took \in BOOLEAN :
          /\ took => ~AppliesNothing
          /\ ex' = [ex EXCEPT !.at = "post", !.attempt = @ + 1, !.took = took]
          /\ effects' = [effects EXCEPT ![ex.i] = IF took THEN @ + 1 ELSE @]
    /\ UNCHANGED <<setting, run, ran, count>>

\* Any agent but the executor: it did what it was asked, or says so of what it had
\* nothing to do for; it refuses (perhaps after it did a part); or its answer does
\* not arrive.
ToolAnswers ==
    /\ ex.at = "post" /\ Tool # "executor.restart_workload"
    /\ \E result \in {"refused", "threw"} \cup
                     (IF ex.took \/ AppliesNothing THEN {"ok"} ELSE {}) :
          AttemptEnds(result)
    /\ UNCHANGED <<setting, run, sent, effects, count>>

\* executeRestart: the patch fails at once, or the workload becomes ready within
\* the executor's own timeout, or does not; while the POST waits for the answer.
ExecutorAnswers ==
    /\ ex.at = "post" /\ Tool = "executor.restart_workload"
    /\ ex.age < PostTimeout
    /\ \/ ~ex.took /\ AttemptEnds("refused")
       \/ ex.took /\ AttemptEnds("ok")
       \/ ex.took /\ ex.age > setting.rolloutTimeout /\ AttemptEnds("refused")
    /\ UNCHANGED <<setting, run, sent, effects, count>>

\* Both deadlines run; the executor's begins after its patch, and it looks at it
\* only between two polls.
Tick ==
    /\ ex.at = "post" /\ Tool = "executor.restart_workload"
    /\ ex.age < PostTimeout
    /\ ex' = [ex EXCEPT !.age = @ + 1]
    /\ UNCHANGED <<setting, run, sent, effects, ran, count>>

PostTimesOut ==
    /\ ex.at = "post" /\ Tool = "executor.restart_workload"
    /\ ex.age = PostTimeout
    /\ AttemptEnds("threw")
    /\ UNCHANGED <<setting, run, sent, effects, count>>

-----------------------------------------------------------------------------
(* The wait for the rollout *)

\* Phases as the investigator's verify reports them.
Transient == {"pulling_image", "probe_warming", "rolling_update", "unknown"}

\* rolloutTimeoutMs for the change made and the phase observed.
WaitTimeout(phase) ==
    CASE setting.imagePatch \/ phase = "pulling_image" -> ImageWait
      [] setting.action = "restart" /\ phase # "pulling_image" -> RestartWait
      [] OTHER -> DefaultWait

\* The loop's own deadline is set once, when nothing has been observed yet.
WaitDeadline == WaitTimeout("unknown")

WaitEnds(healthy) == ex' = AfterResult(healthy) /\ ran' = ran \cup {ex.i}

\* Mutant: the deadline is counted anew from every other poll.
PollForever ==
    /\ ex.at = "wait"
    /\ \/ WaitEnds(TRUE)
       \/ WaitEnds(FALSE)
       \/ ex' = [ex EXCEPT !.age = (@ + 1) % 2] /\ UNCHANGED ran
    /\ UNCHANGED <<setting, run, sent, effects, count>>

\* waitForWorkloadReady: one poll.  It ends with readiness, with a terminal
\* failure, or with the deadline.
PollRollout ==
    /\ ex.at = "wait"
    /\ \/ WaitEnds(TRUE)
       \/ WaitEnds(FALSE)   \* a terminal phase
       \/ \E phase \in Transient :
             IF ex.age + 1 > WaitTimeout(phase) \/ ex.age + 1 >= WaitDeadline
             THEN WaitEnds(FALSE)
             ELSE ex' = [ex EXCEPT !.age = @ + 1] /\ UNCHANGED ran
    /\ UNCHANGED <<setting, run, sent, effects, count>>

\* A poll that throws is caught by nobody below the graph node: the execution
\* ends without a result, its transcript is lost, and the run fails.
PollThrows ==
    /\ ex.at = "wait"
    /\ ex' = [NotExecuting EXCEPT !.outcome = "threw"]
    /\ run' = [run EXCEPT !.status = "failed"]
    /\ UNCHANGED <<setting, sent, effects, ran, count>>

-----------------------------------------------------------------------------
(* The end of an execution, and what comes after it *)

FinishExecution ==
    /\ ex.at = "before" /\ ex.i \notin Indices
    /\ ex' = [NotExecuting EXCEPT !.outcome = IF ex.overall THEN "success" ELSE "failure"]
    /\ run' = IF ex.overall THEN [run EXCEPT !.resumeFrom = 0, !.pendingTool = 0] ELSE run
    /\ UNCHANGED <<setting, sent, effects, ran, count>>

\* HIL's approval of the pending tool: /resume-run puts the run back to work.
ApproveTool ==
    /\ run.status = "awaiting_human"
    /\ run' = [run EXCEPT !.status = "running"]
    /\ count' = [count EXCEPT !.approvals[run.pendingTool] = @ + 1]
    /\ UNCHANGED <<setting, ex, sent, effects, ran>>

\* The graph goes on from a result to the end of the run; or back to act, which
\* is another ExecuteAction.
EndRun ==
    /\ run.status = "running" /\ ex.at = "idle" /\ ex.outcome \in {"success", "failure"}
    /\ run' = [run EXCEPT !.status = "ended"]
    /\ UNCHANGED <<setting, ex, sent, effects, ran, count>>

Next ==
    \/ ExecuteAction \/ PauseForTool \/ SkipTool \/ BeginTool
    \/ CallTool \/ ToolAnswers \/ ExecutorAnswers \/ Tick \/ PostTimesOut
    \/ PollRollout \/ PollThrows
    \/ FinishExecution \/ ApproveTool \/ EndRun

\* Every call has a timeout and every loop a deadline; humans and the graph's
\* decision to act again are not assumed of.
Progress ==
    \/ PauseForTool \/ SkipTool \/ BeginTool \/ CallTool \/ ToolAnswers
    \/ ExecutorAnswers \/ Tick \/ PostTimesOut \/ PollRollout \/ PollThrows \/ FinishExecution

Spec == Init /\ [][Next]_vars /\ WF_vars(Progress)

-----------------------------------------------------------------------------
(* Properties *)

TypeOK ==
    /\ setting \in Settings
    /\ run \in [status: {"running", "awaiting_human", "failed", "ended"},
                resumeFrom: 0..(Len(Calls) + 1), pendingTool: 0..Len(Calls)]
    /\ ex \in [at: {"idle", "before", "call", "post", "wait"}, i: 1..(Len(Calls) + 1),
               attempt: 0..3, overall: BOOLEAN, mutateFailed: BOOLEAN, priorMutate: BOOLEAN,
               took: BOOLEAN, age: Nat,
               outcome: {"none", "success", "failure", "paused", "threw"}]
    /\ sent \in [Indices -> Nat] /\ effects \in [Indices -> Nat]
    /\ ran \subseteq Indices
    /\ count \in [executions: 0..MaxExecutions, approvals: [Indices -> Nat]]

\* A request whose repetition is not harmless (a commit, a pull request, a
\* workflow run) leaves at most once per execution, although its answer may be
\* lost and the loop retries whatever threw (tool-runtime.ts:711-725).
NonIdempotentSentOnce ==
    \A i \in Indices : ~Idempotent(Calls[i]) => sent[i] <= 1

\* An execution that reports success has its acting tool in effect, although a
\* failed inspection resets the verdict (tool-runtime.ts:757-765) and an
\* execution may begin in the middle of the pipeline.  It says nothing of the plans
\* the GitOps agent applies nothing of: see SuccessAlwaysApplied.
SuccessIsEffective ==
    ex.outcome = "success" /\ setting.applies =>
        \A i \in Indices : Calls[i] = CoreCall(setting.action) => effects[i] > 0

\* The index a paused run resumes from passes over nothing but calls that were
\* made: what waits for its approval is not skipped (tools.ts:428-437).
ResumeSkipsOnlyWhatRan ==
    run.resumeFrom # 0 => 1..(run.resumeFrom - 1) \subseteq ran

\* However a run is paused, resumed and retried, what it passes over was called and what it
\* reports is in effect, if its agent applies it at all (tools.ts:433).
SuccessIsWhole == SuccessIsEffective /\ ResumeSkipsOnlyWhatRan

\* Every execution ends, whatever the agents and the rollout do: each POST is
\* abandoned, each wait has a deadline, each call a number of attempts.
ExecutionsEnd == (ex.at # "idle") ~> (ex.at = "idle")

\* Whatever an execution reports done was applied: the dry run comes before the apply
\* (docs/ARCHITECTURE.md:334).
SuccessAlwaysApplied ==
    ex.outcome = "success" =>
        \A i \in Indices : Calls[i] = CoreCall(setting.action) => effects[i] > 0

\* One approval of a tool is enough: HIL's resume command takes the run past the
\* tool it approved (docs/ARCHITECTURE.md:430, docs/TOOL-COMPILER-ROADMAP.md:50).
OneApprovalPerTool == \A i \in Indices : count.approvals[i] <= 1

=============================================================================
