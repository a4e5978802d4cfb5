# A TLA+ development of sre-bot

sre-bot is a Kubernetes SRE agent: it notices failures in a cluster, gathers facts, lets an
LLM propose a remediation, checks the proposal against policies, asks a human where a policy
says so, and carries it out through narrow agents (a restarter, a GitOps committer, a CI
agent). It is about sixty thousand lines of TypeScript in a dozen services that talk HTTP.
None of the dangerous questions about it is answered inside one function: whether a plan can
reach the cluster without the approval it needs, whether one approval can execute twice,
whether a run that died blocks its namespace. These modules model the parts where such
questions are decided, translated from the source; TLC checks them on small instances and
TLAPS proves the most important facts for every instance.

    tlc -config MCApprovalStore_asks.cfg   MCApprovalStore
    tlc -config MCRunGraph_all.cfg         MCRunGraph
    tlc -config MCRunAdmission_safety.cfg  MCRunAdmission
    tlc -config MCToolRuntime_tools.cfg    MCToolRuntime
    tlc -config MCCodeFix_fix.cfg          MCCodeFix
    tlc -config MCGitOps_mirror.cfg        MCGitOps
    tlc -config MCDetection_detection.cfg  MCDetection
    tlc -config MCCommander_chat.cfg       MCCommander
    tlc -config MCRollout_rollout.cfg      MCRollout
    tlc -config MCKnowledge_knowledge.cfg  MCKnowledge
    tlapm ApprovalStoreProofs.tla
    tlapm RunAdmissionProofs.tla
    tlapm RunGraphProofs.tla
    tlapm ToolRuntimeProofs.tla
    tlapm RolloutProofs.tla
    tlapm RepairProofs.tla
    tlapm CommanderProofs.tla
    tlapm AgentProofs.tla

Paths below are relative to `src/`. `PROJECT.json` maps every definition to the lines it
translates, and lists the runs, the mutants that show each property can fail, the hazards of
the code and the findings.

## 1. The system

An incident travels like this:

    watcher / commander / console / alertmanager / CI webhook
         | POST /runs
         v
    orchestrator --- investigator (facts, verify)     reads the cluster
         |       --- security-agent (sanitize, authorize-action)
         |       --- brain (plan, preflight, failure analysis)   LLM
         |       --- RAG platform (runbooks)
         |  needs a human: POST /request-approval
         v
    hil-agent  <---> Slack, Telegram, web, API (approve / reject / ignore / suggest-fix)
         |  approved: POST /resume-run              (asks of a run)
         |  approved: POST to executor / gitops     (asks of the legacy brain path)
         v
    orchestrator --- executor (restart) / gitops (commit) / cicd / coding agent

| component | state it keeps | operations | what is hard | modelled by |
|---|---|---|---|---|
| HIL approval store (`agents/hil/src`) | a `Map` of asks in memory, a persisted ignore list | merge or create, approve, reject, ignore, suggest-fix, confirm, prune | four platforms decide the same ask; requests are retried; suggest-fix awaits an LLM between check and update; a restart forgets all | `ApprovalStore`, `AskLifecycle` |
| Run graph (`agents/orchestrator/src/graph.ts`) | the graph state of one run, its stored record | 17 nodes, their edges, two hand-written continuations after an approval, being ignored | many paths to `actNode`, each with its own checks; state kept from an earlier iteration | `RunGraph` |
| Policies (`shared/src/policy.ts`, `tool-policy.ts`, the security agent, the preflight validator, the tool compiler) | none | pure functions of plan and environment | five rules that must agree | `AutonomyPolicy` |
| Run admission (`orchestrator/src/index.ts` and its stores) | run records in PostgreSQL, Redis or a file; the throttle queue | start, enqueue, drain, deduplicate, cancel, sweep, resume | handlers, drains, graphs and sweeps interleave at every await; crashes; retried resumes | `RunAdmission` |
| Tool runtime (`orchestrator/src/tool-runtime.ts`, `tools.ts`) and executor | the index of a pipeline, the run's pause | execute, retry, wait for the rollout, pause for a per-tool approval | calls that took effect and were not answered; resuming in the middle | `ToolRuntime` |
| CI/CD agent, coding agent | watches of pull requests, jobs | plan a fix, attempt, open a pull request, watch its CI, cancel | requests that go on when their client has given up; a cancellation against a finish | `CodeFix` |
| GitOps agent (`agents/gitops/src`) | one working tree, its index, branches and commits | patch, register, apply, revert, undeploy, wait for Argo CD | concurrent requests in one tree; what a crash leaves in it | `GitOps` |
| Watcher, alert correlation, brain circuit breaker | cooldowns, windows, attempts in a custom resource | events, polls, sweeps, webhooks, counting, escalation | several detectors with keys of their own; read, modify, write without a version | `Detection` |
| Commander (`agents/commander/src`) | open prompts, sessions, cases | messages, buttons, answers, case sync, cancel | messages that overlap; answers to replaced prompts; late run updates | `Commander` |
| Rollouts (`shared/src/workload-readiness-wait.ts`, `deploy-readiness-watch.ts`; `verify.ts` and the source builds of the investigator) | poll loops, jobs in the cluster | build, wait, recover, watch, verify | workloads read one after the other while they change; statuses that lag; deadlines; a restart in the middle of a watch | `Rollout` |
| RAG platform (`sre-agent-platform/rag`) and the outcomes that feed it (`persist-outcome.ts`, `rag-seed-on-success.ts`, `rag-triage-gate.ts`) | a table of playbooks | seed, learn, premerge, deduplicate, retrieve | a worker that merges rows of an old list; outcomes persisted twice; searches that fail | `Knowledge` |
| Deploy sources (`shared/src/deploy-provenance.ts`, `deploy-source-gate.ts`) | rows of the same table, an open question | merge what is known, ask, parse the reply, remember | sources that contradict each other; replies that change what is missing | `DeploySource`, `Knowledge` |
| Shared HTTP client | none | `postJson`, `postWithRetry` | at-least-once delivery | inside `ApprovalStore`, `RunAdmission`, `Detection` |
| The rest of the investigator, security redaction, chat notifiers, console, debug MCP server, manifests | - | cluster reads, regular expressions, rendering, a proxy, configuration | little control of their own | their answers are inputs of the other modules |

What makes each component correct, as the project states it: an *ask* is decided once and
executes only if approved; a *plan* acts unattended only if every gate cleared it; a *run* is
started once, its status tells the truth about it, and neither its death nor the queue lasts
for ever; a *tool* that must not be repeated is called once, and reported success is in effect;
an opened *pull request* keeps the patch that was announced; what is reported as *landed* is in
the repository and stays there; what *fails* is reported, again and again, and no alert is
dropped; a *prompt* is answered once, and what a chat says is being investigated has a run; a
*verdict* on a rollout says what happened, and every deploy is told of; what was *learned* is
kept, and acted on without a diagnosis only if a run that ended well had taught it. Where the
code keeps such a promise only under a condition (a store, a setting, a bound), the property has
the condition, and section 4 shows what happens without it.

## 2. The modules

### ApprovalStore, AskLifecycle

`ApprovalStore` is the store of the HIL agent with all the handlers that touch it. A Node
process runs a handler up to its first await without interruption, so an action is such a
stretch: `Approve` is the body of `/api/approve`, of the Slack button or of the legacy form
(they differ in whether the entry is APPROVED or EXECUTING afterwards, the parameter
`status`); `Dispatch` is `dispatch` with `mergeOrCreate` in it (`Create`, `Refresh`). Only
`suggest-fix` awaits between its check of an entry and the update, hence `BeginSuggestion` and
`FinishSuggestion`, between which anything can happen to the entry. `RedeliverRequest` is the
second copy `postWithRetry` sends when the first one was served but not answered in time; only
the brain's legacy path uses it for asks, the orchestrator posts once. `Confirm` is the
callback of gitops, which writes whatever entry the incident has by then. `Restart` empties
the Map. Time is `now`, and the two comparisons of the code with an expiry (`>` in
`isPending`, `<` in `tryApprove`) are kept as they are.

Of a plan only its action is kept, since that is what the fingerprint of an ask and the choice
of the executing agent depend on. What a notification tells the operators is the pair
`Announcement`. `commands`, `verdict`, and the numbers of cycles and asks are history
variables. A *cycle* is the life of one ask in the store.

`AskLifecycle` is what an approval service promises, one cycle at a time: an ask is opened,
ends in one verdict or lapses, and is ordered to be executed only when approved, once.
`ImplementsLifecycle` is the refinement, under a mapping that computes the phase of a cycle
from the entry and the verdict.

### AutonomyPolicy, RunGraph

`AutonomyPolicy` holds the pure rules: the preflight validator, the security agent's
`authorize-action`, the compiler from a plan to tool calls with the registry's risk table, and
the two gates whose conjunction is `AutoExecute`. A plan is a record of its action, what the
validators will say of its content (`fine`, `flagged`, `refused`, `hollow`), its severity and
whether its rollback is safe.

`RunGraph` is one run. `at` is the node about to execute, and each node is one action that
performs the whole node function and chooses the next by the route function of the same name
in the code. What the LLM, the cluster, the failure analyst and the user answer is a
nondeterministic choice over all they can answer. `flow` says who drives: the LangGraph graph,
or one of the two continuations that `/resume-run` starts, which call the same node functions
in their own order with their own checks. This is where the code is easy to get wrong: the
graph's edges do not exist there. `run` is the stored record (`compiled` is the pipeline it
remembers), `ask` the plan HIL was last asked about, and `acts` the history of what was
executed and on whose authority. `NodeThrows` lets any node fail; `RecursionError` is
LangGraph's limit on supersteps.

What a node gathers is a set of the kinds of answer it may get: `Findings` of the facts before a
deploy (namespace, repository, CI), `NextReads` and `Reflections` of the brain, `Verdicts` of the
failure analyst, each next to the deterministic rule that stands in when the LLM fails. `ignored`
says that a human ignored the resource: `Ignore` is the button, with the cancellation of the run
that it causes, `Start` skips a run whose request is ignored, and HIL drops the ask of an ignored
resource. Only per-tool approvals (`PER_TOOL_HIL`, off by default) are left out; they are part of
`ToolRuntime`. HIL appears as one slot, since `OneLivePendingPerRun` of `ApprovalStore` says that
a run has one live ask.

### RunAdmission

`RunAdmission` is what happens around the runs: `POST /runs` as a process per request with a
step for each stretch between awaits (count, enqueue, find, judge, cancel, start), several
invocations of `drainThrottledRuns` that overlap, executions that ask, end, or throw, HIL's
approval and the one or two copies of the resume command it delivers, the operator's cancel,
the stale-run sweep, which reads first and cancels later, a day of waiting, and a crash of the
process. `store` is the backend, and the three write differently. PostgreSQL claims a queued run
with a conditional UPDATE (`DrainClaim`) and changes single columns. The file store claims under a
lock file (`DrainLock`, `DrainClaimRead`, `DrainClaimWrite`), which only claims take: every other
write reads a whole record and writes it back with the status it has read, be it an addition of
the execution (`JobSaves`, `JobWrites`) or the reason and the outcome that follow a cancellation
or an end (`late`, `LateRead`, `LateWrite`). Redis does the same without a lock, because its
WATCH/MULTI/EXEC are issued on the one connection that all claims share, so that any EXEC ends
all WATCHes. A crash leaves the lock files behind (`locks`).

No list is complete: a drain takes up the oldest `ListLimit` queued runs (100) of those its store
scans (`Scanned`), a sweep reads the `ScanLimit` records that were written last (500), a search
for duplicates looks through `DedupeLimit` (200). `newer` says of each record which were written
after it. A drain keeps the part of its list it has still to do (`todo`) and the run it is about,
and takes them in the order of the queue (`Oldest`). An execution's inside is abstracted to its
kind (a graph or a continuation, either of which may ask); what it may do is `RunGraph`. An
execution that ends writes its status whatever it has become meanwhile (`FinalStatuses`), or
fails to, which is swallowed (`JobDies`).

### ToolRuntime

`ToolRuntime` is the execution of a compiled plan, the sequence `Calls` that the compiler (or,
with capabilities, `planCapability`) makes of an action. `ex` is one execution: the index, the
attempt, and the local variables of `executeCompiledPlan` (`overall`, `mutateFailed`,
`priorMutate`). A call is a POST (`CallTool`) that is answered, refused, lost, or takes effect
and is answered after its deadline (`PostTimesOut`); `Tick` is the passing of time of the
executor, which waits for the rollout about as long as its caller waits for the answer. What
throws is tried again (`MaxRetries`), unless the handler catches (`CatchesErrors`). After a
restart or a patch the runtime itself polls the rollout (`PollRollout`). `PauseForTool` and
`ApproveTool` are the approvals of single tools (`PER_TOOL_HIL`). An answer that says success does
not always mean that something was applied: the GitOps agent only runs a plain manifest dry
(`REGISTRY_DRY_RUN`, on by default) and reports an empty patch as applied. A setting says with
`applies` whether the plan is one of these, and `AppliesNothing` keeps the effect of its acting
call away. `sent`, `effects`, `ran` and `count` are history variables.

### CodeFix

`CodeFix` is the repair of a failed CI run: the plan (`PlanFailure`), the call of the tool that
ends in a pull request (`RequestPr`, `RunFix`), the coding agent's fix loop (`LoadContext` to
`TryPatch`), the requests that the CI/CD agent serves in several calls to GitHub
(`EnsureBranch`, `PutFile`, `OpenPull`), and the watch of the CI. A request is a process of its
own, because it goes on when the client that sent it has timed out; all requests of an incident
write one head branch. `PutAccepted` is GitHub's own optimistic lock on a file's blob.

### GitOps

`GitOps` is the agent with its one clone. The content of a branch is the set of changes its
commits add and delete, a change belongs to a manifest, and a request makes one change; that is
enough to tell a lost update from a landed one. `mirror` is the tree, its index, its local
branches and its view of the remote; `Sync`, `Commit` and `Push` are what git does with them,
refusals included; `Missing` is what a rebase replays. A request's step is what it does between
two awaits. `brings` is what a request has to apply, which for a patch may be nothing: it is then
reported applied although neither the file nor the cluster was touched. A patch adds its change
to what it has read of its manifest; a registration puts its own in the place of the whole file,
since its one operation is an `add` at the root (`Patched`). `Developer` pushes to
the remote directly. Direct applications (`ApplyPlain`, `ApplyTemplate`, `ApplyUpgrade`,
`ApplyManifest`), live patches (`ClusterPatch`) and the undeploy are in the same module, since
a request may fall from one strategy to the next. `Restart` keeps the tree, which is on a
volume, and loses the requests.

### Detection

`Detection` is how incidents begin without an operator: `HandleKubeEvent` and `PollPods` of the
watcher, its health sweeps, the webhook of AlertManager with the correlation of alerts, and the
legacy path in which the investigator hands an anomaly to the brain, which counts its attempts
in a custom resource (`ReadAttempts` to `PatchAttempts`). A report is a process per source and
pod. A webhook binds its alerts per workload, to one dependency or to none (`Bindings`), and
without correlation each goes alone (`Singles`). Cooldowns and windows are counted down by `Tick`. `Owner` is the workload a poll finds by
owner references, `NameKey` the one an event's regular expression finds in the name, and the
instance has a pod for which the two differ.

### Commander

`Commander` is one operator's chat on one of three platforms. `prompt` holds the one open
prompt of each kind; `handler` is a message or a button that is being handled, and several are
at once. `Order` and `Resolves` say which prompt a text goes to on which platform, and
`RouteMessage` to `BindRunToCase` how a command becomes a run and a case. The commands are
those a parser can make of a text (`Classified`: deploys from the catalogue or a repository,
failed builds, rollbacks, deletions, reviews of an app, investigations), each with what it may
leave open; `ResolveWorkload` and `MayBeQuestioned` say when the operator is asked for it. The
session of a chat remembers its last run, so that "retry", "fix it" or a hint go on with it. An
investigation that the orchestrator deduplicates joins the run that is there (`Joined`): the case
follows that run, while the session is left alone on Telegram and Slack.
`notice` is an update of a run on its way to the case it belongs to (`OnRunUpdate`, `SyncCase`,
`ReadCase`, `WriteEvidence`). Which command a text becomes is any command of the setup.

### Rollout

`Rollout` is what becomes of a deploy after its plan. `deploy` is the orchestrator's side: the
wait for a build (`PollBuild`), the wait for the rollout (`WaitGot`), the recovery it may offer
(`Recover`, `DeclineRecovery`), and the watch that goes on when the run has ended (`WatchGot`,
`EndWatch`). Each of them polls the same verification, `check`, which goes through the workloads
of the release one after the other, the status before the pods (`ReadStatus`, `ReadPods`,
`EndCheck`). Meanwhile pods change (`PodChanges`), controllers write statuses late
(`StatusChanges`), builds end (`JobEnds`), calls fail and the orchestrator restarts. `history`
remembers which workloads were ever up or failing, so that a verdict (`told`) can be compared
with what happened rather than with what was read.

### DeploySource, Knowledge

`DeploySource` holds the pure rules about how a workload was deployed: what annotations, labels,
owners, the mirror and the registry say, how the sources are merged, what a fix on the resulting
surface lacks, and how a reply is parsed. Details are present or not; their values play no part,
but how they are given does: a reply gives some of them by the keyword the parser wants
(`repo`, `chart`, `branch`, ...), others bare, as the examples of the prompt do (`@develop`,
`main`, a path), of which the parser recognises a repository only, and it may hold a word that
names a method whatever it stands for (`Reply`, `Recognised`, `MethodWord`).

`Knowledge` is the table of playbooks, a partial function from a component and a signature to a
row. The runs of the module end with an outcome (`Endings`), are persisted at their end and again
by a continuation (`EndRun`, `EndAgain`), and teach (`TeachRun` to `UpsertVerifiedRunbook`), if
the search for a row to premerge with does not fail. Of a run, `cures` are the acts after which it
ended well and `failed` those that did not help; `graph.ts:177` teaches either. The search puts rows whose
signature contains the searched one first (`HybridSearch`, `Containing`), so that it may pass
over a row that is nearer. The worker reads a list and merges and
deletes pair by pair (`ListRunbooks`, `MergePair`, `DeleteMerged`), while runs teach;
`RestartPlatform` and `SeedRunbook` are a restart and the bootstrap that fills an empty table.
`RunRagTriageGate` is the other end: a run that is about a known failure takes its plan from the
row, without a diagnosis, if the row calls it verified. `EvaluateDeploySourceGate` and
`ReplyDeploySource` are the questions about deploy sources, whose registry is rows of the same
table. Whether two texts are near each other is a relation on signatures, symmetric and not
transitive.

### How they compose

`RunGraph`'s `ask` and `Resume` stand for one ask of `ApprovalStore` and its command to the
orchestrator; `RunAdmission`'s `hil` and `mail` stand for the same, seen from outside and with
duplicated delivery. A composition of `ApprovalStore` and `RunAdmission` over their shared
messages is in the plan.

## 3. What TLC checks

A passing run takes between a second and four minutes on two workers.

| run | instance | shows |
|---|---|---|
| `approval_asks` | incidents i1, i2 of run r1 (exchangeable) and i3 of the legacy path, one resource, 2 actions, 1 operator with a suggestion, TTL 1, clock to 2, 2 cycles, 2 asks (an ask of i3 may arrive twice) | `RunAsksAreOrderedOnce`, `OneDecisionPerCycle`, `CommandsFollowApproval`, `OneLivePendingPerRun`, `StoredActionWasShown`, `RunAskNeverLost`, `ImplementsLifecycle` |
| `graph_all` | every mode of incident, every autonomy mode, prod or not, agentic or not, stacks, source builds with and without approval, rollback settings, plans of each kind; 2 iterations, 1 read, 2 approvals, the resource ignored at most once, recursion limit 32 | `UnattendedActsAreCleared`, `EndedRunIsSettled`, and the action property `WaitingIsRespected` |
| `graph_stale` (violated) | two iterations of one setting | `ToolsMatchThePlan`, see section 4 |
| `admission_safety` | 2 requests about one resource (exchangeable), limit 1, 2 drains (exchangeable), scans that see one record; with PostgreSQL 2 asks, 2 continuations of a run at once, a crash, a cancellation, a day in the queue; with the file store writes of whole records, 2 cancellations, a crash that leaves locks | `StartedOnce`, and of PostgreSQL `RunningMeansWorking`, `CancelledIsNotRequeued` |
| `admission_queue` | 3 requests about 3 resources of one namespace, limit 1, one drain that lists one run, a sweep that reads two records, an ask, deaths, a day in the queue | the liveness properties `CapacityReachesQueue` (of runs that are listed), `DeadRunsAreSwept` (of runs the sweep reads) |
| `tools` | every action, mode and pipeline, executed twice, plans of which nothing is applied among them; POST timeout 3, an executor that gives up after 1 or 3, waits of 1, 2 and 3 ticks | `NonIdempotentSentOnce`, `SuccessIsWhole` (what is reported of a plan that is applied at all is in effect, what a resume skips was called), and the liveness property `ExecutionsEnd` |
| `codefix` | 2 calls of the tool, 2 attempts of a job, 2 requests, patches of one or two files, 1 poll before each deadline, a cancellation, a restart | `OpenedPatchIsIntact`, and the liveness property `WorkEnds` |
| `gitops` | 5 scenarios of up to 3 requests (a patch that may be empty, a registration, a revert; direct applications and an undeploy), 2 manifests, a developer, 2 polls of Argo CD, a restart | `ChangesLandAndStay`, and the liveness property `RequestsEnd` |
| `detection` | a workload of 2 pods with different keys, every timer 1 tick, 2 attempts, 3 alerts, 2 webhooks, a failing call, a reset, the webhook with and without correlation; 5 setups | `AttemptsBounded`, `AlertsAnswered`, and the liveness property `SickIsReported` |
| `chat` | 3 platforms, 2 workloads, 2 messages at a time of at most 3, 2 updates at a time, 2 runs; 10 setups | `OneAnswerPerPrompt`, `InvestigationsAreReal` |
| `rollout` | releases of 1 or 2 workloads, a StatefulSet among them, with no build, a job or a local build, pods that fail in one way per setup, up to 2 deploys, 2 failing calls, a restart; 8 setups | `VerdictsAreTrue`, and the liveness property `DeploysAreTold` |
| `knowledge` | 2 runs about alike failures among up to 3 seeds, a fault or a restart, with and without an LLM that merges; 1 or 2 workloads in up to 2 incidents, for each deploy method, whose operator's replies give any of the details by keyword or as the prompt's examples do, with and without words that name methods; 30 setups | `KnowledgeIsSound`, `AnswersEndAsking`, and the liveness property `SimilarAreMerged` |

The passing runs, but for `approval_asks` (whose `TypeOK` is proved),
`admission_queue` and `detection`, also check the type invariant of their module; `MCDetection_types.cfg` does it for `Detection`
(`DetectionTypes`).

**The bounds.** `approval_asks` has two cycles because every property is about one cycle or
about a cycle and the one that replaces it, a clock of two because TTL 1 then has a tick
before, at and after the expiry, and two incidents of a run because that is how
`findPendingByRunId` can matter. The same properties held with three asks when the run's and
the legacy incidents were checked apart. In `graph_all` the second iteration is where state of
the first one survives, and the second approval where state of the first continuation does;
the limit of 32 is the largest at which `RecursionError` still happens, so neither limit hides
the other. The real limits, 5 iterations and 60 supersteps, are those of `MCRunGraph_loop.cfg`,
under which `StepsSuffice` holds. In
`admission_queue` three requests let the queue hold two runs, of which a drain lists one
(`ListLimit`) and leaves one out, and three records are one more than the sweep reads
(`ScanLimit`): each limit bites, as 100 and 500 do in a large installation.
`admission_safety` has two drains because that is what overlap means; with the file store there
are many more interleavings, hence `Bounds` are given per store, and it goes without asks: its two
cancellations are what writes records back while a claim is under way.

In `tools` a second execution is what a retry or a resume is, and the ticks are chosen so that
each deadline can come before, with and after the one it races. In `codefix` two calls of two
attempts give two jobs that overlap, an orphan and its successor, and a patch of two files is
the least that can be written in part. In `gitops` a scenario per configuration keeps three
requests in one tree affordable; two manifests tell a conflict from a merge. In `detection`
timers of one tick already run out between any two steps, two pods of one workload share and
do not share keys, and an attempt limit of two has a value below, at and above it. In `chat` two
messages at a time can race for one prompt, and the third replaces it; each setup has the
commands of one story, and cases are those of the store in memory.

In `rollout` a deadline is a number of polls (`BuildPolls`, `WaitPolls`, `RestartPolls`,
`WatchPolls`): one poll before it is enough to come early, in time or late, and the watch has two
since only its second can contradict its first. A workload has one replica, whose old and new pod
are what a rolling update has at once; two workloads are what can be read at different times. In
`knowledge` the signatures are a chain of three, the least that is not transitive; the one
nearness stands for the thresholds 0.90, 0.92 and 0.95, an LLM that merges neither invents a fix
nor calls one verified, a pass that merges nothing is left out, and four replies (`AskLimit`)
are one more than the property allows.

**Deadlock** is checked for `RunGraph` (whose `Settled` action marks the states where a run may
rest) and switched off for the others, where every request may be over and every bound used
up.

**Fairness.** `ApprovalStore` claims no liveness: nobody has to approve. `RunGraph` is weakly fair
in the code's own progress (`Advance`), since every call has a timeout; it only serves to make its
behaviours complete. `RunAdmission` assumes that the event loop goes on with each handler and each
drain, that executions end (their calls have timeouts and the graph its recursion limit), and that
the timers of the drain (15 seconds) and of the sweep (every quarter of an hour) fire again and
again: `setInterval` in `throttled-queue.ts` and `index.ts`. Nothing is assumed of HIL, of humans
or of the operator: a run that awaits a human keeps its place for ever, and `CapacityReachesQueue`
only speaks of a namespace that has room. `ToolRuntime`, `CodeFix` and `GitOps` are weakly fair in
the agents' own steps (`Progress`): every POST, poll and wait has a timeout in the code, with one
exception, the git commands of the GitOps agent, which are assumed to return. Nothing is assumed
of approvals, cancellations, developers or restarts. `Detection` is fair in the clock, the pod
polls, which have a timer of their own, and the steps of a report, whose calls have timeouts; not
in events, sweeps, webhooks or the pods. `Commander` claims no liveness: nobody has to answer a
prompt. `Rollout` is fair in the orchestrator's loops together, whose polls have deadlines, a
recovery that nobody answers counting as declined; not in pods, controllers or builds, which may
stand still for ever. `Knowledge` is fair in the worker's loop, which sleeps and passes again
whatever happens, and in the bootstrap, which runs before the server serves; not in runs, replies
or the LLM.

**Mutants.** Every property of a passing run is paired with a plausible bug of the code, kept
as a definition beside the one it replaces (`Mutant: ...`): dropping `forceHil` from the gates,
routing a suspended run on to act, an off-by-one in the iteration cap, a claim that does not
look at the status, a reversed comparison in the prune, a POST of a commit that is retried, a
forced push, a cooldown that never runs out. With it TLC finds the property
violated.

## 4. Where the code and its documents disagree

The first of these is a registered run; for the others the property is in the module, and TLC
finds the violation the same way, with the configuration that is named or, where one of the passing
runs is, with its configuration and this property in the place of its own.

| property and configuration | what happens |
|---|---|
| `ToolsMatchThePlan`, run `graph_stale` | `policyNode` and `executeAction` use `stored.compiled` when there is one: after a failed restart, a patch proposed in the second iteration executes the restart again. |
| `ExamplesAreUnderstood`, instance of `knowledge` | The prompt for a deploy's source offers `@develop`, `main` and `deploy/helm/myapp` as answers (`deploy-provenance.ts:199`, `:202`), but the parser wants keywords, and its `\b@` (`deploy-source-parse.ts:61`) never matches after a blank: what was answered is asked for again. |
| `DirectSuccessApplied`, instance of `gitops` | With `REGISTRY_DRY_RUN` at its default, a plain manifest or overlay is only dry-run, nothing is applied after it, and the deployment is reported successful. |
| `OneApprovalPerAsk`, `MCApprovalStore_redelivery.cfg` | `mergeOrCreate` merges only into a PENDING entry. A request that was served, timed out at the sender, was decided, and is then sent again opens a fresh PENDING entry, and the same ask is approved and executed twice. |
| `SensitivePlansWaitForHuman`, `MCRunGraph_sensitive.cfg` | `preflightNode` announces that human approval will be required and sets `authorizeForceHil`; `authorizeNode` overwrites it with the security agent's verdict, and a prod restart runs unattended. |
| `RetriesAreAuthorized`, `MCRunGraph_retry.cfg` | In `resumeRunAfterApproval` the failure analyst's retry plan goes straight to `actNode`, without the security agent. |
| `CancelledStaysCancelled`, `MCRunAdmission_cancel.cfg` | Cancelling writes the record only; the graph that is running overwrites it at its end. |
| `OneActiveRunPerResource`, `MCRunAdmission_dedupe.cfg` | The duplicate check and the write are several awaits apart: two requests for one resource can both start. |
| `ClaimedOnce`, `MCRunAdmission_redis.cfg` | Two overlapping drains both pass the Redis claim and start one run twice. |
| `CancelledIsNotRequeuedAnywhere`, `MCRunAdmission_file.cfg` | The lock of the file store's claim excludes claims only (`file-run-store.ts:129`); a claim, or a write that adds to a record (`:82`), puts the 'running' it has read or decided on over the 'cancelled' an operator wrote meanwhile, and the run starts or goes on without an approval. |
| `StartsWhenThereIsRoom`, `MCRunAdmission_starved.cfg` | Whoever is queued is told that the run "will start automatically when capacity is available" (`index.ts:139`); a drain lists the oldest 100 queued runs only (`throttled-queue.ts:61`), and as many of a namespace that stays full keep those of another namespace off the list for ever. |
| `SuccessAlwaysApplied`, instance of `tools` | The pipeline of a plan whose manifest was only run dry, or whose patch is empty, succeeds. |
| `PatchSuccessApplied`, instance of `gitops` | A `git_patch` whose patch is empty passes by the mirror and the cluster (`remediator.ts:269`) and is reported applied (`:364-389`). |
| `RegistrationsAddOnly`, instance of `gitops` | A chart is registered by a patch whose one operation is an `add` at the path '' (`remediator.ts:215`): it replaces the file, and what a developer or an earlier patch put into it is gone from main. |
| `OneApprovalPerTool` of `ToolRuntime` | A run resumed after the approval of a tool pauses again before the same tool (`docs/ARCHITECTURE.md:430` promises one approval). |
| `CancelledJobOpensNoPr`, `MCCodeFix_cancel.cfg` | A job cancelled between two steps of an attempt may go on to open its pull request and end as 'succeeded' (`docs/CI-CODE-REMEDIATION-ROADMAP.md:125`). |
| `GitopsModeSparesCluster` of `GitOps` | A patch in the mode gitops goes to the live workload when no repository is configured (`README.md:100`, `remediator.ts:321`). |
| `SuspendedRunsAreAsked`, `MCRunGraph_ignored.cfg` | HIL drops an ask about an ignored resource whoever triggered the run (`hil/src/index.ts:119`), although `isRunRequestIgnored` of `tools.ts` exempts what an operator asked for: the run awaits a human and nobody is asked, until it is reconciled as stale. |
| `ReadyIsThisRevision`, instance of `rollout` | `verify.ts` does not compare `observedGeneration`, and reads an `updatedReplicas` that is missing as `ready`: right after a rollout begins, the pods of the old revision make the new one ready. |
| `TaughtFixIsTheOneThatWorked`, instance of `knowledge` | `lastFailedPlan ?? pendingPlan` (`graph.ts:177`): after a failure and a success the plan that failed is taught as the verified fix, and a later run may execute it without a diagnosis. |
| `SavedSourceIsFound`, instance of `knowledge` | The key of a registry entry is rewritten by `parameterize_playbook_markdown` like any workload's name, so that the lookup never finds it, and the operator is asked in every incident. |
| `AnswerKeepsMethod`, instance of `knowledge` | An answer that names only the repository turns an Argo CD, operator or kustomize deployment into helm (`deploy-source-parse.ts:100`), and other fields are missing then. |

Further divergences met while modelling, each a reachable behaviour of the modules, which no
run states as a property:

  - the edge from authorize to policy is unconditional, so a denied plan is not escalated, as
    the flow chart of `docs/ARCHITECTURE.md` has it, but sent to HIL (`PolicyGated` overwrites
    the status);
  - a recovery restart that `post-deploy-recovery.ts` wants confirmed loses its `forceHil` in
    the same way as above;
  - the hot-fix the graph's `actNode` announces ("Approve the next prompt") may be dropped by
    `verifyNode` before it is asked for;
  - `resumeAfterSourceBuildApproval` ends with `verifyNode` and can leave the record 'running'
    with an announced restart never tried; this is why `EndedRunIsSettled` leaves the flow
    "build" out;
  - after asking the user whether to create the namespace, `routeAfterSanitize` goes on to
    plan and to post an approval;
  - an agentic run with the default limits can meet the recursion limit before its iterations
    are used up;
  - counting the namespace's runs and starting one more are several awaits apart, so the limit
    can be exceeded; queued runs are not compared with active runs when they start;
  - a request can be skipped in favour of a run that ended while it was looked at; a run whose
    approval was just given can be cancelled as an orphan; a run that waited in the queue for
    over a day can be swept while it works;
  - a resume command that is delivered twice starts two continuations of one run;
  - a crash of the file store between taking and removing the lock of a claim leaves the run
    queued for good, since nobody else removes the lock; a dead run behind 500 records that were
    written later is not swept, and its namespace's place not freed; the Redis store lists queued
    runs among the 500 index entries that were written longest ago;
  - the cancellation by "ignore" is overwritten by the status the graph writes at its end; a
    rejection is only told to the brain, and the record of the run keeps awaiting its human;
  - the outcome "succeeded" of `applyAgentReflect` cannot be reached: the brain returns it
    only after a healthy verification, after which nobody reflects.

Of the tool runtime and the executor:

  - the executor waits for a rollout as long as its caller waits for the executor, so a slow
    restart is sent again; the deadline of the runtime's own wait is computed once, from the
    phase 'unknown', so that the allowance for pulling an image only helps image patches;
  - a verification poll that throws escapes `executeCompiledPlan`, and the results are lost;
  - a handler that catches its errors is never tried again, whatever its `maxRetries`;
  - a failing LLM in `planCapability` becomes a plan to do nothing.

Of the CI repair:

  - the verdict of an earlier commit of the head branch can be taken for the new one's
    (`ci-verify-poll.ts:36` does not compare head commits);
  - a patch of several files is several commits, and a failure in the middle leaves the branch
    partial, so that later attempts meet conflicts; an issue that is opened instead is reported
    as a pull request, and its CI is watched on a branch that has none;
  - a lost answer of `/run-fix` orphans a job and a second one writes the same branch; jobs and
    watches are lost at a restart; 'cancelled' is overwritten by 'succeeded' or 'failed'.

Of the GitOps agent:

  - nothing locks the working tree: requests about one manifest lose updates; "nothing to
    commit" is no error, and the commit reported is another's;
  - a push that fails, or a revert that is interrupted or refused, leaves a commit that the next
    request pushes; a dirty tree after a crash makes every later pull fail; a conflicted rebase
    wedges the tree for good, and a revert with force-with-lease then replaces a developer's
    commit; the fallback `reset --hard` of a revert drops later commits;
  - with pull requests, concurrent requests switch the branch under each other, and an error
    leaves the tree on the branch of a pull request;
  - an undeploy takes a failing query for "absent"; without a repository a change is reported
    applied though nothing was pushed.

Of the detection:

  - `postWithRetry` never throws: the webhook counts dead letters as started runs, the sweep
    marks them as reported, and the catches around both are dead code;
  - a healthy pod of a workload clears the cooldown of its failing sibling at every poll, so that
    a half-failing workload is reported every 30 seconds (`docs/ARCHITECTURE.md:100`); of two
    failing siblings the one polled second may never be reported;
  - events and polls know one pod by two keys (`docs/DEVOPS-AGENT-PHASES.md:88` says one); the
    path of evicted pods and the sweeps skip the ignore list (`README.md:82`);
  - the breaker counts per pod name, a read that fails counts as zero, concurrent increments and
    refused creations are lost; two overlapping webhooks can start two runs for one key, and an
    alert whose key has an open window is put into its cooldown though the run that is there does
    not include it.

Of the commander:

  - on the web and on Telegram the text "cancel" goes to `tryPendingRunFollowUp` before any
    prompt, so it never cancels one, although the prompts offer it (`delete-choice.ts:54`), and
    the next number still deletes; it cancels every run that awaits a human, and the session's
    last run whatever its status;
  - buttons and numbers name no prompt, so an answer to an older prompt is taken for the newest;
    the selected deletion is resolved again and may find another workload;
  - a deploy ignores `deduplicated` and binds its case to an incident that has no run; the
    follow-up of a deploy's source only meets its own run that still waits, so it is
    deduplicated although the reply says that it is retried; on Telegram that prompt is kept
    for a user who never writes;
  - a clarification takes the first word of whatever is said next for the workload's name; the
    one field `pendingClarification` also holds the prompt for a deploy's source, and each
    overwrites the other; Telegram and Slack arm clarifications that nobody reads there;
  - `markWebRunWaiting` is called without a mode and so clears `lastMode`, and in a web chat
    "retry" and "did it pass" find no CI run to go on with (`session-followups.ts:195`) until an
    update of that run arrives; elsewhere
    "retry" may be taken first by a case that waits for a hint; "fix it" goes to the app reviewed
    last, however long ago (`session-followups.ts:69`);
  - the reset of a web chat keeps its prompts, its draft and its last review; a rollback, a failed
    build and the fix of an app ignore `deduplicated`, too; a card says "Approved" before HIL has
    answered;
  - a deletion without a namespace takes the first workload of exactly that name in any namespace
    (`delete-choice.ts:72`), and a single workload that merely contains the name is deleted
    without a question; an investigation of a name nothing has may go on with some workload of the
    namespace that is not ready;
  - with the store in memory, a late write to an older case makes the subject lead to it again;
  - `persistCaseEvidenceFromRun` writes back the status it read, which can undo a 'resolved';
    a fresh case takes the terminal update of any run; cases of Telegram and Slack follow no run;
  - a draft survives a cancelled deploy (`clearDeployDraft` is never called), so that a later
    "yes, create the namespace" deploys it after all.

Of the rollouts:

  - a Deployment named exactly like the release stands for all of it; in an aggregate, `updated`
    is not counted, and workloads that cannot be read or have no pods do not matter;
  - a failing pod of the old revision fails the new deploy; one pod that starts or warms up hides
    another in CrashLoopBackOff; ErrImagePull ends the wait and the watch, though
    `rollout-status.ts` calls it transient and its test waits;
  - one failing call of `/verify` ends a watch with a failure; a deploy that starts while another's
    watch runs or sends its last message is not told of, and a restart loses all watches;
  - an approval announces the image tag `latest` while the build takes the git ref; a build whose
    wait timed out goes on and may overwrite the tag later; a refused build answers 422 and
    throws, so the branch for `build.success === false` is dead.

Of what is learned:

  - `proven_count` starts at 1 for seeds, which nothing has proven, counts every repeated teaching
    of one run, and is the maximum plus one after a merge (`migrations/002` says successes);
  - a CI fix is taught when its pull request opens and is never unlearned when the CI then fails
    (`docs/CI-CODE-REMEDIATION-ROADMAP.md:159`, `persist-outcome.ts:65`);
  - the worker's list is read once: a second merge into a row starts from its old text and drops
    the first one's steps, and what a run teaches meanwhile is overwritten; merges and premerges
    mix the registry's entries with playbooks;
  - a bootstrap that was interrupted is never completed, as the table is not empty then;
  - a learned playbook has a section "Verify" where the readers look for "Verification"; seeds have
    no primary fix; `persistUserDeploySource` has no caller; the reducer of `actionHistory` appends
    histories that already contain the earlier acts.

## 5. What is proved

| module, obligations | theorem | property |
|---|---|---|
| `ApprovalStoreProofs`, about 1480 | `TypeCorrect` | `Spec => []TypeOK` |
| | `FirstDecisionWins` | `Spec => []OneDecisionPerCycle` |
| | `OnlyApprovedAsksAreExecuted` | `Spec => []CommandsFollowApproval` |
| | `RunAsksAreExecutedOnce` | `Spec => []RunAsksAreOrderedOnce` |
| | `RunsHaveOneLiveAsk` | `Spec => []OneLivePendingPerRun` |
| | `OperatorsSawWhatIsStored` | `Spec => []StoredActionWasShown` |
| | `RunsAskUntilAnswered` | `Spec => RunAskNeverLost` (an action property) |
| | `AgentImplementsLifecycle` | `Spec => ImplementsLifecycle` (a refinement) |
| `RunAdmissionProofs`, about 1470 | `TypeCorrect` | `Spec => []TypeOK` |
| | `RunsStartOnce` | `Spec => []StartedOnce` |
| | `CancelledRunsAreNotRequeued` | `Spec => CancelledIsNotRequeued` (an action property) |
| | `RunningRunsWork` | `Spec => []RunningMeansWorking` |
| `RunGraphProofs`, about 2430 | `TypesAreKept` | `Spec => []TypeOK` |
| | `UnattendedActsStayCleared` | `Spec => []UnattendedActsAreCleared` |
| | `EndedRunsAreSettled` | `Spec => []EndedRunIsSettled` |
| | `RunsWaitForWhatWasAsked` | `Spec => WaitingIsRespected` (an action property) |
| `ToolRuntimeProofs`, about 630 | `TypesAreKept` | `Spec => []TypeOK` |
| | `NothingIsSentTwice` | `Spec => []NonIdempotentSentOnce` |
| | `SuccessesAreWhole` | `Spec => []SuccessIsWhole` |
| `RolloutProofs`, about 890 | `TypesAreKept` | `Spec => []TypeOK` |
| | `VerdictsAreOfWhatHappened` | `Spec => []VerdictsAreTrue` |
| `RepairProofs`, about 3480 | `TypesAreKept` | `Spec => []TypeOK` of `CodeFix` |
| | `PatchesStayIntact` | `Spec => []OpenedPatchIsIntact` of `CodeFix` |
| | `OpenedStaysOpen` | a request that opened the pull request is not made again |
| | `KnowledgeKeepsTypes` | `KnowledgeSpec => []KnowledgeTypes` |
| | `KnowledgeStaysSound` | `KnowledgeSpec => []KnowledgeIsSound` |
| | `KnowledgeAsksEnd` | `KnowledgeSpec => []AnswersEndAsking` |
| `CommanderProofs`, about 2400 | `TypesAreKept` | `Spec => []TypeOK` |
| | `PromptsAreAnsweredOnce` | `Spec => []OneAnswerPerPrompt` |
| | `InvestigationsHaveRuns` | `Spec => []InvestigationsAreReal` |
| `AgentProofs`, about 3580 | `GitOpsTypes` | `Spec => []TypeOK` of `GitOps` |
| | `ReportedChangesLandAndStay` | `Spec => ChangesLandAndStay` of `GitOps` (an action property) |
| | `AsksAreBounded` | `DetectionSpec => []AttemptsBounded` |
| | `AcceptedAlertsAreAnswered` | `DetectionSpec => []AlertsAnswered` |

They hold for all sets of incidents, runs, resources, actions, operators, requests, namespaces,
drains, plans, settings, files, patches, manifests, pods, workloads, releases, alerts, webhooks,
messages, updates, keys and signatures with whatever likeness between them, for every deadline and
limit, and for every number of cycles, ticks, crashes, cancellations, asks and executions.

**Assumptions**: only those the modules state of their constants.
  - `ConstantsAssumption` of `ApprovalStore`: the constants have their types, and TTL is
    positive; `EntryAssumption`: `NoEntry`, what the Map returns for an absent key, is no entry.
  - `AdmissionAssumption` of `RunAdmission`: a request is about a resource in a namespace,
    `NoRun` is no request, the limits are natural numbers, those of the lists positive, and the
    stores are among the three there are; `BoundsAssumption`: each store has bounds.
  - `RunGraphAssumption`: requests and plans are among those `AutonomyPolicy` knows, the limits
    are natural numbers with at least one iteration, and only a diagnosis is agentic. The last
    one is the code's (`agent-graph-nodes.ts:40` and `graph.ts:778` ask for the mode `diagnose`), and
    the proof found that it is needed: in the continuation of a build, the planning of an agentic
    run would leave a compiled pipeline that the gates of that continuation never saw.
  - `RuntimeAssumption`, `RolloutAssumption`, `CommanderAssumption` and `CodeFixAssumption`:
    deadlines and bounds are positive, a setup is a record of what it says, and a patch is a set of
    files that is not empty.
  - `GitOpsAssumption`: the developer is not one of the requests, and no request is named like the
    main branch or the state of a detached head, since a pull request's branch is named after its
    request (`repo-mirror.ts:182`: `sre-bot/` and the incident).
  - `DetectionAssumption`: a pod has an owner and a name key, the attempt limit and the timers are
    positive, the numbers of failing calls and resets are natural numbers.
  - `KnowledgeAssumption`: a key is a pair of strings, being alike is symmetric and of two different
    signatures, at least one reply per incident is allowed, and seeds, keys, modes, facts and bounds
    of a setup have their types.

**Approvals.** `OneDecisionPerCycle` is not inductive: a PENDING entry whose cycle was
already decided would be decided again. The strengthening says that (1) a stored entry's cycle
was opened, that is, its number is below `nextCycle`; (2) two incidents never hold entries of
one cycle; (3) the cycle of a PENDING entry has no verdict yet; (4) a cycle not yet opened has
none either. `Refresh` keeps the cycle, so (2) and (3) survive a merge; `Create` takes a new
one, so (4) gives (3); every decision needs PENDING and ends it. `Confirm` is the step that
makes (3) worth stating: it writes any entry, but only to DONE or FAILED, never back to
PENDING. `OnlyApprovedAsksAreExecuted` adds that a command's cycle has exactly the verdict
APPROVED, which later steps cannot change because the count is already 1 and no PENDING entry
has that cycle. Each action is a case of the inductive step, one lemma per invariant.

The second half of `ApprovalStoreProofs` adds `AskInv` to that invariant. A merge may file the content of one
incident's ask under another, so "the ask of a run" is meant by `origin`: `RunsKept` says that an
entry's origin belongs to the same run as its key, and only with it does "no second live entry"
(`OneLiveEntry`) survive a merge, because `findPendingByRunId` looks by run. The third part is
that what gitops confirms was asked by no run (`ConfirmedAsksAreLegacy`): without it, `Confirm`
could end a live ask of a run and `RunAskNeverLost` would fail.

`RunAsksAreOrderedOnce` is the half of `OneApprovalPerAsk` that holds. A cycle is decided once, but an
ask may have several cycles when it is posted again, so cycles do not help: `OrderInv` counts asks
instead. Numbers not yet given out are stored nowhere (`AsksAreNumbered`), what the brain may post
again is never stored for a run or ordered from the orchestrator (`OnlyLegacyIsRetried`), and an ask
of a run is stored in one place, with no order for it while it is pending (`RunAsksAreSingle`). A
request then either has a new number or is a legacy one, and a decision orders an ask that nothing
else holds.

The refinement maps a cycle to
the phase its entry and its verdict give it. An entry that lapses while another cycle is opened
for its key makes two changes of the abstract state in one step of the agent; the abstract
specification lets any number of cycles lapse with a step, as a restart does, and the proof goes
through one lemma per action, each with its own abstract step or a stutter.

**Runs.** That a run was started at most once says nothing of who may start it next, so
`StartedOnce` is proved from `Ownership`, for the stores whose claims exclude each other, PostgreSQL
and the file store: (1) a handler that has neither stored nor started its run is the only one who
knows it, so the run has no record and no start (`HandlersOwnTheirRun`); (2) a queued run comes from
a handler that is done with it and was never started (`QueuedIsUnstarted`); (3) whoever is reading or
writing a claim holds the lock of the run, and nobody else does (`LockIsExclusive`); (4) a run that
a drain is claiming, or has claimed and not yet started, was never started, and one that is claimed
is no longer queued and claimed by that drain alone (`ClaimIsExclusive`); (5) whoever else writes
statuses (executions, what they add late, judges of duplicates, sweeps, resumes) knows only stored
runs, and no execution writes back a status from before its start (`OthersKnowStoredRuns`). (5) is
what protects (1) and (2): a judge cannot cancel a run that its own handler has yet to write, and no
record that is written back makes a run queued again. In the file store the status is worth nothing
during a claim, since others write over it without the lock; (3) is what makes the second drain
wait, and it needs that a restart which forgets the holder keeps the lock. Exactly this fails for
Redis, where a drain between its read and its write relies on a status it no longer checks
(`MCRunAdmission_redis.cfg`).

`CancelledRunsAreNotRequeued` and `RunningRunsWork` are about PostgreSQL, which reads no status that
it writes back later (`PostgresIsAtomic`): nobody is between the read and the write of a claim or of
an addition. Of the actions that write 'running', a handler's start then writes a run without a
record, a claim one that is queued, and what is left is the arrival of a resume command, which uses
the command up. `RunningMeansWorking` is inductive with this: each step that writes 'running' adds
an execution or leaves a drain about to start it, and each that removes an execution writes the
status or, when it cannot, is recorded as a death. The other stores promise neither
(`MCRunAdmission_file.cfg`).

**The graph.** `UnattendedActsAreCleared` has two halves, and `GraphInv` an argument for each.
What acts was cleared: `GatesWereAsked` says what each node before `actNode` already knows (at
`policy` that `forceHil` is the security agent's verdict on this very plan, at `act` that both
gates let it pass), and `StackIsItsPlan` that a stack's pipeline is compiled from its summary
plan, so that nothing else slips through with it. It acts no more often than allowed:
`ActsArePaidFor` has a ledger, `Allowance`, in which every way round to `actNode` is paid for by an
iteration, the one failure analysis, the one recovery or the runbook match; `RoundsLeft` says the
iteration is still there when a round begins. A source build makes the first exception to
everything, so `BuildComesFirst` says that nothing was compiled or executed before it. The other
parts say which nodes a driver runs and with which status (`DriversKnowTheirNodes`,
`GraphStatus`), and that a record waits before the end of its invocation only for a Git revert
that was asked for (`RecordWaitsForTheRevert`), from which `WaitingIsRespected` follows step by
step. `EndedRunIsSettled` is inductive with these.

**Tools.** The pipelines have one thing in common, proved first: exactly one call acts, at
`CoreIndex`, at most one inspection comes before it, and the rest only verifies or notifies.
`SentInOrder` says that nothing is sent for a call ahead of the index, nor before the first attempt
of the current one, and the retry limit of what is not idempotent is one; so a second POST would
need a second attempt. `VerdictIsOfTheAct` says that the verdict still stands past the acting call
only if that call took effect or was about what the agent applies nothing of, and `ResumesFromTheAct` that a run is only ever stored to resume
at `CoreIndex`: `resumeFrom` is written when a tool is paused, and only the acting one can be.

**Rollouts.** A verification adds up `ready` and `desired` over workloads it reads at different
times. `CheckIsSeen` is what makes the sum mean something: `ready` never exceeds `desired`, and
if they are equal, each workload passed so far was up at some time or could not be read. The
inductive step needs that no single workload contributes more ready pods than desired ones, from
which it follows that one that was never up leaves the sum short for good. `PodsWereSeen` connects
statuses that lag behind with `history`; `BuiltBefore` is the order of build and apply.

**Pull requests.** `OpenedPatchIsIntact` speaks of requests that are through; `PatchesAreKept`
says of each request under way, too, that what it has written of its patch is still on the head
branch. It is inductive because a file is only written over the base's: the second request that
comes to a file another has written fails there, although what it wrote before stays on the
branch. `RequestsAreFresh` numbers the requests: none was made of a call that has not begun, or of
an attempt its job has not come to, although a restart forgets the jobs. With it no step makes a
request twice, and `OpenedStaysOpen` follows: the pull request is opened by one request for good.
The proof goes through what a step does to the requests (`RequestsMove`) and to calls and jobs
(`JobsMove`), so that each invariant has a case for each of these and not for each action.

**Chats.** `CommanderInv` is stated per record (`RunOK`, `CaseOK`, `HandlerOK`, `NoticeOK`,
`PromptOK`), as predicates of the runs and the cases, so that a step only has to show the records
it writes, and that runs and cases grow (`RunsGrow`, `CasesGrow`: a run keeps its target, an
ended run stays ended, a case keeps its subject and its incident). `OneAnswerPerPrompt` needs
that the open prompts have different numbers, none of them answered yet. `TypeOK`, which bounds
the numbers of prompts, needs `MessagesPay`: every prompt is owed to a message, and every handler
that is busy may open one more. `InvestigationsAreReal` needs the history of a case: evidence of
another run may be written to a case that is new, but the incident it then names is a run that
is over; and the status a notice writes back was read when the case named an incident or was
new. The proof found a step that the model had too liberally: the question for a deploy's source
was asked of any run, and an answer to one for a CI run would have opened a workload's case for a
repository; the code asks it of diagnoses only (`deploy-source-gate.ts:55`), and so does
`SourceRequired` now.

**Commits.** The agent's requests share one tree, so what a request wrote says nothing of what will
be committed. `ChangesInv` follows the change of a request that nobody disturbs from place to place:
nowhere while it is computed (`Untouched`), then in the files (`InFile`), in the index (`InIndex`), on
the checked-out branch (`OnBranch`) and at last on the remote (`Landed`), and says at each place that
no commit anywhere deletes it, which a commit would do if the index lacked what the branch has. It
needs `RequestsInv`: what a request has read is of its own manifest (`OnItsWay`), two requests that
are served at once have met (`Acquainted`), so that whoever writes in between disturbs, and without
pull requests the tree leaves main only into a conflicted rebase, after which nothing is pushed any
more (`ConflictsStay`). That a landed change stays is `GrowthInv`: in quiet times the index has all
that the branch has and the files have all that the index has, so that a commit only adds. The
algebra of it comes first: what the content of a history is after a commit, that a rebase replays
exactly the commits that are missing upstream (`Missing`), and that a branch that may be pushed holds
what the remote does. A registration takes whatever is in its manifest, so that all of this is said
of the changes whose manifest none takes (`Lasting`). What has nothing to apply is excepted
(`OnlyReported`). The steps of the mirror are then three kinds of fact, one lemma each: what it
does to requests (`Does`), to other requests' changes (`OthersKeep`) and to its own (`OwnChange`).

**Attempts.** The brain reads the attempts of a pod, diagnoses, reads again, writes, and only then
asks. `BreakerInv` bounds `asked` by the count of the resource and by the limit (`ResourceCounts`). A
report that met no other about its pod is alone in the brain (`MeetsNobody`), what a report has read
covers what was asked so far (`ReadCoversAsked`), and one that met neither company nor a fault has
room for its ask when it comes to it (`LeavesRoom`). `AlertsAnswered` needs
`AlertsKept`: each alert that a webhook took into its cooldown is in one of the groups it has yet to
post, in one it has posted, or in one that it passed over for a recent incident of its key.

**What is learned.** A run takes its plan from the table only if a row calls it verified, so
`KnowledgeIsSound` needs a reason for each such row. `BackedInv` gives it to a text wherever it is (in
the table, in the list a pass works on, on its way to the table, in a run that was taught): a run of
the same component ended well, had tried this fix (`Tried`), and taught it under a signature from
which merges lead to the row's (`Leads`). It may be the fix that failed before another one helped,
which the code teaches as well; that it is always the one that helped does not hold
(`TaughtFixIsTheOneThatWorked`). Merging keeps this because a merged text has the fix of one of the two, and the
two are near each other. `Leads` is defined by the sets that nearness does not leave (`Closed`); that
the complement of such a set is one, too, makes it symmetric. `FiledNear` says that premerging has
moved what is sent only along it, and `TeachesOnce` that a plan is taught as it was when its run
ended. That nothing taught is lost is `KeptInv`: the rows of the list that the pass has not deleted
are still in the table, so that the partner of the one it deletes is there, and the key that led to
the deleted row leads to its partner.

**Deploy sources.** A reply may name another method than the one known, by what it gives or by a
word in it, and other fields are missing then. `AsksEnd` says how far this can go for an operator
whose every reply gives all that is asked for in words the parser recognises. There are three kinds
of question, about an operator's resource, a chart, and manifests, and what is known settles some of
them (`OperatorSettled`, `HelmSettled`, `PlainSettled`). Details are never lost, so nothing unsettles
one (`SettledGrows`); whatever is asked is not settled, and a full answer settles it
(`AnswerSettlesMore`), whatever method it makes of the source: so the number of questions is at most
the number of kinds that are settled. It rests on what a merge of provenances is, field by field: of
each field the last part that knows it counts, and details are never lost (`MergeOfTwo`). Without
the words the parser recognises the asking goes on (`ExamplesAreUnderstood`).

**Only model-checked**: the types of `Detection`, since a poll folds over the pods and what a fold
keeps is an induction; and all liveness
(`CapacityReachesQueue`, `DeadRunsAreSwept`, `ExecutionsEnd`, `WorkEnds`, `RequestsEnd`,
`SickIsReported`, `DeploysAreTold`, `SimilarAreMerged`), which the proof system does not treat
together with fairness and ENABLED.

## 6. What is not modelled, and why

Texts, prompts, notifications, dashboards, transcripts and metrics: no property is about them.
The chat parsers and the LLM: any answer may come. Kubernetes, Git, GitHub and Argo CD: their
answers are inputs. What the investigator gathers for a diagnosis is cluster I/O with timeouts,
of which only the kinds of finding remain. Of the commander, the transcript and the case store in
Redis (the one a deployment with `REDIS_URL` has, whose reads and writes of whole cases can also
undo each other, `case-manager.ts:55`) are left out, and the flag `waitingForRun` of a session; of the watcher, the
reconnection of its stream (an event that is lost is one that does not come); of the GitOps
agent, what a patch or a chart contains; of the RAG platform, the free query and the routing of
messages, which change nothing. `PROJECT.json` lists every part with its
status and the reason.

## 7. Plan

Next, in this order:

 1. A composition of `ApprovalStore` with `RunAdmission`: an approval, its delivery, and the
    continuation it starts, from one end to the other.
 2. Of `RunGraph` and `ToolRuntime` together: a run that pauses at a tool and is resumed by
    the graph's continuation.

New runs join passing properties over several instances where they can, and take the place of
runs that only document a divergence.
