------------------------------- MODULE Rollout --------------------------------
(***************************************************************************)
(* What becomes of a deploy after its plan: the image built from source    *)
(* (investigator/src/source-build-runner.ts), the wait for the rollout     *)
(* (shared/src/workload-readiness-wait.ts), the watch that goes on when    *)
(* the run has ended (deploy-readiness-watch.ts), and the verification     *)
(* that both poll (investigator/src/verify.ts, rollout-observe.ts,         *)
(* shared/src/rollout-phase.ts, rollout-status.ts).                        *)
(*                                                                         *)
(* A release is a list of workloads, whose statuses and pods are read one  *)
(* after the other while Kubernetes changes them.  A workload has one      *)
(* replica: a pod of its present revision and, during a rollout, one of    *)
(* the revision before it.                                                 *)
(***************************************************************************)
EXTENDS Integers, Sequences, FiniteSets, SequencesExt

CONSTANTS
    Deploys,    \* runs that deploy the release from one chat, in the order they start
    Workloads,
    Setups,     \* the release (and whether its first workload is a Deployment of its name),
                \* what is a StatefulSet, the build, how pods fail, and bounds: deploys,
                \* failing calls and restarts of the orchestrator
    BuildPolls, \* polls before SOURCE_BUILD_TIMEOUT_MS,
    WaitPolls,  \* REMEDIATION_ROLLOUT_TIMEOUT_MS,
    RestartPolls, \* REMEDIATION_RESTART_TIMEOUT_MS
    WatchPolls  \* and DEPLOY_READY_TIMEOUT_MS is over

\* Where the image is built: nowhere, by a Job or an OpenShift build, by pack at the investigator.
Strategies == {"none", "job", "local"}
PodStates == {"none", "starting", "errpull", "backoff", "warming", "crash", "ready"}
Failing == {"errpull", "backoff", "crash"}

ASSUME RolloutAssumption ==
    /\ {BuildPolls, WaitPolls, RestartPolls, WatchPolls} \subseteq Nat \ {0}
    /\ Deploys \subseteq Nat
    /\ \A s \in Setups :
          /\ s.release \in Seq(Workloads) /\ s.release # <<>>
          /\ s.stateful \subseteq Workloads
          /\ s.strategy \in Strategies /\ s.pods \subseteq PodStates
          /\ {s.deploys, s.calls, s.restarts} \subseteq Nat /\ s.exact \in BOOLEAN

VARIABLES
    setup,
    pods,    \* per workload, its pods of the present and of the last revision
    status,  \* per workload, the counts its controller last wrote
    job,     \* per deploy, its build
    deploy,  \* the runs, their waits and watches
    check,   \* per deploy, the verification under way
    told,    \* per deploy, its last message and what that was based on
    faults,  \* failing calls and restarts so far
    history  \* the workloads that had a ready pod, and those that had a failing one

vars == <<setup, pods, status, job, deploy, check, told, faults, history>>
cluster == <<pods, status, history>>

-----------------------------------------------------------------------------
NoCounts == [replicas |-> 0, ready |-> 0, updated |-> 0]

NoCheck == [at |-> "off", i |-> 1, counts |-> NoCounts, ready |-> 0, desired |-> 0,
            failed |-> FALSE, rolling |-> FALSE, text |-> "none", healthy |-> FALSE,
            phase |-> "unknown", missed |-> {}]

NoDeploy == [at |-> "idle", polls |-> 0, recovered |-> FALSE, recorded |-> FALSE]
NotTold == [verdict |-> "none", why |-> "none", missed |-> {}]

Init ==
    /\ setup \in Setups
    /\ pods = [w \in Workloads |-> [old |-> "none", new |-> "none"]]
    /\ status = [w \in Workloads |-> NoCounts]
    /\ job = [d \in Deploys |-> "none"]
    /\ deploy = [d \in Deploys |-> NoDeploy]
    /\ check = [d \in Deploys |-> NoCheck]
    /\ told = [d \in Deploys |-> NotTold]
    /\ faults = [calls |-> 0, restarts |-> 0]
    /\ history = [up |-> {}, failing |-> {}]

Fault == faults.calls < setup.calls /\ faults' = [faults EXCEPT !.calls = @ + 1]
NoFault == UNCHANGED faults

-----------------------------------------------------------------------------
(* Kubernetes *)

\* The counts of a status, which the API omits where they are zero.
CountsOf(p) ==
    [replicas |-> Cardinality({r \in {"old", "new"} : p[r] # "none"}),
     ready |-> Cardinality({r \in {"old", "new"} : p[r] = "ready"}),
     updated |-> IF p.new = "none" THEN 0 ELSE 1]

\* A new revision: the pod of the last one is kept until its successor is ready.
Revised(p) == [old |-> IF p.new = "none" THEN p.old ELSE p.new, new |-> "none"]

\* A pod that has its image does not fail to pull it.
Pulling == {"starting", "errpull", "backoff"}
Became(s) == setup.pods \ IF s \in Pulling THEN {s} ELSE {s} \cup Pulling

\* What may become of a workload's pods: one is created (or is not, for lack of quota), it
\* changes, its predecessor goes.
Successors(p) ==
    {[p EXCEPT !.new = s] : s \in IF p.new = "none" THEN {"starting"} ELSE Became(p.new)}
    \cup {q \in {[p EXCEPT !.old = "none"]} : p.old # "none" /\ p.new = "ready"}

Deployed(d) == deploy[d].at \notin {"idle", "build", "apply", "unbuilt"}

PodChanges(w) ==
    /\ \E d \in Deploys : Deployed(d) /\ deploy[d].at \in {"wait", "recover", "watch"}
    /\ \E p \in Successors(pods[w]) :
          /\ pods' = [pods EXCEPT ![w] = p]
          /\ history' = [up |-> IF p.new = "ready" THEN history.up \cup {w} ELSE history.up,
                         failing |-> IF p.new \in Failing THEN history.failing \cup {w}
                                                           ELSE history.failing]
    /\ UNCHANGED <<setup, status, job, deploy, check, told, faults>>

\* The controller writes the status some time after the pods change.
StatusChanges(w) ==
    /\ \E d \in Deploys : deploy[d].at \in {"wait", "recover", "watch"}
    /\ status[w] # CountsOf(pods[w])
    /\ status' = [status EXCEPT ![w] = CountsOf(pods[w])]
    /\ UNCHANGED <<setup, pods, history, job, deploy, check, told, faults>>

-----------------------------------------------------------------------------
(* What a verification makes of a workload *)

\* isTerminalWorkloadFailure: the first failed pull is not one.
IsTerminalWorkloadFailure(text) == text \in {"backoff", "crash"}

IsTransientImagePull(text) == text = "errpull"

\* classifyRolloutDetail of a container's state.
ClassifyRolloutDetail(pod) ==
    CASE pod \in {"backoff", "crash"} -> "terminal_failure"
      [] pod = "errpull" -> "pulling_image"
      [] pod = "starting" -> "creating_container"
      [] pod = "warming" -> "probe_warming"
      [] pod = "ready" -> "ready"

TransientPhases == {"pulling_image", "creating_container", "probe_warming", "unknown"}

\* mergeRolloutPhases: a failure before anything, ready only if all are.
MergeRolloutPhases(phases) ==
    CASE "terminal_failure" \in phases -> "terminal_failure"
      [] phases = {"ready"} -> "ready"
      [] "pulling_image" \in phases -> "pulling_image"
      [] "creating_container" \in phases /\ phases \cap {"terminal_failure", "pulling_image"} = {}
            -> "creating_container"
      [] "probe_warming" \in phases /\ phases \subseteq {"probe_warming", "ready"} -> "probe_warming"
      [] phases = {} -> "unknown"

\* summarizeWaitDetail: what the text shows of the pods.  One that waits for its probes
\* or is being created hides one that has failed.
WaitDetails(seen) ==
    CASE "errpull" \in seen -> {"errpull"}
      [] seen \cap {"errpull", "warming", "starting"} = {} /\ seen \ {"ready"} # {} -> seen \ {"ready"}
      [] OTHER -> {"none"}

Updated(counts) == IF counts.updated = 0 THEN counts.ready ELSE counts.updated

IsRolloutInProgress(counts, text) ==
    /\ counts.replicas > 0
    /\ counts.ready < counts.replicas \/ Updated(counts) < counts.replicas
    /\ ~IsTerminalWorkloadFailure(text)

\* Mutant: a release without pods is as ready as it should be.
AllReadyOrNone(counts) == counts.ready = counts.replicas

\* A release without any pod is not healthy.
AllReady(counts) == counts.replicas > 0 /\ counts.ready = counts.replicas

\* verifySingleDeployment, and observeDeploymentRollout of the pods seen.
VerifySingleDeployment(counts, seen, text) ==
    LET phase == MergeRolloutPhases({ClassifyRolloutDetail(p) : p \in seen})
        healthy == AllReady(counts) /\ Updated(counts) = counts.replicas
        terminal == phase = "terminal_failure" \/ IsTerminalWorkloadFailure(text)
        transient == ~terminal /\ (phase \in TransientPhases \ {"unknown"}
                                   \/ \E p \in seen : IsTransientImagePull(p))
    IN [healthy |-> healthy, phase |-> IF healthy THEN "ready" ELSE phase,
        rolling |-> ~healthy /\ ~terminal /\ (transient \/ IsRolloutInProgress(counts, text)),
        text |-> IF healthy THEN "none" ELSE text]

\* verifySingleStatefulSet looks at no pods.
VerifySingleStatefulSet(counts) ==
    [healthy |-> AllReady(counts), phase |-> "unknown",
     rolling |-> counts.ready > 0 /\ ~AllReady(counts), text |-> "none"]

\* verifyWorkloadList, for one workload more.
WithWorkload(c, w, one, counts) ==
    LET fails == /\ ~one.healthy
                 /\ one.phase = "terminal_failure" \/ IsTerminalWorkloadFailure(one.text)
    IN [c EXCEPT !.at = "status", !.i = @ + 1, !.counts = NoCounts,
            !.ready = @ + counts.ready, !.desired = @ + counts.replicas,
            !.failed = @ \/ fails, !.text = IF fails THEN one.text ELSE @,
            !.rolling = @ \/ (~one.healthy /\ ~fails /\ one.rolling),
            !.missed = IF counts.replicas = 0 THEN @ \cup {w} ELSE @]

\* Its end: the totals decide, then a failure, then whether anything moves.
ListVerdict(c) ==
    LET healthy == AllReady([replicas |-> c.desired, ready |-> c.ready])
    IN [healthy |-> healthy,
        phase |-> IF healthy THEN "ready" ELSE IF c.failed THEN "terminal_failure" ELSE "unknown",
        rolling |-> ~healthy /\ ~c.failed /\ (c.rolling \/ c.ready > 0),
        text |-> IF healthy THEN "none" ELSE c.text]

NoAnswer == [healthy |-> FALSE, phase |-> "unknown", rolling |-> FALSE, text |-> "none"]

\* decideWaitContinuation.
KeepWaiting(r) ==
    /\ ~r.healthy
    /\ r.phase # "terminal_failure" /\ ~IsTerminalWorkloadFailure(r.text)
    /\ r.phase \in TransientPhases \/ r.rolling

\* Mutant: whatever is not ready has failed.
IsTerminalOfAny(text) == TRUE

\* isTerminalDeployFailure: for the watch the first failed pull is a failure.
IsTerminalDeployFailure(text) == text \in Failing

\* decidePostDeployRecovery: a restart, asked for where the image is not pulled.
HasRecovery(text) == text \in Failing

-----------------------------------------------------------------------------
(* The build *)

\* sourceBuildGraphNode, once approved, posts the build; without one the plan is applied.
StartDeploy(d) ==
    /\ deploy[d].at = "idle"
    /\ Cardinality({e \in Deploys : deploy[e].at # "idle"}) < setup.deploys
    /\ \A e \in Deploys : e < d => deploy[e].at # "idle"
    /\ deploy' = [deploy EXCEPT ![d].at = IF setup.strategy = "none" THEN "apply" ELSE "build"]
    /\ job' = [job EXCEPT ![d] = IF setup.strategy = "none" THEN "none" ELSE "running"]
    /\ UNCHANGED <<setup, cluster, check, told, faults>>

\* The Job, the OpenShift build or the pack process ends.
JobEnds(d) ==
    /\ job[d] = "running"
    /\ \E end \in {"done", "failed"} : job' = [job EXCEPT ![d] = end]
    /\ UNCHANGED <<setup, cluster, deploy, check, told, faults>>

\* Mutant: the wait for the build ends at its deadline like at its success.
BuildWaited(d) == job[d] = "done" \/ deploy[d].polls = BuildPolls

\* waitForJob returns only at a success.
BuildSucceeded(d) == job[d] = "done"

PollBuild(d) ==
    /\ deploy[d].at = "build" /\ ~BuildSucceeded(d) /\ job[d] # "failed"
    /\ deploy[d].polls < BuildPolls
    /\ deploy' = [deploy EXCEPT ![d].polls = @ + 1]
    /\ UNCHANGED <<setup, cluster, job, check, told, faults>>

BuildIsDone(d) ==
    /\ deploy[d].at = "build" /\ BuildSucceeded(d)
    /\ deploy' = [deploy EXCEPT ![d] = [NoDeploy EXCEPT !.at = "apply"]]
    /\ UNCHANGED <<setup, cluster, job, check, told, faults>>

\* A failed build, a read of its status that fails, or a timeout fails the run.  A local
\* pack is killed with it, what builds in the cluster goes on.
BuildFails(d) ==
    /\ deploy[d].at = "build"
    /\ \/ job[d] = "failed" /\ NoFault
       \/ job[d] = "running" /\ setup.strategy = "job" /\ Fault
       \/ job[d] = "running" /\ deploy[d].polls = BuildPolls /\ NoFault
    /\ deploy' = [deploy EXCEPT ![d].at = "unbuilt"]
    /\ job' = IF setup.strategy = "local" THEN [job EXCEPT ![d] = "failed"] ELSE job
    /\ UNCHANGED <<setup, cluster, check, told>>

\* The plan is applied: every workload of the release gets a new revision.  What the release
\* consists of is then asked for and recorded, if that succeeds.
Apply(d) ==
    /\ deploy[d].at = "apply"
    /\ \E recorded \in BOOLEAN :
          /\ IF recorded THEN NoFault ELSE Fault
          /\ deploy' = [deploy EXCEPT ![d].at = "wait", ![d].recorded = recorded]
    /\ pods' = [w \in Workloads |->
                  IF w \in Range(setup.release) THEN Revised(pods[w]) ELSE pods[w]]
    /\ UNCHANGED <<setup, status, history, job, check, told>>

-----------------------------------------------------------------------------
(* A verification *)

\* A Deployment named as the release stands for all of it; else Helm's label or the names
\* tell.  It is found out when the plan is applied or, if not recorded, at each check.
DiscoverReleaseWorkloads ==
    IF setup.exact THEN <<Head(setup.release)>> ELSE setup.release

\* Without a record the Deployment named as the release is verified by itself.
Single(d) == setup.exact /\ ~deploy[d].recorded

\* waitForWorkloadReady sets its deadline before the first check, so that the longer
\* timeout of an image that is being pulled lengthens no wait.
Limit(d) ==
    CASE deploy[d].at = "watch" -> WatchPolls
      [] deploy[d].at = "wait" /\ deploy[d].recovered -> RestartPolls
      [] OTHER -> WaitPolls

Active == \E d \in Deploys : deploy[d].at \in {"watch", "sending"}

\* An unhealthy end of the wait: one recovery, else a watch, if none is on for the chat.
AfterWait(d, r) ==
    CASE ~deploy[d].recovered /\ HasRecovery(r.text) -> "recover"
      [] Active -> "skipped"
      [] OTHER -> "watch"

Told(d, verdict, why) ==
    told' = [told EXCEPT ![d] = [verdict |-> verdict, why |-> why, missed |-> check[d].missed]]

\* The loop of waitForWorkloadReady and verifyNode after it, with the answer r.
WaitGot(d, r) ==
    \/ /\ r.healthy
       /\ deploy' = [deploy EXCEPT ![d].at = "done"]
       /\ Told(d, "ready", "checked")
    \/ /\ ~r.healthy
       /\ deploy' = [deploy EXCEPT ![d] =
                        IF KeepWaiting(r) /\ @.polls + 1 < Limit(d)
                        THEN [deploy[d] EXCEPT !.polls = @ + 1]
                        ELSE [deploy[d] EXCEPT !.at = AfterWait(d, r), !.polls = 0]]
       /\ UNCHANGED told

\* Mutant: the watch has no deadline.
NeverExpires(d) == FALSE

WatchExpires(d) == deploy[d].polls + 1 >= WatchPolls

\* The loop of watchDeployReadinessAndNotify: told at the first that is ready or failed,
\* or when the time is over.
WatchGot(d, r) ==
    LET failed == ~r.healthy /\ IsTerminalDeployFailure(r.text)
        late == ~r.healthy /\ ~failed /\ WatchExpires(d)
    IN IF r.healthy \/ failed \/ late
       THEN /\ deploy' = [deploy EXCEPT ![d].at = "sending"]
            /\ Told(d, IF r.healthy THEN "ready" ELSE "failed", IF late THEN "late" ELSE "checked")
       ELSE /\ deploy' = [deploy EXCEPT ![d].polls = IF @ < WatchPolls THEN @ + 1 ELSE @]
            /\ UNCHANGED told

Got(d, r) ==
    /\ \/ deploy[d].at = "wait" /\ WaitGot(d, r)
       \/ deploy[d].at = "watch" /\ WatchGot(d, r)
    /\ check' = [check EXCEPT ![d] = NoCheck]

\* POST /verify reaches the investigator, or is answered with an error status.
BeginCheck(d) ==
    /\ deploy[d].at \in {"wait", "watch"} /\ check[d].at = "off"
    /\ \/ /\ check' = [check EXCEPT ![d].at = "status"]
          /\ NoFault /\ UNCHANGED <<deploy, told>>
       \/ Fault /\ Got(d, NoAnswer)
    /\ UNCHANGED <<setup, cluster, job>>

\* The call throws: that fails the run, and ends a watch with a failure.
CallFails(d) ==
    /\ deploy[d].at \in {"wait", "watch"}
    /\ Fault
    /\ deploy' = [deploy EXCEPT ![d].at = IF @ = "wait" THEN "failed" ELSE "sending"]
    /\ IF deploy[d].at = "wait" THEN UNCHANGED told ELSE Told(d, "failed", "call")
    /\ check' = [check EXCEPT ![d] = NoCheck]
    /\ UNCHANGED <<setup, cluster, job>>

Current(d) == DiscoverReleaseWorkloads[check[d].i]
AtEnd(c) == c.i > Len(DiscoverReleaseWorkloads)

\* One workload's status is read.  In a list, one that cannot be read counts for nothing.
ReadStatus(d) ==
    /\ check[d].at = "status" /\ ~AtEnd(check[d])
    /\ LET w == Current(d) counts == status[w] IN
       \/ /\ NoFault /\ w \in setup.stateful
          /\ check' = [check EXCEPT ![d] =
                          WithWorkload(@, w, VerifySingleStatefulSet(counts), counts)]
          /\ UNCHANGED <<deploy, told>>
       \/ /\ NoFault /\ w \notin setup.stateful
          /\ check' = [check EXCEPT ![d].at = "pods", ![d].counts = counts]
          /\ UNCHANGED <<deploy, told>>
       \/ /\ Fault /\ ~Single(d)
          /\ check' = [check EXCEPT ![d].i = @ + 1, ![d].missed = @ \cup {w}]
          /\ UNCHANGED <<deploy, told>>
       \/ /\ Fault /\ Single(d)
          /\ Got(d, NoAnswer)
    /\ UNCHANGED <<setup, cluster, job>>

\* Then its pods; none are seen where neither list can be read.
ReadPods(d) ==
    /\ check[d].at = "pods"
    /\ LET w == Current(d)
           counts == check[d].counts
       IN \E seen \in {Range(pods[w]) \ {"none"}, {}} :
          /\ IF seen = Range(pods[w]) \ {"none"} THEN NoFault ELSE Fault
          /\ \E text \in WaitDetails(seen) :
                LET one == VerifySingleDeployment(counts, seen, text) IN
                IF Single(d) THEN Got(d, one)
                ELSE /\ check' = [check EXCEPT ![d] = WithWorkload(@, w, one, counts)]
                     /\ UNCHANGED <<deploy, told>>
    /\ UNCHANGED <<setup, cluster, job>>

EndCheck(d) ==
    /\ check[d].at = "status" /\ AtEnd(check[d])
    /\ Got(d, ListVerdict(check[d]))
    /\ UNCHANGED <<setup, cluster, job, faults>>

-----------------------------------------------------------------------------
\* The restart of the workload named as the release, automatic or approved: waited for anew.
Recover(d) ==
    /\ deploy[d].at = "recover"
    /\ deploy' = [deploy EXCEPT ![d].at = "wait", ![d].polls = 0, ![d].recovered = TRUE]
    /\ pods' = [pods EXCEPT ![Head(setup.release)] = Revised(@)]
    /\ UNCHANGED <<setup, status, history, job, check, told, faults>>

\* It is declined, or not answered.
DeclineRecovery(d) ==
    /\ deploy[d].at = "recover"
    /\ deploy' = [deploy EXCEPT ![d].at = "declined"]
    /\ UNCHANGED <<setup, cluster, job, check, told, faults>>

\* The message is delivered or given up, and the watch's key is free.
EndWatch(d) ==
    /\ deploy[d].at = "sending"
    /\ deploy' = [deploy EXCEPT ![d].at = "done"]
    /\ UNCHANGED <<setup, cluster, job, check, told, faults>>

\* Builds, waits and watches live in the orchestrator's memory.
LosesDeploys ==
    /\ faults.restarts < setup.restarts
    /\ faults' = [faults EXCEPT !.restarts = @ + 1]
    /\ deploy' = [d \in Deploys |->
                    IF deploy[d].at \in {"build", "apply", "wait", "watch", "sending"}
                    THEN [deploy[d] EXCEPT !.at = "lost"] ELSE deploy[d]]
    /\ UNCHANGED <<setup, cluster, job, told>>

\* Mutant: the checks under way are answered to a run that is gone.
RestartKeepsChecks == LosesDeploys /\ UNCHANGED check

Restart == LosesDeploys /\ check' = [d \in Deploys |-> NoCheck]

-----------------------------------------------------------------------------
Step(d) ==
    \/ PollBuild(d) \/ BuildIsDone(d) \/ BuildFails(d) \/ Apply(d)
    \/ BeginCheck(d) \/ ReadStatus(d) \/ ReadPods(d) \/ EndCheck(d) \/ EndWatch(d)

Next ==
    \/ \E d \in Deploys :
          \/ StartDeploy(d) \/ JobEnds(d) \/ Step(d) \/ CallFails(d)
          \/ Recover(d) \/ DeclineRecovery(d)
    \/ \E w \in Workloads : PodChanges(w) \/ StatusChanges(w)
    \/ Restart

\* Some loop of the orchestrator goes on while one can, and an ask is answered or times out;
\* nothing is assumed of Kubernetes.
Fairness == WF_vars(\E d \in Deploys : Step(d) \/ Recover(d) \/ DeclineRecovery(d))

Spec == Init /\ [][Next]_vars /\ Fairness

-----------------------------------------------------------------------------
Places == {"idle", "build", "apply", "unbuilt", "wait", "recover", "declined", "watch",
           "skipped", "sending", "done", "failed", "lost"}

\* The types of the variables.
TypeOK ==
    /\ setup \in Setups
    /\ pods \in [Workloads -> [old: PodStates, new: PodStates]]
    /\ \A w \in Workloads : status[w].ready <= status[w].replicas /\ status[w].replicas <= 2
    /\ job \in [Deploys -> {"none", "running", "done", "failed"}]
    /\ \A d \in Deploys :
          /\ deploy[d].at \in Places /\ deploy[d].polls \in Nat /\ deploy[d].recovered \in BOOLEAN
          /\ check[d].at \in {"off", "status", "pods"}
          /\ check[d].i \in 1 .. Len(setup.release) + 1
          /\ check[d].at # "off" => deploy[d].at \in {"wait", "watch"}
          /\ told[d].verdict \in {"none", "ready", "failed"}
    /\ history.up \subseteq Workloads /\ history.failing \subseteq Workloads

\* "Pods are Ready" is said of a release only when each workload it is found to consist of
\* had a ready pod, but for those without pods or that could not be read, and at least one
\* had: counts read at different times never add up to a release that was never up
\* (verify.ts verifyWorkloadList).
ReadyWasSeen ==
    \A d \in Deploys : told[d].verdict = "ready" =>
        /\ Range(DiscoverReleaseWorkloads) \ told[d].missed \subseteq history.up
        /\ Range(DiscoverReleaseWorkloads) \cap history.up # {}

\* A deploy is reported as failed only if a pod of it failed, the health check could not be
\* called, or the time was over: never for one that is still starting
\* (deploy-readiness-watch.ts).
FailureIsReal ==
    \A d \in Deploys : told[d].verdict = "failed" =>
        \/ told[d].why \in {"call", "late"}
        \/ Range(setup.release) \cap history.failing # {}

\* What is applied has been built: no wait for a build ends well but with its image, though
\* builds of other runs fail, time out or go on (source-build-runner.ts waitForJob).
AppliedWasBuilt ==
    \A d \in Deploys : Deployed(d) /\ deploy[d].at # "lost" /\ setup.strategy # "none" =>
        job[d] = "done"

\* Whatever a user is told of a deploy had happened, read piecemeal while the rollout went on
\* (verify.ts:157, source-build-runner.ts:91).
VerdictsAreTrue == ReadyWasSeen /\ FailureIsReal /\ AppliedWasBuilt

\* Every deploy comes to an end, whatever Kubernetes does or does not do, and one whose
\* watch was started is told of, unless the orchestrator restarts
\* (deployReadyPromiseMessage).
DeploysAreTold ==
    \A d \in Deploys : deploy[d].at \in {"wait", "watch"} ~>
        \/ deploy[d].at \in {"skipped", "declined", "failed", "lost"}
        \/ deploy[d].at = "done" /\ told[d].verdict # "none"

\* What the message says, read strictly: the revision just applied has a ready pod.  The
\* counts of the revision before it are taken for it (verify.ts does not compare
\* observedGeneration, and takes an update that is counted as zero for complete).
ReadyIsThisRevision ==
    [][\A d \in Deploys : told[d].verdict = "none" /\ told'[d].verdict = "ready"
                         /\ (\A e \in Deploys \ {d} : deploy[e].at = "idle") =>
          \E w \in Range(setup.release) : pods[w].new # "none"]_vars
=============================================================================
