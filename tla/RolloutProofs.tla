---------------------------- MODULE RolloutProofs -----------------------------
(***************************************************************************)
(* Theorems about Rollout, for every release, however its pods fail, and   *)
(* any number of deploys, failing calls and restarts.                      *)
(***************************************************************************)
EXTENDS Rollout, FiniteSetTheorems, TLAPS

-----------------------------------------------------------------------------
(* The inductive invariant *)

Release == Range(setup.release)
Pods == [old: PodStates, new: PodStates]

\* Counts of a workload: no more of its pods are ready than there are.
Counts == {c \in [replicas: 0..2, ready: 0..2, updated: 0..1] : c.ready <= c.replicas}

DeployStates == [at: Places, polls: Nat, recovered: BOOLEAN, recorded: BOOLEAN]

CheckStates ==
    [at: {"off", "status", "pods"}, i: 1..(Len(setup.release) + 1), counts: Counts,
     ready: Nat, desired: Nat, failed: BOOLEAN, rolling: BOOLEAN, text: PodStates,
     healthy: {FALSE}, phase: {"unknown"}, missed: SUBSET Workloads]

Verdicts ==
    [verdict: {"none", "ready", "failed"}, why: {"none", "checked", "late", "call"},
     missed: SUBSET Workloads]

Typed ==
    /\ setup \in Setups
    /\ pods \in [Workloads -> Pods]
    /\ status \in [Workloads -> Counts]
    /\ job \in [Deploys -> {"none", "running", "done", "failed"}]
    /\ deploy \in [Deploys -> DeployStates]
    /\ check \in [Deploys -> CheckStates]
    /\ told \in [Deploys -> Verdicts]
    /\ history \in [up: SUBSET Workloads, failing: SUBSET Workloads]

\* Only a wait and a watch verify.
ChecksAreAwaited == \A d \in Deploys : check[d].at # "off" => deploy[d].at \in {"wait", "watch"}

\* What is, or is counted as, ready or failing was so at some time.
PodsWereSeen ==
    /\ \A w \in Workloads :
          /\ "ready" \in {pods[w].old, pods[w].new} => w \in history.up
          /\ {pods[w].old, pods[w].new} \cap Failing # {} => w \in history.failing
    /\ \A w \in Workloads : status[w].ready > 0 => w \in history.up

\* Of a verification: it stands at a workload of the list, or at its end.  Its sums fall
\* short for every workload that was never up, but for those without pods or that could not
\* be read, and a failure it remembers is one of a pod of the release.
CheckIsSeen(c, up, failing) ==
    /\ c.i <= Len(DiscoverReleaseWorkloads) + 1
    /\ c.at = "pods" =>
          /\ c.i <= Len(DiscoverReleaseWorkloads)
          /\ c.counts.ready > 0 => DiscoverReleaseWorkloads[c.i] \in up
    /\ c.ready <= c.desired
    /\ c.ready = c.desired =>
          \A j \in 1..(c.i - 1) : DiscoverReleaseWorkloads[j] \in c.missed \cup up
    /\ c.ready > 0 => Range(DiscoverReleaseWorkloads) \cap up # {}
    /\ c.text \in Failing => Release \cap failing # {}

ChecksAreSeen == \A d \in Deploys : CheckIsSeen(check[d], history.up, history.failing)

\* Of a message: what it says had happened.
VerdictIsSeen(t, up, failing) ==
    /\ t.verdict = "ready" =>
          /\ Range(DiscoverReleaseWorkloads) \ t.missed \subseteq up
          /\ Range(DiscoverReleaseWorkloads) \cap up # {}
    /\ t.verdict = "failed" => t.why \in {"call", "late"} \/ Release \cap failing # {}

VerdictsAreSeen == \A d \in Deploys : VerdictIsSeen(told[d], history.up, history.failing)

\* A build that succeeded precedes what is applied, and all that comes after it.
BuiltBefore ==
    \A d \in Deploys :
        setup.strategy # "none" /\ deploy[d].at \notin {"idle", "build", "unbuilt", "lost"} =>
            job[d] = "done"

RolloutInv ==
    /\ Typed /\ ChecksAreAwaited /\ PodsWereSeen
    /\ ChecksAreSeen /\ VerdictsAreSeen /\ BuiltBefore

-----------------------------------------------------------------------------
(* Lemmas about the operators of the model *)

\* A release is a list of workloads, and a verification looks at a part of it.
LEMMA ReleaseFacts ==
    ASSUME setup \in Setups
    PROVE  /\ setup.release \in Seq(Workloads) /\ Len(setup.release) \in Nat \ {0}
           /\ Head(setup.release) \in Workloads /\ Release \subseteq Workloads
           /\ DiscoverReleaseWorkloads \in Seq(Workloads)
           /\ Len(DiscoverReleaseWorkloads) \in 1..Len(setup.release)
           /\ Range(DiscoverReleaseWorkloads) \subseteq Release
           /\ Range(DiscoverReleaseWorkloads) =
                 {DiscoverReleaseWorkloads[j] : j \in 1..Len(DiscoverReleaseWorkloads)}
           /\ setup.exact => Len(DiscoverReleaseWorkloads) = 1
           /\ setup.pods \subseteq PodStates
<1>1. /\ setup.release \in Seq(Workloads) /\ setup.release # <<>>
      /\ setup.exact \in BOOLEAN /\ setup.pods \subseteq PodStates
  BY RolloutAssumption
<1>2. /\ Len(setup.release) \in Nat \ {0} /\ DOMAIN setup.release = 1..Len(setup.release)
      /\ Head(setup.release) = setup.release[1] /\ Head(setup.release) \in Workloads
  BY <1>1
<1>3. Release \subseteq Workloads
  BY <1>1, <1>2 DEF Release, Range
<1>4. CASE setup.exact
  <2> DEFINE only == <<Head(setup.release)>>
  <2>1. only \in Seq(Workloads) /\ Len(only) = 1 /\ only[1] = Head(setup.release)
        /\ DOMAIN only = 1..1
    BY <1>2
  <2>2. DiscoverReleaseWorkloads = only
    BY <1>4 DEF DiscoverReleaseWorkloads
  <2> HIDE DEF only
  <2>3. Range(only) \subseteq Release
    BY <1>2, <2>1 DEF Range, Release
  <2>4. Range(only) = {only[j] : j \in 1..Len(only)}
    BY <2>1 DEF Range
  <2>5. Len(only) \in 1..Len(setup.release)
    BY <1>2, <2>1
  <2>6. /\ DiscoverReleaseWorkloads \in Seq(Workloads)
        /\ Len(DiscoverReleaseWorkloads) \in 1..Len(setup.release)
        /\ Len(DiscoverReleaseWorkloads) = 1
        /\ Range(DiscoverReleaseWorkloads) \subseteq Release
        /\ Range(DiscoverReleaseWorkloads) =
              {DiscoverReleaseWorkloads[j] : j \in 1..Len(DiscoverReleaseWorkloads)}
    BY <2>1, <2>2, <2>3, <2>4, <2>5
  <2>7. QED BY <1>1, <1>2, <1>3, <2>6
<1>5. CASE ~setup.exact
  <2>1. DiscoverReleaseWorkloads = setup.release
    BY <1>5 DEF DiscoverReleaseWorkloads
  <2>2. Range(setup.release) = {setup.release[j] : j \in 1..Len(setup.release)}
    BY <1>2 DEF Range
  <2>3. QED BY <1>1, <1>2, <1>3, <1>5, <2>1, <2>2 DEF Release
<1>6. QED BY <1>1, <1>4, <1>5

LEMMA IndexFacts ==
    ASSUME setup \in Setups, NEW c \in CheckStates
    PROVE  c.i \in Nat \ {0}
<1>1. Len(setup.release) \in Nat
  BY ReleaseFacts
<1>2. QED BY <1>1 DEF CheckStates

\* They are those of the setup, which no step changes.
LEMMA SameRelease ==
    ASSUME setup' = setup
    PROVE  /\ DiscoverReleaseWorkloads' = DiscoverReleaseWorkloads
           /\ Release' = Release /\ CheckStates' = CheckStates
  BY DEF DiscoverReleaseWorkloads, Release, CheckStates

\* What a controller counts: no more pods are ready than there are, and one that is ready
\* is there.
LEMMA CountsFacts ==
    ASSUME NEW p \in Pods
    PROVE  /\ CountsOf(p) \in Counts
           /\ CountsOf(p).ready > 0 => "ready" \in {p.old, p.new}
<1> DEFINE all == {"old", "new"}
           there == {r \in all : p[r] # "none"}
           ready == {r \in all : p[r] = "ready"}
<1>1. IsFiniteSet(all) /\ Cardinality(all) = 2
  <2>1. IsFiniteSet({"old"}) /\ Cardinality({"old"}) = 1
    BY FS_Singleton
  <2>2. all = {"old"} \cup {"new"} /\ "new" \notin {"old"}
    OBVIOUS
  <2>3. QED BY <2>1, <2>2, FS_AddElement
<1>2. ready \subseteq there /\ there \subseteq all
  OBVIOUS
<1>3. IsFiniteSet(there) /\ Cardinality(there) <= Cardinality(all)
  BY <1>1, <1>2, FS_Subset
<1>4. IsFiniteSet(ready) /\ Cardinality(ready) <= Cardinality(there)
  BY <1>2, <1>3, FS_Subset
<1>5. Cardinality(there) \in Nat /\ Cardinality(ready) \in Nat
  BY <1>3, <1>4, FS_CardinalityType
<1>6. Cardinality(ready) > 0 => "ready" \in {p.old, p.new}
  <2>1. Cardinality({}) = 0
    BY FS_EmptySet
  <2>2. Cardinality(ready) > 0 => ready # {}
    BY <2>1
  <2>3. QED BY <2>2
<1>7. CountsOf(p) = [replicas |-> Cardinality(there), ready |-> Cardinality(ready),
                     updated |-> IF p.new = "none" THEN 0 ELSE 1]
  BY DEF CountsOf
<1> HIDE DEF there, ready
<1>8. QED BY <1>1, <1>3, <1>4, <1>5, <1>6, <1>7 DEF Counts

\* The text shows a failure only of a pod that was seen.
LEMMA DetailsFacts ==
    ASSUME NEW seen \in SUBSET PodStates, NEW text \in WaitDetails(seen)
    PROVE  text \in PodStates /\ (text \in Failing => text \in seen)
  BY DEF WaitDetails, PodStates, Failing

\* A Deployment that is healthy has pods that are ready; what it says of them is the text.
LEMMA DeploymentFacts ==
    ASSUME NEW counts \in Counts, NEW seen, NEW text \in PodStates,
           NEW one, one = VerifySingleDeployment(counts, seen, text)
    PROVE  /\ one.healthy => counts.ready > 0 /\ counts.ready = counts.replicas
           /\ one.text \in {"none", text}
  BY DEF VerifySingleDeployment, AllReady, Counts

-----------------------------------------------------------------------------
(* What a step leaves true *)

\* What was seen once has been seen.
LEMMA SeenStaysSeen ==
    ASSUME setup' = setup, NEW up, NEW failing, NEW up2, NEW failing2,
           up \subseteq up2, failing \subseteq failing2
    PROVE  /\ \A c : CheckIsSeen(c, up, failing) => CheckIsSeen(c, up2, failing2)
           /\ \A t : VerdictIsSeen(t, up, failing) => VerdictIsSeen(t, up2, failing2)
  BY DEF CheckIsSeen, VerdictIsSeen

\* A step keeps the invariant if the verifications and the messages that it changes are true.
LEMMA Keeps ==
    ASSUME RolloutInv, setup' = setup, Typed', PodsWereSeen',
           history.up \subseteq history'.up, history.failing \subseteq history'.failing,
           \A d \in Deploys :
              check'[d] = check[d] \/ CheckIsSeen(check'[d], history'.up, history'.failing),
           \A d \in Deploys :
              told'[d] = told[d] \/ VerdictIsSeen(told'[d], history'.up, history'.failing),
           \A d \in Deploys : check'[d].at # "off" => deploy'[d].at \in {"wait", "watch"},
           BuiltBefore'
    PROVE  RolloutInv'
<1>1. /\ \A c : CheckIsSeen(c, history.up, history.failing) =>
                   CheckIsSeen(c, history'.up, history'.failing)
      /\ \A t : VerdictIsSeen(t, history.up, history.failing) =>
                   VerdictIsSeen(t, history'.up, history'.failing)
  BY SeenStaysSeen
<1>2. \A d \in Deploys : CheckIsSeen(check'[d], history'.up, history'.failing)
  BY <1>1 DEF RolloutInv, ChecksAreSeen
<1>3. \A d \in Deploys : VerdictIsSeen(told'[d], history'.up, history'.failing)
  BY <1>1 DEF RolloutInv, VerdictsAreSeen
<1>4. ChecksAreSeen'
  BY <1>2, SameRelease DEF ChecksAreSeen, CheckIsSeen
<1>5. VerdictsAreSeen'
  BY <1>3, SameRelease DEF VerdictsAreSeen, VerdictIsSeen
<1>6. QED BY <1>4, <1>5 DEF RolloutInv, ChecksAreAwaited

\* A step of one deploy that leaves the cluster alone, and what it does to the deploy.
LEMMA DeployKeeps ==
    ASSUME RolloutInv, NEW d \in Deploys, UNCHANGED <<setup, cluster>>,
           NEW dp \in DeployStates, deploy' = [deploy EXCEPT ![d] = dp],
           NEW b \in {"none", "running", "done", "failed"}, job' = [job EXCEPT ![d] = b],
           NEW c \in CheckStates, check' = [check EXCEPT ![d] = c],
           NEW t \in Verdicts, told' = [told EXCEPT ![d] = t],
           CheckIsSeen(c, history.up, history.failing),
           VerdictIsSeen(t, history.up, history.failing),
           c.at # "off" => dp.at \in {"wait", "watch"},
           setup.strategy # "none" /\ dp.at \notin {"idle", "build", "unbuilt", "lost"} =>
              b = "done"
    PROVE  RolloutInv'
<1>1. /\ UNCHANGED <<setup, pods, status, history>>
      /\ deploy'[d] = dp /\ job'[d] = b /\ check'[d] = c /\ told'[d] = t
      /\ \A e \in Deploys \ {d} : /\ deploy'[e] = deploy[e] /\ job'[e] = job[e]
                                  /\ check'[e] = check[e] /\ told'[e] = told[e]
  BY DEF cluster, RolloutInv, Typed
<1>2. Typed'
  <2>1. /\ deploy' \in [Deploys -> DeployStates] /\ told' \in [Deploys -> Verdicts]
        /\ job' \in [Deploys -> {"none", "running", "done", "failed"}]
        /\ check' \in [Deploys -> CheckStates]
    BY DEF RolloutInv, Typed
  <2>2. QED BY <1>1, <2>1, SameRelease DEF RolloutInv, Typed
<1>3. PodsWereSeen'
  BY <1>1 DEF RolloutInv, PodsWereSeen
<1>4. BuiltBefore'
  BY <1>1 DEF RolloutInv, BuiltBefore
<1>5. \A e \in Deploys : check'[e].at # "off" => deploy'[e].at \in {"wait", "watch"}
  BY <1>1 DEF RolloutInv, ChecksAreAwaited
<1>6. \A e \in Deploys :
         check'[e] = check[e] \/ CheckIsSeen(check'[e], history'.up, history'.failing)
  BY <1>1
<1>7. \A e \in Deploys :
         told'[e] = told[e] \/ VerdictIsSeen(told'[e], history'.up, history'.failing)
  BY <1>1
<1>8. QED BY <1>1, <1>2, <1>3, <1>4, <1>5, <1>6, <1>7, Keeps

\* A verification begins with nothing counted.
LEMMA NoCheckIsSeen ==
    ASSUME setup \in Setups
    PROVE  /\ NoCheck \in CheckStates /\ NoCheck.at = "off"
           /\ \A c \in {NoCheck, [NoCheck EXCEPT !.at = "status"]} :
                 CheckIsSeen(c, history.up, history.failing)
  BY ReleaseFacts DEF NoCheck, CheckStates, CheckIsSeen, NoCounts, Counts, PodStates, Failing

LEMMA KnownFacts ==
    ASSUME RolloutInv, NEW d \in Deploys
    PROVE  /\ setup \in Setups
           /\ deploy[d] \in DeployStates /\ check[d] \in CheckStates /\ told[d] \in Verdicts
           /\ job[d] \in {"none", "running", "done", "failed"}
           /\ deploy = [deploy EXCEPT ![d] = deploy[d]] /\ job = [job EXCEPT ![d] = job[d]]
           /\ check = [check EXCEPT ![d] = check[d]] /\ told = [told EXCEPT ![d] = told[d]]
           /\ CheckIsSeen(check[d], history.up, history.failing)
           /\ VerdictIsSeen(told[d], history.up, history.failing)
           /\ check[d].at # "off" => deploy[d].at \in {"wait", "watch"}
           /\ setup.strategy # "none"
                 /\ deploy[d].at \notin {"idle", "build", "unbuilt", "lost"} => job[d] = "done"
  BY DEF RolloutInv, Typed, ChecksAreSeen, VerdictsAreSeen, ChecksAreAwaited, BuiltBefore

\* An answer that is true of what was seen ends its verification with a message that is.
LEMMA GotKeeps ==
    ASSUME RolloutInv, NEW d \in Deploys, deploy[d].at \in {"wait", "watch"},
           UNCHANGED <<setup, cluster, job>>, NEW r, Got(d, r),
           r.healthy => /\ Range(DiscoverReleaseWorkloads) \ check[d].missed \subseteq history.up
                        /\ Range(DiscoverReleaseWorkloads) \cap history.up # {},
           r.text \in Failing => Release \cap history.failing # {}
    PROVE  RolloutInv'
<1>1. /\ setup \in Setups /\ deploy[d] \in DeployStates /\ check[d].missed \in SUBSET Workloads
      /\ job' = [job EXCEPT ![d] = job[d]] /\ job[d] \in {"none", "running", "done", "failed"}
      /\ setup.strategy # "none" => job[d] = "done"
      /\ told[d] \in Verdicts /\ told = [told EXCEPT ![d] = told[d]]
      /\ VerdictIsSeen(told[d], history.up, history.failing)
      /\ deploy[d].polls \in Nat /\ deploy[d].polls + 1 \in Nat
  <2>1. check[d].missed \in SUBSET Workloads
    BY KnownFacts DEF CheckStates
  <2>2. deploy[d].polls \in Nat /\ deploy[d].polls + 1 \in Nat
    BY KnownFacts DEF DeployStates
  <2>3. QED BY <2>1, <2>2, KnownFacts
<1>2. /\ NoCheck \in CheckStates /\ NoCheck.at = "off"
      /\ CheckIsSeen(NoCheck, history.up, history.failing)
      /\ check' = [check EXCEPT ![d] = NoCheck]
  BY <1>1, NoCheckIsSeen DEF Got
<1>3. ASSUME NEW dp \in DeployStates, deploy' = [deploy EXCEPT ![d] = dp],
             dp.at \notin {"idle", "build", "unbuilt", "lost"},
             NEW t \in Verdicts, told' = [told EXCEPT ![d] = t],
             VerdictIsSeen(t, history.up, history.failing)
      PROVE  RolloutInv'
  BY <1>1, <1>2, <1>3, DeployKeeps
<1>4. ASSUME NEW verdict \in {"ready", "failed"}, NEW why \in {"checked", "late"},
             verdict = "ready" => r.healthy,
             verdict = "failed" => why = "late" \/ r.text \in Failing
      PROVE  LET t == [verdict |-> verdict, why |-> why, missed |-> check[d].missed]
             IN  t \in Verdicts /\ VerdictIsSeen(t, history.up, history.failing)
  BY <1>1, <1>4 DEF Verdicts, VerdictIsSeen
<1>5. CASE deploy[d].at = "wait" /\ WaitGot(d, r)
  <2>1. CASE /\ r.healthy /\ deploy' = [deploy EXCEPT ![d].at = "done"]
             /\ Told(d, "ready", "checked")
    <3>1. [deploy[d] EXCEPT !.at = "done"] \in DeployStates
      BY <1>1 DEF DeployStates, Places
    <3>2. QED BY <1>1, <1>3, <1>4, <2>1, <3>1 DEF Told, DeployStates
  <2>2. CASE ~r.healthy /\ UNCHANGED told
             /\ deploy' = [deploy EXCEPT ![d] = [deploy[d] EXCEPT !.polls = deploy[d].polls + 1]]
    <3>1. [deploy[d] EXCEPT !.polls = deploy[d].polls + 1] \in DeployStates
      BY <1>1 DEF DeployStates
    <3>2. [deploy[d] EXCEPT !.polls = deploy[d].polls + 1].at = deploy[d].at
      BY <1>1 DEF DeployStates
    <3>3. QED BY <1>1, <1>3, <1>5, <2>2, <3>1, <3>2
  <2>3. CASE ~r.healthy /\ UNCHANGED told
             /\ deploy' = [deploy EXCEPT ![d] =
                              [deploy[d] EXCEPT !.at = AfterWait(d, r), !.polls = 0]]
    <3>1. AfterWait(d, r) \in {"recover", "skipped", "watch"}
      BY DEF AfterWait
    <3>2. [deploy[d] EXCEPT !.at = AfterWait(d, r), !.polls = 0] \in DeployStates
      BY <1>1, <3>1 DEF DeployStates, Places
    <3>3. [deploy[d] EXCEPT !.at = AfterWait(d, r), !.polls = 0].at = AfterWait(d, r)
      BY <1>1 DEF DeployStates
    <3>4. QED BY <1>1, <1>3, <2>3, <3>1, <3>2, <3>3
  <2>4. CASE r.healthy
    BY <1>5, <2>1, <2>4 DEF WaitGot
  <2>5. CASE ~r.healthy
    <3> DEFINE more == KeepWaiting(r) /\ deploy[d].polls + 1 < Limit(d)
               next == IF more THEN [deploy[d] EXCEPT !.polls = deploy[d].polls + 1]
                       ELSE [deploy[d] EXCEPT !.at = AfterWait(d, r), !.polls = 0]
    <3>1. deploy' = [deploy EXCEPT ![d] = next] /\ UNCHANGED told
      BY <1>5, <2>5 DEF WaitGot
    <3>2. CASE more
      BY <2>2, <2>5, <3>1, <3>2
    <3>3. CASE ~more
      BY <2>3, <2>5, <3>1, <3>3
    <3>4. QED BY <3>2, <3>3
  <2>6. QED BY <2>4, <2>5
<1>6. CASE deploy[d].at = "watch" /\ WatchGot(d, r)
  <2> DEFINE failed == ~r.healthy /\ IsTerminalDeployFailure(r.text)
             late == ~r.healthy /\ ~failed /\ WatchExpires(d)
  <2>1. CASE r.healthy \/ failed \/ late
    <3>1. /\ deploy' = [deploy EXCEPT ![d].at = "sending"]
          /\ Told(d, IF r.healthy THEN "ready" ELSE "failed", IF late THEN "late" ELSE "checked")
      BY <1>6, <2>1 DEF WatchGot
    <3>2. [deploy[d] EXCEPT !.at = "sending"] \in DeployStates
      BY <1>1 DEF DeployStates, Places
    <3>3. failed => r.text \in Failing
      BY DEF IsTerminalDeployFailure
    <3> HIDE DEF failed, late
    <3>4. QED BY <1>1, <1>3, <1>4, <2>1, <3>1, <3>2, <3>3 DEF Told, DeployStates
  <2>2. CASE ~(r.healthy \/ failed \/ late)
    <3>1. /\ deploy' = [deploy EXCEPT ![d].polls = IF @ < WatchPolls THEN @ + 1 ELSE @]
          /\ UNCHANGED told
      BY <1>6, <2>2 DEF WatchGot
    <3>2. PICK polls \in Nat : deploy' = [deploy EXCEPT ![d].polls = polls]
      BY <1>1, <3>1
    <3>3. [deploy[d] EXCEPT !.polls = polls] \in DeployStates
      BY <1>1 DEF DeployStates
    <3>4. QED BY <1>1, <1>3, <1>6, <3>1, <3>2, <3>3 DEF DeployStates
  <2>3. QED BY <2>1, <2>2
<1>7. QED BY <1>5, <1>6 DEF Got

-----------------------------------------------------------------------------
(* The steps of a verification *)

\* The sums stay short when one workload more is counted whose ready pods were seen.
LEMMA OneMoreIsSeen ==
    ASSUME setup \in Setups, NEW c \in CheckStates, c.i <= Len(DiscoverReleaseWorkloads),
           NEW up, NEW failing, CheckIsSeen(c, up, failing),
           NEW one, one.text \in PodStates, NEW counts \in Counts,
           counts.ready > 0 => DiscoverReleaseWorkloads[c.i] \in up,
           one.text \in Failing => Release \cap failing # {},
           NEW next, next = WithWorkload(c, DiscoverReleaseWorkloads[c.i], one, counts)
    PROVE  next \in CheckStates /\ next.at = "status" /\ CheckIsSeen(next, up, failing)
<1> DEFINE w == DiscoverReleaseWorkloads[c.i]
<1>1. /\ next \in CheckStates /\ next.at = "status" /\ next.i = c.i + 1
      /\ next.ready = c.ready + counts.ready /\ next.desired = c.desired + counts.replicas
      /\ next.text \in {c.text, one.text}
      /\ next.missed = IF counts.replicas = 0 THEN c.missed \cup {w} ELSE c.missed
  <2> DEFINE fails == /\ ~one.healthy
                      /\ one.phase = "terminal_failure" \/ IsTerminalWorkloadFailure(one.text)
             failed == c.failed \/ fails
             text == IF fails THEN one.text ELSE c.text
             rolling == c.rolling \/ (~one.healthy /\ ~fails /\ one.rolling)
             missed == IF counts.replicas = 0 THEN c.missed \cup {w} ELSE c.missed
  <2>1. w \in Workloads /\ c.i + 1 \in 1..(Len(setup.release) + 1)
    BY ReleaseFacts DEF CheckStates
  <2>2. /\ failed \in BOOLEAN /\ rolling \in BOOLEAN /\ text \in PodStates
        /\ missed \in SUBSET Workloads /\ text \in {c.text, one.text}
    BY <2>1 DEF CheckStates
  <2>3. /\ c.ready + counts.ready \in Nat /\ c.desired + counts.replicas \in Nat
        /\ NoCounts \in Counts
    BY DEF CheckStates, Counts, NoCounts
  <2>4. next = [c EXCEPT !.at = "status", !.i = c.i + 1, !.counts = NoCounts,
                         !.ready = c.ready + counts.ready,
                         !.desired = c.desired + counts.replicas, !.failed = failed,
                         !.text = text, !.rolling = rolling, !.missed = missed]
    BY DEF WithWorkload
  <2> HIDE DEF w, fails, failed, text, rolling, missed
  <2>5. next = [at |-> "status", i |-> c.i + 1, counts |-> NoCounts,
                ready |-> c.ready + counts.ready, desired |-> c.desired + counts.replicas,
                failed |-> failed, rolling |-> rolling, text |-> text, healthy |-> FALSE,
                phase |-> "unknown", missed |-> missed]
    BY <2>4 DEF CheckStates
  <2>6. next \in CheckStates
    BY <2>1, <2>2, <2>3, <2>5 DEF CheckStates
  <2>7. QED BY <2>2, <2>5, <2>6 DEF missed, w
<1>2. /\ Len(DiscoverReleaseWorkloads) \in Nat /\ c.i \in Nat \ {0}
      /\ c.ready \in Nat /\ c.desired \in Nat
      /\ counts.ready \in Nat /\ counts.replicas \in Nat /\ counts.ready <= counts.replicas
      /\ w \in Range(DiscoverReleaseWorkloads)
  <2>1. /\ Len(DiscoverReleaseWorkloads) \in Nat
        /\ c.i \in Nat \ {0} /\ c.ready \in Nat /\ c.desired \in Nat
    BY ReleaseFacts DEF CheckStates
  <2>2. counts.ready \in Nat /\ counts.replicas \in Nat /\ counts.ready <= counts.replicas
    BY DEF Counts
  <2>3. c.i \in 1..Len(DiscoverReleaseWorkloads)
    BY <2>1
  <2>4. QED BY <2>1, <2>2, <2>3, ReleaseFacts
<1>3. /\ c.ready <= c.desired
      /\ c.ready = c.desired =>
            \A j \in 1..(c.i - 1) : DiscoverReleaseWorkloads[j] \in c.missed \cup up
      /\ c.ready > 0 => Range(DiscoverReleaseWorkloads) \cap up # {}
      /\ c.text \in Failing => Release \cap failing # {}
  BY DEF CheckIsSeen
<1> HIDE DEF w
<1>4. next.i <= Len(DiscoverReleaseWorkloads) + 1 /\ next.ready <= next.desired
  BY <1>1, <1>2, <1>3
<1>5. next.ready > 0 => Range(DiscoverReleaseWorkloads) \cap up # {}
  BY <1>1, <1>2, <1>3 DEF w
<1>6. ASSUME next.ready = next.desired, NEW j \in 1..(next.i - 1)
      PROVE  DiscoverReleaseWorkloads[j] \in next.missed \cup up
  <2>1. c.ready = c.desired /\ counts.ready = counts.replicas
    BY <1>1, <1>2, <1>3, <1>6
  <2>2. CASE j = c.i
    <3>1. CASE counts.replicas = 0 BY <1>1, <2>2, <3>1 DEF w
    <3>2. CASE counts.replicas # 0 BY <1>2, <2>1, <2>2, <3>2
    <3>3. QED BY <3>1, <3>2
  <2>3. CASE j # c.i
    <3>1. j \in 1..(c.i - 1)
      BY <1>1, <1>2, <1>6, <2>3
    <3>2. QED BY <1>1, <1>3, <2>1, <3>1
  <2>4. QED BY <2>2, <2>3
<1>7. next.text \in Failing => Release \cap failing # {}
  BY <1>1, <1>3
<1>8. QED BY <1>1, <1>4, <1>5, <1>6, <1>7 DEF CheckIsSeen

\* A verification goes on.
LEMMA CheckKeeps ==
    ASSUME RolloutInv, NEW d \in Deploys, deploy[d].at \in {"wait", "watch"},
           UNCHANGED <<setup, cluster, job, deploy, told>>,
           NEW c \in CheckStates, check' = [check EXCEPT ![d] = c],
           CheckIsSeen(c, history.up, history.failing)
    PROVE  RolloutInv'
<1>1. /\ deploy[d] \in DeployStates /\ deploy' = [deploy EXCEPT ![d] = deploy[d]]
      /\ job[d] \in {"none", "running", "done", "failed"}
      /\ job' = [job EXCEPT ![d] = job[d]]
      /\ told[d] \in Verdicts /\ told' = [told EXCEPT ![d] = told[d]]
      /\ VerdictIsSeen(told[d], history.up, history.failing)
      /\ setup.strategy # "none" => job[d] = "done"
  BY KnownFacts
<1>2. QED BY <1>1, DeployKeeps

LEMMA BeginStep ==
    ASSUME RolloutInv, NEW d \in Deploys, BeginCheck(d) PROVE RolloutInv'
<1>1. /\ deploy[d].at \in {"wait", "watch"} /\ UNCHANGED <<setup, cluster, job>>
      /\ check[d] \in CheckStates /\ CheckIsSeen(check[d], history.up, history.failing)
  BY KnownFacts DEF BeginCheck
<1>2. CASE check' = [check EXCEPT ![d].at = "status"] /\ UNCHANGED <<deploy, told>>
  <2> DEFINE c == [check[d] EXCEPT !.at = "status"]
  <2>1. /\ c \in CheckStates /\ c.at = "status" /\ c.i = check[d].i
        /\ c.ready = check[d].ready /\ c.desired = check[d].desired
        /\ c.missed = check[d].missed /\ c.text = check[d].text
    BY <1>1 DEF CheckStates
  <2>2. check' = [check EXCEPT ![d] = c]
    BY <1>2
  <2> HIDE DEF c
  <2>3. CheckIsSeen(c, history.up, history.failing)
    BY <1>1, <2>1 DEF CheckIsSeen
  <2>4. QED BY <1>1, <1>2, <2>1, <2>2, <2>3, CheckKeeps
<1>3. CASE Got(d, NoAnswer)
  BY <1>1, <1>3, GotKeeps DEF NoAnswer, Failing
<1>4. QED BY <1>2, <1>3 DEF BeginCheck

LEMMA ReadStatusStep ==
    ASSUME RolloutInv, NEW d \in Deploys, ReadStatus(d) PROVE RolloutInv'
<1> DEFINE w == Current(d)
           counts == status[w]
<1>1. /\ check[d].at = "status" /\ check[d] \in CheckStates
      /\ CheckIsSeen(check[d], history.up, history.failing)
      /\ deploy[d].at \in {"wait", "watch"} /\ UNCHANGED <<setup, cluster, job>>
      /\ setup \in Setups /\ check[d].i \in Nat \ {0}
  <2>1. /\ check[d].at = "status" /\ check[d] \in CheckStates
        /\ CheckIsSeen(check[d], history.up, history.failing)
        /\ deploy[d].at \in {"wait", "watch"} /\ UNCHANGED <<setup, cluster, job>>
        /\ setup \in Setups
    BY KnownFacts DEF ReadStatus
  <2>2. QED BY <2>1, IndexFacts
<1>2. /\ check[d].i <= Len(DiscoverReleaseWorkloads) /\ w = DiscoverReleaseWorkloads[check[d].i]
      /\ w \in Workloads
  <2>1. ~(check[d].i > Len(DiscoverReleaseWorkloads))
    BY DEF ReadStatus, AtEnd
  <2>2. check[d].i \in 1..Len(DiscoverReleaseWorkloads)
    BY <1>1, <2>1, ReleaseFacts
  <2>3. QED BY <1>1, <2>2, ReleaseFacts DEF Current
<1>3. counts \in Counts /\ (counts.ready > 0 => w \in history.up)
  BY <1>2 DEF RolloutInv, Typed, PodsWereSeen
<1> HIDE DEF w
<1>4. CASE /\ check' = [check EXCEPT ![d] =
                           WithWorkload(check[d], w, VerifySingleStatefulSet(counts), counts)]
           /\ UNCHANGED <<deploy, told>>
  <2> DEFINE one == VerifySingleStatefulSet(counts)
             c == WithWorkload(check[d], w, one, counts)
  <2>1. one.text = "none"
    BY DEF VerifySingleStatefulSet
  <2>2. check' = [check EXCEPT ![d] = c]
    BY <1>4
  <2> HIDE DEF one
  <2>3. one.text \in PodStates /\ one.text \notin Failing
    BY <2>1 DEF PodStates, Failing
  <2>4. c \in CheckStates /\ CheckIsSeen(c, history.up, history.failing)
    BY <1>1, <1>2, <1>3, <2>3, OneMoreIsSeen
  <2> HIDE DEF c
  <2>5. QED BY <1>1, <1>4, <2>2, <2>4, CheckKeeps
<1>5. CASE /\ check' = [check EXCEPT ![d].at = "pods", ![d].counts = counts]
           /\ UNCHANGED <<deploy, told>>
  <2> DEFINE c == [check[d] EXCEPT !.at = "pods", !.counts = counts]
  <2>1. /\ c \in CheckStates /\ c.at = "pods" /\ c.i = check[d].i /\ c.counts = counts
        /\ c.ready = check[d].ready /\ c.desired = check[d].desired
        /\ c.missed = check[d].missed /\ c.text = check[d].text
    BY <1>1, <1>3 DEF CheckStates
  <2>2. check' = [check EXCEPT ![d] = c]
    BY <1>1, <1>5
  <2> HIDE DEF c
  <2>3. CheckIsSeen(c, history.up, history.failing)
    BY <1>1, <1>2, <1>3, <2>1 DEF CheckIsSeen
  <2>4. QED BY <1>1, <1>5, <2>1, <2>2, <2>3, CheckKeeps
<1>6. CASE /\ check' = [check EXCEPT ![d].i = @ + 1, ![d].missed = @ \cup {w}]
           /\ UNCHANGED <<deploy, told>>
  <2> DEFINE c == [check[d] EXCEPT !.i = check[d].i + 1, !.missed = check[d].missed \cup {w}]
  <2>1. check' = [check EXCEPT ![d] = c]
    BY <1>1, <1>6
  <2>2. check[d].i + 1 \in 1..(Len(setup.release) + 1) /\ Len(DiscoverReleaseWorkloads) \in Nat
    BY <1>1, <1>2, ReleaseFacts
  <2>3. /\ c \in CheckStates /\ c.at = "status" /\ c.i = check[d].i + 1
        /\ c.ready = check[d].ready /\ c.desired = check[d].desired
        /\ c.text = check[d].text /\ c.missed = check[d].missed \cup {w}
    BY <1>1, <1>2, <2>2 DEF CheckStates
  <2> HIDE DEF c
  <2>4. ASSUME c.ready = c.desired, NEW j \in 1..(c.i - 1)
        PROVE  DiscoverReleaseWorkloads[j] \in c.missed \cup history.up
    <3>1. j = check[d].i \/ j \in 1..(check[d].i - 1)
      BY <1>1, <2>3
    <3>2. QED BY <1>1, <1>2, <2>3, <2>4, <3>1 DEF CheckIsSeen
  <2>5. c.i <= Len(DiscoverReleaseWorkloads) + 1
    BY <1>1, <1>2, <2>2, <2>3
  <2>6. CheckIsSeen(c, history.up, history.failing)
    BY <1>1, <2>3, <2>4, <2>5 DEF CheckIsSeen
  <2>7. QED BY <1>1, <1>6, <2>1, <2>3, <2>6, CheckKeeps
<1>7. CASE Got(d, NoAnswer)
  BY <1>1, <1>7, GotKeeps DEF NoAnswer, Failing
<1>8. QED BY <1>4, <1>5, <1>6, <1>7 DEF ReadStatus, w

LEMMA ReadPodsStep ==
    ASSUME RolloutInv, NEW d \in Deploys, ReadPods(d) PROVE RolloutInv'
<1> DEFINE w == Current(d)
           counts == check[d].counts
<1>1. /\ check[d].at = "pods" /\ check[d] \in CheckStates
      /\ CheckIsSeen(check[d], history.up, history.failing)
      /\ deploy[d].at \in {"wait", "watch"} /\ UNCHANGED <<setup, cluster, job>>
      /\ setup \in Setups /\ check[d].i \in Nat \ {0}
  <2>1. /\ check[d].at = "pods" /\ check[d] \in CheckStates
        /\ CheckIsSeen(check[d], history.up, history.failing)
        /\ deploy[d].at \in {"wait", "watch"} /\ UNCHANGED <<setup, cluster, job>>
        /\ setup \in Setups
    BY KnownFacts DEF ReadPods
  <2>2. QED BY <2>1, IndexFacts
<1>2. /\ check[d].i \in 1..Len(DiscoverReleaseWorkloads)
      /\ w = DiscoverReleaseWorkloads[check[d].i] /\ w \in Workloads
      /\ w \in Range(DiscoverReleaseWorkloads) /\ w \in Release
  <2>1. check[d].i \in 1..Len(DiscoverReleaseWorkloads)
    BY <1>1, ReleaseFacts DEF CheckIsSeen
  <2>2. QED BY <1>1, <2>1, ReleaseFacts DEF Current
<1>3. counts \in Counts /\ (counts.ready > 0 => w \in history.up)
  BY <1>1, <1>2 DEF CheckStates, CheckIsSeen
<1>4. pods[w] \in Pods /\ ({pods[w].old, pods[w].new} \cap Failing # {} => w \in history.failing)
  BY <1>2 DEF RolloutInv, Typed, PodsWereSeen
<1>5. Range(pods[w]) = {pods[w].old, pods[w].new}
  BY <1>4 DEF Pods, Range
<1> HIDE DEF w, counts
<1>6. PICK seen, text :
         /\ seen \in {Range(pods[w]) \ {"none"}, {}} /\ text \in WaitDetails(seen)
         /\ LET one == VerifySingleDeployment(counts, seen, text)
            IN IF Single(d) THEN Got(d, one)
               ELSE /\ check' = [check EXCEPT ![d] = WithWorkload(check[d], w, one, counts)]
                    /\ UNCHANGED <<deploy, told>>
  BY DEF ReadPods, w, counts
<1> DEFINE one == VerifySingleDeployment(counts, seen, text)
<1>7. seen \in SUBSET PodStates /\ seen \subseteq {pods[w].old, pods[w].new}
  BY <1>4, <1>5, <1>6 DEF Pods
<1>8. text \in PodStates /\ (text \in Failing => text \in seen)
  BY <1>6, <1>7, DetailsFacts
<1>9. /\ one.healthy => counts.ready > 0
      /\ one.text \in {"none", text}
  BY <1>3, <1>8, DeploymentFacts
<1> HIDE DEF one
<1>10. /\ one.text \in PodStates
       /\ one.text \in Failing => Release \cap history.failing # {}
  BY <1>2, <1>4, <1>7, <1>8, <1>9 DEF PodStates, Failing
<1>11. CASE Single(d)
  <2>1. Got(d, one)
    BY <1>6, <1>11 DEF one
  <2>2. Range(DiscoverReleaseWorkloads) = {w}
    <3>1. Len(DiscoverReleaseWorkloads) = 1
      BY <1>1, <1>11, ReleaseFacts DEF Single
    <3>2. check[d].i = 1
      BY <1>2, <3>1
    <3>3. QED BY <1>1, <1>2, <3>1, <3>2, ReleaseFacts
  <2>3. QED BY <1>1, <1>3, <1>9, <1>10, <2>1, <2>2, GotKeeps
<1>12. CASE ~Single(d)
  <2> DEFINE c == WithWorkload(check[d], w, one, counts)
  <2>1. check' = [check EXCEPT ![d] = c] /\ UNCHANGED <<deploy, told>>
    BY <1>6, <1>12 DEF one
  <2>2. check[d].i <= Len(DiscoverReleaseWorkloads)
    BY <1>2
  <2>3. c \in CheckStates /\ CheckIsSeen(c, history.up, history.failing)
    BY <1>1, <1>2, <1>3, <1>10, <2>2, OneMoreIsSeen
  <2> HIDE DEF c
  <2>4. QED BY <1>1, <2>1, <2>3, CheckKeeps
<1>13. QED BY <1>11, <1>12

\* The totals agree only where every workload that was read, and has pods, was up.
LEMMA EndCheckStep ==
    ASSUME RolloutInv, NEW d \in Deploys, EndCheck(d) PROVE RolloutInv'
<1> DEFINE r == ListVerdict(check[d])
<1>1. /\ check[d].at = "status" /\ check[d] \in CheckStates
      /\ CheckIsSeen(check[d], history.up, history.failing)
      /\ deploy[d].at \in {"wait", "watch"} /\ UNCHANGED <<setup, cluster, job>>
      /\ setup \in Setups /\ AtEnd(check[d]) /\ Got(d, r)
  BY KnownFacts DEF EndCheck
<1>2. /\ check[d].i \in Nat \ {0} /\ check[d].i > Len(DiscoverReleaseWorkloads)
      /\ Len(DiscoverReleaseWorkloads) \in Nat
  BY <1>1, IndexFacts, ReleaseFacts DEF AtEnd
<1>3. check[d].i - 1 = Len(DiscoverReleaseWorkloads)
  BY <1>1, <1>2 DEF CheckIsSeen
<1>4. /\ r.healthy => check[d].desired > 0 /\ check[d].ready = check[d].desired
      /\ r.text \in {"none", check[d].text}
  BY DEF ListVerdict, AllReady
<1> HIDE DEF r
<1>5. r.healthy => /\ Range(DiscoverReleaseWorkloads) \ check[d].missed \subseteq history.up
                   /\ Range(DiscoverReleaseWorkloads) \cap history.up # {}
  <2>1. SUFFICES ASSUME r.healthy
        PROVE  /\ Range(DiscoverReleaseWorkloads) \ check[d].missed \subseteq history.up
               /\ Range(DiscoverReleaseWorkloads) \cap history.up # {}
    OBVIOUS
  <2>2. check[d].ready > 0
    BY <1>4, <2>1
  <2>3. \A j \in 1..Len(DiscoverReleaseWorkloads) :
           DiscoverReleaseWorkloads[j] \in check[d].missed \cup history.up
    BY <1>1, <1>3, <1>4, <2>1 DEF CheckIsSeen
  <2>4. Range(DiscoverReleaseWorkloads) \ check[d].missed \subseteq history.up
    BY <1>1, <2>3, ReleaseFacts
  <2>5. QED BY <1>1, <2>2, <2>4 DEF CheckIsSeen
<1>6. r.text \in Failing => Release \cap history.failing # {}
  BY <1>1, <1>4 DEF CheckIsSeen, Failing
<1>7. QED BY <1>1, <1>5, <1>6, GotKeeps

LEMMA CallFailsStep ==
    ASSUME RolloutInv, NEW d \in Deploys, CallFails(d) PROVE RolloutInv'
<1> DEFINE dp == [deploy[d] EXCEPT !.at = IF deploy[d].at = "wait" THEN "failed" ELSE "sending"]
           t == IF deploy[d].at = "wait" THEN told[d]
                ELSE [verdict |-> "failed", why |-> "call", missed |-> check[d].missed]
<1>1. /\ deploy[d].at \in {"wait", "watch"} /\ deploy' = [deploy EXCEPT ![d] = dp]
      /\ told' = [told EXCEPT ![d] = t] /\ check' = [check EXCEPT ![d] = NoCheck]
      /\ job' = [job EXCEPT ![d] = job[d]] /\ UNCHANGED <<setup, cluster>>
  BY KnownFacts DEF CallFails, Told
<1>2. dp \in DeployStates /\ dp.at \in {"failed", "sending"}
  BY KnownFacts DEF DeployStates, Places
<1>3. t \in Verdicts /\ VerdictIsSeen(t, history.up, history.failing)
  <2>1. check[d].missed \in SUBSET Workloads
    BY KnownFacts DEF CheckStates
  <2>2. QED BY <2>1, KnownFacts DEF Verdicts, VerdictIsSeen
<1>4. /\ setup \in Setups /\ job[d] \in {"none", "running", "done", "failed"}
      /\ setup.strategy # "none" => job[d] = "done"
  BY <1>1, KnownFacts
<1> HIDE DEF dp, t
<1>5. QED BY <1>1, <1>2, <1>3, <1>4, NoCheckIsSeen, DeployKeeps

-----------------------------------------------------------------------------
(* The steps of a deploy *)

\* A deploy goes on outside of its verifications.
LEMMA PlaceKeeps ==
    ASSUME RolloutInv, NEW d \in Deploys, UNCHANGED <<setup, cluster, check, told>>,
           NEW dp \in DeployStates, deploy' = [deploy EXCEPT ![d] = dp],
           NEW b \in {"none", "running", "done", "failed"}, job' = [job EXCEPT ![d] = b],
           deploy[d].at \in {"wait", "watch"} => dp.at \in {"wait", "watch"},
           setup.strategy # "none" /\ dp.at \notin {"idle", "build", "unbuilt", "lost"} =>
              b = "done"
    PROVE  RolloutInv'
<1>1. PICK c \in CheckStates, t \in Verdicts :
         /\ check' = [check EXCEPT ![d] = c] /\ told' = [told EXCEPT ![d] = t]
         /\ CheckIsSeen(c, history.up, history.failing)
         /\ VerdictIsSeen(t, history.up, history.failing)
         /\ c.at # "off" => dp.at \in {"wait", "watch"}
  BY KnownFacts
<1>2. UNCHANGED <<setup, cluster>>
  OBVIOUS
<1>3. QED BY <1>1, <1>2, DeployKeeps, ZenonT(60)

LEMMA BuildSteps ==
    ASSUME RolloutInv, NEW d \in Deploys,
           StartDeploy(d) \/ JobEnds(d) \/ PollBuild(d) \/ BuildIsDone(d) \/ BuildFails(d)
    PROVE  RolloutInv'
<1>1. /\ deploy[d] \in DeployStates /\ job[d] \in {"none", "running", "done", "failed"}
      /\ deploy = [deploy EXCEPT ![d] = deploy[d]] /\ job = [job EXCEPT ![d] = job[d]]
      /\ setup.strategy # "none" /\ deploy[d].at \notin {"idle", "build", "unbuilt", "lost"}
            => job[d] = "done"
  BY KnownFacts
<1>2. CASE StartDeploy(d)
  <2> DEFINE dp == [deploy[d] EXCEPT !.at = IF setup.strategy = "none" THEN "apply" ELSE "build"]
             b == IF setup.strategy = "none" THEN "none" ELSE "running"
  <2>1. /\ UNCHANGED <<setup, cluster, check, told>> /\ deploy' = [deploy EXCEPT ![d] = dp]
        /\ job' = [job EXCEPT ![d] = b] /\ deploy[d].at = "idle"
    BY <1>1, <1>2 DEF StartDeploy
  <2>2. /\ dp \in DeployStates /\ dp.at = IF setup.strategy = "none" THEN "apply" ELSE "build"
    BY <1>1 DEF DeployStates, Places
  <2> HIDE DEF dp
  <2>3. QED BY <2>1, <2>2, PlaceKeeps
<1>3. CASE JobEnds(d)
  <2>1. PICK b \in {"done", "failed"} : job' = [job EXCEPT ![d] = b]
    BY <1>3 DEF JobEnds
  <2>2. QED BY <1>1, <1>3, <2>1, PlaceKeeps DEF JobEnds
<1>4. CASE PollBuild(d)
  <2> DEFINE dp == [deploy[d] EXCEPT !.polls = deploy[d].polls + 1]
  <2>1. UNCHANGED <<setup, cluster, check, told, job>> /\ deploy' = [deploy EXCEPT ![d] = dp]
        /\ deploy[d].at = "build"
    BY <1>1, <1>4 DEF PollBuild
  <2>2. dp \in DeployStates /\ dp.at = "build"
    BY <1>1, <2>1 DEF DeployStates
  <2> HIDE DEF dp
  <2>3. QED BY <1>1, <2>1, <2>2, PlaceKeeps
<1>5. CASE BuildIsDone(d)
  <2> DEFINE dp == [NoDeploy EXCEPT !.at = "apply"]
  <2>1. UNCHANGED <<setup, cluster, check, told, job>> /\ deploy' = [deploy EXCEPT ![d] = dp]
        /\ deploy[d].at = "build" /\ job[d] = "done"
    BY <1>1, <1>5 DEF BuildIsDone, BuildSucceeded
  <2>2. dp \in DeployStates /\ dp.at = "apply"
    BY DEF DeployStates, NoDeploy, Places
  <2> HIDE DEF dp
  <2>3. QED BY <1>1, <2>1, <2>2, PlaceKeeps
<1>6. CASE BuildFails(d)
  <2> DEFINE dp == [deploy[d] EXCEPT !.at = "unbuilt"]
             b == IF setup.strategy = "local" THEN "failed" ELSE job[d]
  <2>1. UNCHANGED <<setup, cluster, check, told>> /\ deploy' = [deploy EXCEPT ![d] = dp]
        /\ deploy[d].at = "build" /\ job' = [job EXCEPT ![d] = b]
    BY <1>1, <1>6 DEF BuildFails
  <2>2. dp \in DeployStates /\ dp.at = "unbuilt"
    BY <1>1 DEF DeployStates, Places
  <2> HIDE DEF dp
  <2>3. QED BY <1>1, <2>1, <2>2, PlaceKeeps
<1>7. QED BY <1>2, <1>3, <1>4, <1>5, <1>6

LEMMA EndSteps ==
    ASSUME RolloutInv, NEW d \in Deploys, EndWatch(d) \/ DeclineRecovery(d)
    PROVE  RolloutInv'
<1> DEFINE at == IF EndWatch(d) THEN "done" ELSE "declined"
           dp == [deploy[d] EXCEPT !.at = at]
<1>1. /\ deploy[d] \in DeployStates /\ job[d] \in {"none", "running", "done", "failed"}
      /\ job = [job EXCEPT ![d] = job[d]]
      /\ setup.strategy # "none" /\ deploy[d].at \notin {"idle", "build", "unbuilt", "lost"}
            => job[d] = "done"
  BY KnownFacts
<1>2. /\ UNCHANGED <<setup, cluster, check, told, job>> /\ deploy' = [deploy EXCEPT ![d] = dp]
      /\ deploy[d].at \in {"sending", "recover"}
  BY <1>1 DEF EndWatch, DeclineRecovery
<1>3. dp \in DeployStates /\ dp.at \in {"done", "declined"}
  BY <1>1 DEF DeployStates, Places
<1> HIDE DEF dp
<1>4. QED BY <1>1, <1>2, <1>3, PlaceKeeps

\* The pods of a new revision are those that were there, until they are replaced.
LEMMA RevisedFacts ==
    ASSUME NEW p \in Pods
    PROVE  /\ Revised(p) \in Pods /\ Revised(p).new = "none"
           /\ Revised(p).old \in {p.old, p.new}
  BY DEF Revised, Pods, PodStates

\* A step that revises pods and moves one deploy, none of whose verifications is under way.
LEMMA RevisionKeeps ==
    ASSUME RolloutInv, NEW d \in Deploys, UNCHANGED <<setup, status, history, job, check, told>>,
           deploy[d].at \in {"apply", "recover"},
           NEW dp \in DeployStates, deploy' = [deploy EXCEPT ![d] = dp], dp.at = "wait",
           NEW ws \in SUBSET Workloads,
           pods' = [w \in Workloads |-> IF w \in ws THEN Revised(pods[w]) ELSE pods[w]]
    PROVE  RolloutInv'
<1>1. Typed'
  <2>1. deploy' \in [Deploys -> DeployStates]
    BY DEF RolloutInv, Typed
  <2>2. pods' \in [Workloads -> Pods]
    BY RevisedFacts DEF RolloutInv, Typed
  <2>3. QED BY <2>1, <2>2, SameRelease DEF RolloutInv, Typed
<1>2. PodsWereSeen'
  <2>1. \A w \in Workloads : {pods'[w].old, pods'[w].new} \subseteq
                                {pods[w].old, pods[w].new, "none"}
    BY RevisedFacts DEF RolloutInv, Typed
  <2>2. QED BY <2>1 DEF RolloutInv, PodsWereSeen, Failing
<1>3. BuiltBefore'
  BY DEF RolloutInv, BuiltBefore, Typed
<1>4. \A e \in Deploys : check'[e].at # "off" => deploy'[e].at \in {"wait", "watch"}
  BY DEF RolloutInv, ChecksAreAwaited, Typed
<1>5. QED BY <1>1, <1>2, <1>3, <1>4, Keeps

LEMMA RevisionSteps ==
    ASSUME RolloutInv, NEW d \in Deploys, Apply(d) \/ Recover(d)
    PROVE  RolloutInv'
<1>1. deploy[d] \in DeployStates /\ setup \in Setups
  BY KnownFacts
<1>2. CASE Apply(d)
  <2>1. PICK recorded \in BOOLEAN :
           deploy' = [deploy EXCEPT ![d].at = "wait", ![d].recorded = recorded]
    BY <1>2 DEF Apply
  <2> DEFINE dp == [deploy[d] EXCEPT !.at = "wait", !.recorded = recorded]
  <2>2. deploy' = [deploy EXCEPT ![d] = dp] /\ dp \in DeployStates /\ dp.at = "wait"
    BY <1>1, <2>1 DEF DeployStates, Places
  <2>3. /\ UNCHANGED <<setup, status, history, job, check, told>> /\ deploy[d].at = "apply"
        /\ pods' = [w \in Workloads |-> IF w \in Release THEN Revised(pods[w]) ELSE pods[w]]
    BY <1>2 DEF Apply, Release
  <2> HIDE DEF dp
  <2>4. QED BY <1>1, <2>2, <2>3, ReleaseFacts, RevisionKeeps
<1>3. CASE Recover(d)
  <2> DEFINE dp == [deploy[d] EXCEPT !.at = "wait", !.polls = 0, !.recovered = TRUE]
             ws == {Head(setup.release)}
  <2>1. deploy' = [deploy EXCEPT ![d] = dp] /\ dp \in DeployStates /\ dp.at = "wait"
    BY <1>1, <1>3 DEF Recover, DeployStates, Places
  <2>2. UNCHANGED <<setup, status, history, job, check, told>> /\ deploy[d].at = "recover"
    BY <1>3 DEF Recover
  <2>3. ws \in SUBSET Workloads
    BY <1>1, ReleaseFacts
  <2>4. pods' = [w \in Workloads |-> IF w \in ws THEN Revised(pods[w]) ELSE pods[w]]
    BY <1>3, <2>3 DEF Recover, RolloutInv, Typed
  <2> HIDE DEF dp, ws
  <2>5. QED BY <2>1, <2>2, <2>3, <2>4, RevisionKeeps
<1>4. QED BY <1>2, <1>3

-----------------------------------------------------------------------------
(* The steps of the cluster, and a restart *)

\* What a pod becomes is noted where it is ready or failing.
LEMMA PodStep ==
    ASSUME RolloutInv, NEW w \in Workloads, PodChanges(w) PROVE RolloutInv'
<1>1. PICK p \in Successors(pods[w]) :
         /\ pods' = [pods EXCEPT ![w] = p]
         /\ history' = [up |-> IF p.new = "ready" THEN history.up \cup {w} ELSE history.up,
                        failing |-> IF p.new \in Failing THEN history.failing \cup {w}
                                    ELSE history.failing]
  BY DEF PodChanges
<1>2. UNCHANGED <<setup, status, job, deploy, check, told>>
  BY DEF PodChanges
<1>3. pods \in [Workloads -> Pods] /\ pods[w] \in Pods /\ setup.pods \subseteq PodStates
  BY ReleaseFacts DEF RolloutInv, Typed
<1>4. p \in Pods /\ p.old \in {pods[w].old, "none"}
  <2>1. Became(pods[w].new) \subseteq PodStates /\ {"starting", "none"} \subseteq PodStates
    BY <1>3 DEF Became, PodStates
  <2>2. CASE p = [pods[w] EXCEPT !.old = "none"]
    BY <1>3, <2>1, <2>2 DEF Pods
  <2>3. CASE p # [pods[w] EXCEPT !.old = "none"]
    <3>1. PICK s \in PodStates : p = [pods[w] EXCEPT !.new = s]
      BY <2>1, <2>3 DEF Successors
    <3>2. QED BY <1>3, <3>1 DEF Pods
  <2>4. QED BY <2>2, <2>3
<1>5. /\ history'.up = IF p.new = "ready" THEN history.up \cup {w} ELSE history.up
      /\ history'.failing = IF p.new \in Failing THEN history.failing \cup {w}
                            ELSE history.failing
      /\ history' \in [up: SUBSET Workloads, failing: SUBSET Workloads]
  BY <1>1 DEF RolloutInv, Typed
<1>6. history.up \subseteq history'.up /\ history.failing \subseteq history'.failing
  BY <1>5
<1>7. pods' \in [Workloads -> Pods] /\ pods'[w] = p
      /\ \A v \in Workloads \ {w} : pods'[v] = pods[v]
  BY <1>1, <1>3, <1>4
<1>8. PodsWereSeen'
  <2>1. ASSUME NEW v \in Workloads
        PROVE  /\ "ready" \in {pods'[v].old, pods'[v].new} => v \in history'.up
               /\ {pods'[v].old, pods'[v].new} \cap Failing # {} => v \in history'.failing
    <3>1. /\ "ready" \in {pods[v].old, pods[v].new} => v \in history.up
          /\ {pods[v].old, pods[v].new} \cap Failing # {} => v \in history.failing
      BY DEF RolloutInv, PodsWereSeen
    <3>2. CASE v = w
      BY <1>4, <1>5, <1>7, <3>1, <3>2 DEF Failing
    <3>3. CASE v # w
      BY <1>6, <1>7, <3>1, <3>3
    <3>4. QED BY <3>2, <3>3
  <2>2. \A v \in Workloads : status'[v].ready > 0 => v \in history'.up
    BY <1>2, <1>6 DEF RolloutInv, PodsWereSeen
  <2>3. QED BY <2>1, <2>2 DEF PodsWereSeen
<1>9. Typed'
  BY <1>2, <1>5, <1>7, SameRelease DEF RolloutInv, Typed
<1>10. /\ BuiltBefore'
       /\ \A e \in Deploys : check'[e].at # "off" => deploy'[e].at \in {"wait", "watch"}
  BY <1>2 DEF RolloutInv, BuiltBefore, ChecksAreAwaited
<1>11. QED BY <1>2, <1>6, <1>8, <1>9, <1>10, Keeps

LEMMA StatusStep ==
    ASSUME RolloutInv, NEW w \in Workloads, StatusChanges(w) PROVE RolloutInv'
<1>1. /\ status' = [status EXCEPT ![w] = CountsOf(pods[w])]
      /\ UNCHANGED <<setup, pods, history, job, deploy, check, told>>
  BY DEF StatusChanges
<1>2. /\ CountsOf(pods[w]) \in Counts
      /\ CountsOf(pods[w]).ready > 0 => w \in history.up
  BY CountsFacts DEF RolloutInv, Typed, PodsWereSeen
<1> DEFINE counts == CountsOf(pods[w])
<1> HIDE DEF counts
<1>3. /\ status' \in [Workloads -> Counts]
      /\ status'[w].ready > 0 => w \in history.up
      /\ \A v \in Workloads \ {w} : status'[v] = status[v]
  BY <1>1, <1>2 DEF RolloutInv, Typed
<1>4. Typed'
  BY <1>1, <1>3, SameRelease DEF RolloutInv, Typed
<1>5. PodsWereSeen'
  BY <1>1, <1>3 DEF RolloutInv, PodsWereSeen
<1>6. /\ BuiltBefore'
      /\ \A e \in Deploys : check'[e].at # "off" => deploy'[e].at \in {"wait", "watch"}
  BY <1>1 DEF RolloutInv, BuiltBefore, ChecksAreAwaited
<1>7. QED BY <1>1, <1>4, <1>5, <1>6, Keeps

\* A restart forgets what is in memory, the verifications with it.
LEMMA RestartStep == RolloutInv /\ Restart => RolloutInv'
<1> SUFFICES ASSUME RolloutInv, Restart PROVE RolloutInv'
  OBVIOUS
<1>1. /\ UNCHANGED <<setup, pods, status, history, job, told>>
      /\ check' = [d \in Deploys |-> NoCheck]
      /\ deploy' = [d \in Deploys |->
                      IF deploy[d].at \in {"build", "apply", "wait", "watch", "sending"}
                      THEN [deploy[d] EXCEPT !.at = "lost"] ELSE deploy[d]]
  BY DEF Restart, LosesDeploys, cluster
<1>2. /\ setup \in Setups /\ NoCheck \in CheckStates /\ NoCheck.at = "off"
      /\ CheckIsSeen(NoCheck, history.up, history.failing)
  BY NoCheckIsSeen DEF RolloutInv, Typed
<1>3. \A d \in Deploys : /\ deploy'[d] \in DeployStates
                         /\ deploy'[d].at = "lost" \/ deploy'[d] = deploy[d]
  <2>1. \A dp \in DeployStates : /\ [dp EXCEPT !.at = "lost"] \in DeployStates
                                 /\ [dp EXCEPT !.at = "lost"].at = "lost"
    BY DEF DeployStates, Places
  <2>2. QED BY <1>1, <2>1 DEF RolloutInv, Typed
<1>4. Typed'
  BY <1>1, <1>2, <1>3, SameRelease DEF RolloutInv, Typed
<1>5. PodsWereSeen' /\ BuiltBefore'
  BY <1>1, <1>3 DEF RolloutInv, PodsWereSeen, BuiltBefore
<1>6. \A d \in Deploys : check'[d] = NoCheck
  BY <1>1
<1>7. QED BY <1>1, <1>2, <1>4, <1>5, <1>6, Keeps

-----------------------------------------------------------------------------
(* The invariant, and what follows from it *)

LEMMA InitInv == Init => RolloutInv
<1> SUFFICES ASSUME Init PROVE RolloutInv
  OBVIOUS
<1>1. setup \in Setups /\ NoCheck \in CheckStates /\ NoCheck.at = "off"
      /\ CheckIsSeen(NoCheck, history.up, history.failing)
  BY NoCheckIsSeen DEF Init
<1>2. /\ NoDeploy \in DeployStates /\ NoDeploy.at = "idle" /\ NotTold \in Verdicts
      /\ NotTold.verdict = "none" /\ NoCounts \in Counts /\ NoCounts.ready = 0
      /\ [old |-> "none", new |-> "none"] \in Pods
  BY DEF NoDeploy, DeployStates, Places, NotTold, Verdicts, NoCounts, Counts, Pods, PodStates
<1>3. Typed
  BY <1>1, <1>2 DEF Init, Typed
<1>4. ChecksAreAwaited /\ BuiltBefore
  BY <1>1, <1>2 DEF Init, ChecksAreAwaited, BuiltBefore
<1>5. PodsWereSeen
  BY <1>2 DEF Init, PodsWereSeen, Failing
<1>6. ChecksAreSeen /\ VerdictsAreSeen
  BY <1>1, <1>2 DEF Init, ChecksAreSeen, VerdictsAreSeen, VerdictIsSeen
<1>7. QED BY <1>3, <1>4, <1>5, <1>6 DEF RolloutInv

LEMMA NextInv == RolloutInv /\ [Next]_vars => RolloutInv'
<1> SUFFICES ASSUME RolloutInv, [Next]_vars PROVE RolloutInv'
  OBVIOUS
<1>1. ASSUME NEW d \in Deploys,
             \/ StartDeploy(d) \/ JobEnds(d) \/ Step(d) \/ CallFails(d)
             \/ Recover(d) \/ DeclineRecovery(d)
      PROVE  RolloutInv'
  BY <1>1, BuildSteps, RevisionSteps, EndSteps, BeginStep, ReadStatusStep, ReadPodsStep,
     EndCheckStep, CallFailsStep DEF Step
<1>2. CASE UNCHANGED vars
  <2>1. UNCHANGED <<setup, pods, status, job, deploy, check, told, history>>
    BY <1>2 DEF vars
  <2>2. Typed' /\ PodsWereSeen' /\ BuiltBefore'
    BY <2>1, SameRelease DEF RolloutInv, Typed, PodsWereSeen, BuiltBefore
  <2>3. \A e \in Deploys : check'[e].at # "off" => deploy'[e].at \in {"wait", "watch"}
    BY <2>1 DEF RolloutInv, ChecksAreAwaited
  <2>4. QED BY <2>1, <2>2, <2>3, Keeps
<1>3. QED BY <1>1, <1>2, PodStep, StatusStep, RestartStep DEF Next

LEMMA RolloutInvariant == Spec => []RolloutInv
  BY InitInv, NextInv, PTL DEF Spec

\* Every variable keeps its type; no more pods are counted as ready than there are, and only
\* a wait or a watch verifies (verify.ts, workload-readiness-wait.ts).
THEOREM TypesAreKept == Spec => []TypeOK
<1>1. RolloutInv => TypeOK
  <2> SUFFICES ASSUME RolloutInv PROVE TypeOK
    OBVIOUS
  <2>1. \A w \in Workloads : status[w].ready <= status[w].replicas /\ status[w].replicas <= 2
    BY DEF RolloutInv, Typed, Counts
  <2>2. \A d \in Deploys :
           /\ deploy[d].at \in Places /\ deploy[d].polls \in Nat
           /\ deploy[d].recovered \in BOOLEAN
           /\ told[d].verdict \in {"none", "ready", "failed"}
    BY DEF RolloutInv, Typed, DeployStates, Verdicts
  <2>3. \A d \in Deploys : /\ check[d].at \in {"off", "status", "pods"}
                           /\ check[d].i \in 1 .. Len(setup.release) + 1
    BY DEF RolloutInv, Typed, CheckStates
  <2>4. QED BY <2>1, <2>2, <2>3 DEF TypeOK, RolloutInv, Typed, Pods, ChecksAreAwaited
<1>2. QED BY <1>1, RolloutInvariant, PTL

\* Whatever a user is told of a deploy had happened: workloads read one after the other,
\* some of them not at all, never add up to a release that was never up; what is told to
\* have failed did fail; and what was applied had been built (verify.ts:157,
\* source-build-runner.ts:91).
THEOREM VerdictsAreOfWhatHappened == Spec => []VerdictsAreTrue
<1>1. RolloutInv => VerdictsAreTrue
  <2> SUFFICES ASSUME RolloutInv PROVE VerdictsAreTrue
    OBVIOUS
  <2>1. ReadyWasSeen /\ FailureIsReal
    BY DEF RolloutInv, VerdictsAreSeen, VerdictIsSeen, ReadyWasSeen, FailureIsReal, Release
  <2>2. AppliedWasBuilt
    BY DEF RolloutInv, BuiltBefore, AppliedWasBuilt, Deployed
  <2>3. QED BY <2>1, <2>2 DEF VerdictsAreTrue
<1>2. QED BY <1>1, RolloutInvariant, PTL
=============================================================================
