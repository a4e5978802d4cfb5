-------------------------------- MODULE GitOps --------------------------------
(***************************************************************************)
(* The GitOps agent (gitops/src): the handlers of /remediate,              *)
(* /revert-deploy and /undeploy, the one working tree they share           *)
(* (repo-mirror.ts), the patches of live workloads (cluster-patch.ts), the *)
(* direct application of charts and manifests (repo-direct.ts,             *)
(* chart-apply.ts), the removal of a release (undeploy.ts), and the wait   *)
(* for Argo CD (argocd.ts).                                                *)
(*                                                                         *)
(* Requests are served concurrently, and nothing locks the working tree:   *)
(* a step of a request is what it does between two awaits.  The content of *)
(* the repository is the set of the changes made to it: a change belongs   *)
(* to one manifest, a request makes at most one, and a commit is the       *)
(* changes it adds and removes.                                            *)
(***************************************************************************)
EXTENDS Naturals, Sequences, FiniteSets, SequencesExt

CONSTANTS
    Requests,     \* requests served by the agent
    Manifests,    \* manifests of the repository
    Developer,    \* whoever else pushes to the main branch
    Scenarios,    \* GITOPS_REPO_URL, GITOPS_USE_PR, ARGOCD_URL and the dry-run
                  \* option, the manifests changed and what the requests ask for
    MaxPolls,     \* polls of Argo CD before ARGOCD_SYNC_TIMEOUT_MS
    MaxRestarts   \* restarts of the agent; its working tree is on a volume

Actions == {"git_patch", "helm_deploy", "repo_apply", "git_revert", "undeploy"}

ASSUME GitOpsAssumption ==
    /\ Developer \notin Requests /\ {"main", "detached"} \cap Requests = {}
    /\ Scenarios \subseteq [set: [repo: BOOLEAN, pr: BOOLEAN, argo: BOOLEAN, dryRun: BOOLEAN],
                            manifest: [Requests \cup {Developer} -> Manifests],
                            offers: [Requests -> SUBSET Actions]]
    /\ MaxPolls \in Nat \ {0} /\ MaxRestarts \in Nat

VARIABLES
    env,      \* the configuration, the manifest of each change, what is asked for
    req,      \* the requests
    mirror,   \* the working tree, its index, its branches, and its view of the remote
    remote,   \* the branches of the GitOps repository
    cluster,  \* the patches on live workloads, and the release deployed
    met,      \* per request, the requests that were served at the same time
    restarts

vars == <<env, req, mirror, remote, cluster, met, restarts>>

-----------------------------------------------------------------------------
(* Git *)

Changes == Requests \cup {Developer}
Branches == Requests \cup {"main", "detached"}

Commits == [by: Changes, add: SUBSET Changes, del: SUBSET Changes]

\* The content of a branch: what one of its commits added and no later one removed.
Content(branch) ==
    {c \in Changes : \E i \in DOMAIN branch :
        c \in branch[i].add /\ \A j \in DOMAIN branch : j > i => c \notin branch[j].del}

In(content, manifest) == {c \in content : env.manifest[c] = manifest}

Touched(commit) == {env.manifest[c] : c \in commit.add \cup commit.del}

HEAD == mirror.local[mirror.branch]

DirtyIn(m) == LET at == In(Content(HEAD), m)
              IN In(mirror.files, m) # at \/ In(mirror.index, m) # at

Dirty == \E m \in Manifests : DirtyIn(m)

\* The commits of a branch that another one lacks, in their order: what a rebase replays.
Missing(branch, other) ==
    LET places == {i \in DOMAIN branch : branch[i] \notin ToSet(other)}
        Rank(i) == Cardinality({j \in places : j <= i})
    IN [n \in 1..Cardinality(places) |-> branch[CHOOSE i \in places : Rank(i) = n]]

\* Put the tree on a branch with these commits, discarding what is not committed.
Checkout(g, branch, commits) ==
    [g EXCEPT !.branch = branch, !.local[branch] = commits,
              !.files = Content(commits), !.index = Content(commits)]

\* sync: git pull --rebase origin HEAD.  It is refused when the tree is dirty or
\* a rebase is under way; the commits that are not on the remote are replayed,
\* and a conflict leaves the rebase open.  Whatever happens, the caller goes on.
\* Pulling HEAD does not move refs/remotes/origin/main, which only a push does.
Sync ==
    \/ UNCHANGED mirror
    \/ /\ env.set.repo /\ ~Dirty /\ mirror.branch # "detached"
       /\ LET ahead == Missing(HEAD, remote["main"])
              news == ToSet(remote["main"]) \ ToSet(HEAD)
          IN \/ mirror' = Checkout(mirror, mirror.branch, remote["main"] \o ahead)
             \/ /\ \E c \in ToSet(ahead), d \in news : Touched(c) \cap Touched(d) # {}
                /\ mirror' = Checkout(mirror, "detached", remote["main"])

\* git push origin <branch>: refused unless it is a fast-forward.
CanPush(branch) ==
    branch \in DOMAIN remote => IsPrefix(remote[branch], mirror.local[branch])

PushBranch(branch) ==
    /\ remote' = [b \in DOMAIN remote \cup {branch} |->
                     IF b = branch THEN mirror.local[branch] ELSE remote[b]]
    /\ mirror' = IF branch = "main" THEN [mirror EXCEPT !.tracked = mirror.local["main"]] ELSE mirror

-----------------------------------------------------------------------------
(* Requests *)

Targets == {"cluster", "gitops", "auto"}

\* What a request brings: a chart in the plan, or the chart or the manifest of the
\* application's repository; a patch, or one without operations; or nothing.
Brought == {"generated", "chart", "manifest", "patch", "nothing"}

Brings(action) ==
    CASE action \in {"helm_deploy", "repo_apply"} -> {"generated", "chart", "manifest"}
      [] action = "git_patch" -> {"patch", "nothing"}
      [] OTHER -> {"nothing"}

\* at is the next step; ok and sha are what the answer reports; read is the
\* content computed for the manifest; prev is the branch as getHeadSha saw it;
\* todo is the strategies left to deploy a chart, or what an undeploy found.
NoRequest == [at |-> "none", action |-> "git_patch", target |-> "cluster", brings |-> "nothing",
              undoes |-> Developer, read |-> {}, sha |-> Developer, prev |-> <<>>,
              polls |-> 0, todo |-> {}, ok |-> FALSE]

Steps == {"head", "cluster", "app", "sync", "read", "branch", "write", "add", "commit", "log",
          "push", "back", "hotfix", "argo", "probe", "plain", "helm", "template", "upgrade",
          "kubectl", "revsync", "revert", "revlog", "revpush",
          "snapshot", "uninstall", "again", "delete", "check"}

Active(r) == req[r].at \in Steps

Init ==
    /\ env \in Scenarios
    /\ req = [r \in Requests |-> NoRequest]
    /\ mirror = [branch |-> "main", local |-> [b \in Branches |-> <<>>],
                 files |-> {}, index |-> {}, tracked |-> <<>>]
    /\ remote = [b \in {"main"} |-> <<>>]
    /\ cluster = [patched |-> {}, applied |-> {}, deployment |-> FALSE, helm |-> FALSE]
    /\ met = [r \in Requests |-> {}]
    /\ restarts = 0

FirstStep(action) ==
    CASE action \in {"git_patch", "helm_deploy"} -> "head"
      [] action = "repo_apply" -> "probe"
      [] action = "git_revert" -> "revsync"
      [] action = "undeploy" -> "snapshot"

\* The answer to the request reports a commit.
Deployed(r) == req[r].at = "done" /\ req[r].ok /\ req[r].sha # Developer

Asked(action, target, brings, undoes) ==
    [NoRequest EXCEPT !.at = FirstStep(action), !.action = action, !.target = target,
                      !.brings = brings, !.undoes = undoes]

\* A request arrives: POST /remediate, /revert-deploy or /undeploy.  A revert
\* names the commit that the answer to an earlier deployment reported.
Arrive(r) ==
    /\ req[r].at = "none"
    /\ \E action \in env.offers[r], target \in Targets, undoes \in Changes :
       \E brings \in Brings(action) :
          /\ (action = "git_patch") \/ target = "cluster"
          /\ IF action = "git_revert" THEN undoes \in Requests /\ Deployed(undoes)
             ELSE undoes = Developer
          /\ req' = [req EXCEPT ![r] = Asked(action, target, brings, undoes)]
    /\ met' = [q \in Requests |->
                  IF q = r THEN {p \in Requests : Active(p)}
                  ELSE IF Active(q) THEN met[q] \cup {r} ELSE met[q]]
    /\ UNCHANGED <<env, mirror, remote, cluster, restarts>>

Goto(r, at) == req' = [req EXCEPT ![r].at = at]
Finish(r, ok) == req' = [req EXCEPT ![r].at = "done", ![r].ok = ok, ![r].read = {},
                                    ![r].sha = IF ok THEN @ ELSE Developer, ![r].todo = {}]

\* What a throw ends in: a patch that could not be pushed is tried on the live
\* workload, whatever its target; anything else is a failed result.
Throw(r) == IF req[r].action = "git_patch" /\ req[r].at \in Steps \ {"head", "cluster", "hotfix"}
            THEN req' = [req EXCEPT ![r].at = "hotfix", ![r].sha = Developer]
            ELSE Finish(r, FALSE)

Step(r, at) == req[r].at = at /\ UNCHANGED <<env, met, restarts>>

\* What no strategy reported applied waits for Argo CD, if there is one, and is a
\* success without it: a registration, a chart applied in its place, and a patch
\* without operations.
Conclude(r) ==
    IF env.set.argo /\ (req[r].action = "helm_deploy" \/ req[r].brings = "nothing")
    THEN Goto(r, "argo") ELSE Finish(r, TRUE)

\* getHeadSha: sync and rev-parse.  A patch without operations goes neither to the
\* live workload nor to the mirror.
HeadSha(r) ==
    /\ Step(r, "head")
    /\ Sync
    /\ \/ /\ req[r].brings # "nothing"
          /\ req' = [req EXCEPT ![r].prev = mirror'.local[mirror'.branch],
                                ![r].at = IF req[r].action = "helm_deploy" THEN "app"
                                          ELSE IF req[r].target = "gitops" THEN "sync"
                                          ELSE "cluster"]
       \/ /\ req[r].brings = "nothing"
          /\ IF req[r].target = "gitops" /\ ~env.set.repo THEN Finish(r, FALSE) ELSE Conclude(r)
    /\ UNCHANGED <<remote, cluster>>

\* applyClusterGitPatch, first in the modes cluster and auto.  When it fails, the
\* mirror is tried in the mode auto, if there is a repository.
ClusterPatch(r) ==
    /\ Step(r, "cluster")
    /\ \/ cluster' = [cluster EXCEPT !.patched = @ \cup {r}] /\ Finish(r, TRUE)
       \/ /\ UNCHANGED cluster
          /\ IF req[r].target = "auto" /\ env.set.repo THEN Goto(r, "sync") ELSE Finish(r, FALSE)
    /\ UNCHANGED <<mirror, remote>>

\* The fallback when the mirror failed.
HotFix(r) ==
    /\ Step(r, "hotfix")
    /\ \/ cluster' = [cluster EXCEPT !.patched = @ \cup {r}] /\ Finish(r, TRUE)
       \/ UNCHANGED cluster /\ Finish(r, FALSE)
    /\ UNCHANGED <<mirror, remote>>

\* pushHelmToAppRepo: the chart goes to the application's own repository.
AppRepoPush(r) ==
    /\ Step(r, "app")
    /\ Goto(r, "sync") \/ Finish(r, FALSE)
    /\ UNCHANGED <<mirror, remote, cluster>>

-----------------------------------------------------------------------------
(* applyPatchAndPush *)

SyncMirror(r) ==
    /\ Step(r, "sync")
    /\ Sync
    /\ Goto(r, "read")
    /\ UNCHANGED <<remote, cluster>>

\* What the patch makes of the manifest: a patch changes it, a registration puts
\* itself in its place, whatever it held.
Patched(r) == (IF req[r].action = "helm_deploy" THEN {} ELSE In(mirror.files, env.manifest[r]))
              \cup {r}

\* Read the manifest, patch it, validate it with a dry run.  Without Argo CD's
\* definitions the dry run of a registration fails, and the chart is applied
\* directly instead.
ReadManifest(r) ==
    /\ Step(r, "read")
    /\ \/ req' = [req EXCEPT ![r].read = Patched(r),
                             ![r].at = IF env.set.pr THEN "branch" ELSE "write"]
       \/ Throw(r)
       \/ req[r].action = "helm_deploy" /\ Goto(r, "probe")
    /\ UNCHANGED <<mirror, remote, cluster>>

\* git checkout -b sre-bot/<incident>, from wherever the tree is.
CreateBranch(r) ==
    /\ Step(r, "branch")
    /\ IF mirror.branch = "detached" \/ mirror.local[r] # <<>>
       THEN Throw(r) /\ UNCHANGED mirror
       ELSE /\ mirror' = [mirror EXCEPT !.branch = r, !.local[r] = HEAD]
            /\ Goto(r, "write")
    /\ UNCHANGED <<remote, cluster>>

\* Replace a manifest of a content by what a request computed for it.
With(content, r) == {c \in content : env.manifest[c] # env.manifest[r]} \cup req[r].read

WriteManifest(r) ==
    /\ Step(r, "write")
    /\ mirror' = [mirror EXCEPT !.files = With(@, r)]
    /\ Goto(r, "add")
    /\ UNCHANGED <<remote, cluster>>

\* git add <manifest>: whatever is in the file by now.
AddManifest(r) ==
    /\ Step(r, "add")
    /\ mirror' = [mirror EXCEPT
          !.index = {c \in @ : env.manifest[c] # env.manifest[r]}
                    \cup In(mirror.files, env.manifest[r])]
    /\ Goto(r, "commit")
    /\ UNCHANGED <<remote, cluster>>

\* git commit: the whole index, on the branch the tree is on.  When there is
\* nothing to commit, git says so on its standard output and nothing throws.
Commit(r) ==
    /\ Step(r, "commit")
    /\ LET at == Content(HEAD)
           commit == [by |-> r, add |-> mirror.index \ at, del |-> at \ mirror.index]
       IN mirror' = IF mirror.index = at THEN mirror
                    ELSE [mirror EXCEPT !.local[mirror.branch] = Append(@, commit)]
    /\ Goto(r, "log")
    /\ UNCHANGED <<remote, cluster>>

\* The commit reported is the last one of the branch, by now.
Latest(branch) == IF branch = <<>> THEN Developer ELSE Last(branch).by

ReadLog(r) ==
    /\ Step(r, "log")
    /\ req' = [req EXCEPT ![r].sha = Latest(HEAD), ![r].at = "push"]
    /\ UNCHANGED <<mirror, remote, cluster>>

\* After the push: the answer, or the wait for Argo CD.
AfterMirror(r) ==
    IF env.set.pr /\ req[r].at = "push" THEN Goto(r, "back")
    ELSE Conclude(r)

\* Mutant: the push replaces whatever is on the remote.
PushForced(r) ==
    /\ Step(r, "push")
    /\ PushBranch(IF env.set.pr THEN r ELSE "main")
    /\ AfterMirror(r)
    /\ UNCHANGED cluster

\* Mutant: a push that is refused is taken for one that was not needed.
PushUnchecked(r) ==
    /\ Step(r, "push")
    /\ \/ CanPush("main") /\ PushBranch("main")
       \/ UNCHANGED <<mirror, remote>>
    /\ AfterMirror(r)
    /\ UNCHANGED cluster

\* git push: refused by the remote, failed on the way, or done.
Push(r) ==
    /\ Step(r, "push")
    /\ LET branch == IF env.set.pr THEN r ELSE "main"
       IN \/ ~env.set.repo /\ AfterMirror(r) /\ UNCHANGED <<mirror, remote>>
          \/ env.set.repo /\ CanPush(branch) /\ PushBranch(branch) /\ AfterMirror(r)
          \/ env.set.repo /\ Throw(r) /\ UNCHANGED <<mirror, remote>>
    /\ UNCHANGED cluster

\* git checkout main.  Uncommitted files are carried over, unless they differ
\* between the branches.
BackToMain(r) ==
    /\ Step(r, "back")
    /\ LET main == Content(mirror.local["main"])
           dirty == {m \in Manifests : DirtyIn(m)}
           Carry(content) == {c \in content : env.manifest[c] \in dirty}
                             \cup {c \in main : env.manifest[c] \notin dirty}
       IN IF \A m \in dirty : In(Content(HEAD), m) = In(main, m)
          THEN /\ mirror' = [mirror EXCEPT !.branch = "main", !.files = Carry(@), !.index = Carry(@)]
               /\ AfterMirror(r)
          ELSE Throw(r) /\ UNCHANGED mirror
    /\ UNCHANGED <<remote, cluster>>

\* Mutant: the deadline is set anew when it has passed.
PollWithoutDeadline(r) ==
    /\ Step(r, "argo")
    /\ \/ Finish(r, TRUE) \/ Finish(r, FALSE)
       \/ req' = [req EXCEPT ![r].polls = (@ + 1) % MaxPolls]
    /\ UNCHANGED <<mirror, remote, cluster>>

\* Mutant: the deadline is looked at too late.
PollTooLong(r) ==
    /\ Step(r, "argo")
    /\ \/ Finish(r, TRUE)
       \/ Finish(r, FALSE)
       \/ req[r].polls <= MaxPolls /\ req' = [req EXCEPT ![r].polls = @ + 1]
    /\ UNCHANGED <<mirror, remote, cluster>>

\* waitForSync: one poll.  Synced is success; Degraded and the deadline are not.
PollArgo(r) ==
    /\ Step(r, "argo")
    /\ \/ Finish(r, TRUE)
       \/ Finish(r, FALSE)
       \/ req[r].polls + 1 < MaxPolls /\ req' = [req EXCEPT ![r].polls = @ + 1]
    /\ UNCHANGED <<mirror, remote, cluster>>

-----------------------------------------------------------------------------
(* applyRepoDirect *)

\* The namespace is created, the repository cloned, the API server reached
\* (repairing the kubeconfig once): any of these may fail.
Probe(r) ==
    /\ Step(r, "probe")
    /\ \/ Goto(r, CASE req[r].brings = "generated" -> "plain"
                    [] req[r].brings = "chart" -> "helm"
                    [] req[r].brings = "manifest" -> "kubectl")
       \/ Finish(r, FALSE)
    /\ UNCHANGED <<mirror, remote, cluster>>

\* What an apply leaves in the cluster: all of it, or, when it fails, perhaps a part.
Applied(r, helm) ==
    cluster' = [cluster EXCEPT !.applied = @ \cup {r}, !.deployment = TRUE, !.helm = @ \/ helm]
AppliedInPart(helm) ==
    \/ UNCHANGED cluster
    \/ cluster' = [cluster EXCEPT !.deployment = TRUE, !.helm = @ \/ helm]

\* A strategy applies the chart; or fails, and the next one is tried only if the
\* failure is one that another tool may not meet.
Strategy(r, at, helm, next) ==
    /\ Step(r, at)
    /\ \/ Applied(r, helm) /\ Conclude(r)
       \/ AppliedInPart(helm) /\ (Finish(r, FALSE) \/ (next # "none" /\ Goto(r, next)))
    /\ UNCHANGED <<mirror, remote>>

ApplyPlain(r) == Strategy(r, "plain", FALSE, "helm")
ApplyTemplate(r) == Strategy(r, "template", FALSE, "upgrade")
ApplyUpgrade(r) == Strategy(r, "upgrade", TRUE, "none")

\* helm version, and the chart's dependencies.
HelmUsable(r) ==
    /\ Step(r, "helm")
    /\ Goto(r, "template") \/ Finish(r, FALSE)
    /\ UNCHANGED <<mirror, remote, cluster>>

\* A manifest that is not part of a chart: with the dry-run option, kubectl apply
\* is given --dry-run=server, and that is all that is done.
ApplyManifest(r) ==
    /\ Step(r, "kubectl")
    /\ \/ (IF env.set.dryRun THEN UNCHANGED cluster ELSE Applied(r, FALSE)) /\ Conclude(r)
       \/ (IF env.set.dryRun THEN UNCHANGED cluster ELSE AppliedInPart(FALSE)) /\ Finish(r, FALSE)
    /\ UNCHANGED <<mirror, remote>>

-----------------------------------------------------------------------------
(* revertDeployCommit *)

RevertSync(r) ==
    /\ Step(r, "revsync")
    /\ Sync
    /\ Goto(r, "revert")
    /\ UNCHANGED <<remote, cluster>>

\* The commit a request reported, wherever it is.
CommitBy(by) ==
    {c \in UNION {ToSet(mirror.local[b]) : b \in Branches} : c.by = by}

\* git revert of the commit; or, when git refuses, git reset --hard to what the
\* tree was on before the deployment.
RevertCommit(r) ==
    /\ Step(r, "revert")
    /\ LET deploy == req[req[r].undoes]
           at == Content(HEAD)
       IN \/ \E c \in CommitBy(deploy.sha) :
                /\ ~Dirty /\ mirror.branch # "detached"
                /\ c.add \subseteq at /\ c.del \cap at = {} /\ c.add \cup c.del # {}
                /\ mirror' = Checkout(mirror, mirror.branch,
                                 Append(HEAD, [by |-> r, add |-> c.del, del |-> c.add]))
          \/ mirror' = Checkout(mirror, mirror.branch, deploy.prev)
    /\ Goto(r, "revlog")
    /\ UNCHANGED <<remote, cluster>>

RevertLog(r) ==
    /\ Step(r, "revlog")
    /\ req' = [req EXCEPT ![r].sha = Latest(HEAD), ![r].at = "revpush"]
    /\ UNCHANGED <<mirror, remote, cluster>>

\* git push origin main --force-with-lease: refused only when the remote is not
\* what the last fetch saw.
RevertPush(r) ==
    /\ Step(r, "revpush")
    /\ \/ ~env.set.repo /\ Finish(r, TRUE) /\ UNCHANGED <<mirror, remote>>
       \/ env.set.repo /\ mirror.tracked = remote["main"] /\ PushBranch("main") /\ Finish(r, TRUE)
       \/ env.set.repo /\ Finish(r, FALSE) /\ UNCHANGED <<mirror, remote>>
    /\ UNCHANGED cluster

-----------------------------------------------------------------------------
(* undeployWorkload *)

\* A query that fails is taken for the absence of what it asks for.
Seen == {s \in SUBSET {"deployment", "helm"} :
            /\ "deployment" \in s => cluster.deployment
            /\ "helm" \in s => cluster.helm}

Snapshot(r) ==
    /\ Step(r, "snapshot")
    /\ \E seen \in Seen :
          IF seen = {} THEN Finish(r, FALSE)
          ELSE req' = [req EXCEPT ![r].todo = seen, ![r].at = "uninstall"]
    /\ UNCHANGED <<mirror, remote, cluster>>

\* helm uninstall removes the release and the deployment with it; it may fail.
Uninstall(r) ==
    /\ Step(r, "uninstall")
    /\ \/ "helm" \in req[r].todo
          /\ cluster' = [cluster EXCEPT !.helm = FALSE,
                                        !.deployment = IF cluster.helm THEN FALSE ELSE @]
       \/ UNCHANGED cluster
    /\ Goto(r, "again")
    /\ UNCHANGED <<mirror, remote>>

SnapshotAgain(r) ==
    /\ Step(r, "again")
    /\ \E seen \in Seen : req' = [req EXCEPT ![r].todo = seen, ![r].at = "delete"]
    /\ UNCHANGED <<mirror, remote, cluster>>

\* kubectl delete of the deployment if it is still seen, and of what carries the
\* release's label.
DeleteObjects(r) ==
    /\ Step(r, "delete")
    /\ cluster' = cluster \/ cluster' = [cluster EXCEPT !.deployment = FALSE]
    /\ Goto(r, "check")
    /\ UNCHANGED <<mirror, remote>>

CheckGone(r) ==
    /\ Step(r, "check")
    /\ \E seen \in Seen : Finish(r, "deployment" \notin seen)
    /\ UNCHANGED <<mirror, remote, cluster>>

-----------------------------------------------------------------------------
(* The rest of the world *)

\* Somebody else pushes a commit to the main branch.
DeveloperPushes ==
    /\ env.set.repo
    /\ Developer \notin {c.by : c \in ToSet(remote["main"])}
    /\ remote' = [remote EXCEPT !["main"] =
                     Append(@, [by |-> Developer, add |-> {Developer}, del |-> {}])]
    /\ UNCHANGED <<env, req, mirror, cluster, met, restarts>>

\* The agent restarts: the requests it was serving are gone, the tree is as they
\* left it.  init opens it and syncs.
Restart ==
    /\ restarts < MaxRestarts
    /\ \E r \in Requests : Active(r)
    /\ req' = [r \in Requests |-> IF Active(r)
                            THEN [NoRequest EXCEPT !.at = "lost", !.action = req[r].action]
                            ELSE req[r]]
    /\ Sync
    /\ restarts' = restarts + 1
    /\ UNCHANGED <<env, remote, cluster, met>>

Serve(r) ==
    \/ HeadSha(r) \/ ClusterPatch(r) \/ HotFix(r) \/ AppRepoPush(r)
    \/ SyncMirror(r) \/ ReadManifest(r) \/ CreateBranch(r) \/ WriteManifest(r) \/ AddManifest(r)
    \/ Commit(r) \/ ReadLog(r) \/ Push(r) \/ BackToMain(r) \/ PollArgo(r)
    \/ Probe(r) \/ ApplyPlain(r) \/ HelmUsable(r) \/ ApplyTemplate(r) \/ ApplyUpgrade(r)
    \/ ApplyManifest(r)
    \/ RevertSync(r) \/ RevertCommit(r) \/ RevertLog(r) \/ RevertPush(r)
    \/ Snapshot(r) \/ Uninstall(r) \/ SnapshotAgain(r) \/ DeleteObjects(r) \/ CheckGone(r)

Progress == \E r \in Requests : Serve(r)

Next ==
    \/ Progress
    \/ \E r \in Requests : Arrive(r)
    \/ DeveloperPushes
    \/ Restart

\* Every step is the end of a command or of a request that ends.
Spec == Init /\ [][Next]_vars /\ WF_vars(Progress)

-----------------------------------------------------------------------------
(* Properties *)

TypeOK ==
    /\ env \in Scenarios
    /\ \A r \in Requests :
          /\ req[r].at \in Steps \cup {"none", "done", "lost"}
          /\ req[r].action \in Actions /\ req[r].target \in Targets /\ req[r].brings \in Brought
          /\ req[r].undoes \in Changes /\ req[r].sha \in Changes
          /\ req[r].read \subseteq Changes
          /\ ToSet(req[r].prev) \subseteq Commits
          /\ req[r].polls \in 0..MaxPolls
          /\ req[r].todo \subseteq {"deployment", "helm"}
          /\ req[r].ok \in BOOLEAN
    /\ mirror.branch \in Branches
    /\ \A b \in Branches : ToSet(mirror.local[b]) \subseteq Commits
    /\ mirror.files \subseteq Changes /\ mirror.index \subseteq Changes
    /\ DOMAIN remote \subseteq Branches
    /\ cluster \in [patched: SUBSET Requests, applied: SUBSET Requests,
                    deployment: BOOLEAN, helm: BOOLEAN]
    /\ met \in [Requests -> SUBSET Requests]
    /\ restarts \in 0..MaxRestarts

\* A request served together with r wrote the same file of the tree or, with pull
\* requests, moved the tree to its branch; or there was a revert, which resets the
\* tree, and can push a main branch that the tree has left.
Disturbed(r) ==
    \/ \E q \in met[r] : env.set.pr \/ env.manifest[q] = env.manifest[r]
    \/ \E q \in Requests : req[q].at # "none" /\ req[q].action = "git_revert"

\* What the agent reports applied without applying anything: a patch without
\* operations, and a manifest that is only run dry.
OnlyReported(r) ==
    req[r].brings = "nothing" \/ (req[r].brings = "manifest" /\ env.set.dryRun)

\* A patch or a registration that is reported applied, and is not one of those, is
\* on the remote or on the live workload, whatever the other requests that share the tree, its index and
\* its branch were doing to other manifests (repo-mirror.ts:106-231), and whatever
\* an earlier request or a restart left in the tree.
SuccessLanded ==
    [][\A r \in Requests :
          /\ req[r].at # "done" /\ req'[r].at = "done" /\ req'[r].ok /\ env.set.repo
          /\ req[r].action \in {"git_patch", "helm_deploy"}
          /\ ~Disturbed(r) /\ ~OnlyReported(r)
          => \/ r \in cluster'.patched \cup cluster'.applied
             \/ \E b \in DOMAIN remote' : r \in Content(remote'[b])]_vars

\* A registration takes the place of whatever else is in its manifest.
Replaced(c) ==
    \E r \in Requests \ {c} :
        req[r].action = "helm_deploy" /\ env.manifest[r] = env.manifest[c]

\* What is on the main branch stays there, unless a revert or a registration of the
\* same manifest was asked for, or requests that were served together wrote over
\* each other: no push replaces a developer's commit, however stale the tree it
\* comes from (repo-mirror.ts:199-204).  A revert or a registration that was
\* interrupted or refused counts: the next push carries it.
LandedStays ==
    [][\A c \in Content(remote["main"]) :
          c \notin Content(remote'["main"])
          => \/ Replaced(c)
             \/ \E r \in Requests : req[r].action = "git_revert" \/ met[r] # {}]_vars

\* A change that is reported lands, and one that landed stays until it is reverted or
\* replaced (repo-mirror.ts:128).
ChangesLandAndStay == SuccessLanded /\ LandedStays

\* Every request ends: each wait has a deadline and each fallback is the last
\* (remediator.ts:115, argocd.ts:44).
RequestsEnd == []<>(\A r \in Requests : ~Active(r))

\* A direct deployment that is reported applied was applied: the dry run comes
\* before the apply (docs/ARCHITECTURE.md:334).
DirectSuccessApplied ==
    \A r \in Requests :
        req[r].at = "done" /\ req[r].ok /\ req[r].action = "repo_apply" => r \in cluster.applied

\* A patch that is reported applied changed something (remediator.ts:364-389).
PatchSuccessApplied ==
    [][\A r \in Requests :
          /\ req[r].at # "done" /\ req'[r].at = "done" /\ req'[r].ok /\ env.set.repo
          /\ req[r].action = "git_patch" /\ ~Disturbed(r)
          => \/ r \in cluster'.patched
             \/ \E b \in DOMAIN remote' : r \in Content(remote'[b])]_vars

\* A registration leaves the rest of its manifest alone.
RegistrationsAddOnly ==
    [][\A c \in Content(remote["main"]) :
          c \notin Content(remote'["main"])
          => \E r \in Requests : req[r].action = "git_revert" \/ met[r] # {}]_vars

\* In the mode gitops a patch goes to the mirror, never to the live workload
\* (README.md:100).
GitopsModeSparesCluster ==
    \A r \in cluster.patched : req[r].target # "gitops"

=============================================================================
