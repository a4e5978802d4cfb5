---------------------------- MODULE DeploySource ----------------------------
(***************************************************************************)
(* How a workload was deployed, and what is missing to fix it the same way *)
(* (shared/src/deploy-provenance.ts, deploy-source-parse.ts): what several *)
(* sources say is merged, an incomplete result is asked about, and the     *)
(* operator's reply is one more source.                                    *)
(*                                                                         *)
(* A provenance has a method, a surface to fix, the details that are       *)
(* known, and who said so last.  Values of details play no part.           *)
(***************************************************************************)
EXTENDS Sequences, SequencesExt

Methods == {"unknown", "helm", "kustomize", "plain-yaml", "argocd", "operator-cr", "direct-apply"}
Surfaces == {"gitops-repo", "app-repo", "cluster-live", "operator-cr"}

Details == {"sourceRepo", "gitopsRepo", "chart", "manifest", "ref", "argoApp", "operatorCr"}
Speakers == {"inferred", "registry", "cluster", "git-mirror", "user-provided"}

DefaultFixSurface(method) ==
    CASE method = "operator-cr" -> "operator-cr"
      [] method = "direct-apply" -> "cluster-live"
      [] OTHER -> "gitops-repo"

\* What one source says; "" where it says nothing.
Says(method, has, source) ==
    [method |-> method, surface |-> DefaultFixSurface(method), has |-> has, source |-> source,
     hotFix |-> FALSE]

Silent == [method |-> "unknown", surface |-> "", has |-> {}, source |-> "", hotFix |-> FALSE]

Blank == [method |-> "unknown", surface |-> "gitops-repo", has |-> {}, source |-> "inferred",
          hotFix |-> FALSE]

\* Of each field, the last part that says something of it counts.
LastOf(S) == CHOOSE i \in S : \A j \in S : j <= i

\* Mutant: the branch is not carried over.
KnownButRef(parts) == UNION {parts[i].has : i \in DOMAIN parts} \ {"ref"}

KnownDetails(parts) == UNION {parts[i].has : i \in DOMAIN parts}

MergeDeployProvenance(parts) ==
    LET all == <<Blank>> \o parts
        known == {i \in DOMAIN all : i = 1 \/ all[i].method # "unknown"}
        placed == {i \in DOMAIN all : all[i].surface # ""}
        signed == {i \in DOMAIN all : all[i].source # ""}
    IN [method |-> all[LastOf(known)].method,
        surface |-> all[LastOf(placed)].surface,
        has |-> KnownDetails(all),
        source |-> all[LastOf(signed)].source,
        hotFix |-> \E i \in DOMAIN all : all[i].hotFix]

\* computeMissingFields: what a fix on the surface of the method lacks.
ComputeMissingFields(p) ==
    LET repo == {"sourceRepo", "gitopsRepo"} \cap p.has # {}
        path == {"chart", "manifest"} \cap p.has # {}
        lack(detail, when) == IF when THEN {detail} ELSE {}
    IN IF p.hotFix \/ p.method = "unknown" \/ p.surface = "cluster-live" THEN {}
       ELSE IF p.surface = "operator-cr"
       THEN lack("operatorCr", "operatorCr" \notin p.has)
            \cup lack("sourceRepo", {"sourceRepo", "manifest"} \cap p.has = {})
       ELSE CASE p.method = "helm" ->
                   lack("sourceRepo", ~repo) \cup lack("chart", ~path)
                   \cup lack("ref", "ref" \notin p.has)
              [] p.method = "argocd" ->
                   lack("argoApp", "argoApp" \notin p.has /\ ~repo)
                   \cup lack("sourceRepo", ~repo /\ ~path)
              [] p.method \in {"kustomize", "plain-yaml"} -> lack("manifest", ~path /\ ~repo)
              [] OTHER -> {}

IsDeploySourceReady(p) == p.hotFix \/ ComputeMissingFields(p) = {}

NeedsDeploySourcePrompt(p) ==
    ~p.hotFix /\ p.surface # "cluster-live" /\ ComputeMissingFields(p) # {}

\* The prompt asks for the repository where the manifest is missing.
Asked(p) == {IF d = "manifest" THEN "sourceRepo" ELSE d : d \in ComputeMissingFields(p)}

-----------------------------------------------------------------------------
HotFixButton == [Silent EXCEPT !.method = "direct-apply", !.hotFix = TRUE]

HotFixReply ==
    [method |-> "direct-apply", surface |-> "cluster-live", has |-> {},
     source |-> "user-provided", hotFix |-> TRUE]

\* A reply: the details it gives after the words that announce them, as in "repo github.com/acme/app
\* chart deploy/app branch main", those it gives by themselves, as in the examples of the prompt
\* ("github.com/org/app", "deploy/helm/myapp", "@develop"), and the method one of its words or paths
\* happens to name, "" where none does.
Reply(named, bare, word) == [named |-> named, bare |-> bare, word |-> word]
Exemplified == {"sourceRepo", "chart", "ref"}
Gives(reply) == reply.named \cup reply.bare

\* Of what is given by itself only a repository is recognised: no pattern is there for a path, and
\* the one for @ wants a word before it.
Recognised(reply) == reply.named \cup (reply.bare \cap {"sourceRepo"})

\* The chart path of the prompt's example names helm.
MethodWord(reply) == IF reply.word = "" /\ "chart" \in reply.bare THEN "helm" ELSE reply.word

\* Where no word names a method, the details suggest one.
SuggestedMethod(has) ==
    IF "chart" \in has THEN "helm"
    ELSE IF "argoApp" \in has THEN "argocd"
    ELSE IF "manifest" \in has THEN "plain-yaml"
    ELSE IF "sourceRepo" \in has THEN "helm"
    ELSE "unknown"

ReplyMethod(reply) ==
    IF "operatorCr" \in reply.named THEN "operator-cr"
    ELSE IF MethodWord(reply) # "" THEN MethodWord(reply)
    ELSE SuggestedMethod(Recognised(reply))

ParseDeploySourceReply(reply) ==
    LET method == ReplyMethod(reply)
    IN IF Recognised(reply) = {} /\ MethodWord(reply) = "" THEN Silent
       ELSE [method |-> method,
             surface |-> IF method = "unknown" THEN "" ELSE DefaultFixSurface(method),
             has |-> Recognised(reply), source |-> "user-provided", hotFix |-> FALSE]

-----------------------------------------------------------------------------
\* What the investigator finds out by itself: annotations and labels of the workload, its
\* owners, and the mirror of the GitOps repository.
Annotated(method, has) == Says(method, has, "cluster")
HelmLabelled == Says("helm", {}, "cluster")
ArgoLabelled == Says("argocd", {"argoApp"}, "cluster")
Owned == Says("operator-cr", {"operatorCr"}, "cluster")
Mirrored(method) ==
    Says(method, IF method = "helm" THEN {"manifest", "chart", "gitopsRepo"} ELSE {"manifest", "gitopsRepo"},
         "git-mirror")
=============================================================================
