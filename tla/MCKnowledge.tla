------------------------------ MODULE MCKnowledge -----------------------------
(* Signatures, runs and deploy sources for the runs of Knowledge. *)
EXTENDS Knowledge

CONSTANTS r1, r2

oom == <<"compute", "OOMKilled">>
crash == <<"compute", "CrashLoopBackOff">>
backoff == <<"compute", "BackOff">>
pull == <<"gitops", "CrashLoopBackOff">>
shop == <<"gitops", "shop">>
cart == <<"gitops", "cart">>

MCKeyOrder == <<backoff, crash, oom, cart, pull, shop>>

\* BackOff is like OOMKilled, which is like CrashLoopBackOff; registry entries are alike.
likes == {<<"BackOff", "OOMKilled">>, <<"OOMKilled", "CrashLoopBackOff">>, <<"shop", "cart">>}
MCAlike == likes \cup {<<p[2], p[1]>> : p \in likes}

MCContaining == {<<"CrashLoopBackOff", "BackOff">>}

learning(seeds, k1, m1, k2, faults, restarts, llm) ==
    [seeds |-> seeds, key |-> (r1 :> k1) @@ (r2 :> k2), mode |-> (r1 :> m1) @@ (r2 :> "diagnose"),
     facts |-> <<>>, words |-> {}, llm |-> llm, faults |-> faults, restarts |-> restarts,
     incidents |-> 0]

merging(seeds, k, faults, restarts) ==
    [learning(seeds, k, "diagnose", k, faults, restarts, FALSE) EXCEPT !.key = r1 :> k,
                                                                       !.mode = r1 :> "diagnose"]

asking(facts, words, faults, incidents) ==
    [seeds |-> <<pull>>, key |-> <<>>, mode |-> <<>>, facts |-> facts, words |-> words, llm |-> FALSE,
     faults |-> faults, restarts |-> 0, incidents |-> incidents]

\* What the sources say of a workload.
facts == {<<Annotated("helm", {"chart"})>>, <<HelmLabelled>>, <<ArgoLabelled>>, <<Owned>>,
          <<HelmLabelled, Mirrored("helm")>>, <<Annotated("kustomize", {})>>, <<Annotated("argocd", {})>>,
          <<Annotated("argocd", {"chart"})>>, <<Annotated("direct-apply", {})>>,
          <<Mirrored("plain-yaml")>>, <<>>}

MCSetups ==
    {learning(<<backoff>>, oom, "diagnose", crash, 1, 0, FALSE),
     merging(<<crash, oom, pull>>, oom, 1, 0),
     merging(<<crash, oom, pull>>, oom, 0, 1),
     merging(<<crash, backoff, oom>>, oom, 0, 0),
     learning(<<backoff>>, oom, "diagnose", crash, 0, 0, TRUE),
     learning(<<crash, oom>>, oom, "diagnose", backoff, 0, 0, FALSE),
     learning(<<>>, pull, "ci-failure", oom, 1, 0, FALSE)}
    \cup {asking([w \in {"shop", "cart"} |-> <<Annotated("plain-yaml", {})>>], {}, 0, 1)}
    \cup {asking("shop" :> f, {}, 1, 2) : f \in facts}
    \cup {asking("shop" :> f, Methods \ {"unknown"}, 0, 1) : f \in facts}
=============================================================================
