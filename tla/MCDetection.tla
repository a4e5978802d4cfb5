----------------------------- MODULE MCDetection -----------------------------
(***************************************************************************)
(* Detection with one workload of two pods.  The watcher's events know the *)
(* pod p1 only by a name its regular expression does not take apart (a     *)
(* DaemonSet's), so that events and polls report it under two keys.        *)
(***************************************************************************)
EXTENDS Detection

CONSTANTS p1, p2, w1, w2, dep

MCPods == <<p1, p2>>
MCOwner == [p \in {p1, p2} |-> w1]
MCNameKey == [p \in {p1, p2} |-> IF p = p1 THEN p1 ELSE w1]

Setup(orchestrator, sweeps, webhook, fails, ignores) ==
    [orchestrator |-> orchestrator, sweeps |-> sweeps, webhook |-> webhook, correlates |-> webhook,
     fails |-> fails, ignores |-> ignores]

Fails(of1, of2) == [p \in {p1, p2} |-> IF p = p1 THEN of1 ELSE of2]

\* The legacy path; the orchestrator with sweeps, where one pod or both may fail;
\* the webhook alone, with and without correlation.
MCSetups ==
    {Setup(FALSE, FALSE, FALSE, Fails({"healthy", "sick", "evicted"}, {}), {}),
     Setup(TRUE, TRUE, FALSE, Fails(Statuses, {}), {w1}),
     Setup(TRUE, FALSE, FALSE, Fails(Statuses, Statuses), {}),
     Setup(TRUE, FALSE, TRUE, Fails({}, {}), {}),
     [Setup(TRUE, FALSE, TRUE, Fails({}, {}), {}) EXCEPT !.correlates = FALSE]}

\* Two workloads that name a dependency, and one of them with an alert that names none.
MCAlerts == {[workload |-> w1, key |-> dep], [workload |-> w2, key |-> dep],
             [workload |-> w1, key |-> "none"]}

=============================================================================
