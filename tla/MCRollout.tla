------------------------------ MODULE MCRollout -------------------------------
(* Releases, builds and pod failures for the runs of Rollout. *)
EXTENDS Rollout

CONSTANTS app, worker

release(ws, sts, exact) == [release |-> ws, stateful |-> sts, exact |-> exact]

setupOf(r, strategy, failing, n, calls, restarts) ==
    [release |-> r.release, stateful |-> r.stateful, exact |-> r.exact,
     strategy |-> strategy, pods |-> failing \cup {"ready"}, deploys |-> n,
     calls |-> calls, restarts |-> restarts]

one == release(<<app>>, {}, TRUE)

MCSetups ==
    {setupOf(one, "none", {"errpull"}, 1, 1, 1),
     setupOf(one, "none", {"backoff"}, 1, 0, 0),
     setupOf(one, "none", {"crash"}, 1, 0, 0),
     setupOf(release(<<app>>, {app}, FALSE), "none", {}, 2, 0, 0),
     setupOf(one, "job", {}, 1, 1, 1),
     setupOf(one, "local", {}, 1, 2, 0),
     setupOf(release(<<app, worker>>, {worker}, FALSE), "none", {"crash"}, 1, 0, 0),
     setupOf(release(<<app, worker>>, {}, FALSE), "none", {}, 1, 1, 0)}
=============================================================================
