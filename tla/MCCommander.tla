----------------------------- MODULE MCCommander -----------------------------
(***************************************************************************)
(* Commander on each platform: the deploys of a chat on Telegram and on    *)
(* Slack, its deletions, investigations, rollbacks, failed builds and      *)
(* reviews of an app, and what of these a web chat does otherwise.         *)
(***************************************************************************)
EXTENDS Commander, TLC

CONSTANTS w1, w2, h1, h2, n1, n2

Setup(platform, texts, commands, missing, messages, limit) ==
    [platform |-> platform, texts |-> texts, commands |-> commands, missing |-> missing,
     messages |-> messages, runs |-> limit]

Symmetry == Permutations(Targets) \cup Permutations(Handlers) \cup Permutations(Notices)

MCSetups ==
    {Setup("telegram", {"number", "yes", "command", "button"}, {"deploy"}, TRUE, 3, 2),
     Setup("slack", {"cancel", "number", "yes", "command"}, {"deploy", "delete"}, TRUE, 3, 2),
     Setup("telegram", {"status", "number", "command", "button"}, {"delete", "investigate"}, FALSE, 3, 1),
     Setup("telegram", {"command", "retry", "image", "button"},
           {"ci", "rollback", "investigate"}, FALSE, 2, 2),
     Setup("slack", {"command", "fix"}, {"app"}, FALSE, 2, 2),
     Setup("web", {"cancel", "number", "source", "command"}, {"delete", "investigate"}, FALSE, 2, 1),
     Setup("web", {"command"}, {"investigate"}, FALSE, 2, 2),
     Setup("web", {"command", "retry"}, {"ci"}, FALSE, 2, 1),
     Setup("web", {"command", "fix"}, {"app"}, FALSE, 1, 1),
     Setup("web", {"command"}, {"ci", "rollback", "deploy"}, FALSE, 1, 1)}

=============================================================================
