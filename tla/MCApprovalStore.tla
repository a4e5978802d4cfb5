--------------------------- MODULE MCApprovalStore ---------------------------
(* Small instances of ApprovalStore for TLC. *)
EXTENDS ApprovalStore, TLC

CONSTANTS i1, i2, i3, r1, x1

\* Two incidents of one orchestrator run, and one of the legacy brain path.
MixedRunOf == [i \in Incidents |-> IF i = i3 THEN NoRun ELSE r1]
\* The two incidents of the run can be exchanged.
Alike == Permutations({i1, i2})
OneResource == [i \in Incidents |-> x1]
=============================================================================
