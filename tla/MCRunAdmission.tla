--------------------------- MODULE MCRunAdmission ---------------------------
(* Instances of RunAdmission for TLC. *)
EXTENDS RunAdmission, TLC

CONSTANTS a, b, c, e, x, y, z, n1, n2, d1, d2

\* a and b are about the same resource, c about another of the same namespace.
AboutWhat == [r \in Requests |-> IF r = c THEN y ELSE x]
Where == [s \in Resources |-> IF s = z THEN n2 ELSE n1]

\* Where all requests are about one resource, they can be exchanged, as the drains can.
Alike == Permutations({a, b}) \cup Permutations({d1, d2})

\* Three resources of one namespace: nothing is a duplicate of anything.
AllDifferent == [r \in Requests |-> CASE r = a -> x [] r = b -> y [] OTHER -> z]
OnePlace == [s \in Resources |-> n1]

\* Two namespaces with a resource each, and two requests about each.
TwoPlaces == [r \in Requests |-> IF r \in {a, b} THEN x ELSE z]

Bound(crashes, cancels, asks, resumes, ages) ==
    [crashes |-> crashes, cancels |-> cancels, asks |-> asks, resumes |-> resumes, ages |-> ages]

\* Postgres with asks and continuations; the file store without, but with two cancellations, which
\* write records back while a claim is under way.
SafetyBounds == ("postgres" :> Bound(1, 1, 2, 2, TRUE)) @@ ("file" :> Bound(1, 2, 0, 0, FALSE))

\* In the other instances all stores have the same.
CancelBounds == [s \in Stores |-> Bound(0, 1, 1, 2, FALSE)]
DedupeBounds == [s \in Stores |-> Bound(0, 0, 1, 2, FALSE)]
FileBounds == [s \in Stores |-> Bound(1, 1, 1, 1, FALSE)]
QueueBounds == [s \in Stores |-> Bound(0, 0, 1, 0, TRUE)]
RedisBounds == [s \in Stores |-> Bound(0, 0, 1, 2, FALSE)]
StarvedBounds == [s \in Stores |-> Bound(0, 0, 1, 0, FALSE)]
=============================================================================
