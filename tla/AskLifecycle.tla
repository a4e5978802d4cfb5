---------------------------- MODULE AskLifecycle ----------------------------
(***************************************************************************)
(* What the HIL agent promises about one ask for human approval: it is     *)
(* opened, and then either decided once or it lapses; neither is ever      *)
(* undone, and only an approval orders the remediation.                    *)
(***************************************************************************)
CONSTANT Asks
VARIABLES
    phase,      \* ask -> "unopened", "open", a verdict or "lapsed"
    ordered     \* asks whose remediation was ordered

Refuse(a, v) ==
    /\ phase[a] = "open"
    /\ phase' = [phase EXCEPT ![a] = v]
    /\ UNCHANGED ordered

Order(a) ==
    /\ phase[a] = "open"
    /\ phase' = [phase EXCEPT ![a] = "APPROVED"]
    /\ ordered' = ordered \cup {a}

\* Asks open and lapse.  Several may do so in one step: a restart of the agent
\* loses every open ask, a prune drops several, a new ask displaces an expired one.
OpenAndLapse ==
    /\ \E new \in SUBSET {a \in Asks : phase[a] = "unopened"},
          lost \in SUBSET {a \in Asks : phase[a] = "open"} :
            phase' = [a \in Asks |-> IF a \in new THEN "open"
                                     ELSE IF a \in lost THEN "lapsed" ELSE phase[a]]
    /\ UNCHANGED ordered

Init ==
    /\ phase = [a \in Asks |-> "unopened"]
    /\ ordered = {}

Next ==
    \/ \E a \in Asks : Order(a)
    \/ \E a \in Asks, v \in {"REJECTED", "IGNORED"} : Refuse(a, v)
    \/ OpenAndLapse

Spec == Init /\ [][Next]_<<phase, ordered>>
=============================================================================
