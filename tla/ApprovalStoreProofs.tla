------------------------- MODULE ApprovalStoreProofs -------------------------
(***************************************************************************)
(* Theorems about ApprovalStore, for every number of incidents, runs,      *)
(* operators, cycles and ticks: what is decided and executed; what the     *)
(* runs that ask may rely on (one live ask per run, which is not lost and  *)
(* is executed at most once, and what is stored was shown); and that every *)
(* cycle lives as AskLifecycle describes.                                  *)
(***************************************************************************)
EXTENDS ApprovalStore, FiniteSetTheorems, TLAPS

\* OneDecisionPerCycle is not inductive alone: a decision must also find the
\* cycle undecided, which needs a PENDING entry to be the only one of a cycle
\* nobody decided yet, and cycles not yet given out to be undecided.
CyclesOfEntries ==
    /\ \A i \in Incidents : store[i] # NoEntry => store[i].cycle < nextCycle
    /\ \A i, j \in Incidents :
            store[i] # NoEntry /\ store[j] # NoEntry /\ i # j
                => store[i].cycle # store[j].cycle

PendingMeansUndecided ==
    \A i \in Incidents :
        store[i] # NoEntry /\ store[i].status = "PENDING"
            => verdict[store[i].cycle].count = 0

FutureCyclesUndecided ==
    \A c \in Cycles : c >= nextCycle => verdict[c].count = 0

IInv ==
    /\ TypeOK
    /\ CyclesOfEntries
    /\ PendingMeansUndecided
    /\ FutureCyclesUndecided
    /\ OneDecisionPerCycle
    /\ CommandsFollowApproval

-----------------------------------------------------------------------------
LEMMA InitIInv == Init => IInv
  BY ConstantsAssumption
  DEF Init, IInv, TypeOK, CyclesOfEntries, PendingMeansUndecided, Cycles, AskIds,
      FutureCyclesUndecided, OneDecisionPerCycle, CommandsFollowApproval, Verdicts

\* What Dispatch does to the store: one entry becomes PENDING, either keeping
\* its undecided cycle or taking a new one.
LEMMA DispatchIInv ==
    ASSUME IInv, NEW ask \in Asks, Dispatch(ask),
           retriable' \subseteq Asks, nextAsk' \in 1..(MaxAsks + 1)
    PROVE  IInv'
<1> USE ConstantsAssumption DEF Asks, Cycles, AskIds
<1>1. CASE MergeTargets(ask.incident) = {} /\ Create(ask)
  <2> DEFINE shown == {Announcement(ask.incident, ask.action)}
  <2>a. shown \in SUBSET (Actions \X Resources)
    BY DEF Announcement
  <2>1. store' = [store EXCEPT ![ask.incident] = FreshEntry(ask, nextCycle, shown)]
    BY <1>1 DEF Create
  <2> HIDE DEF shown
  <2>2. /\ nextCycle \in Cycles
        /\ nextCycle' = nextCycle + 1
        /\ FreshEntry(ask, nextCycle, shown) \in Entries
    BY <1>1, <2>a DEF Create, FreshEntry, Entries, Statuses, IInv, TypeOK
  <2>3. TypeOK'
    BY <2>1, <2>2 DEF IInv, TypeOK, Dispatch
  <2>4. CyclesOfEntries'
    <3>1. store'[ask.incident].cycle = nextCycle
      BY <2>1 DEF FreshEntry, IInv, TypeOK
    <3>2. \A i \in Incidents \ {ask.incident} : store'[i] = store[i]
      BY <2>1 DEF IInv, TypeOK
    <3>3. \A i \in Incidents : store[i] # NoEntry =>
            store[i].cycle \in Nat /\ store[i].cycle < nextCycle
      BY DEF IInv, TypeOK, CyclesOfEntries, Entries
    <3>4. nextCycle \in Nat
      BY <2>2
    <3>5. \A i \in Incidents : store'[i] # NoEntry => store'[i].cycle < nextCycle'
      BY <2>2, <3>1, <3>2, <3>3, <3>4
    <3>6. \A i, j \in Incidents :
            store'[i] # NoEntry /\ store'[j] # NoEntry /\ i # j
                => store'[i].cycle # store'[j].cycle
      BY <3>1, <3>2, <3>3, <3>4 DEF IInv, CyclesOfEntries
    <3> QED BY <3>5, <3>6 DEF CyclesOfEntries
  <2>5. PendingMeansUndecided' /\ FutureCyclesUndecided'
    BY <2>1, <2>2 DEF IInv, TypeOK, PendingMeansUndecided, FutureCyclesUndecided,
                      FreshEntry, Entries, Dispatch
  <2>6. OneDecisionPerCycle' /\ CommandsFollowApproval'
    BY DEF IInv, OneDecisionPerCycle, CommandsFollowApproval, Dispatch
  <2>7. QED BY <2>3, <2>4, <2>5, <2>6 DEF IInv
<1>2. CASE \E j \in MergeTargets(ask.incident) : Refresh(j, ask)
  <2>1. PICK j \in MergeTargets(ask.incident) : Refresh(j, ask)
    BY <1>2
  <2>2. j \in Incidents /\ LivePending(j)
    BY <2>1 DEF MergeTargets, PendingOfRun
  <2>3. /\ store[j] \in Entries /\ store[j] # NoEntry
        /\ store[j].status = "PENDING"
    BY <2>2 DEF LivePending, IInv, TypeOK
  <2> DEFINE told == Announcement(ask.incident, ask.action)
             shown == IF Fingerprint(ask.incident, ask.action)
                          = Fingerprint(store[j].origin, store[j].action)
                      THEN store[j].shown ELSE store[j].shown \cup {told}
  <2>a. shown \in SUBSET (Actions \X Resources)
    BY <2>3 DEF Announcement, Entries
  <2>4. store' = [store EXCEPT ![j] = FreshEntry(ask, store[j].cycle, shown)]
    BY <2>1 DEF Refresh
  <2> HIDE DEF shown
  <2>5. FreshEntry(ask, store[j].cycle, shown) \in Entries
    BY <2>3, <2>a DEF FreshEntry, Entries, Statuses, IInv, TypeOK
  <2>6. TypeOK'
    BY <2>1, <2>2, <2>4, <2>5 DEF IInv, TypeOK, Dispatch, Refresh
  <2>7. CyclesOfEntries'
    BY <2>1, <2>2, <2>3, <2>4 DEF IInv, TypeOK, CyclesOfEntries, FreshEntry, Refresh
  <2>8. PendingMeansUndecided' /\ FutureCyclesUndecided'
    BY <2>1, <2>2, <2>3, <2>4
    DEF IInv, TypeOK, PendingMeansUndecided, FutureCyclesUndecided, FreshEntry,
        Refresh, Dispatch
  <2>9. OneDecisionPerCycle' /\ CommandsFollowApproval'
    BY DEF IInv, OneDecisionPerCycle, CommandsFollowApproval, Dispatch
  <2>10. QED BY <2>6, <2>7, <2>8, <2>9 DEF IInv
<1>3. QED BY <1>1, <1>2 DEF Dispatch

\* Deciding a PENDING entry e of incident i, whatever becomes of its action and
\* its announcements, and sending at most the command of an approval.
LEMMA DecisionIInv ==
    ASSUME IInv, NEW i \in Incidents, Undecided(i),
           NEW e \in Entries, e.cycle = store[i].cycle, e.status # "PENDING",
           store' = [store EXCEPT ![i] = e],
           NEW v \in Verdicts,
           verdict' = [verdict EXCEPT ![store[i].cycle] =
                            [count |-> @.count + 1, last |-> v]],
           NEW a \in Actions,
           \/ commands' = commands
           \/ v = "APPROVED" /\ commands' = commands \cup {CommandOf(i, a)},
           ignored' \subseteq Resources,
           suggestion' \in [Operators -> Suggestions \cup {Idle}],
           UNCHANGED <<now, retriable, nextCycle, nextAsk>>
    PROVE  IInv'
<1> USE ConstantsAssumption DEF Cycles, AskIds
<1> DEFINE k == store[i].cycle
<1>1. /\ store[i] \in Entries /\ store[i] # NoEntry
      /\ store[i].status = "PENDING"
      /\ k \in Cycles /\ k < nextCycle
      /\ verdict[k].count = 0
  BY DEF Undecided, IInv, TypeOK, Entries, CyclesOfEntries, PendingMeansUndecided
<1>2. CommandOf(i, a) \in Commands /\ CommandOf(i, a).cycle = k
  BY <1>1 DEF CommandOf, Commands, Entries
<1>3. verdict' = [verdict EXCEPT ![k] = [count |-> 1, last |-> v]]
  BY <1>1 DEF IInv, TypeOK
<1>4. TypeOK'
  BY <1>1, <1>2, <1>3 DEF IInv, TypeOK
<1>5. CyclesOfEntries'
  BY <1>1 DEF IInv, TypeOK, CyclesOfEntries
<1>6. PendingMeansUndecided'
  BY <1>1, <1>3 DEF IInv, TypeOK, PendingMeansUndecided, CyclesOfEntries, Entries
<1>7. FutureCyclesUndecided' /\ OneDecisionPerCycle'
  BY <1>1, <1>3 DEF IInv, TypeOK, FutureCyclesUndecided, OneDecisionPerCycle
<1>8. \A c \in commands : c.cycle # k /\ c.cycle \in Cycles
  BY <1>1 DEF IInv, TypeOK, CommandsFollowApproval, Commands
<1>9. CommandsFollowApproval'
  BY <1>1, <1>2, <1>3, <1>8 DEF IInv, TypeOK, CommandsFollowApproval
<1>10. QED BY <1>4, <1>5, <1>6, <1>7, <1>9 DEF IInv

\* Entries may disappear, or stay under their cycle with another status, without
\* a decision: nothing becomes PENDING by it.
LEMMA UndecidedStepIInv ==
    ASSUME IInv,
           store' \in [Incidents -> Entries \cup {NoEntry}],
           \A i \in Incidents : store'[i] # NoEntry =>
                /\ store[i] # NoEntry
                /\ store'[i].cycle = store[i].cycle
                /\ store'[i].status = "PENDING" => store[i].status = "PENDING",
           now' \in Nat, ignored' \subseteq Resources,
           suggestion' \in [Operators -> Suggestions \cup {Idle}],
           UNCHANGED <<retriable, commands, verdict, nextCycle, nextAsk>>
    PROVE  IInv'
<1>1. TypeOK' BY DEF IInv, TypeOK, Cycles, AskIds
<1>2. CyclesOfEntries' BY DEF IInv, CyclesOfEntries
<1>3. PendingMeansUndecided' BY DEF IInv, PendingMeansUndecided
<1>4. FutureCyclesUndecided' /\ OneDecisionPerCycle' /\ CommandsFollowApproval'
  BY DEF IInv, FutureCyclesUndecided, OneDecisionPerCycle, CommandsFollowApproval, Cycles
<1>5. QED BY <1>1, <1>2, <1>3, <1>4 DEF IInv

-----------------------------------------------------------------------------
\* Every step of the HIL agent preserves the inductive invariant.
LEMMA NextIInv == IInv /\ [Next]_vars => IInv'
<1> SUFFICES ASSUME IInv, [Next]_vars PROVE IInv'
  OBVIOUS
<1> USE ConstantsAssumption
<1>T. TypeOK BY DEF IInv
<1>1. ASSUME NEW i \in Incidents, NEW a \in Actions, NEW t \in BOOLEAN,
             RequestApproval(i, a, t)
      PROVE  IInv'
  <2> DEFINE ask == [id |-> nextAsk, incident |-> i, action |-> a]
  <2>1. ask \in Asks BY <1>T, <1>1 DEF RequestApproval, TypeOK, Asks, AskIds
  <2>2. nextAsk' \in 1..(MaxAsks + 1) BY <1>T, <1>1 DEF RequestApproval, TypeOK
  <2>3. Dispatch(ask) BY <1>1 DEF RequestApproval
  <2>4. retriable' \subseteq Asks BY <1>T, <1>1, <2>1 DEF RequestApproval, TypeOK
  <2> HIDE DEF ask
  <2>5. QED BY <2>1, <2>2, <2>3, <2>4, DispatchIInv
<1>2. ASSUME NEW ask \in retriable, RedeliverRequest(ask)
      PROVE  IInv'
  <2>1. /\ ask \in Asks /\ Dispatch(ask)
        /\ retriable' \subseteq Asks /\ nextAsk' \in 1..(MaxAsks + 1)
    BY <1>T, <1>2 DEF RedeliverRequest, TypeOK
  <2>2. QED BY <2>1, DispatchIInv
<1>3. ASSUME NEW i \in Incidents, NEW s \in {"APPROVED", "EXECUTING"}, Approve(i, s)
      PROVE  IInv'
  <2> DEFINE e == [store[i] EXCEPT !.status = s]
  <2>1. store[i] \in Entries /\ Undecided(i)
    BY <1>T, <1>3 DEF Approve, Approvable, Undecided, TypeOK
  <2>2. e \in Entries /\ e.cycle = store[i].cycle /\ e.status # "PENDING"
    BY <2>1 DEF Entries, Statuses
  <2>3. store' = [store EXCEPT ![i] = e]
    BY <1>3 DEF Approve, Decide
  <2>4. store[i].action \in Actions
    BY <2>1 DEF Entries
  <2> HIDE DEF e
  <2>5. QED
    BY <1>T, <1>3, <2>1, <2>2, <2>3, <2>4, DecisionIInv
    DEF Approve, Decide, Verdicts, TypeOK
<1>4. ASSUME NEW i \in Incidents, ApproveTooLate(i)
      PROVE  IInv'
  <2>1. store[i] \in Entries /\ store[i] # NoEntry
    BY <1>T, <1>4 DEF ApproveTooLate, TypeOK
  <2>2. [store[i] EXCEPT !.status = "EXPIRED"] \in Entries
    BY <2>1 DEF Entries, Statuses
  <2>3. QED
    BY <1>T, <1>4, <2>1, <2>2, UndecidedStepIInv DEF ApproveTooLate, TypeOK, Entries
<1>5. ASSUME NEW i \in Incidents, Reject(i)
      PROVE  IInv'
  <2> DEFINE e == [store[i] EXCEPT !.status = "REJECTED"]
  <2>1. store[i] \in Entries /\ Undecided(i)
    BY <1>T, <1>5 DEF Reject, Undecided, TypeOK
  <2>2. e \in Entries /\ e.cycle = store[i].cycle /\ e.status # "PENDING"
    BY <2>1 DEF Entries, Statuses
  <2>3. store' = [store EXCEPT ![i] = e]
    BY <1>5 DEF Reject, Decide
  <2>4. store[i].action \in Actions
    BY <2>1 DEF Entries
  <2> HIDE DEF e
  <2>5. QED
    BY <1>T, <1>5, <2>1, <2>2, <2>3, <2>4, DecisionIInv
    DEF Reject, Decide, Verdicts, TypeOK
<1>6. ASSUME NEW i \in Incidents, Ignore(i)
      PROVE  IInv'
  <2> DEFINE e == [store[i] EXCEPT !.status = "IGNORED"]
  <2>1. store[i] \in Entries /\ Undecided(i)
    BY <1>T, <1>6 DEF Ignore, Undecided, TypeOK
  <2>2. e \in Entries /\ e.cycle = store[i].cycle /\ e.status # "PENDING"
    BY <2>1 DEF Entries, Statuses
  <2>3. store' = [store EXCEPT ![i] = e]
    BY <1>6 DEF Ignore, Decide
  <2>4. store[i].action \in Actions /\ ignored' \subseteq Resources
    BY <1>T, <1>6, <2>1 DEF Entries, Ignore, TypeOK
  <2> HIDE DEF e
  <2>5. QED
    BY <1>T, <1>6, <2>1, <2>2, <2>3, <2>4, DecisionIInv
    DEF Ignore, Decide, Verdicts, TypeOK
<1>7. ASSUME NEW r \in Resources, Unignore(r)
      PROVE  IInv'
  BY <1>T, <1>7, UndecidedStepIInv DEF Unignore, TypeOK
<1>8. ASSUME NEW o \in Operators, NEW i \in Incidents, NEW a \in Actions,
             NEW b \in BOOLEAN, BeginSuggestion(o, i, a, b)
      PROVE  IInv'
  <2>1. suggestion' \in [Operators -> Suggestions \cup {Idle}]
    BY <1>T, <1>8 DEF BeginSuggestion, TypeOK, Suggestions
  <2>2. QED BY <1>T, <1>8, <2>1, UndecidedStepIInv DEF BeginSuggestion, TypeOK
<1>9. ASSUME NEW o \in Operators, FinishSuggestion(o)
      PROVE  IInv'
  <2> DEFINE s == suggestion[o]
             i == s.incident
             told == store[i].shown \cup {Announcement(store[i].origin, s.action)}
             e(status) == [store[i] EXCEPT !.action = s.action, !.shown = told,
                                           !.status = status]
  <2>1. s \in Suggestions /\ i \in Incidents /\ s.action \in Actions
    BY <1>T, <1>9 DEF FinishSuggestion, TypeOK, Suggestions
  <2>2. Undecided(i) /\ store[i] \in Entries /\ store[i] # NoEntry
        /\ store[i].status = "PENDING"
    BY <1>T, <1>9, <2>1 DEF FinishSuggestion, Undecided, TypeOK
  <2>3. told \in SUBSET (Actions \X Resources)
    BY <2>1, <2>2 DEF Announcement, Entries
  <2>4. \A status \in Statuses : e(status) \in Entries
                                  /\ e(status).cycle = store[i].cycle
                                  /\ e(status).status = status
    BY <2>1, <2>2, <2>3 DEF Entries
  <2>5. suggestion' \in [Operators -> Suggestions \cup {Idle}]
    BY <1>T, <1>9 DEF FinishSuggestion, TypeOK
  <2>6. CASE ~s.applyNow
    <3>1. store' = [store EXCEPT ![i] = e("PENDING")]
      BY <1>9, <2>2, <2>6 DEF FinishSuggestion, Entries
    <3> HIDE DEF e
    <3>2. QED
      BY <1>T, <1>9, <2>1, <2>2, <2>4, <2>5, <2>6, <3>1, UndecidedStepIInv
      DEF FinishSuggestion, TypeOK, Statuses
  <2>7. CASE s.applyNow /\ store[i].expires < now
    <3>1. store' = [store EXCEPT ![i] = e("EXPIRED")]
      BY <1>T, <1>9, <2>2, <2>7 DEF FinishSuggestion, Entries, TypeOK
    <3>2. UNCHANGED <<now, ignored, retriable, commands, verdict, nextCycle, nextAsk>>
      BY <1>T, <1>9, <2>2, <2>7 DEF FinishSuggestion, Entries, TypeOK
    <3> HIDE DEF e
    <3>3. QED
      BY <1>T, <2>1, <2>2, <2>4, <2>5, <3>1, <3>2, UndecidedStepIInv
      DEF TypeOK, Statuses
  <2>8. CASE s.applyNow /\ store[i].expires >= now
    <3>1. store' = [store EXCEPT ![i] = e("EXECUTING")]
      BY <1>T, <1>9, <2>2, <2>8 DEF FinishSuggestion, Entries, TypeOK
    <3>2. /\ verdict' = [verdict EXCEPT ![store[i].cycle] =
                              [count |-> @.count + 1, last |-> "APPROVED"]]
          /\ commands' = commands \cup {CommandOf(i, s.action)}
          /\ UNCHANGED <<now, ignored, retriable, nextCycle, nextAsk>>
      BY <1>T, <1>9, <2>2, <2>8 DEF FinishSuggestion, Entries, TypeOK
    <3>3. e("EXECUTING") \in Entries /\ e("EXECUTING").cycle = store[i].cycle
          /\ e("EXECUTING").status # "PENDING"
      BY <2>4 DEF Statuses
    <3>4. "APPROVED" \in Verdicts /\ ignored' \subseteq Resources
      BY <1>T, <3>2 DEF Verdicts, TypeOK
    <3> HIDE DEF e
    <3>5. QED
      BY <2>1, <2>2, <2>5, <3>1, <3>2, <3>3, <3>4, DecisionIInv
  <2>9. QED
    BY <1>T, <1>9, <2>2, <2>6, <2>7, <2>8 DEF FinishSuggestion
<1>10. ASSUME NEW o \in Operators, DropSuggestion(o)
       PROVE  IInv'
  BY <1>T, <1>10, UndecidedStepIInv DEF DropSuggestion, TypeOK
<1>11. ASSUME NEW c \in commands, NEW s \in {"DONE", "FAILED"}, Confirm(c, s)
       PROVE  IInv'
  <2>1. c.incident \in Incidents /\ store[c.incident] \in Entries
        /\ store[c.incident] # NoEntry
    BY <1>T, <1>11 DEF Confirm, TypeOK, Commands
  <2>2. [store[c.incident] EXCEPT !.status = s] \in Entries
    BY <2>1 DEF Entries, Statuses
  <2>3. QED
    BY <1>T, <1>11, <2>1, <2>2, UndecidedStepIInv DEF Confirm, TypeOK, Entries
<1>12. CASE Tick BY <1>T, <1>12, UndecidedStepIInv DEF Tick, TypeOK
<1>13. CASE PruneOld BY <1>T, <1>13, UndecidedStepIInv DEF PruneOld, TypeOK
<1>14. CASE Restart BY <1>T, <1>14, UndecidedStepIInv DEF Restart, TypeOK
<1>15. CASE UNCHANGED vars BY <1>T, <1>15, UndecidedStepIInv DEF vars, TypeOK
<1>16. QED
  BY <1>1, <1>2, <1>3, <1>4, <1>5, <1>6, <1>7, <1>8, <1>9, <1>10, <1>11, <1>12,
     <1>13, <1>14, <1>15
  DEF Next

LEMMA Invariance == Spec => []IInv
  BY InitIInv, NextIInv, PTL DEF Spec

\* The store, the ignore list and the history keep their types.
THEOREM TypeCorrect == Spec => []TypeOK
<1>1. IInv => TypeOK BY DEF IInv
<1>2. QED BY <1>1, Invariance, PTL

\* First approve wins: no interleaving of approvals, rejections, ignores,
\* suggestions, confirmations, retries and restarts decides a cycle twice.
THEOREM FirstDecisionWins == Spec => []OneDecisionPerCycle
<1>1. IInv => OneDecisionPerCycle BY DEF IInv
<1>2. QED BY <1>1, Invariance, PTL

\* A command leaves the agent once per cycle, and only after an approval.
THEOREM OnlyApprovedAsksAreExecuted == Spec => []CommandsFollowApproval
<1>1. IInv => CommandsFollowApproval BY DEF IInv
<1>2. QED BY <1>1, Invariance, PTL

-----------------------------------------------------------------------------
(* The asks of a run *)

\* An entry may take the content of an ask filed under another incident, but only of the same run.
RunsKept ==
    \A i \in Incidents : store[i] # NoEntry => RunOf[store[i].origin] = RunOf[i]

\* OneLivePendingPerRun without cardinalities.
OneLiveEntry ==
    \A i, j \in Incidents :
        LivePending(i) /\ LivePending(j) /\ RunOf[store[i].origin] = RunOf[store[j].origin]
            => i = j \/ RunOf[store[i].origin] = NoRun

\* What gitops may confirm was not asked for by a run.
ConfirmedAsksAreLegacy ==
    \A c \in commands : c.target = "gitops" => RunOf[c.incident] = NoRun

AskInv == RunsKept /\ OneLiveEntry /\ StoredActionWasShown /\ ConfirmedAsksAreLegacy

LEMMA InitAskInv == Init => AskInv
  BY DEF Init, AskInv, RunsKept, OneLiveEntry, LivePending, StoredActionWasShown,
         ConfirmedAsksAreLegacy

\* A step in which entries end, or are shown and stored with another action, but none becomes
\* PENDING or lives longer.
LEMMA QuietAskInv ==
    ASSUME TypeOK, AskInv, now' \in Nat, now' >= now,
           store' \in [Incidents -> Entries \cup {NoEntry}],
           \A i \in Incidents : store'[i] # NoEntry =>
                /\ store[i] # NoEntry
                /\ store'[i].origin = store[i].origin
                /\ store'[i].expires = store[i].expires
                /\ store'[i].status = "PENDING" => store[i].status = "PENDING"
                /\ Announcement(store'[i].origin, store'[i].action) \in store'[i].shown,
           ConfirmedAsksAreLegacy'
    PROVE  AskInv'
<1>1. RunsKept' BY DEF AskInv, RunsKept
<1>2. \A i \in Incidents : LivePending(i)' => LivePending(i)
                                                /\ store'[i].origin = store[i].origin
  BY DEF LivePending, TypeOK, Entries
<1>3. OneLiveEntry' BY <1>2 DEF AskInv, OneLiveEntry
<1>4. StoredActionWasShown' BY DEF StoredActionWasShown, Announcement
<1>5. QED BY <1>1, <1>3, <1>4 DEF AskInv

\* The common case: what was stored and shown stays as it was.
LEMMA StatusAskInv ==
    ASSUME TypeOK, AskInv, now' \in Nat, now' >= now,
           store' \in [Incidents -> Entries \cup {NoEntry}],
           \A i \in Incidents : store'[i] # NoEntry =>
                /\ store[i] # NoEntry
                /\ store'[i] = [store[i] EXCEPT !.status = store'[i].status]
                /\ store'[i].status = "PENDING" => store[i].status = "PENDING",
           ConfirmedAsksAreLegacy'
    PROVE  AskInv'
<1>1. ASSUME NEW i \in Incidents, store'[i] # NoEntry
      PROVE  /\ store[i] # NoEntry
             /\ store'[i].origin = store[i].origin
             /\ store'[i].expires = store[i].expires
             /\ store'[i].status = "PENDING" => store[i].status = "PENDING"
             /\ Announcement(store'[i].origin, store'[i].action) \in store'[i].shown
  <2>1. /\ store[i] \in Entries
        /\ Announcement(store[i].origin, store[i].action) \in store[i].shown
    BY <1>1 DEF TypeOK, AskInv, StoredActionWasShown
  <2>2. /\ store'[i].origin = store[i].origin
        /\ store'[i].expires = store[i].expires
        /\ store'[i].action = store[i].action
        /\ store'[i].shown = store[i].shown
    BY <1>1, <2>1 DEF Entries
  <2>3. QED BY <1>1, <2>1, <2>2 DEF Announcement
<1>2. QED BY <1>1, QuietAskInv

\* A request makes one entry PENDING, of the run that asks.
LEMMA DispatchAskInv ==
    ASSUME IInv, AskInv, NEW ask \in Asks, Dispatch(ask)
    PROVE  AskInv'
<1> USE ConstantsAssumption DEF Asks, Cycles, AskIds
<1> DEFINE i == ask.incident
<1>c. ConfirmedAsksAreLegacy' BY DEF Dispatch, AskInv, ConfirmedAsksAreLegacy
<1>1. CASE MergeTargets(i) = {} /\ Create(ask)
  <2> DEFINE shown == {Announcement(i, ask.action)}
  <2>1. store' = [store EXCEPT ![i] = FreshEntry(ask, nextCycle, shown)]
    BY <1>1 DEF Create
  <2>2. store'[i].origin = i /\ store'[i].action = ask.action /\ store'[i].shown = shown
    BY <2>1 DEF FreshEntry, IInv, TypeOK
  <2>3. \A j \in Incidents \ {i} : store'[j] = store[j] /\ (LivePending(j)' <=> LivePending(j))
    BY <2>1 DEF IInv, TypeOK, LivePending, Dispatch
  <2>4. RunsKept' BY <2>2, <2>3 DEF AskInv, RunsKept
  <2>5. ~LivePending(i)
    BY <1>1 DEF MergeTargets
  <2>6. ASSUME RunOf[i] # NoRun, NEW j \in Incidents, LivePending(j)
        PROVE  RunOf[store[j].origin] # RunOf[i]
    BY <1>1, <2>5, <2>6 DEF MergeTargets, PendingOfRun
  <2>7. OneLiveEntry' BY <2>2, <2>3, <2>6 DEF AskInv, OneLiveEntry
  <2>8. StoredActionWasShown'
    BY <2>2, <2>3 DEF AskInv, StoredActionWasShown, Announcement
  <2>9. QED BY <1>c, <2>4, <2>7, <2>8 DEF AskInv
<1>2. CASE \E j \in MergeTargets(i) : Refresh(j, ask)
  <2>1. PICK j \in MergeTargets(i) : Refresh(j, ask) BY <1>2
  <2>2. /\ j \in Incidents /\ LivePending(j)
        /\ store[j] \in Entries /\ store[j] # NoEntry
        /\ RunOf[i] = RunOf[store[j].origin]
    BY <2>1 DEF MergeTargets, PendingOfRun, LivePending, IInv, TypeOK, AskInv, RunsKept
  <2> DEFINE told == Announcement(i, ask.action)
             shown == IF Fingerprint(i, ask.action)
                          = Fingerprint(store[j].origin, store[j].action)
                      THEN store[j].shown ELSE store[j].shown \cup {told}
  <2>3. store' = [store EXCEPT ![j] = FreshEntry(ask, store[j].cycle, shown)]
    BY <2>1 DEF Refresh
  <2>4. told \in shown
    BY <2>2 DEF AskInv, StoredActionWasShown, Fingerprint, Announcement
  <2> HIDE DEF shown
  <2>5. store'[j].origin = i /\ store'[j].action = ask.action /\ store'[j].shown = shown
    BY <2>2, <2>3 DEF FreshEntry, IInv, TypeOK
  <2>6. \A k \in Incidents \ {j} : store'[k] = store[k] /\ (LivePending(k)' <=> LivePending(k))
    BY <2>3 DEF IInv, TypeOK, LivePending, Dispatch
  <2>7. RunsKept' BY <2>2, <2>5, <2>6 DEF AskInv, RunsKept
  <2>8. OneLiveEntry' BY <2>2, <2>5, <2>6 DEF AskInv, OneLiveEntry
  <2>9. StoredActionWasShown'
    BY <2>4, <2>5, <2>6 DEF AskInv, StoredActionWasShown, Announcement
  <2>10. QED BY <1>c, <2>7, <2>8, <2>9 DEF AskInv
<1>3. QED BY <1>1, <1>2 DEF Dispatch

\* The command of an approval goes to gitops only where no run asked.
LEMMA CommandsStayLegacy ==
    ASSUME TypeOK, AskInv, NEW i \in Incidents, store[i] # NoEntry, NEW a,
           commands' = commands \cup {CommandOf(i, a)}
    PROVE  ConfirmedAsksAreLegacy'
<1>1. CommandOf(i, a).target = "gitops" => RunOf[CommandOf(i, a).incident] = NoRun
  BY DEF CommandOf, AskInv, RunsKept
<1>2. QED BY <1>1 DEF AskInv, ConfirmedAsksAreLegacy

-----------------------------------------------------------------------------
\* Every step of the HIL agent preserves what is said of the asks of a run.
LEMMA NextAskInv == IInv /\ AskInv /\ [Next]_vars => AskInv'
<1> SUFFICES ASSUME IInv, AskInv, [Next]_vars PROVE AskInv'
  OBVIOUS
<1> USE ConstantsAssumption
<1>T. TypeOK /\ TypeOK' BY NextIInv DEF IInv
<1>t. now \in Nat /\ now' \in Nat /\ store' \in [Incidents -> Entries \cup {NoEntry}]
  BY <1>T DEF TypeOK
<1>e. \A i \in Incidents : store[i] # NoEntry => store[i] \in Entries
  BY <1>T DEF TypeOK
<1>s. ASSUME UNCHANGED <<now, store, commands>> PROVE AskInv'
  BY <1>s, <1>t DEF AskInv, RunsKept, OneLiveEntry, LivePending, StoredActionWasShown,
                    Announcement, ConfirmedAsksAreLegacy
<1>u. ASSUME UNCHANGED commands PROVE ConfirmedAsksAreLegacy'
  BY <1>u DEF AskInv, ConfirmedAsksAreLegacy
<1>1. ASSUME NEW i \in Incidents, NEW a \in Actions, NEW t \in BOOLEAN,
             RequestApproval(i, a, t)
      PROVE  AskInv'
  <2> DEFINE ask == [id |-> nextAsk, incident |-> i, action |-> a]
  <2>1. ask \in Asks BY <1>T, <1>1 DEF RequestApproval, TypeOK, Asks, AskIds
  <2>2. Dispatch(ask) BY <1>1 DEF RequestApproval
  <2> HIDE DEF ask
  <2>3. QED BY <2>1, <2>2, DispatchAskInv
<1>2. ASSUME NEW ask \in retriable, RedeliverRequest(ask)
      PROVE  AskInv'
  BY <1>T, <1>2, DispatchAskInv DEF RedeliverRequest, TypeOK
<1>3. ASSUME NEW i \in Incidents, NEW s \in {"APPROVED", "EXECUTING"}, Approve(i, s)
      PROVE  AskInv'
  <2>1. ConfirmedAsksAreLegacy'
    BY <1>T, <1>3, CommandsStayLegacy DEF Approve, Approvable
  <2>2. QED
    BY <1>T, <1>t, <1>e, <1>3, <2>1, StatusAskInv DEF Approve, Approvable, Decide, Entries
<1>4. ASSUME NEW i \in Incidents, ApproveTooLate(i) \/ Reject(i) \/ Ignore(i)
      PROVE  AskInv'
  BY <1>T, <1>t, <1>e, <1>u, <1>4, StatusAskInv
  DEF ApproveTooLate, Reject, Ignore, Undecided, Decide, Entries
<1>5. ASSUME NEW r \in Resources, Unignore(r)
      PROVE  AskInv'
  BY <1>5, <1>s DEF Unignore
<1>6. ASSUME NEW o \in Operators, NEW i \in Incidents, NEW a \in Actions,
             NEW b \in BOOLEAN, BeginSuggestion(o, i, a, b)
      PROVE  AskInv'
  BY <1>6, <1>s DEF BeginSuggestion
<1>7. ASSUME NEW o \in Operators, FinishSuggestion(o)
      PROVE  AskInv'
  <2> DEFINE s == suggestion[o]
             i == s.incident
             told == store[i].shown \cup {Announcement(store[i].origin, s.action)}
             e(status) == [store[i] EXCEPT !.action = s.action, !.shown = told,
                                           !.status = status]
  <2>1. /\ i \in Incidents /\ store[i] \in Entries /\ store[i] # NoEntry
        /\ store[i].status = "PENDING"
    BY <1>T, <1>7 DEF FinishSuggestion, Undecided, TypeOK, Suggestions
  <2>2. \A status \in Statuses :
          /\ e(status).origin = store[i].origin /\ e(status).expires = store[i].expires
          /\ e(status).action = s.action /\ e(status).shown = told
    BY <2>1 DEF Entries
  <2>3. \E status \in Statuses : store' = [store EXCEPT ![i] = e(status)]
    <3>1. \/ store' = [store EXCEPT ![i] = e("PENDING")]
          \/ store' = [store EXCEPT ![i] = e("EXPIRED")]
          \/ store' = [store EXCEPT ![i] = e("EXECUTING")]
      BY <1>7, <2>1 DEF FinishSuggestion, Entries
    <3> HIDE DEF e
    <3>2. QED BY <3>1 DEF Statuses
  <2>4. ConfirmedAsksAreLegacy'
    <3>1. commands' = commands \/ commands' = commands \cup {CommandOf(i, s.action)}
      BY <1>7 DEF FinishSuggestion
    <3>2. QED BY <1>T, <1>u, <2>1, <3>1, CommandsStayLegacy
  <2>5. PICK status \in Statuses : store' = [store EXCEPT ![i] = e(status)]
    BY <2>3
  <2>6. Announcement(store[i].origin, s.action) \in told
    OBVIOUS
  <2> HIDE DEF e, told
  <2>7. store'[i] = e(status) /\ \A j \in Incidents \ {i} : store'[j] = store[j]
    BY <1>T, <2>1, <2>5 DEF TypeOK
  <2>8. now' = now BY <1>7 DEF FinishSuggestion
  <2>9. \A j \in Incidents : store'[j] # NoEntry =>
                /\ store[j] # NoEntry
                /\ store'[j].origin = store[j].origin
                /\ store'[j].expires = store[j].expires
                /\ store'[j].status = "PENDING" => store[j].status = "PENDING"
                /\ Announcement(store'[j].origin, store'[j].action) \in store'[j].shown
    BY <2>1, <2>2, <2>6, <2>7 DEF AskInv, StoredActionWasShown
  <2>10. QED BY <1>T, <1>t, <2>4, <2>8, <2>9, QuietAskInv
<1>8. ASSUME NEW o \in Operators, DropSuggestion(o)
      PROVE  AskInv'
  BY <1>8, <1>s DEF DropSuggestion
<1>9. ASSUME NEW c \in commands, NEW s \in {"DONE", "FAILED"}, Confirm(c, s)
      PROVE  AskInv'
  <2>1. c.incident \in Incidents BY <1>T, <1>9 DEF TypeOK, Commands
  <2>2. QED BY <1>T, <1>t, <1>e, <1>u, <1>9, <2>1, StatusAskInv DEF Confirm, Entries
<1>10. CASE Tick
  BY <1>T, <1>t, <1>e, <1>u, <1>10, StatusAskInv DEF Tick, Entries
<1>11. CASE PruneOld
  BY <1>T, <1>t, <1>e, <1>u, <1>11, StatusAskInv DEF PruneOld, Entries
<1>12. CASE Restart
  BY <1>T, <1>t, <1>e, <1>u, <1>12, StatusAskInv DEF Restart, Entries
<1>13. CASE UNCHANGED vars BY <1>13, <1>s DEF vars
<1>14. QED
  BY <1>1, <1>2, <1>3, <1>4, <1>5, <1>6, <1>7, <1>8, <1>9, <1>10, <1>11, <1>12, <1>13
  DEF Next

LEMMA AskInvariance == Spec => [](IInv /\ AskInv)
  BY InitIInv, NextIInv, InitAskInv, NextAskInv, PTL DEF Spec

\* mergeOrCreate keeps a run to one live ask, however many incidents it files asks under.
THEOREM RunsHaveOneLiveAsk == Spec => []OneLivePendingPerRun
<1>1. AskInv => OneLivePendingPerRun
  <2> SUFFICES ASSUME AskInv, NEW r \in Runs PROVE Cardinality(PendingOfRun(r)) <= 1
    BY DEF OneLivePendingPerRun
  <2>1. \A i, j \in PendingOfRun(r) : i = j
    BY ConstantsAssumption DEF PendingOfRun, AskInv, OneLiveEntry
  <2>2. CASE PendingOfRun(r) = {} BY <2>2, FS_EmptySet
  <2>3. CASE PendingOfRun(r) # {}
    <3>1. PICK i : PendingOfRun(r) = {i} BY <2>1, <2>3
    <3>2. QED BY <3>1, FS_Singleton
  <2>4. QED BY <2>2, <2>3
<1>2. QED BY <1>1, AskInvariance, PTL

\* What is stored under an ask was announced for it or suggested by an operator.
THEOREM OperatorsSawWhatIsStored == Spec => []StoredActionWasShown
<1>1. AskInv => StoredActionWasShown BY DEF AskInv
<1>2. QED BY <1>1, AskInvariance, PTL

-----------------------------------------------------------------------------
(* The live ask of a run is not lost *)

\* An entry that is still PENDING, of the run, and no older, is still its live ask.
LEMMA StillPending ==
    ASSUME NEW r, NEW p \in Incidents, now' = now,
           store'[p] # NoEntry, store'[p].status = "PENDING", store'[p].expires > now,
           RunOf[store'[p].origin] = r
    PROVE  PendingOfRun(r)' # {}
<1>1. p \in PendingOfRun(r)' BY DEF PendingOfRun, LivePending
<1>2. QED BY <1>1

LEMMA FreshIsEntry ==
    ASSUME IInv, NEW ask \in Asks, NEW c \in Cycles, NEW shown \in SUBSET (Actions \X Resources)
    PROVE  FreshEntry(ask, c, shown) # NoEntry
  BY ConstantsAssumption, EntryAssumption
  DEF FreshEntry, Entries, Asks, AskIds, Statuses, IInv, TypeOK

\* A request replaces no live ask, and merges only into one of its own run.
LEMMA DispatchKeepsAsk ==
    ASSUME IInv, AskInv, NEW ask \in Asks, Dispatch(ask),
           NEW r \in Runs, PendingOfRun(r) # {}
    PROVE  PendingOfRun(r)' # {}
<1> USE ConstantsAssumption
<1> DEFINE i == ask.incident
<1>1. PICK p \in PendingOfRun(r) : TRUE OBVIOUS
<1>2. /\ p \in Incidents /\ store[p] # NoEntry /\ store[p].status = "PENDING"
      /\ store[p].expires > now /\ RunOf[store[p].origin] = r /\ i \in Incidents
  BY <1>1 DEF PendingOfRun, LivePending, Asks
<1>3. now' = now /\ now \in Nat BY DEF Dispatch, IInv, TypeOK
<1>4. CASE MergeTargets(i) = {} /\ Create(ask)
  <2>1. p # i BY <1>2, <1>4 DEF MergeTargets, LivePending
  <2>2. store'[p] = store[p] BY <1>2, <1>4, <2>1 DEF Create, IInv, TypeOK
  <2>3. QED BY <1>2, <1>3, <2>2, StillPending
<1>5. CASE \E j \in MergeTargets(i) : Refresh(j, ask)
  <2>1. PICK j \in MergeTargets(i) : Refresh(j, ask) BY <1>5
  <2>2. j \in Incidents /\ RunOf[i] = RunOf[store[j].origin]
    BY <1>2, <2>1 DEF MergeTargets, PendingOfRun, LivePending, AskInv, RunsKept
  <2>3. CASE p = j
    <3>1. /\ store'[p].status = "PENDING" /\ store'[p].origin = i
          /\ store'[p].expires = now + TTL
      BY <1>2, <2>1, <2>3 DEF Refresh, FreshEntry, IInv, TypeOK
    <3>2. store'[p] # NoEntry
      <4> DEFINE told == Announcement(i, ask.action)
                 shown == IF Fingerprint(i, ask.action)
                              = Fingerprint(store[j].origin, store[j].action)
                          THEN store[j].shown ELSE store[j].shown \cup {told}
      <4>1. store' = [store EXCEPT ![j] = FreshEntry(ask, store[j].cycle, shown)]
        BY <2>1 DEF Refresh
      <4>2. store[j].cycle \in Cycles /\ shown \in SUBSET (Actions \X Resources)
        BY <1>2, <2>3 DEF Asks, Announcement, Entries, IInv, TypeOK
      <4> HIDE DEF shown
      <4>3. QED BY <1>2, <2>2, <2>3, <4>1, <4>2, FreshIsEntry DEF IInv, TypeOK
    <3>3. now + TTL > now BY <1>3
    <3>4. QED BY <1>2, <1>3, <2>2, <2>3, <3>1, <3>2, <3>3, StillPending
  <2>4. CASE p # j
    <3>1. store'[p] = store[p] BY <1>2, <2>1, <2>4 DEF Refresh, IInv, TypeOK
    <3>2. QED BY <1>2, <1>3, <3>1, StillPending
  <2>5. QED BY <2>3, <2>4
<1>6. QED BY <1>4, <1>5 DEF Dispatch

\* Every step keeps a live ask of the run, decides one, or is the clock's or a restart.
LEMMA AskNotLost ==
    ASSUME IInv, AskInv, Next, NEW r \in Runs, PendingOfRun(r) # {}
    PROVE  \/ PendingOfRun(r)' # {}
           \/ \E i \in PendingOfRun(r) : verdict'[store[i].cycle].count > 0
           \/ now' > now
           \/ Restart
<1> USE ConstantsAssumption, EntryAssumption
<1> DEFINE Kept == PendingOfRun(r)' # {}
           Decided == \E i \in PendingOfRun(r) : verdict'[store[i].cycle].count > 0
<1>T. TypeOK BY DEF IInv
<1>p. PICK p \in PendingOfRun(r) : TRUE OBVIOUS
<1>P. /\ p \in Incidents /\ store[p] # NoEntry /\ store[p] \in Entries
      /\ store[p].status = "PENDING" /\ store[p].expires > now
      /\ RunOf[store[p].origin] = r /\ RunOf[p] = r /\ r # NoRun
      /\ store[p].cycle \in Cycles /\ now \in Nat /\ store[p].expires \in Nat
  BY <1>p, <1>T DEF PendingOfRun, LivePending, TypeOK, Entries, AskInv, RunsKept
<1>s. ASSUME now' = now, store'[p] = store[p] PROVE Kept
  BY <1>P, <1>s, StillPending
<1>d. ASSUME NEW i \in Incidents, store[i] # NoEntry, store[i].status = "PENDING",
             NEW e, store' = [store EXCEPT ![i] = e], now' = now,
             NEW v,
             verdict' = [verdict EXCEPT ![store[i].cycle] = [count |-> @.count + 1, last |-> v]]
      PROVE  Kept \/ Decided
  <2>1. CASE i = p
    <3>1. verdict'[store[p].cycle].count = verdict[store[p].cycle].count + 1
          /\ verdict[store[p].cycle].count \in Nat
      BY <1>T, <1>P, <1>d, <2>1 DEF TypeOK
    <3>2. QED BY <1>p, <3>1
  <2>2. CASE i # p BY <1>T, <1>P, <1>s, <1>d, <2>2 DEF TypeOK
  <2>3. QED BY <2>1, <2>2
<1>1. ASSUME NEW i \in Incidents, NEW a \in Actions, NEW t \in BOOLEAN,
             RequestApproval(i, a, t)
      PROVE  Kept
  <2> DEFINE ask == [id |-> nextAsk, incident |-> i, action |-> a]
  <2>1. ask \in Asks BY <1>T, <1>1 DEF RequestApproval, TypeOK, Asks, AskIds
  <2>2. Dispatch(ask) BY <1>1 DEF RequestApproval
  <2> HIDE DEF ask
  <2>3. QED BY <2>1, <2>2, DispatchKeepsAsk
<1>2. ASSUME NEW ask \in retriable, RedeliverRequest(ask) PROVE Kept
  BY <1>T, <1>2, DispatchKeepsAsk DEF RedeliverRequest, TypeOK
<1>3. ASSUME NEW i \in Incidents, NEW s \in {"APPROVED", "EXECUTING"}, Approve(i, s)
      PROVE  Kept \/ Decided
  BY <1>3, <1>d DEF Approve, Approvable, Decide
<1>4. ASSUME NEW i \in Incidents, Reject(i) \/ Ignore(i) PROVE Kept \/ Decided
  BY <1>4, <1>d DEF Reject, Ignore, Undecided, Decide
<1>5. ASSUME NEW i \in Incidents, ApproveTooLate(i) PROVE Kept
  <2>1. i # p BY <1>P, <1>5 DEF ApproveTooLate
  <2>2. QED BY <1>T, <1>P, <1>s, <1>5, <2>1 DEF ApproveTooLate, TypeOK
<1>6. ASSUME NEW o \in Operators, FinishSuggestion(o) PROVE Kept \/ Decided
  <2> DEFINE s == suggestion[o]
             i == s.incident
             told == store[i].shown \cup {Announcement(store[i].origin, s.action)}
             e == [store[i] EXCEPT !.action = s.action, !.shown = told]
  <2>1. /\ i \in Incidents /\ store[i] # NoEntry /\ store[i] \in Entries
        /\ store[i].status = "PENDING" /\ s.action \in Actions
        /\ told \in SUBSET (Actions \X Resources)
    <3>1. s \in Suggestions /\ Undecided(i)
      BY <1>T, <1>6 DEF FinishSuggestion, TypeOK
    <3>2. i \in Incidents /\ s.action \in Actions
      BY <3>1 DEF Suggestions
    <3>3. store[i] # NoEntry /\ store[i].status = "PENDING"
      BY <3>1 DEF Undecided
    <3>4. store[i] \in Entries
      BY <1>T, <3>2, <3>3 DEF TypeOK
    <3>5. store[i].shown \in SUBSET (Actions \X Resources) /\ store[i].origin \in Incidents
      BY <3>4 DEF Entries
    <3>6. told \in SUBSET (Actions \X Resources)
      BY <3>2, <3>5, ConstantsAssumption DEF Announcement
    <3>7. QED BY <3>2, <3>3, <3>4, <3>6
  <2>2. CASE ~s.applyNow
    <3>1. store' = [store EXCEPT ![i] = e] /\ now' = now
      BY <1>6, <2>2 DEF FinishSuggestion
    <3>2. e \in Entries /\ e.status = "PENDING" /\ e.expires = store[i].expires
          /\ e.origin = store[i].origin
      BY <2>1 DEF Entries
    <3> HIDE DEF e
    <3>3. CASE i = p
      <4>1. store'[p] = e BY <1>T, <2>1, <3>1, <3>3 DEF TypeOK
      <4>2. QED BY <1>P, <3>1, <3>2, <3>3, <4>1, StillPending
    <3>4. CASE i # p BY <1>T, <1>P, <1>s, <3>1, <3>4 DEF TypeOK
    <3>5. QED BY <3>3, <3>4
  <2>3. CASE s.applyNow /\ store[i].expires < now
    <3>1. i # p BY <1>P, <2>3
    <3>2. now' = now /\ store'[p] = store[p]
      BY <1>T, <1>P, <1>6, <2>1, <2>3, <3>1 DEF FinishSuggestion, TypeOK
    <3>3. QED BY <1>s, <3>2
  <2>4. CASE s.applyNow /\ ~(store[i].expires < now)
    <3>1. /\ store' = [store EXCEPT ![i] = [e EXCEPT !.status = "EXECUTING"]]
          /\ now' = now
          /\ verdict' = [verdict EXCEPT ![store[i].cycle] =
                              [count |-> @.count + 1, last |-> "APPROVED"]]
      BY <1>6, <2>4 DEF FinishSuggestion
    <3> HIDE DEF e
    <3>2. QED BY <1>d, <2>1, <3>1
  <2>5. QED BY <2>2, <2>3, <2>4
<1>7. ASSUME NEW c \in commands, NEW s \in {"DONE", "FAILED"}, Confirm(c, s) PROVE Kept
  <2>1. c.incident \in Incidents /\ c.incident # p
    BY <1>T, <1>P, <1>7 DEF Confirm, TypeOK, Commands, AskInv, ConfirmedAsksAreLegacy
  <2>2. QED BY <1>T, <1>P, <1>s, <1>7, <2>1 DEF Confirm, TypeOK
<1>8. CASE PruneOld
  <2>1. ~(store[p].expires + PruneAge < now) BY <1>P
  <2>2. now' = now /\ store'[p] = store[p] BY <1>P, <1>8, <2>1 DEF PruneOld
  <2>3. QED BY <1>s, <2>2
<1>9. CASE Tick BY <1>P, <1>9 DEF Tick
<1>10. ASSUME UNCHANGED <<now, store>> PROVE Kept BY <1>10, <1>s
<1>11. QED
  BY <1>1, <1>2, <1>3, <1>4, <1>5, <1>6, <1>7, <1>8, <1>9, <1>10
  DEF Next, Unignore, BeginSuggestion, DropSuggestion

\* The live ask of a run ends by a decision, by time, or with the process.
THEOREM RunsAskUntilAnswered == Spec => RunAskNeverLost
<1>1. IInv /\ AskInv /\ [Next]_vars =>
        [\A r \in Runs :
           PendingOfRun(r) # {} =>
              \/ PendingOfRun(r)' # {}
              \/ \E i \in PendingOfRun(r) : verdict'[store[i].cycle].count > 0
              \/ now' > now
              \/ Restart]_vars
  BY AskNotLost
<1>2. QED BY <1>1, AskInvariance, PTL DEF Spec, RunAskNeverLost

-----------------------------------------------------------------------------
(* What a run asks for is ordered once *)

OfRun(i) == store[i] # NoEntry /\ RunOf[store[i].origin] # NoRun

AsksAreNumbered ==
    /\ \A i \in Incidents : store[i] # NoEntry => store[i].ask < nextAsk
    /\ \A c \in commands : c.ask < nextAsk
    /\ \A a \in retriable : a.id < nextAsk

\* Only the brain posts again, and an ask it may post again is not one of a run.
OnlyLegacyIsRetried ==
    \A a \in retriable :
        /\ RunOf[a.incident] = NoRun
        /\ \A i \in Incidents : OfRun(i) => store[i].ask # a.id
        /\ \A c \in commands : c.target = "orchestrator" => c.ask # a.id

\* An ask of a run is stored in one place, and was not ordered while it is pending.
RunAsksAreSingle ==
    /\ \A i, j \in Incidents :
            OfRun(i) /\ store[j] # NoEntry /\ store[i].ask = store[j].ask => i = j
    /\ \A i \in Incidents, c \in commands :
            store[i] # NoEntry /\ store[i].status = "PENDING" /\ c.ask = store[i].ask
                => ~OfRun(i) /\ c.target # "orchestrator"

OrderInv ==
    AsksAreNumbered /\ OnlyLegacyIsRetried /\ RunAsksAreSingle /\ RunAsksAreOrderedOnce

LEMMA InitOrderInv == Init => OrderInv
  BY DEF Init, OrderInv, AsksAreNumbered, OnlyLegacyIsRetried, RunAsksAreSingle,
         RunAsksAreOrderedOnce, OfRun

\* A step in which entries end or disappear and keep their asks, and nothing is ordered.
LEMMA QuietOrderInv ==
    ASSUME OrderInv,
           \A i \in Incidents : store'[i] # NoEntry =>
                /\ store[i] # NoEntry
                /\ store'[i].origin = store[i].origin
                /\ store'[i].ask = store[i].ask
                /\ store'[i].status = "PENDING" => store[i].status = "PENDING",
           UNCHANGED <<retriable, commands, nextAsk>>
    PROVE  OrderInv'
<1>1. \A i \in Incidents : OfRun(i)' => OfRun(i) BY DEF OfRun
<1>2. \A i \in Incidents : store'[i] # NoEntry => (OfRun(i)' <=> OfRun(i)) BY DEF OfRun
<1>3. AsksAreNumbered' BY DEF OrderInv, AsksAreNumbered
<1>4. OnlyLegacyIsRetried' BY <1>1, <1>2 DEF OrderInv, OnlyLegacyIsRetried, OfRun
<1>5. RunAsksAreSingle' BY <1>1, <1>2 DEF OrderInv, RunAsksAreSingle, OfRun
<1>6. RunAsksAreOrderedOnce' BY DEF OrderInv, RunAsksAreOrderedOnce
<1>7. QED BY <1>3, <1>4, <1>5, <1>6 DEF OrderInv

\* A request is stored in one place, under its own number.
LEMMA DispatchStores ==
    ASSUME TypeOK, NEW ask \in Asks, Dispatch(ask)
    PROVE  /\ \E j \in Incidents :
                /\ store'[j].ask = ask.id /\ store'[j].origin = ask.incident
                /\ store'[j] # NoEntry
                /\ \A i \in Incidents \ {j} : store'[i] = store[i]
           /\ commands' = commands
<1> USE ConstantsAssumption DEF Asks
<1>c. commands' = commands BY DEF Dispatch
<1>1. CASE MergeTargets(ask.incident) = {} /\ Create(ask)
  <2> DEFINE shown == {Announcement(ask.incident, ask.action)}
             e == FreshEntry(ask, nextCycle, shown)
  <2>1. store' = [store EXCEPT ![ask.incident] = e] BY <1>1 DEF Create
  <2>2. nextCycle \in Cycles BY <1>1 DEF Create, TypeOK, Cycles
  <2>3. shown \in SUBSET (Actions \X Resources) BY DEF Announcement
  <2>4. e \in Entries BY <2>2, <2>3 DEF FreshEntry, Entries, Statuses, TypeOK
  <2>5. e.ask = ask.id /\ e.origin = ask.incident BY DEF FreshEntry
  <2>6. e # NoEntry BY <2>4, EntryAssumption
  <2> HIDE DEF e
  <2>7. QED BY <1>c, <2>1, <2>5, <2>6 DEF TypeOK
<1>2. CASE \E j \in MergeTargets(ask.incident) : Refresh(j, ask)
  <2>1. PICK j \in MergeTargets(ask.incident) : Refresh(j, ask) BY <1>2
  <2>2. j \in Incidents /\ store[j] \in Entries
    BY <2>1 DEF MergeTargets, PendingOfRun, LivePending, TypeOK
  <2> DEFINE told == Announcement(ask.incident, ask.action)
             shown == IF Fingerprint(ask.incident, ask.action)
                          = Fingerprint(store[j].origin, store[j].action)
                      THEN store[j].shown ELSE store[j].shown \cup {told}
             e == FreshEntry(ask, store[j].cycle, shown)
  <2>3. store' = [store EXCEPT ![j] = e] BY <2>1 DEF Refresh
  <2>4. shown \in SUBSET (Actions \X Resources) BY <2>2 DEF Announcement, Entries
  <2>5. e \in Entries BY <2>2, <2>4 DEF FreshEntry, Entries, Statuses, TypeOK
  <2>6. e.ask = ask.id /\ e.origin = ask.incident BY DEF FreshEntry
  <2>7. e # NoEntry BY <2>5, EntryAssumption
  <2> HIDE DEF e
  <2>8. QED BY <1>c, <2>2, <2>3, <2>6, <2>7 DEF TypeOK
<1>3. QED BY <1>1, <1>2 DEF Dispatch

\* A request under a number that no entry, order or retry of a run has.
LEMMA DispatchOrderInv ==
    ASSUME TypeOK, OrderInv, NEW ask \in Asks, Dispatch(ask),
           retriable' \subseteq retriable \cup {ask},
           \A a \in retriable' : a = ask \/ a.id # ask.id \/ RunOf[ask.incident] = NoRun,
           ask \in retriable' => RunOf[ask.incident] = NoRun,
           nextAsk' \in Nat, nextAsk' >= nextAsk, ask.id < nextAsk',
           \A i \in Incidents : OfRun(i) => store[i].ask # ask.id,
           \A c \in commands : c.target = "orchestrator" => c.ask # ask.id,
           RunOf[ask.incident] # NoRun =>
               /\ \A i \in Incidents : store[i] # NoEntry => store[i].ask # ask.id
               /\ \A c \in commands : c.ask # ask.id
    PROVE  OrderInv'
<1>1. PICK j \in Incidents :
          /\ store'[j].ask = ask.id /\ store'[j].origin = ask.incident
          /\ store'[j] # NoEntry
          /\ \A i \in Incidents \ {j} : store'[i] = store[i]
  BY DispatchStores
<1>2. commands' = commands BY DispatchStores
<1>3. OfRun(j)' <=> RunOf[ask.incident] # NoRun BY <1>1 DEF OfRun
<1>4. \A i \in Incidents \ {j} : OfRun(i)' <=> OfRun(i) BY <1>1 DEF OfRun
<1>5. AsksAreNumbered'
  <2>1. /\ \A i \in Incidents : store[i] # NoEntry => store[i].ask \in Nat
        /\ \A c \in commands : c.ask \in Nat
        /\ \A a \in retriable : a.id \in Nat
        /\ nextAsk \in Nat
    BY DEF TypeOK, Entries, Commands, Asks, AskIds
  <2>2. \A i \in Incidents : store'[i] # NoEntry => store'[i].ask < nextAsk'
    BY <1>1, <2>1 DEF OrderInv, AsksAreNumbered
  <2>3. \A c \in commands' : c.ask < nextAsk'
    BY <1>2, <2>1 DEF OrderInv, AsksAreNumbered
  <2>4. \A a \in retriable' : a.id < nextAsk'
    BY <2>1 DEF OrderInv, AsksAreNumbered
  <2>5. QED BY <2>2, <2>3, <2>4 DEF AsksAreNumbered
<1>6. OnlyLegacyIsRetried'
  <2> SUFFICES ASSUME NEW a \in retriable'
               PROVE  /\ RunOf[a.incident] = NoRun
                      /\ \A i \in Incidents : OfRun(i)' => store'[i].ask # a.id
                      /\ \A c \in commands' : c.target = "orchestrator" => c.ask # a.id
    BY DEF OnlyLegacyIsRetried
  <2>1. CASE a = ask BY <1>1, <1>2, <1>3, <1>4, <2>1
  <2>2. CASE a # ask
    BY <1>1, <1>2, <1>3, <1>4, <2>2 DEF OrderInv, OnlyLegacyIsRetried
  <2>3. QED BY <2>1, <2>2
<1>7. RunAsksAreSingle'
  <2>1. \A i, k \in Incidents :
            OfRun(i)' /\ store'[k] # NoEntry /\ store'[i].ask = store'[k].ask => i = k
    BY <1>1, <1>3, <1>4 DEF OrderInv, RunAsksAreSingle, OfRun
  <2>2. ASSUME NEW i \in Incidents, NEW c \in commands',
               store'[i] # NoEntry, store'[i].status = "PENDING", c.ask = store'[i].ask
        PROVE  ~OfRun(i)' /\ c.target # "orchestrator"
    <3>1. CASE i = j BY <1>1, <1>2, <1>3, <2>2, <3>1
    <3>2. CASE i # j
      BY <1>1, <1>2, <1>4, <2>2, <3>2 DEF OrderInv, RunAsksAreSingle
    <3>3. QED BY <3>1, <3>2
  <2>3. QED BY <2>1, <2>2 DEF RunAsksAreSingle
<1>8. RunAsksAreOrderedOnce' BY <1>2 DEF OrderInv, RunAsksAreOrderedOnce
<1>9. QED BY <1>5, <1>6, <1>7, <1>8 DEF OrderInv

\* The decision of a pending entry, and the command it may send.
LEMMA DecisionOrderInv ==
    ASSUME TypeOK, OrderInv, NEW i \in Incidents, Undecided(i),
           store'[i] # NoEntry, store'[i].ask = store[i].ask,
           store'[i].origin = store[i].origin, store'[i].status # "PENDING",
           \A j \in Incidents \ {i} : store'[j] = store[j],
           NEW a, commands' = commands \/ commands' = commands \cup {CommandOf(i, a)},
           UNCHANGED <<retriable, nextAsk>>
    PROVE  OrderInv'
<1> DEFINE new == CommandOf(i, a)
<1>1. /\ new.ask = store[i].ask
      /\ new.target = "orchestrator" <=> OfRun(i)
  BY DEF CommandOf, OfRun, Undecided
<1>2. \A c \in commands' : c \in commands \/ c = new OBVIOUS
<1> HIDE DEF new
<1>3. \A j \in Incidents : OfRun(j)' <=> OfRun(j)
  BY DEF OfRun, Undecided
<1>4. \A j \in Incidents : store'[j] # NoEntry => store[j] # NoEntry /\ store'[j].ask = store[j].ask
  BY DEF Undecided
<1>5. AsksAreNumbered'
  BY <1>1, <1>2, <1>4 DEF OrderInv, AsksAreNumbered, Undecided
<1>6. OnlyLegacyIsRetried'
  BY <1>1, <1>2, <1>3, <1>4 DEF OrderInv, OnlyLegacyIsRetried, OfRun
<1>7. RunAsksAreSingle'
  <2>1. \A j, k \in Incidents :
            OfRun(j)' /\ store'[k] # NoEntry /\ store'[j].ask = store'[k].ask => j = k
    BY <1>3, <1>4 DEF OrderInv, RunAsksAreSingle, OfRun
  <2>2. ASSUME NEW j \in Incidents, NEW c \in commands',
               store'[j] # NoEntry, store'[j].status = "PENDING", c.ask = store'[j].ask
        PROVE  ~OfRun(j)' /\ c.target # "orchestrator"
    <3>1. j # i /\ store'[j] = store[j] BY <2>2
    <3>2. CASE c \in commands
      BY <1>3, <2>2, <3>1, <3>2 DEF OrderInv, RunAsksAreSingle
    <3>3. CASE c = new
      BY <1>1, <1>3, <2>2, <3>1, <3>3 DEF OrderInv, RunAsksAreSingle, Undecided
    <3>4. QED BY <1>2, <3>2, <3>3
  <2>3. QED BY <2>1, <2>2 DEF RunAsksAreSingle
<1>8. RunAsksAreOrderedOnce'
  <2> SUFFICES ASSUME NEW c \in commands', NEW d \in commands', c.ask = d.ask,
                      c.target = "orchestrator"
               PROVE  c = d
    BY DEF RunAsksAreOrderedOnce
  <2>1. CASE c \in commands /\ d \in commands
    BY <2>1 DEF OrderInv, RunAsksAreOrderedOnce
  <2>2. \A x \in commands : x.ask = new.ask => ~OfRun(i) /\ x.target # "orchestrator"
    BY <1>1 DEF OrderInv, RunAsksAreSingle, Undecided
  <2>3. QED BY <1>1, <1>2, <2>1, <2>2
<1>9. QED BY <1>5, <1>6, <1>7, <1>8 DEF OrderInv

LEMMA NextOrderInv == TypeOK /\ OrderInv /\ [Next]_vars => OrderInv'
<1> SUFFICES ASSUME TypeOK, OrderInv, [Next]_vars PROVE OrderInv'
  OBVIOUS
<1> USE ConstantsAssumption
<1>e. \A i \in Incidents : store[i] # NoEntry => store[i] \in Entries
  BY DEF TypeOK
<1>s. ASSUME UNCHANGED <<store, retriable, commands, nextAsk>> PROVE OrderInv'
  BY <1>s, QuietOrderInv
<1>1. ASSUME NEW i \in Incidents, NEW a \in Actions, NEW t \in BOOLEAN,
             RequestApproval(i, a, t)
      PROVE  OrderInv'
  <2> DEFINE ask == [id |-> nextAsk, incident |-> i, action |-> a]
  <2>1. /\ ask \in Asks /\ ask.id = nextAsk /\ ask.incident = i
        /\ nextAsk \in Nat /\ nextAsk' = nextAsk + 1
    BY <1>1 DEF RequestApproval, TypeOK, Asks, AskIds
  <2>2. /\ Dispatch(ask) /\ retriable' \subseteq retriable \cup {ask}
        /\ ask \notin retriable /\ ask \in retriable' => RunOf[i] = NoRun
    BY <1>1, <2>1 DEF RequestApproval, Retries, OrderInv, AsksAreNumbered
  <2>3. /\ \A j \in Incidents : store[j] # NoEntry => store[j].ask # nextAsk
        /\ \A c \in commands : c.ask # nextAsk
        /\ \A x \in retriable : x.id # nextAsk
    BY <2>1 DEF OrderInv, AsksAreNumbered
  <2> HIDE DEF ask
  <2>4. QED BY <2>1, <2>2, <2>3, DispatchOrderInv DEF OfRun
<1>2. ASSUME NEW ask \in retriable, RedeliverRequest(ask)
      PROVE  OrderInv'
  <2>1. /\ ask \in Asks /\ Dispatch(ask) /\ retriable' \subseteq retriable
        /\ ask \notin retriable' /\ nextAsk' = nextAsk /\ nextAsk \in Nat
    BY <1>2 DEF RedeliverRequest, TypeOK
  <2>2. /\ RunOf[ask.incident] = NoRun /\ ask.id < nextAsk
        /\ \A i \in Incidents : OfRun(i) => store[i].ask # ask.id
        /\ \A c \in commands : c.target = "orchestrator" => c.ask # ask.id
    BY DEF OrderInv, OnlyLegacyIsRetried, AsksAreNumbered
  <2>3. QED BY <2>1, <2>2, DispatchOrderInv
<1>3. ASSUME NEW i \in Incidents, NEW s \in {"APPROVED", "EXECUTING"}, Approve(i, s)
      PROVE  OrderInv'
  <2>1. Undecided(i) /\ store[i] \in Entries
    BY <1>e, <1>3 DEF Approve, Approvable, Undecided
  <2>2. store' = [store EXCEPT ![i] = [store[i] EXCEPT !.status = s]]
    BY <1>3 DEF Approve, Decide
  <2>3. /\ store'[i].ask = store[i].ask /\ store'[i].origin = store[i].origin
        /\ store'[i].status = s /\ store'[i] \in Entries
    BY <2>1, <2>2 DEF Entries, Statuses, TypeOK
  <2>4. QED
    BY <1>3, <2>1, <2>2, <2>3, EntryAssumption, DecisionOrderInv DEF Approve, TypeOK
<1>4. ASSUME NEW i \in Incidents, ApproveTooLate(i) \/ Reject(i) \/ Ignore(i)
      PROVE  OrderInv'
  <2>1. \E s \in Statuses \ {"PENDING"} :
            store' = [store EXCEPT ![i] = [store[i] EXCEPT !.status = s]]
    BY <1>4 DEF ApproveTooLate, Reject, Ignore, Decide, Statuses
  <2>2. store[i] # NoEntry /\ UNCHANGED <<retriable, commands, nextAsk>>
    BY <1>4 DEF ApproveTooLate, Reject, Ignore, Undecided
  <2>3. QED BY <1>e, <2>1, <2>2, QuietOrderInv DEF Entries, TypeOK
<1>5. ASSUME NEW r \in Resources, Unignore(r)
      PROVE  OrderInv'
  BY <1>5, <1>s DEF Unignore
<1>6. ASSUME NEW o \in Operators, NEW i \in Incidents, NEW a \in Actions,
             NEW b \in BOOLEAN, BeginSuggestion(o, i, a, b)
      PROVE  OrderInv'
  BY <1>6, <1>s DEF BeginSuggestion
<1>7. ASSUME NEW o \in Operators, FinishSuggestion(o)
      PROVE  OrderInv'
  <2> DEFINE s == suggestion[o]
             i == s.incident
             told == store[i].shown \cup {Announcement(store[i].origin, s.action)}
             e(status) == [store[i] EXCEPT !.action = s.action, !.shown = told,
                                           !.status = status]
  <2>1. /\ i \in Incidents /\ Undecided(i) /\ store[i] \in Entries
        /\ s.action \in Actions
    BY <1>7 DEF FinishSuggestion, Undecided, TypeOK, Suggestions
  <2>a. told \in SUBSET (Actions \X Resources) BY <2>1 DEF Announcement, Entries
  <2>2. \A status \in Statuses :
          /\ e(status).origin = store[i].origin /\ e(status).ask = store[i].ask
          /\ e(status).status = status /\ e(status) \in Entries
    BY <2>1, <2>a DEF Entries
  <2>3. /\ UNCHANGED <<retriable, nextAsk>>
        /\ \/ store' = [store EXCEPT ![i] = e("PENDING")] /\ commands' = commands
           \/ store' = [store EXCEPT ![i] = e("EXPIRED")] /\ commands' = commands
           \/ /\ store' = [store EXCEPT ![i] = e("EXECUTING")]
              /\ commands' = commands \cup {CommandOf(i, s.action)}
    <3>1. CASE ~s.applyNow
      BY <1>7, <2>1, <3>1 DEF FinishSuggestion, Undecided, Entries
    <3>2. CASE s.applyNow /\ store[i].expires < now
      BY <1>7, <2>1, <3>2 DEF FinishSuggestion, Undecided, Entries, TypeOK
    <3>3. CASE s.applyNow /\ store[i].expires >= now
      BY <1>7, <2>1, <3>3 DEF FinishSuggestion, Undecided, Entries, TypeOK
    <3>4. QED
      <4>1. s.applyNow => store[i].expires < now \/ store[i].expires >= now
        BY <1>7 DEF FinishSuggestion
      <4>2. QED BY <3>1, <3>2, <3>3, <4>1
  <2> HIDE DEF e, told
  <2>4. CASE store' = [store EXCEPT ![i] = e("PENDING")] /\ commands' = commands
    BY <2>1, <2>2, <2>3, <2>4, QuietOrderInv DEF TypeOK, Statuses, Undecided
  <2>5. CASE store' = [store EXCEPT ![i] = e("EXPIRED")] /\ commands' = commands
    BY <2>1, <2>2, <2>3, <2>5, QuietOrderInv DEF TypeOK, Statuses, Undecided
  <2>6. CASE /\ store' = [store EXCEPT ![i] = e("EXECUTING")]
             /\ commands' = commands \cup {CommandOf(i, s.action)}
    <3>1. /\ store'[i] = e("EXECUTING")
          /\ \A j \in Incidents \ {i} : store'[j] = store[j]
      BY <2>1, <2>6 DEF TypeOK
    <3>2. QED
      BY <2>1, <2>2, <2>3, <2>6, <3>1, EntryAssumption, DecisionOrderInv DEF Statuses
  <2>7. QED BY <2>3, <2>4, <2>5, <2>6
<1>8. ASSUME NEW o \in Operators, DropSuggestion(o)
      PROVE  OrderInv'
  BY <1>8, <1>s DEF DropSuggestion
<1>9. ASSUME NEW c \in commands, NEW s \in {"DONE", "FAILED"}, Confirm(c, s)
      PROVE  OrderInv'
  <2>1. c.incident \in Incidents /\ store[c.incident] \in Entries
    BY <1>e, <1>9 DEF TypeOK, Commands, Confirm
  <2>2. store' = [store EXCEPT ![c.incident] = [store[c.incident] EXCEPT !.status = s]]
    BY <1>9 DEF Confirm
  <2>3. QED BY <1>9, <2>1, <2>2, QuietOrderInv DEF Confirm, Entries, TypeOK
<1>10. CASE Tick BY <1>10, <1>s DEF Tick
<1>11. CASE PruneOld BY <1>11, QuietOrderInv DEF PruneOld
<1>12. CASE Restart BY <1>12, QuietOrderInv DEF Restart
<1>13. CASE UNCHANGED vars BY <1>13, <1>s DEF vars
<1>14. QED
  BY <1>1, <1>2, <1>3, <1>4, <1>5, <1>6, <1>7, <1>8, <1>9, <1>10, <1>11, <1>12, <1>13
  DEF Next

\* What an orchestrator run asks for is executed at most once, because the orchestrator posts an ask
\* once (postJson): only an ask that is posted again can be approved again (store.ts:97).
THEOREM RunAsksAreExecutedOnce == Spec => []RunAsksAreOrderedOnce
<1>1. IInv => TypeOK BY DEF IInv
<1>2. OrderInv => RunAsksAreOrderedOnce BY DEF OrderInv
<1>3. QED BY <1>1, <1>2, Invariance, InitOrderInv, NextOrderInv, PTL DEF Spec

-----------------------------------------------------------------------------
(* The refinement of AskLifecycle *)

Open(c) ==
    \E i \in Incidents : store[i] # NoEntry /\ store[i].cycle = c /\ store[i].status = "PENDING"

phases == [c \in Cycles |-> Phase(c)]

\* While a cycle is open nothing was decided of it, and it has been opened.
LEMMA OpenCycles ==
    ASSUME IInv, NEW c \in Cycles
    PROVE  /\ Open(c) => Phase(c) = "open" /\ verdict[c].count = 0 /\ c < nextCycle
           /\ ~Open(c) => Phase(c) = IF verdict[c].count > 0 THEN verdict[c].last
                                     ELSE IF c < nextCycle THEN "lapsed" ELSE "unopened"
  BY DEF Open, Phase, IInv, PendingMeansUndecided, CyclesOfEntries

\* Cycles that open and lapse while nothing is decided.
LEMMA LapsingStep ==
    ASSUME UNCHANGED commands,
           \A c \in Cycles : \/ Phase(c)' = Phase(c)
                             \/ Phase(c) = "unopened" /\ Phase(c)' = "open"
                             \/ Phase(c) = "open" /\ Phase(c)' = "lapsed"
    PROVE  Lifecycle!OpenAndLapse
<1> DEFINE new == {c \in Cycles : Phase(c) = "unopened" /\ Phase(c)' = "open"}
           lost == {c \in Cycles : Phase(c) = "open" /\ Phase(c)' = "lapsed"}
<1>1. new \in SUBSET {c \in Cycles : phases[c] = "unopened"}
      /\ lost \in SUBSET {c \in Cycles : phases[c] = "open"}
  BY DEF phases
<1>2. phases' = [c \in Cycles |-> IF c \in new THEN "open"
                                  ELSE IF c \in lost THEN "lapsed" ELSE phases[c]]
  BY DEF phases
<1>3. UNCHANGED {c.cycle : c \in commands} OBVIOUS
<1> HIDE DEF new, lost
<1>4. QED BY <1>1, <1>2, <1>3 DEF Lifecycle!OpenAndLapse, phases

\* Entries end without a decision, or stay: their cycles lapse.
LEMMA QuietLifecycle ==
    ASSUME IInv, IInv', UNCHANGED <<commands, verdict, nextCycle>>,
           \A i \in Incidents : store'[i] # NoEntry =>
                /\ store[i] # NoEntry
                /\ store'[i].cycle = store[i].cycle
                /\ store'[i].status = "PENDING" => store[i].status = "PENDING"
    PROVE  Lifecycle!OpenAndLapse
<1>1. ASSUME NEW c \in Cycles
      PROVE  Phase(c)' = Phase(c) \/ (Phase(c) = "open" /\ Phase(c)' = "lapsed")
  <2>1. Open(c)' => Open(c) BY DEF Open
  <2>2. /\ Open(c)' => Phase(c)' = "open"
        /\ ~Open(c)' => Phase(c)' = IF verdict[c].count > 0 THEN verdict[c].last
                                    ELSE IF c < nextCycle THEN "lapsed" ELSE "unopened"
    BY DEF Open, Phase, IInv, PendingMeansUndecided, CyclesOfEntries
  <2>3. QED BY <2>1, <2>2, OpenCycles
<1>2. QED BY <1>1, LapsingStep

\* A request opens the next cycle, in place of an ask that has expired, or keeps one open.
LEMMA DispatchLifecycle ==
    ASSUME IInv, IInv', NEW ask \in Asks, Dispatch(ask)
    PROVE  Lifecycle!OpenAndLapse
<1> USE ConstantsAssumption, EntryAssumption
<1> DEFINE i == ask.incident
<1>1. CASE MergeTargets(i) = {} /\ Create(ask)
  <2>0. i \in Incidents /\ nextCycle \in Cycles /\ nextCycle' = nextCycle + 1
        /\ nextCycle \in Nat /\ verdict' = verdict /\ commands' = commands
    BY <1>1 DEF Asks, Create, Dispatch, IInv, TypeOK, Cycles
  <2>1. /\ store'[i] # NoEntry /\ store'[i].cycle = nextCycle /\ store'[i].status = "PENDING"
        /\ \A j \in Incidents \ {i} : store'[j] = store[j]
    <3> DEFINE shown == {Announcement(i, ask.action)}
    <3>1. store' = [store EXCEPT ![i] = FreshEntry(ask, nextCycle, shown)]
      BY <1>1 DEF Create
    <3>2. shown \in SUBSET (Actions \X Resources)
      BY DEF Asks, Announcement
    <3>3. FreshEntry(ask, nextCycle, shown) # NoEntry
      BY <2>0, <3>2, FreshIsEntry
    <3>4. QED BY <2>0, <3>1, <3>3 DEF IInv, TypeOK, FreshEntry
  <2>k. PICK k \in Cycles : k = nextCycle BY <2>0
  <2>2. Phase(k) = "unopened"
    <3>1. ~Open(k) BY <2>0, <2>k DEF Open, IInv, TypeOK, CyclesOfEntries, Entries
    <3>2. verdict[k].count = 0 BY <2>0, <2>k DEF IInv, FutureCyclesUndecided
    <3>3. QED BY <2>0, <2>k, <3>1, <3>2, OpenCycles
  <2>3. Phase(k)' = "open"
    BY <2>0, <2>1, <2>k DEF Phase
  <2>4. ASSUME NEW c \in Cycles, c # k
        PROVE  Phase(c)' = Phase(c) \/ (Phase(c) = "open" /\ Phase(c)' = "lapsed")
    <3>1. Open(c)' => Open(c) BY <2>1, <2>4, <2>k DEF Open
    <3>2. /\ Open(c)' => Phase(c)' = "open"
          /\ ~Open(c)' => Phase(c)' = IF verdict[c].count > 0 THEN verdict[c].last
                                      ELSE IF c < nextCycle' THEN "lapsed" ELSE "unopened"
      BY <2>0 DEF Open, Phase
    <3>3. c < nextCycle' <=> c < nextCycle BY <2>0, <2>4, <2>k DEF Cycles
    <3>4. QED BY <3>1, <3>2, <3>3, OpenCycles
  <2>5. QED BY <2>0, <2>2, <2>3, <2>4, LapsingStep
<1>2. CASE \E j \in MergeTargets(i) : Refresh(j, ask)
  <2>1. PICK j \in MergeTargets(i) : Refresh(j, ask) BY <1>2
  <2>2. /\ j \in Incidents /\ store[j] # NoEntry /\ store[j].status = "PENDING"
        /\ store'[j].cycle = store[j].cycle
        /\ \A k \in Incidents \ {j} : store'[k] = store[k]
        /\ UNCHANGED <<commands, verdict, nextCycle>>
    BY <2>1 DEF MergeTargets, PendingOfRun, LivePending, Refresh, FreshEntry, Dispatch, Asks,
                IInv, TypeOK
  <2>3. QED BY <2>2, QuietLifecycle
<1>3. QED BY <1>1, <1>2 DEF Dispatch

\* A decision ends the one cycle that is open under the entry.
LEMMA DecisionLifecycle ==
    ASSUME IInv, NEW i \in Incidents, store[i] # NoEntry, store[i].status = "PENDING",
           NEW e, e.status # "PENDING",
           store' = [store EXCEPT ![i] = e], nextCycle' = nextCycle,
           NEW v \in {"APPROVED", "REJECTED", "IGNORED"},
           verdict' = [verdict EXCEPT ![store[i].cycle] = [count |-> @.count + 1, last |-> v]]
    PROVE  /\ store[i].cycle \in Cycles
           /\ phases[store[i].cycle] = "open"
           /\ phases' = [phases EXCEPT ![store[i].cycle] = v]
<1>k. PICK k \in Cycles : k = store[i].cycle BY DEF IInv, TypeOK, Entries
<1>1. verdict[k].count = 0 /\ Open(k)
  BY <1>k DEF Open, IInv, TypeOK, Entries, PendingMeansUndecided
<1>2. Phase(k) = "open" BY <1>1, OpenCycles
<1>3. /\ store'[i] = e /\ \A j \in Incidents \ {i} : store'[j] = store[j]
      /\ verdict'[k] = [count |-> 1, last |-> v]
      /\ \A c \in Cycles \ {k} : verdict'[c] = verdict[c]
  BY <1>1, <1>k DEF IInv, TypeOK
<1>4. Phase(k)' = v
  <2>1. \A j \in Incidents \ {i} : store[j] # NoEntry => store[j].cycle # k
    BY <1>k DEF IInv, CyclesOfEntries
  <2>2. QED BY <1>3, <2>1 DEF Phase
<1>5. ASSUME NEW c \in Cycles \ {k} PROVE Phase(c)' = Phase(c)
  <2>1. Open(c)' <=> Open(c)
    BY <1>3, <1>k DEF Open
  <2>2. QED BY <1>3, <2>1 DEF Phase, Open
<1>6. phases' = [phases EXCEPT ![k] = v] BY <1>4, <1>5 DEF phases
<1>7. QED BY <1>k, <1>2, <1>6 DEF phases

\* An approval orders the remediation of its cycle.
LEMMA OrderStep ==
    ASSUME IInv, NEW i \in Incidents, store[i] # NoEntry, store[i].status = "PENDING",
           NEW e, e.status # "PENDING",
           store' = [store EXCEPT ![i] = e], nextCycle' = nextCycle,
           verdict' = [verdict EXCEPT ![store[i].cycle] =
                            [count |-> @.count + 1, last |-> "APPROVED"]],
           NEW a, commands' = commands \cup {CommandOf(i, a)}
    PROVE  Lifecycle!Next
<1>1. PICK k \in Cycles : /\ k = store[i].cycle /\ phases[k] = "open"
                          /\ phases' = [phases EXCEPT ![k] = "APPROVED"]
  BY DecisionLifecycle
<1>2. {c.cycle : c \in commands'} = {c.cycle : c \in commands} \cup {k}
  <2>1. CommandOf(i, a).cycle = k BY <1>1 DEF CommandOf
  <2>2. QED BY <2>1
<1>3. Lifecycle!Order(k) BY <1>1, <1>2 DEF Lifecycle!Order, phases
<1>4. QED BY <1>1, <1>3 DEF Lifecycle!Next

LEMMA RefuseStep ==
    ASSUME IInv, NEW i \in Incidents, store[i] # NoEntry, store[i].status = "PENDING",
           NEW v \in {"REJECTED", "IGNORED"},
           Decide(i, v, v), UNCHANGED <<commands, nextCycle>>
    PROVE  Lifecycle!Next
<1> DEFINE e == [store[i] EXCEPT !.status = v]
<1>1. e.status # "PENDING" BY DEF IInv, TypeOK, Entries
<1>2. store' = [store EXCEPT ![i] = e] BY DEF Decide
<1> HIDE DEF e
<1>a. /\ v \in {"APPROVED", "REJECTED", "IGNORED"} /\ nextCycle' = nextCycle
      /\ verdict' = [verdict EXCEPT ![store[i].cycle] = [count |-> @.count + 1, last |-> v]]
  BY DEF Decide
<1>b. /\ store[i].cycle \in Cycles /\ phases[store[i].cycle] = "open"
      /\ phases' = [phases EXCEPT ![store[i].cycle] = v]
  BY <1>1, <1>2, <1>a, DecisionLifecycle
<1>3. PICK k \in Cycles : phases[k] = "open" /\ phases' = [phases EXCEPT ![k] = v]
  BY <1>b
<1>4. Lifecycle!Refuse(k, v) BY <1>3 DEF Lifecycle!Refuse, phases
<1>5. QED BY <1>3, <1>4 DEF Lifecycle!Next

LEMMA InitLifecycle == Init => Lifecycle!Init
  BY ConstantsAssumption DEF Init, Lifecycle!Init, Phase, Cycles

\* Every step of the agent is a step of the lifecycles of its cycles, or a stutter.
LEMMA NextLifecycle ==
    ASSUME IInv, IInv', [Next]_vars
    PROVE  [Lifecycle!Next]_<<phases, {c.cycle : c \in commands}>>
<1> USE ConstantsAssumption
<1>T. TypeOK BY DEF IInv
<1>e. \A i \in Incidents : store[i] # NoEntry => store[i] \in Entries
  BY <1>T DEF TypeOK
<1>l. ASSUME Lifecycle!OpenAndLapse PROVE Lifecycle!Next
  BY <1>l DEF Lifecycle!Next
<1>s. ASSUME UNCHANGED <<store, commands, verdict, nextCycle>>
      PROVE  UNCHANGED <<phases, {c.cycle : c \in commands}>>
  BY <1>s DEF phases, Phase
<1>1. ASSUME NEW i \in Incidents, NEW a \in Actions, NEW t \in BOOLEAN,
             RequestApproval(i, a, t)
      PROVE  Lifecycle!Next
  <2> DEFINE ask == [id |-> nextAsk, incident |-> i, action |-> a]
  <2>1. ask \in Asks BY <1>T, <1>1 DEF RequestApproval, TypeOK, Asks, AskIds
  <2>2. Dispatch(ask) BY <1>1 DEF RequestApproval
  <2> HIDE DEF ask
  <2>3. QED BY <1>l, <2>1, <2>2, DispatchLifecycle
<1>2. ASSUME NEW ask \in retriable, RedeliverRequest(ask) PROVE Lifecycle!Next
  BY <1>T, <1>l, <1>2, DispatchLifecycle DEF RedeliverRequest, TypeOK
<1>3. ASSUME NEW i \in Incidents, NEW s \in {"APPROVED", "EXECUTING"}, Approve(i, s)
      PROVE  Lifecycle!Next
  <2> DEFINE e == [store[i] EXCEPT !.status = s]
  <2>1. store[i] # NoEntry /\ store[i].status = "PENDING" /\ e.status = s /\ s # "PENDING"
    BY <1>e, <1>3 DEF Approve, Approvable, Entries
  <2>2. store' = [store EXCEPT ![i] = e] BY <1>3 DEF Approve, Decide
  <2> HIDE DEF e
  <2>3. QED BY <1>3, <2>1, <2>2, OrderStep DEF Approve, Decide
<1>4. ASSUME NEW i \in Incidents, Reject(i) PROVE Lifecycle!Next
  BY <1>4, RefuseStep DEF Reject, Undecided
<1>5. ASSUME NEW i \in Incidents, Ignore(i) PROVE Lifecycle!Next
  BY <1>5, RefuseStep DEF Ignore, Undecided
<1>6. ASSUME NEW i \in Incidents, ApproveTooLate(i) PROVE Lifecycle!Next
  BY <1>T, <1>e, <1>l, <1>6, QuietLifecycle DEF ApproveTooLate, TypeOK, Entries
<1>7. ASSUME NEW o \in Operators, FinishSuggestion(o) PROVE Lifecycle!Next
  <2> DEFINE s == suggestion[o]
             i == s.incident
             told == store[i].shown \cup {Announcement(store[i].origin, s.action)}
             e(status) == [store[i] EXCEPT !.action = s.action, !.shown = told,
                                           !.status = status]
  <2>1. /\ i \in Incidents /\ store[i] # NoEntry /\ store[i] \in Entries
        /\ store[i].status = "PENDING"
    BY <1>T, <1>7 DEF FinishSuggestion, Undecided, TypeOK, Suggestions
  <2>2. \A status \in Statuses : e(status).status = status /\ e(status).cycle = store[i].cycle
    BY <2>1 DEF Entries
  <2>3. CASE UNCHANGED <<commands, verdict>> /\ nextCycle' = nextCycle
             /\ \E status \in Statuses : store' = [store EXCEPT ![i] = e(status)]
    <3>1. PICK status \in Statuses : store' = [store EXCEPT ![i] = e(status)] BY <2>3
    <3> HIDE DEF e
    <3>2. store'[i] = e(status) /\ \A j \in Incidents \ {i} : store'[j] = store[j]
      BY <1>T, <2>1, <3>1 DEF TypeOK
    <3>3. QED BY <1>l, <2>1, <2>2, <2>3, <3>2, QuietLifecycle
  <2>4. CASE s.applyNow /\ store[i].expires >= now /\ ~(store[i].expires < now)
    <3>1. /\ store' = [store EXCEPT ![i] = e("EXECUTING")]
          /\ verdict' = [verdict EXCEPT ![store[i].cycle] =
                              [count |-> @.count + 1, last |-> "APPROVED"]]
          /\ commands' = commands \cup {CommandOf(i, s.action)}
          /\ nextCycle' = nextCycle
      BY <1>7, <2>1, <2>4 DEF FinishSuggestion, Entries
    <3>2. e("EXECUTING").status = "EXECUTING" BY <2>2 DEF Statuses
    <3> HIDE DEF e
    <3>3. QED BY <2>1, <3>1, <3>2, OrderStep
  <2>5. nextCycle' = nextCycle BY <1>7 DEF FinishSuggestion
  <2>6. CASE ~s.applyNow
    <3>1. UNCHANGED <<commands, verdict>> /\ store' = [store EXCEPT ![i] = e("PENDING")]
      BY <1>7, <2>1, <2>6 DEF FinishSuggestion, Entries
    <3> HIDE DEF e
    <3>2. QED BY <2>3, <2>5, <3>1 DEF Statuses
  <2>7. CASE s.applyNow /\ store[i].expires < now
    <3>0. ~(store[i].expires >= now) BY <1>T, <2>1, <2>7 DEF TypeOK, Entries
    <3>1. UNCHANGED <<commands, verdict>> /\ store' = [store EXCEPT ![i] = e("EXPIRED")]
      BY <1>7, <2>1, <2>7, <3>0 DEF FinishSuggestion, Entries
    <3> HIDE DEF e
    <3>2. QED BY <2>3, <2>5, <3>1 DEF Statuses
  <2>8. (store[i].expires >= now) <=> ~(store[i].expires < now)
    BY <1>T, <2>1 DEF TypeOK, Entries
  <2>9. QED BY <2>4, <2>6, <2>7, <2>8
<1>8. ASSUME NEW c \in commands, NEW s \in {"DONE", "FAILED"}, Confirm(c, s)
      PROVE  Lifecycle!Next
  <2>1. c.incident \in Incidents BY <1>T, <1>8 DEF TypeOK, Commands
  <2>2. QED BY <1>T, <1>e, <1>l, <1>8, <2>1, QuietLifecycle DEF Confirm, TypeOK, Entries
<1>9. CASE PruneOld BY <1>l, <1>9, QuietLifecycle DEF PruneOld
<1>10. CASE Restart BY <1>l, <1>10, QuietLifecycle DEF Restart
<1>11. CASE UNCHANGED <<store, commands, verdict, nextCycle>> BY <1>11, <1>s
<1>12. QED
  BY <1>1, <1>2, <1>3, <1>4, <1>5, <1>6, <1>7, <1>8, <1>9, <1>10, <1>11
  DEF Next, vars, Unignore, BeginSuggestion, DropSuggestion, Tick

\* The HIL agent implements the abstract lifecycle: an ask is opened, then decided once or
\* lapsed, and only an approval orders a remediation.
THEOREM AgentImplementsLifecycle == Spec => ImplementsLifecycle
<1>1. IInv /\ IInv' /\ [Next]_vars => [Lifecycle!Next]_<<phases, {c.cycle : c \in commands}>>
  BY NextLifecycle
<1>2. QED
  BY <1>1, InitLifecycle, Invariance, PTL
  DEF Spec, ImplementsLifecycle, Lifecycle!Spec, phases
=============================================================================
