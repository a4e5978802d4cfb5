---------------------------- MODULE ApprovalStore ----------------------------
(***************************************************************************)
(* The approval store of the HIL agent (agents/hil/src/store.ts) and the   *)
(* handlers around it: POST /request-approval, the approve / reject /      *)
(* ignore endpoints and chat buttons, POST /confirm, the operator's        *)
(* suggest-fix, the hourly prune, and a restart of the process (the store  *)
(* is a Map in memory).                                                    *)
(*                                                                         *)
(* A handler runs to its first await without interruption, so one action   *)
(* is one such stretch of code.  Only suggest-fix has an await between its *)
(* check of an entry and its update of it, hence its two actions.          *)
(*                                                                         *)
(* Of a plan only the action is kept, the part the fingerprint reads (with *)
(* the pending tool step, which it stands for too).  A CYCLE is the life   *)
(* of one ask in the store: from the mergeOrCreate that answered           *)
(* 'created', through its refreshes, to whatever ends it.                  *)
(***************************************************************************)
EXTENDS Naturals, FiniteSets

CONSTANTS
    Incidents,      \* incident ids asks are filed under
    Runs,           \* orchestrator runs
    NoRun,          \* an ask of the legacy brain path carries no runId
    RunOf,          \* the run an incident's asks carry, or NoRun
    Resources,      \* namespace/name pairs, the keys of the ignore list
    ResourceOf,     \* the resource an incident is about
    Actions,        \* plan actions; "restart" goes to the executor
    Operators,      \* humans with a suggest-fix request in flight
    TTL,            \* APPROVAL_TIMEOUT_MINUTES, in ticks
    PruneAge,       \* the 24 hours of pruneOld, in ticks
    MaxTime,        \* bound: ticks of the clock
    MaxCycles,      \* bound: cycles
    MaxAsks,        \* bound: asks sent
    NoEntry, Idle

ASSUME ConstantsAssumption ==
    /\ NoRun \notin Runs
    /\ RunOf \in [Incidents -> Runs \cup {NoRun}]
    /\ ResourceOf \in [Incidents -> Resources]
    /\ TTL \in Nat \ {0} /\ PruneAge \in Nat
    /\ MaxTime \in Nat /\ MaxCycles \in Nat /\ MaxAsks \in Nat

VARIABLES
    now,            \* Date.now()
    store,          \* the Map: incident -> entry
    ignored,        \* keys of the persisted ignore list
    suggestion,     \* operator -> suggestion awaiting the brain's plan
    retriable,      \* asks whose sender saw a timeout and will post again
    commands,       \* history: commands handed to postWithRetry
    verdict,        \* history: cycle -> how often it was decided, and the last verdict
    nextCycle, nextAsk

vars == <<now, store, ignored, suggestion, retriable, commands, verdict,
          nextCycle, nextAsk>>

-----------------------------------------------------------------------------
(* Types *)

Statuses == {"PENDING", "APPROVED", "REJECTED", "IGNORED", "EXPIRED",
             "EXECUTING", "DONE", "FAILED"}
Verdicts == {"none", "APPROVED", "REJECTED", "IGNORED"}
Cycles == 1..MaxCycles
AskIds == 1..MaxAsks
Asks == [id: AskIds, incident: Incidents, action: Actions]

Entries == [status: Statuses, origin: Incidents, action: Actions, expires: Nat,
            cycle: Cycles, ask: AskIds, shown: SUBSET (Actions \X Resources)]

Suggestions == [incident: Incidents, action: Actions, applyNow: BOOLEAN]

Commands == [cycle: Cycles, ask: AskIds, incident: Incidents, action: Actions,
             target: {"orchestrator", "executor", "gitops"}]

ASSUME EntryAssumption == NoEntry \notin Entries

-----------------------------------------------------------------------------
(* Reading the store *)

\* isPending: undecided and strictly before its expiry.
LivePending(i) ==
    /\ store[i] # NoEntry
    /\ store[i].status = "PENDING"
    /\ store[i].expires > now

\* findPendingByRunId
PendingOfRun(r) ==
    {i \in Incidents : LivePending(i) /\ RunOf[store[i].origin] = r}

\* Mutant: a run's ask under another incident is not looked for.
MergeTargetsOwnOnly(i) == IF LivePending(i) THEN {i} ELSE {}

\* The entries a request for incident i is merged into: its own live entry,
\* else a live entry of its run.
MergeTargets(i) ==
    IF LivePending(i) THEN {i}
    ELSE IF RunOf[i] = NoRun THEN {} ELSE PendingOfRun(RunOf[i])

\* What a notification tells operators: what is to be done, and to what.
Announcement(i, action) == <<action, ResourceOf[i]>>

\* Mutant: the action is left out of the fingerprint.
FingerprintNoAction(i, action) ==
    <<IF RunOf[i] = NoRun THEN i ELSE RunOf[i], ResourceOf[i]>>

\* approvalNotifyFingerprint: what makes two requests "the same ask".
Fingerprint(i, action) ==
    <<IF RunOf[i] = NoRun THEN i ELSE RunOf[i], action, ResourceOf[i]>>

-----------------------------------------------------------------------------
(* POST /request-approval, dispatch and mergeOrCreate *)

FreshEntry(ask, cycle, shown) ==
    [status |-> "PENDING", origin |-> ask.incident, action |-> ask.action,
     expires |-> now + TTL, cycle |-> cycle, ask |-> ask.id, shown |-> shown]

\* 'created': a new cycle, announced on every platform.
Create(ask) ==
    /\ nextCycle <= MaxCycles
    /\ store' = [store EXCEPT ![ask.incident] =
                    FreshEntry(ask, nextCycle, {Announcement(ask.incident, ask.action)})]
    /\ nextCycle' = nextCycle + 1

\* 'duplicate' or 'updated': the live entry j takes the request's content; it
\* is announced again only if the fingerprint changed.
Refresh(j, ask) ==
    LET old == Fingerprint(store[j].origin, store[j].action)
        new == Fingerprint(ask.incident, ask.action)
        told == Announcement(ask.incident, ask.action)
    IN  /\ store' = [store EXCEPT ![j] =
                        FreshEntry(ask, @.cycle,
                                   IF new = old THEN @.shown ELSE @.shown \cup {told})]
        /\ UNCHANGED nextCycle

Dispatch(ask) ==
    /\ ResourceOf[ask.incident] \notin ignored
    /\ \/ \E j \in MergeTargets(ask.incident) : Refresh(j, ask)
       \/ MergeTargets(ask.incident) = {} /\ Create(ask)
    /\ UNCHANGED <<now, ignored, suggestion, commands, verdict>>

\* Mutant: the orchestrator posts with postWithRetry, too.
EveryoneRetries(i) == TRUE

\* The orchestrator posts once (postJson), the brain with postWithRetry.
Retries(i) == RunOf[i] = NoRun

\* A requester posts an ask, which may arrive and still be sent again.
RequestApproval(i, action, timedOut) ==
    LET ask == [id |-> nextAsk, incident |-> i, action |-> action]
    IN  /\ nextAsk <= MaxAsks
        /\ nextAsk' = nextAsk + 1
        /\ timedOut => Retries(i)
        /\ retriable' = IF timedOut THEN retriable \cup {ask} ELSE retriable
        /\ Dispatch(ask)

RedeliverRequest(ask) ==
    /\ retriable' = retriable \ {ask}
    /\ UNCHANGED nextAsk
    /\ Dispatch(ask)

-----------------------------------------------------------------------------
(* Decisions *)

Decide(i, v, status) ==
    /\ store' = [store EXCEPT ![i].status = status]
    /\ verdict' = [verdict EXCEPT ![store[i].cycle] =
                        [count |-> @.count + 1, last |-> v]]

\* onApproved: a run is resumed, everything else goes to the tool itself.
CommandOf(i, action) ==
    [cycle |-> store[i].cycle, ask |-> store[i].ask, incident |-> i, action |-> action,
     target |-> IF RunOf[store[i].origin] # NoRun THEN "orchestrator"
                ELSE IF action = "restart" THEN "executor" ELSE "gitops"]

\* Mutant: the status is not looked at, only the expiry.
ApprovableAnyStatus(i) == store[i] # NoEntry /\ store[i].expires >= now

Approvable(i) ==
    /\ store[i] # NoEntry
    /\ store[i].status = "PENDING"
    /\ store[i].expires >= now

\* tryApprove answers 'ok'.  /api/approve moves the entry on to EXECUTING in the
\* same stretch; the Slack button and the legacy web form leave it APPROVED.
Approve(i, status) ==
    /\ Approvable(i)
    /\ Decide(i, "APPROVED", status)
    /\ commands' = commands \cup {CommandOf(i, store[i].action)}
    /\ UNCHANGED <<now, ignored, suggestion, retriable, nextCycle, nextAsk>>

\* tryApprove answers 'expired'.
ApproveTooLate(i) ==
    /\ store[i] # NoEntry
    /\ store[i].status = "PENDING"
    /\ store[i].expires < now
    /\ store' = [store EXCEPT ![i].status = "EXPIRED"]
    /\ UNCHANGED <<now, ignored, suggestion, retriable, commands, verdict,
                   nextCycle, nextAsk>>

\* Mutant: an entry that exists can be rejected or ignored.
UndecidedAny(i) == store[i] # NoEntry

\* Mutant: an expired ask can still be decided.
UndecidedOrExpired(i) ==
    store[i] # NoEntry /\ store[i].status \in {"PENDING", "EXPIRED"}

\* tryReject and tryIgnore do not look at the expiry.
Undecided(i) ==
    /\ store[i] # NoEntry
    /\ store[i].status = "PENDING"

Reject(i) ==
    /\ Undecided(i)
    /\ Decide(i, "REJECTED", "REJECTED")
    /\ UNCHANGED <<now, ignored, suggestion, retriable, commands, nextCycle, nextAsk>>

Ignore(i) ==
    /\ Undecided(i)
    /\ Decide(i, "IGNORED", "IGNORED")
    /\ ignored' = ignored \cup {ResourceOf[store[i].origin]}
    /\ UNCHANGED <<now, suggestion, retriable, commands, nextCycle, nextAsk>>

Unignore(r) ==
    /\ r \in ignored
    /\ ignored' = ignored \ {r}
    /\ UNCHANGED <<now, store, suggestion, retriable, commands, verdict,
                   nextCycle, nextAsk>>

-----------------------------------------------------------------------------
(* suggest-fix: check, await the brain, then update and perhaps approve *)

BeginSuggestion(o, i, action, applyNow) ==
    /\ suggestion[o] = Idle
    /\ Undecided(i)
    /\ suggestion' = [suggestion EXCEPT ![o] =
            [incident |-> i, action |-> action, applyNow |-> applyNow]]
    /\ UNCHANGED <<now, store, ignored, retriable, commands, verdict,
                   nextCycle, nextAsk>>

\* updatePlan needs a PENDING entry, whichever cycle it is in by now; then
\* tryApprove on the same entry when the operator said "apply now".
FinishSuggestion(o) ==
    LET s == suggestion[o]
        i == s.incident
        suggested == [store[i] EXCEPT !.action = s.action,
                        !.shown = @ \cup {Announcement(store[i].origin, s.action)}]
    IN  /\ s # Idle
        /\ Undecided(i)
        /\ suggestion' = [suggestion EXCEPT ![o] = Idle]
        /\ \/ /\ ~s.applyNow
              /\ store' = [store EXCEPT ![i] = suggested]
              /\ UNCHANGED <<commands, verdict>>
           \/ /\ s.applyNow /\ store[i].expires < now
              /\ store' = [store EXCEPT ![i] = [suggested EXCEPT !.status = "EXPIRED"]]
              /\ UNCHANGED <<commands, verdict>>
           \/ /\ s.applyNow /\ store[i].expires >= now
              /\ store' = [store EXCEPT ![i] = [suggested EXCEPT !.status = "EXECUTING"]]
              /\ verdict' = [verdict EXCEPT ![store[i].cycle] =
                                [count |-> @.count + 1, last |-> "APPROVED"]]
              /\ commands' = commands \cup {CommandOf(i, s.action)}
        /\ UNCHANGED <<now, ignored, retriable, nextCycle, nextAsk>>

\* The brain fails, or the entry was decided or removed meanwhile.
DropSuggestion(o) ==
    /\ suggestion[o] # Idle
    /\ suggestion' = [suggestion EXCEPT ![o] = Idle]
    /\ UNCHANGED <<now, store, ignored, retriable, commands, verdict,
                   nextCycle, nextAsk>>

-----------------------------------------------------------------------------
(* POST /confirm, the clock, pruneOld, restart *)

\* gitops confirms a command that carried no runId; updateStatus writes whatever
\* entry the incident has by then.
Confirm(c, outcome) ==
    /\ c.target = "gitops"
    /\ store[c.incident] # NoEntry
    /\ store' = [store EXCEPT ![c.incident].status = outcome]
    /\ UNCHANGED <<now, ignored, suggestion, retriable, commands, verdict,
                   nextCycle, nextAsk>>

Tick ==
    /\ now < MaxTime
    /\ now' = now + 1
    /\ UNCHANGED <<store, ignored, suggestion, retriable, commands, verdict,
                   nextCycle, nextAsk>>

\* Mutant: the comparison with the cutoff is the wrong way round.
PruneYoung ==
    /\ store' = [i \in Incidents |->
                    IF store[i] # NoEntry /\ store[i].expires + PruneAge > now
                    THEN NoEntry ELSE store[i]]
    /\ UNCHANGED <<now, ignored, suggestion, retriable, commands, verdict,
                   nextCycle, nextAsk>>

PruneOld ==
    /\ store' = [i \in Incidents |->
                    IF store[i] # NoEntry /\ store[i].expires + PruneAge < now
                    THEN NoEntry ELSE store[i]]
    /\ UNCHANGED <<now, ignored, suggestion, retriable, commands, verdict,
                   nextCycle, nextAsk>>

\* The process dies: the Map is gone, the ignore list is reloaded from its file.
Restart ==
    /\ store' = [i \in Incidents |-> NoEntry]
    /\ suggestion' = [o \in Operators |-> Idle]
    /\ UNCHANGED <<now, ignored, retriable, commands, verdict, nextCycle, nextAsk>>

-----------------------------------------------------------------------------
Init ==
    /\ now = 0
    /\ store = [i \in Incidents |-> NoEntry]
    /\ ignored = {}
    /\ suggestion = [o \in Operators |-> Idle]
    /\ retriable = {}
    /\ commands = {}
    /\ verdict = [c \in Cycles |-> [count |-> 0, last |-> "none"]]
    /\ nextCycle = 1
    /\ nextAsk = 1

Next ==
    \/ \E i \in Incidents, a \in Actions, t \in BOOLEAN : RequestApproval(i, a, t)
    \/ \E a \in retriable : RedeliverRequest(a)
    \/ \E i \in Incidents, s \in {"APPROVED", "EXECUTING"} : Approve(i, s)
    \/ \E i \in Incidents : ApproveTooLate(i) \/ Reject(i) \/ Ignore(i)
    \/ \E r \in Resources : Unignore(r)
    \/ \E o \in Operators, i \in Incidents, a \in Actions, b \in BOOLEAN :
            BeginSuggestion(o, i, a, b)
    \/ \E o \in Operators : FinishSuggestion(o) \/ DropSuggestion(o)
    \/ \E c \in commands, s \in {"DONE", "FAILED"} : Confirm(c, s)
    \/ Tick
    \/ PruneOld
    \/ Restart

Spec == Init /\ [][Next]_vars

-----------------------------------------------------------------------------
(* Properties *)

TypeOK ==
    /\ now \in Nat
    /\ store \in [Incidents -> Entries \cup {NoEntry}]
    /\ ignored \subseteq Resources
    /\ suggestion \in [Operators -> Suggestions \cup {Idle}]
    /\ retriable \subseteq Asks
    /\ commands \subseteq Commands
    /\ verdict \in [Cycles -> [count: Nat, last: Verdicts]]
    /\ nextCycle \in 1..(MaxCycles + 1)
    /\ nextAsk \in 1..(MaxAsks + 1)

\* "First approve wins": whatever the platforms, the retries, the suggestions
\* and the confirmations interleave to, one cycle is decided at most once
\* (tryApprove, tryReject, tryIgnore and suggest-fix's "apply now" together).
OneDecisionPerCycle == \A c \in Cycles : verdict[c].count <= 1

\* A command leaves the HIL agent only for a cycle whose one verdict is an
\* approval, and only once: a rejected, ignored or lapsed ask executes nothing.
CommandsFollowApproval ==
    /\ \A c \in commands : verdict[c.cycle] = [count |-> 1, last |-> "APPROVED"]
    /\ \A c, d \in commands : c.cycle = d.cycle => c = d

\* mergeOrCreate keeps a run to one live ask, under whichever incident it is
\* filed, so a run is not resumed for two asks that are open together.
OneLivePendingPerRun == \A r \in Runs : Cardinality(PendingOfRun(r)) <= 1

\* Refreshes that are not announced must not change what operators were told:
\* the action and target stored under an ask were announced for that ask, or
\* suggested by an operator.
StoredActionWasShown ==
    \A i \in Incidents :
        store[i] # NoEntry =>
            Announcement(store[i].origin, store[i].action) \in store[i].shown

\* The live ask of a run does not vanish while the process runs: it stays
\* pending until somebody decides it or its time runs out.
RunAskNeverLost ==
    [][\A r \in Runs :
         PendingOfRun(r) # {} =>
            \/ PendingOfRun(r)' # {}
            \/ \E i \in PendingOfRun(r) : verdict'[store[i].cycle].count > 0
            \/ now' > now
            \/ Restart]_vars

\* However the asks of runs are merged, refreshed, suggested over and lost in
\* restarts, and although decided entries are replaced (store.ts:97), an ask of a
\* run is ordered to be executed at most once: the orchestrator posts it once.
RunAsksAreOrderedOnce ==
    \A c, d \in commands : c.ask = d.ask /\ c.target = "orchestrator" => c = d

\* What store.ts says of itself: once an ask was decided, approving it again
\* answers 'already_handled', so one ask is executed once.
OneApprovalPerAsk == \A c, d \in commands : c.ask = d.ask => c = d

\* Every cycle lives the life AskLifecycle describes.
Phase(c) ==
    IF \E i \in Incidents : store[i] # NoEntry /\ store[i].cycle = c
                              /\ store[i].status = "PENDING"
    THEN "open"
    ELSE IF verdict[c].count > 0 THEN verdict[c].last
    ELSE IF c < nextCycle THEN "lapsed" ELSE "unopened"

Lifecycle == INSTANCE AskLifecycle WITH
    Asks <- Cycles,
    phase <- [c \in Cycles |-> Phase(c)],
    ordered <- {c.cycle : c \in commands}

ImplementsLifecycle == Lifecycle!Spec
=============================================================================
