------------------------------- MODULE Detection -------------------------------
(***************************************************************************)
(* How incidents begin without an operator: the watcher's event stream and *)
(* pod polls (watcher/src/watcher.ts), its scheduled health sweeps         *)
(* (health-check-scheduler.ts), AlertManager's webhook and its correlation *)
(* (commander/src/alertmanager-webhook.ts, shared/src/alert-correlation.ts)*)
(* and, without the orchestrator, the investigator's analysis and the      *)
(* brain with its circuit breaker (brain/src/brain.ts, circuit-breaker.ts),*)
(* whose attempts are kept in a custom resource of the cluster.            *)
(*                                                                         *)
(* Time is counted in ticks: a cooldown holds the ticks that are left of   *)
(* it.  postWithRetry never throws: a POST that fails for good is a "dead  *)
(* letter", and its caller goes on as if it had been accepted.             *)
(***************************************************************************)
EXTENDS Integers, FiniteSets, Sequences, SequencesExt

CONSTANTS
    Workloads,
    Pods,           \* pods of the workloads, in the order of a poll: a sequence
    Owner,          \* the workload that owns a pod
    NameKey,        \* what its name alone says the owner is: the cooldown key of events
    Setups,         \* USE_ORCHESTRATOR, the sweeps, the webhook, ALERT_CORRELATION_ENABLED,
                    \* how each pod may fail, and the workloads that may be ignored
    Cooldown,       \* COOLDOWN_MINUTES, in ticks
    SweepCooldown,  \* HEALTH_CHECK_COOLDOWN_MS
    AlertCooldown,  \* ALERTMANAGER_COOLDOWN_MS
    Window,         \* ALERT_CORRELATION_WINDOW_MS
    CacheTime,      \* IGNORE_CACHE_MS
    Limit,          \* CIRCUIT_BREAKER_LIMIT
    MinGroup,       \* ALERT_CORRELATION_MIN_GROUP
    Alerts,         \* [workload, key]: alerts that may fire; key "none" if no label names a
                    \* dependency
    Hooks,          \* webhook requests served at the same time
    MaxFaults,      \* failing calls: dead letters, and answers of the API server
    MaxResets       \* successful remediations

PodSet == ToSet(Pods)
Statuses == {"healthy", "starting", "sick", "evicted"}
Keys == Workloads \cup PodSet
Sources == {"event", "poll"}

ASSUME DetectionAssumption ==
    /\ Owner \in [PodSet -> Workloads]
    /\ NameKey \in [PodSet -> Keys]
    /\ {Cooldown, SweepCooldown, AlertCooldown, Window, CacheTime, Limit, MinGroup}
          \subseteq Nat \ {0}
    /\ {MaxFaults, MaxResets} \subseteq Nat
    /\ \A a \in Alerts : a.workload \in Workloads
    /\ Setups \subseteq [orchestrator: BOOLEAN, sweeps: BOOLEAN, webhook: BOOLEAN, correlates: BOOLEAN,
                         fails: [PodSet -> SUBSET Statuses], ignores: SUBSET Workloads]

VARIABLES
    setup,
    pod,      \* the status of each pod
    ignored,  \* HIL's ignore list, and the watcher's copy of it
    cooldown, \* the watcher's cooldown map
    task,     \* per source and pod, the report under way
    sweep,    \* the health sweep and its own cooldown map
    cr,       \* per pod, the SREIncident resource of the circuit breaker
    alert,    \* per alert, its cooldown; per key, the correlation window
    hook,     \* the webhook requests
    faults,   \* failures so far, and remediations
    asked     \* per pod, asks since the last reset by reports that met nobody and no fault

detectionVars == <<setup, pod, ignored, cooldown, task, sweep, cr, alert, hook, faults, asked>>

watching == <<pod, ignored, cooldown, task>>

-----------------------------------------------------------------------------
Idle == [at |-> "idle", n |-> 0, alone |-> TRUE, failed |-> FALSE, escalated |-> FALSE]
NoHook == [at |-> "idle", alerts |-> {}, groups |-> {}, posted |-> {}, reused |-> {}]
NoSweep == [at |-> "off", todo |-> {}, item |-> "none"]

AlertKeys == {a.key : a \in Alerts} \cup Workloads

DetectionInit ==
    /\ setup \in Setups
    /\ pod = [p \in PodSet |-> "healthy"]
    /\ ignored = [hil |-> {}, cache |-> {}, fresh |-> 0]
    /\ cooldown = [k \in Keys |-> 0]
    /\ task = [t \in Sources \X PodSet |-> Idle]
    /\ sweep = [run |-> NoSweep, cooldown |-> [k \in Keys |-> 0]]
    /\ cr = [p \in PodSet |-> [exists |-> FALSE, count |-> 0, escalated |-> FALSE]]
    /\ alert = [cooldown |-> [a \in Alerts |-> 0], window |-> [k \in AlertKeys |-> 0]]
    /\ hook = [h \in Hooks |-> NoHook]
    /\ faults = [calls |-> 0, resets |-> 0]
    /\ asked = [p \in PodSet |-> 0]

\* One of the calls that fail.
Fault == faults.calls < MaxFaults /\ faults' = [faults EXCEPT !.calls = @ + 1]
NoFault == UNCHANGED faults

\* A call that may fail.
Call == Fault \/ NoFault

-----------------------------------------------------------------------------
(* The cluster and the operator *)

\* A pod fails, is evicted, is replaced, or becomes ready.
PodChanges(p) ==
    /\ \E status \in setup.fails[p] \ {pod[p]} :
          pod' = [pod EXCEPT ![p] = status]
    /\ UNCHANGED <<setup, ignored, cooldown, task, sweep, cr, alert, hook, faults, asked>>

\* HIL's ignore list: POST /api/ignore and the operator's removal.
OperatorIgnores(w) ==
    /\ w \in setup.ignores
    /\ ignored' = [ignored EXCEPT !.hil = IF w \in @ THEN @ \ {w} ELSE @ \cup {w}]
    /\ UNCHANGED <<setup, pod, cooldown, task, sweep, cr, alert, hook, faults, asked>>

\* The age of an entry, compared with its cooldown.
Less(n) == IF n = 0 THEN 0 ELSE n - 1

Tick ==
    /\ cooldown' = [k \in Keys |-> Less(cooldown[k])]
    /\ ignored' = [ignored EXCEPT !.fresh = Less(@)]
    /\ sweep' = [sweep EXCEPT !.cooldown = [k \in Keys |-> Less(@[k])]]
    /\ alert' = [cooldown |-> [a \in Alerts |-> Less(alert.cooldown[a])],
                 window |-> [k \in AlertKeys |-> Less(alert.window[k])]]
    /\ UNCHANGED <<setup, pod, task, cr, hook, faults, asked>>

-----------------------------------------------------------------------------
(* The watcher *)

\* shouldThrottle: fire, and begin the cooldown; or leave it as it is.
Throttle(map, key) ==
    [fires |-> map[key] = 0,
     map |-> IF map[key] = 0 THEN [map EXCEPT ![key] = Cooldown] ELSE map]

\* handleKubeEvent: a Warning about a pod that fails.  The stream delivers events
\* again when it is opened anew.
HandleKubeEvent(p) ==
    /\ ~setup.webhook
    /\ pod[p] \in {"sick", "starting"} /\ task[<<"event", p>>].at = "idle"
    /\ LET throttle == Throttle(cooldown, NameKey[p])
       IN /\ throttle.fires
          /\ cooldown' = throttle.map
    /\ task' = [task EXCEPT ![<<"event", p>>].at = "check"]
    /\ UNCHANGED <<setup, pod, ignored, sweep, cr, alert, hook, faults, asked>>

\* processPodList, one pod after the other: an evicted pod is reported without a
\* look at the ignore list, and a pod that is ready clears its workload's cooldown,
\* whatever its siblings are in.
PollPods ==
    /\ ~setup.webhook
    /\ \A p \in PodSet : task[<<"poll", p>>].at = "idle"
    /\ LET See(acc, p) ==
             LET throttle == Throttle(acc.map, Owner[p])
             IN CASE pod[p] = "healthy" -> [acc EXCEPT !.map[Owner[p]] = 0]
                  [] pod[p] \in {"sick", "evicted"} /\ throttle.fires ->
                        [map |-> throttle.map, fired |-> acc.fired \cup {p}]
                  [] pod[p] \in {"sick", "evicted"} /\ ~throttle.fires ->
                        [acc EXCEPT !.map = throttle.map]
                  [] OTHER -> acc
           seen == FoldLeft(See, [map |-> cooldown, fired |-> {}], Pods)
       IN /\ cooldown' = seen.map
          /\ task' = [t \in Sources \X PodSet |->
                         IF t[1] = "poll" /\ t[2] \in seen.fired
                         THEN [Idle EXCEPT !.at = IF pod[t[2]] = "evicted" THEN "post" ELSE "check"]
                         ELSE task[t]]
    /\ UNCHANGED <<setup, pod, ignored, sweep, cr, alert, hook, faults, asked>>

TaskTo(t, at) == task' = [task EXCEPT ![t].at = at]
Drop(t) == task' = [task EXCEPT ![t] = Idle]
TaskStep(t, at) == task[t].at = at /\ UNCHANGED <<setup, pod, cooldown, sweep, alert, hook>>

\* refreshIgnoreCache: the copy, while it is fresh; HIL's list; or, when HIL does
\* not answer, the old copy.
CheckIgnored(t) ==
    /\ TaskStep(t, "check")
    /\ \/ ignored.fresh > 0 /\ NoFault /\ UNCHANGED ignored
       \/ ignored.fresh = 0 /\ NoFault
          /\ ignored' = [ignored EXCEPT !.cache = ignored.hil, !.fresh = CacheTime]
       \/ ignored.fresh = 0 /\ Fault /\ UNCHANGED ignored
    /\ IF (IF t[1] = "event" THEN NameKey[t[2]] ELSE Owner[t[2]]) \in ignored'.cache
       THEN Drop(t) ELSE TaskTo(t, "post")
    /\ UNCHANGED <<cr, asked>>

\* fireAnomaly: POST /runs, or POST /analyze; or a dead letter.
FireAnomaly(t) ==
    /\ TaskStep(t, "post")
    /\ \/ NoFault /\ TaskTo(t, IF setup.orchestrator THEN "told" ELSE "gather")
       \/ Fault /\ Drop(t)
    /\ UNCHANGED <<ignored, cr, asked>>

\* runAnalysis: the facts are gathered and posted to the brain, or are not.  From
\* here on a report meets the other reports about its pod.
InBrain(t) == task[t].at \in {"read", "escalate", "llm", "inc", "reread", "create", "patch", "ask"}

RunAnalysis(t) ==
    /\ TaskStep(t, "gather")
    /\ \/ /\ NoFault
          /\ LET met == {u \in DOMAIN task : u # t /\ u[2] = t[2] /\ InBrain(u)}
             IN task' = [u \in DOMAIN task |->
                   CASE u = t -> [task[t] EXCEPT !.at = "read", !.alone = (met = {})]
                     [] u \in met -> [task[u] EXCEPT !.alone = FALSE]
                     [] OTHER -> task[u]]
       \/ Fault /\ Drop(t)
    /\ UNCHANGED <<ignored, cr, asked>>

\* The report is over; HIL or the orchestrator has it.
Told(t) ==
    /\ TaskStep(t, "told")
    /\ Drop(t)
    /\ UNCHANGED <<ignored, cr, faults, asked>>

-----------------------------------------------------------------------------
(* The brain and its circuit breaker *)

\* readCR: what the resource says; 0 when there is none or the API server fails.
ReadAttempts(t) ==
    {[seen |-> cr[t[2]], ok |-> TRUE],
     [seen |-> [exists |-> FALSE, count |-> 0, escalated |-> FALSE], ok |-> FALSE]}

CalledIf(ok) == IF ok THEN NoFault ELSE Fault

\* Mutant: one attempt more than the limit.
FiresLate(n) == n > Limit

Fires(n) == n >= Limit

\* getAttemptCount, and the decision.
ReadBreaker(t) ==
    /\ TaskStep(t, "read")
    /\ \E r \in ReadAttempts(t) :
          /\ CalledIf(r.ok)
          /\ task' = [task EXCEPT ![t].at = IF Fires(r.seen.count) THEN "escalate" ELSE "llm",
                                  ![t].alone = @ /\ r.ok]
    /\ UNCHANGED <<ignored, cr, asked>>

\* markEscalated, whose failure is only logged, and the escalated ask.
MarkEscalated(t) ==
    /\ TaskStep(t, "escalate")
    /\ \/ NoFault /\ cr' = [cr EXCEPT ![t[2]].escalated = @ \/ cr[t[2]].exists]
       \/ Fault /\ UNCHANGED cr
    /\ task' = [task EXCEPT ![t].at = "ask", ![t].escalated = TRUE]
    /\ UNCHANGED <<ignored, asked>>

\* diagnose.  A diagnosis that fails counts as an attempt too, and ends the report
\* after it is counted.
Diagnose(t) ==
    /\ TaskStep(t, "llm")
    /\ \E failed \in BOOLEAN :
          task' = [task EXCEPT ![t].at = "inc", ![t].failed = failed]
    /\ UNCHANGED <<ignored, cr, faults, asked>>

AfterCount(t, alone) ==
    task' = [task EXCEPT ![t] = IF task[t].failed THEN Idle
                                ELSE [@ EXCEPT !.at = "ask", !.n = 0, !.alone = alone]]

\* incrementAttemptCount: read; create the resource if there is none, which fails
\* if there is one by now, and read again; write the number read plus one.
ReadToIncrement(t) ==
    \E at \in {"inc", "reread"} :
        /\ TaskStep(t, at)
        /\ \E r \in ReadAttempts(t) :
              /\ CalledIf(r.ok)
              /\ task' = [task EXCEPT ![t].at = IF r.seen.exists \/ at = "reread" THEN "patch"
                                                                                ELSE "create",
                                      ![t].alone = @ /\ r.ok,
                                      ![t].n = r.seen.count]
        /\ UNCHANGED <<ignored, cr, asked>>

CreateCR(t) ==
    /\ TaskStep(t, "create")
    /\ \/ /\ NoFault /\ ~cr[t[2]].exists
          /\ cr' = [cr EXCEPT ![t[2]].exists = TRUE]
          /\ TaskTo(t, "reread")
       \/ /\ (NoFault /\ cr[t[2]].exists) \/ Fault
          /\ UNCHANGED cr
          /\ AfterCount(t, FALSE)
    /\ UNCHANGED <<ignored, asked>>

\* Mutant: attempts whose diagnosis failed are not counted.
CountedUnlessFailed(t) == IF task[t].failed THEN task[t].n ELSE task[t].n + 1

Counted(t) == task[t].n + 1

\* The resource is patched; beyond the limit the number is not told apart.
PatchAttempts(t) ==
    /\ TaskStep(t, "patch")
    /\ \/ /\ NoFault
          /\ cr' = [cr EXCEPT ![t[2]].count = IF Counted(t) > Limit THEN Limit + 1 ELSE Counted(t)]
          /\ AfterCount(t, task[t].alone)
       \/ Fault /\ UNCHANGED cr /\ AfterCount(t, FALSE)
    /\ UNCHANGED <<ignored, asked>>

\* The ask reaches HIL or is a dead letter.
Ask(t) ==
    /\ TaskStep(t, "ask")
    /\ \/ /\ NoFault
          /\ TaskTo(t, "told")
          /\ asked' = [asked EXCEPT ![t[2]] =
                IF task[t].alone /\ ~task[t].escalated /\ @ <= Limit THEN @ + 1 ELSE @]
       \/ Fault /\ Drop(t) /\ UNCHANGED asked
    /\ UNCHANGED <<ignored, cr>>

\* A remediation of the pod succeeds: the GitOps agent sets the attempts to 0.
ResetAttempts(p) ==
    /\ faults.resets < MaxResets
    /\ cr[p].exists
    /\ faults' = [faults EXCEPT !.resets = @ + 1]
    /\ cr' = [cr EXCEPT ![p].count = 0, ![p].escalated = FALSE]
    /\ asked' = [asked EXCEPT ![p] = 0]
    /\ task' = [t \in DOMAIN task |->
                   IF t[2] = p /\ InBrain(t) THEN [task[t] EXCEPT !.alone = FALSE] ELSE task[t]]
    /\ UNCHANGED <<setup, pod, ignored, cooldown, sweep, alert, hook>>

-----------------------------------------------------------------------------
(* The health sweep *)

\* fetchClusterHealth: the workloads that are not ready and the pods that fail.
StartSweep ==
    /\ setup.sweeps /\ sweep.run.at = "off"
    /\ LET bad == {p \in PodSet : pod[p] # "healthy"}
       IN /\ bad # {}
          /\ sweep' = [sweep EXCEPT !.run = [NoSweep EXCEPT
                          !.at = "loop", !.todo = bad \cup {Owner[p] : p \in bad}]]
    /\ UNCHANGED <<setup, watching, cr, alert, hook, faults, asked>>

\* The next item that is not throttled; workloads before pods.
NextItem ==
    /\ sweep.run.at = "loop"
    /\ LET open == {k \in sweep.run.todo : sweep.cooldown[k] = 0}
           first == IF open \cap Workloads # {} THEN open \cap Workloads ELSE open
       IN IF open = {} THEN sweep' = [sweep EXCEPT !.run = NoSweep]
          ELSE \E k \in first : sweep' = [sweep EXCEPT
                  !.run = [at |-> "post", todo |-> sweep.run.todo \ {k}, item |-> k]]
    /\ UNCHANGED <<setup, watching, cr, alert, hook, faults, asked>>

\* startHealthCheckRun and markFired, dead letter or not.
SweepPost ==
    /\ sweep.run.at = "post"
    /\ Call
    /\ sweep' = [run |-> [sweep.run EXCEPT !.at = "loop", !.item = "none"],
                 cooldown |-> [sweep.cooldown EXCEPT ![sweep.run.item] = SweepCooldown]]
    /\ UNCHANGED <<setup, watching, cr, alert, hook, asked>>

-----------------------------------------------------------------------------
(* AlertManager's webhook *)

AlertStep(h, at) ==
    /\ hook[h].at = at
    /\ UNCHANGED <<setup, watching, sweep, cr, asked>>

\* parseFiringAlerts: what is not in its cooldown, and begins it.
ReceiveAlerts(h) ==
    /\ setup.webhook
    /\ AlertStep(h, "idle")
    /\ \E firing \in SUBSET {a \in Alerts : alert.cooldown[a] = 0} \ {{}} :
          /\ hook' = [hook EXCEPT ![h] = [NoHook EXCEPT !.at = "group", !.alerts = firing]]
          /\ alert' = [alert EXCEPT !.cooldown =
                          [a \in Alerts |-> IF a \in firing THEN AlertCooldown ELSE @[a]]]
    /\ NoFault

\* groupParsedAlerts: the alerts of a key, if they are of enough workloads.
Grouped(alerts) ==
    {g \in {[key |-> k, workloads |-> {a.workload : a \in {b \in alerts : b.key = k}}] :
               k \in {a.key : a \in alerts} \ {"none"}} :
        Cardinality(g.workloads) >= MinGroup}

\* Mutant: an alert with a key is never left to itself.
GroupsOfKeys(alerts) ==
    Grouped(alerts) \cup
        {[key |-> w, workloads |-> {w}] :
            w \in {a.workload : a \in {b \in alerts : b.key = "none"}}
                  \ UNION {g.workloads : g \in Grouped(alerts)}}

\* buildAlertRunGroups: and every workload that is in no group, by itself, under
\* the key of its first alert.
Groups(alerts) ==
    LET grouped == Grouped(alerts)
        covered == UNION {g.workloads : g \in grouped}
        KeyOf(w) == LET a == CHOOSE a \in alerts : a.workload = w
                    IN IF a.key = "none" THEN w ELSE a.key
    IN grouped \cup {[key |-> KeyOf(w), workloads |-> {w}] :
                        w \in {a.workload : a \in alerts} \ covered}

\* enrichWithGraphBindings may bind each of the workloads, of two alerts or more, to
\* a key of the application graph.
Bindings(alerts) ==
    IF Cardinality(alerts) < 2 THEN {alerts}
    ELSE {{IF key[a.workload] = "none" THEN a ELSE [workload |-> a.workload, key |-> key[a.workload]] :
              a \in alerts} :
             key \in [Workloads -> {a.key : a \in Alerts} \cup {"none"}]}

\* Without correlation every alert is by itself; those of a workload are one here.
Singles(alerts) == {[key |-> a.workload, workloads |-> {a.workload}] : a \in alerts}

\* mergeWithRecentCorrelation passes over the groups whose key has a recent incident.
GroupAlerts(h) ==
    /\ AlertStep(h, "group")
    /\ \E bound \in Bindings(hook[h].alerts) :
          LET groups == IF setup.correlates THEN Groups(bound) ELSE Singles(bound)
              recent == {g \in groups : setup.correlates /\ alert.window[g.key] > 0}
          IN hook' = [hook EXCEPT ![h].at = "post", ![h].groups = groups \ recent,
                                  ![h].reused = UNION {g.workloads : g \in recent}]
    /\ NoFault /\ UNCHANGED alert

\* POST /runs, and recordCorrelationWindow: the group counts as started even if its
\* POST became a dead letter.
PostGroup(h) ==
    /\ AlertStep(h, "post")
    /\ \E g \in hook[h].groups :
          /\ hook' = [hook EXCEPT ![h].groups = @ \ {g}, ![h].posted = @ \cup {g}]
          /\ alert' = IF setup.correlates THEN [alert EXCEPT !.window[g.key] = Window] ELSE alert
    /\ Call

Respond(h) ==
    /\ AlertStep(h, "post") /\ hook[h].groups = {}
    /\ hook' = [hook EXCEPT ![h].at = "done"]
    /\ NoFault /\ UNCHANGED alert

Forget(h) ==
    /\ AlertStep(h, "done")
    /\ hook' = [hook EXCEPT ![h] = NoHook]
    /\ NoFault /\ UNCHANGED alert

-----------------------------------------------------------------------------
Report(t) ==
    \/ CheckIgnored(t) \/ FireAnomaly(t) \/ RunAnalysis(t) \/ Told(t)
    \/ ReadBreaker(t) \/ MarkEscalated(t) \/ Diagnose(t)
    \/ ReadToIncrement(t) \/ CreateCR(t) \/ PatchAttempts(t) \/ Ask(t)

Sweep == StartSweep \/ NextItem \/ SweepPost

Webhook(h) == ReceiveAlerts(h) \/ GroupAlerts(h) \/ PostGroup(h) \/ Respond(h) \/ Forget(h)

DetectionNext ==
    \/ \E p \in PodSet : PodChanges(p) \/ HandleKubeEvent(p) \/ ResetAttempts(p)
    \/ \E w \in Workloads : OperatorIgnores(w)
    \/ Tick \/ PollPods
    \/ \E t \in Sources \X PodSet : Report(t)
    \/ Sweep
    \/ \E h \in Hooks : Webhook(h)

\* The poll has a timer of its own, time passes, and what is begun goes on: every
\* call has a timeout.  Nothing is assumed of events, sweeps and webhooks.
DetectionSpec ==
    /\ DetectionInit /\ [][DetectionNext]_detectionVars
    /\ WF_detectionVars(Tick) /\ WF_detectionVars(PollPods)
    /\ \A p \in PodSet : WF_detectionVars(Report(<<"poll", p>>)) /\ WF_detectionVars(Report(<<"event", p>>))

-----------------------------------------------------------------------------
(* Properties *)

DetectionTypes ==
    /\ setup \in Setups
    /\ pod \in [PodSet -> Statuses]
    /\ ignored \in [hil: SUBSET Workloads, cache: SUBSET Workloads, fresh: 0..CacheTime]
    /\ cooldown \in [Keys -> 0..Cooldown]
    /\ \A t \in Sources \X PodSet :
          /\ task[t].at \in {"idle", "check", "post", "gather", "told"} \/ InBrain(t)
          /\ task[t].n \in 0..(Limit + 1)
          /\ {task[t].alone, task[t].failed, task[t].escalated} \subseteq BOOLEAN
    /\ sweep.run.at \in {"off", "loop", "post"} /\ sweep.run.todo \subseteq Keys
    /\ sweep.cooldown \in [Keys -> 0..SweepCooldown]
    /\ cr \in [PodSet -> [exists: BOOLEAN, count: 0..(Limit + 1), escalated: BOOLEAN]]
    /\ alert.cooldown \in [Alerts -> 0..AlertCooldown]
    /\ alert.window \in [AlertKeys -> 0..Window]
    /\ \A h \in Hooks : hook[h].at \in {"idle", "group", "post", "done"}
    /\ faults \in [calls: 0..MaxFaults, resets: 0..MaxResets]
    /\ asked \in [PodSet -> 0..(Limit + 1)]

\* Between two resets the brain asks for at most Limit remediations of a resource,
\* apart from reports that overlapped another one about it, a reset or a failing
\* call, although the number is read before the diagnosis and read again after it
\* (brain.ts:59-79, brain.ts:164).
AttemptsBounded == \A p \in PodSet : asked[p] <= Limit

\* A workload that is not ignored and one of whose pods fails for good is reported
\* again and again; and without the orchestrator its reports end in an escalation,
\* whatever the diagnosis does.  It need not be that pod that is reported: a sibling
\* that fails and is polled before it takes the cooldown of both each time
\* (watcher.ts:120-131, brain.ts:139-158).
SickIsReported ==
    \A w \in {Owner[p] : p \in PodSet} :
        LET mine == {p \in PodSet : Owner[p] = w}
        IN (\E p \in mine : <>[](/\ pod[p] = "sick"
                                /\ ({w} \cup {NameKey[q] : q \in mine}) \cap ignored.hil = {}))
           => []<>(\E p \in mine, s \in Sources :
                      /\ task[<<s, p>>].at = "told"
                      /\ setup.orchestrator \/ task[<<s, p>>].escalated)

\* When the webhook answers, every alert it accepted, and put into its cooldown, is
\* about a workload of a run it asked for, or of a group that was passed over for a
\* recent incident of its key (alert-correlation.ts:125-165).
AlertsAnswered ==
    \A h \in Hooks : hook[h].at = "done" =>
        \A a \in hook[h].alerts :
            a.workload \in hook[h].reused \cup UNION {g.workloads : g \in hook[h].posted}

=============================================================================
