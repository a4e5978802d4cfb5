---------------------------- MODULE RunAdmission ----------------------------
(***************************************************************************)
(* How the orchestrator admits, queues, deduplicates, cancels and resumes  *)
(* runs (agents/orchestrator/src: index.ts, throttled-queue.ts,            *)
(* run-dedupe.ts, stale-run-reconcile.ts, and the run store).              *)
(*                                                                         *)
(* Everything runs on one event loop and interleaves at its awaits: a      *)
(* handler of POST /runs reads the namespace's count in one step, looks    *)
(* for a duplicate in the next, judges it in the next and writes in the    *)
(* last; several drains of the queue overlap.  A request is its own run    *)
(* id.  What a run does is module RunGraph; here an execution only asks a  *)
(* human, ends, or dies.  A run's record outlives the process.             *)
(***************************************************************************)
EXTENDS Naturals, Sequences, FiniteSets

CONSTANTS
    Requests,       \* POST /runs requests, each sent once
    Resources, ResourceOf,      \* what a request is about
    Namespaces, NamespaceOf,    \* where its resource lives
    NoRun,          \* no duplicate found
    Limit,          \* NAMESPACE_RUN_LIMIT, 0 if there is none
    Drains,         \* invocations of drainThrottledRuns that may overlap
    Stores,         \* RUN_STORE_BACKEND
    ListLimit,      \* queued runs that a drain takes up at once (100)
    ScanLimit,      \* records read where a store has no index (500), and by a sweep
    DedupeLimit,    \* records looked through for a duplicate (200)
    Bounds          \* with each store: restarts of the orchestrator, operators'
                    \* cancellations, approvals that runs ask for, continuations of one
                    \* run at the same time, and whether a run may be queued for over a day

ASSUME AdmissionAssumption ==
    /\ ResourceOf \in [Requests -> Resources]
    /\ NamespaceOf \in [Resources -> Namespaces]
    /\ NoRun \notin Requests
    /\ Limit \in Nat /\ {ListLimit, ScanLimit, DedupeLimit} \subseteq Nat \ {0}
    /\ Stores \subseteq {"postgres", "file", "redis"}

ASSUME BoundsAssumption ==
    Bounds \in [Stores -> [crashes: Nat, cancels: Nat, asks: Nat, resumes: Nat, ages: BOOLEAN]]

VARIABLES
    store,      \* the run store's backend, fixed
    post,       \* the handler of each request
    rec,        \* status of each stored run
    newer,      \* per run, the runs whose records were written after its own
    aged,       \* runs enqueued over 24 hours ago
    queue,      \* throttled runs by started_at
    locks,      \* the file store's lock files
    late,       \* additions to the records of runs that were cancelled or are over
    drain,      \* the drains in progress
    jobs,       \* executions in progress
    starts,     \* how often each run's graph was started
    hil,        \* the approval HIL holds for each run
    mail,       \* resume commands HIL has still to deliver
    orphaned,   \* history: runs whose execution died without a word
    doomed,     \* runs the sweep read as stale and is about to cancel
    left        \* crashes, cancellations and asks still to come

vars == <<store, post, rec, newer, aged, queue, locks, late, drain, jobs, starts, hil,
          mail, orphaned, doomed, left>>

\* "ended" is succeeded, failed or escalated
Statuses == {"none", "pending_throttled", "running", "awaiting_human", "ended", "cancelled"}

Handlers == [at: {"new", "enqueue", "find", "judge", "cancel", "start",
                  "queued", "skipped", "started", "lost"},
             dup: Requests \cup {NoRun}, seen: Statuses]

\* A drain's list, less what it is done with, and the run it is about.
Drainers == [at: {"idle", "count", "claim", "read", "write", "start"}, todo: SUBSET Requests,
             run: Requests \cup {NoRun}]

\* n tells apart the executions of one run: a graph may be started twice, and a
\* resume command delivered twice.  saving is the status in the record that the
\* execution has read and is about to write back, "none" if there is no such record.
Jobs == [run: Requests, kind: {"graph", "resume"}, n: Nat, asked: BOOLEAN, saving: Statuses]

\* The same of an addition after the end.
Additions == [run: Requests, saving: Statuses]

Namespace(r) == NamespaceOf[ResourceOf[r]]

Active(r) == rec[r] \in {"running", "awaiting_human"}

\* The record is among the n that were written last: listRuns({limit: n}).
Within(r, n) == Cardinality(newer[r]) < n

\* countActiveRunsByNamespace: a query of Postgres, a scan of the other stores.
ActiveIn(ns) ==
    {r \in Requests : Active(r) /\ Namespace(r) = ns /\ (store = "postgres" \/ Within(r, ScanLimit))}

\* namespaceRunLimitExceeded(countActiveRunsByNamespace(ns))
Full(ns) == Limit > 0 /\ Cardinality(ActiveIn(ns)) >= Limit

Working(r) == \E j \in jobs : j.run = r

AtHandler(r, at) == post[r].at = at
GoOn(r, at) == post' = [post EXCEPT ![r].at = at]

\* updated_at of a record becomes the latest of all.
Touch(r) == newer' = [x \in Requests |-> IF x = r THEN {} ELSE newer[x] \cup {r}]

SetStatus(r, status) == rec' = [rec EXCEPT ![r] = status] /\ Touch(r)

\* Whoever cancels or ends a run adds the reason or the outcome to its record after the
\* status.  Postgres changes one column; the other stores read the whole record, and
\* write it back with the status they have read.
AddsLater(r) ==
    late' = IF store = "postgres" THEN late ELSE late \cup {[run |-> r, saving |-> "none"]}

\* cancelRunRecord
CancelRecord(r) == SetStatus(r, "cancelled") /\ AddsLater(r)

-----------------------------------------------------------------------------
(* POST /runs *)

PostCount(r) ==
    /\ AtHandler(r, "new")
    /\ GoOn(r, IF Full(Namespace(r)) THEN "enqueue" ELSE "find")
    /\ UNCHANGED <<rec, newer, aged, queue, locks, late, drain, jobs, starts, hil, mail,
                   orphaned, doomed, left>>

\* enqueueThrottledRun: no duplicate is looked for.
PostEnqueue(r) ==
    /\ AtHandler(r, "enqueue")
    /\ SetStatus(r, "pending_throttled")
    /\ queue' = Append(queue, r)
    /\ GoOn(r, "queued")
    /\ UNCHANGED <<aged, locks, late, drain, jobs, starts, hil, mail, orphaned, doomed, left>>

Duplicates(r, statuses) ==
    {x \in Requests : ResourceOf[x] = ResourceOf[r] /\ rec[x] \in statuses}

\* findActiveRunByResourceKey: by an index of Postgres, or among the latest records.
ActiveDuplicates(r) ==
    {x \in Duplicates(r, {"running", "awaiting_human"}) :
        store = "postgres" \/ Within(x, DedupeLimit)}

\* Else findActiveDuplicateRun, which also sees the queue, among the latest records.
Candidates(r) ==
    IF ActiveDuplicates(r) # {} THEN ActiveDuplicates(r)
    ELSE {x \in Duplicates(r, {"pending_throttled"}) : Within(x, DedupeLimit)}

PostFind(r) ==
    /\ AtHandler(r, "find")
    /\ \/ Candidates(r) = {} /\ GoOn(r, "start")
       \/ \E d \in Candidates(r) :
            post' = [post EXCEPT ![r] = [at |-> "judge", dup |-> d, seen |-> rec[d]]]
    /\ UNCHANGED <<rec, newer, aged, queue, locks, late, drain, jobs, starts, hil, mail,
                   orphaned, doomed, left>>

\* What isStaleRunningRun may find stale.  Its thresholds (2 to 48 hours idle) are far
\* beyond the timeouts of a working execution, but the age of a run that has not
\* executed a plan yet counts from its enqueuing.
Stale(d) == rec[d] = "running" /\ (~Working(d) \/ d \in aged)

\* reconcileStaleActiveRun up to its write.  A run that awaits a human is an orphan
\* if HIL holds no pending approval for it; HIL may fail to answer.
PostJudge(r) ==
    LET d == post[r].dup
    IN  /\ AtHandler(r, "judge")
        /\ \/ post[r].seen = "awaiting_human" /\ hil[d] # "pending" /\ GoOn(r, "cancel")
           \/ post[r].seen = "awaiting_human" /\ GoOn(r, "skipped")
           \/ post[r].seen = "running" /\ Stale(d) /\ GoOn(r, "cancel")
           \/ post[r].seen = "running" /\ GoOn(r, "skipped")
           \/ post[r].seen = "pending_throttled" /\ GoOn(r, "skipped")
        /\ UNCHANGED <<rec, newer, aged, queue, locks, late, drain, jobs, starts, hil, mail,
                       orphaned, doomed, left>>

PostCancel(r) ==
    /\ AtHandler(r, "cancel")
    /\ CancelRecord(post[r].dup)
    /\ GoOn(r, "start")
    /\ UNCHANGED <<aged, queue, locks, drain, jobs, starts, hil, mail, orphaned, doomed, left>>

Execution(r, kind, n) == [run |-> r, kind |-> kind, n |-> n, asked |-> FALSE, saving |-> "none"]

\* The graph of a run is started: startRun and startQueuedRun.
StartGraph(r) ==
    /\ jobs' = jobs \cup {Execution(r, "graph", starts[r] + 1)}
    /\ starts' = [starts EXCEPT ![r] = @ + 1]

PostStart(r) ==
    /\ AtHandler(r, "start")
    /\ SetStatus(r, "running")
    /\ StartGraph(r)
    /\ GoOn(r, "started")
    /\ UNCHANGED <<aged, queue, locks, late, drain, hil, mail, orphaned, doomed, left>>

-----------------------------------------------------------------------------
(* drainThrottledRuns: on a timer, at boot, and after a run *)

DrainAt(d, at) == drain[d].at = at

Earlier(x, r) == \E i, j \in DOMAIN queue : i < j /\ queue[i] = x /\ queue[j] = r

\* Those of a list that were enqueued first.
Oldest(list) == {r \in list : \A x \in list : ~Earlier(x, r)}

\* The records in which a store looks for queued runs: all of them; the latest
\* ScanLimit; or, in Redis, the ScanLimit that were not written for longest.
Scanned(r) ==
    CASE store = "postgres" -> TRUE
      [] store = "file" -> Within(r, ScanLimit)
      [] store = "redis" ->
            Cardinality({x \in Requests : rec[x] # "none" /\ x \notin newer[r] \cup {r}}) < ScanLimit

Queued == {r \in Requests : rec[r] = "pending_throttled" /\ Scanned(r)}

\* listPendingThrottledRuns(100): those that were enqueued first.
Listed == {r \in Queued : Cardinality({x \in Queued : Earlier(x, r)}) < ListLimit}

\* Mutant: the drain does not notice the end of its list.
OnwardNoEnd(rest) == [at |-> "count", todo |-> rest, run |-> NoRun]

\* To the rest of the list.
Onward(rest) ==
    [at |-> IF rest = {} THEN "idle" ELSE "count", todo |-> rest, run |-> NoRun]

DrainList(d) ==
    /\ DrainAt(d, "idle") /\ Limit > 0 /\ Listed # {}
    /\ drain' = [drain EXCEPT ![d] = Onward(Listed)]
    /\ UNCHANGED <<post, rec, newer, aged, queue, locks, late, jobs, starts, hil, mail,
                   orphaned, doomed, left>>

\* Mutant: what waits in the queue counts as active, as it does for duplicates.
BlockedByQueue(r) ==
    Cardinality({x \in Requests : Namespace(x) = Namespace(r)
                                  /\ (Active(x) \/ rec[x] = "pending_throttled")}) >= Limit

Blocked(r) == Full(Namespace(r))

\* The next run of the list: passed over if its namespace is full.
DrainCount(d) ==
    /\ DrainAt(d, "count")
    /\ \E r \in Oldest(drain[d].todo) :
        LET rest == drain[d].todo \ {r}
        IN  drain' = [drain EXCEPT ![d] =
                IF Blocked(r) THEN Onward(rest)
                ELSE [at |-> "claim", todo |-> rest, run |-> r]]
    /\ UNCHANGED <<post, rec, newer, aged, queue, locks, late, jobs, starts, hil, mail,
                   orphaned, doomed, left>>

\* Mutant: the claim does not look at the status.
ClaimableAlways(r) == TRUE

Claimable(r) == rec[r] = "pending_throttled"

\* claimThrottledRun of Postgres: an UPDATE with a condition.
DrainClaim(d) ==
    LET r == drain[d].run
    IN  /\ DrainAt(d, "claim") /\ store = "postgres"
        /\ \/ /\ Claimable(r)
              /\ SetStatus(r, "running")
              /\ drain' = [drain EXCEPT ![d].at = "start"]
           \/ /\ ~Claimable(r)
              /\ drain' = [drain EXCEPT ![d] = Onward(@.todo)]
              /\ UNCHANGED <<rec, newer>>
        /\ UNCHANGED <<post, aged, queue, locks, late, jobs, starts, hil, mail, orphaned,
                       doomed, left>>

\* The file store: a lock file, which only other claims respect, and which a restart
\* leaves behind.
DrainLock(d) ==
    LET r == drain[d].run
    IN  /\ DrainAt(d, "claim") /\ store = "file"
        /\ IF r \in locks
           THEN drain' = [drain EXCEPT ![d] = Onward(@.todo)] /\ UNCHANGED locks
           ELSE drain' = [drain EXCEPT ![d].at = "read"] /\ locks' = locks \cup {r}
        /\ UNCHANGED <<post, rec, newer, aged, queue, late, jobs, starts, hil, mail,
                       orphaned, doomed, left>>

\* The file store reads and writes under the lock.  Redis has WATCH and GET, then MULTI,
\* SET and EXEC, all on the process's one connection, where the EXEC of one claim ends the
\* WATCH of the others.
DrainClaimRead(d) ==
    LET r == drain[d].run
    IN  /\ DrainAt(d, IF store = "redis" THEN "claim" ELSE "read")
        /\ store # "postgres"
        /\ IF Claimable(r)
           THEN drain' = [drain EXCEPT ![d].at = "write"] /\ UNCHANGED locks
           ELSE drain' = [drain EXCEPT ![d] = Onward(@.todo)] /\ locks' = locks \ {r}
        /\ UNCHANGED <<post, rec, newer, aged, queue, late, jobs, starts, hil, mail,
                       orphaned, doomed, left>>

\* The claim of Redis does not write the index.
DrainClaimWrite(d) ==
    LET r == drain[d].run
    IN  /\ DrainAt(d, "write")
        /\ rec' = [rec EXCEPT ![r] = "running"]
        /\ IF store = "redis" THEN UNCHANGED newer ELSE Touch(r)
        /\ drain' = [drain EXCEPT ![d].at = "start"]
        /\ locks' = locks \ {r}
        /\ UNCHANGED <<post, aged, queue, late, jobs, starts, hil, mail, orphaned, doomed, left>>

DrainStart(d) ==
    /\ DrainAt(d, "start")
    /\ StartGraph(drain[d].run)
    /\ drain' = [drain EXCEPT ![d] = Onward(@.todo)]
    /\ UNCHANGED <<post, rec, newer, aged, queue, locks, late, hil, mail, orphaned, doomed, left>>

-----------------------------------------------------------------------------
(* Executions, approvals and cancellations *)

\* The graph, or a continuation, sends an ask, and after HIL's answer writes the status.
JobAsks(j) ==
    /\ ~j.asked /\ j.saving = "none" /\ left.asks > 0
    /\ left' = [left EXCEPT !.asks = @ - 1]
    /\ jobs' = (jobs \ {j}) \cup {[j EXCEPT !.asked = TRUE]}
    /\ hil' = [hil EXCEPT ![j.run] = "pending"]
    /\ UNCHANGED <<post, rec, newer, aged, queue, locks, late, drain, starts, mail, orphaned,
                   doomed>>

\* An execution adds to its record: a transcript, a plan, metadata.  Postgres changes one
\* column; the other stores read the record,
JobSaves(j) ==
    /\ j.saving = "none"
    /\ IF store = "postgres"
       THEN Touch(j.run) /\ UNCHANGED jobs
       ELSE jobs' = (jobs \ {j}) \cup {[j EXCEPT !.saving = rec[j.run]]} /\ UNCHANGED newer
    /\ UNCHANGED <<post, rec, aged, queue, locks, late, drain, starts, hil, mail, orphaned,
                   doomed, left>>

\* and write it back as they have read it, its status included.
JobWrites(j) ==
    /\ j.saving # "none"
    /\ SetStatus(j.run, j.saving)
    /\ jobs' = (jobs \ {j}) \cup {[j EXCEPT !.saving = "none"]}
    /\ UNCHANGED <<post, aged, queue, locks, late, drain, starts, hil, mail, orphaned, doomed,
                   left>>

\* Mutant: a graph that fails does not write its status.
FinalStatusesUnwritten(j) == IF j.asked THEN {"awaiting_human"} ELSE {rec[j.run]}

\* setRunStatus(final.status), whatever the status has become meanwhile; a graph whose
\* resource is ignored is cancelled.
FinalStatuses(j) ==
    CASE j.asked -> {"awaiting_human"}
      [] ~j.asked /\ j.kind = "graph" -> {"ended", "cancelled"}
      [] OTHER -> {"ended"}

JobEnds(j) ==
    /\ j.saving = "none"
    /\ jobs' = jobs \ {j}
    /\ \E status \in FinalStatuses(j) : SetStatus(j.run, status)
    /\ AddsLater(j.run)
    /\ UNCHANGED <<post, aged, queue, locks, drain, starts, hil, mail, orphaned, doomed,
                   left>>

\* resumeRunAfterApproval throws, which /resume-run only logs; or the write of a graph's
\* final status fails, which is swallowed.
JobDies(j) ==
    /\ j.saving = "none"
    /\ jobs' = jobs \ {j}
    /\ orphaned' = orphaned \cup {j.run}
    /\ IF j.kind = "graph" THEN AddsLater(j.run) ELSE UNCHANGED late
    /\ UNCHANGED <<post, rec, newer, aged, queue, locks, drain, starts, hil, mail, doomed,
                   left>>

\* HIL posts the command, and posts it again when no answer comes in time.
Approve(r) ==
    /\ hil[r] = "pending"
    /\ hil' = [hil EXCEPT ![r] = "decided"]
    /\ \E copies \in 1..2 : mail' = [mail EXCEPT ![r] = @ + copies]
    /\ UNCHANGED <<post, rec, newer, aged, queue, locks, late, drain, jobs, starts, orphaned,
                   doomed, left>>

\* Rejected, ignored, expired, or lost with HIL's memory: the run is not told.
AskDies(r) ==
    /\ hil[r] = "pending"
    /\ hil' = [hil EXCEPT ![r] = "decided"]
    /\ UNCHANGED <<post, rec, newer, aged, queue, locks, late, drain, jobs, starts, mail,
                   orphaned, doomed, left>>

Unused(r, n) == \A j \in jobs : j.run = r /\ j.kind = "resume" => j.n # n

\* /resume-run: whatever the status of the run, it is running now.
ResumeArrives(r) ==
    /\ mail[r] > 0
    /\ mail' = [mail EXCEPT ![r] = @ - 1]
    /\ \E n \in 1..Bounds[store].resumes :
        /\ Unused(r, n) /\ \A m \in 1..(n - 1) : ~Unused(r, m)
        /\ jobs' = jobs \cup {Execution(r, "resume", n)}
    /\ SetStatus(r, "running")
    /\ UNCHANGED <<post, aged, queue, locks, late, drain, starts, hil, orphaned, doomed, left>>

\* POST /runs/:runId/cancel
OperatorCancels(r) ==
    /\ rec[r] # "none" /\ left.cancels > 0
    /\ left' = [left EXCEPT !.cancels = @ - 1]
    /\ CancelRecord(r)
    /\ UNCHANGED <<post, aged, queue, locks, drain, jobs, starts, hil, mail, orphaned, doomed>>

\* Mutant: the sweep takes the oldest records.
SweepsOldest(r) == ~Within(r, ScanLimit)

\* What a sweep reads.
Sweeps(r) == Within(r, ScanLimit)

\* sweepStaleRunningRuns, at boot and every quarter of an hour: it reads the latest
\* records, then cancels the stale ones one after the other.
SweepReads(r) ==
    /\ Stale(r) /\ Sweeps(r) /\ r \notin doomed
    /\ doomed' = doomed \cup {r}
    /\ UNCHANGED <<post, rec, newer, aged, queue, locks, late, drain, jobs, starts, hil, mail,
                   orphaned, left>>

SweepCancels(r) ==
    /\ r \in doomed
    /\ doomed' = doomed \ {r}
    /\ CancelRecord(r)
    /\ UNCHANGED <<post, aged, queue, locks, drain, jobs, starts, hil, mail, orphaned, left>>

\* The addition to the record of a run that was cancelled or is over.
LateRead(l) ==
    /\ l.saving = "none"
    /\ late' = (late \ {l}) \cup {[l EXCEPT !.saving = rec[l.run]]}
    /\ UNCHANGED <<post, rec, newer, aged, queue, locks, drain, jobs, starts, hil, mail, orphaned,
                   doomed, left>>

LateWrite(l) ==
    /\ l.saving # "none"
    /\ late' = late \ {l}
    /\ SetStatus(l.run, l.saving)
    /\ UNCHANGED <<post, aged, queue, locks, drain, jobs, starts, hil, mail, orphaned, doomed, left>>

LateStep == (\E l \in late : LateRead(l) \/ LateWrite(l)) /\ UNCHANGED store

CancelStep(r) ==
    (SweepReads(r) \/ SweepCancels(r)) /\ UNCHANGED store

\* A day passes while a run is queued.
WaitADay(r) ==
    /\ Bounds[store].ages /\ rec[r] = "pending_throttled" /\ r \notin aged
    /\ aged' = aged \cup {r}
    /\ UNCHANGED <<post, rec, newer, queue, locks, late, drain, jobs, starts, hil, mail, orphaned,
                   doomed, left>>

\* The process restarts: handlers, drains and executions are gone.
Crash ==
    /\ left.crashes > 0
    /\ left' = [left EXCEPT !.crashes = @ - 1]
    /\ post' = [r \in Requests |->
                    IF post[r].at \in {"new", "queued", "skipped", "started"}
                    THEN post[r] ELSE [post[r] EXCEPT !.at = "lost"]]
    /\ drain' = [d \in Drains |-> Onward({})]
    /\ jobs' = {}
    /\ orphaned' = orphaned \cup {r \in Requests : rec[r] = "running"}
    /\ doomed' = {} /\ late' = {}
    /\ UNCHANGED <<store, rec, newer, aged, queue, locks, starts, hil, mail>>

-----------------------------------------------------------------------------
Init ==
    /\ store \in Stores
    /\ post = [r \in Requests |-> [at |-> "new", dup |-> NoRun, seen |-> "none"]]
    /\ rec = [r \in Requests |-> "none"] /\ newer = [r \in Requests |-> {}]
    /\ aged = {} /\ queue = << >> /\ locks = {} /\ late = {}
    /\ drain = [d \in Drains |-> Onward({})]
    /\ jobs = {} /\ starts = [r \in Requests |-> 0]
    /\ hil = [r \in Requests |-> "none"] /\ mail = [r \in Requests |-> 0]
    /\ orphaned = {} /\ doomed = {}
    /\ left = [f \in {"crashes", "cancels", "asks"} |-> Bounds[store][f]]

PostStep(r) ==
    /\ \/ PostCount(r) \/ PostEnqueue(r) \/ PostFind(r)
       \/ PostJudge(r) \/ PostCancel(r) \/ PostStart(r)
    /\ UNCHANGED store

DrainStep(d) ==
    /\ \/ DrainList(d) \/ DrainCount(d) \/ DrainClaim(d) \/ DrainLock(d)
       \/ DrainClaimRead(d) \/ DrainClaimWrite(d) \/ DrainStart(d)
    /\ UNCHANGED store

JobOver == (\E j \in jobs : JobEnds(j) \/ JobDies(j)) /\ UNCHANGED store

JobStep ==
    \/ (\E j \in jobs : JobAsks(j) \/ JobSaves(j) \/ JobWrites(j)) /\ UNCHANGED store
    \/ JobOver

Outside(r) ==
    /\ Approve(r) \/ AskDies(r) \/ ResumeArrives(r) \/ OperatorCancels(r) \/ WaitADay(r)
    /\ UNCHANGED store

Next ==
    \/ \E r \in Requests : PostStep(r) \/ Outside(r) \/ CancelStep(r)
    \/ \E d \in Drains : DrainStep(d)
    \/ JobStep \/ LateStep
    \/ Crash

\* The event loop goes on, executions end (their calls have timeouts), and the
\* timers of the drain and of the sweep fire again and again.
Fairness ==
    /\ \A r \in Requests : WF_vars(PostStep(r)) /\ WF_vars(CancelStep(r))
    /\ \A d \in Drains : WF_vars(DrainStep(d))
    /\ WF_vars(JobOver) /\ WF_vars(LateStep)

Spec == Init /\ [][Next]_vars /\ Fairness

-----------------------------------------------------------------------------
(* Properties *)

\* Every variable has its type.
TypeOK ==
    /\ store \in Stores
    /\ post \in [Requests -> Handlers]
    /\ \A r \in Requests : post[r].at \in {"judge", "cancel"} => post[r].dup \in Requests
    /\ rec \in [Requests -> Statuses]
    /\ newer \in [Requests -> SUBSET Requests]
    /\ aged \subseteq Requests /\ locks \subseteq Requests /\ late \subseteq Additions
    /\ orphaned \subseteq Requests /\ doomed \subseteq Requests
    /\ queue \in Seq(Requests)
    /\ drain \in [Drains -> Drainers]
    /\ \A d \in Drains :
          /\ DrainAt(d, "idle") => drain[d].todo = {}
          /\ DrainAt(d, "count") => drain[d].todo # {}
          /\ drain[d].run = NoRun <=> drain[d].at \in {"idle", "count"}
    /\ jobs \subseteq Jobs
    /\ starts \in [Requests -> Nat]
    /\ hil \in [Requests -> {"none", "pending", "decided"}]
    /\ mail \in [Requests -> Nat]
    /\ left \in [crashes: Nat, cancels: Nat, asks: Nat]

\* However the drains overlap, and whatever is cancelled, swept, resumed, written back or
\* restarted meanwhile, the graph of a run is started at most once: where the store
\* claims a queued run in one step, or under a lock (file-run-store.ts:129).
StartedOnce == store # "redis" => \A r \in Requests : starts[r] <= 1

\* With Postgres, a run that was cancelled goes on only if HIL had sent an approval it was
\* waiting for; no drain that had it on its list brings it back (throttled-queue.ts:71).
\* The other stores do not promise it: see CancelledIsNotRequeuedAnywhere.
CancelledIsNotRequeued ==
    [][\A r \in Requests :
        store = "postgres" /\ rec[r] = "cancelled" /\ rec'[r] = "running"
            => mail'[r] < mail[r]]_vars

\* With Postgres, the status 'running' is the mark of an execution in progress, of a claim
\* about to become one, or of an execution that died: that is all the sweep may assume
\* (stale-run-reconcile.ts:103).  In the other stores an execution that is over may also
\* write back the 'running' of a continuation that ended meanwhile.
RunningMeansWorking ==
    store = "postgres" => \A r \in Requests : rec[r] = "running" =>
        \/ Working(r) \/ r \in orphaned
        \/ \E d \in Drains : DrainAt(d, "start") /\ drain[d].run = r

Dead(r) == rec[r] = "running" /\ ~Working(r)

\* A run whose execution died does not block its resource and its namespace for
\* ever: it is swept, unless it is resumed, or so many records were written after its
\* own that no sweep reads it any more (stale-run-reconcile.ts:99).
DeadRunsAreSwept ==
    \A r \in Requests : Dead(r) ~> (~Dead(r) \/ ~Within(r, ScanLimit))

\* A queued run is not passed over for ever while its namespace has room, as long as it is
\* among those that a drain lists (throttled-queue.ts:61).
CapacityReachesQueue ==
    \A r \in Requests : []<>(rec[r] # "pending_throttled" \/ Full(Namespace(r)) \/ r \notin Listed)

-----------------------------------------------------------------------------
(* What the comments and the documentation say, and the code does not do *)

\* agents/orchestrator/src/index.ts:139, to whoever posts a request that is queued: "It will
\* start automatically when capacity is available."  A hundred older runs whose namespace
\* stays full keep it off every list.
StartsWhenThereIsRoom ==
    \A r \in Requests : []<>(rec[r] # "pending_throttled" \/ Full(Namespace(r)))

\* docs/DEVOPS-AGENT-PHASES.md: a new run is skipped if its resource already has
\* one that is running or awaits a human.
OneActiveRunPerResource ==
    \A r, x \in Requests : Active(r) /\ Active(x) /\ ResourceOf[r] = ResourceOf[x] => r = x

\* docs/OPERATIONS-CONSOLE.md: the operator can cancel a run in flight.
CancelledStaysCancelled ==
    [][\A r \in Requests : rec[r] = "cancelled" => rec'[r] = "cancelled"]_vars

\* The same of any store: only an approval takes a cancelled run up again.
CancelledIsNotRequeuedAnywhere ==
    [][\A r \in Requests :
        rec[r] = "cancelled" /\ rec'[r] = "running" => mail'[r] < mail[r]]_vars

\* throttled-queue.ts: a queued run is claimed so that overlapping drains, or
\* replicas, cannot start it twice: whatever the store.
ClaimedOnce == \A r \in Requests : starts[r] <= 1

=============================================================================
