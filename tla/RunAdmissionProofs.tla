------------------------- MODULE RunAdmissionProofs -------------------------
(***************************************************************************)
(* Theorems about RunAdmission, for every set of requests, resources,      *)
(* namespaces and drains, every limit and every number of crashes.         *)
(***************************************************************************)
EXTENDS RunAdmission, TLAPS

\* What the handlers of POST /runs and the drains know of a run, that makes them
\* start it once: a handler that has not started its run is the only one who knows
\* the run; a queued run was never started; a claimed run was never started either,
\* is no longer queued, and is claimed by one drain.
Unstored(r) == post[r].at \notin {"queued", "started"}

HandlersOwnTheirRun ==
    \A r \in Requests : Unstored(r) => starts[r] = 0 /\ rec[r] = "none"

QueuedIsUnstarted ==
    \A r \in Requests : rec[r] = "pending_throttled" => post[r].at = "queued" /\ starts[r] = 0

Claimed(d, r) == DrainAt(d, "start") /\ drain[d].run = r

\* The file store: whoever reads or writes a claim holds the lock of the run.
Holds(d, r) == drain[d].at \in {"read", "write"} /\ drain[d].run = r

Claims(d, r) == DrainAt(d, "write") /\ drain[d].run = r

LockIsExclusive ==
    /\ \A d \in Drains, r \in Requests : Holds(d, r) => r \in locks
    /\ \A d, k \in Drains, r \in Requests : Holds(d, r) /\ Holds(k, r) => d = k

ClaimIsExclusive ==
    /\ \A d \in Drains, r \in Requests : Claimed(d, r) \/ Claims(d, r) =>
            post[r].at = "queued" /\ starts[r] = 0 /\ rec[r] # "none"
    /\ \A d \in Drains, r \in Requests : Claimed(d, r) => rec[r] # "pending_throttled"
    /\ \A d, k \in Drains, r \in Requests : Claimed(d, r) => ~Claims(k, r)
    /\ \A d, k \in Drains, r \in Requests : Claimed(d, r) /\ Claimed(k, r) => d = k

\* Whoever writes the status of a run, other than its handler, writes that of a
\* stored run, and an execution writes back no status from before its start.
OthersKnowStoredRuns ==
    /\ \A j \in jobs \cup late : /\ rec[j.run] \notin {"none", "pending_throttled"}
                                /\ j.saving # "pending_throttled"
    /\ \A r \in Requests :
            hil[r] # "none" \/ mail[r] > 0 \/ r \in doomed => rec[r] # "none"
    /\ \A r \in Requests : AtHandler(r, "judge") \/ AtHandler(r, "cancel") =>
            post[r].dup \in Requests /\ rec[post[r].dup] # "none"

Ownership ==
    store # "redis" =>
        /\ HandlersOwnTheirRun /\ QueuedIsUnstarted /\ LockIsExclusive /\ ClaimIsExclusive
        /\ OthersKnowStoredRuns /\ StartedOnce

\* Postgres reads no status that it writes back later.
PostgresIsAtomic ==
    store = "postgres" => /\ \A d \in Drains : drain[d].at \notin {"read", "write"}
                          /\ \A j \in jobs : j.saving = "none"
                          /\ late = {}

-----------------------------------------------------------------------------
(* Types *)

LEMMA InitTypeOK == Init => TypeOK
  BY AdmissionAssumption, BoundsAssumption
  DEF Init, TypeOK, Handlers, Statuses, Drainers, Onward, DrainAt

\* A bound that is not used up goes down by one.
LEMMA LeftTypeOK ==
    ASSUME TypeOK, NEW f \in {"crashes", "cancels", "asks"}, left[f] > 0,
           left' = [left EXCEPT ![f] = @ - 1]
    PROVE  left' \in [crashes: Nat, cancels: Nat, asks: Nat]
<1>1. left \in [crashes: Nat, cancels: Nat, asks: Nat]
  BY DEF TypeOK
<1>2. CASE f = "crashes"
  <2>1. left.crashes - 1 \in Nat BY <1>1, <1>2
  <2>2. QED BY <1>1, <1>2, <2>1
<1>3. CASE f = "cancels"
  <2>1. left.cancels - 1 \in Nat BY <1>1, <1>3
  <2>2. QED BY <1>1, <1>3, <2>1
<1>4. CASE f = "asks"
  <2>1. left.asks - 1 \in Nat BY <1>1, <1>4
  <2>2. QED BY <1>1, <1>4, <2>1
<1>5. QED BY <1>2, <1>3, <1>4

LEMMA TouchTypeOK ==
    ASSUME TypeOK, NEW r \in Requests, Touch(r)
    PROVE  newer' \in [Requests -> SUBSET Requests]
  BY DEF Touch, TypeOK

HandlersTyped ==
    /\ post \in [Requests -> Handlers]
    /\ \A r \in Requests : post[r].at \in {"judge", "cancel"} => post[r].dup \in Requests

LEMMA ExecutionTypeOK ==
    ASSUME NEW r \in Requests, NEW kind \in {"graph", "resume"}, NEW n \in Nat
    PROVE  /\ Execution(r, kind, n) \in Jobs
           /\ Execution(r, kind, n).run = r /\ Execution(r, kind, n).saving = "none"
  BY DEF Execution, Jobs, Statuses

LEMMA StartGraphTypeOK ==
    ASSUME TypeOK, NEW r \in Requests, StartGraph(r)
    PROVE  jobs' \subseteq Jobs /\ starts' \in [Requests -> Nat]
<1>1. starts[r] + 1 \in Nat
  BY DEF TypeOK
<1>2. Execution(r, "graph", starts[r] + 1) \in Jobs
  BY <1>1, ExecutionTypeOK
<1>3. QED BY <1>1, <1>2 DEF StartGraph, TypeOK

LEMMA AddsLaterTypeOK ==
    ASSUME TypeOK, NEW r \in Requests, AddsLater(r)
    PROVE  late' \subseteq Additions
  BY DEF AddsLater, TypeOK, Additions, Statuses

LEMMA PostTypeOK ==
    ASSUME TypeOK, NEW r \in Requests, PostStep(r)
    PROVE  TypeOK'
<1> USE AdmissionAssumption
<1> DEFINE Ats == {"new", "enqueue", "find", "judge", "cancel", "start",
                   "queued", "skipped", "started", "lost"}
<1>1. HandlersTyped /\ rec \in [Requests -> Statuses]
  BY DEF TypeOK, HandlersTyped
<1>2. ASSUME NEW at \in Ats, GoOn(r, at),
             at \in {"judge", "cancel"} => post[r].dup \in Requests
      PROVE  HandlersTyped'
  <2>1. [post[r] EXCEPT !.at = at] \in Handlers
        /\ [post[r] EXCEPT !.at = at].at = at
        /\ [post[r] EXCEPT !.at = at].dup = post[r].dup
    BY <1>1 DEF HandlersTyped, Handlers
  <2>2. post' = [post EXCEPT ![r] = [post[r] EXCEPT !.at = at]]
    BY <1>1, <1>2 DEF GoOn, HandlersTyped
  <2>3. QED BY <1>1, <1>2, <2>1, <2>2 DEF HandlersTyped
<1>3. ASSUME NEW x, NEW status \in Statuses, SetStatus(x, status)
      PROVE  rec' \in [Requests -> Statuses]
  BY <1>1, <1>3 DEF SetStatus
<1>4. ASSUME HandlersTyped', rec' \in [Requests -> Statuses],
             newer' \in [Requests -> SUBSET Requests], late' \subseteq Additions,
             queue' \in Seq(Requests), jobs' \subseteq Jobs, starts' \in [Requests -> Nat],
             UNCHANGED <<store, aged, locks, drain, hil, mail, orphaned, doomed, left>>
      PROVE  TypeOK'
  BY <1>4 DEF TypeOK, HandlersTyped, DrainAt
<1> HIDE DEF Ats
<1>5. CASE PostCount(r)
  <2>1. HandlersTyped'
    BY <1>2, <1>5 DEF PostCount, Ats
  <2>2. QED BY <1>4, <1>5, <2>1 DEF PostCount, PostStep, TypeOK
<1>6. CASE PostEnqueue(r)
  <2>1. HandlersTyped' /\ rec' \in [Requests -> Statuses]
        /\ newer' \in [Requests -> SUBSET Requests]
    BY <1>2, <1>3, <1>6, TouchTypeOK DEF PostEnqueue, SetStatus, Ats, Statuses
  <2>2. QED BY <1>4, <1>6, <2>1 DEF PostEnqueue, PostStep, TypeOK
<1>7. CASE PostFind(r)
  <2>1. CASE Candidates(r) = {} /\ GoOn(r, "start")
    <3>1. HandlersTyped' BY <1>2, <2>1 DEF Ats
    <3>2. QED BY <1>4, <1>7, <3>1 DEF PostFind, PostStep, TypeOK
  <2>2. CASE \E d \in Candidates(r) :
                post' = [post EXCEPT ![r] = [at |-> "judge", dup |-> d, seen |-> rec[d]]]
    <3>1. PICK d \in Candidates(r) :
                post' = [post EXCEPT ![r] = [at |-> "judge", dup |-> d, seen |-> rec[d]]]
      BY <2>2
    <3>2. d \in Requests
      BY <3>1 DEF Candidates, ActiveDuplicates, Duplicates
    <3>3. [at |-> "judge", dup |-> d, seen |-> rec[d]] \in Handlers
      BY <1>1, <3>2 DEF Handlers
    <3>4. HandlersTyped' BY <1>1, <3>1, <3>2, <3>3 DEF HandlersTyped
    <3>5. QED BY <1>4, <1>7, <3>4 DEF PostFind, PostStep, TypeOK
  <2>3. QED BY <1>7, <2>1, <2>2 DEF PostFind
<1>8. CASE PostJudge(r)
  <2>1. GoOn(r, "cancel") \/ GoOn(r, "skipped")
    BY <1>8 DEF PostJudge
  <2>2. post[r].dup \in Requests
    BY <1>1, <1>8 DEF PostJudge, AtHandler, HandlersTyped
  <2>3. HandlersTyped'
    BY <1>2, <2>1, <2>2 DEF Ats
  <2>4. QED BY <1>4, <1>8, <2>3 DEF PostJudge, PostStep, TypeOK
<1>9. CASE PostCancel(r)
  <2>1. HandlersTyped' /\ rec' \in [Requests -> Statuses]
    BY <1>2, <1>3, <1>9 DEF PostCancel, CancelRecord, Ats, Statuses
  <2>2. post[r].dup \in Requests
    BY <1>1, <1>9 DEF PostCancel, AtHandler, HandlersTyped
  <2>3. newer' \in [Requests -> SUBSET Requests] /\ late' \subseteq Additions
    BY <1>9, <2>2, TouchTypeOK, AddsLaterTypeOK DEF PostCancel, CancelRecord, SetStatus
  <2>4. QED BY <1>4, <1>9, <2>1, <2>3 DEF PostCancel, PostStep, TypeOK
<1>10. CASE PostStart(r)
  <2>1. HandlersTyped' /\ rec' \in [Requests -> Statuses]
        /\ newer' \in [Requests -> SUBSET Requests]
    BY <1>2, <1>3, <1>10, TouchTypeOK DEF PostStart, SetStatus, Ats, Statuses
  <2>2. jobs' \subseteq Jobs /\ starts' \in [Requests -> Nat]
    BY <1>10, StartGraphTypeOK DEF PostStart
  <2>3. QED BY <1>4, <1>10, <2>1, <2>2 DEF PostStart, PostStep, TypeOK
<1>11. QED BY <1>5, <1>6, <1>7, <1>8, <1>9, <1>10 DEF PostStep

LEMMA DrainTypeOK ==
    ASSUME TypeOK, NEW d \in Drains, DrainStep(d)
    PROVE  TypeOK'
<1> USE AdmissionAssumption
<1>1. /\ drain[d] \in Drainers
      /\ UNCHANGED <<store, post, aged, queue, late, hil, mail, orphaned, doomed, left>>
  BY DEF TypeOK, DrainStep, DrainList, DrainCount, DrainClaim, DrainLock, DrainClaimRead,
         DrainClaimWrite, DrainStart
<1> DEFINE GoodDrainer(x) ==
        /\ x \in Drainers
        /\ x.at = "idle" => x.todo = {}
        /\ x.at = "count" => x.todo # {}
        /\ x.run = NoRun <=> x.at \in {"idle", "count"}
<1>2. GoodDrainer(drain[d])
  BY <1>1 DEF TypeOK, DrainAt
<1>3. ASSUME NEW rest \in SUBSET Requests PROVE GoodDrainer(Onward(rest))
  BY DEF Onward, Drainers
<1>4. ASSUME NEW x, GoodDrainer(x), drain' = [drain EXCEPT ![d] = x],
             rec' \in [Requests -> Statuses], newer' \in [Requests -> SUBSET Requests],
             locks' \subseteq Requests, jobs' \subseteq Jobs, starts' \in [Requests -> Nat]
      PROVE  TypeOK'
  BY <1>1, <1>4 DEF TypeOK, DrainAt
<1>5. CASE DrainList(d)
  <2>1. Listed \in SUBSET Requests
    BY DEF Listed, Queued
  <2> HIDE DEF GoodDrainer
  <2>2. QED BY <1>3, <1>4, <1>5, <2>1 DEF DrainList, TypeOK
<1>6. CASE DrainCount(d)
  <2>1. PICK r \in Oldest(drain[d].todo) :
            drain' = [drain EXCEPT ![d] =
                IF Blocked(r) THEN Onward(drain[d].todo \ {r})
                ELSE [at |-> "claim", todo |-> drain[d].todo \ {r}, run |-> r]]
    BY <1>6 DEF DrainCount
  <2>2. r \in Requests /\ drain[d].todo \ {r} \in SUBSET Requests
    BY <1>1, <2>1 DEF Oldest, Drainers
  <2>3. GoodDrainer([at |-> "claim", todo |-> drain[d].todo \ {r}, run |-> r])
    BY <2>2 DEF Drainers
  <2> HIDE DEF GoodDrainer
  <2>4. QED BY <1>3, <1>4, <1>6, <2>1, <2>2, <2>3 DEF DrainCount, TypeOK
<1>7. ASSUME ~DrainAt(d, "idle"), ~DrainAt(d, "count")
      PROVE  /\ drain[d].run \in Requests /\ drain[d].todo \in SUBSET Requests
             /\ \A at \in {"read", "write", "start"} : GoodDrainer([drain[d] EXCEPT !.at = at])
  BY <1>2, <1>7 DEF Drainers, DrainAt
<1>8. CASE DrainClaim(d)
  <2>1. ~DrainAt(d, "idle") /\ ~DrainAt(d, "count")
    BY <1>8 DEF DrainClaim, DrainAt
  <2>2. rec' \in [Requests -> Statuses]
    BY <1>8 DEF DrainClaim, SetStatus, TypeOK, Statuses
  <2>3. newer' \in [Requests -> SUBSET Requests]
    BY <1>7, <1>8, <2>1, TouchTypeOK DEF DrainClaim, SetStatus, TypeOK
  <2> HIDE DEF GoodDrainer
  <2>4. QED BY <1>3, <1>4, <1>7, <1>8, <2>1, <2>2, <2>3 DEF DrainClaim, TypeOK
<1>9. CASE DrainLock(d)
  <2>1. ~DrainAt(d, "idle") /\ ~DrainAt(d, "count")
    BY <1>9 DEF DrainLock, DrainAt
  <2>2. locks' \subseteq Requests
    BY <1>7, <1>9, <2>1 DEF DrainLock, TypeOK
  <2> HIDE DEF GoodDrainer
  <2>3. QED BY <1>3, <1>4, <1>7, <1>9, <2>1, <2>2 DEF DrainLock, TypeOK
<1>10. CASE DrainClaimRead(d)
  <2>1. ~DrainAt(d, "idle") /\ ~DrainAt(d, "count")
    BY <1>10 DEF DrainClaimRead, DrainAt
  <2>2. locks' \subseteq Requests
    BY <1>10 DEF DrainClaimRead, TypeOK
  <2> HIDE DEF GoodDrainer
  <2>3. QED BY <1>3, <1>4, <1>7, <1>10, <2>1, <2>2 DEF DrainClaimRead, TypeOK
<1>11. CASE DrainClaimWrite(d)
  <2>1. ~DrainAt(d, "idle") /\ ~DrainAt(d, "count")
    BY <1>11 DEF DrainClaimWrite, DrainAt
  <2>2. /\ rec' \in [Requests -> Statuses] /\ newer' \in [Requests -> SUBSET Requests]
        /\ locks' \subseteq Requests
    BY <1>7, <1>11, <2>1, TouchTypeOK DEF DrainClaimWrite, TypeOK, Statuses
  <2> HIDE DEF GoodDrainer
  <2>3. QED BY <1>4, <1>7, <1>11, <2>1, <2>2 DEF DrainClaimWrite, TypeOK
<1>12. CASE DrainStart(d)
  <2>1. ~DrainAt(d, "idle") /\ ~DrainAt(d, "count")
    BY <1>12 DEF DrainStart, DrainAt
  <2>2. jobs' \subseteq Jobs /\ starts' \in [Requests -> Nat]
    BY <1>7, <1>12, <2>1, StartGraphTypeOK DEF DrainStart
  <2> HIDE DEF GoodDrainer
  <2>3. QED BY <1>3, <1>4, <1>7, <1>12, <2>1, <2>2 DEF DrainStart, TypeOK
<1>13. QED BY <1>5, <1>6, <1>8, <1>9, <1>10, <1>11, <1>12 DEF DrainStep

LEMMA PickJob ==
    ASSUME JobStep
    PROVE  \E j \in jobs : JobAsks(j) \/ JobSaves(j) \/ JobWrites(j) \/ JobEnds(j) \/ JobDies(j)
  BY DEF JobStep, JobOver

LEMMA JobTypeOK ==
    ASSUME TypeOK, JobStep
    PROVE  TypeOK'
<1> USE AdmissionAssumption
<1>1. PICK j \in jobs : JobAsks(j) \/ JobSaves(j) \/ JobWrites(j) \/ JobEnds(j) \/ JobDies(j)
  BY PickJob
<1>2. j \in Jobs /\ j.run \in Requests /\ j.saving \in Statuses /\ rec[j.run] \in Statuses
  BY <1>1 DEF Jobs, TypeOK
<1>3. UNCHANGED <<store, post, aged, queue, locks, drain, starts, mail, doomed>>
  BY <1>1 DEF JobStep, JobOver, JobAsks, JobSaves, JobWrites, JobEnds, JobDies
<1>4. ASSUME rec' \in [Requests -> Statuses], newer' \in [Requests -> SUBSET Requests],
             jobs' \subseteq Jobs, hil' \in [Requests -> {"none", "pending", "decided"}],
             orphaned' \subseteq Requests, late' \subseteq Additions,
             left' \in [crashes: Nat, cancels: Nat, asks: Nat]
      PROVE  TypeOK'
  BY <1>3, <1>4 DEF TypeOK, DrainAt
<1>5. ASSUME NEW status \in Statuses, SetStatus(j.run, status)
      PROVE  rec' \in [Requests -> Statuses] /\ newer' \in [Requests -> SUBSET Requests]
  BY <1>2, <1>5, TouchTypeOK DEF SetStatus, TypeOK
<1>6. /\ [j EXCEPT !.asked = TRUE] \in Jobs
      /\ \A status \in Statuses : [j EXCEPT !.saving = status] \in Jobs
  BY <1>2 DEF Jobs
<1>7. CASE JobAsks(j)
  <2>1. left' \in [crashes: Nat, cancels: Nat, asks: Nat]
    BY <1>7, LeftTypeOK DEF JobAsks
  <2>2. hil' \in [Requests -> {"none", "pending", "decided"}]
    BY <1>2, <1>7 DEF JobAsks, TypeOK
  <2>3. QED BY <1>4, <1>6, <1>7, <2>1, <2>2 DEF JobAsks, TypeOK
<1>8. CASE JobSaves(j)
  <2>1. newer' \in [Requests -> SUBSET Requests]
    BY <1>2, <1>8, TouchTypeOK DEF JobSaves, TypeOK
  <2>2. [j EXCEPT !.saving = rec[j.run]] \in Jobs
    BY <1>2, <1>6
  <2>3. jobs' \subseteq Jobs
    BY <1>8, <2>2 DEF JobSaves, TypeOK
  <2>4. QED BY <1>4, <1>8, <2>1, <2>3 DEF JobSaves, TypeOK
<1>9. CASE JobWrites(j)
  <2>1. jobs' \subseteq Jobs
    BY <1>6, <1>9 DEF JobWrites, TypeOK, Statuses
  <2>2. QED BY <1>2, <1>4, <1>5, <1>9, <2>1 DEF JobWrites, TypeOK
<1>10. CASE JobEnds(j)
  <2>1. FinalStatuses(j) \subseteq Statuses
    BY DEF FinalStatuses, Statuses
  <2>2. late' \subseteq Additions
    BY <1>2, <1>10, AddsLaterTypeOK DEF JobEnds
  <2>3. QED BY <1>4, <1>5, <1>10, <2>1, <2>2 DEF JobEnds, TypeOK
<1>11. CASE JobDies(j)
  <2>1. late' \subseteq Additions
    BY <1>2, <1>11, AddsLaterTypeOK DEF JobDies, TypeOK
  <2>2. QED BY <1>2, <1>4, <1>11, <2>1 DEF JobDies, TypeOK
<1>12. QED BY <1>1, <1>7, <1>8, <1>9, <1>10, <1>11

LEMMA LateTypeOK ==
    ASSUME TypeOK, LateStep
    PROVE  TypeOK'
<1>1. PICK l \in late : LateRead(l) \/ LateWrite(l)
  BY DEF LateStep
<1>2. l \in Additions /\ l.run \in Requests /\ l.saving \in Statuses /\ rec[l.run] \in Statuses
  BY <1>1 DEF Additions, TypeOK
<1>3. UNCHANGED store BY DEF LateStep
<1>4. CASE LateRead(l)
  <2>1. [l EXCEPT !.saving = rec[l.run]] \in Additions
    BY <1>2 DEF Additions
  <2>2. QED BY <1>3, <1>4, <2>1 DEF LateRead, TypeOK, DrainAt
<1>5. CASE LateWrite(l)
  <2>1. rec' \in [Requests -> Statuses] /\ newer' \in [Requests -> SUBSET Requests]
    BY <1>2, <1>5, TouchTypeOK DEF LateWrite, SetStatus, TypeOK
  <2>2. QED BY <1>3, <1>5, <2>1 DEF LateWrite, TypeOK, DrainAt
<1>6. QED BY <1>1, <1>4, <1>5

LEMMA OutsideTypeOK ==
    ASSUME TypeOK, NEW r \in Requests, Outside(r) \/ CancelStep(r)
    PROVE  TypeOK'
<1> USE AdmissionAssumption
<1>1. UNCHANGED store BY DEF Outside, CancelStep
<1>2. ASSUME NEW status \in Statuses, SetStatus(r, status)
      PROVE  rec' \in [Requests -> Statuses] /\ newer' \in [Requests -> SUBSET Requests]
  BY <1>2, TouchTypeOK DEF SetStatus, TypeOK
<1>3. ASSUME CancelRecord(r)
      PROVE  /\ rec' \in [Requests -> Statuses] /\ newer' \in [Requests -> SUBSET Requests]
             /\ late' \subseteq Additions
  BY <1>2, <1>3, AddsLaterTypeOK DEF CancelRecord, Statuses
<1>4. CASE Approve(r) BY <1>1, <1>4 DEF Approve, TypeOK, DrainAt
<1>5. CASE AskDies(r) BY <1>1, <1>5 DEF AskDies, TypeOK, DrainAt
<1>6. CASE ResumeArrives(r)
  <2>1. mail' \in [Requests -> Nat]
    BY <1>6 DEF ResumeArrives, TypeOK
  <2>2. jobs' \subseteq Jobs
    <3>1. PICK n \in 1..Bounds[store].resumes : jobs' = jobs \cup {Execution(r, "resume", n)}
      BY <1>6 DEF ResumeArrives
    <3>2. QED BY <3>1, ExecutionTypeOK DEF TypeOK
  <2>3. rec' \in [Requests -> Statuses] /\ newer' \in [Requests -> SUBSET Requests]
    BY <1>2, <1>6 DEF ResumeArrives, Statuses
  <2>4. QED BY <1>1, <1>6, <2>1, <2>2, <2>3 DEF ResumeArrives, TypeOK, DrainAt
<1>7. CASE OperatorCancels(r)
  <2>1. left' \in [crashes: Nat, cancels: Nat, asks: Nat]
    BY <1>7, LeftTypeOK DEF OperatorCancels
  <2>2. QED BY <1>1, <1>3, <1>7, <2>1 DEF OperatorCancels, TypeOK, DrainAt
<1>8. CASE WaitADay(r) BY <1>1, <1>8 DEF WaitADay, TypeOK, DrainAt
<1>9. CASE SweepReads(r) BY <1>1, <1>9 DEF SweepReads, TypeOK, DrainAt
<1>10. CASE SweepCancels(r) BY <1>1, <1>3, <1>10 DEF SweepCancels, TypeOK, DrainAt
<1>11. QED
  BY <1>4, <1>5, <1>6, <1>7, <1>8, <1>9, <1>10 DEF Outside, CancelStep

LEMMA CrashTypeOK ==
    ASSUME TypeOK, Crash
    PROVE  TypeOK'
<1>1. left' \in [crashes: Nat, cancels: Nat, asks: Nat]
  BY LeftTypeOK DEF Crash
<1>2. HandlersTyped'
  <2>1. ASSUME NEW r \in Requests
        PROVE  post[r] \in Handlers /\ [post[r] EXCEPT !.at = "lost"] \in Handlers
    <3>1. post[r] \in Handlers
      BY DEF TypeOK
    <3>2. [post[r] EXCEPT !.at = "lost"] \in Handlers
      BY <3>1 DEF Handlers
    <3>3. QED BY <3>1, <3>2
  <2>2. \A r \in Requests : post'[r].at \in {"judge", "cancel"} => post'[r] = post[r]
    BY <2>1 DEF Crash, Handlers
  <2>3. QED BY <2>1, <2>2 DEF Crash, TypeOK, HandlersTyped
<1>3. Onward({}) \in Drainers /\ Onward({}).at = "idle" /\ Onward({}).todo = {}
      /\ Onward({}).run = NoRun
  BY DEF Onward, Drainers
<1>4. drain' \in [Drains -> Drainers] /\ \A d \in Drains : drain'[d] = Onward({})
  BY <1>3 DEF Crash
<1>5. rec \in [Requests -> Statuses] /\ orphaned' \subseteq Requests
  BY DEF Crash, TypeOK
<1>6. QED BY <1>1, <1>2, <1>3, <1>4, <1>5 DEF Crash, TypeOK, HandlersTyped, DrainAt

LEMMA NextTypeOK == TypeOK /\ [Next]_vars => TypeOK'
<1>1. ASSUME TypeOK, UNCHANGED vars PROVE TypeOK'
  BY <1>1 DEF vars, TypeOK, DrainAt
<1>2. QED
  BY <1>1, PostTypeOK, DrainTypeOK, JobTypeOK, LateTypeOK, OutsideTypeOK, CrashTypeOK DEF Next

\* Every variable keeps its type.
THEOREM TypeCorrect == Spec => []TypeOK
  BY InitTypeOK, NextTypeOK, PTL DEF Spec

-----------------------------------------------------------------------------
(* A run is started once *)

LEMMA InitOwnership == Init => Ownership /\ PostgresIsAtomic
  BY DEF Init, Ownership, HandlersOwnTheirRun, QueuedIsUnstarted, LockIsExclusive, Holds,
         ClaimIsExclusive, Claimed, Claims, DrainAt, Onward, OthersKnowStoredRuns, AtHandler,
         StartedOnce, PostgresIsAtomic

\* A step that leaves the drains and their locks alone.
LEMMA LocksUnchanged ==
    ASSUME LockIsExclusive, UNCHANGED drain, locks \subseteq locks'
    PROVE  LockIsExclusive'
  BY DEF LockIsExclusive, Holds

LEMMA PostOwnership ==
    ASSUME TypeOK, Ownership, NEW r \in Requests, PostStep(r)
    PROVE  Ownership'
<1> SUFFICES ASSUME store # "redis" PROVE Ownership'
  BY DEF PostStep, Ownership
<1>1. /\ HandlersOwnTheirRun /\ QueuedIsUnstarted /\ LockIsExclusive /\ ClaimIsExclusive
      /\ OthersKnowStoredRuns /\ StartedOnce
  BY DEF Ownership
<1>2. /\ post \in [Requests -> Handlers] /\ rec \in [Requests -> Statuses]
      /\ starts \in [Requests -> Nat] /\ jobs \subseteq Jobs /\ late \subseteq Additions
  BY DEF TypeOK
<1>3. /\ UNCHANGED <<store, drain, locks, hil, mail, doomed>>
      /\ UNCHANGED late \/ PostCancel(r)
  BY DEF PostStep, PostCount, PostEnqueue, PostFind, PostJudge, PostCancel, PostStart
<1>4. \A x \in Requests \ {r} : post'[x] = post[x]
  BY <1>2 DEF PostStep, PostCount, PostEnqueue, PostFind, PostJudge, PostCancel,
              PostStart, GoOn
<1>5. LockIsExclusive'
  BY <1>1, <1>3, LocksUnchanged
<1> DEFINE Q == {"queued", "started"}
\* The steps that only move the handler.
<1>6. ASSUME UNCHANGED <<rec, jobs, starts, late>>,
             post[r].at \notin Q, post'[r].at \notin Q,
             post'[r].at \in {"judge", "cancel"} =>
                 post'[r].dup \in Requests /\ rec[post'[r].dup] # "none"
      PROVE  Ownership'
  <2>1. HandlersOwnTheirRun' /\ QueuedIsUnstarted' /\ StartedOnce'
    BY <1>1, <1>4, <1>6
    DEF HandlersOwnTheirRun, QueuedIsUnstarted, StartedOnce, Unstored
  <2>2. ClaimIsExclusive'
    BY <1>1, <1>3, <1>4, <1>6 DEF ClaimIsExclusive, Claimed, Claims, DrainAt
  <2>3. OthersKnowStoredRuns'
    BY <1>1, <1>3, <1>4, <1>6 DEF OthersKnowStoredRuns, AtHandler
  <2>4. QED BY <1>5, <2>1, <2>2, <2>3 DEF Ownership
<1>7. CASE PostCount(r)
  <2>1. post[r].at = "new" /\ post'[r].at \in {"enqueue", "find"}
    BY <1>2, <1>7 DEF PostCount, AtHandler, GoOn, Handlers
  <2>2. QED BY <1>6, <1>7, <2>1 DEF PostCount
<1>8. CASE PostFind(r)
  <2>1. \A d \in Candidates(r) : d \in Requests /\ rec[d] # "none"
    BY DEF Candidates, ActiveDuplicates, Duplicates
  <2>2. /\ post[r].at = "find"
        /\ \/ post'[r].at = "start"
           \/ post'[r].at = "judge" /\ post'[r].dup \in Candidates(r)
    BY <1>2, <1>8 DEF PostFind, AtHandler, GoOn, Handlers
  <2>3. QED BY <1>6, <1>8, <2>1, <2>2 DEF PostFind
<1>9. CASE PostJudge(r)
  <2>1. /\ post[r].at = "judge" /\ post'[r].at \in {"cancel", "skipped"}
        /\ post'[r].dup = post[r].dup
    BY <1>2, <1>9 DEF PostJudge, AtHandler, GoOn, Handlers
  <2>2. post[r].dup \in Requests /\ rec[post[r].dup] # "none"
    BY <1>1, <2>1 DEF OthersKnowStoredRuns, AtHandler
  <2>3. QED BY <1>6, <1>9, <2>1, <2>2 DEF PostJudge
<1>10. CASE PostEnqueue(r)
  <2>1. /\ post[r].at = "enqueue" /\ post'[r].at = "queued" /\ UNCHANGED <<jobs, starts, late>>
        /\ \A x \in Requests : rec'[x] = IF x = r THEN "pending_throttled" ELSE rec[x]
    BY <1>2, <1>10 DEF PostEnqueue, AtHandler, GoOn, SetStatus, Handlers
  <2>2. starts[r] = 0 /\ rec[r] = "none" /\ \A j \in jobs \cup late : j.run # r
    BY <1>1, <2>1 DEF HandlersOwnTheirRun, Unstored, OthersKnowStoredRuns
  <2>3. HandlersOwnTheirRun' /\ QueuedIsUnstarted' /\ StartedOnce'
    BY <1>1, <1>4, <2>1, <2>2
    DEF HandlersOwnTheirRun, QueuedIsUnstarted, StartedOnce, Unstored
  <2>4. ClaimIsExclusive'
    BY <1>1, <1>3, <1>4, <2>1, <2>2 DEF ClaimIsExclusive, Claimed, Claims, DrainAt
  <2>5. OthersKnowStoredRuns'
    BY <1>1, <1>2, <1>3, <1>4, <1>10, <2>1, <2>2
    DEF PostEnqueue, OthersKnowStoredRuns, AtHandler, Jobs, Additions
  <2>6. QED BY <1>5, <2>3, <2>4, <2>5 DEF Ownership
<1>11. CASE PostCancel(r)
  <2> DEFINE q == post[r].dup
  <2>1. /\ post[r].at = "cancel" /\ post'[r].at = "start" /\ UNCHANGED <<jobs, starts>>
        /\ \A x \in Requests : rec'[x] = IF x = q THEN "cancelled" ELSE rec[x]
        /\ late' \subseteq late \cup {[run |-> q, saving |-> "none"]}
    BY <1>2, <1>11 DEF PostCancel, CancelRecord, AddsLater, AtHandler, GoOn, SetStatus, Handlers
  <2>2. q \in Requests /\ rec[q] # "none"
    BY <1>1, <2>1 DEF OthersKnowStoredRuns, AtHandler
  <2>3. HandlersOwnTheirRun' /\ QueuedIsUnstarted' /\ StartedOnce'
    BY <1>1, <1>4, <2>1, <2>2
    DEF HandlersOwnTheirRun, QueuedIsUnstarted, StartedOnce, Unstored
  <2>4. ClaimIsExclusive'
    BY <1>1, <1>3, <1>4, <2>1 DEF ClaimIsExclusive, Claimed, Claims, DrainAt
  <2>5. OthersKnowStoredRuns'
    <3>1. \A x \in Requests : rec[x] # "none" => rec'[x] # "none"
      BY <2>1
    <3>2. \A j \in jobs \cup late : j.run \in Requests
      BY <1>2 DEF Jobs, Additions
    <3>3. \A j \in jobs' \cup late' : rec'[j.run] \notin {"none", "pending_throttled"}
                                    /\ j.saving # "pending_throttled"
      BY <1>1, <2>1, <2>2, <3>2 DEF OthersKnowStoredRuns
    <3>4. QED BY <1>1, <1>3, <1>4, <2>1, <3>1, <3>3 DEF OthersKnowStoredRuns, AtHandler
  <2>6. QED BY <1>5, <2>3, <2>4, <2>5 DEF Ownership
<1>12. CASE PostStart(r)
  <2>1. /\ post[r].at = "start" /\ post'[r].at = "started" /\ UNCHANGED late
        /\ \A x \in Requests : rec'[x] = IF x = r THEN "running" ELSE rec[x]
        /\ \A x \in Requests : starts'[x] = IF x = r THEN starts[r] + 1 ELSE starts[x]
        /\ \A j \in jobs' : j \in jobs \/ (j.run = r /\ j.saving = "none")
    BY <1>2, <1>12 DEF PostStart, StartGraph, Execution, AtHandler, GoOn, SetStatus, Handlers
  <2>2. starts[r] = 0
    BY <1>1, <2>1 DEF HandlersOwnTheirRun, Unstored
  <2>3. HandlersOwnTheirRun' /\ QueuedIsUnstarted' /\ StartedOnce'
    BY <1>1, <1>4, <2>1, <2>2
    DEF HandlersOwnTheirRun, QueuedIsUnstarted, StartedOnce, Unstored
  <2>4. ClaimIsExclusive'
    BY <1>1, <1>3, <1>4, <2>1 DEF ClaimIsExclusive, Claimed, Claims, DrainAt
  <2>5. OthersKnowStoredRuns'
    BY <1>1, <1>2, <1>3, <1>4, <2>1 DEF OthersKnowStoredRuns, AtHandler, Jobs, Additions
  <2>6. QED BY <1>5, <2>3, <2>4, <2>5 DEF Ownership
<1>13. QED BY <1>7, <1>8, <1>9, <1>10, <1>11, <1>12 DEF PostStep

LEMMA DrainOwnership ==
    ASSUME TypeOK, Ownership, PostgresIsAtomic, NEW d \in Drains, DrainStep(d)
    PROVE  Ownership'
<1> SUFFICES ASSUME store # "redis" PROVE Ownership'
  BY DEF DrainStep, Ownership
<1>1. /\ HandlersOwnTheirRun /\ QueuedIsUnstarted /\ LockIsExclusive /\ ClaimIsExclusive
      /\ OthersKnowStoredRuns /\ StartedOnce
  BY DEF Ownership
<1>2. /\ drain \in [Drains -> Drainers] /\ rec \in [Requests -> Statuses]
      /\ starts \in [Requests -> Nat] /\ jobs \subseteq Jobs /\ late \subseteq Additions
      /\ drain[d].run = NoRun => drain[d].at \in {"idle", "count"}
  BY DEF TypeOK
<1>3. UNCHANGED <<store, post, late, hil, mail, doomed>>
  BY DEF DrainStep, DrainList, DrainCount, DrainClaim, DrainLock, DrainClaimRead,
         DrainClaimWrite, DrainStart
<1>4. \A k \in Drains \ {d} : drain'[k] = drain[k]
  BY <1>2 DEF DrainStep, DrainList, DrainCount, DrainClaim, DrainLock, DrainClaimRead,
              DrainClaimWrite, DrainStart
<1> DEFINE q == drain[d].run
\* The steps that only move the drain, and not to the write or the start of a claim.
<1>5. ASSUME UNCHANGED <<rec, jobs, starts>>, LockIsExclusive',
             drain'[d].at \notin {"write", "start"}
      PROVE  Ownership'
  <2>1. HandlersOwnTheirRun' /\ QueuedIsUnstarted' /\ StartedOnce' /\ OthersKnowStoredRuns'
    BY <1>1, <1>3, <1>5
    DEF HandlersOwnTheirRun, QueuedIsUnstarted, StartedOnce, Unstored,
        OthersKnowStoredRuns, AtHandler
  <2>2. ClaimIsExclusive'
    BY <1>1, <1>3, <1>4, <1>5 DEF ClaimIsExclusive, Claimed, Claims, DrainAt
  <2>3. QED BY <1>5, <2>1, <2>2 DEF Ownership
\* A drain that holds no lock afterwards, and frees at most the one it held.
<1>6. ASSUME drain'[d].at \notin {"read", "write"},
             \/ locks \subseteq locks'
             \/ drain[d].at \in {"read", "write"} /\ locks' = locks \ {q}
      PROVE  LockIsExclusive'
  <2>1. \A k \in Drains, r \in Requests : Holds(k, r)' => k # d /\ Holds(k, r)
    BY <1>4, <1>6 DEF Holds
  <2>2. \A k \in Drains, r \in Requests : Holds(k, r)' => r \in locks'
    BY <1>1, <1>6, <2>1 DEF LockIsExclusive, Holds
  <2>3. QED BY <1>1, <2>1, <2>2 DEF LockIsExclusive
<1>7. CASE DrainList(d)
  <2>1. drain'[d].at \in {"idle", "count"}
    BY <1>2, <1>7 DEF DrainList, Onward
  <2>2. QED BY <1>5, <1>6, <1>7, <2>1 DEF DrainList
<1>8. CASE DrainCount(d)
  <2>1. drain'[d].at \in {"idle", "count", "claim"}
    BY <1>2, <1>8 DEF DrainCount, Onward
  <2>2. QED BY <1>5, <1>6, <1>8, <2>1 DEF DrainCount
<1>9. CASE DrainClaim(d)
  <2>1. q \in Requests /\ drain[d].at = "claim" /\ UNCHANGED <<locks, jobs, starts>>
        /\ store = "postgres"
    BY <1>2, <1>9 DEF DrainClaim, DrainAt, Drainers
  <2>2. CASE ~Claimable(q)
    <3>1. drain'[d].at \in {"idle", "count"} /\ UNCHANGED rec
      BY <1>2, <1>9, <2>2 DEF DrainClaim, Onward
    <3>2. QED BY <1>5, <1>6, <2>1, <3>1
  <2>3. CASE Claimable(q)
    <3>1. /\ drain'[d].at = "start" /\ drain'[d].run = q
          /\ rec' = [rec EXCEPT ![q] = "running"]
      BY <1>2, <1>9, <2>3 DEF DrainClaim, SetStatus, Drainers
    <3>2. \A x \in Requests : rec'[x] = IF x = q THEN "running" ELSE rec[x]
      BY <1>2, <2>1, <3>1
    <3>3. rec[q] = "pending_throttled" /\ post[q].at = "queued" /\ starts[q] = 0
      BY <1>1, <2>1, <2>3 DEF Claimable, QueuedIsUnstarted
    <3>4. \A k \in Drains : ~Claimed(k, q)
      BY <1>1, <2>1, <3>3 DEF ClaimIsExclusive
    <3>5. HandlersOwnTheirRun' /\ QueuedIsUnstarted' /\ StartedOnce'
      BY <1>1, <1>3, <2>1, <3>2, <3>3
      DEF HandlersOwnTheirRun, QueuedIsUnstarted, StartedOnce, Unstored
    <3>6. \A k \in Drains, r \in Requests : ~Claims(k, r) /\ ~Claims(k, r)'
      BY <1>4, <2>1, <3>1 DEF PostgresIsAtomic, Claims, DrainAt
    <3>7. ClaimIsExclusive'
      BY <1>1, <1>3, <1>4, <2>1, <3>1, <3>2, <3>3, <3>4, <3>6
      DEF ClaimIsExclusive, Claimed, DrainAt
    <3>8. OthersKnowStoredRuns'
      BY <1>1, <1>2, <1>3, <2>1, <3>2 DEF OthersKnowStoredRuns, AtHandler, Jobs, Additions
    <3>9. LockIsExclusive'
      BY <1>6, <2>1, <3>1
    <3>10. QED BY <3>5, <3>7, <3>8, <3>9 DEF Ownership
  <2>4. QED BY <2>2, <2>3
<1>10. CASE DrainLock(d)
  <2>1. q \in Requests /\ drain[d].at = "claim" /\ UNCHANGED <<rec, jobs, starts>>
    BY <1>2, <1>10 DEF DrainLock, DrainAt, Drainers
  <2>2. CASE q \in locks
    <3>1. drain'[d].at \in {"idle", "count"} /\ UNCHANGED locks
      BY <1>2, <1>10, <2>2 DEF DrainLock, Onward
    <3>2. QED BY <1>5, <1>6, <2>1, <3>1
  <2>3. CASE q \notin locks
    <3>1. drain'[d].at = "read" /\ drain'[d].run = q /\ locks' = locks \cup {q}
      BY <1>2, <1>10, <2>3 DEF DrainLock, Drainers
    <3>2. \A k \in Drains, r \in Requests :
              Holds(k, r)' => (k = d /\ r = q) \/ (k # d /\ r # q /\ Holds(k, r))
      BY <1>1, <1>4, <2>3, <3>1 DEF Holds, LockIsExclusive
    <3>3. LockIsExclusive'
      BY <1>1, <3>1, <3>2 DEF LockIsExclusive
    <3>4. QED BY <1>5, <2>1, <3>1, <3>3
  <2>4. QED BY <2>2, <2>3
<1>11. CASE DrainClaimRead(d)
  <2>1. q \in Requests /\ drain[d].at = "read" /\ UNCHANGED <<rec, jobs, starts>>
    BY <1>2, <1>11 DEF DrainClaimRead, DrainAt, Drainers
  <2>2. CASE ~Claimable(q)
    <3>1. drain'[d].at \in {"idle", "count"} /\ locks' = locks \ {q}
      BY <1>2, <1>11, <2>2 DEF DrainClaimRead, Onward
    <3>2. QED BY <1>5, <1>6, <2>1, <3>1
  <2>3. CASE Claimable(q)
    <3>1. drain'[d].at = "write" /\ drain'[d].run = q /\ UNCHANGED locks
      BY <1>2, <1>11, <2>3 DEF DrainClaimRead, Drainers
    <3>2. rec[q] = "pending_throttled" /\ post[q].at = "queued" /\ starts[q] = 0
      BY <1>1, <2>1, <2>3 DEF Claimable, QueuedIsUnstarted
    <3>3. \A k \in Drains : ~Claimed(k, q)
      BY <1>1, <2>1, <3>2 DEF ClaimIsExclusive
    <3>4. \A k \in Drains, r \in Requests : Holds(k, r)' <=> Holds(k, r)
      BY <1>4, <2>1, <3>1 DEF Holds
    <3>5. LockIsExclusive'
      BY <1>1, <3>1, <3>4 DEF LockIsExclusive
    <3>6. \A k \in Drains, r \in Requests :
              /\ Claims(k, r)' => Claims(k, r) \/ (k = d /\ r = q)
              /\ Claimed(k, r)' => Claimed(k, r)
      BY <1>4, <3>1 DEF Claims, Claimed, DrainAt
    <3>7. ClaimIsExclusive'
      BY <1>1, <1>3, <2>1, <3>2, <3>3, <3>6 DEF ClaimIsExclusive
    <3>8. HandlersOwnTheirRun' /\ QueuedIsUnstarted' /\ StartedOnce' /\ OthersKnowStoredRuns'
      BY <1>1, <1>3, <2>1
      DEF HandlersOwnTheirRun, QueuedIsUnstarted, StartedOnce, Unstored,
          OthersKnowStoredRuns, AtHandler
    <3>9. QED BY <3>5, <3>7, <3>8 DEF Ownership
  <2>4. QED BY <2>2, <2>3
<1>12. CASE DrainClaimWrite(d)
  <2>1. q \in Requests /\ Claims(d, q) /\ UNCHANGED <<jobs, starts>> /\ Holds(d, q)
    BY <1>2, <1>12 DEF DrainClaimWrite, DrainAt, Drainers, Claims, Holds
  <2>2. /\ drain'[d].at = "start" /\ drain'[d].run = q /\ locks' = locks \ {q}
        /\ \A x \in Requests : rec'[x] = IF x = q THEN "running" ELSE rec[x]
    BY <1>2, <1>12, <2>1 DEF DrainClaimWrite, Drainers
  <2>3. /\ post[q].at = "queued" /\ starts[q] = 0 /\ rec[q] # "none"
        /\ \A k \in Drains : ~Claimed(k, q)
        /\ \A k \in Drains : Claims(k, q) => k = d
    BY <1>1, <2>1 DEF ClaimIsExclusive, LockIsExclusive, Holds, Claims, DrainAt
  <2>4. LockIsExclusive'
    BY <1>6, <2>1, <2>2 DEF Holds
  <2>5. \A k \in Drains, r \in Requests :
            /\ Claims(k, r)' => Claims(k, r) /\ r # q
            /\ Claimed(k, r)' => Claimed(k, r) \/ (k = d /\ r = q)
    BY <1>4, <2>2, <2>3 DEF Claims, Claimed, DrainAt
  <2>6. ClaimIsExclusive'
    BY <1>1, <1>3, <2>1, <2>2, <2>3, <2>5 DEF ClaimIsExclusive
  <2>7. HandlersOwnTheirRun' /\ QueuedIsUnstarted' /\ StartedOnce'
    BY <1>1, <1>3, <2>1, <2>2, <2>3
    DEF HandlersOwnTheirRun, QueuedIsUnstarted, StartedOnce, Unstored
  <2>8. OthersKnowStoredRuns'
    BY <1>1, <1>2, <1>3, <2>1, <2>2 DEF OthersKnowStoredRuns, AtHandler, Jobs, Additions
  <2>9. QED BY <2>4, <2>6, <2>7, <2>8 DEF Ownership
<1>13. CASE DrainStart(d)
  <2>1. q \in Requests /\ Claimed(d, q) /\ UNCHANGED <<rec, locks>>
    BY <1>2, <1>13 DEF DrainStart, DrainAt, Claimed, Drainers
  <2>2. /\ post[q].at = "queued" /\ starts[q] = 0
        /\ rec[q] \notin {"none", "pending_throttled"}
        /\ \A k \in Drains : (Claimed(k, q) => k = d) /\ ~Claims(k, q)
    BY <1>1, <2>1 DEF ClaimIsExclusive
  <2>3. drain'[d].at \in {"idle", "count"}
    BY <1>2, <1>13 DEF DrainStart, Onward
  <2>4. /\ \A x \in Requests : starts'[x] = IF x = q THEN 1 ELSE starts[x]
        /\ \A j \in jobs' : j \in jobs \/ (j.run = q /\ j.saving = "none")
    BY <1>2, <1>13, <2>1, <2>2 DEF DrainStart, StartGraph, Execution
  <2>5. HandlersOwnTheirRun' /\ QueuedIsUnstarted' /\ StartedOnce'
    BY <1>1, <1>3, <2>1, <2>2, <2>4
    DEF HandlersOwnTheirRun, QueuedIsUnstarted, StartedOnce, Unstored
  <2>6. \A k \in Drains, r \in Requests :
            /\ Claims(k, r)' => Claims(k, r) /\ r # q
            /\ Claimed(k, r)' => Claimed(k, r) /\ r # q
    BY <1>4, <2>2, <2>3 DEF Claims, Claimed, DrainAt
  <2>7. ClaimIsExclusive'
    BY <1>1, <1>3, <2>1, <2>4, <2>6 DEF ClaimIsExclusive
  <2>8. OthersKnowStoredRuns'
    BY <1>1, <1>3, <2>1, <2>2, <2>4 DEF OthersKnowStoredRuns, AtHandler
  <2>9. LockIsExclusive'
    BY <1>6, <2>1, <2>3
  <2>10. QED BY <2>5, <2>7, <2>8, <2>9 DEF Ownership
<1>14. QED BY <1>7, <1>8, <1>9, <1>10, <1>11, <1>12, <1>13 DEF DrainStep

LEMMA JobOwnership ==
    ASSUME TypeOK, Ownership, JobStep
    PROVE  Ownership'
<1> SUFFICES ASSUME store # "redis" PROVE Ownership'
  BY DEF JobStep, JobOver, Ownership
<1>1. /\ HandlersOwnTheirRun /\ QueuedIsUnstarted /\ LockIsExclusive /\ ClaimIsExclusive
      /\ OthersKnowStoredRuns /\ StartedOnce
  BY DEF Ownership
<1>2. PICK j \in jobs : JobAsks(j) \/ JobSaves(j) \/ JobWrites(j) \/ JobEnds(j) \/ JobDies(j)
  BY PickJob
<1>3. /\ j \in Jobs /\ j.run \in Requests
      /\ rec[j.run] \notin {"none", "pending_throttled"} /\ j.saving # "pending_throttled"
  BY <1>1 DEF TypeOK, Jobs, OthersKnowStoredRuns
<1>4. UNCHANGED <<store, post, drain, locks, starts, mail, doomed>>
  BY <1>2 DEF JobAsks, JobSaves, JobWrites, JobEnds, JobDies, JobStep, JobOver
<1>5. /\ \A k \in jobs' : k \in jobs \/ (k.run = j.run /\ k.saving # "pending_throttled")
      /\ \A k \in late' : k \in late \/ (k.run = j.run /\ k.saving # "pending_throttled")
  <2>1. /\ [j EXCEPT !.asked = TRUE].run = j.run /\ [j EXCEPT !.asked = TRUE].saving = j.saving
        /\ \A st \in Statuses : /\ [j EXCEPT !.saving = st].run = j.run
                                /\ [j EXCEPT !.saving = st].saving = st
    BY <1>3 DEF Jobs
  <2>2. rec[j.run] \in Statuses /\ "none" \in Statuses
    BY <1>3 DEF TypeOK, Statuses
  <2>3. \A k \in jobs' : k \in jobs \/ (k.run = j.run /\ k.saving # "pending_throttled")
    BY <1>2, <1>3, <2>1, <2>2 DEF JobAsks, JobSaves, JobWrites, JobEnds, JobDies
  <2>4. \A k \in late' : k \in late \/ (k.run = j.run /\ k.saving # "pending_throttled")
    BY <1>2 DEF JobAsks, JobSaves, JobWrites, JobEnds, JobDies, AddsLater
  <2>5. QED BY <2>3, <2>4
<1>6. /\ \A x \in Requests : \/ rec'[x] = rec[x]
                             \/ x = j.run /\ rec'[x] \notin {"none", "pending_throttled"}
      /\ \A x \in Requests : hil'[x] = hil[x] \/ x = j.run
  <2>1. rec \in [Requests -> Statuses] /\ hil \in [Requests -> {"none", "pending", "decided"}]
    BY DEF TypeOK
  <2>2. FinalStatuses(j) \subseteq {"awaiting_human", "ended", "cancelled"}
    BY DEF FinalStatuses
  <2>3. \A x \in Requests :
            rec'[x] = rec[x] \/ (x = j.run /\ rec'[x] \notin {"none", "pending_throttled"})
    <3>1. CASE JobEnds(j)
      <4>1. PICK status \in FinalStatuses(j) : SetStatus(j.run, status)
        BY <3>1 DEF JobEnds
      <4>2. QED BY <1>3, <2>1, <2>2, <4>1 DEF SetStatus
    <3>2. CASE JobWrites(j)
      BY <1>3, <2>1, <3>2 DEF JobWrites, SetStatus
    <3>3. QED BY <1>2, <3>1, <3>2 DEF JobAsks, JobSaves, JobDies
  <2>4. \A x \in Requests : hil'[x] = hil[x] \/ x = j.run
    BY <1>2, <2>1 DEF JobAsks, JobSaves, JobWrites, JobEnds, JobDies
  <2>5. QED BY <2>3, <2>4
<1>7. HandlersOwnTheirRun' /\ QueuedIsUnstarted' /\ StartedOnce'
  BY <1>1, <1>3, <1>4, <1>6
  DEF HandlersOwnTheirRun, QueuedIsUnstarted, StartedOnce, Unstored
<1>8. LockIsExclusive'
  BY <1>1, <1>4, LocksUnchanged
<1>9. ClaimIsExclusive'
  BY <1>1, <1>3, <1>4, <1>6 DEF ClaimIsExclusive, Claimed, Claims, DrainAt
<1>10. OthersKnowStoredRuns'
  <2>1. \A x \in Requests :
            /\ rec[x] # "none" => rec'[x] # "none"
            /\ rec[x] \notin {"none", "pending_throttled"}
                 => rec'[x] \notin {"none", "pending_throttled"}
    BY <1>6
  <2>2. \A k \in jobs \cup late : k.run \in Requests
    BY DEF TypeOK, Jobs, Additions
  <2>3. \A k \in jobs' \cup late' : /\ rec'[k.run] \notin {"none", "pending_throttled"}
                                  /\ k.saving # "pending_throttled"
    BY <1>1, <1>3, <1>5, <2>1, <2>2 DEF OthersKnowStoredRuns
  <2>4. QED BY <1>1, <1>3, <1>4, <1>6, <2>1, <2>3 DEF OthersKnowStoredRuns, AtHandler
<1>11. QED BY <1>7, <1>8, <1>9, <1>10 DEF Ownership

LEMMA LateOwnership ==
    ASSUME TypeOK, Ownership, LateStep
    PROVE  Ownership'
<1> SUFFICES ASSUME store # "redis" PROVE Ownership'
  BY DEF LateStep, Ownership
<1>1. /\ HandlersOwnTheirRun /\ QueuedIsUnstarted /\ LockIsExclusive /\ ClaimIsExclusive
      /\ OthersKnowStoredRuns /\ StartedOnce
  BY DEF Ownership
<1>2. PICK l \in late : LateRead(l) \/ LateWrite(l)
  BY DEF LateStep
<1>3. /\ l \in Additions /\ l.run \in Requests
      /\ rec[l.run] \notin {"none", "pending_throttled"} /\ l.saving # "pending_throttled"
  BY <1>1, <1>2 DEF TypeOK, Additions, OthersKnowStoredRuns
<1>4. UNCHANGED <<store, post, drain, locks, jobs, starts, hil, mail, doomed>>
  BY <1>2 DEF LateRead, LateWrite, LateStep
<1>5. \A x \in Requests :
          rec'[x] = rec[x] \/ (x = l.run /\ rec'[x] \notin {"none", "pending_throttled"})
  <2>1. rec \in [Requests -> Statuses] /\ l.saving \in Statuses
    BY <1>3 DEF TypeOK, Additions
  <2>2. QED BY <1>2, <1>3, <2>1 DEF LateRead, LateWrite, SetStatus
<1>6. \A k \in late' : k \in late \/ (k.run = l.run /\ k.saving # "pending_throttled")
  <2>1. /\ [l EXCEPT !.saving = rec[l.run]].run = l.run
        /\ [l EXCEPT !.saving = rec[l.run]].saving = rec[l.run]
    BY <1>3 DEF Additions
  <2>2. QED BY <1>2, <1>3, <2>1 DEF LateRead, LateWrite
<1>7. HandlersOwnTheirRun' /\ QueuedIsUnstarted' /\ StartedOnce'
  BY <1>1, <1>3, <1>4, <1>5
  DEF HandlersOwnTheirRun, QueuedIsUnstarted, StartedOnce, Unstored
<1>8. LockIsExclusive'
  BY <1>1, <1>4, LocksUnchanged
<1>9. ClaimIsExclusive'
  BY <1>1, <1>3, <1>4, <1>5 DEF ClaimIsExclusive, Claimed, Claims, DrainAt
<1>10. OthersKnowStoredRuns'
  <2>1. \A x \in Requests :
            /\ rec[x] # "none" => rec'[x] # "none"
            /\ rec[x] \notin {"none", "pending_throttled"}
                 => rec'[x] \notin {"none", "pending_throttled"}
    BY <1>5
  <2>2. \A k \in jobs \cup late : k.run \in Requests
    BY DEF TypeOK, Jobs, Additions
  <2>3. \A k \in jobs' \cup late' : /\ rec'[k.run] \notin {"none", "pending_throttled"}
                                  /\ k.saving # "pending_throttled"
    BY <1>1, <1>3, <1>4, <1>6, <2>1, <2>2 DEF OthersKnowStoredRuns
  <2>4. QED BY <1>1, <1>3, <1>4, <2>1, <2>3 DEF OthersKnowStoredRuns, AtHandler
<1>11. QED BY <1>7, <1>8, <1>9, <1>10 DEF Ownership

LEMMA OutsideOwnership ==
    ASSUME TypeOK, Ownership, NEW r \in Requests, Outside(r) \/ CancelStep(r)
    PROVE  Ownership'
<1> SUFFICES ASSUME store # "redis" PROVE Ownership'
  BY DEF Outside, CancelStep, Ownership
<1>1. /\ HandlersOwnTheirRun /\ QueuedIsUnstarted /\ LockIsExclusive /\ ClaimIsExclusive
      /\ OthersKnowStoredRuns /\ StartedOnce
  BY DEF Ownership
<1>2. /\ rec \in [Requests -> Statuses] /\ mail \in [Requests -> Nat]
      /\ hil \in [Requests -> {"none", "pending", "decided"}]
      /\ \A j \in jobs \cup late : j.run \in Requests
  BY DEF TypeOK, Jobs, Additions
<1>3. UNCHANGED <<store, post, drain, locks, starts>>
  BY DEF Outside, CancelStep, Approve, AskDies, ResumeArrives, OperatorCancels, WaitADay,
         SweepReads, SweepCancels
\* Whoever writes, writes a status of a stored run, that is not the one of the queue.
<1> DEFINE WritesStoredRun ==
        /\ \A x \in Requests :
              \/ rec'[x] = rec[x]
              \/ x = r /\ rec[r] # "none" /\ rec'[r] \notin {"none", "pending_throttled"}
        /\ \A x \in Requests :
              hil'[x] # "none" \/ mail'[x] > 0 \/ x \in doomed' => rec[x] # "none"
        /\ \A j \in jobs' \cup late' :
              \/ j \in jobs \cup late
              \/ /\ j.run = r /\ j.saving = "none"
                 /\ rec'[r] \notin {"none", "pending_throttled"}
<1>4. WritesStoredRun
  <2>1. \A x \in Requests :
            hil[x] # "none" \/ mail[x] > 0 \/ x \in doomed => rec[x] # "none"
    BY <1>1 DEF OthersKnowStoredRuns
  <2>2. CASE Approve(r)
    <3>1. /\ UNCHANGED <<rec, doomed, late, jobs>> /\ hil[r] = "pending"
          /\ \A x \in Requests \ {r} : hil'[x] = hil[x] /\ mail'[x] = mail[x]
      BY <1>2, <2>2 DEF Approve
    <3>2. QED BY <2>1, <3>1
  <2>3. CASE AskDies(r)
    <3>1. /\ UNCHANGED <<rec, doomed, late, jobs, mail>> /\ hil[r] = "pending"
          /\ \A x \in Requests \ {r} : hil'[x] = hil[x]
      BY <1>2, <2>3 DEF AskDies
    <3>2. QED BY <2>1, <3>1
  <2>4. CASE ResumeArrives(r)
    <3>1. /\ UNCHANGED <<doomed, late, hil>> /\ mail[r] > 0
          /\ \A x \in Requests \ {r} : mail'[x] = mail[x] /\ rec'[x] = rec[x]
          /\ rec'[r] = "running"
      BY <1>2, <2>4 DEF ResumeArrives, SetStatus
    <3>2. PICK n \in 1..Bounds[store].resumes : jobs' = jobs \cup {Execution(r, "resume", n)}
      BY <2>4 DEF ResumeArrives
    <3>3. QED BY <2>1, <3>1, <3>2, ExecutionTypeOK
  <2>5. ASSUME CancelRecord(r), rec[r] # "none", doomed' \subseteq doomed,
               UNCHANGED <<hil, mail, jobs>>
        PROVE  WritesStoredRun
    <3>1. \A x \in Requests : rec'[x] = IF x = r THEN "cancelled" ELSE rec[x]
      BY <1>2, <2>5 DEF CancelRecord, SetStatus
    <3>2. \A l \in late' : l \in late \/ (l.run = r /\ l.saving = "none")
      BY <2>5 DEF CancelRecord, AddsLater
    <3>3. QED BY <2>1, <2>5, <3>1, <3>2
  <2>6. CASE OperatorCancels(r)
    BY <2>5, <2>6 DEF OperatorCancels
  <2>7. CASE WaitADay(r)
    BY <2>1, <2>7 DEF WaitADay
  <2>8. CASE SweepReads(r)
    BY <2>1, <2>8 DEF SweepReads, Stale
  <2>9. CASE SweepCancels(r)
    BY <2>1, <2>5, <2>9 DEF SweepCancels
  <2>10. QED BY <2>2, <2>3, <2>4, <2>6, <2>7, <2>8, <2>9 DEF Outside, CancelStep
<1>5. HandlersOwnTheirRun' /\ QueuedIsUnstarted' /\ StartedOnce'
  BY <1>1, <1>3, <1>4 DEF HandlersOwnTheirRun, QueuedIsUnstarted, StartedOnce, Unstored
<1>6. LockIsExclusive'
  BY <1>1, <1>3, LocksUnchanged
<1>7. ClaimIsExclusive'
  BY <1>1, <1>3, <1>4 DEF ClaimIsExclusive, Claimed, Claims, DrainAt
<1>8. OthersKnowStoredRuns'
  <2>1. \A x \in Requests :
            /\ rec[x] # "none" => rec'[x] # "none"
            /\ rec[x] \notin {"none", "pending_throttled"}
                 => rec'[x] \notin {"none", "pending_throttled"}
    BY <1>4
  <2>2. QED BY <1>1, <1>2, <1>3, <1>4, <2>1 DEF OthersKnowStoredRuns, AtHandler
<1>9. QED BY <1>5, <1>6, <1>7, <1>8 DEF Ownership

LEMMA CrashOwnership ==
    ASSUME TypeOK, Ownership, Crash
    PROVE  Ownership'
<1> SUFFICES ASSUME store # "redis" PROVE Ownership'
  BY DEF Crash, Ownership
<1> USE DEF TypeOK, Handlers, Crash, AtHandler, Unstored, Claimed, Claims, Holds, DrainAt, Onward,
        Ownership, HandlersOwnTheirRun, QueuedIsUnstarted, LockIsExclusive, ClaimIsExclusive,
        OthersKnowStoredRuns, StartedOnce
<1>1. \A r \in Requests : /\ Unstored(r)' => Unstored(r)
                          /\ post[r].at = "queued" => post'[r].at = "queued"
                          /\ post'[r].at \notin {"judge", "cancel"}
  OBVIOUS
<1>2. QED BY <1>1

LEMMA NextOwnership == TypeOK /\ Ownership /\ PostgresIsAtomic /\ [Next]_vars => Ownership'
<1>1. ASSUME Ownership, UNCHANGED vars PROVE Ownership'
  BY <1>1 DEF vars, Unstored, Claimed, Claims, Holds, DrainAt, AtHandler, Ownership,
        HandlersOwnTheirRun, QueuedIsUnstarted, LockIsExclusive, ClaimIsExclusive,
        OthersKnowStoredRuns, StartedOnce
<1>2. QED
  BY <1>1, PostOwnership, DrainOwnership, JobOwnership, LateOwnership, OutsideOwnership,
     CrashOwnership
  DEF Next

LEMMA NextPostgresIsAtomic ==
    ASSUME TypeOK, PostgresIsAtomic, [Next]_vars
    PROVE  PostgresIsAtomic'
<1> SUFFICES ASSUME store' = "postgres" PROVE PostgresIsAtomic'
  BY DEF PostgresIsAtomic
<1>1. UNCHANGED store
  BY DEF Next, PostStep, Outside, CancelStep, DrainStep, JobStep, JobOver, LateStep, Crash, vars
<1>2. /\ \A d \in Drains : drain[d].at \notin {"read", "write"}
      /\ late = {}
      /\ \A j \in jobs : j.saving = "none"
      /\ drain \in [Drains -> Drainers] /\ jobs \subseteq Jobs
  BY <1>1 DEF PostgresIsAtomic, TypeOK
<1>3. ASSUME NEW r \in Requests, PostStep(r) \/ Outside(r) \/ CancelStep(r)
      PROVE  PostgresIsAtomic'
  <2>1. UNCHANGED drain /\ late' = {}
    BY <1>1, <1>2, <1>3
    DEF PostStep, PostCount, PostEnqueue, PostFind, PostJudge, PostCancel, PostStart,
        Outside, Approve, AskDies, ResumeArrives, OperatorCancels, WaitADay, CancelStep,
        SweepReads, SweepCancels, CancelRecord, AddsLater
  <2>2. \A j \in jobs' : j \in jobs \/ j.saving = "none"
    BY <1>3, ExecutionTypeOK
    DEF PostStep, PostCount, PostEnqueue, PostFind, PostJudge, PostCancel, PostStart, StartGraph,
        Execution, Outside, Approve, AskDies, ResumeArrives, OperatorCancels, WaitADay, CancelStep,
        SweepReads, SweepCancels
  <2>3. QED BY <1>2, <2>1, <2>2 DEF PostgresIsAtomic
<1>4. ASSUME NEW d \in Drains, DrainStep(d) PROVE PostgresIsAtomic'
  <2>1. \A k \in Drains : drain'[k].at \notin {"read", "write"}
    BY <1>1, <1>2, <1>4
    DEF DrainStep, DrainList, DrainCount, DrainClaim, DrainLock, DrainClaimRead, DrainClaimWrite,
        DrainStart, DrainAt, Onward, Drainers
  <2>2. late' = {} /\ \A j \in jobs' : j \in jobs \/ j.saving = "none"
    BY <1>2, <1>4 DEF DrainStep, DrainList, DrainCount, DrainClaim, DrainLock, DrainClaimRead,
                DrainClaimWrite, DrainStart, StartGraph, Execution
  <2>3. QED BY <1>2, <2>1, <2>2 DEF PostgresIsAtomic
<1>5. ASSUME JobStep PROVE PostgresIsAtomic'
  <2>1. PICK j \in jobs : JobAsks(j) \/ JobSaves(j) \/ JobWrites(j) \/ JobEnds(j) \/ JobDies(j)
    BY <1>5, PickJob
  <2>2. [j EXCEPT !.asked = TRUE].saving = "none"
    BY <1>2 DEF Jobs
  <2>3. UNCHANGED drain /\ late' = {} /\ \A k \in jobs' : k \in jobs \/ k.saving = "none"
    BY <1>1, <1>2, <2>1, <2>2 DEF JobAsks, JobSaves, JobWrites, JobEnds, JobDies, AddsLater
  <2>4. QED BY <1>2, <2>3 DEF PostgresIsAtomic
<1>6. CASE Crash
  BY <1>6 DEF Crash, PostgresIsAtomic, Onward
<1>7. CASE UNCHANGED vars
  BY <1>1, <1>7 DEF vars, PostgresIsAtomic
<1>8. CASE LateStep
  BY <1>2, <1>8 DEF LateStep
<1>9. QED BY <1>3, <1>4, <1>5, <1>6, <1>7, <1>8 DEF Next

LEMMA OwnershipInvariant == Spec => [](TypeOK /\ Ownership /\ PostgresIsAtomic)
  BY InitTypeOK, NextTypeOK, InitOwnership, NextOwnership, NextPostgresIsAtomic, PTL DEF Spec

\* However drains, handlers, cancellations, sweeps, resumes, writes of whole records and
\* crashes interleave, a run is started at most once where the store claims it in one
\* step (Postgres) or under a lock (the file store).
THEOREM RunsStartOnce == Spec => []StartedOnce
<1>1. Ownership => StartedOnce BY DEF Ownership, StartedOnce
<1>2. QED BY <1>1, OwnershipInvariant, PTL

-----------------------------------------------------------------------------
(* A cancelled run is not requeued *)

Requeues(r) == rec[r] = "cancelled" /\ rec'[r] = "running"

LEMMA NextRequeuesOnlyByMail ==
    ASSUME TypeOK, Ownership, PostgresIsAtomic, [Next]_vars, store = "postgres",
           NEW r \in Requests, Requeues(r)
    PROVE  mail'[r] < mail[r]
<1>1. rec \in [Requests -> Statuses] /\ mail \in [Requests -> Nat]
  BY DEF TypeOK
<1>2. rec'[r] # rec[r] /\ rec[r] = "cancelled" /\ rec'[r] = "running"
  BY DEF Requeues
<1>3. ASSUME NEW x \in Requests, PostStep(x) PROVE FALSE
  <2>1. CASE PostStart(x)
    <3>1. x = r
      BY <1>1, <1>2, <2>1 DEF PostStart, SetStatus
    <3>2. rec[x] = "none"
      BY <2>1 DEF PostStart, AtHandler, Ownership, HandlersOwnTheirRun, Unstored
    <3>3. QED BY <1>2, <3>1, <3>2
  <2>2. CASE ~PostStart(x)
    BY <1>1, <1>2, <1>3, <2>2
    DEF PostStep, PostCount, PostEnqueue, PostFind, PostJudge, PostCancel, CancelRecord, SetStatus
  <2>3. QED BY <2>1, <2>2
<1>4. ASSUME NEW d \in Drains, DrainStep(d) PROVE FALSE
  <2>1. CASE DrainClaim(d)
    BY <1>1, <1>2, <2>1 DEF DrainClaim, Claimable, SetStatus
  <2>2. CASE DrainClaimWrite(d)
    BY <2>2 DEF DrainClaimWrite, DrainAt, PostgresIsAtomic
  <2>3. CASE ~DrainClaim(d) /\ ~DrainClaimWrite(d)
    BY <1>2, <1>4, <2>3 DEF DrainStep, DrainList, DrainCount, DrainLock, DrainClaimRead, DrainStart
  <2>4. QED BY <2>1, <2>2, <2>3
<1>5. ASSUME JobStep PROVE FALSE
  <2>1. PICK j \in jobs : JobAsks(j) \/ JobSaves(j) \/ JobWrites(j) \/ JobEnds(j) \/ JobDies(j)
    BY <1>5, PickJob
  <2>2. CASE JobEnds(j)
    <3>1. PICK status \in FinalStatuses(j) : SetStatus(j.run, status)
      BY <2>2 DEF JobEnds
    <3>2. status # "running"
      BY <3>1 DEF FinalStatuses
    <3>3. QED BY <1>1, <1>2, <3>1, <3>2 DEF SetStatus
  <2>3. CASE JobWrites(j)
    BY <2>3 DEF JobWrites, PostgresIsAtomic
  <2>4. QED BY <1>2, <2>1, <2>2, <2>3 DEF JobAsks, JobSaves, JobDies
<1>6. ASSUME NEW x \in Requests, Outside(x) PROVE mail'[r] < mail[r]
  <2>1. CASE ResumeArrives(x)
    <3>1. x = r
      BY <1>1, <1>2, <2>1 DEF ResumeArrives, SetStatus
    <3>2. mail'[r] = mail[r] - 1 /\ mail[r] \in Nat
      BY <1>1, <2>1, <3>1 DEF ResumeArrives
    <3>3. QED BY <3>2
  <2>2. CASE ~ResumeArrives(x)
    BY <1>1, <1>2, <1>6, <2>2
    DEF Outside, Approve, AskDies, OperatorCancels, WaitADay, CancelRecord, SetStatus
  <2>3. QED BY <2>1, <2>2
<1>7. ASSUME NEW x \in Requests, CancelStep(x) PROVE FALSE
  BY <1>1, <1>2, <1>7
  DEF CancelStep, SweepReads, SweepCancels, CancelRecord, SetStatus
<1>8. ~LateStep
  BY DEF LateStep, PostgresIsAtomic
<1>9. ~Crash /\ ~UNCHANGED vars
  BY <1>2 DEF Crash, vars
<1>10. QED BY <1>3, <1>4, <1>5, <1>6, <1>7, <1>8, <1>9 DEF Next

\* With Postgres, a run that was cancelled is set running again by a resume command of
\* HIL's and by nothing else: no drain that had it on its list, not its own handler, and
\* no execution that adds to its record.
THEOREM CancelledRunsAreNotRequeued == Spec => CancelledIsNotRequeued
<1>1. TypeOK /\ Ownership /\ PostgresIsAtomic /\ [Next]_vars =>
        [\A r \in Requests :
            store = "postgres" /\ rec[r] = "cancelled" /\ rec'[r] = "running"
                => mail'[r] < mail[r]]_vars
  BY NextRequeuesOnlyByMail DEF Requeues
<1>2. QED BY <1>1, OwnershipInvariant, PTL DEF Spec, CancelledIsNotRequeued

-----------------------------------------------------------------------------
(* What the status running means *)

Claiming(r) == \E d \in Drains : DrainAt(d, "start") /\ drain[d].run = r

LEMMA AddedJobWorks ==
    ASSUME NEW j, j \in jobs'
    PROVE  Working(j.run)'
<1>1. \E k \in jobs' : k.run = j.run OBVIOUS
<1>2. QED BY <1>1 DEF Working

LEMMA StartedGraphWorks ==
    ASSUME NEW r \in Requests, StartGraph(r)
    PROVE  Working(r)'
<1>1. Execution(r, "graph", starts[r] + 1) \in jobs'
  BY DEF StartGraph
<1>2. Execution(r, "graph", starts[r] + 1).run = r
  BY DEF Execution
<1>3. QED BY <1>1, <1>2, AddedJobWorks

LEMMA NextRunningMeansWorking ==
    ASSUME TypeOK, PostgresIsAtomic, RunningMeansWorking, [Next]_vars
    PROVE  RunningMeansWorking'
<1> SUFFICES ASSUME store' = "postgres", NEW r \in Requests, rec'[r] = "running"
             PROVE  Working(r)' \/ r \in orphaned' \/ Claiming(r)'
  BY DEF RunningMeansWorking, Claiming
<1>0. store = "postgres" /\ late = {}
  BY DEF PostgresIsAtomic, Next, PostStep, Outside, CancelStep, DrainStep, JobStep, JobOver,
         LateStep, Crash, vars
<1>1. /\ rec \in [Requests -> Statuses] /\ drain \in [Drains -> Drainers]
      /\ jobs \subseteq Jobs
  BY DEF TypeOK
<1>2. rec[r] = "running" => Working(r) \/ r \in orphaned \/ Claiming(r)
  BY <1>0 DEF RunningMeansWorking, Claiming
<1>3. ASSUME NEW x \in Requests, PostStep(x)
      PROVE  Working(r)' \/ r \in orphaned' \/ Claiming(r)'
  <2>1. UNCHANGED <<drain, orphaned>> /\ jobs \subseteq jobs'
    BY <1>3 DEF PostStep, PostCount, PostEnqueue, PostFind, PostJudge, PostCancel,
                PostStart, StartGraph
  <2>2. Working(r) => Working(r)'
    BY <2>1 DEF Working
  <2>3. Claiming(r) => Claiming(r)'
    BY <2>1 DEF Claiming, DrainAt
  <2>4. rec[r] = "running" \/ (PostStart(x) /\ x = r)
    BY <1>1, <1>3 DEF PostStep, PostCount, PostEnqueue, PostFind, PostJudge,
                      PostCancel, PostStart, CancelRecord, SetStatus
  <2>5. CASE PostStart(x) /\ x = r
    BY <2>5, StartedGraphWorks DEF PostStart
  <2>6. QED BY <1>2, <2>1, <2>2, <2>3, <2>4, <2>5
<1>4. ASSUME NEW d \in Drains, DrainStep(d)
      PROVE  Working(r)' \/ r \in orphaned' \/ Claiming(r)'
  <2>1. UNCHANGED orphaned /\ jobs \subseteq jobs'
    BY <1>4 DEF DrainStep, DrainList, DrainCount, DrainClaim, DrainLock, DrainClaimRead,
                DrainClaimWrite, DrainStart, StartGraph
  <2>2. Working(r) => Working(r)'
    BY <2>1 DEF Working
  <2>3. CASE DrainStart(d)
    <3>1. rec[r] = "running" /\ \A k \in Drains \ {d} : drain'[k] = drain[k]
      BY <1>1, <2>3 DEF DrainStart
    <3>2. drain[d].run = r => Working(r)'
      BY <2>3, StartedGraphWorks DEF DrainStart
    <3>3. Claiming(r) => Claiming(r)' \/ Working(r)'
      BY <3>1, <3>2 DEF Claiming, DrainAt
    <3>4. QED BY <1>2, <2>1, <2>2, <3>1, <3>3
  <2>4. CASE ~DrainStart(d)
    <3>1. /\ ~DrainAt(d, "start")
          /\ \A k \in Drains \ {d} : drain'[k] = drain[k]
      BY <1>1, <1>4, <2>4 DEF DrainStep, DrainList, DrainCount, DrainClaim,
                              DrainLock, DrainClaimRead, DrainClaimWrite, DrainAt
    <3>2. Claiming(r) => Claiming(r)'
      BY <3>1 DEF Claiming, DrainAt
    <3>3. \/ rec[r] = "running"
          \/ drain'[d].at = "start" /\ drain'[d].run = r
      BY <1>1, <1>4, <2>4 DEF DrainStep, DrainList, DrainCount, DrainClaim,
                              DrainLock, DrainClaimRead, DrainClaimWrite, SetStatus, Drainers
    <3>4. QED BY <1>2, <2>1, <2>2, <3>2, <3>3 DEF Claiming, DrainAt
  <2>5. QED BY <2>3, <2>4
<1>5. ASSUME JobStep PROVE Working(r)' \/ r \in orphaned' \/ Claiming(r)'
  <2>1. PICK j \in jobs : JobAsks(j) \/ JobSaves(j) \/ JobWrites(j) \/ JobEnds(j) \/ JobDies(j)
    BY <1>5, PickJob
  <2>2. j \in Jobs /\ j.run \in Requests
    BY <1>1 DEF Jobs
  <2>3. /\ [j EXCEPT !.asked = TRUE].run = j.run
        /\ \A status : [j EXCEPT !.saving = status].run = j.run
    BY <2>2 DEF Jobs
  <2>4. UNCHANGED drain /\ orphaned \subseteq orphaned'
    BY <2>1 DEF JobAsks, JobSaves, JobWrites, JobEnds, JobDies
  <2>5. Claiming(r) => Claiming(r)'
    BY <2>4 DEF Claiming, DrainAt
  <2>6. CASE j.run # r
    <3>1. \A k \in jobs : k # j => k \in jobs'
      BY <2>1 DEF JobAsks, JobSaves, JobWrites, JobEnds, JobDies
    <3>2. Working(r) => Working(r)'
      BY <2>6, <3>1 DEF Working
    <3>3. rec[r] = "running"
      BY <1>1, <2>1, <2>2, <2>6 DEF JobAsks, JobSaves, JobWrites, JobEnds, JobDies, SetStatus
    <3>4. QED BY <1>2, <2>4, <2>5, <3>2, <3>3
  <2>7. CASE j.run = r
    <3>1. CASE JobEnds(j)
      <4>1. PICK status \in FinalStatuses(j) : SetStatus(r, status)
        BY <2>7, <3>1 DEF JobEnds
      <4>2. status # "running"
        BY <4>1 DEF FinalStatuses
      <4>3. QED BY <1>1, <4>1, <4>2 DEF SetStatus
    <3>2. CASE JobDies(j)
      BY <2>7, <3>2 DEF JobDies
    <3>3. CASE JobAsks(j) \/ JobSaves(j) \/ JobWrites(j)
      <4>1. \E k \in jobs' : k.run = r
        BY <2>1, <2>3, <2>7, <3>3 DEF JobAsks, JobSaves, JobWrites
      <4>2. QED BY <4>1, AddedJobWorks
    <3>4. QED BY <2>1, <3>1, <3>2, <3>3
  <2>8. QED BY <2>6, <2>7
<1>6. ASSUME NEW x \in Requests, Outside(x) \/ CancelStep(x)
      PROVE  Working(r)' \/ r \in orphaned' \/ Claiming(r)'
  <2>1. UNCHANGED <<drain, orphaned>> /\ jobs \subseteq jobs'
    BY <1>6 DEF Outside, Approve, AskDies, ResumeArrives, OperatorCancels, WaitADay,
                CancelStep, SweepReads, SweepCancels
  <2>2. Working(r) => Working(r)'
    BY <2>1 DEF Working
  <2>3. Claiming(r) => Claiming(r)'
    BY <2>1 DEF Claiming, DrainAt
  <2>4. rec[r] = "running" \/ (ResumeArrives(x) /\ x = r)
    BY <1>1, <1>6 DEF Outside, Approve, AskDies, ResumeArrives, OperatorCancels, WaitADay,
                      CancelStep, SweepReads, SweepCancels, CancelRecord, SetStatus
  <2>5. CASE ResumeArrives(x) /\ x = r
    <3>1. PICK n \in 1..Bounds[store].resumes : Execution(r, "resume", n) \in jobs'
      BY <2>5 DEF ResumeArrives
    <3>2. QED BY <3>1, AddedJobWorks, ExecutionTypeOK
  <2>6. QED BY <1>2, <2>1, <2>2, <2>3, <2>4, <2>5
<1>7. ASSUME Crash PROVE r \in orphaned'
  BY <1>7 DEF Crash
<1>8. ASSUME UNCHANGED vars PROVE Working(r)' \/ r \in orphaned' \/ Claiming(r)'
  <2>1. UNCHANGED <<rec, jobs, orphaned, drain>>
    BY <1>8 DEF vars
  <2>2. QED BY <1>2, <2>1 DEF Working, Claiming, DrainAt
<1>9. ~LateStep
  BY <1>0 DEF LateStep
<1>10. QED BY <1>3, <1>4, <1>5, <1>6, <1>7, <1>8, <1>9 DEF Next

\* With Postgres, a run is marked running only while an execution of it is in progress, while a
\* drain that claimed it is about to start it, or after its execution died.
THEOREM RunningRunsWork == Spec => []RunningMeansWorking
<1>1. Init => RunningMeansWorking
  BY DEF Init, RunningMeansWorking
<1>2. QED
  BY <1>1, OwnershipInvariant, NextRunningMeansWorking, PTL DEF Spec

=============================================================================
