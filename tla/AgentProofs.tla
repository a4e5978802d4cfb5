----------------------------- MODULE AgentProofs -----------------------------
(***************************************************************************)
(* Theorems about the two ends of a repair: Detection (the watcher, the    *)
(* brain, the alert webhook), for every number of pods, reports, alerts    *)
(* and webhook requests, every limit and every number of failing calls;    *)
(* and GitOps (the agent that applies changes), for every number of        *)
(* requests and manifests, every scenario and every number of restarts and *)
(* polls.                                                                  *)
(***************************************************************************)
EXTENDS Detection, GitOps, FiniteSetTheorems, FunctionTheorems, SequenceTheorems, TLAPS

Reports == Sources \X PodSet

-----------------------------------------------------------------------------
(* The circuit breaker *)

Places == {"idle", "check", "post", "gather", "told",
           "read", "escalate", "llm", "inc", "reread", "create", "patch", "ask"}

ReportStates == [at: Places, n: 0..(Limit + 1), alone: BOOLEAN, failed: BOOLEAN,
                 escalated: BOOLEAN]

Resources == [exists: BOOLEAN, count: 0..(Limit + 1), escalated: BOOLEAN]

\* What DetectionTypes says of the variables the breaker reads.
BreakerTypes ==
    /\ task \in [Reports -> ReportStates]
    /\ cr \in [PodSet -> Resources]
    /\ asked \in [PodSet -> 0..(Limit + 1)]

\* The resource has counted what was asked, and is there once there is something to count.
ResourceCounts(p) ==
    /\ asked[p] <= cr[p].count /\ asked[p] <= Limit
    /\ ~cr[p].exists => cr[p].count = 0

\* A report that met nobody is the only one about its pod that is in the brain.
MeetsNobody(t) ==
    InBrain(t) /\ task[t].alone =>
        \A u \in Reports : u # t /\ u[2] = t[2] => ~InBrain(u)

\* What a report read is not less than what was asked since: whoever asks meanwhile has met it.
ReadCoversAsked(t) ==
    /\ task[t].at \in {"reread", "patch"} => cr[t[2]].exists
    /\ task[t].at = "reread" => asked[t[2]] = 0
    /\ task[t].at = "patch" => asked[t[2]] <= task[t].n

\* A report that met nobody and no fault was below the limit when it read the resource, which is
\* as it was; and once it has counted itself, there is room for its ask.
LeavesRoom(t) ==
    task[t].alone /\ ~task[t].escalated =>
        /\ task[t].at \in {"llm", "inc", "create", "reread", "patch"} => cr[t[2]].count < Limit
        /\ task[t].at = "patch" => task[t].n = cr[t[2]].count
        /\ task[t].at = "ask" => asked[t[2]] < cr[t[2]].count /\ cr[t[2]].count <= Limit

BreakerInv ==
    /\ \A p \in PodSet : ResourceCounts(p)
    /\ \A t \in Reports : MeetsNobody(t) /\ ReadCoversAsked(t) /\ LeavesRoom(t)

LEMMA LimitPositive == Limit \in Nat /\ Limit > 0
  BY DetectionAssumption DEF DetectionAssumption

LEMMA IdleIsState == Idle \in ReportStates
  BY LimitPositive DEF Idle, ReportStates, Places

LEMMA InitBreaker == DetectionInit => BreakerTypes /\ BreakerInv
  BY LimitPositive
  DEF DetectionInit, BreakerTypes, BreakerInv, Reports, ReportStates, Places, Resources, Idle, InBrain,
      ResourceCounts, MeetsNobody, ReadCoversAsked, LeavesRoom

\* A report's step in the brain: it changes nothing about other pods or other reports, does not
\* remove the resource, and asks on its own account only if it met nobody.
LEMMA BrainStep ==
    ASSUME BreakerTypes, BreakerInv, BreakerTypes', NEW t \in Reports, InBrain(t),
           \A u \in Reports \ {t} : task'[u] = task[u],
           \A q \in PodSet \ {t[2]} : cr'[q] = cr[q] /\ asked'[q] = asked[q],
           cr[t[2]].exists => cr'[t[2]].exists,
           asked'[t[2]] = asked[t[2]] \/ task[t].alone,
           InBrain(t)' /\ task'[t].alone => task[t].alone,
           ResourceCounts(t[2])', ReadCoversAsked(t)', LeavesRoom(t)'
    PROVE  BreakerInv'
<1>1. \A p \in PodSet : ResourceCounts(p)' BY DEF BreakerInv, ResourceCounts
<1>2. ASSUME NEW u \in Reports, u # t
      PROVE  MeetsNobody(u)' /\ ReadCoversAsked(u)' /\ LeavesRoom(u)'
  <2>1. task'[u] = task[u] /\ u[2] \in PodSet BY <1>2 DEF Reports
  <2>2. MeetsNobody(u) /\ ReadCoversAsked(u) /\ LeavesRoom(u) BY DEF BreakerInv
  <2>3. \A v \in Reports : InBrain(v)' => InBrain(v) BY DEF InBrain
  <2>4. MeetsNobody(u)' BY <2>1, <2>2, <2>3 DEF MeetsNobody, InBrain
  <2>5. CASE u[2] # t[2]
    BY <2>1, <2>2, <2>4, <2>5 DEF ReadCoversAsked, LeavesRoom
  <2>6. CASE u[2] = t[2] /\ ~InBrain(u)
    BY <2>1, <2>4, <2>6 DEF ReadCoversAsked, LeavesRoom, InBrain
  <2>7. CASE u[2] = t[2] /\ InBrain(u)
    <3>1. ~task[u].alone /\ ~task[t].alone
      BY <1>2, <2>2, <2>7 DEF MeetsNobody, BreakerInv
    <3>2. ReadCoversAsked(u)' BY <2>1, <2>2, <2>7, <3>1 DEF ReadCoversAsked
    <3>3. LeavesRoom(u)' BY <2>1, <3>1 DEF LeavesRoom
    <3>4. QED BY <2>4, <3>2, <3>3
  <2>8. QED BY <2>5, <2>6, <2>7
<1>3. MeetsNobody(t)'
  <2>1. SUFFICES ASSUME InBrain(t)', task'[t].alone, NEW u \in Reports, u # t, u[2] = t[2]
                 PROVE  ~InBrain(u)'
    BY DEF MeetsNobody
  <2>2. task[t].alone /\ task'[u] = task[u] BY <2>1
  <2>3. QED BY <2>1, <2>2 DEF BreakerInv, MeetsNobody, InBrain
<1>4. QED BY <1>1, <1>2, <1>3 DEF BreakerInv

\* A step of the brain that neither writes the resource nor reaches HIL.
LEMMA ReadingStep ==
    ASSUME BreakerTypes, BreakerInv, NEW t \in Reports, InBrain(t),
           NEW row \in ReportStates, task' = [task EXCEPT ![t] = row], UNCHANGED <<cr, asked>>,
           InBrain(t)' /\ row.alone => task[t].alone,
           ReadCoversAsked(t)', LeavesRoom(t)'
    PROVE  BreakerTypes' /\ BreakerInv'
<1>1. BreakerTypes' BY DEF BreakerTypes
<1>2. task'[t] = row /\ t[2] \in PodSet BY DEF BreakerTypes, Reports
<1>3. ResourceCounts(t[2])' BY <1>2 DEF BreakerInv, ResourceCounts
<1>4. \A u \in Reports \ {t} : task'[u] = task[u] BY DEF BreakerTypes
<1>5. QED BY <1>1, <1>2, <1>3, <1>4, BrainStep

\* Steps outside the brain, and those that leave it.
LEMMA OutsideStep ==
    ASSUME BreakerTypes, BreakerInv, task' \in [Reports -> ReportStates],
           UNCHANGED <<cr, asked>>,
           \A t \in Reports : task'[t] = task[t] \/ ~InBrain(t)'
    PROVE  BreakerTypes' /\ BreakerInv'
<1>1. BreakerTypes' BY DEF BreakerTypes
<1>2. \A p \in PodSet : ResourceCounts(p)' BY DEF BreakerInv, ResourceCounts
<1>3. \A t \in Reports : InBrain(t)' => InBrain(t) BY DEF InBrain
<1>4. ASSUME NEW t \in Reports, task'[t] = task[t]
      PROVE  MeetsNobody(t)' /\ ReadCoversAsked(t)' /\ LeavesRoom(t)'
  BY <1>3, <1>4 DEF BreakerInv, MeetsNobody, InBrain, ReadCoversAsked, LeavesRoom
<1>5. ASSUME NEW t \in Reports, ~InBrain(t)'
      PROVE  MeetsNobody(t)' /\ ReadCoversAsked(t)' /\ LeavesRoom(t)'
  BY <1>5 DEF MeetsNobody, InBrain, ReadCoversAsked, LeavesRoom
<1>6. QED BY <1>1, <1>2, <1>4, <1>5 DEF BreakerInv

\* A report enters the brain.
LEMMA EnterStep ==
    ASSUME BreakerTypes, BreakerInv, NEW t \in Reports, RunAnalysis(t)
    PROVE  BreakerTypes' /\ BreakerInv'
<1> DEFINE company == {u \in Reports : u # t /\ u[2] = t[2] /\ InBrain(u)}
<1>1. DOMAIN task = Reports /\ task[t] \in ReportStates /\ UNCHANGED <<cr, asked>>
  BY DEF BreakerTypes, RunAnalysis, TaskStep
<1>2. CASE task' = [task EXCEPT ![t] = Idle]
  <2>1. task' \in [Reports -> ReportStates]
    BY <1>2, IdleIsState DEF BreakerTypes
  <2>2. QED BY <1>1, <1>2, <2>1, OutsideStep DEF BreakerTypes, Idle, InBrain
<1>3. CASE task' = [u \in Reports |->
                       CASE u = t -> [task[t] EXCEPT !.at = "read", !.alone = (company = {})]
                         [] u \in company -> [task[u] EXCEPT !.alone = FALSE]
                         [] OTHER -> task[u]]
  <2> HIDE DEF company
  <2>1. task'[t] = [task[t] EXCEPT !.at = "read", !.alone = (company = {})]
    BY <1>3 DEF company
  <2>2. \A u \in company : u # t /\ u \in Reports BY DEF company
  <2>3. \A u \in company : task'[u] = [task[u] EXCEPT !.alone = FALSE] BY <1>3, <2>2
  <2>4. \A u \in Reports : u # t /\ u \notin company => task'[u] = task[u] BY <1>3
  <2>5. task'[t] \in ReportStates
        /\ task'[t].at = "read" /\ (task'[t].alone <=> company = {})
    BY <1>1, <2>1 DEF ReportStates, Places
  <2>6. \A u \in company : task'[u] \in ReportStates /\ ~task'[u].alone
                        /\ task'[u].at = task[u].at /\ task'[u].n = task[u].n
    BY <2>2, <2>3 DEF ReportStates, BreakerTypes
  <2>7. \A u \in Reports : task'[u] \in ReportStates
    BY <2>4, <2>5, <2>6 DEF BreakerTypes
  <2>8. BreakerTypes' BY <1>1, <1>3, <2>7 DEF BreakerTypes
  <2>9. \A p \in PodSet : ResourceCounts(p)' BY <1>1 DEF BreakerInv, ResourceCounts
  <2>10. \A u \in Reports \ {t} : InBrain(u)' <=> InBrain(u)
    BY <2>4, <2>6 DEF InBrain
  <2>11. MeetsNobody(t)' /\ ReadCoversAsked(t)' /\ LeavesRoom(t)'
    <3>1. MeetsNobody(t)' BY <2>5, <2>10 DEF MeetsNobody, company
    <3>2. QED BY <2>5, <3>1 DEF ReadCoversAsked, LeavesRoom
  <2>12. ASSUME NEW u \in company
         PROVE  MeetsNobody(u)' /\ ReadCoversAsked(u)' /\ LeavesRoom(u)'
    BY <1>1, <2>2, <2>6 DEF BreakerInv, MeetsNobody, ReadCoversAsked, LeavesRoom
  <2>13. ASSUME NEW u \in Reports, u # t, u \notin company
         PROVE  MeetsNobody(u)' /\ ReadCoversAsked(u)' /\ LeavesRoom(u)'
    <3>1. task'[u] = task[u] BY <2>4, <2>13
    <3>2. MeetsNobody(u)'
      <4>1. SUFFICES ASSUME InBrain(u), task[u].alone, NEW v \in Reports, v # u, v[2] = u[2]
                     PROVE  ~InBrain(v)'
        BY <2>10, <2>13, <3>1 DEF MeetsNobody
      <4>2. v # t BY <2>13, <4>1 DEF company
      <4>3. QED BY <2>10, <4>1, <4>2 DEF BreakerInv, MeetsNobody
    <3>3. QED BY <1>1, <3>1, <3>2 DEF BreakerInv, ReadCoversAsked, LeavesRoom
  <2>14. QED BY <2>8, <2>9, <2>11, <2>12, <2>13 DEF BreakerInv
<1>4. QED BY <1>1, <1>2, <1>3 DEF RunAnalysis, Drop

LEMMA ReadResult ==
    ASSUME NEW t, NEW r \in ReadAttempts(t)
    PROVE  \/ r.ok = TRUE /\ r.seen = cr[t[2]]
           \/ r.ok = FALSE /\ r.seen.exists = FALSE /\ r.seen.count = 0
<1>1. \/ r = [seen |-> cr[t[2]], ok |-> TRUE]
      \/ r = [seen |-> [exists |-> FALSE, count |-> 0, escalated |-> FALSE], ok |-> FALSE]
  BY DEF ReadAttempts
<1>2. CASE r = [seen |-> cr[t[2]], ok |-> TRUE] BY <1>2
<1>3. CASE r = [seen |-> [exists |-> FALSE, count |-> 0, escalated |-> FALSE], ok |-> FALSE]
  BY <1>3
<1>4. QED BY <1>1, <1>2, <1>3

LEMMA DecisionStep ==
    ASSUME BreakerTypes, BreakerInv, NEW t \in Reports,
           ReadBreaker(t) \/ Diagnose(t) \/ MarkEscalated(t)
    PROVE  BreakerTypes' /\ BreakerInv'
<1>1. task[t] \in ReportStates /\ t[2] \in PodSet /\ cr[t[2]] \in Resources
  BY DEF BreakerTypes, Reports
<1>2. ReadCoversAsked(t) /\ LeavesRoom(t) /\ ResourceCounts(t[2]) BY <1>1 DEF BreakerInv
<1>3. CASE ReadBreaker(t)
  <2>1. PICK r \in ReadAttempts(t) :
             task' = [task EXCEPT ![t].at = IF Fires(r.seen.count) THEN "escalate" ELSE "llm",
                                  ![t].alone = @ /\ r.ok]
    BY <1>3 DEF ReadBreaker
  <2> DEFINE row == [task[t] EXCEPT !.at = IF Fires(r.seen.count) THEN "escalate" ELSE "llm",
                                    !.alone = @ /\ r.ok]
  <2>2. r.ok \in BOOLEAN /\ (r.ok => r.seen = cr[t[2]]) BY ReadResult
  <2>3. task' = [task EXCEPT ![t] = row] BY <2>1 DEF BreakerTypes
  <2>4. /\ row \in ReportStates /\ row.at \in {"escalate", "llm"}
        /\ row.alone => task[t].alone /\ r.ok
        /\ row.escalated = task[t].escalated
    BY <1>1, <2>2 DEF ReportStates, Places
  <2>10. row.at = "llm" => r.seen.count < Limit \/ ~r.ok
    BY <1>1, <2>2, LimitPositive DEF ReportStates, Fires, Resources
  <2> HIDE DEF row
  <2>5. task'[t] = row BY <2>3 DEF BreakerTypes
  <2>6. InBrain(t) /\ UNCHANGED <<cr, asked>> BY <1>3 DEF ReadBreaker, TaskStep, InBrain
  <2>7. ReadCoversAsked(t)' BY <2>4, <2>5 DEF ReadCoversAsked
  <2>8. LeavesRoom(t)' BY <2>2, <2>4, <2>5, <2>6, <2>10 DEF LeavesRoom
  <2>9. QED BY <2>3, <2>4, <2>5, <2>6, <2>7, <2>8, ReadingStep
<1>4. CASE Diagnose(t)
  <2>1. PICK failed \in BOOLEAN : task' = [task EXCEPT ![t].at = "inc", ![t].failed = failed]
    BY <1>4 DEF Diagnose
  <2> DEFINE row == [task[t] EXCEPT !.at = "inc", !.failed = failed]
  <2>2. task' = [task EXCEPT ![t] = row] BY <2>1 DEF BreakerTypes
  <2>3. /\ row \in ReportStates /\ row.at = "inc"
        /\ row.alone = task[t].alone /\ row.escalated = task[t].escalated
    BY <1>1 DEF ReportStates, Places
  <2> HIDE DEF row
  <2>4. task'[t] = row BY <2>2 DEF BreakerTypes
  <2>5. InBrain(t) /\ task[t].at = "llm" /\ UNCHANGED <<cr, asked>>
    BY <1>4 DEF Diagnose, TaskStep, InBrain
  <2>6. ReadCoversAsked(t)' BY <2>3, <2>4 DEF ReadCoversAsked
  <2>7. LeavesRoom(t)' BY <1>2, <2>3, <2>4, <2>5 DEF LeavesRoom
  <2>8. QED BY <2>2, <2>3, <2>4, <2>5, <2>6, <2>7, ReadingStep
<1>5. CASE MarkEscalated(t)
  <2> DEFINE row == [task[t] EXCEPT !.at = "ask", !.escalated = TRUE]
  <2>1. task' = [task EXCEPT ![t] = row] BY <1>5 DEF MarkEscalated, BreakerTypes
  <2>2. row \in ReportStates /\ row.at = "ask" /\ row.escalated /\ row.alone = task[t].alone
    BY <1>1 DEF ReportStates, Places
  <2> HIDE DEF row
  <2>3. task'[t] = row BY <2>1 DEF BreakerTypes
  <2>4. InBrain(t) /\ UNCHANGED asked BY <1>5 DEF MarkEscalated, TaskStep, InBrain
  <2>5. cr' = cr \/ cr' = [cr EXCEPT ![t[2]].escalated = @ \/ cr[t[2]].exists]
    BY <1>5 DEF MarkEscalated
  <2>6. /\ cr' \in [PodSet -> Resources]
        /\ \A q \in PodSet \ {t[2]} : cr'[q] = cr[q]
        /\ cr'[t[2]].exists = cr[t[2]].exists /\ cr'[t[2]].count = cr[t[2]].count
    BY <1>1, <2>5 DEF BreakerTypes, Resources
  <2>7. BreakerTypes' BY <2>1, <2>2, <2>4, <2>6 DEF BreakerTypes
  <2>8. ResourceCounts(t[2])' BY <1>2, <2>4, <2>6 DEF ResourceCounts
  <2>9. ReadCoversAsked(t)' /\ LeavesRoom(t)'
    BY <2>2, <2>3 DEF ReadCoversAsked, LeavesRoom
  <2>10. \A u \in Reports \ {t} : task'[u] = task[u] BY <2>1 DEF BreakerTypes
  <2>11. QED BY <2>2, <2>3, <2>4, <2>6, <2>7, <2>8, <2>9, <2>10, BrainStep
<1>6. QED BY <1>3, <1>4, <1>5

LEMMA ReadToIncrementStep ==
    ASSUME BreakerTypes, BreakerInv, NEW t \in Reports, ReadToIncrement(t)
    PROVE  BreakerTypes' /\ BreakerInv'
<1>1. task[t] \in ReportStates /\ t[2] \in PodSet /\ cr[t[2]] \in Resources
  BY DEF BreakerTypes, Reports
<1>2. ReadCoversAsked(t) /\ LeavesRoom(t) /\ ResourceCounts(t[2]) BY <1>1 DEF BreakerInv
<1>3. PICK at \in {"inc", "reread"}, r \in ReadAttempts(t) :
           /\ TaskStep(t, at) /\ UNCHANGED <<ignored, cr, asked>>
           /\ task' = [task EXCEPT ![t].at = IF r.seen.exists \/ at = "reread" THEN "patch"
                                                                             ELSE "create",
                                   ![t].alone = @ /\ r.ok,
                                   ![t].n = r.seen.count]
  BY DEF ReadToIncrement
<1> DEFINE row == [task[t] EXCEPT !.at = IF r.seen.exists \/ at = "reread" THEN "patch"
                                                                         ELSE "create",
                                  !.alone = @ /\ r.ok,
                                  !.n = r.seen.count]
<1>4. /\ r.ok \in BOOLEAN /\ (r.ok => r.seen = cr[t[2]])
      /\ ~r.ok => ~r.seen.exists /\ r.seen.count = 0
      /\ r.seen.count \in 0..(Limit + 1)
  <2>1. cr[t[2]].count \in 0..(Limit + 1) /\ 0 \in 0..(Limit + 1)
    BY <1>1, LimitPositive DEF Resources
  <2>2. CASE r.ok = TRUE /\ r.seen = cr[t[2]] BY <2>1, <2>2
  <2>3. CASE r.ok = FALSE /\ r.seen.exists = FALSE /\ r.seen.count = 0 BY <2>1, <2>3
  <2>4. QED BY <2>2, <2>3, ReadResult
<1>5. task' = [task EXCEPT ![t] = row] BY <1>3 DEF BreakerTypes
<1>6. /\ row \in ReportStates /\ row.at \in {"patch", "create"} /\ row.n = r.seen.count
      /\ row.alone => task[t].alone /\ r.ok
      /\ row.escalated = task[t].escalated
      /\ row.at = "patch" => r.seen.exists \/ at = "reread"
  BY <1>1, <1>4 DEF ReportStates, Places
<1> HIDE DEF row
<1>7. task'[t] = row BY <1>5 DEF BreakerTypes
<1>8. InBrain(t) /\ task[t].at = at /\ UNCHANGED <<cr, asked>>
  BY <1>3 DEF TaskStep, InBrain
<1>9. ReadCoversAsked(t)'
  <2>1. row.at = "patch" => cr[t[2]].exists BY <1>2, <1>4, <1>6, <1>8 DEF ReadCoversAsked
  <2>2. row.at = "patch" => asked[t[2]] <= row.n
    BY <1>1, <1>2, <1>4, <1>6, <1>8 DEF ReadCoversAsked, ResourceCounts
  <2>3. QED BY <1>6, <1>7, <1>8, <2>1, <2>2 DEF ReadCoversAsked
<1>10. LeavesRoom(t)'
  BY <1>2, <1>3, <1>4, <1>6, <1>7, <1>8 DEF LeavesRoom
<1>11. QED BY <1>5, <1>6, <1>7, <1>8, <1>9, <1>10, ReadingStep

\* A report that is over, or waits with its ask.
LEMMA AfterCountRow ==
    ASSUME BreakerTypes, NEW t \in Reports, NEW alone \in BOOLEAN, AfterCount(t, alone)
    PROVE  \E row \in ReportStates :
              /\ task' = [task EXCEPT ![t] = row]
              /\ row = Idle \/ (row.at = "ask" /\ row.alone = alone
                                 /\ row.escalated = task[t].escalated)
<1>1. task[t] \in ReportStates BY DEF BreakerTypes
<1>2. CASE task[t].failed BY <1>2, IdleIsState DEF AfterCount
<1>3. CASE ~task[t].failed
  <2> DEFINE row == [task[t] EXCEPT !.at = "ask", !.n = 0, !.alone = alone]
  <2>1. task' = [task EXCEPT ![t] = row] BY <1>3 DEF AfterCount, BreakerTypes
  <2>2. row \in ReportStates
    <3>1. 0 \in 0..(Limit + 1) BY LimitPositive
    <3>2. QED BY <1>1, <3>1 DEF ReportStates, Places
  <2>4. row.at = "ask" /\ row.alone = alone /\ row.escalated = task[t].escalated
    BY <1>1 DEF ReportStates
  <2>3. QED BY <2>1, <2>2, <2>4
<1>4. QED BY <1>2, <1>3

LEMMA CreateStep ==
    ASSUME BreakerTypes, BreakerInv, NEW t \in Reports, CreateCR(t)
    PROVE  BreakerTypes' /\ BreakerInv'
<1>1. task[t] \in ReportStates /\ t[2] \in PodSet /\ cr[t[2]] \in Resources
  BY DEF BreakerTypes, Reports
<1>2. ReadCoversAsked(t) /\ LeavesRoom(t) /\ ResourceCounts(t[2]) BY <1>1 DEF BreakerInv
<1>3. InBrain(t) /\ task[t].at = "create" /\ UNCHANGED asked
  BY DEF CreateCR, TaskStep, InBrain
<1>4. CASE ~cr[t[2]].exists /\ cr' = [cr EXCEPT ![t[2]].exists = TRUE] /\ TaskTo(t, "reread")
  <2> DEFINE row == [task[t] EXCEPT !.at = "reread"]
  <2>1. task' = [task EXCEPT ![t] = row] BY <1>4 DEF TaskTo, BreakerTypes
  <2>2. /\ row \in ReportStates /\ row.at = "reread" /\ row.escalated = task[t].escalated
        /\ row.alone = task[t].alone
    BY <1>1 DEF ReportStates, Places
  <2> HIDE DEF row
  <2>3. task'[t] = row BY <2>1 DEF BreakerTypes
  <2>4. /\ cr' \in [PodSet -> Resources]
        /\ \A q \in PodSet \ {t[2]} : cr'[q] = cr[q]
        /\ cr'[t[2]].exists /\ cr'[t[2]].count = cr[t[2]].count
    BY <1>1, <1>4 DEF BreakerTypes, Resources
  <2>5. BreakerTypes' BY <1>3, <2>1, <2>2, <2>4 DEF BreakerTypes
  <2>6. ResourceCounts(t[2])' BY <1>2, <1>3, <2>4 DEF ResourceCounts
  <2>7. ReadCoversAsked(t)'
    <3>1. asked[t[2]] = 0
      BY <1>1, <1>2, <1>4, LimitPositive DEF ResourceCounts, BreakerTypes
    <3>2. QED BY <1>3, <2>2, <2>3, <2>4, <3>1 DEF ReadCoversAsked
  <2>8. LeavesRoom(t)' BY <1>2, <1>3, <2>2, <2>3, <2>4 DEF LeavesRoom
  <2>9. \A u \in Reports \ {t} : task'[u] = task[u] BY <2>1 DEF BreakerTypes
  <2>10. QED BY <1>3, <2>2, <2>3, <2>4, <2>5, <2>6, <2>7, <2>8, <2>9, BrainStep
<1>5. CASE UNCHANGED cr /\ AfterCount(t, FALSE)
  <2>1. PICK row \in ReportStates :
             /\ task' = [task EXCEPT ![t] = row]
             /\ row = Idle \/ (row.at = "ask" /\ row.alone = FALSE)
    BY <1>5, AfterCountRow
  <2>2. task'[t] = row BY <2>1 DEF BreakerTypes
  <2>3. ReadCoversAsked(t)' /\ LeavesRoom(t)' /\ ~(InBrain(t)' /\ row.alone)
    BY <2>1, <2>2 DEF ReadCoversAsked, LeavesRoom, InBrain, Idle
  <2>4. QED BY <1>3, <1>5, <2>1, <2>2, <2>3, ReadingStep
<1>6. QED BY <1>4, <1>5 DEF CreateCR

LEMMA PatchStep ==
    ASSUME BreakerTypes, BreakerInv, NEW t \in Reports, PatchAttempts(t)
    PROVE  BreakerTypes' /\ BreakerInv'
<1>1. task[t] \in ReportStates /\ t[2] \in PodSet /\ cr[t[2]] \in Resources
      /\ asked[t[2]] \in 0..(Limit + 1)
  BY DEF BreakerTypes, Reports
<1>2. ReadCoversAsked(t) /\ LeavesRoom(t) /\ ResourceCounts(t[2]) BY <1>1 DEF BreakerInv
<1>3. InBrain(t) /\ task[t].at = "patch" /\ UNCHANGED asked
  BY DEF PatchAttempts, TaskStep, InBrain
<1>4. task[t].n \in 0..(Limit + 1) /\ task[t].alone \in BOOLEAN BY <1>1 DEF ReportStates
<1>5. CASE /\ cr' = [cr EXCEPT ![t[2]].count = IF Counted(t) > Limit THEN Limit + 1 ELSE Counted(t)]
           /\ AfterCount(t, task[t].alone)
  <2>1. PICK row \in ReportStates :
             /\ task' = [task EXCEPT ![t] = row]
             /\ row = Idle \/ (row.at = "ask" /\ row.alone = task[t].alone
                                /\ row.escalated = task[t].escalated)
    BY <1>4, <1>5, AfterCountRow
  <2>2. task'[t] = row BY <2>1 DEF BreakerTypes
  <2> DEFINE k == IF Counted(t) > Limit THEN Limit + 1 ELSE Counted(t)
  <2>3. k \in 0..(Limit + 1) /\ asked[t[2]] <= k /\ (task[t].n < Limit => k = task[t].n + 1)
    BY <1>1, <1>2, <1>3, <1>4, LimitPositive DEF Counted, ReadCoversAsked, ResourceCounts
  <2> HIDE DEF k
  <2>4. cr' = [cr EXCEPT ![t[2]].count = k] BY <1>5 DEF k
  <2>5. /\ cr' \in [PodSet -> Resources]
        /\ \A q \in PodSet \ {t[2]} : cr'[q] = cr[q]
        /\ cr'[t[2]].exists = cr[t[2]].exists /\ cr'[t[2]].count = k
    BY <1>1, <2>3, <2>4 DEF BreakerTypes, Resources
  <2>6. BreakerTypes' BY <1>3, <2>1, <2>5 DEF BreakerTypes
  <2>7. cr[t[2]].exists BY <1>2, <1>3 DEF ReadCoversAsked
  <2>8. ResourceCounts(t[2])' BY <1>2, <1>3, <2>3, <2>5, <2>7 DEF ResourceCounts
  <2>9. ReadCoversAsked(t)' BY <2>1, <2>2 DEF ReadCoversAsked, Idle
  <2>10. LeavesRoom(t)'
    <3>1. CASE row = Idle BY <2>2, <3>1 DEF LeavesRoom, Idle
    <3>2. CASE row.at = "ask" /\ row.alone = task[t].alone /\ row.escalated = task[t].escalated
      <4>1. SUFFICES ASSUME task[t].alone, ~task[t].escalated
                     PROVE  asked[t[2]] < k /\ k <= Limit
        BY <1>3, <2>2, <2>5, <3>2 DEF LeavesRoom
      <4>2. task[t].n < Limit BY <1>2, <1>3, <4>1 DEF LeavesRoom
      <4>3. k = task[t].n + 1 /\ asked[t[2]] <= task[t].n
        BY <1>2, <1>3, <2>3, <4>2 DEF ReadCoversAsked
      <4>4. QED BY <1>1, <1>4, <4>2, <4>3, LimitPositive
    <3>3. QED BY <2>1, <3>1, <3>2
  <2>11. \A u \in Reports \ {t} : task'[u] = task[u] BY <2>1 DEF BreakerTypes
  <2>12. InBrain(t)' /\ row.alone => task[t].alone
    <3>1. row = Idle => ~InBrain(t)' BY <2>2 DEF InBrain, Idle
    <3>2. QED BY <2>1, <3>1
  <2>13. QED BY <1>3, <2>2, <2>5, <2>6, <2>8, <2>9, <2>10, <2>11, <2>12, BrainStep
<1>6. CASE UNCHANGED cr /\ AfterCount(t, FALSE)
  <2>1. PICK row \in ReportStates :
             /\ task' = [task EXCEPT ![t] = row]
             /\ row = Idle \/ (row.at = "ask" /\ row.alone = FALSE)
    BY <1>6, AfterCountRow
  <2>2. task'[t] = row BY <2>1 DEF BreakerTypes
  <2>3. ReadCoversAsked(t)' /\ LeavesRoom(t)' /\ ~(InBrain(t)' /\ row.alone)
    BY <2>1, <2>2 DEF ReadCoversAsked, LeavesRoom, InBrain, Idle
  <2>4. QED BY <1>3, <1>6, <2>1, <2>2, <2>3, ReadingStep
<1>7. QED BY <1>5, <1>6 DEF PatchAttempts

LEMMA AskStep ==
    ASSUME BreakerTypes, BreakerInv, NEW t \in Reports, Ask(t)
    PROVE  BreakerTypes' /\ BreakerInv'
<1>1. task[t] \in ReportStates /\ t[2] \in PodSet /\ cr[t[2]] \in Resources
      /\ asked[t[2]] \in 0..(Limit + 1)
  BY DEF BreakerTypes, Reports
<1>2. LeavesRoom(t) /\ ResourceCounts(t[2]) BY <1>1 DEF BreakerInv
<1>3. InBrain(t) /\ task[t].at = "ask" /\ UNCHANGED cr BY DEF Ask, TaskStep, InBrain
<1>4. CASE Drop(t) /\ UNCHANGED asked
  <2>1. task' \in [Reports -> ReportStates] BY <1>4, IdleIsState DEF Drop, BreakerTypes
  <2>2. \A u \in Reports : task'[u] = task[u] \/ task'[u].at = "idle"
    BY <1>4 DEF Drop, BreakerTypes, Idle
  <2>3. QED BY <1>3, <1>4, <2>1, <2>2, OutsideStep DEF InBrain
<1>5. CASE /\ TaskTo(t, "told")
           /\ asked' = [asked EXCEPT ![t[2]] =
                IF task[t].alone /\ ~task[t].escalated /\ @ <= Limit THEN @ + 1 ELSE @]
  <2> DEFINE row == [task[t] EXCEPT !.at = "told"]
             k == IF task[t].alone /\ ~task[t].escalated /\ asked[t[2]] <= Limit
                  THEN asked[t[2]] + 1 ELSE asked[t[2]]
  <2>1. task' = [task EXCEPT ![t] = row] BY <1>5 DEF TaskTo, BreakerTypes
  <2>2. row \in ReportStates /\ row.at = "told" BY <1>1 DEF ReportStates, Places
  <2>3. /\ k \in 0..(Limit + 1) /\ k <= cr[t[2]].count /\ k <= Limit
        /\ k = asked[t[2]] \/ task[t].alone
    BY <1>1, <1>2, <1>3, LimitPositive DEF LeavesRoom, ResourceCounts, Resources
  <2>4. asked' = [asked EXCEPT ![t[2]] = k] BY <1>5 DEF BreakerTypes
  <2> HIDE DEF row, k
  <2>5. task'[t] = row /\ asked'[t[2]] = k BY <1>1, <2>1, <2>4 DEF BreakerTypes
  <2>6. BreakerTypes' BY <1>3, <2>1, <2>2, <2>3, <2>4 DEF BreakerTypes
  <2>7. ResourceCounts(t[2])' BY <1>2, <1>3, <2>3, <2>5 DEF ResourceCounts
  <2>8. ReadCoversAsked(t)' /\ LeavesRoom(t)' /\ ~InBrain(t)'
    BY <2>2, <2>5 DEF ReadCoversAsked, LeavesRoom, InBrain
  <2>9. /\ \A u \in Reports \ {t} : task'[u] = task[u]
        /\ \A q \in PodSet \ {t[2]} : asked'[q] = asked[q]
    BY <2>1, <2>4 DEF BreakerTypes
  <2>10. QED BY <1>3, <2>3, <2>5, <2>6, <2>7, <2>8, <2>9, BrainStep
<1>6. QED BY <1>4, <1>5 DEF Ask

\* A reset empties the resource; the reports that are under way may write over it what they read
\* before, but are not alone any more.
LEMMA ResetStep ==
    ASSUME BreakerTypes, BreakerInv, NEW p \in PodSet, ResetAttempts(p)
    PROVE  BreakerTypes' /\ BreakerInv'
<1>1. DOMAIN task = Reports BY DEF BreakerTypes
<1>2. /\ cr' = [cr EXCEPT ![p].count = 0, ![p].escalated = FALSE]
      /\ asked' = [asked EXCEPT ![p] = 0]
      /\ task' = [t \in Reports |-> IF t[2] = p /\ InBrain(t) THEN [task[t] EXCEPT !.alone = FALSE]
                                                               ELSE task[t]]
  BY <1>1 DEF ResetAttempts
<1>3. /\ cr' \in [PodSet -> Resources]
      /\ \A q \in PodSet \ {p} : cr'[q] = cr[q]
      /\ cr'[p].exists = cr[p].exists /\ cr'[p].count = 0
  <2> DEFINE row == [cr[p] EXCEPT !.count = 0, !.escalated = FALSE]
  <2>1. cr[p] \in Resources BY DEF BreakerTypes
  <2>2. cr' = [cr EXCEPT ![p] = row] BY <1>2 DEF BreakerTypes
  <2>3. row \in Resources /\ row.exists = cr[p].exists /\ row.count = 0
    <3>1. 0 \in 0..(Limit + 1) BY LimitPositive
    <3>2. QED BY <2>1, <3>1 DEF Resources
  <2> HIDE DEF row
  <2>4. QED BY <2>2, <2>3 DEF BreakerTypes
<1>4. /\ asked' \in [PodSet -> 0..(Limit + 1)] /\ asked'[p] = 0
      /\ \A q \in PodSet \ {p} : asked'[q] = asked[q]
  BY <1>2, LimitPositive DEF BreakerTypes
<1>5. \A t \in Reports : t[2] # p \/ ~InBrain(t) => task'[t] = task[t] BY <1>2
<1>6. \A t \in Reports : t[2] = p /\ InBrain(t) =>
          /\ task'[t] \in ReportStates /\ ~task'[t].alone
          /\ task'[t].at = task[t].at /\ task'[t].n = task[t].n
  BY <1>2 DEF BreakerTypes, ReportStates
<1>7. BreakerTypes'
  <2>1. \A t \in Reports : task'[t] \in ReportStates BY <1>5, <1>6 DEF BreakerTypes
  <2>2. QED BY <1>2, <1>3, <1>4, <2>1 DEF BreakerTypes
<1>8. \A q \in PodSet : ResourceCounts(q)'
  BY <1>3, <1>4, LimitPositive DEF BreakerInv, ResourceCounts
<1>9. \A t \in Reports : InBrain(t)' <=> InBrain(t) BY <1>5, <1>6 DEF InBrain
<1>10. ASSUME NEW t \in Reports
       PROVE  MeetsNobody(t)' /\ ReadCoversAsked(t)' /\ LeavesRoom(t)'
  <2>1. MeetsNobody(t) /\ ReadCoversAsked(t) /\ LeavesRoom(t) /\ t[2] \in PodSet
        /\ task[t] \in ReportStates
    BY DEF BreakerInv, Reports, BreakerTypes
  <2>2. MeetsNobody(t)' BY <1>5, <1>6, <1>9, <2>1 DEF MeetsNobody
  <2>3. CASE t[2] # p
    BY <1>3, <1>4, <1>5, <2>1, <2>2, <2>3 DEF ReadCoversAsked, LeavesRoom
  <2>4. CASE t[2] = p /\ ~InBrain(t)
    BY <1>5, <2>2, <2>4 DEF ReadCoversAsked, LeavesRoom, InBrain
  <2>5. CASE t[2] = p /\ InBrain(t)
    <3>1. ReadCoversAsked(t)'
      BY <1>3, <1>4, <1>6, <2>1, <2>5, LimitPositive DEF ReadCoversAsked, ReportStates
    <3>2. LeavesRoom(t)' BY <1>6, <2>5 DEF LeavesRoom
    <3>3. QED BY <2>2, <3>1, <3>2
  <2>6. QED BY <2>3, <2>4, <2>5
<1>11. QED BY <1>7, <1>8, <1>10 DEF BreakerInv

LEMMA NextBreaker ==
    ASSUME BreakerTypes, BreakerInv, [DetectionNext]_detectionVars
    PROVE  BreakerTypes' /\ BreakerInv'
<1>1. ASSUME UNCHANGED <<task, cr, asked>>
      PROVE  BreakerTypes' /\ BreakerInv'
  BY <1>1, OutsideStep DEF BreakerTypes
<1>2. ASSUME NEW p \in PodSet, HandleKubeEvent(p)
      PROVE  BreakerTypes' /\ BreakerInv'
  <2>1. <<"event", p>> \in Reports BY DEF Reports, Sources
  <2>2. task' \in [Reports -> ReportStates]
    BY <1>2, <2>1 DEF HandleKubeEvent, BreakerTypes, ReportStates, Places
  <2>3. \A t \in Reports : task'[t] = task[t] \/ ~InBrain(t)'
    BY <1>2, <2>1 DEF HandleKubeEvent, BreakerTypes, ReportStates, InBrain
  <2>4. QED BY <1>2, <2>2, <2>3, OutsideStep DEF HandleKubeEvent
<1>3. ASSUME PollPods
      PROVE  BreakerTypes' /\ BreakerInv'
  <2>1. PICK fired : task' = [t \in Reports |->
             IF t[1] = "poll" /\ t[2] \in fired
             THEN [Idle EXCEPT !.at = IF pod[t[2]] = "evicted" THEN "post" ELSE "check"]
             ELSE task[t]]
    BY <1>3 DEF PollPods, Reports
  <2>2. \A at \in {"post", "check"} : [Idle EXCEPT !.at = at] \in ReportStates
    BY IdleIsState DEF ReportStates, Places
  <2>3. task' \in [Reports -> ReportStates] BY <2>1, <2>2 DEF BreakerTypes
  <2>4. \A t \in Reports : task'[t] = task[t] \/ task'[t].at \in {"post", "check"}
    BY <2>1 DEF Idle
  <2>5. QED BY <1>3, <2>3, <2>4, OutsideStep DEF PollPods, InBrain
<1>4. ASSUME NEW t \in Reports, CheckIgnored(t) \/ FireAnomaly(t) \/ Told(t)
      PROVE  BreakerTypes' /\ BreakerInv'
  <2>1. PICK row : /\ row = Idle \/ \E at \in {"post", "told", "gather"} :
                                         row = [task[t] EXCEPT !.at = at]
                   /\ task' = [task EXCEPT ![t] = row]
    BY <1>4 DEF CheckIgnored, FireAnomaly, Told, TaskTo, Drop
  <2>2. row \in ReportStates /\ row.at \in {"idle", "post", "told", "gather"}
    BY <2>1, IdleIsState DEF BreakerTypes, ReportStates, Places, Idle
  <2>3. task' \in [Reports -> ReportStates] BY <2>1, <2>2 DEF BreakerTypes
  <2>4. \A u \in Reports : task'[u] = task[u] \/ task'[u].at \in {"idle", "post", "told", "gather"}
    BY <2>1, <2>2 DEF BreakerTypes
  <2>5. QED BY <1>4, <2>3, <2>4, OutsideStep DEF CheckIgnored, FireAnomaly, Told, InBrain
<1>5. ASSUME NEW t \in Reports, RunAnalysis(t)
      PROVE  BreakerTypes' /\ BreakerInv'
  BY <1>5, EnterStep
<1>6. ASSUME NEW t \in Reports, ReadBreaker(t) \/ Diagnose(t) \/ MarkEscalated(t)
      PROVE  BreakerTypes' /\ BreakerInv'
  BY <1>6, DecisionStep
<1>7. ASSUME NEW t \in Reports, ReadToIncrement(t) \/ CreateCR(t) \/ PatchAttempts(t)
      PROVE  BreakerTypes' /\ BreakerInv'
  BY <1>7, ReadToIncrementStep, CreateStep, PatchStep
<1>8. ASSUME NEW t \in Reports, Ask(t)
      PROVE  BreakerTypes' /\ BreakerInv'
  BY <1>8, AskStep
<1>9. ASSUME NEW p \in PodSet, ResetAttempts(p)
      PROVE  BreakerTypes' /\ BreakerInv'
  BY <1>9, ResetStep
<1>10. CASE UNCHANGED detectionVars BY <1>1, <1>10 DEF detectionVars
<1>11. CASE \E p \in PodSet : PodChanges(p) \/ HandleKubeEvent(p) \/ ResetAttempts(p)
  BY <1>1, <1>2, <1>9, <1>11 DEF PodChanges
<1>12. CASE (\E w \in Workloads : OperatorIgnores(w)) \/ Tick \/ PollPods
  BY <1>1, <1>3, <1>12 DEF OperatorIgnores, Tick
<1>13. CASE \E t \in Reports : Report(t)
  BY <1>4, <1>5, <1>6, <1>7, <1>8, <1>13 DEF Report
<1>14. CASE Sweep
  BY <1>1, <1>14 DEF Sweep, StartSweep, NextItem, SweepPost, watching
<1>15. CASE \E h \in Hooks : Webhook(h)
  BY <1>1, <1>15
  DEF Webhook, ReceiveAlerts, GroupAlerts, PostGroup, Respond, Forget, AlertStep, watching
<1>16. QED BY <1>10, <1>11, <1>12, <1>13, <1>14, <1>15 DEF DetectionNext, Reports

\* Between two resets, a resource of which no two reports overlap is asked about at most Limit
\* times, however often reports about it arrive, whatever the other reports write over it, and
\* although the number is read before the diagnosis and again after it.
THEOREM AsksAreBounded == DetectionSpec => []AttemptsBounded
<1>1. BreakerTypes /\ BreakerInv => AttemptsBounded
  BY DEF BreakerInv, ResourceCounts, AttemptsBounded
<1>2. BreakerTypes /\ BreakerInv /\ [DetectionNext]_detectionVars => (BreakerTypes /\ BreakerInv)'
  BY NextBreaker
<1>3. QED BY <1>1, <1>2, InitBreaker, PTL DEF DetectionSpec

-----------------------------------------------------------------------------
(* The webhook *)

GroupsOfAlerts == [key: AlertKeys, workloads: SUBSET Workloads]

HookStates == [at: {"idle", "group", "post", "done"}, alerts: SUBSET Alerts,
               groups: SUBSET GroupsOfAlerts, posted: SUBSET GroupsOfAlerts,
               reused: SUBSET Workloads]

HookTypes == hook \in [Hooks -> HookStates]

WorkloadsOf(groups) == UNION {g.workloads : g \in groups}

\* Every alert is in a group that waits, that was posted, or that was passed over.
AlertsKept ==
    \A h \in Hooks :
        /\ hook[h].at \in {"post", "done"} =>
              \A a \in hook[h].alerts :
                  a.workload \in hook[h].reused \cup WorkloadsOf(hook[h].groups)
                                                \cup WorkloadsOf(hook[h].posted)
        /\ hook[h].at = "done" => hook[h].groups = {}

LEMMA InitHook == DetectionInit => HookTypes /\ AlertsKept
  BY DEF DetectionInit, HookTypes, HookStates, NoHook, AlertsKept

\* Whatever the keys, every workload of the alerts is in a group: in one of enough workloads, or
\* by itself.
LEMMA GroupsCover ==
    ASSUME NEW alerts, NEW a \in alerts
    PROVE  a.workload \in WorkloadsOf(Groups(alerts))
<1> DEFINE grouped == Grouped(alerts)
           covered == UNION {g.workloads : g \in grouped}
           KeyOf(w) == LET b == CHOOSE b \in alerts : b.workload = w
                       IN IF b.key = "none" THEN w ELSE b.key
<1>1. Groups(alerts) = grouped \cup {[key |-> KeyOf(w), workloads |-> {w}] :
                                        w \in {b.workload : b \in alerts} \ covered}
  BY DEF Groups
<1> HIDE DEF grouped, KeyOf
<1>2. CASE a.workload \in covered BY <1>1, <1>2 DEF WorkloadsOf
<1>3. CASE a.workload \notin covered
  <2>1. [key |-> KeyOf(a.workload), workloads |-> {a.workload}] \in Groups(alerts)
    BY <1>1, <1>3
  <2>2. QED BY <2>1 DEF WorkloadsOf
<1>4. QED BY <1>2, <1>3

LEMMA GroupsTyped ==
    ASSUME NEW alerts, \A a \in alerts : a.workload \in Workloads /\ a.key \in AlertKeys
    PROVE  Groups(alerts) \subseteq GroupsOfAlerts
<1> DEFINE KeyOf(w) == LET b == CHOOSE b \in alerts : b.workload = w
                       IN IF b.key = "none" THEN w ELSE b.key
<1>1. Grouped(alerts) \subseteq GroupsOfAlerts BY DEF Grouped, GroupsOfAlerts
<1>2. ASSUME NEW a \in alerts
      PROVE  [key |-> KeyOf(a.workload), workloads |-> {a.workload}] \in GroupsOfAlerts
  <2> DEFINE b == CHOOSE b \in alerts : b.workload = a.workload
  <2>1. b \in alerts OBVIOUS
  <2>2. b.key \in AlertKeys /\ a.workload \in AlertKeys BY <2>1 DEF AlertKeys
  <2>3. KeyOf(a.workload) = IF b.key = "none" THEN a.workload ELSE b.key OBVIOUS
  <2> HIDE DEF b, KeyOf
  <2>4. QED BY <2>2, <2>3 DEF GroupsOfAlerts
<1>3. Groups(alerts) \subseteq Grouped(alerts) \cup {[key |-> KeyOf(a.workload), workloads |-> {a.workload}] :
                                                        a \in alerts}
  BY DEF Groups
<1> HIDE DEF KeyOf
<1>4. QED BY <1>1, <1>2, <1>3

\* A step of one request of the webhook.
LEMMA HookStep ==
    ASSUME HookTypes, AlertsKept, NEW h \in Hooks, NEW row \in HookStates,
           hook' = [hook EXCEPT ![h] = row],
           row.at \in {"post", "done"} =>
              \A a \in row.alerts :
                  a.workload \in row.reused \cup WorkloadsOf(row.groups) \cup WorkloadsOf(row.posted),
           row.at = "done" => row.groups = {}
    PROVE  HookTypes' /\ AlertsKept'
<1>1. HookTypes' BY DEF HookTypes
<1>2. hook'[h] = row /\ \A g \in Hooks \ {h} : hook'[g] = hook[g] BY DEF HookTypes
<1>3. AlertsKept' BY <1>2 DEF AlertsKept
<1>4. QED BY <1>1, <1>3

\* The groups of a request, those with a recent incident apart.
LEMMA GroupedRow ==
    ASSUME HookTypes, AlertsKept, NEW h \in Hooks, NEW groups \in SUBSET GroupsOfAlerts,
           NEW recent \in SUBSET groups,
           \A a \in hook[h].alerts : a.workload \in WorkloadsOf(groups),
           hook' = [hook EXCEPT ![h] = [hook[h] EXCEPT !.at = "post", !.groups = groups \ recent,
                                                       !.reused = WorkloadsOf(recent)]]
    PROVE  HookTypes' /\ AlertsKept'
<1> DEFINE row == [hook[h] EXCEPT !.at = "post", !.groups = groups \ recent,
                                  !.reused = WorkloadsOf(recent)]
<1>1. hook[h] \in HookStates BY DEF HookTypes
<1>2. WorkloadsOf(recent) \subseteq Workloads BY DEF WorkloadsOf, GroupsOfAlerts
<1>3. /\ row \in HookStates /\ row.at = "post" /\ row.alerts = hook[h].alerts
      /\ row.groups = groups \ recent /\ row.reused = WorkloadsOf(recent)
  BY <1>1, <1>2 DEF HookStates
<1> HIDE DEF row
<1>4. WorkloadsOf(groups) \subseteq row.reused \cup WorkloadsOf(row.groups)
  BY <1>3 DEF WorkloadsOf
<1>5. hook' = [hook EXCEPT ![h] = row] BY DEF row
<1>6. QED BY <1>3, <1>4, <1>5, HookStep

LEMMA GroupAlertsStep ==
    ASSUME HookTypes, AlertsKept, NEW h \in Hooks, GroupAlerts(h)
    PROVE  HookTypes' /\ AlertsKept'
<1>1. hook[h] \in HookStates /\ hook[h].at = "group" BY DEF HookTypes, GroupAlerts, AlertStep
<1>2. PICK bound \in Bindings(hook[h].alerts) :
          LET groups == IF setup.correlates THEN Groups(bound) ELSE Singles(bound)
              recent == {g \in groups : setup.correlates /\ alert.window[g.key] > 0}
          IN hook' = [hook EXCEPT ![h].at = "post", ![h].groups = groups \ recent,
                                  ![h].reused = UNION {g.workloads : g \in recent}]
  BY DEF GroupAlerts
<1> DEFINE groups == IF setup.correlates THEN Groups(bound) ELSE Singles(bound)
           recent == {g \in groups : setup.correlates /\ alert.window[g.key] > 0}
<1>3. /\ recent \in SUBSET groups
      /\ hook' = [hook EXCEPT ![h] = [hook[h] EXCEPT !.at = "post", !.groups = groups \ recent,
                                                     !.reused = WorkloadsOf(recent)]]
  BY <1>2 DEF HookTypes, WorkloadsOf
<1> HIDE DEF recent, groups
<1>4. /\ \A a \in Alerts : a.workload \in Workloads /\ a.key \in AlertKeys
      /\ hook[h].alerts \subseteq Alerts
  BY <1>1, DetectionAssumption DEF DetectionAssumption, AlertKeys, HookStates
<1>5. /\ \A b \in bound : b.workload \in Workloads /\ b.key \in AlertKeys
      /\ \A a \in hook[h].alerts : \E b \in bound : b.workload = a.workload
  <2>1. CASE bound = hook[h].alerts BY <1>4, <2>1
  <2>2. CASE bound # hook[h].alerts
    <3>1. PICK key \in [Workloads -> {a.key : a \in Alerts} \cup {"none"}] :
             bound = {IF key[a.workload] = "none" THEN a
                      ELSE [workload |-> a.workload, key |-> key[a.workload]] : a \in hook[h].alerts}
      BY <2>2 DEF Bindings
    <3>2. ASSUME NEW a \in hook[h].alerts
          PROVE  LET b == IF key[a.workload] = "none" THEN a
                          ELSE [workload |-> a.workload, key |-> key[a.workload]]
                 IN b.workload = a.workload /\ b.workload \in Workloads /\ b.key \in AlertKeys
      BY <1>4, <3>1 DEF AlertKeys
    <3>3. QED BY <3>1, <3>2
  <2>3. QED BY <2>1, <2>2
<1>6. CASE setup.correlates
  <2>1. groups = Groups(bound) BY <1>6 DEF groups
  <2>2. groups \in SUBSET GroupsOfAlerts BY <1>5, <2>1, GroupsTyped
  <2>3. \A a \in hook[h].alerts : a.workload \in WorkloadsOf(groups)
    BY <1>5, <2>1, GroupsCover
  <2>4. QED BY <1>3, <2>2, <2>3, GroupedRow
<1>7. CASE ~setup.correlates
  <2>1. groups = Singles(bound) BY <1>7 DEF groups
  <2>2. groups \in SUBSET GroupsOfAlerts
    <3>1. \A b \in bound : [key |-> b.workload, workloads |-> {b.workload}] \in GroupsOfAlerts
      <4>1. \A w \in Workloads : [key |-> w, workloads |-> {w}] \in GroupsOfAlerts
        BY DEF GroupsOfAlerts, AlertKeys
      <4>2. QED BY <1>5, <4>1
    <3>2. Singles(bound) = {[key |-> b.workload, workloads |-> {b.workload}] : b \in bound}
      BY DEF Singles
    <3>3. ASSUME NEW g \in Singles(bound) PROVE g \in GroupsOfAlerts
      <4>1. PICK b \in bound : g = [key |-> b.workload, workloads |-> {b.workload}] BY <3>2
      <4>2. QED BY <3>1, <4>1
    <3>4. QED BY <2>1, <3>3
  <2>3. ASSUME NEW a \in hook[h].alerts PROVE a.workload \in WorkloadsOf(groups)
    <3>1. PICK b \in bound : b.workload = a.workload BY <1>5
    <3> DEFINE g == [key |-> b.workload, workloads |-> {b.workload}]
    <3>2. g \in groups BY <2>1 DEF Singles
    <3>3. a.workload \in g.workloads BY <3>1
    <3> HIDE DEF g
    <3>4. QED BY <3>2, <3>3 DEF WorkloadsOf
  <2>4. QED BY <1>3, <2>2, <2>3, GroupedRow
<1>8. QED BY <1>6, <1>7

LEMMA NextHook == HookTypes /\ AlertsKept /\ [DetectionNext]_detectionVars => HookTypes' /\ AlertsKept'
<1> SUFFICES ASSUME HookTypes, AlertsKept, [DetectionNext]_detectionVars PROVE HookTypes' /\ AlertsKept'
  OBVIOUS
<1>1. CASE UNCHANGED hook BY <1>1 DEF HookTypes, AlertsKept
<1>2. ASSUME NEW h \in Hooks, ReceiveAlerts(h)
      PROVE  HookTypes' /\ AlertsKept'
  <2>1. PICK firing \in SUBSET Alerts :
             hook' = [hook EXCEPT ![h] = [NoHook EXCEPT !.at = "group", !.alerts = firing]]
    BY <1>2 DEF ReceiveAlerts
  <2> DEFINE row == [NoHook EXCEPT !.at = "group", !.alerts = firing]
  <2>2. row \in HookStates /\ row.at = "group" BY DEF NoHook, HookStates
  <2> HIDE DEF row
  <2>3. QED BY <2>1, <2>2, HookStep DEF row
<1>3. ASSUME NEW h \in Hooks, GroupAlerts(h)
      PROVE  HookTypes' /\ AlertsKept'
  BY <1>3, GroupAlertsStep
<1>4. ASSUME NEW h \in Hooks, PostGroup(h)
      PROVE  HookTypes' /\ AlertsKept'
  <2>1. hook[h] \in HookStates /\ hook[h].at = "post" BY <1>4 DEF HookTypes, PostGroup, AlertStep
  <2>2. PICK g \in hook[h].groups :
             hook' = [hook EXCEPT ![h].groups = @ \ {g}, ![h].posted = @ \cup {g}]
    BY <1>4 DEF PostGroup
  <2> DEFINE row == [hook[h] EXCEPT !.groups = @ \ {g}, !.posted = @ \cup {g}]
  <2>3. hook' = [hook EXCEPT ![h] = row] BY <2>2 DEF HookTypes
  <2>4. /\ row \in HookStates /\ row.at = "post" /\ row.alerts = hook[h].alerts
        /\ row.reused = hook[h].reused
        /\ row.groups = hook[h].groups \ {g} /\ row.posted = hook[h].posted \cup {g}
    BY <2>1, <2>2 DEF HookStates
  <2> HIDE DEF row
  <2>5. WorkloadsOf(hook[h].groups) \cup WorkloadsOf(hook[h].posted)
            \subseteq WorkloadsOf(row.groups) \cup WorkloadsOf(row.posted)
    BY <2>4 DEF WorkloadsOf
  <2>6. \A a \in row.alerts :
            a.workload \in row.reused \cup WorkloadsOf(row.groups) \cup WorkloadsOf(row.posted)
    BY <2>1, <2>4, <2>5 DEF AlertsKept
  <2>7. QED BY <2>3, <2>4, <2>6, HookStep
<1>5. ASSUME NEW h \in Hooks, Respond(h)
      PROVE  HookTypes' /\ AlertsKept'
  <2>1. hook[h] \in HookStates /\ hook[h].at = "post" /\ hook[h].groups = {}
    BY <1>5 DEF HookTypes, Respond, AlertStep
  <2> DEFINE row == [hook[h] EXCEPT !.at = "done"]
  <2>2. hook' = [hook EXCEPT ![h] = row] BY <1>5 DEF Respond, HookTypes
  <2>3. /\ row \in HookStates /\ row.at = "done" /\ row.alerts = hook[h].alerts
        /\ row.reused = hook[h].reused /\ row.groups = {} /\ row.posted = hook[h].posted
    BY <2>1 DEF HookStates
  <2> HIDE DEF row
  <2>4. \A a \in row.alerts :
            a.workload \in row.reused \cup WorkloadsOf(row.groups) \cup WorkloadsOf(row.posted)
    BY <2>1, <2>3 DEF AlertsKept
  <2>5. QED BY <2>2, <2>3, <2>4, HookStep
<1>6. ASSUME NEW h \in Hooks, Forget(h)
      PROVE  HookTypes' /\ AlertsKept'
  <2>1. NoHook \in HookStates /\ NoHook.at = "idle" BY DEF NoHook, HookStates
  <2>2. hook' = [hook EXCEPT ![h] = NoHook] BY <1>6 DEF Forget
  <2>3. QED BY <2>1, <2>2, HookStep
<1>7. ASSUME NEW h \in Hooks, Webhook(h)
      PROVE  HookTypes' /\ AlertsKept'
  BY <1>2, <1>3, <1>4, <1>5, <1>6, <1>7 DEF Webhook
<1>8. CASE UNCHANGED detectionVars BY <1>1, <1>8 DEF detectionVars
<1>9. CASE \E p \in PodSet : PodChanges(p) \/ HandleKubeEvent(p) \/ ResetAttempts(p)
  BY <1>1, <1>9 DEF PodChanges, HandleKubeEvent, ResetAttempts
<1>10. CASE (\E w \in Workloads : OperatorIgnores(w)) \/ Tick \/ PollPods
  BY <1>1, <1>10 DEF OperatorIgnores, Tick, PollPods
<1>11. CASE \E t \in Reports : Report(t)
  BY <1>1, <1>11
  DEF Report, TaskStep, CheckIgnored, FireAnomaly, RunAnalysis, Told, ReadBreaker, MarkEscalated,
      Diagnose, ReadToIncrement, CreateCR, PatchAttempts, Ask
<1>12. CASE Sweep BY <1>1, <1>12 DEF Sweep, StartSweep, NextItem, SweepPost
<1>13. QED BY <1>7, <1>8, <1>9, <1>10, <1>11, <1>12 DEF DetectionNext, Reports

\* Every alert the webhook accepted and put into its cooldown is about a workload of a run it
\* asked for, or of a group passed over for a recent incident of its key, whatever keys the graph
\* binds the alerts to and whatever other requests wrote into the windows meanwhile.
THEOREM AcceptedAlertsAreAnswered == DetectionSpec => []AlertsAnswered
<1>1. HookTypes /\ AlertsKept => AlertsAnswered
  BY DEF AlertsKept, AlertsAnswered, WorkloadsOf
<1>2. QED BY <1>1, InitHook, NextHook, PTL DEF DetectionSpec

-----------------------------------------------------------------------------
(* Branches and their content *)

Histories == Seq(Commits)

Adds(branch, c) == \E i \in DOMAIN branch : c \in branch[i].add
Deletes(branch, c) == \E i \in DOMAIN branch : c \in branch[i].del

LEMMA ContentIsAdded ==
    ASSUME NEW branch, NEW c \in Content(branch)
    PROVE  c \in Changes /\ Adds(branch, c)
  BY DEF Content, Adds

LEMMA UndeletedIsContent ==
    ASSUME NEW branch, NEW c \in Changes, Adds(branch, c), ~Deletes(branch, c)
    PROVE  c \in Content(branch)
  BY DEF Content, Adds, Deletes

LEMMA AppendedContent ==
    ASSUME NEW branch \in Histories, NEW commit \in Commits
    PROVE  /\ Append(branch, commit) \in Histories
           /\ \A c : Adds(Append(branch, commit), c) <=> Adds(branch, c) \/ c \in commit.add
           /\ \A c : Deletes(Append(branch, commit), c) <=> Deletes(branch, c) \/ c \in commit.del
           /\ Content(Append(branch, commit)) = (Content(branch) \ commit.del) \cup commit.add
<1> DEFINE longer == Append(branch, commit)
<1>1. /\ longer \in Histories /\ Len(longer) = Len(branch) + 1 /\ Len(branch) \in Nat
      /\ DOMAIN branch = 1..Len(branch) /\ DOMAIN longer = 1..(Len(branch) + 1)
      /\ \A i \in 1..Len(branch) : longer[i] = branch[i]
      /\ longer[Len(branch) + 1] = commit
  BY AppendProperties, LenProperties DEF Histories
<1>2. commit.add \subseteq Changes BY DEF Commits
<1> HIDE DEF longer
<1>3. \A c : Adds(longer, c) <=> Adds(branch, c) \/ c \in commit.add
  BY <1>1 DEF Adds
<1>4. \A c : Deletes(longer, c) <=> Deletes(branch, c) \/ c \in commit.del
  BY <1>1 DEF Deletes
<1>5. ASSUME NEW c \in Changes
      PROVE  c \in Content(longer) <=> c \in commit.add \/ (c \in Content(branch) /\ c \notin commit.del)
  <2>1. CASE c \in commit.add
    <3>1. Len(branch) + 1 \in DOMAIN longer
          /\ \A j \in DOMAIN longer : j > Len(branch) + 1 => c \notin longer[j].del
      BY <1>1
    <3>2. QED BY <1>1, <2>1, <3>1 DEF Content
  <2>2. CASE c \notin commit.add
    <3>1. ASSUME c \in Content(longer)
          PROVE  c \in Content(branch) /\ c \notin commit.del
      <4>1. PICK i \in DOMAIN longer :
                 c \in longer[i].add /\ \A j \in DOMAIN longer : j > i => c \notin longer[j].del
        BY <3>1 DEF Content
      <4>2. i \in DOMAIN branch BY <1>1, <2>2, <4>1
      <4>3. c \in branch[i].add /\ \A j \in DOMAIN branch : j > i => c \notin branch[j].del
        BY <1>1, <4>1, <4>2
      <4>4. c \notin commit.del BY <1>1, <4>1, <4>2
      <4>5. QED BY <4>2, <4>3, <4>4 DEF Content
    <3>2. ASSUME c \in Content(branch), c \notin commit.del
          PROVE  c \in Content(longer)
      <4>1. PICK i \in DOMAIN branch :
                 c \in branch[i].add /\ \A j \in DOMAIN branch : j > i => c \notin branch[j].del
        BY <3>2 DEF Content
      <4>2. i \in DOMAIN longer /\ c \in longer[i].add BY <1>1, <4>1
      <4>3. \A j \in DOMAIN longer : j > i => c \notin longer[j].del BY <1>1, <3>2, <4>1
      <4>4. QED BY <4>2, <4>3 DEF Content
    <3>3. QED BY <2>2, <3>1, <3>2
  <2>3. QED BY <2>1, <2>2
<1>6. Content(longer) = (Content(branch) \ commit.del) \cup commit.add
  BY <1>2, <1>5 DEF Content
<1>7. QED BY <1>1, <1>3, <1>4, <1>6 DEF longer

\* What a rebase replays is every commit that is not there already, and nothing else.
LEMMA MissingCommits ==
    ASSUME NEW branch \in Histories, NEW other
    PROVE  /\ Missing(branch, other) \in Histories
           /\ ToSet(Missing(branch, other)) = {c \in ToSet(branch) : c \notin ToSet(other)}
<1> DEFINE places == {i \in DOMAIN branch : branch[i] \notin ToSet(other)}
           Rank(i) == Cardinality({j \in places : j <= i})
           n == Cardinality(places)
           Place(k) == CHOOSE i \in places : Rank(i) = k
<1>1. DOMAIN branch = 1..Len(branch) /\ Len(branch) \in Nat
      /\ \A i \in DOMAIN branch : branch[i] \in Commits
  BY LenProperties, ElementOfSeq DEF Histories
<1>2. IsFiniteSet(places) /\ n \in Nat /\ places \subseteq Nat
  <2>1. places \subseteq 1..Len(branch) BY <1>1
  <2>2. IsFiniteSet(1..Len(branch)) BY <1>1, FS_Interval
  <2> HIDE DEF places
  <2>3. IsFiniteSet(places) BY <2>1, <2>2, FS_Subset
  <2>4. QED BY <2>1, <2>3, FS_CardinalityType
<1>3. Missing(branch, other) = [k \in 1..n |-> branch[Place(k)]]
  BY DEF Missing
<1>4. \A i \in places : Rank(i) \in 1..n
  <2> SUFFICES ASSUME NEW i \in places PROVE Rank(i) \in 1..n OBVIOUS
  <2> DEFINE upto == {j \in places : j <= i}
  <2>1. upto \subseteq places /\ i \in upto BY <1>2
  <2>2. IsFiniteSet(upto) /\ Cardinality(upto) \in Nat /\ Cardinality(upto) <= n
    BY <1>2, <2>1, FS_Subset, FS_CardinalityType
  <2>3. Cardinality(upto) # 0 BY <2>1, <2>2, FS_EmptySet
  <2>4. QED BY <1>2, <2>2, <2>3
<1>5. \A i, j \in places : i < j => Rank(i) < Rank(j)
  <2> SUFFICES ASSUME NEW i \in places, NEW j \in places, i < j PROVE Rank(i) < Rank(j)
    OBVIOUS
  <2> DEFINE low == {k \in places : k <= i}
             high == {k \in places : k <= j}
  <2>1. low \subseteq high /\ j \in high /\ j \notin low BY <1>2
  <2>2. high \subseteq places OBVIOUS
  <2>3. IsFiniteSet(high) BY <1>2, <2>2, FS_Subset
  <2> HIDE DEF low, high
  <2>4. Cardinality(low) <= Cardinality(high) /\ Cardinality(low) # Cardinality(high)
    BY <2>1, <2>3, FS_Subset
  <2>5. Cardinality(low) \in Nat /\ Cardinality(high) \in Nat
    BY <2>1, <2>3, FS_Subset, FS_CardinalityType
  <2>6. Cardinality(low) < Cardinality(high) BY <2>4, <2>5
  <2>7. QED BY <2>6 DEF low, high
<1> DEFINE rank == [i \in places |-> Rank(i)]
<1>6. rank \in [places -> 1..n] BY <1>4
<1>7. \A i, j \in places : rank[i] = rank[j] => i = j
  <2> SUFFICES ASSUME NEW i \in places, NEW j \in places, Rank(i) = Rank(j) PROVE i = j
    OBVIOUS
  <2>1. i \in Nat /\ j \in Nat /\ Rank(i) \in 1..n BY <1>2, <1>4
  <2>2. i < j \/ j < i \/ i = j BY <2>1
  <2> HIDE DEF Rank
  <2>3. QED BY <1>5, <2>1, <2>2
<1> HIDE DEF rank
<1>8. rank \in Surjection(places, 1..n)
  <2>1. rank \in Injection(places, 1..n) BY <1>6, <1>7, Fun_IsInj
  <2>2. IsFiniteSet(1..n) /\ Cardinality(1..n) = n BY <1>2, FS_Interval
  <2>3. QED BY <1>2, <2>1, <2>2, FS_Injection
<1>9. ASSUME NEW k \in 1..n PROVE Place(k) \in places /\ Rank(Place(k)) = k
  <2>1. PICK i \in places : rank[i] = k BY <1>8 DEF Surjection
  <2>2. Rank(i) = k BY <2>1 DEF rank
  <2> HIDE DEF Rank, places
  <2>3. QED BY <2>1, <2>2
<1>10. Missing(branch, other) \in Histories
       /\ DOMAIN Missing(branch, other) = 1..n
  <2>1. \A k \in 1..n : branch[Place(k)] \in Commits BY <1>1, <1>9
  <2>2. Missing(branch, other) \in [1..n -> Commits] BY <1>3, <2>1
  <2>3. QED BY <1>2, <2>2, SeqDef DEF Histories
<1>11. ASSUME NEW i \in places PROVE branch[i] \in ToSet(Missing(branch, other))
  <2>1. Rank(i) \in 1..n BY <1>4
  <2>2. Place(Rank(i)) \in places /\ Rank(Place(Rank(i))) = Rank(i) BY <1>9, <2>1
  <2>3. Place(Rank(i)) = i BY <1>7, <2>2 DEF rank
  <2>4. Missing(branch, other)[Rank(i)] = branch[i] BY <1>3, <2>1, <2>3
  <2>5. QED BY <1>10, <2>1, <2>4 DEF ToSet
<1>12. ToSet(Missing(branch, other)) \subseteq {branch[i] : i \in places}
  <2> SUFFICES ASSUME NEW k \in 1..n
               PROVE  Missing(branch, other)[k] \in {branch[i] : i \in places}
    BY <1>10 DEF ToSet
  <2>1. Missing(branch, other)[k] = branch[Place(k)] BY <1>3
  <2>2. Place(k) \in places BY <1>9
  <2> HIDE DEF Place, places
  <2>3. QED BY <2>1, <2>2
<1>13. {branch[i] : i \in places} = {c \in ToSet(branch) : c \notin ToSet(other)}
  BY DEF ToSet
<1>14. QED BY <1>10, <1>11, <1>12, <1>13

\* A branch with the missing commits of another one after its own.
LEMMA Rebased ==
    ASSUME NEW base \in Histories, NEW branch \in Histories
    PROVE  LET new == base \o Missing(branch, base)
           IN /\ new \in Histories
              /\ \A c : Adds(new, c) <=> Adds(base, c) \/ Adds(branch, c)
              /\ \A c : Deletes(new, c) => Deletes(base, c) \/ Deletes(branch, c)
<1> DEFINE ahead == Missing(branch, base)
           new == base \o ahead
<1>1. /\ ahead \in Histories
      /\ \A x : x \in ToSet(ahead) <=> x \in ToSet(branch) /\ x \notin ToSet(base)
  BY MissingCommits
<1> HIDE DEF ahead
<1>2. /\ new \in Histories /\ Len(new) = Len(base) + Len(ahead)
      /\ \A i \in 1 .. Len(base) + Len(ahead) :
             new[i] = IF i <= Len(base) THEN base[i] ELSE ahead[i - Len(base)]
  BY <1>1, ConcatProperties DEF Histories
<1>3. /\ DOMAIN new = 1..(Len(base) + Len(ahead))
      /\ DOMAIN base = 1..Len(base) /\ DOMAIN ahead = 1..Len(ahead)
      /\ Len(base) \in Nat /\ Len(ahead) \in Nat
  BY <1>1, <1>2, LenProperties DEF Histories
<1> HIDE DEF new
<1>4. \A x : x \in ToSet(new) <=> x \in ToSet(base) \/ x \in ToSet(branch)
  <2>1. ASSUME NEW i \in DOMAIN new PROVE new[i] \in ToSet(base) \/ new[i] \in ToSet(branch)
    <3>1. CASE i <= Len(base) BY <1>2, <1>3, <3>1 DEF ToSet
    <3>2. CASE i > Len(base)
      <4>1. i - Len(base) \in DOMAIN ahead /\ new[i] = ahead[i - Len(base)]
        BY <1>2, <1>3, <3>2
      <4>2. new[i] \in ToSet(ahead) BY <4>1 DEF ToSet
      <4>3. QED BY <1>1, <4>2
    <3>3. QED BY <1>3, <3>1, <3>2
  <2>2. ASSUME NEW i \in DOMAIN base PROVE base[i] \in ToSet(new)
    <3>1. i \in DOMAIN new /\ new[i] = base[i] BY <1>2, <1>3
    <3>2. QED BY <3>1 DEF ToSet
  <2>3. ASSUME NEW x \in ToSet(ahead) PROVE x \in ToSet(new)
    <3>1. PICK i \in DOMAIN ahead : ahead[i] = x BY DEF ToSet
    <3>2. i + Len(base) \in DOMAIN new /\ new[i + Len(base)] = x BY <1>2, <1>3, <3>1
    <3>3. QED BY <3>2 DEF ToSet
  <2>4. QED BY <1>1, <2>1, <2>2, <2>3 DEF ToSet
<1>5. \A b, c : Adds(b, c) <=> \E x \in ToSet(b) : c \in x.add BY DEF Adds, ToSet
<1>6. \A b, c : Deletes(b, c) <=> \E x \in ToSet(b) : c \in x.del BY DEF Deletes, ToSet
<1>7. QED BY <1>2, <1>4, <1>5, <1>6 DEF new, ahead

LEMMA PrefixElements ==
    ASSUME NEW s \in Histories, NEW t \in Histories, IsPrefix(s, t)
    PROVE  /\ Len(s) <= Len(t)
           /\ \A i \in DOMAIN s : i \in DOMAIN t /\ t[i] = s[i]
<1>1. /\ Len(s) \in Nat /\ DOMAIN s = 1..Len(s) /\ \A i \in 1..Len(s) : s[i] \in Commits
      /\ Len(t) \in Nat /\ DOMAIN t = 1..Len(t) /\ \A i \in 1..Len(t) : t[i] \in Commits
  BY LenProperties, ElementOfSeq DEF Histories
<1>2. Len(s) <= Len(t) /\ SubSeq(s, 1, Len(s)) = SubSeq(t, 1, Len(s)) BY DEF IsPrefix
<1>3. \A i \in 1..Len(s) : SubSeq(s, 1, Len(s))[i] = s[i]
  BY <1>1, SubSeqProperties
<1>4. \A i \in 1..Len(s) : SubSeq(t, 1, Len(s))[i] = t[i]
  <2>1. \A i \in 1..Len(s) : t[i] \in Commits BY <1>1, <1>2
  <2>2. \A i \in 1..(Len(s) - 1 + 1) : SubSeq(t, 1, Len(s))[i] = t[1 + i - 1]
    BY <1>1, <2>1, SubSeqProperties
  <2>3. QED BY <1>1, <2>2
<1>5. QED BY <1>1, <1>2, <1>3, <1>4

\* What is on a branch is on every branch it is a prefix of, unless it is deleted there.
LEMMA PrefixAdds ==
    ASSUME NEW s \in Histories, NEW t \in Histories, IsPrefix(s, t), NEW c, Adds(s, c)
    PROVE  Adds(t, c)
  BY PrefixElements DEF Adds

\* A branch is no prefix of one that lacks a commit of it; nor is a longer one.
LEMMA NoPrefix ==
    ASSUME NEW s \in Histories, NEW t \in Histories
    PROVE  /\ (\E x \in ToSet(s) : x \notin ToSet(t)) => ~IsPrefix(s, t)
           /\ \A k \in Commits : ~IsPrefix(s, t) => ~IsPrefix(Append(s, k), t)
<1>1. ASSUME NEW x \in ToSet(s), x \notin ToSet(t), IsPrefix(s, t)
      PROVE  FALSE
  BY <1>1, PrefixElements DEF ToSet
<1>2. ASSUME NEW k \in Commits, IsPrefix(Append(s, k), t)
      PROVE  IsPrefix(s, t)
  <2> DEFINE longer == Append(s, k)
  <2>1. /\ longer \in Histories /\ Len(longer) = Len(s) + 1
        /\ \A i \in 1..Len(s) : longer[i] = s[i]
        /\ Len(s) \in Nat /\ DOMAIN s = 1..Len(s) /\ \A i \in 1..Len(s) : s[i] \in Commits
        /\ Len(t) \in Nat
    BY AppendProperties, LenProperties, ElementOfSeq DEF Histories
  <2> HIDE DEF longer
  <2>2. Len(longer) <= Len(t) /\ \A i \in DOMAIN longer : t[i] = longer[i]
    BY <1>2, <2>1, PrefixElements DEF longer
  <2>3. DOMAIN longer = 1..Len(longer) BY <2>1, LenProperties DEF Histories
  <2>4. Len(s) <= Len(t) /\ \A i \in 1..Len(s) : t[i] = s[i] BY <2>1, <2>2, <2>3
  <2>5. SubSeq(s, 1, Len(s)) = SubSeq(t, 1, Len(s))
    <3>1. \A i \in 1..Len(s) : t[i] \in Commits BY <2>1, <2>4
    <3>2. /\ SubSeq(s, 1, Len(s)) \in Histories /\ SubSeq(t, 1, Len(s)) \in Histories
          /\ Len(SubSeq(s, 1, Len(s))) = Len(s) /\ Len(SubSeq(t, 1, Len(s))) = Len(s)
          /\ \A i \in 1..Len(s) : SubSeq(s, 1, Len(s))[i] = s[i]
          /\ \A i \in 1..Len(s) : SubSeq(t, 1, Len(s))[i] = t[i]
      <4>1. \A u : (\A i \in 1..Len(s) : u[i] \in Commits) =>
                /\ SubSeq(u, 1, Len(s)) \in Histories
                /\ Len(SubSeq(u, 1, Len(s))) = IF 1 <= Len(s) THEN Len(s) - 1 + 1 ELSE 0
                /\ \A i \in 1..(Len(s) - 1 + 1) : SubSeq(u, 1, Len(s))[i] = u[1 + i - 1]
        BY <2>1, SubSeqProperties DEF Histories
      <4>2. QED BY <2>1, <3>1, <4>1
    <3>3. QED BY <2>4, <3>2, SeqEqual DEF Histories
  <2>6. QED BY <2>4, <2>5 DEF IsPrefix
<1>3. QED BY <1>1, <1>2

-----------------------------------------------------------------------------
(* What the variables hold *)

Stages == Steps \cup {"none", "done", "lost"}

RequestStates ==
    [at: Stages, action: Actions, target: Targets, brings: Brought, undoes: Changes,
     read: SUBSET Changes, sha: Changes, prev: Histories, polls: 0..MaxPolls,
     todo: SUBSET {"deployment", "helm"}, ok: BOOLEAN]

Mirrors ==
    [branch: Branches, local: [Branches -> Histories], files: SUBSET Changes,
     index: SUBSET Changes, tracked: Histories]

Remotes == UNION {[B -> Histories] : B \in {X \in SUBSET Branches : "main" \in X}}

Clusters == [patched: SUBSET Requests, applied: SUBSET Requests, deployment: BOOLEAN, helm: BOOLEAN]

Types ==
    /\ env \in Scenarios /\ req \in [Requests -> RequestStates] /\ mirror \in Mirrors
    /\ remote \in Remotes /\ cluster \in Clusters /\ met \in [Requests -> SUBSET Requests]
    /\ restarts \in 0..MaxRestarts

-----------------------------------------------------------------------------
(* Requests *)

RevertSteps == {"revsync", "revert", "revlog", "revpush"}
UndeploySteps == {"snapshot", "uninstall", "again", "delete", "check"}

\* The handler a step belongs to; what it read is of its own manifest.
OnItsWay(r) ==
    /\ req[r].at = "none" => req[r].action = "git_patch" /\ met[r] = {}
    /\ req[r].at \in RevertSteps => req[r].action = "git_revert" /\ req[r].undoes \in Requests
    /\ req[r].at \in UndeploySteps => req[r].action = "undeploy"
    /\ req[r].at = "probe" => req[r].action \in {"helm_deploy", "repo_apply"}
    /\ req[r].at \in Steps /\ req[r].action \in {"helm_deploy", "repo_apply"} =>
          req[r].brings \in {"generated", "chart", "manifest"}
    /\ req[r].at = "kubectl" => req[r].brings = "manifest"
    /\ req[r].at \in {"branch", "back"} => env.set.pr
    /\ req[r].at \in {"branch", "write"} =>
          r \in req[r].read /\ \A c \in req[r].read : env.manifest[c] = env.manifest[r]

\* Two requests that are served have met.
Acquainted == \A q, r \in Requests : Active(q) /\ Active(r) /\ q # r => q \in met[r]

\* Without pull requests the tree leaves the main branch only for a conflict; and then nothing is
\* pushed any more, since the remote has what the branch lacks.
ConflictsStay ==
    ~env.set.pr =>
        /\ mirror.branch \in {"main", "detached"}
        /\ mirror.branch = "detached" /\ (\A q \in Requests : req[q].action # "git_revert") =>
              ~IsPrefix(remote["main"], mirror.local["main"])

RequestsInv == Acquainted /\ ConflictsStay /\ \A r \in Requests : OnItsWay(r)

-----------------------------------------------------------------------------
(* Changes that land *)

NotAdded(c) ==
    /\ \A b \in Branches : ~Adds(mirror.local[b], c)
    /\ \A b \in DOMAIN remote : ~Adds(remote[b], c)

NotDeleted(c) ==
    /\ \A b \in Branches : ~Deletes(mirror.local[b], c)
    /\ \A b \in DOMAIN remote : ~Deletes(remote[b], c)

Unwritten == {"none", "head", "cluster", "app", "sync", "read", "branch", "write"}
OnRemote(c) == \E b \in DOMAIN remote : c \in Content(remote[b])

\* How far a change is: in no tree; in the file; in the index; on the branch; on the remote.  Nothing
\* that is committed takes it away.
Untouched(r) == r \notin mirror.files /\ r \notin mirror.index /\ NotAdded(r) /\ NotDeleted(r)

InFile(r) == r \in mirror.files /\ r \notin mirror.index /\ NotAdded(r) /\ NotDeleted(r)

Kept(r) == NotDeleted(r) /\ (r \in Content(HEAD) => r \in mirror.index)

InIndex(r) == Kept(r) /\ (mirror.branch # "detached" => r \in mirror.index)

OnBranch(r) == Kept(r) /\ (mirror.branch # "detached" => r \in Content(HEAD))

Landed(r) == Kept(r) /\ (env.set.repo => OnRemote(r))

ChangeOnItsWay(r) ==
    /\ req[r].at \in Unwritten =>
          Untouched(r) /\ \A q \in Requests \ {r} : r \notin req[q].read
    /\ req[r].at = "add" => InFile(r)
    /\ req[r].at = "commit" => InIndex(r)
    /\ req[r].at \in {"log", "push"} => OnBranch(r)
    /\ req[r].at = "back" => Landed(r)
    /\ req[r].at = "argo" /\ ~OnlyReported(r) => Landed(r) \/ r \in cluster.applied
    /\ req[r].at \in {"write", "add", "commit", "log", "push", "back"} /\ env.set.pr =>
          mirror.branch = r

ChangesInv == \A r \in Requests : ~Disturbed(r) => ChangeOnItsWay(r)

-----------------------------------------------------------------------------
(* Changes that stay *)

\* No revert was asked for and no requests were served together.
Quiet == \A r \in Requests : req[r].action # "git_revert" /\ met[r] = {}

\* The changes whose manifest no registration takes.
Lasting == {c \in Changes : ~Replaced(c)}

\* Then the index holds all of them that the branch does, and the files all that the index does, so
\* that a commit removes none.
NothingLost ==
    /\ \A c \in Lasting : NotDeleted(c)
    /\ Content(HEAD) \cap Lasting \subseteq mirror.index
    /\ mirror.index \cap Lasting \subseteq mirror.files
    /\ \A r \in Requests :
          req[r].at \in {"branch", "write"} =>
              In(mirror.files, env.manifest[r]) \cap Lasting \subseteq req[r].read

GrowthInv == Quiet => NothingLost

-----------------------------------------------------------------------------
(* What a step does to a request *)

\* The request is the one that moves, its kind stays, and at most it reads its manifest.
SameRequest(r) ==
    /\ req' \in [Requests -> RequestStates] /\ \A q \in Requests \ {r} : req'[q] = req[q]
    /\ req'[r].action = req[r].action /\ req'[r].brings = req[r].brings
    /\ req'[r].undoes = req[r].undoes

LEMMA GotoMoves ==
    ASSUME Types, NEW r \in Requests, NEW at \in Steps, Goto(r, at)
    PROVE  SameRequest(r) /\ req'[r].at = at /\ req'[r].read = req[r].read
<1> DEFINE row == [req[r] EXCEPT !.at = at]
<1>1. req[r] \in RequestStates BY DEF Types
<1>2. row \in RequestStates /\ row.action = req[r].action /\ row.brings = req[r].brings
      /\ row.undoes = req[r].undoes /\ row.at = at /\ row.read = req[r].read
  BY <1>1 DEF RequestStates, Stages
<1>3. req' = [req EXCEPT ![r] = row] BY DEF Goto
<1> HIDE DEF row
<1>4. QED BY <1>2, <1>3 DEF Types, SameRequest

LEMMA FinishMoves ==
    ASSUME Types, NEW r \in Requests, NEW ok \in BOOLEAN, Finish(r, ok)
    PROVE  SameRequest(r) /\ req'[r].at = "done" /\ req'[r].read = {} /\ req'[r].ok = ok
<1> DEFINE row == [req[r] EXCEPT !.at = "done", !.ok = ok, !.read = {},
                                 !.sha = IF ok THEN @ ELSE Developer, !.todo = {}]
<1>1. req[r] \in RequestStates BY DEF Types
<1>2. row \in RequestStates /\ row.action = req[r].action /\ row.brings = req[r].brings
      /\ row.undoes = req[r].undoes /\ row.at = "done" /\ row.read = {} /\ row.ok = ok
  BY <1>1 DEF RequestStates, Stages, Changes
<1>3. req' = [req EXCEPT ![r] = row] BY DEF Finish, Types
<1> HIDE DEF row
<1>4. QED BY <1>2, <1>3 DEF Types, SameRequest

LEMMA ThrowMoves ==
    ASSUME Types, NEW r \in Requests, Throw(r)
    PROVE  /\ SameRequest(r) /\ req'[r].read \in {req[r].read, {}}
           /\ req'[r].at = "hotfix" \/ (req'[r].at = "done" /\ ~req'[r].ok)
<1> DEFINE row == [req[r] EXCEPT !.at = "hotfix", !.sha = Developer]
<1>1. req[r] \in RequestStates BY DEF Types
<1>2. row \in RequestStates /\ row.action = req[r].action /\ row.brings = req[r].brings
      /\ row.undoes = req[r].undoes /\ row.at = "hotfix" /\ row.read = req[r].read
  BY <1>1 DEF RequestStates, Stages, Steps, Changes
<1>3. req' = [req EXCEPT ![r] = row] \/ Finish(r, FALSE) BY DEF Throw, Types
<1>4. ASSUME req' = [req EXCEPT ![r] = row]
      PROVE  SameRequest(r) /\ req'[r].read = req[r].read /\ req'[r].at = "hotfix"
  <2> HIDE DEF row
  <2>1. QED BY <1>2, <1>4 DEF Types, SameRequest
<1>5. QED BY <1>3, <1>4, FinishMoves

\* The chart or the manifest was applied directly.
Direct(r) ==
    \/ req[r].at \in {"plain", "template", "upgrade"} /\ r \in cluster'.applied
    \/ req[r].at = "kubectl" /\ (env.set.dryRun \/ r \in cluster'.applied)

\* What a step reads it reads of its own manifest, and where it goes depends on where it is.
MayFollow(r) ==
    /\ SameRequest(r)
    /\ \/ req'[r].read \in {req[r].read, {}}
       \/ req[r].at = "read" /\ req'[r].read = Patched(r)
    /\ req[r].at \in Steps /\ req'[r].at # "none"
    /\ req'[r].at \in RevertSteps => req[r].at \in RevertSteps
    /\ req'[r].at \in UndeploySteps => req[r].at \in UndeploySteps
    /\ req'[r].at = "probe" => req[r].action = "helm_deploy"
    /\ req'[r].at = "kubectl" => req[r].brings = "manifest"
    /\ req'[r].at \in Unwritten => req[r].at \in Unwritten \ {"write"}
    /\ req'[r].at = "branch" => req[r].at = "read" /\ env.set.pr
                                /\ req'[r].read = Patched(r)
    /\ req'[r].at = "write" =>
          \/ req[r].at = "read" /\ ~env.set.pr /\ req'[r].read = Patched(r)
          \/ req[r].at = "branch" /\ req'[r].read = req[r].read
    /\ req'[r].at = "add" => req[r].at = "write"
    /\ req'[r].at = "commit" => req[r].at = "add"
    /\ req'[r].at = "log" => req[r].at = "commit"
    /\ req'[r].at = "push" => req[r].at = "log"
    /\ req'[r].at = "back" => req[r].at = "push" /\ env.set.pr
    /\ req'[r].at = "argo" =>
          \/ req[r].at \in {"argo", "back"}
          \/ req[r].at = "push" /\ ~env.set.pr
          \/ req[r].at = "head" /\ req[r].brings = "nothing"
          \/ Direct(r)

\* Where a success can come from.
SuccessFrom(r) ==
    req'[r].at = "done" /\ req'[r].ok =>
        \/ req[r].at \in {"cluster", "hotfix"} /\ r \in cluster'.patched
        \/ req[r].at = "push" /\ ~env.set.pr
        \/ req[r].at = "head" /\ req[r].brings = "nothing"
        \/ Direct(r)
        \/ req[r].at \in {"back", "argo", "revpush", "check"}

Moves(r) ==
    /\ MayFollow(r) /\ SuccessFrom(r)
    /\ cluster' \in Clusters /\ cluster.applied \subseteq cluster'.applied

LEMMA ConcludeMoves ==
    ASSUME Types, NEW r \in Requests, Conclude(r)
    PROVE  /\ SameRequest(r) /\ req'[r].read \in {req[r].read, {}}
           /\ req'[r].at = "argo" \/ (req'[r].at = "done" /\ req'[r].ok)
<1>1. "argo" \in Steps BY DEF Steps
<1>2. Goto(r, "argo") \/ Finish(r, TRUE) BY DEF Conclude
<1>3. QED BY <1>1, <1>2, GotoMoves, FinishMoves

LEMMA AfterMirrorMoves ==
    ASSUME Types, NEW r \in Requests, AfterMirror(r), req[r].at \in {"push", "back"},
           UNCHANGED cluster
    PROVE  Moves(r)
<1>1. \/ env.set.pr /\ req[r].at = "push" /\ Goto(r, "back")
      \/ ~(env.set.pr /\ req[r].at = "push") /\ Goto(r, "argo")
      \/ ~(env.set.pr /\ req[r].at = "push") /\ Finish(r, TRUE)
  BY DEF AfterMirror, Conclude
<1>2. "back" \in Steps /\ "argo" \in Steps BY DEF Steps
<1> USE DEF Moves, MayFollow, SuccessFrom, Unwritten, RevertSteps, UndeploySteps, Types, Steps
<1>3. CASE env.set.pr /\ req[r].at = "push" /\ Goto(r, "back")
  BY <1>2, <1>3, GotoMoves
<1>4. CASE ~(env.set.pr /\ req[r].at = "push") /\ Goto(r, "argo")
  BY <1>2, <1>4, GotoMoves
<1>5. CASE ~(env.set.pr /\ req[r].at = "push") /\ Finish(r, TRUE)
  BY <1>5, FinishMoves
<1>6. QED BY <1>1, <1>3, <1>4, <1>5

-----------------------------------------------------------------------------
(* What a sync does to the tree *)

LEMMA MirrorTypes ==
    ASSUME Types
    PROVE  /\ mirror \in Mirrors /\ mirror.branch \in Branches
           /\ mirror.local \in [Branches -> Histories] /\ HEAD \in Histories
           /\ mirror.files \subseteq Changes /\ mirror.index \subseteq Changes
           /\ mirror.tracked \in Histories
           /\ "main" \in DOMAIN remote /\ DOMAIN remote \subseteq Branches
           /\ \A b \in DOMAIN remote : remote[b] \in Histories
           /\ remote = [b \in DOMAIN remote |-> remote[b]]
  BY DEF Types, Mirrors, Remotes, HEAD

LEMMA RemoteTypes ==
    ASSUME NEW f, f = [b \in DOMAIN f |-> f[b]], "main" \in DOMAIN f, DOMAIN f \subseteq Branches,
           \A b \in DOMAIN f : f[b] \in Histories
    PROVE  f \in Remotes
<1>1. f \in [DOMAIN f -> Histories] OBVIOUS
<1>2. DOMAIN f \in {X \in SUBSET Branches : "main" \in X} OBVIOUS
<1>3. QED BY <1>1, <1>2 DEF Remotes

LEMMA LatestIsChange ==
    ASSUME NEW branch \in Histories
    PROVE  Latest(branch) \in Changes
<1>1. CASE branch = <<>> BY <1>1 DEF Latest, Changes
<1>2. CASE branch # <<>>
  <2>1. Last(branch) \in Commits
    <3>1. Len(branch) \in 1..Len(branch)
      BY <1>2, EmptySeq, LenProperties DEF Histories
    <3>2. QED BY <3>1, ElementOfSeq DEF Last, Histories
  <2>2. QED BY <1>2, <2>1 DEF Latest, Commits
<1>3. QED BY <1>1, <1>2

LEMMA CheckedOut ==
    ASSUME NEW g \in Mirrors, NEW branch \in Branches, NEW commits \in Histories
    PROVE  LET new == Checkout(g, branch, commits)
           IN /\ new \in Mirrors /\ new.branch = branch
              /\ new.local = [g.local EXCEPT ![branch] = commits]
              /\ new.files = Content(commits) /\ new.index = Content(commits)
              /\ new.tracked = g.tracked
<1>1. Content(commits) \subseteq Changes BY DEF Content
<1> DEFINE local == [g.local EXCEPT ![branch] = commits]
           new == [g EXCEPT !.branch = branch, !.local = local,
                            !.files = Content(commits), !.index = Content(commits)]
<1>2. local \in [Branches -> Histories] BY DEF Mirrors
<1>3. Checkout(g, branch, commits) = new
  BY DEF Checkout, Mirrors
<1> HIDE DEF local
<1>4. /\ new \in Mirrors /\ new.branch = branch /\ new.local = local
      /\ new.files = Content(commits) /\ new.index = Content(commits) /\ new.tracked = g.tracked
  BY <1>1, <1>2 DEF Mirrors
<1>5. QED BY <1>3, <1>4 DEF local

\* A tree that is not dirty holds what its branch does.
LEMMA CleanTree ==
    ASSUME Types, ~Dirty
    PROVE  mirror.files = Content(HEAD) /\ mirror.index = Content(HEAD)
<1>1. env.manifest \in [Changes -> Manifests]
  BY GitOpsAssumption DEF Types, Changes
<1>2. Content(HEAD) \subseteq Changes /\ mirror.files \subseteq Changes /\ mirror.index \subseteq Changes
  BY MirrorTypes DEF Content
<1>3. \A c \in Changes : env.manifest[c] \in Manifests /\ ~DirtyIn(env.manifest[c])
  BY <1>1 DEF Dirty
<1>4. \A c \in Changes : /\ c \in Content(HEAD) <=> c \in In(Content(HEAD), env.manifest[c])
                         /\ c \in mirror.files <=> c \in In(mirror.files, env.manifest[c])
                         /\ c \in mirror.index <=> c \in In(mirror.index, env.manifest[c])
  BY DEF In
<1>5. QED BY <1>2, <1>3, <1>4 DEF DirtyIn

\* A sync leaves the tree, or rebases a clean one on the main branch of the remote, or finds a conflict.
LEMMA SyncOutcomes ==
    ASSUME Types, Sync
    PROVE  \/ UNCHANGED mirror
           \/ /\ env.set.repo /\ mirror.branch # "detached"
              /\ mirror.files = Content(HEAD) /\ mirror.index = Content(HEAD)
              /\ mirror' \in Mirrors
              /\ \E branch \in {mirror.branch, "detached"}, new \in Histories :
                    /\ mirror'.branch = branch /\ mirror'.local = [mirror.local EXCEPT ![branch] = new]
                    /\ mirror'.files = Content(new) /\ mirror'.index = Content(new)
                    /\ \A c : Adds(new, c) => Adds(remote["main"], c) \/ Adds(HEAD, c)
                    /\ \A c : Deletes(new, c) => Deletes(remote["main"], c) \/ Deletes(HEAD, c)
                    /\ \/ branch = mirror.branch /\ \A c : Adds(HEAD, c) => Adds(new, c)
                       \/ branch = "detached" /\ \E d \in ToSet(remote["main"]) : d \notin ToSet(HEAD)
<1> SUFFICES ASSUME ~UNCHANGED mirror
             PROVE  /\ env.set.repo /\ mirror.branch # "detached"
                    /\ mirror.files = Content(HEAD) /\ mirror.index = Content(HEAD)
                    /\ mirror' \in Mirrors
                    /\ \E branch \in {mirror.branch, "detached"}, new \in Histories :
                          /\ mirror'.branch = branch
                          /\ mirror'.local = [mirror.local EXCEPT ![branch] = new]
                          /\ mirror'.files = Content(new) /\ mirror'.index = Content(new)
                          /\ \A c : Adds(new, c) => Adds(remote["main"], c) \/ Adds(HEAD, c)
                          /\ \A c : Deletes(new, c) => Deletes(remote["main"], c) \/ Deletes(HEAD, c)
                          /\ \/ branch = mirror.branch /\ \A c : Adds(HEAD, c) => Adds(new, c)
                             \/ branch = "detached" /\ \E d \in ToSet(remote["main"]) : d \notin ToSet(HEAD)
  OBVIOUS
<1> DEFINE base == remote["main"]
           new == base \o Missing(HEAD, base)
<1>1. base \in Histories /\ HEAD \in Histories /\ mirror \in Mirrors /\ mirror.branch \in Branches
      /\ "detached" \in Branches
  BY MirrorTypes DEF Branches
<1>2. /\ env.set.repo /\ ~Dirty /\ mirror.branch # "detached"
      /\ \/ mirror' = Checkout(mirror, mirror.branch, new)
         \/ /\ \E c \in ToSet(Missing(HEAD, base)), d \in ToSet(base) \ ToSet(HEAD) :
                  Touched(c) \cap Touched(d) # {}
            /\ mirror' = Checkout(mirror, "detached", base)
  BY DEF Sync
<1>3. mirror.files = Content(HEAD) /\ mirror.index = Content(HEAD) BY <1>2, CleanTree
<1>4. /\ new \in Histories
      /\ \A c : Adds(new, c) <=> Adds(base, c) \/ Adds(HEAD, c)
      /\ \A c : Deletes(new, c) => Deletes(base, c) \/ Deletes(HEAD, c)
  BY <1>1, Rebased
<1> HIDE DEF new
<1>5. CASE mirror' = Checkout(mirror, mirror.branch, new)
  <2>1. /\ mirror' \in Mirrors /\ mirror'.branch = mirror.branch
        /\ mirror'.local = [mirror.local EXCEPT ![mirror.branch] = new]
        /\ mirror'.files = Content(new) /\ mirror'.index = Content(new)
    BY <1>1, <1>4, <1>5, CheckedOut
  <2>2. QED BY <1>2, <1>3, <1>4, <2>1
<1>6. CASE /\ \E c \in ToSet(Missing(HEAD, base)), d \in ToSet(base) \ ToSet(HEAD) :
                  Touched(c) \cap Touched(d) # {}
           /\ mirror' = Checkout(mirror, "detached", base)
  <2>1. /\ mirror' \in Mirrors /\ mirror'.branch = "detached"
        /\ mirror'.local = [mirror.local EXCEPT !["detached"] = base]
        /\ mirror'.files = Content(base) /\ mirror'.index = Content(base)
    BY <1>1, <1>6, CheckedOut
  <2>2. \E d \in ToSet(base) : d \notin ToSet(HEAD) BY <1>6
  <2>3. QED BY <1>1, <1>2, <1>3, <2>1, <2>2
<1>7. QED BY <1>2, <1>5, <1>6

LEMMA SyncTypes ==
    ASSUME Types, Sync
    PROVE  mirror' \in Mirrors /\ mirror'.local[mirror'.branch] \in Histories
<1>1. mirror' \in Mirrors BY SyncOutcomes, MirrorTypes
<1>2. QED BY <1>1 DEF Mirrors

-----------------------------------------------------------------------------
(* What the steps do *)

\* The tree and the remote are left alone.
Still(r) ==
    /\ UNCHANGED <<mirror, remote>>
    /\ req[r].at \notin {"write", "add", "commit"}
    /\ req'[r].at = "write" => req[r].at = "read"
    /\ req[r].at = "push" /\ env.set.repo =>
          req'[r].at = "hotfix" \/ (req'[r].at = "done" /\ ~req'[r].ok)

\* One of the three steps that sync.
Syncs(r) ==
    /\ Sync /\ UNCHANGED remote
    /\ \/ req[r].at \in {"head", "sync"} /\ req'[r].at \in {"app", "sync", "cluster", "read"}
       \/ req[r].at = "head" /\ req[r].brings = "nothing" /\ req'[r].at \in {"argo", "done"}
       \/ req[r].at = "revsync" /\ req'[r].at = "revert"

\* The steps of the mirror and of a revert, when they do not throw.
Branched(r) ==
    /\ req[r].at = "branch" /\ req'[r].at = "write" /\ UNCHANGED remote
    /\ mirror.branch # "detached" /\ mirror' = [mirror EXCEPT !.branch = r, !.local[r] = HEAD]

Wrote(r) ==
    /\ req[r].at = "write" /\ req'[r].at = "add" /\ UNCHANGED remote
    /\ mirror' = [mirror EXCEPT !.files = With(@, r)]

Added(r) == req[r].at = "add" /\ req'[r].at = "commit" /\ UNCHANGED remote /\ AddManifest(r)

Committed(r) == req[r].at = "commit" /\ req'[r].at = "log" /\ UNCHANGED remote /\ Commit(r)

Pushed(r) ==
    /\ req[r].at = "push" /\ req'[r].at \in {"back", "argo", "done"} /\ env.set.repo
    /\ LET branch == IF env.set.pr THEN r ELSE "main"
       IN CanPush(branch) /\ PushBranch(branch)

Returned(r) ==
    /\ req[r].at = "back" /\ req'[r].at \in {"argo", "done"} /\ UNCHANGED remote /\ BackToMain(r)
    /\ mirror'.branch = "main" /\ (req'[r].at = "done" => req'[r].ok)

Reverted(r) == req[r].at = "revert" /\ req'[r].at = "revlog" /\ UNCHANGED remote /\ RevertCommit(r)

RevertPushed(r) == req[r].at = "revpush" /\ req'[r].at = "done" /\ PushBranch("main")

Does(r) ==
    /\ Moves(r) /\ UNCHANGED <<env, met, restarts>>
    /\ \/ Still(r) \/ Syncs(r) \/ Branched(r) \/ Wrote(r) \/ Added(r) \/ Committed(r)
       \/ Pushed(r) \/ Returned(r) \/ Reverted(r) \/ RevertPushed(r)

LEMMA StepsOfPatches ==
    ASSUME Types, NEW r \in Requests, OnItsWay(r),
           \/ HeadSha(r) \/ ClusterPatch(r) \/ HotFix(r) \/ AppRepoPush(r) \/ SyncMirror(r)
           \/ ReadManifest(r) \/ CreateBranch(r) \/ WriteManifest(r) \/ AddManifest(r)
           \/ Commit(r) \/ ReadLog(r)
    PROVE  Does(r)
<1> USE DEF Step, Moves, MayFollow, SuccessFrom, Unwritten, RevertSteps, UndeploySteps
<1>1. /\ {"head", "cluster", "app", "sync", "read", "branch", "write", "add", "commit", "log",
          "push", "back", "hotfix", "argo", "probe", "revsync", "revert"} \subseteq Steps
      /\ "none" \notin Steps /\ "done" \notin Steps
      /\ cluster \in Clusters /\ req[r] \in RequestStates
  BY DEF Steps, Types
<1>2. CASE HeadSha(r)
  <2> DEFINE at == IF req[r].action = "helm_deploy" THEN "app"
                   ELSE IF req[r].target = "gitops" THEN "sync" ELSE "cluster"
             row == [req[r] EXCEPT !.prev = mirror'.local[mirror'.branch], !.at = at]
  <2>1. /\ req[r].at = "head" /\ Sync /\ UNCHANGED <<remote, cluster, env, met, restarts>>
        /\ \/ req' = [req EXCEPT ![r] = row]
           \/ req[r].brings = "nothing" /\ (Finish(r, FALSE) \/ Conclude(r))
    BY <1>2 DEF HeadSha, Types
  <2>2. mirror'.local[mirror'.branch] \in Histories BY <2>1, SyncTypes
  <2>3. at \in {"app", "sync", "cluster"} OBVIOUS
  <2> HIDE DEF at
  <2>4. row \in RequestStates /\ row.action = req[r].action /\ row.brings = req[r].brings
        /\ row.undoes = req[r].undoes /\ row.at = at /\ row.read = req[r].read
    BY <1>1, <2>2, <2>3 DEF RequestStates, Stages
  <2> HIDE DEF row
  <2>5. CASE req' = [req EXCEPT ![r] = row]
    <3>1. SameRequest(r) /\ req'[r].at = at /\ req'[r].read = req[r].read
      BY <2>4, <2>5 DEF Types, SameRequest
    <3>2. QED BY <1>1, <2>1, <2>3, <3>1 DEF Does, Syncs
  <2>6. CASE req[r].brings = "nothing" /\ Finish(r, FALSE)
    BY <1>1, <2>1, <2>6, FinishMoves DEF Does, Syncs
  <2>7. CASE req[r].brings = "nothing" /\ Conclude(r)
    BY <1>1, <2>1, <2>7, ConcludeMoves DEF Does, Syncs
  <2>8. QED BY <2>1, <2>5, <2>6, <2>7
<1>3. ASSUME NEW at \in {"cluster", "hotfix"}, req[r].at = at,
             cluster' = [cluster EXCEPT !.patched = @ \cup {r}], Finish(r, TRUE),
             UNCHANGED <<mirror, remote, env, met, restarts>>
      PROVE  Does(r)
  <2>1. cluster' \in Clusters /\ r \in cluster'.patched /\ cluster'.applied = cluster.applied
    BY <1>1, <1>3 DEF Clusters
  <2>2. QED BY <1>1, <1>3, <2>1, FinishMoves DEF Does, Still
<1>4. ASSUME NEW at \in {"cluster", "hotfix", "app"}, req[r].at = at, Finish(r, FALSE),
             UNCHANGED <<cluster, mirror, remote, env, met, restarts>>
      PROVE  Does(r)
  BY <1>1, <1>4, FinishMoves DEF Does, Still
<1>5. CASE ClusterPatch(r)
  <2>1. req[r].at = "cluster" /\ UNCHANGED <<mirror, remote, env, met, restarts>>
        /\ \/ cluster' = [cluster EXCEPT !.patched = @ \cup {r}] /\ Finish(r, TRUE)
           \/ UNCHANGED cluster /\ (Goto(r, "sync") \/ Finish(r, FALSE))
    BY <1>5 DEF ClusterPatch
  <2>2. CASE UNCHANGED cluster /\ Goto(r, "sync")
    BY <1>1, <2>1, <2>2, GotoMoves DEF Does, Still
  <2>3. QED BY <1>1, <1>3, <1>4, <2>1, <2>2
<1>6. CASE HotFix(r)
  <2>1. req[r].at = "hotfix" /\ UNCHANGED <<mirror, remote, env, met, restarts>>
        /\ \/ cluster' = [cluster EXCEPT !.patched = @ \cup {r}] /\ Finish(r, TRUE)
           \/ UNCHANGED cluster /\ Finish(r, FALSE)
    BY <1>6 DEF HotFix
  <2>2. QED BY <1>1, <1>3, <1>4, <2>1
<1>7. CASE AppRepoPush(r)
  <2>1. req[r].at = "app" /\ UNCHANGED <<mirror, remote, cluster, env, met, restarts>>
        /\ (Goto(r, "sync") \/ Finish(r, FALSE))
    BY <1>7 DEF AppRepoPush
  <2>2. CASE Goto(r, "sync") BY <1>1, <2>1, <2>2, GotoMoves DEF Does, Still
  <2>3. QED BY <1>1, <1>4, <2>1, <2>2
<1>8. CASE SyncMirror(r)
  <2>1. req[r].at = "sync" /\ Sync /\ UNCHANGED <<remote, cluster, env, met, restarts>>
        /\ Goto(r, "read")
    BY <1>8 DEF SyncMirror
  <2>2. QED BY <1>1, <2>1, GotoMoves DEF Does, Syncs
<1>9. ASSUME Throw(r), req[r].at \in {"read", "branch"},
             UNCHANGED <<cluster, mirror, remote, env, met, restarts>>
      PROVE  Does(r)
  BY <1>1, <1>9, ThrowMoves DEF Does, Still
<1>10. CASE ReadManifest(r)
  <2> DEFINE at == IF env.set.pr THEN "branch" ELSE "write"
             read == Patched(r)
             row == [req[r] EXCEPT !.read = read, !.at = at]
  <2>1. req[r].at = "read" /\ UNCHANGED <<mirror, remote, cluster, env, met, restarts>>
        /\ \/ req' = [req EXCEPT ![r] = row]
           \/ Throw(r)
           \/ req[r].action = "helm_deploy" /\ Goto(r, "probe")
    BY <1>10 DEF ReadManifest, Types
  <2>2. CASE req' = [req EXCEPT ![r] = row]
    <3>1. read \subseteq Changes BY DEF Patched, In, Changes, Types, Mirrors
    <3>2. at \in Steps BY DEF Steps
    <3> HIDE DEF read
    <3>3. row \in RequestStates /\ row.action = req[r].action /\ row.brings = req[r].brings
          /\ row.undoes = req[r].undoes /\ row.at = at /\ row.read = read
      BY <1>1, <3>1, <3>2 DEF RequestStates, Stages
    <3> HIDE DEF row
    <3>4. SameRequest(r) /\ req'[r].at = at /\ req'[r].read = read
      BY <2>2, <3>3 DEF Types, SameRequest
    <3>5. QED BY <1>1, <2>1, <3>4 DEF Does, Still, read
  <2>3. CASE req[r].action = "helm_deploy" /\ Goto(r, "probe")
    BY <1>1, <2>1, <2>3, GotoMoves DEF Does, Still
  <2>4. QED BY <1>9, <2>1, <2>2, <2>3
<1>11. CASE CreateBranch(r)
  <2>1. req[r].at = "branch" /\ UNCHANGED <<remote, cluster, env, met, restarts>>
        /\ \/ Throw(r) /\ UNCHANGED mirror
           \/ mirror.branch # "detached" /\ mirror' = [mirror EXCEPT !.branch = r, !.local[r] = HEAD]
              /\ Goto(r, "write")
    BY <1>11 DEF CreateBranch
  <2>2. CASE Throw(r) /\ UNCHANGED mirror BY <1>9, <2>1, <2>2
  <2>3. CASE Goto(r, "write") /\ ~(Throw(r) /\ UNCHANGED mirror)
    BY <1>1, <2>1, <2>3, GotoMoves DEF Does, Branched
  <2>4. QED BY <2>1, <2>2, <2>3
<1>12. CASE WriteManifest(r)
  <2>1. req[r].at = "write" /\ UNCHANGED <<remote, cluster, env, met, restarts>>
        /\ Goto(r, "add") /\ mirror' = [mirror EXCEPT !.files = With(@, r)]
    BY <1>12 DEF WriteManifest
  <2>2. QED BY <1>1, <2>1, GotoMoves DEF Does, Wrote
<1>13. CASE AddManifest(r)
  <2>1. req[r].at = "add" /\ UNCHANGED <<remote, cluster, env, met, restarts>> /\ Goto(r, "commit")
    BY <1>13 DEF AddManifest
  <2>2. QED BY <1>1, <1>13, <2>1, GotoMoves DEF Does, Added
<1>14. CASE Commit(r)
  <2>1. req[r].at = "commit" /\ UNCHANGED <<remote, cluster, env, met, restarts>> /\ Goto(r, "log")
    BY <1>14 DEF Commit
  <2>2. QED BY <1>1, <1>14, <2>1, GotoMoves DEF Does, Committed
<1>15. CASE ReadLog(r)
  <2> DEFINE row == [req[r] EXCEPT !.sha = Latest(HEAD), !.at = "push"]
  <2>1. req[r].at = "log" /\ UNCHANGED <<mirror, remote, cluster, env, met, restarts>>
        /\ req' = [req EXCEPT ![r] = row]
    BY <1>15 DEF ReadLog, Types
  <2>2. Latest(HEAD) \in Changes BY MirrorTypes, LatestIsChange
  <2>3. row \in RequestStates /\ row.action = req[r].action /\ row.brings = req[r].brings
        /\ row.undoes = req[r].undoes /\ row.at = "push" /\ row.read = req[r].read
    BY <1>1, <2>2 DEF RequestStates, Stages
  <2> HIDE DEF row
  <2>4. SameRequest(r) /\ req'[r].at = "push" /\ req'[r].read = req[r].read
    BY <2>1, <2>3 DEF Types, SameRequest
  <2>5. QED BY <1>1, <2>1, <2>4 DEF Does, Still
<1>16. QED BY <1>2, <1>5, <1>6, <1>7, <1>8, <1>10, <1>11, <1>12, <1>13, <1>14, <1>15

LEMMA StepsAfterPush ==
    ASSUME Types, NEW r \in Requests, OnItsWay(r),
           Push(r) \/ BackToMain(r) \/ PollArgo(r)
    PROVE  Does(r)
<1>1. {"push", "back", "argo"} \subseteq Steps /\ "none" \notin Steps /\ "done" \notin Steps
      /\ cluster \in Clusters /\ req[r] \in RequestStates
  BY DEF Steps, Types
<1>2. ASSUME Throw(r), req[r].at \in {"push", "back"},
             UNCHANGED <<cluster, mirror, remote, env, met, restarts>>
      PROVE  Does(r)
  BY <1>1, <1>2, ThrowMoves
     DEF Does, Still, Moves, MayFollow, SuccessFrom, Unwritten, RevertSteps, UndeploySteps
<1>3. CASE Push(r)
  <2>1. /\ req[r].at = "push" /\ UNCHANGED <<cluster, env, met, restarts>>
        /\ \/ ~env.set.repo /\ AfterMirror(r) /\ UNCHANGED <<mirror, remote>>
           \/ /\ AfterMirror(r) /\ env.set.repo
              /\ LET branch == IF env.set.pr THEN r ELSE "main" IN CanPush(branch) /\ PushBranch(branch)
           \/ Throw(r) /\ UNCHANGED <<mirror, remote>>
    BY <1>3 DEF Push, Step
  <2>2. ASSUME AfterMirror(r) PROVE Moves(r) /\ req'[r].at \in {"back", "argo", "done"}
    <3>1. Moves(r) BY <2>1, <2>2, AfterMirrorMoves
    <3>2. Goto(r, "back") \/ Goto(r, "argo") \/ Finish(r, TRUE) BY <2>2 DEF AfterMirror, Conclude
    <3>3. QED BY <3>1, <3>2, GotoMoves, FinishMoves DEF Steps
  <2>3. QED BY <1>2, <2>1, <2>2 DEF Does, Still, Pushed
<1>4. CASE BackToMain(r)
  <2>1. /\ req[r].at = "back" /\ UNCHANGED <<remote, cluster, env, met, restarts>>
        /\ \/ AfterMirror(r) /\ mirror'.branch = "main"
           \/ Throw(r) /\ UNCHANGED mirror
    BY <1>4 DEF BackToMain, Step, Types, Mirrors
  <2>2. ASSUME AfterMirror(r) PROVE  Moves(r) /\ req'[r].at \in {"argo", "done"} /\ (req'[r].at = "done" => req'[r].ok)
    <3>1. Moves(r) BY <2>1, <2>2, AfterMirrorMoves
    <3>2. Goto(r, "argo") \/ Finish(r, TRUE) BY <2>1, <2>2 DEF AfterMirror, Conclude
    <3>3. QED BY <3>1, <3>2, GotoMoves, FinishMoves DEF Steps
  <2>3. QED BY <1>2, <1>4, <2>1, <2>2 DEF Does, Returned
<1>5. CASE PollArgo(r)
  <2> DEFINE row == [req[r] EXCEPT !.polls = @ + 1]
  <2>1. /\ req[r].at = "argo" /\ UNCHANGED <<mirror, remote, cluster, env, met, restarts>>
        /\ \/ Finish(r, TRUE) \/ Finish(r, FALSE)
           \/ req[r].polls + 1 < MaxPolls /\ req' = [req EXCEPT ![r] = row]
    BY <1>5 DEF PollArgo, Step, Types
  <2>2. CASE Finish(r, TRUE) \/ Finish(r, FALSE)
    BY <1>1, <2>1, <2>2, FinishMoves
       DEF Does, Still, Moves, MayFollow, SuccessFrom, Unwritten, RevertSteps, UndeploySteps
  <2>3. CASE req[r].polls + 1 < MaxPolls /\ req' = [req EXCEPT ![r] = row]
    <3>1. row \in RequestStates /\ row.action = req[r].action /\ row.brings = req[r].brings
          /\ row.undoes = req[r].undoes /\ row.at = req[r].at /\ row.read = req[r].read
      <4>1. req[r].polls + 1 \in 0..MaxPolls
        BY <1>1, <2>3, GitOpsAssumption DEF RequestStates
      <4>2. QED BY <1>1, <4>1 DEF RequestStates
    <3> HIDE DEF row
    <3>2. SameRequest(r) /\ req'[r].at = "argo" /\ req'[r].read = req[r].read
      BY <2>1, <2>3, <3>1 DEF Types, SameRequest
    <3>3. QED
      BY <1>1, <2>1, <3>2
         DEF Does, Still, Moves, MayFollow, SuccessFrom, Unwritten, RevertSteps, UndeploySteps
  <2>4. QED BY <2>1, <2>2, <2>3
<1>6. QED BY <1>3, <1>4, <1>5

LEMMA StepsOfCharts ==
    ASSUME Types, NEW r \in Requests, OnItsWay(r),
           \/ Probe(r) \/ ApplyPlain(r) \/ HelmUsable(r) \/ ApplyTemplate(r) \/ ApplyUpgrade(r)
           \/ ApplyManifest(r)
    PROVE  Does(r)
<1> USE DEF Moves, MayFollow, SuccessFrom, Unwritten, RevertSteps, UndeploySteps
<1>1. /\ {"probe", "plain", "helm", "template", "upgrade", "kubectl"} \subseteq Steps
      /\ "none" \notin Steps /\ "done" \notin Steps
      /\ cluster \in Clusters /\ req[r] \in RequestStates
  BY DEF Steps, Types
<1> DEFINE Grows == cluster' \in Clusters /\ cluster.applied \subseteq cluster'.applied
<1>2. \A helm \in BOOLEAN :
          /\ Applied(r, helm) => Grows /\ r \in cluster'.applied
          /\ AppliedInPart(helm) => Grows
  <2> SUFFICES ASSUME NEW helm \in BOOLEAN
               PROVE  /\ Applied(r, helm) => Grows /\ r \in cluster'.applied
                      /\ AppliedInPart(helm) => Grows
    OBVIOUS
  <2> DEFINE released == cluster.helm \/ helm
             whole == [cluster EXCEPT !.applied = @ \cup {r}, !.deployment = TRUE, !.helm = released]
             part == [cluster EXCEPT !.deployment = TRUE, !.helm = released]
  <2>1. /\ Applied(r, helm) => cluster' = whole
        /\ AppliedInPart(helm) => cluster' = cluster \/ cluster' = part
    BY <1>1 DEF Applied, AppliedInPart, Clusters
  <2>2. released \in BOOLEAN BY <1>1 DEF Clusters
  <2> HIDE DEF released
  <2>3. whole \in Clusters /\ r \in whole.applied /\ cluster.applied \subseteq whole.applied
    BY <1>1, <2>2 DEF Clusters
  <2>4. part \in Clusters /\ part.applied = cluster.applied BY <1>1, <2>2 DEF Clusters
  <2>5. QED BY <1>1, <2>1, <2>3, <2>4
<1>3. ASSUME Finish(r, FALSE), req[r].at \in {"probe", "plain", "helm", "template", "upgrade", "kubectl"},
             Grows, UNCHANGED <<mirror, remote, env, met, restarts>>
      PROVE  Does(r)
  BY <1>1, <1>3, FinishMoves DEF Does, Still
<1>4. ASSUME NEW at \in {"plain", "helm", "template", "upgrade"}, Goto(r, at),
             req[r].at \in {"probe", "plain", "helm", "template"},
             Grows, UNCHANGED <<mirror, remote, env, met, restarts>>
      PROVE  Does(r)
  BY <1>1, <1>4, GotoMoves DEF Does, Still
<1>5. CASE Probe(r)
  <2>1. /\ req[r].at = "probe" /\ UNCHANGED <<mirror, remote, cluster, env, met, restarts>>
        /\ \/ req[r].brings = "generated" /\ Goto(r, "plain")
           \/ req[r].brings = "chart" /\ Goto(r, "helm")
           \/ req[r].brings = "manifest" /\ Goto(r, "kubectl")
           \/ Finish(r, FALSE)
    <3>1. req[r].at = "probe" /\ UNCHANGED <<mirror, remote, cluster, env, met, restarts>>
      BY <1>5 DEF Probe, Step
    <3>2. req[r].brings \in {"generated", "chart", "manifest"} BY <1>1, <3>1 DEF OnItsWay
    <3>3. QED BY <1>5, <3>1, <3>2 DEF Probe
  <2>2. CASE req[r].brings = "manifest" /\ Goto(r, "kubectl")
    BY <1>1, <2>1, <2>2, GotoMoves DEF Does, Still
  <2>3. QED BY <1>1, <1>3, <1>4, <2>1, <2>2
<1>6. ASSUME NEW at \in {"plain", "template", "upgrade"}, NEW helm \in BOOLEAN,
             NEW next \in {"helm", "upgrade", "none"}, at = "upgrade" => next = "none",
             Strategy(r, at, helm, next)
      PROVE  Does(r)
  <2>1. /\ req[r].at = at /\ UNCHANGED <<mirror, remote, env, met, restarts>>
        /\ \/ Applied(r, helm) /\ Conclude(r)
           \/ AppliedInPart(helm) /\ (Finish(r, FALSE) \/ (next # "none" /\ Goto(r, next)))
    BY <1>6 DEF Strategy, Step
  <2>2. CASE Applied(r, helm) /\ Conclude(r)
    BY <1>1, <1>2, <2>1, <2>2, ConcludeMoves DEF Does, Still, Direct
  <2>3. CASE AppliedInPart(helm) /\ Finish(r, FALSE)
    BY <1>2, <1>3, <2>1, <2>3
  <2>4. CASE AppliedInPart(helm) /\ next # "none" /\ Goto(r, next)
    BY <1>2, <1>4, <1>6, <2>1, <2>4
  <2>5. QED BY <2>1, <2>2, <2>3, <2>4
<1>7. CASE ApplyPlain(r) \/ ApplyTemplate(r) \/ ApplyUpgrade(r)
  BY <1>6, <1>7 DEF ApplyPlain, ApplyTemplate, ApplyUpgrade
<1>8. CASE HelmUsable(r)
  BY <1>1, <1>3, <1>4, <1>8 DEF HelmUsable, Step
<1>9. CASE ApplyManifest(r)
  <2>1. /\ req[r].at = "kubectl" /\ UNCHANGED <<mirror, remote, env, met, restarts>>
        /\ Grows
        /\ \/ Conclude(r) /\ (env.set.dryRun \/ r \in cluster'.applied)
           \/ Finish(r, FALSE)
    BY <1>1, <1>2, <1>9 DEF ApplyManifest, Step
  <2>2. CASE Conclude(r) /\ (env.set.dryRun \/ r \in cluster'.applied)
    BY <1>1, <2>1, <2>2, ConcludeMoves DEF Does, Still, Direct
  <2>3. QED BY <1>3, <2>1, <2>2
<1>10. QED BY <1>5, <1>7, <1>8, <1>9

LEMMA StepsOfReverts ==
    ASSUME Types, NEW r \in Requests, OnItsWay(r),
           RevertSync(r) \/ RevertCommit(r) \/ RevertLog(r) \/ RevertPush(r)
    PROVE  Does(r)
<1> USE DEF Moves, MayFollow, SuccessFrom, Unwritten, RevertSteps, UndeploySteps
<1>1. /\ RevertSteps \subseteq Steps /\ "none" \notin Steps /\ "done" \notin Steps
      /\ cluster \in Clusters /\ req[r] \in RequestStates
  BY DEF Steps, Types
<1>2. CASE RevertSync(r)
  BY <1>1, <1>2, GotoMoves DEF Does, Syncs, RevertSync, Step
<1>3. CASE RevertCommit(r)
  <2>1. req[r].at = "revert" /\ UNCHANGED <<remote, cluster, env, met, restarts>> /\ Goto(r, "revlog")
    BY <1>3 DEF RevertCommit, Step
  <2>2. QED BY <1>1, <1>3, <2>1, GotoMoves DEF Does, Reverted
<1>4. CASE RevertLog(r)
  <2> DEFINE row == [req[r] EXCEPT !.sha = Latest(HEAD), !.at = "revpush"]
  <2>1. req[r].at = "revlog" /\ UNCHANGED <<mirror, remote, cluster, env, met, restarts>>
        /\ req' = [req EXCEPT ![r] = row]
    BY <1>4 DEF RevertLog, Step, Types
  <2>2. Latest(HEAD) \in Changes BY MirrorTypes, LatestIsChange
  <2>3. row \in RequestStates /\ row.action = req[r].action /\ row.brings = req[r].brings
        /\ row.undoes = req[r].undoes /\ row.at = "revpush" /\ row.read = req[r].read
    BY <1>1, <2>2 DEF RequestStates, Stages
  <2> HIDE DEF row
  <2>4. SameRequest(r) /\ req'[r].at = "revpush" /\ req'[r].read = req[r].read
    BY <2>1, <2>3 DEF Types, SameRequest
  <2>5. QED BY <1>1, <2>1, <2>4 DEF Does, Still
<1>5. CASE RevertPush(r)
  <2>1. /\ req[r].at = "revpush" /\ UNCHANGED <<cluster, env, met, restarts>>
        /\ Finish(r, TRUE) \/ Finish(r, FALSE)
        /\ PushBranch("main") \/ UNCHANGED <<mirror, remote>>
    BY <1>5 DEF RevertPush, Step
  <2>2. QED BY <1>1, <2>1, FinishMoves DEF Does, Still, RevertPushed
<1>6. QED BY <1>2, <1>3, <1>4, <1>5

LEMMA StepsOfUndeploys ==
    ASSUME Types, NEW r \in Requests, OnItsWay(r),
           \/ Snapshot(r) \/ Uninstall(r) \/ SnapshotAgain(r) \/ DeleteObjects(r) \/ CheckGone(r)
    PROVE  Does(r)
<1> USE DEF Moves, MayFollow, SuccessFrom, Unwritten, RevertSteps, UndeploySteps
<1>1. /\ UndeploySteps \subseteq Steps /\ "none" \notin Steps /\ "done" \notin Steps
      /\ cluster \in Clusters /\ req[r] \in RequestStates
  BY DEF Steps, Types
<1>2. ASSUME NEW seen \in Seen, NEW at \in {"uninstall", "delete"},
             req' = [req EXCEPT ![r].todo = seen, ![r].at = at],
             req[r].at \in UndeploySteps, UNCHANGED <<mirror, remote, cluster, env, met, restarts>>
      PROVE  Does(r)
  <2> DEFINE row == [req[r] EXCEPT !.todo = seen, !.at = at]
  <2>1. req' = [req EXCEPT ![r] = row] BY <1>2 DEF Types
  <2>2. row \in RequestStates /\ row.action = req[r].action /\ row.brings = req[r].brings
        /\ row.undoes = req[r].undoes /\ row.at = at /\ row.read = req[r].read
    BY <1>1, <1>2 DEF RequestStates, Stages, Seen
  <2> HIDE DEF row
  <2>3. SameRequest(r) /\ req'[r].at = at /\ req'[r].read = req[r].read
    BY <2>1, <2>2 DEF Types, SameRequest
  <2>4. QED BY <1>1, <1>2, <2>3 DEF Does, Still
<1>3. CASE Snapshot(r)
  <2>1. /\ req[r].at = "snapshot" /\ UNCHANGED <<mirror, remote, cluster, env, met, restarts>>
        /\ \/ Finish(r, FALSE)
           \/ \E seen \in Seen : req' = [req EXCEPT ![r].todo = seen, ![r].at = "uninstall"]
    BY <1>3 DEF Snapshot, Step
  <2>2. CASE Finish(r, FALSE) BY <1>1, <2>1, <2>2, FinishMoves DEF Does, Still
  <2>3. QED BY <1>2, <2>1, <2>2
<1>4. CASE SnapshotAgain(r)
  BY <1>2, <1>4 DEF SnapshotAgain, Step
<1>5. ASSUME NEW at \in {"again", "check"}, Goto(r, at), req[r].at \in UndeploySteps,
             cluster' \in Clusters, cluster'.applied = cluster.applied, UNCHANGED <<mirror, remote, env, met, restarts>>
      PROVE  Does(r)
  BY <1>1, <1>5, GotoMoves DEF Does, Still
<1>6. CASE Uninstall(r)
  <2>1. cluster' \in Clusters /\ cluster'.applied = cluster.applied
    BY <1>1, <1>6 DEF Uninstall, Clusters
  <2>2. QED BY <1>5, <1>6, <2>1 DEF Uninstall, Step
<1>7. CASE DeleteObjects(r)
  <2>1. cluster' \in Clusters /\ cluster'.applied = cluster.applied
    BY <1>1, <1>7 DEF DeleteObjects, Clusters
  <2>2. QED BY <1>5, <1>7, <2>1 DEF DeleteObjects, Step
<1>8. CASE CheckGone(r)
  <2>1. /\ req[r].at = "check" /\ UNCHANGED <<mirror, remote, cluster, env, met, restarts>>
        /\ Finish(r, TRUE) \/ Finish(r, FALSE)
    BY <1>8 DEF CheckGone, Step
  <2>2. QED BY <1>1, <2>1, FinishMoves DEF Does, Still
<1>9. QED BY <1>3, <1>4, <1>6, <1>7, <1>8

LEMMA ServeDoes ==
    ASSUME Types, NEW r \in Requests, OnItsWay(r), Serve(r)
    PROVE  Does(r)
  BY StepsOfPatches, StepsAfterPush, StepsOfCharts, StepsOfReverts, StepsOfUndeploys DEF Serve

-----------------------------------------------------------------------------
(* What the steps of the mirror leave *)

LEMMA BranchedTree ==
    ASSUME Types, NEW r \in Requests, Branched(r)
    PROVE  /\ mirror' \in Mirrors /\ mirror'.branch = r
           /\ mirror'.local = [mirror.local EXCEPT ![r] = HEAD]
           /\ mirror'.files = mirror.files /\ mirror'.index = mirror.index /\ HEAD' = HEAD
<1> DEFINE local == [mirror.local EXCEPT ![r] = HEAD]
           new == [mirror EXCEPT !.branch = r, !.local = local]
<1>1. r \in Branches /\ local \in [Branches -> Histories] /\ local[r] = HEAD
  BY MirrorTypes DEF Branches
<1>2. mirror' = new BY MirrorTypes DEF Branched, Mirrors
<1> HIDE DEF local
<1>3. new \in Mirrors /\ new.branch = r /\ new.local = local
      /\ new.files = mirror.files /\ new.index = mirror.index
  BY <1>1, MirrorTypes DEF Mirrors
<1>4. HEAD' = local[r] BY <1>2, <1>3 DEF HEAD
<1>5. QED BY <1>1, <1>2, <1>3, <1>4 DEF local

LEMMA WroteTree ==
    ASSUME Types, NEW r \in Requests, Wrote(r)
    PROVE  /\ mirror' \in Mirrors /\ mirror'.branch = mirror.branch
           /\ mirror'.local = mirror.local /\ mirror'.index = mirror.index
           /\ mirror'.files = With(mirror.files, r) /\ HEAD' = HEAD
<1>1. req[r].read \subseteq Changes BY DEF Types, RequestStates
<1>2. With(mirror.files, r) \subseteq Changes BY <1>1, MirrorTypes DEF With
<1> DEFINE files == With(mirror.files, r)
           new == [mirror EXCEPT !.files = files]
<1>3. mirror' = new BY DEF Wrote, Types
<1> HIDE DEF files
<1>4. /\ new \in Mirrors /\ new.branch = mirror.branch /\ new.local = mirror.local
      /\ new.index = mirror.index /\ new.files = files
  BY <1>2, MirrorTypes DEF Mirrors, files
<1>5. QED BY <1>3, <1>4 DEF files, HEAD

LEMMA AddedTree ==
    ASSUME Types, NEW r \in Requests, Added(r)
    PROVE  /\ mirror' \in Mirrors /\ mirror'.branch = mirror.branch
           /\ mirror'.local = mirror.local /\ mirror'.files = mirror.files /\ HEAD' = HEAD
           /\ mirror'.index = {c \in mirror.index : env.manifest[c] # env.manifest[r]}
                              \cup In(mirror.files, env.manifest[r])
<1> DEFINE index == {c \in mirror.index : env.manifest[c] # env.manifest[r]}
                    \cup In(mirror.files, env.manifest[r])
           new == [mirror EXCEPT !.index = index]
<1>1. index \subseteq Changes BY MirrorTypes DEF In
<1>2. mirror' = new BY DEF Added, AddManifest, Types
<1> HIDE DEF index
<1>3. /\ new \in Mirrors /\ new.branch = mirror.branch /\ new.local = mirror.local
      /\ new.files = mirror.files /\ new.index = index
  BY <1>1, MirrorTypes DEF Mirrors
<1>4. QED BY <1>2, <1>3 DEF index, HEAD

\* After a commit the branch holds what the index does.
LEMMA CommittedTree ==
    ASSUME Types, NEW r \in Requests, Committed(r)
    PROVE  /\ mirror' \in Mirrors /\ mirror'.branch = mirror.branch
           /\ mirror'.files = mirror.files /\ mirror'.index = mirror.index
           /\ HEAD' \in Histories /\ mirror'.local = [mirror.local EXCEPT ![mirror.branch] = HEAD']
           /\ Content(HEAD') = mirror.index
           /\ \A c : Adds(HEAD', c) => Adds(HEAD, c) \/ c \in mirror.index
           /\ \A c : Deletes(HEAD', c) =>
                        Deletes(HEAD, c) \/ (c \in Content(HEAD) /\ c \notin mirror.index)
<1> DEFINE at == Content(HEAD)
           commit == [by |-> r, add |-> mirror.index \ at, del |-> at \ mirror.index]
           longer == Append(HEAD, commit)
           local == [mirror.local EXCEPT ![mirror.branch] = longer]
           new == [mirror EXCEPT !.local = local]
<1>1. /\ mirror \in Mirrors /\ mirror.branch \in Branches
      /\ mirror.local \in [Branches -> Histories] /\ HEAD \in Histories
      /\ mirror.index \subseteq Changes /\ at \subseteq Changes
  BY MirrorTypes DEF Content
<1>2. mirror' = IF mirror.index = at THEN mirror ELSE new
  BY <1>1 DEF Committed, Commit, HEAD, Mirrors
<1>3. CASE mirror.index = at
  <2>1. mirror' = mirror BY <1>2, <1>3
  <2>2. HEAD' = HEAD BY <2>1 DEF HEAD
  <2>3. mirror.local = [mirror.local EXCEPT ![mirror.branch] = HEAD] BY <1>1 DEF HEAD
  <2>4. QED BY <1>1, <1>3, <2>1, <2>2, <2>3
<1>4. CASE mirror.index # at
  <2>1. commit \in Commits BY <1>1 DEF Commits, Changes
  <2>2. commit.add = mirror.index \ at /\ commit.del = at \ mirror.index OBVIOUS
  <2> HIDE DEF commit
  <2>3. /\ longer \in Histories
        /\ \A c : Adds(longer, c) <=> Adds(HEAD, c) \/ c \in commit.add
        /\ \A c : Deletes(longer, c) <=> Deletes(HEAD, c) \/ c \in commit.del
        /\ Content(longer) = (Content(HEAD) \ commit.del) \cup commit.add
    BY <1>1, <2>1, AppendedContent
  <2>4. Content(longer) = mirror.index BY <2>2, <2>3
  <2> HIDE DEF longer, at
  <2>5. local \in [Branches -> Histories] /\ local[mirror.branch] = longer BY <1>1, <2>3
  <2> HIDE DEF local
  <2>6. /\ new \in Mirrors /\ new.branch = mirror.branch /\ new.files = mirror.files
        /\ new.index = mirror.index /\ new.local = local
    BY <1>1, <2>5 DEF Mirrors
  <2>7. mirror' = new BY <1>2, <1>4
  <2>8. HEAD' = longer BY <2>5, <2>6, <2>7 DEF HEAD
  <2>9. QED BY <2>2, <2>3, <2>4, <2>6, <2>7, <2>8 DEF local, at
<1>5. QED BY <1>3, <1>4

LEMMA PushedTree ==
    ASSUME Types, NEW b \in Branches, PushBranch(b)
    PROVE  /\ mirror' \in Mirrors /\ mirror'.branch = mirror.branch
           /\ mirror'.local = mirror.local /\ HEAD' = HEAD
           /\ mirror'.files = mirror.files /\ mirror'.index = mirror.index
           /\ remote' \in Remotes /\ DOMAIN remote' = DOMAIN remote \cup {b}
           /\ remote'[b] = mirror.local[b]
           /\ \A d \in DOMAIN remote \ {b} : remote'[d] = remote[d]
<1>1. /\ remote' = [d \in DOMAIN remote \cup {b} |->
                       IF d = b THEN mirror.local[b] ELSE remote[d]]
      /\ mirror' = [mirror EXCEPT !.tracked = mirror.local["main"]] \/ mirror' = mirror
  BY DEF PushBranch
<1>2. mirror.local[b] \in Histories /\ mirror.local["main"] \in Histories
  BY MirrorTypes DEF Branches
<1>3. /\ mirror' \in Mirrors /\ mirror'.branch = mirror.branch /\ mirror'.local = mirror.local
      /\ mirror'.files = mirror.files /\ mirror'.index = mirror.index
  BY <1>1, <1>2, MirrorTypes DEF Mirrors
<1>4. /\ DOMAIN remote' = DOMAIN remote \cup {b} /\ remote'[b] = mirror.local[b]
      /\ \A d \in DOMAIN remote \ {b} : remote'[d] = remote[d]
      /\ remote' = [d \in DOMAIN remote' |-> remote'[d]]
  BY <1>1
<1>5. remote' \in Remotes
  <2>1. \A d \in DOMAIN remote' : remote'[d] \in Histories BY <1>2, <1>4, MirrorTypes
  <2>2. "main" \in DOMAIN remote' /\ DOMAIN remote' \subseteq Branches BY <1>4, MirrorTypes
  <2>3. QED BY <1>4, <2>1, <2>2, RemoteTypes
<1>6. QED BY <1>3, <1>4, <1>5 DEF HEAD

\* The manifests that are carried over are the same on both branches.
LEMMA ReturnedTree ==
    ASSUME Types, NEW r \in Requests, Returned(r)
    PROVE  /\ mirror' \in Mirrors /\ mirror'.branch = "main" /\ mirror'.local = mirror.local
           /\ HEAD' = mirror.local["main"]
           /\ \E dirty \in SUBSET Manifests :
                 LET main == Content(mirror.local["main"])
                     Carry(content) == {c \in content : env.manifest[c] \in dirty}
                                       \cup {c \in main : env.manifest[c] \notin dirty}
                 IN /\ \A m \in dirty : In(Content(HEAD), m) = In(main, m)
                    /\ mirror'.files = Carry(mirror.files) /\ mirror'.index = Carry(mirror.index)
<1> DEFINE main == Content(mirror.local["main"])
           dirty == {m \in Manifests : DirtyIn(m)}
           Carry(content) == {c \in content : env.manifest[c] \in dirty}
                             \cup {c \in main : env.manifest[c] \notin dirty}
           files == Carry(mirror.files)
           index == Carry(mirror.index)
           new == [mirror EXCEPT !.branch = "main", !.files = files, !.index = index]
<1>1. (\A m \in dirty : In(Content(HEAD), m) = In(main, m)) /\ mirror' = new
  <2> DEFINE P == \A m \in dirty : In(Content(HEAD), m) = In(main, m)
  <2>1. IF P THEN mirror' = new /\ AfterMirror(r) ELSE Throw(r) /\ UNCHANGED mirror
    BY DEF Returned, BackToMain, Types, Mirrors
  <2>2. ~Throw(r) BY ThrowMoves DEF Returned
  <2>3. QED BY <2>1, <2>2
<1>2. files \subseteq Changes /\ index \subseteq Changes BY MirrorTypes DEF Content
<1>3. dirty \in SUBSET Manifests OBVIOUS
<1>4. mirror'.files = files /\ mirror'.index = index
      /\ mirror' \in Mirrors /\ mirror'.branch = "main" /\ mirror'.local = mirror.local
  <2> HIDE DEF files, index
  <2>1. new \in Mirrors /\ new.branch = "main" /\ new.local = mirror.local
        /\ new.files = files /\ new.index = index
    BY <1>2, MirrorTypes DEF Mirrors, Branches
  <2> HIDE DEF new
  <2>2. QED BY <1>1, <2>1
<1>5. HEAD' = mirror.local["main"] BY <1>4 DEF HEAD
<1> HIDE DEF dirty
<1>6. QED BY <1>1, <1>3, <1>4, <1>5

LEMMA RevertedTree ==
    ASSUME Types, NEW r \in Requests, OnItsWay(r), Reverted(r)
    PROVE  mirror' \in Mirrors /\ mirror'.branch = mirror.branch
<1> DEFINE deploy == req[req[r].undoes]
           at == Content(HEAD)
<1>1. mirror \in Mirrors /\ mirror.branch \in Branches /\ HEAD \in Histories
      /\ mirror.local \in [Branches -> Histories]
  BY MirrorTypes
<1>2. deploy.prev \in Histories
  <2>1. req[r].undoes \in Requests BY DEF OnItsWay, Reverted, RevertSteps
  <2>2. QED BY <2>1 DEF Types, RequestStates
<1>3. \/ \E c \in CommitBy(deploy.sha) :
            mirror' = Checkout(mirror, mirror.branch,
                               Append(HEAD, [by |-> r, add |-> c.del, del |-> c.add]))
      \/ mirror' = Checkout(mirror, mirror.branch, deploy.prev)
  BY DEF Reverted, RevertCommit
<1>4. ASSUME NEW c \in CommitBy(deploy.sha)
      PROVE  Append(HEAD, [by |-> r, add |-> c.del, del |-> c.add]) \in Histories
  <2>1. c \in Commits
    <3>1. \E b \in Branches : c \in ToSet(mirror.local[b]) BY DEF CommitBy
    <3>2. PICK b \in Branches : \E i \in DOMAIN mirror.local[b] : c = mirror.local[b][i]
      BY <3>1 DEF ToSet
    <3>3. mirror.local[b] \in Histories BY <1>1
    <3>4. QED BY <3>2, <3>3, LenProperties, ElementOfSeq DEF Histories
  <2>2. [by |-> r, add |-> c.del, del |-> c.add] \in Commits BY <2>1 DEF Commits, Changes
  <2>3. QED BY <1>1, <2>2, AppendProperties DEF Histories
<1>5. ASSUME NEW commits \in Histories, mirror' = Checkout(mirror, mirror.branch, commits)
      PROVE  mirror' \in Mirrors /\ mirror'.branch = mirror.branch
  BY <1>1, <1>5, CheckedOut
<1> HIDE DEF deploy
<1>6. QED BY <1>2, <1>3, <1>4, <1>5

-----------------------------------------------------------------------------
(* Arrivals, other people's pushes, restarts *)

Arrives(r) ==
    /\ req[r].at = "none" /\ UNCHANGED <<env, mirror, remote, cluster, restarts>>
    /\ req' \in [Requests -> RequestStates] /\ \A q \in Requests \ {r} : req'[q] = req[q]
    /\ req'[r].at \in {"head", "probe", "revsync", "snapshot"} /\ req'[r].read = {}
    /\ req'[r].at = "probe" => req'[r].action = "repo_apply"
    /\ req'[r].action \in {"helm_deploy", "repo_apply"} =>
          req'[r].brings \in {"generated", "chart", "manifest"}
    /\ req'[r].at = "revsync" => req'[r].action = "git_revert" /\ req'[r].undoes \in Requests
    /\ req'[r].at = "snapshot" => req'[r].action = "undeploy"
    /\ met' \in [Requests -> SUBSET Requests]
    /\ met'[r] = {p \in Requests : Active(p)}
    /\ \A q \in Requests \ {r} : met'[q] = IF Active(q) THEN met[q] \cup {r} ELSE met[q]

LEMMA ArriveArrives ==
    ASSUME Types, NEW r \in Requests, Arrive(r)
    PROVE  Arrives(r)
<1>1. PICK action \in env.offers[r], target \in Targets, undoes \in Changes :
         \E brings \in Brings(action) :
            /\ (action = "git_patch") \/ target = "cluster"
            /\ IF action = "git_revert" THEN undoes \in Requests /\ Deployed(undoes)
               ELSE undoes = Developer
            /\ req' = [req EXCEPT ![r] = Asked(action, target, brings, undoes)]
  BY DEF Arrive
<1>2. PICK brings \in Brings(action) :
         /\ action = "git_revert" => undoes \in Requests
         /\ req' = [req EXCEPT ![r] = Asked(action, target, brings, undoes)]
  BY <1>1
<1> DEFINE at == FirstStep(action)
           row == [NoRequest EXCEPT !.at = at, !.action = action, !.target = target,
                                    !.brings = brings, !.undoes = undoes]
<1>3. action \in Actions /\ brings \in Brought
  <2>1. env.offers[r] \subseteq Actions BY GitOpsAssumption DEF Types
  <2>2. QED BY <1>2, <2>1 DEF Brings, Brought
<1>4. /\ at \in {"head", "probe", "revsync", "snapshot"}
      /\ at = "probe" => action = "repo_apply"
      /\ action \in {"helm_deploy", "repo_apply"} => brings \in {"generated", "chart", "manifest"}
      /\ at = "revsync" => action = "git_revert"
      /\ at = "snapshot" => action = "undeploy"
  BY <1>3, <1>2 DEF FirstStep, Actions, Brings
<1> HIDE DEF at
<1>5. NoRequest \in RequestStates
  <2>1. <<>> \in Histories BY EmptySeq DEF Histories
  <2>2. 0 \in 0..MaxPolls BY GitOpsAssumption
  <2>3. QED BY <2>1, <2>2
    DEF NoRequest, RequestStates, Stages, Actions, Targets, Brought, Changes
<1>6. /\ row \in RequestStates /\ row.at = at /\ row.read = {} /\ row.action = action
      /\ row.undoes = undoes /\ row.brings = brings
  <2>1. at \in Stages BY <1>4 DEF Stages, Steps
  <2>2. NoRequest.read = {} BY DEF NoRequest
  <2>3. QED BY <1>3, <1>5, <2>1, <2>2 DEF RequestStates
<1>7. req' = [req EXCEPT ![r] = row] BY <1>2 DEF at, Asked
<1> HIDE DEF row
<1>8. /\ req' \in [Requests -> RequestStates] /\ req'[r] = row
      /\ \A q \in Requests \ {r} : req'[q] = req[q]
  BY <1>6, <1>7 DEF Types
<1>9. /\ req[r].at = "none" /\ UNCHANGED <<env, mirror, remote, cluster, restarts>>
      /\ met' = [q \in Requests |->
                  IF q = r THEN {p \in Requests : Active(p)}
                  ELSE IF Active(q) THEN met[q] \cup {r} ELSE met[q]]
  BY DEF Arrive
<1>10. /\ met' \in [Requests -> SUBSET Requests]
      /\ met'[r] = {p \in Requests : Active(p)}
      /\ \A q \in Requests \ {r} : met'[q] = IF Active(q) THEN met[q] \cup {r} ELSE met[q]
  BY <1>9 DEF Types
<1>11. QED BY <1>2, <1>4, <1>6, <1>8, <1>9, <1>10 DEF Arrives

Restarts ==
    /\ Sync /\ UNCHANGED <<env, remote, cluster, met>> /\ restarts' \in 0..MaxRestarts
    /\ req' \in [Requests -> RequestStates]
    /\ \A q \in Requests :
          IF Active(q) THEN req'[q].at = "lost" /\ req'[q].action = req[q].action
                            /\ req'[q].read = {}
          ELSE req'[q] = req[q]

LEMMA RestartRestarts ==
    ASSUME Types, Restart
    PROVE  Restarts
<1> DEFINE lost(q) == [NoRequest EXCEPT !.at = "lost", !.action = req[q].action]
<1>1. NoRequest \in RequestStates
  <2>1. <<>> \in Histories BY EmptySeq DEF Histories
  <2>2. 0 \in 0..MaxPolls BY GitOpsAssumption
  <2>3. QED BY <2>1, <2>2
    DEF NoRequest, RequestStates, Stages, Actions, Targets, Brought, Changes
<1>2. ASSUME NEW q \in Requests
      PROVE  /\ lost(q) \in RequestStates /\ lost(q).at = "lost" /\ lost(q).read = {}
             /\ lost(q).action = req[q].action
  <2>1. req[q].action \in Actions BY DEF Types, RequestStates
  <2>2. NoRequest.read = {} BY DEF NoRequest
  <2>3. QED BY <1>1, <2>1, <2>2 DEF RequestStates, Stages
<1>3. req' = [q \in Requests |-> IF Active(q) THEN lost(q) ELSE req[q]]
  BY DEF Restart
<1> HIDE DEF lost
<1>4. req' \in [Requests -> RequestStates] BY <1>2, <1>3 DEF Types
<1>5. restarts' \in 0..MaxRestarts
  <2>1. restarts < MaxRestarts /\ restarts' = restarts + 1 BY DEF Restart
  <2>2. QED BY <2>1, GitOpsAssumption DEF Types
<1>6. QED BY <1>2, <1>3, <1>4, <1>5 DEF Restart, Restarts

LEMMA DeveloperTree ==
    ASSUME Types, DeveloperPushes
    PROVE  /\ UNCHANGED <<env, req, mirror, cluster, met, restarts>> /\ remote' \in Remotes
           /\ DOMAIN remote' = DOMAIN remote
           /\ \A b \in DOMAIN remote \ {"main"} : remote'[b] = remote[b]
           /\ \E commit \in Commits :
                 /\ commit.add = {Developer} /\ commit.del = {}
                 /\ remote'["main"] = Append(remote["main"], commit)
<1> DEFINE commit == [by |-> Developer, add |-> {Developer}, del |-> {}]
           longer == Append(remote["main"], commit)
<1>1. commit \in Commits /\ commit.add = {Developer} /\ commit.del = {} BY DEF Commits, Changes
<1>2. longer \in Histories BY <1>1, MirrorTypes, AppendedContent
<1>3. remote' = [remote EXCEPT !["main"] = longer] BY DEF DeveloperPushes
<1> HIDE DEF longer
<1>4. /\ DOMAIN remote' = DOMAIN remote /\ remote'["main"] = longer
      /\ \A b \in DOMAIN remote \ {"main"} : remote'[b] = remote[b]
      /\ remote' = [b \in DOMAIN remote' |-> remote'[b]]
  BY <1>3, MirrorTypes
<1>5. remote' \in Remotes
  <2>1. \A b \in DOMAIN remote' : remote'[b] \in Histories BY <1>2, <1>4, MirrorTypes
  <2>2. QED BY <1>4, <2>1, MirrorTypes, RemoteTypes
<1>6. QED BY <1>1, <1>4, <1>5 DEF DeveloperPushes, longer

LEMMA NextKinds ==
    ASSUME Types, RequestsInv, Next
    PROVE  \/ \E r \in Requests : Does(r) \/ Arrives(r)
           \/ DeveloperPushes
           \/ Restarts
  BY ServeDoes, ArriveArrives, RestartRestarts DEF Next, Progress, RequestsInv

LEMMA NextTypes ==
    ASSUME Types, RequestsInv, Next
    PROVE  Types'
<1>1. ASSUME NEW r \in Requests, Does(r) PROVE Types'
  <2>1. /\ UNCHANGED <<env, met, restarts>> /\ cluster' \in Clusters
        /\ req' \in [Requests -> RequestStates]
    BY <1>1 DEF Does, Moves, MayFollow, SameRequest
  <2>2. ASSUME mirror' \in Mirrors, remote' \in Remotes PROVE Types'
    BY <2>1, <2>2 DEF Types
  <2>3. mirror \in Mirrors /\ remote \in Remotes /\ OnItsWay(r) BY DEF Types, RequestsInv
  <2>4. CASE Still(r) BY <2>2, <2>3, <2>4 DEF Still
  <2>5. CASE Syncs(r) BY <2>2, <2>3, <2>5, SyncTypes DEF Syncs
  <2>6. CASE Branched(r) BY <2>2, <2>3, <2>6, BranchedTree DEF Branched
  <2>7. CASE Wrote(r) BY <2>2, <2>3, <2>7, WroteTree DEF Wrote
  <2>8. CASE Added(r) BY <2>2, <2>3, <2>8, AddedTree DEF Added
  <2>9. CASE Committed(r) BY <2>2, <2>3, <2>9, CommittedTree DEF Committed
  <2>10. CASE Pushed(r) BY <2>2, <2>10, PushedTree DEF Pushed, Branches
  <2>11. CASE Returned(r) BY <2>2, <2>3, <2>11, ReturnedTree DEF Returned
  <2>12. CASE Reverted(r) BY <2>2, <2>3, <2>12, RevertedTree DEF Reverted
  <2>13. CASE RevertPushed(r) BY <2>2, <2>13, PushedTree DEF RevertPushed, Branches
  <2>14. QED
    BY <1>1, <2>4, <2>5, <2>6, <2>7, <2>8, <2>9, <2>10, <2>11, <2>12, <2>13 DEF Does
<1>2. ASSUME NEW r \in Requests, Arrives(r) PROVE Types'
  BY <1>2 DEF Arrives, Types
<1>3. CASE DeveloperPushes BY <1>3, DeveloperTree DEF Types
<1>4. CASE Restarts BY <1>4, SyncTypes DEF Restarts, Types
<1>5. QED BY <1>1, <1>2, <1>3, <1>4, NextKinds

-----------------------------------------------------------------------------
(* Requests go their way *)

LEMMA NextOnItsWay ==
    ASSUME Types, RequestsInv, Next
    PROVE  \A r \in Requests : OnItsWay(r)'
<1> SUFFICES ASSUME NEW r \in Requests PROVE OnItsWay(r)'
  OBVIOUS
<1>1. OnItsWay(r) BY DEF RequestsInv
<1>2. ASSUME NEW q \in Requests, Does(q) PROVE OnItsWay(r)'
  <2>1. MayFollow(q) /\ UNCHANGED <<env, met>> BY <1>2 DEF Does, Moves
  <2>2. CASE q # r
    <3>1. req'[r] = req[r] BY <2>1, <2>2 DEF MayFollow, SameRequest
    <3>2. QED BY <1>1, <2>1, <3>1 DEF OnItsWay
  <2>3. CASE q = r
    <3> USE DEF MayFollow, SameRequest
    <3>1. req'[r].at # "none" /\ req'[r].action = req[r].action BY <2>1, <2>3
    <3>2. req'[r].at \in RevertSteps => req'[r].action = "git_revert" /\ req'[r].undoes \in Requests
      BY <1>1, <2>1, <2>3 DEF OnItsWay
    <3>3. req'[r].at \in UndeploySteps => req'[r].action = "undeploy"
      BY <1>1, <2>1, <2>3 DEF OnItsWay
    <3>4. /\ req'[r].at = "probe" => req'[r].action \in {"helm_deploy", "repo_apply"}
          /\ req'[r].at \in Steps /\ req'[r].action \in {"helm_deploy", "repo_apply"} =>
                req'[r].brings \in {"generated", "chart", "manifest"}
          /\ req'[r].at = "kubectl" => req'[r].brings = "manifest"
      BY <1>1, <2>1, <2>3 DEF OnItsWay
    <3>5. req'[r].at \in {"branch", "back"} => env'.set.pr
      BY <2>1, <2>3
    <3>6. req'[r].at \in {"branch", "write"} =>
             r \in req'[r].read /\ \A c \in req'[r].read : env'.manifest[c] = env'.manifest[r]
      <4>1. /\ req'[r].at = "branch" => req'[r].read = Patched(r)
            /\ req'[r].at = "write" =>
                  \/ req'[r].read = Patched(r)
                  \/ req[r].at = "branch" /\ req'[r].read = req[r].read
        BY <2>1, <2>3
      <4>2. r \in Patched(r) /\ \A c \in Patched(r) : env.manifest[c] = env.manifest[r]
        BY DEF Patched, In
      <4>3. env' = env BY <2>1
      <4>4. QED BY <1>1, <4>1, <4>2, <4>3 DEF OnItsWay
    <3>7. QED BY <3>1, <3>2, <3>3, <3>4, <3>5, <3>6 DEF OnItsWay
  <2>4. QED BY <2>2, <2>3
<1>3. ASSUME NEW q \in Requests, Arrives(q) PROVE OnItsWay(r)'
  <2>1. CASE q # r
    <3>1. req'[r] = req[r] /\ env' = env /\ (~Active(r) => met'[r] = met[r])
      BY <1>3, <2>1 DEF Arrives
    <3>2. req[r].at = "none" => ~Active(r) BY DEF Active, Steps
    <3>3. QED BY <1>1, <3>1, <3>2 DEF OnItsWay
  <2>2. CASE q = r
    BY <1>3, <2>2 DEF Arrives, OnItsWay, RevertSteps, UndeploySteps
  <2>3. QED BY <2>1, <2>2
<1>4. CASE DeveloperPushes
  BY <1>1, <1>4, DeveloperTree DEF OnItsWay
<1>5. CASE Restarts
  <2>1. UNCHANGED <<env, met>> BY <1>5 DEF Restarts
  <2>2. CASE Active(r)
    BY <1>5, <2>2 DEF Restarts, OnItsWay, RevertSteps, UndeploySteps, Steps
  <2>3. CASE ~Active(r)
    <3>1. req'[r] = req[r] BY <1>5, <2>3 DEF Restarts
    <3>2. QED BY <1>1, <2>1, <3>1 DEF OnItsWay
  <2>4. QED BY <2>2, <2>3
<1>6. QED BY <1>2, <1>3, <1>4, <1>5, NextKinds

LEMMA NextAcquainted ==
    ASSUME Types, RequestsInv, Next
    PROVE  Acquainted'
<1> SUFFICES ASSUME NEW q \in Requests, NEW r \in Requests, q # r,
                    req'[q].at \in Steps, req'[r].at \in Steps
             PROVE  q \in met'[r]
  BY DEF Acquainted, Active
<1>1. req[q].at \in Steps /\ req[r].at \in Steps => q \in met[r]
  BY DEF RequestsInv, Acquainted, Active
<1>2. ASSUME NEW p \in Requests, Does(p) PROVE q \in met'[r]
  BY <1>1, <1>2 DEF Does, Moves, MayFollow, SameRequest
<1>3. ASSUME NEW p \in Requests, Arrives(p) PROVE q \in met'[r]
  BY <1>1, <1>3 DEF Arrives, Active
<1>4. CASE DeveloperPushes BY <1>1, <1>4, DeveloperTree
<1>5. ~Restarts
  <2>1. "lost" \notin Steps BY DEF Steps
  <2>2. QED BY <2>1 DEF Restarts, Active
<1>6. QED BY <1>2, <1>3, <1>4, <1>5, NextKinds

\* Who asks for a revert has done so before, or does so now.
LEMMA RevertsStay ==
    ASSUME Types, RequestsInv, Next
    PROVE  \A r \in Requests : req[r].at # "none" =>
              req'[r].at # "none" /\ req'[r].action = req[r].action
<1>1. ASSUME NEW r \in Requests, NEW q \in Requests, Does(q), req[r].at # "none"
      PROVE  req'[r].at # "none" /\ req'[r].action = req[r].action
  BY <1>1 DEF Does, Moves, MayFollow, SameRequest
<1>2. ASSUME NEW r \in Requests, NEW q \in Requests, Arrives(q), req[r].at # "none"
      PROVE  req'[r].at # "none" /\ req'[r].action = req[r].action
  BY <1>2 DEF Arrives
<1>3. ASSUME NEW r \in Requests, Restarts, req[r].at # "none"
      PROVE  req'[r].at # "none" /\ req'[r].action = req[r].action
  BY <1>3 DEF Restarts
<1>4. CASE DeveloperPushes BY <1>4, DeveloperTree
<1>5. QED BY <1>1, <1>2, <1>3, <1>4, NextKinds

NoReverts == \A q \in Requests : req[q].action # "git_revert"

LEMMA RevertsRemain ==
    ASSUME Types, RequestsInv, Next, NoReverts'
    PROVE  NoReverts
<1> SUFFICES ASSUME NEW r \in Requests PROVE req[r].action # "git_revert"
  BY DEF NoReverts
<1>1. CASE req[r].at = "none" BY <1>1 DEF RequestsInv, OnItsWay
<1>2. CASE req[r].at # "none" BY <1>2, RevertsStay DEF NoReverts
<1>3. QED BY <1>1, <1>2

LEMMA NextConflictsStay ==
    ASSUME Types, RequestsInv, Next
    PROVE  ConflictsStay'
<1> DEFINE Apart == NoReverts => ~IsPrefix(remote["main"], mirror.local["main"])
<1> SUFFICES ASSUME ~env'.set.pr
             PROVE  mirror'.branch \in {"main", "detached"} /\ (mirror'.branch = "detached" => Apart')
  BY DEF ConflictsStay, NoReverts
<1>1. env' = env
  BY NextKinds, DeveloperTree DEF Does, Arrives, Restarts
<1>2. ~env.set.pr /\ mirror.branch \in {"main", "detached"} /\ (mirror.branch = "detached" => Apart)
  BY <1>1 DEF RequestsInv, ConflictsStay, NoReverts
<1>3. NoReverts' => NoReverts BY RevertsRemain
<1>4. ASSUME mirror'.branch = mirror.branch, mirror'.local["main"] = mirror.local["main"],
             remote'["main"] = remote["main"]
      PROVE  mirror'.branch \in {"main", "detached"} /\ (mirror'.branch = "detached" => Apart')
  BY <1>2, <1>3, <1>4
<1>5. ASSUME Sync, UNCHANGED remote
      PROVE  mirror'.branch \in {"main", "detached"} /\ (mirror'.branch = "detached" => Apart')
  <2>1. CASE UNCHANGED mirror BY <1>4, <1>5, <2>1
  <2>2. CASE ~UNCHANGED mirror
    <3>1. PICK branch \in {mirror.branch, "detached"}, new \in Histories :
             /\ mirror.branch # "detached"
             /\ mirror'.branch = branch /\ mirror'.local = [mirror.local EXCEPT ![branch] = new]
             /\ \/ branch = mirror.branch
                \/ branch = "detached" /\ \E d \in ToSet(remote["main"]) : d \notin ToSet(HEAD)
      BY <1>5, <2>2, SyncOutcomes
    <3>2. CASE branch = mirror.branch BY <1>2, <3>1, <3>2
    <3>3. CASE branch = "detached"
      <4>1. \E d \in ToSet(remote["main"]) : d \notin ToSet(mirror.local["main"])
        BY <1>2, <3>1, <3>3 DEF HEAD
      <4>2. ~IsPrefix(remote["main"], mirror.local["main"])
        <5>1. remote["main"] \in Histories /\ mirror.local["main"] \in Histories
          BY MirrorTypes DEF Branches
        <5>2. QED BY <4>1, <5>1, NoPrefix
      <4>3. mirror'.local["main"] = mirror.local["main"]
        BY <3>1, <3>3, MirrorTypes DEF Branches
      <4>4. QED BY <1>5, <3>1, <3>3, <4>2, <4>3
    <3>4. QED BY <3>2, <3>3
  <2>3. QED BY <2>1, <2>2
<1>6. ASSUME NEW r \in Requests, Does(r)
      PROVE  mirror'.branch \in {"main", "detached"} /\ (mirror'.branch = "detached" => Apart')
  <2>1. OnItsWay(r) /\ r \in Branches BY DEF RequestsInv, Branches
  <2>2. CASE Still(r) BY <1>4, <2>2 DEF Still
  <2>3. CASE Syncs(r) BY <1>5, <2>3 DEF Syncs
  <2>4. CASE Branched(r) BY <1>2, <2>1, <2>4 DEF Branched, OnItsWay
  <2>5. CASE Wrote(r) BY <1>4, <2>5, WroteTree DEF Wrote
  <2>6. CASE Added(r) BY <1>4, <2>6, AddedTree DEF Added
  <2>7. CASE Committed(r)
    <3>1. mirror'.branch = mirror.branch /\ UNCHANGED remote
          /\ mirror'.local = [mirror.local EXCEPT ![mirror.branch] = HEAD']
      BY <2>7, CommittedTree DEF Committed
    <3>2. CASE mirror.branch = "main" BY <3>1, <3>2
    <3>3. CASE mirror.branch = "detached"
      <4>1. mirror'.local["main"] = mirror.local["main"]
        BY <3>1, <3>3, MirrorTypes DEF Branches
      <4>2. QED BY <1>4, <3>1, <4>1
    <3>4. QED BY <1>2, <3>2, <3>3
  <2>8. CASE Pushed(r)
    <3>1. CanPush("main") /\ PushBranch("main") BY <1>2, <2>8 DEF Pushed
    <3>2. mirror'.branch = mirror.branch BY <3>1, PushedTree DEF Branches
    <3>3. mirror.branch = "detached" => ~NoReverts
      BY <1>2, <3>1, MirrorTypes DEF CanPush
    <3>4. QED BY <1>2, <1>3, <3>2, <3>3
  <2>9. CASE Returned(r) BY <2>9 DEF Returned
  <2>10. CASE Reverted(r) \/ RevertPushed(r)
    <3>1. req[r].action = "git_revert" /\ req[r].at # "none"
      BY <2>1, <2>10 DEF OnItsWay, Reverted, RevertPushed, RevertSteps
    <3>2. ~NoReverts' BY <1>3, <3>1 DEF NoReverts
    <3>3. mirror'.branch = mirror.branch
      <4>1. CASE RevertPushed(r) BY <4>1, PushedTree DEF RevertPushed, Branches
      <4>2. CASE Reverted(r) BY <2>1, <4>2, RevertedTree
      <4>3. QED BY <2>10, <4>1, <4>2
    <3>4. QED BY <1>2, <3>2, <3>3
  <2>11. QED
    BY <1>6, <2>2, <2>3, <2>4, <2>5, <2>6, <2>7, <2>8, <2>9, <2>10 DEF Does
<1>7. ASSUME NEW r \in Requests, Arrives(r)
      PROVE  mirror'.branch \in {"main", "detached"} /\ (mirror'.branch = "detached" => Apart')
  BY <1>4, <1>7 DEF Arrives
<1>8. CASE DeveloperPushes
  <2>1. PICK commit \in Commits : remote'["main"] = Append(remote["main"], commit)
    BY <1>8, DeveloperTree
  <2>2. mirror' = mirror BY <1>8, DeveloperTree
  <2>3. remote["main"] \in Histories /\ mirror.local["main"] \in Histories
    BY MirrorTypes DEF Branches
  <2>4. ~IsPrefix(remote["main"], mirror.local["main"])
        => ~IsPrefix(remote'["main"], mirror.local["main"])
    BY <2>1, <2>3, NoPrefix
  <2>5. QED BY <1>2, <1>3, <2>2, <2>4
<1>9. CASE Restarts BY <1>5, <1>9 DEF Restarts
<1>10. QED BY <1>6, <1>7, <1>8, <1>9, NextKinds

LEMMA NextRequests ==
    ASSUME Types, RequestsInv, Next
    PROVE  RequestsInv'
  BY NextOnItsWay, NextAcquainted, NextConflictsStay DEF RequestsInv

-----------------------------------------------------------------------------
(* Changes go their way *)

LEMMA DisturbedStays ==
    ASSUME Types, RequestsInv, Next, NEW r \in Requests, Disturbed(r)
    PROVE  Disturbed(r)'
<1>1. env' = env
  BY NextKinds, DeveloperTree DEF Does, Arrives, Restarts
<1>2. met[r] \subseteq met'[r]
  <2>1. \A q \in Requests : Arrives(q) => met[r] \subseteq met'[r]
    <3> SUFFICES ASSUME NEW q \in Requests, Arrives(q) PROVE met[r] \subseteq met'[r]
      OBVIOUS
    <3>1. CASE q = r
      <4>1. met[r] = {} BY <3>1 DEF Arrives, RequestsInv, OnItsWay
      <4>2. QED BY <4>1
    <3>2. CASE q # r BY <3>2 DEF Arrives
    <3>3. QED BY <3>1, <3>2
  <2>2. QED BY <2>1, NextKinds, DeveloperTree DEF Does, Restarts
<1>3. CASE \E q \in met[r] : env.set.pr \/ env.manifest[q] = env.manifest[r]
  BY <1>1, <1>2, <1>3 DEF Disturbed
<1>4. CASE \E q \in Requests : req[q].at # "none" /\ req[q].action = "git_revert"
  BY <1>4, RevertsStay DEF Disturbed
<1>5. QED BY <1>3, <1>4 DEF Disturbed

\* A request that is served next to an undisturbed one works on another manifest of the main branch.
LEMMA OthersElsewhere ==
    ASSUME Types, RequestsInv, NEW q \in Requests, NEW r \in Requests, q # r,
           Active(q), Active(r), ~Disturbed(r)
    PROVE  ~env.set.pr /\ env.manifest[q] # env.manifest[r]
  BY DEF RequestsInv, Acquainted, Disturbed

\* An undisturbed change is not moved back by what a sync does.
LEMMA SyncKeeps ==
    ASSUME Types, Sync, UNCHANGED <<env, remote>>, NEW r \in Changes
    PROVE  /\ Untouched(r) => Untouched(r)'
           /\ InFile(r) => InFile(r)'
           /\ InIndex(r) => InIndex(r)'
           /\ OnBranch(r) => OnBranch(r)'
           /\ Landed(r) => Landed(r)'
<1>1. CASE UNCHANGED mirror
  BY <1>1 DEF Untouched, InFile, InIndex, OnBranch, Landed, Kept, NotAdded, NotDeleted, HEAD, OnRemote
<1>2. CASE ~UNCHANGED mirror
  <2>1. mirror.files = Content(HEAD) /\ mirror.index = Content(HEAD) /\ mirror.branch # "detached"
    BY <1>2, SyncOutcomes
  <2>2. PICK branch \in {mirror.branch, "detached"}, new \in Histories :
           /\ mirror'.branch = branch /\ mirror'.local = [mirror.local EXCEPT ![branch] = new]
           /\ mirror'.files = Content(new) /\ mirror'.index = Content(new)
           /\ \A c : Adds(new, c) => Adds(remote["main"], c) \/ Adds(HEAD, c)
           /\ \A c : Deletes(new, c) => Deletes(remote["main"], c) \/ Deletes(HEAD, c)
           /\ \/ branch = mirror.branch /\ \A c : Adds(HEAD, c) => Adds(new, c)
              \/ branch = "detached"
    BY <1>2, SyncOutcomes
  <2>3. /\ branch \in Branches /\ mirror.branch \in Branches
        /\ mirror.local \in [Branches -> Histories] /\ "main" \in DOMAIN remote
    BY MirrorTypes DEF Branches
  <2>4. HEAD' = new BY <2>2, <2>3 DEF HEAD
  <2>5. NotAdded(r) => NotAdded(r)' BY <2>2, <2>3 DEF NotAdded, HEAD
  <2>6. NotDeleted(r) => NotDeleted(r)' BY <2>2, <2>3 DEF NotDeleted, HEAD
  <2>7. \A h \in {HEAD, new} : r \in Content(h) => Adds(h, r) BY ContentIsAdded
  <2>8. NotAdded(r) => r \notin Content(HEAD) /\ ~Adds(HEAD, r)
    BY <2>3, <2>7 DEF NotAdded, HEAD
  <2>9. NotAdded(r) => r \notin Content(new)
    BY <2>2, <2>3, <2>7, <2>8 DEF NotAdded
  <2>10. NotDeleted(r) => Kept(r)'
    BY <2>2, <2>4, <2>6 DEF Kept
  <2>11. NotDeleted(r) /\ mirror'.branch # "detached" /\ r \in Content(HEAD) => r \in Content(new)
    <3>1. NotDeleted(r) => ~Deletes(new, r) BY <2>2, <2>3 DEF NotDeleted, HEAD
    <3>2. r \in Content(HEAD) /\ mirror'.branch # "detached" => Adds(new, r) BY <2>2, <2>7
    <3>3. QED BY <3>1, <3>2, UndeletedIsContent
  <2>12. Untouched(r) => Untouched(r)'
    BY <2>2, <2>5, <2>6, <2>9 DEF Untouched
  <2>13. ~InFile(r) BY <2>1, <2>8 DEF InFile
  <2>14. InIndex(r) => InIndex(r)'
    BY <2>1, <2>2, <2>10, <2>11 DEF InIndex, Kept
  <2>15. OnBranch(r) => OnBranch(r)'
    BY <2>1, <2>4, <2>10, <2>11 DEF OnBranch, Kept
  <2>16. Landed(r) => Landed(r)' BY <2>10 DEF Landed, Kept, OnRemote
  <2>17. QED BY <2>12, <2>13, <2>14, <2>15, <2>16
<1>3. QED BY <1>1, <1>2

\* Another request does not move it back either: it works on another manifest, unless the change is
\* in no tree yet.
LEMMA OthersKeep ==
    ASSUME Types, RequestsInv, NEW q \in Requests, NEW r \in Requests, q # r, Does(q), ~Disturbed(r)
    PROVE  /\ Untouched(r) /\ r \notin req[q].read => Untouched(r)'
           /\ ~env.set.pr /\ env.manifest[q] # env.manifest[r] =>
                 /\ InFile(r) => InFile(r)'
                 /\ InIndex(r) => InIndex(r)'
                 /\ OnBranch(r) => OnBranch(r)'
                 /\ Landed(r) => Landed(r)'
<1> USE DEF Untouched, InFile, InIndex, OnBranch, Landed, Kept
<1>1. r \in Changes /\ env' = env /\ OnItsWay(q) BY DEF Changes, Does, RequestsInv
<1>2. NotAdded(r) => r \notin Content(HEAD) /\ r \notin Content(mirror.local["main"])
  BY ContentIsAdded, MirrorTypes DEF NotAdded, HEAD, Branches
<1>3. CASE Still(q)
  BY <1>1, <1>3 DEF Still, NotAdded, NotDeleted, HEAD, OnRemote
<1>4. CASE Syncs(q) BY <1>1, <1>4, SyncKeeps DEF Syncs
<1>5. ASSUME mirror'.local = mirror.local, remote' = remote
      PROVE  /\ NotAdded(r)' = NotAdded(r) /\ NotDeleted(r)' = NotDeleted(r)
             /\ OnRemote(r)' = OnRemote(r)
  BY <1>5 DEF NotAdded, NotDeleted, OnRemote
<1>6. CASE Branched(q)
  <2>1. env.set.pr BY <1>1, <1>6 DEF OnItsWay, Branched
  <2>2. /\ mirror'.local = [mirror.local EXCEPT ![q] = HEAD] /\ remote' = remote
        /\ mirror'.files = mirror.files /\ mirror'.index = mirror.index
        /\ mirror.local \in [Branches -> Histories] /\ mirror.branch \in Branches
    BY <1>6, BranchedTree, MirrorTypes DEF Branched
  <2>3. \A b \in Branches : mirror'.local[b] \in {mirror.local[b], mirror.local[mirror.branch]}
    BY <2>2 DEF HEAD
  <2>4. NotAdded(r) => NotAdded(r)' BY <2>2, <2>3 DEF NotAdded
  <2>5. NotDeleted(r) => NotDeleted(r)' BY <2>2, <2>3 DEF NotDeleted
  <2>6. QED BY <2>1, <2>2, <2>4, <2>5
<1>7. CASE Wrote(q)
  <2>1. /\ mirror'.branch = mirror.branch /\ mirror'.local = mirror.local /\ HEAD' = HEAD
        /\ mirror'.index = mirror.index /\ mirror'.files = With(mirror.files, q) /\ remote' = remote
    BY <1>7, WroteTree DEF Wrote
  <2>2. r \notin mirror.files /\ r \notin req[q].read => r \notin mirror'.files
    BY <2>1 DEF With
  <2>3. r \in mirror.files /\ env.manifest[q] # env.manifest[r] => r \in mirror'.files
    BY <2>1 DEF With
  <2>4. QED BY <1>1, <1>5, <2>1, <2>2, <2>3
<1>8. CASE Added(q)
  <2>1. /\ mirror'.branch = mirror.branch /\ mirror'.local = mirror.local /\ HEAD' = HEAD
        /\ mirror'.files = mirror.files /\ remote' = remote
        /\ mirror'.index = {c \in mirror.index : env.manifest[c] # env.manifest[q]}
                           \cup In(mirror.files, env.manifest[q])
    BY <1>8, AddedTree DEF Added
  <2>2. r \notin mirror.files /\ r \notin mirror.index => r \notin mirror'.index
    BY <2>1 DEF In
  <2>3. env.manifest[q] # env.manifest[r] => (r \in mirror'.index <=> r \in mirror.index)
    BY <2>1 DEF In
  <2>4. QED BY <1>1, <1>5, <2>1, <2>2, <2>3
<1>9. CASE Committed(q)
  <2>1. /\ mirror'.branch = mirror.branch /\ mirror.branch \in Branches /\ remote' = remote
        /\ mirror'.files = mirror.files /\ mirror'.index = mirror.index
        /\ mirror'.local = [mirror.local EXCEPT ![mirror.branch] = HEAD']
        /\ Content(HEAD') = mirror.index
        /\ Adds(HEAD', r) => Adds(HEAD, r) \/ r \in mirror.index
        /\ Deletes(HEAD', r) => Deletes(HEAD, r) \/ (r \in Content(HEAD) /\ r \notin mirror.index)
    BY <1>9, CommittedTree, MirrorTypes DEF Committed
  <2>2. NotAdded(r) /\ r \notin mirror.index => NotAdded(r)'
    BY <2>1, MirrorTypes DEF NotAdded, HEAD
  <2>3. NotDeleted(r) /\ (r \in Content(HEAD) => r \in mirror.index) => NotDeleted(r)'
    BY <2>1, MirrorTypes DEF NotDeleted, HEAD
  <2>4. OnRemote(r)' = OnRemote(r) BY <2>1 DEF OnRemote
  <2>5. QED BY <1>1, <1>2, <2>1, <2>2, <2>3, <2>4
<1>10. CASE Pushed(q)
  <2> DEFINE b == IF env.set.pr THEN q ELSE "main"
  <2>1. b \in Branches /\ CanPush(b) /\ PushBranch(b) BY <1>10 DEF Pushed, Branches
  <2> HIDE DEF b
  <2>2. /\ mirror'.branch = mirror.branch /\ mirror'.local = mirror.local /\ HEAD' = HEAD
        /\ mirror'.files = mirror.files /\ mirror'.index = mirror.index
        /\ DOMAIN remote' = DOMAIN remote \cup {b} /\ remote'[b] = mirror.local[b]
        /\ \A d \in DOMAIN remote \ {b} : remote'[d] = remote[d]
    BY <2>1, PushedTree
  <2>3. NotAdded(r) => NotAdded(r)' BY <2>1, <2>2 DEF NotAdded
  <2>4. NotDeleted(r) => NotDeleted(r)' BY <2>1, <2>2 DEF NotDeleted
  <2>5. NotDeleted(r) /\ OnRemote(r) => OnRemote(r)'
    <3> SUFFICES ASSUME NotDeleted(r), NEW d \in DOMAIN remote, r \in Content(remote[d])
                 PROVE  \E e \in DOMAIN remote' : r \in Content(remote'[e])
      BY DEF OnRemote
    <3>1. CASE d # b BY <2>2, <3>1
    <3>2. CASE d = b
      <4>1. IsPrefix(remote[b], mirror.local[b]) BY <2>1, <3>2 DEF CanPush
      <4>2. remote[b] \in Histories /\ mirror.local[b] \in Histories
        BY <2>1, <3>2, MirrorTypes
      <4>3. Adds(remote[b], r) BY <3>2, ContentIsAdded
      <4>4. Adds(mirror.local[b], r) BY <4>1, <4>2, <4>3, PrefixAdds
      <4>5. ~Deletes(mirror.local[b], r) BY <2>1 DEF NotDeleted
      <4>6. r \in Content(mirror.local[b]) BY <1>1, <4>4, <4>5, UndeletedIsContent
      <4>7. QED BY <2>2, <4>6
    <3>3. QED BY <3>1, <3>2
  <2>6. QED BY <1>1, <2>2, <2>3, <2>4, <2>5
<1>11. CASE Returned(q)
  <2>1. env.set.pr BY <1>1, <1>11 DEF OnItsWay, Returned
  <2>2. /\ mirror'.local = mirror.local /\ remote' = remote
        /\ mirror'.files \subseteq mirror.files \cup Content(mirror.local["main"])
        /\ mirror'.index \subseteq mirror.index \cup Content(mirror.local["main"])
    BY <1>11, ReturnedTree DEF Returned
  <2>3. QED BY <1>2, <1>5, <2>1, <2>2
<1>12. ~Reverted(q) /\ ~RevertPushed(q)
  <2>1. Reverted(q) \/ RevertPushed(q) => req[q].at # "none" /\ req[q].action = "git_revert"
    BY <1>1 DEF OnItsWay, Reverted, RevertPushed, RevertSteps
  <2>2. QED BY <2>1 DEF Disturbed
<1>13. QED
  BY <1>3, <1>4, <1>6, <1>7, <1>8, <1>9, <1>10, <1>11, <1>12 DEF Does

\* What a request reads of its manifest holds no change that is in no tree.
LEMMA UnwrittenUnread ==
    ASSUME Types, NEW q \in Requests, NEW r \in Requests, Does(q), ChangeOnItsWay(r),
           req'[r].at \in Unwritten
    PROVE  /\ req[r].at \in Unwritten /\ Untouched(r)
           /\ \A p \in Requests \ {r} : r \notin req'[p].read /\ r \notin req[p].read
<1>1. req[r].at \in Unwritten BY DEF Does, Moves, MayFollow, SameRequest
<1>2. Untouched(r) /\ \A p \in Requests \ {r} : r \notin req[p].read
  BY <1>1 DEF ChangeOnItsWay
<1>3. ASSUME NEW p \in Requests \ {r} PROVE r \notin req'[p].read
  <2>1. p # q => req'[p] = req[p] BY DEF Does, Moves, MayFollow, SameRequest
  <2>2. p = q => \/ req'[p].read \in {req[p].read, {}}
                 \/ req'[p].read = Patched(p)
    BY DEF Does, Moves, MayFollow
  <2>3. r \notin Patched(p) BY <1>2 DEF Untouched, Patched, In
  <2>4. QED BY <1>2, <2>1, <2>2, <2>3
<1>4. QED BY <1>1, <1>2, <1>3

LEMMA OthersChange ==
    ASSUME Types, RequestsInv, NEW q \in Requests, NEW r \in Requests, q # r, Does(q),
           ~Disturbed(r), ChangeOnItsWay(r)
    PROVE  ChangeOnItsWay(r)'
<1>1. /\ req'[r] = req[r] /\ env' = env /\ Active(q) /\ OnItsWay(q)
      /\ cluster.applied \subseteq cluster'.applied
  BY DEF Does, Moves, MayFollow, SameRequest, Active, RequestsInv
<1>2. CASE req[r].at \in Unwritten
  <2>1. Untouched(r)' /\ \A p \in Requests \ {r} : r \notin req'[p].read
    BY <1>1, <1>2, OthersKeep, UnwrittenUnread
  <2>2. req[r].at \notin {"add", "commit", "log", "push", "back", "argo"}
    BY <1>2 DEF Unwritten
  <2>3. req[r].at = "write" => ~env.set.pr
    BY <1>1, OthersElsewhere DEF Active, Steps
  <2>4. QED BY <1>1, <1>2, <2>1, <2>2, <2>3 DEF ChangeOnItsWay
<1>3. CASE req[r].at \in {"add", "commit", "log", "push", "back", "argo"}
  <2>1. ~env.set.pr /\ env.manifest[q] # env.manifest[r]
    BY <1>1, <1>3, OthersElsewhere DEF Active, Steps
  <2>2. req[r].at \notin Unwritten BY <1>3 DEF Unwritten
  <2>3. OnlyReported(r)' = OnlyReported(r) BY <1>1 DEF OnlyReported
  <2>4. QED BY <1>1, <2>1, <2>2, <2>3, OthersKeep DEF ChangeOnItsWay
<1>4. CASE req[r].at \notin Unwritten \cup {"add", "commit", "log", "push", "back", "argo"}
  BY <1>1, <1>4 DEF ChangeOnItsWay, Unwritten
<1>5. QED BY <1>2, <1>3, <1>4

\* A step of the request itself moves its change on.
LEMMA OwnChange ==
    ASSUME Types, RequestsInv, NEW r \in Requests, Does(r), ~Disturbed(r), ChangeOnItsWay(r)
    PROVE  ChangeOnItsWay(r)'
<1>1. /\ MayFollow(r) /\ env' = env /\ OnItsWay(r) /\ r \in Changes /\ r \in Branches
      /\ cluster.applied \subseteq cluster'.applied /\ OnlyReported(r)' = OnlyReported(r)
  BY DEF Does, Moves, MayFollow, SameRequest, OnlyReported, RequestsInv, Changes, Branches
<1>2. req'[r].at \in Unwritten => /\ req[r].at \in Unwritten \ {"write"} /\ Untouched(r)
                                  /\ \A p \in Requests \ {r} : r \notin req'[p].read
  BY <1>1, UnwrittenUnread DEF MayFollow
<1>3. CASE Still(r)
  <2>1. /\ Untouched(r)' = Untouched(r) /\ OnBranch(r)' = OnBranch(r)
        /\ Landed(r)' = Landed(r) /\ mirror' = mirror
    BY <1>1, <1>3
       DEF Still, Untouched, OnBranch, Landed, Kept, NotAdded, NotDeleted, OnRemote, HEAD
  <2>2. req'[r].at \notin {"add", "commit", "log"} BY <1>1, <1>3 DEF Still, MayFollow
  <2>3. req'[r].at = "push" => req[r].at = "log" BY <1>1 DEF MayFollow
  <2>4. /\ req'[r].at = "back" => req[r].at = "push" /\ ~env.set.repo
        /\ req'[r].at = "argo" /\ ~OnlyReported(r) =>
              \/ req[r].at = "push" /\ ~env.set.repo
              \/ req[r].at \in {"back", "argo"}
              \/ r \in cluster'.applied
    BY <1>1, <1>3 DEF Still, MayFollow, Direct, OnItsWay, OnlyReported
  <2>5. req'[r].at = "back" => req[r].at = "push" BY <1>1 DEF MayFollow
  <2>6. req'[r].at = "write" => ~env.set.pr BY <1>1, <1>3 DEF Still, MayFollow
  <2>7. req[r].at = "push" /\ ~env.set.repo => Landed(r)
    BY DEF ChangeOnItsWay, OnBranch, Landed
  <2>8. req'[r].at \in {"push", "back"} /\ env.set.pr => mirror.branch = r
    BY <2>3, <2>5 DEF ChangeOnItsWay
  <2>9. req'[r].at \in {"log", "push"} => OnBranch(r)
    BY <2>2, <2>3 DEF ChangeOnItsWay
  <2>10. /\ req'[r].at = "back" => Landed(r)
         /\ req'[r].at = "argo" /\ ~OnlyReported(r) => Landed(r) \/ r \in cluster'.applied
    BY <1>1, <2>4, <2>7 DEF ChangeOnItsWay
  <2>11. QED
    BY <1>1, <1>2, <2>1, <2>2, <2>6, <2>8, <2>9, <2>10 DEF ChangeOnItsWay
<1>4. CASE Syncs(r)
  <2>1. /\ req'[r].at \in {"app", "sync", "cluster", "read", "revert", "argo", "done"}
        /\ req'[r].at = "argo" => OnlyReported(r)
    BY <1>4 DEF Syncs, OnlyReported
  <2>2. Untouched(r) => Untouched(r)' BY <1>1, <1>4, SyncKeeps DEF Syncs
  <2>3. QED BY <1>1, <1>2, <2>1, <2>2 DEF ChangeOnItsWay, Unwritten
<1>5. CASE Branched(r)
  <2>1. /\ mirror'.local = [mirror.local EXCEPT ![r] = HEAD] /\ remote' = remote
        /\ mirror'.files = mirror.files /\ mirror'.index = mirror.index /\ mirror'.branch = r
        /\ mirror.local \in [Branches -> Histories] /\ mirror.branch \in Branches
        /\ req'[r].at = "write"
    BY <1>5, BranchedTree, MirrorTypes DEF Branched
  <2>2. \A b \in Branches : mirror'.local[b] \in {mirror.local[b], mirror.local[mirror.branch]}
    BY <2>1 DEF HEAD
  <2>3. Untouched(r) => Untouched(r)'
    BY <2>1, <2>2 DEF Untouched, NotAdded, NotDeleted
  <2>4. QED BY <1>2, <2>1, <2>3 DEF ChangeOnItsWay, Unwritten
<1>6. CASE Wrote(r)
  <2>1. /\ mirror'.branch = mirror.branch /\ mirror'.local = mirror.local /\ HEAD' = HEAD
        /\ mirror'.index = mirror.index /\ mirror'.files = With(mirror.files, r) /\ remote' = remote
        /\ req[r].at = "write" /\ req'[r].at = "add"
    BY <1>6, WroteTree DEF Wrote
  <2>2. Untouched(r) /\ (env.set.pr => mirror.branch = r) BY <2>1 DEF ChangeOnItsWay, Unwritten
  <2>3. r \in mirror'.files BY <1>1, <2>1 DEF With, OnItsWay
  <2>4. InFile(r)' BY <2>1, <2>2, <2>3 DEF Untouched, InFile, NotAdded, NotDeleted
  <2>5. QED BY <1>1, <2>1, <2>2, <2>4 DEF ChangeOnItsWay, Unwritten
<1>7. CASE Added(r)
  <2>1. /\ mirror'.branch = mirror.branch /\ mirror'.local = mirror.local /\ HEAD' = HEAD
        /\ mirror'.files = mirror.files /\ remote' = remote
        /\ mirror'.index = {c \in mirror.index : env.manifest[c] # env.manifest[r]}
                           \cup In(mirror.files, env.manifest[r])
        /\ req[r].at = "add" /\ req'[r].at = "commit"
    BY <1>7, AddedTree DEF Added
  <2>2. InFile(r) /\ (env.set.pr => mirror.branch = r) BY <2>1 DEF ChangeOnItsWay
  <2>3. r \in mirror'.index BY <2>1, <2>2 DEF InFile, In
  <2>4. InIndex(r)' BY <2>1, <2>2, <2>3 DEF InFile, InIndex, Kept, NotDeleted
  <2>5. QED BY <1>1, <2>1, <2>2, <2>4 DEF ChangeOnItsWay, Unwritten
<1>8. CASE Committed(r)
  <2>1. /\ mirror'.branch = mirror.branch /\ mirror.branch \in Branches /\ remote' = remote
        /\ mirror'.index = mirror.index /\ Content(HEAD') = mirror.index
        /\ mirror'.local = [mirror.local EXCEPT ![mirror.branch] = HEAD']
        /\ Deletes(HEAD', r) => Deletes(HEAD, r) \/ (r \in Content(HEAD) /\ r \notin mirror.index)
        /\ req[r].at = "commit" /\ req'[r].at = "log"
    BY <1>8, CommittedTree, MirrorTypes DEF Committed
  <2>2. InIndex(r) /\ (env.set.pr => mirror.branch = r) BY <2>1 DEF ChangeOnItsWay
  <2>3. NotDeleted(r)' BY <2>1, <2>2, MirrorTypes DEF NotDeleted, InIndex, Kept, HEAD
  <2>4. OnBranch(r)' BY <2>1, <2>2, <2>3 DEF InIndex, OnBranch, Kept
  <2>5. QED BY <1>1, <2>1, <2>2, <2>4 DEF ChangeOnItsWay, Unwritten
<1>9. CASE Pushed(r)
  <2> DEFINE b == IF env.set.pr THEN r ELSE "main"
  <2>1. /\ b \in Branches /\ CanPush(b) /\ PushBranch(b)
        /\ req[r].at = "push" /\ req'[r].at \in {"back", "argo", "done"}
    BY <1>9 DEF Pushed, Branches
  <2>2. /\ mirror'.branch = mirror.branch /\ mirror'.local = mirror.local /\ HEAD' = HEAD
        /\ mirror'.files = mirror.files /\ mirror'.index = mirror.index
        /\ DOMAIN remote' = DOMAIN remote \cup {b} /\ remote'[b] = mirror.local[b]
        /\ \A d \in DOMAIN remote \ {b} : remote'[d] = remote[d]
    BY <2>1, PushedTree
  <2>3. OnBranch(r) /\ (env.set.pr => mirror.branch = r) BY <2>1 DEF ChangeOnItsWay
  <2>4. mirror.branch = b
    <3>1. CASE env.set.pr BY <2>3, <3>1
    <3>2. CASE ~env.set.pr
      <4>1. \A q \in Requests : req[q].action # "git_revert"
        BY DEF Disturbed, RequestsInv, OnItsWay
      <4>2. IsPrefix(remote["main"], mirror.local["main"])
        BY <2>1, <3>2, MirrorTypes DEF CanPush
      <4>3. QED BY <3>2, <4>1, <4>2 DEF RequestsInv, ConflictsStay
    <3>3. QED BY <3>1, <3>2
  <2>5. b # "detached" BY GitOpsAssumption
  <2> HIDE DEF b
  <2>6. r \in Content(mirror.local[b]) BY <2>3, <2>4, <2>5 DEF OnBranch, HEAD
  <2>7. OnRemote(r)' BY <2>2, <2>6 DEF OnRemote
  <2>8. NotDeleted(r)' BY <2>1, <2>2, <2>3 DEF NotDeleted, OnBranch, Kept
  <2>9. Landed(r)' BY <2>2, <2>3, <2>7, <2>8 DEF Landed, OnBranch, Kept
  <2>10. QED BY <1>1, <2>1, <2>2, <2>3, <2>9 DEF ChangeOnItsWay, Unwritten
<1>10. CASE Returned(r)
  <2>1. /\ req[r].at = "back" /\ req'[r].at \in {"argo", "done"} /\ remote' = remote
        /\ mirror'.local = mirror.local /\ HEAD' = mirror.local["main"]
    BY <1>10, ReturnedTree DEF Returned
  <2>2. PICK dirty \in SUBSET Manifests :
           LET main == Content(mirror.local["main"])
               Carry(content) == {c \in content : env.manifest[c] \in dirty}
                                 \cup {c \in main : env.manifest[c] \notin dirty}
           IN /\ \A m \in dirty : In(Content(HEAD), m) = In(main, m)
              /\ mirror'.files = Carry(mirror.files) /\ mirror'.index = Carry(mirror.index)
    BY <1>10, ReturnedTree
  <2>3. Landed(r) BY <2>1 DEF ChangeOnItsWay
  <2>4. r \in Content(mirror.local["main"]) => r \in mirror'.index
    <3>1. CASE env.manifest[r] \in dirty
      <4>1. In(Content(HEAD), env.manifest[r]) = In(Content(mirror.local["main"]), env.manifest[r])
        BY <2>2, <3>1
      <4>2. r \in Content(mirror.local["main"]) => r \in Content(HEAD) BY <4>1 DEF In
      <4>3. QED BY <2>2, <2>3, <3>1, <4>2 DEF Landed, Kept
    <3>2. CASE env.manifest[r] \notin dirty BY <2>2, <3>2
    <3>3. QED BY <3>1, <3>2
  <2>5. Landed(r)'
    BY <1>1, <2>1, <2>3, <2>4 DEF Landed, Kept, NotDeleted, OnRemote
  <2>6. QED BY <2>1, <2>5 DEF ChangeOnItsWay, Unwritten
<1>11. ~Reverted(r) /\ ~RevertPushed(r)
  <2>1. Reverted(r) \/ RevertPushed(r) => req[r].at # "none" /\ req[r].action = "git_revert"
    BY <1>1 DEF OnItsWay, Reverted, RevertPushed, RevertSteps
  <2>2. QED BY <2>1 DEF Disturbed
<1>12. QED
  BY <1>3, <1>4, <1>5, <1>6, <1>7, <1>8, <1>9, <1>10, <1>11 DEF Does

LEMMA NextChanges ==
    ASSUME Types, RequestsInv, ChangesInv, Next
    PROVE  ChangesInv'
<1> SUFFICES ASSUME NEW r \in Requests, ~Disturbed(r)' PROVE ChangeOnItsWay(r)'
  BY DEF ChangesInv
<1>1. ~Disturbed(r) /\ ChangeOnItsWay(r) /\ r \in Changes
  BY DisturbedStays DEF ChangesInv, Changes
<1>2. ASSUME NEW q \in Requests, Does(q) PROVE ChangeOnItsWay(r)'
  BY <1>1, <1>2, OwnChange, OthersChange
<1>3. ASSUME NEW q \in Requests, Arrives(q) PROVE ChangeOnItsWay(r)'
  <2>1. UNCHANGED <<env, mirror, remote, cluster>> /\ req'[q].read = {} BY <1>3 DEF Arrives
  <2>2. \A p \in Requests : req'[p].read \in {req[p].read, {}} BY <1>3 DEF Arrives
  <2>3. /\ Untouched(r)' = Untouched(r) /\ InFile(r)' = InFile(r) /\ InIndex(r)' = InIndex(r)
        /\ OnBranch(r)' = OnBranch(r) /\ Landed(r)' = Landed(r)
    BY <2>1 DEF Untouched, InFile, InIndex, OnBranch, Landed, Kept, NotAdded, NotDeleted, HEAD, OnRemote
  <2>4. CASE q # r
    <3>1. req'[r] = req[r] BY <1>3, <2>4 DEF Arrives
    <3>2. OnlyReported(r)' = OnlyReported(r) BY <2>1, <3>1 DEF OnlyReported
    <3>3. QED BY <1>1, <2>1, <2>2, <2>3, <3>1, <3>2 DEF ChangeOnItsWay
  <2>5. CASE q = r
    <3>1. req[r].at = "none" /\ req'[r].at \in {"head", "probe", "revsync", "snapshot"}
      BY <1>3, <2>5 DEF Arrives
    <3>2. Untouched(r) /\ \A p \in Requests \ {r} : r \notin req[p].read
      BY <1>1, <3>1 DEF ChangeOnItsWay, Unwritten
    <3>3. QED BY <2>2, <2>3, <3>1, <3>2 DEF ChangeOnItsWay, Unwritten
  <2>6. QED BY <2>4, <2>5
<1>4. CASE DeveloperPushes
  <2>1. /\ UNCHANGED <<env, req, mirror, cluster>> /\ DOMAIN remote' = DOMAIN remote
        /\ \A b \in DOMAIN remote \ {"main"} : remote'[b] = remote[b]
    BY <1>4, DeveloperTree
  <2>2. PICK commit \in Commits :
           /\ commit.add = {Developer} /\ commit.del = {}
           /\ remote'["main"] = Append(remote["main"], commit)
    BY <1>4, DeveloperTree
  <2>3. remote["main"] \in Histories /\ "main" \in DOMAIN remote BY MirrorTypes
  <2>4. r # Developer BY GitOpsAssumption
  <2>5. /\ Adds(remote'["main"], r) <=> Adds(remote["main"], r)
        /\ Deletes(remote'["main"], r) <=> Deletes(remote["main"], r)
        /\ r \in Content(remote'["main"]) <=> r \in Content(remote["main"])
    BY <2>2, <2>3, <2>4, AppendedContent
  <2>6. NotAdded(r)' = NotAdded(r) /\ NotDeleted(r)' = NotDeleted(r) /\ OnRemote(r)' = OnRemote(r)
    <3>1. \A b \in DOMAIN remote :
             /\ Adds(remote'[b], r) <=> Adds(remote[b], r)
             /\ Deletes(remote'[b], r) <=> Deletes(remote[b], r)
             /\ r \in Content(remote'[b]) <=> r \in Content(remote[b])
      BY <2>1, <2>5
    <3>2. QED BY <2>1, <3>1 DEF NotAdded, NotDeleted, OnRemote
  <2>7. /\ Untouched(r)' = Untouched(r) /\ InFile(r)' = InFile(r) /\ InIndex(r)' = InIndex(r)
        /\ OnBranch(r)' = OnBranch(r) /\ Landed(r)' = Landed(r)
    BY <2>1, <2>6 DEF Untouched, InFile, InIndex, OnBranch, Landed, Kept, HEAD
  <2>8. QED BY <1>1, <2>1, <2>7 DEF ChangeOnItsWay, OnlyReported
<1>5. CASE Restarts
  <2>1. /\ \A p \in Requests : req'[p].read \in {req[p].read, {}}
        /\ req'[r].at = "lost" \/ (req'[r] = req[r] /\ ~Active(r))
        /\ UNCHANGED env
    BY <1>5 DEF Restarts
  <2>2. Untouched(r) => Untouched(r)' BY <1>1, <1>5, SyncKeeps DEF Restarts
  <2>3. req'[r].at \notin Steps
    BY <2>1 DEF Active, Steps
  <2>4. req'[r].at \in Unwritten => req[r].at = req'[r].at
    BY <2>1 DEF Unwritten
  <2>5. req'[r].at \notin {"write", "add", "commit", "log", "push", "back", "argo"}
    BY <2>3 DEF Steps
  <2>6. QED BY <1>1, <2>1, <2>2, <2>4, <2>5 DEF ChangeOnItsWay
<1>6. QED BY <1>2, <1>3, <1>4, <1>5, NextKinds

-----------------------------------------------------------------------------
(* Nothing is lost when requests come one after the other *)

\* A request that is served in a quiet time is the only one.
LEMMA QuietIsAlone ==
    ASSUME Types, RequestsInv, Quiet, NEW q \in Requests, NEW r \in Requests, Active(q), Active(r)
    PROVE  q = r
  BY DEF RequestsInv, Acquainted, Quiet

LEMMA QuietBefore ==
    ASSUME Types, RequestsInv, Next, Quiet'
    PROVE  Quiet
<1> SUFFICES ASSUME NEW r \in Requests PROVE req[r].action # "git_revert" /\ met[r] = {}
  BY DEF Quiet
<1>1. req[r].action # "git_revert"
  <2>1. NoReverts' BY DEF NoReverts, Quiet
  <2>2. QED BY <2>1, RevertsRemain DEF NoReverts
<1>2. met[r] \subseteq met'[r] \/ met[r] = {}
  <2>1. ASSUME NEW q \in Requests, Arrives(q) PROVE met[r] \subseteq met'[r] \/ met[r] = {}
    BY <2>1 DEF Arrives, RequestsInv, OnItsWay
  <2>2. QED BY <2>1, NextKinds, DeveloperTree DEF Does, Restarts
<1>3. met'[r] = {} BY DEF Quiet
<1>4. QED BY <1>1, <1>2, <1>3

Reading(r) == req[r].at \in {"branch", "write"}

LEMMA LastingShrinks ==
    ASSUME Types, RequestsInv, Next
    PROVE  Lasting' \subseteq Lasting
<1>1. env' = env
  BY NextKinds, DeveloperTree DEF Does, Arrives, Restarts
<1>2. ASSUME NEW r \in Requests, req[r].action = "helm_deploy" PROVE req'[r].action = "helm_deploy"
  <2>1. req[r].at # "none" BY <1>2 DEF RequestsInv, OnItsWay
  <2>2. QED BY <1>2, <2>1, RevertsStay
<1>3. QED BY <1>1, <1>2 DEF Lasting, Replaced

\* A registration holds all that lasts of its manifest: itself.
LEMMA PatchedLasts ==
    ASSUME Types, NEW r \in Requests
    PROVE  In(mirror.files, env.manifest[r]) \cap Lasting \subseteq Patched(r)
  BY DEF In, Lasting, Replaced, Patched

LEMMA NextGrowth ==
    ASSUME Types, RequestsInv, GrowthInv, Next
    PROVE  GrowthInv'
<1> SUFFICES ASSUME Quiet, NothingLost PROVE NothingLost'
  BY QuietBefore DEF GrowthInv
<1> USE DEF NothingLost
<1>1. /\ mirror.local \in [Branches -> Histories] /\ mirror.branch \in Branches
      /\ HEAD \in Histories /\ "main" \in Branches /\ "main" \in DOMAIN remote
      /\ Lasting' \subseteq Lasting /\ Lasting \subseteq Changes
  BY MirrorTypes, LastingShrinks DEF Branches, Lasting
<1>2. ASSUME Sync, UNCHANGED <<env, remote>>,
             \A r \in Requests : ~Reading(r)'
      PROVE  NothingLost'
  <2>1. CASE UNCHANGED mirror
    BY <1>1, <1>2, <2>1 DEF NotDeleted, HEAD, Reading
  <2>2. CASE ~UNCHANGED mirror
    <3>1. PICK branch \in {mirror.branch, "detached"}, new \in Histories :
             /\ mirror'.branch = branch /\ mirror'.local = [mirror.local EXCEPT ![branch] = new]
             /\ mirror'.files = Content(new) /\ mirror'.index = Content(new)
             /\ \A c : Deletes(new, c) => Deletes(remote["main"], c) \/ Deletes(HEAD, c)
      BY <1>2, <2>2, SyncOutcomes
    <3>2. branch \in Branches BY <1>1 DEF Branches
    <3>3. HEAD' = new BY <1>1, <3>1, <3>2 DEF HEAD
    <3>4. \A c \in Lasting : NotDeleted(c)'
      BY <1>1, <1>2, <3>1, <3>2 DEF NotDeleted, HEAD
    <3>5. QED BY <1>1, <1>2, <3>1, <3>3, <3>4 DEF Reading
  <2>3. QED BY <2>1, <2>2
<1>3. ASSUME NEW r \in Requests, Does(r) PROVE NothingLost'
  <2>1. /\ MayFollow(r) /\ env' = env /\ OnItsWay(r) /\ Active(r)
        /\ \A q \in Requests \ {r} : req'[q] = req[q]
    BY <1>3 DEF Does, Moves, RequestsInv, MayFollow, SameRequest, Active
  <2>2. \A q \in Requests \ {r} : ~Reading(q)'
    <3>1. \A q \in Requests \ {r} : ~Active(q) BY <2>1, QuietIsAlone
    <3>2. QED BY <2>1, <3>1 DEF Reading, Active, Steps
  <2>3. ASSUME \A c \in Lasting : NotDeleted(c)', Content(HEAD)' \cap Lasting \subseteq mirror'.index,
               mirror'.index \cap Lasting \subseteq mirror'.files,
               Reading(r)' =>
                   In(mirror'.files, env.manifest[r]) \cap Lasting \subseteq req'[r].read
        PROVE  NothingLost'
    BY <1>1, <2>1, <2>2, <2>3 DEF Reading, In
  <2>4. CASE Still(r)
    <3>1. Reading(r)' => In(mirror.files, env.manifest[r]) \cap Lasting \subseteq req'[r].read
      BY <2>1, <2>4, PatchedLasts DEF Still, MayFollow, Reading
    <3>2. QED BY <2>3, <2>4, <3>1 DEF Still, NotDeleted, HEAD
  <2>5. CASE Syncs(r)
    <3>1. \A q \in Requests : ~Reading(q)' BY <2>2, <2>5 DEF Syncs, Reading
    <3>2. QED BY <1>2, <2>1, <2>5, <3>1 DEF Syncs
  <2>6. CASE Branched(r)
    <3>1. /\ mirror'.local = [mirror.local EXCEPT ![r] = HEAD] /\ remote' = remote /\ HEAD' = HEAD
          /\ mirror'.files = mirror.files /\ mirror'.index = mirror.index
          /\ req[r].at = "branch" /\ req'[r].at = "write"
      BY <2>6, BranchedTree DEF Branched
    <3>2. \A b \in Branches : mirror'.local[b] \in {mirror.local[b], mirror.local[mirror.branch]}
      BY <1>1, <3>1 DEF HEAD
    <3>3. \A c \in Lasting : NotDeleted(c)' BY <1>1, <3>1, <3>2 DEF NotDeleted
    <3>4. req'[r].read = req[r].read BY <2>1, <3>1 DEF MayFollow
    <3>5. QED BY <2>3, <3>1, <3>3, <3>4
  <2>7. CASE Wrote(r)
    <3>1. /\ mirror'.local = mirror.local /\ HEAD' = HEAD /\ remote' = remote
          /\ mirror'.index = mirror.index /\ mirror'.files = With(mirror.files, r)
          /\ req[r].at = "write" /\ req'[r].at = "add"
      BY <2>7, WroteTree DEF Wrote
    <3>2. mirror.files \cap Lasting \subseteq mirror'.files
      BY <1>1, <3>1, MirrorTypes DEF With, In
    <3>3. QED BY <2>3, <3>1, <3>2 DEF Reading, NotDeleted
  <2>8. CASE Added(r)
    <3>1. /\ mirror'.local = mirror.local /\ HEAD' = HEAD /\ remote' = remote
          /\ mirror'.files = mirror.files /\ req'[r].at = "commit"
          /\ mirror'.index = {c \in mirror.index : env.manifest[c] # env.manifest[r]}
                             \cup In(mirror.files, env.manifest[r])
      BY <2>8, AddedTree DEF Added
    <3>2. /\ mirror.index \cap Lasting \subseteq mirror'.index
          /\ mirror'.index \cap Lasting \subseteq mirror'.files
      BY <1>1, <3>1, MirrorTypes DEF In
    <3>3. QED BY <2>3, <3>1, <3>2 DEF Reading, NotDeleted
  <2>9. CASE Committed(r)
    <3>1. /\ remote' = remote /\ req'[r].at = "log"
          /\ mirror'.files = mirror.files /\ mirror'.index = mirror.index
          /\ Content(HEAD') = mirror.index /\ mirror'.branch = mirror.branch
          /\ mirror'.local = [mirror.local EXCEPT ![mirror.branch] = HEAD']
          /\ \A c : Deletes(HEAD', c) =>
                       Deletes(HEAD, c) \/ (c \in Content(HEAD) /\ c \notin mirror.index)
      BY <2>9, CommittedTree DEF Committed
    <3>2. \A c \in Lasting : NotDeleted(c)' BY <1>1, <3>1 DEF NotDeleted, HEAD
    <3>3. QED BY <2>3, <3>1, <3>2 DEF Reading
  <2>10. CASE Pushed(r)
    <3>1. PICK b \in Branches : PushBranch(b) BY <2>10 DEF Pushed, Branches
    <3>2. /\ mirror'.local = mirror.local /\ HEAD' = HEAD
          /\ mirror'.files = mirror.files /\ mirror'.index = mirror.index
          /\ DOMAIN remote' = DOMAIN remote \cup {b} /\ remote'[b] = mirror.local[b]
          /\ \A d \in DOMAIN remote \ {b} : remote'[d] = remote[d]
      BY <3>1, PushedTree
    <3>3. \A c \in Lasting : NotDeleted(c)' BY <3>1, <3>2 DEF NotDeleted
    <3>4. ~Reading(r)' BY <2>10 DEF Pushed, Reading
    <3>5. QED BY <2>3, <3>2, <3>3, <3>4
  <2>11. CASE Returned(r)
    <3>1. /\ req'[r].at \in {"argo", "done"} /\ remote' = remote
          /\ mirror'.local = mirror.local /\ HEAD' = mirror.local["main"]
      BY <2>11, ReturnedTree DEF Returned
    <3>2. PICK dirty \in SUBSET Manifests :
             LET main == Content(mirror.local["main"])
                 Carry(content) == {c \in content : env.manifest[c] \in dirty}
                                   \cup {c \in main : env.manifest[c] \notin dirty}
             IN /\ \A m \in dirty : In(Content(HEAD), m) = In(main, m)
                /\ mirror'.files = Carry(mirror.files) /\ mirror'.index = Carry(mirror.index)
      BY <2>11, ReturnedTree
    <3>3. mirror'.index \cap Lasting \subseteq mirror'.files BY <3>2
    <3>4. ASSUME NEW c \in Content(mirror.local["main"]) \cap Lasting PROVE c \in mirror'.index
      <4>1. CASE env.manifest[c] \in dirty
        <5>1. In(Content(HEAD), env.manifest[c]) = In(Content(mirror.local["main"]), env.manifest[c])
          BY <3>2, <4>1
        <5>2. c \in Content(HEAD) BY <5>1 DEF In
        <5>3. QED BY <3>2, <4>1, <5>2
      <4>2. CASE env.manifest[c] \notin dirty BY <3>2, <4>2
      <4>3. QED BY <4>1, <4>2
    <3>5. QED BY <2>3, <3>1, <3>3, <3>4 DEF Reading, NotDeleted
  <2>12. ~Reverted(r) /\ ~RevertPushed(r)
    BY <2>1 DEF OnItsWay, Reverted, RevertPushed, RevertSteps, Quiet
  <2>13. QED
    BY <1>3, <2>4, <2>5, <2>6, <2>7, <2>8, <2>9, <2>10, <2>11, <2>12 DEF Does
<1>4. ASSUME NEW r \in Requests, Arrives(r) PROVE NothingLost'
  <2>1. UNCHANGED <<env, mirror, remote>> BY <1>4 DEF Arrives
  <2>2. \A q \in Requests : Reading(q)' => req'[q] = req[q] BY <1>4 DEF Arrives, Reading
  <2>3. QED BY <1>1, <2>1, <2>2 DEF NotDeleted, HEAD, Reading, In
<1>5. CASE DeveloperPushes
  <2>1. /\ UNCHANGED <<env, req, mirror>> /\ DOMAIN remote' = DOMAIN remote
        /\ \A b \in DOMAIN remote \ {"main"} : remote'[b] = remote[b]
    BY <1>5, DeveloperTree
  <2>2. PICK commit \in Commits :
           commit.del = {} /\ remote'["main"] = Append(remote["main"], commit)
    BY <1>5, DeveloperTree
  <2>3. \A c : Deletes(remote'["main"], c) <=> Deletes(remote["main"], c)
    BY <2>2, MirrorTypes, AppendedContent
  <2>4. \A c \in Lasting : NotDeleted(c)' BY <1>1, <2>1, <2>3 DEF NotDeleted
  <2>5. QED BY <1>1, <2>1, <2>4 DEF HEAD, In
<1>6. CASE Restarts
  <2>1. \A r \in Requests : ~Reading(r)' BY <1>6 DEF Restarts, Reading, Active, Steps
  <2>2. QED BY <1>2, <1>6, <2>1 DEF Restarts
<1>7. QED BY <1>3, <1>4, <1>5, <1>6, NextKinds

-----------------------------------------------------------------------------
(* The theorems *)

LEMMA InitialState ==
    ASSUME Init
    PROVE  Types /\ RequestsInv /\ ChangesInv /\ GrowthInv
<1>1. <<>> \in Histories /\ 0 \in 0..MaxPolls /\ 0 \in 0..MaxRestarts
  BY EmptySeq, GitOpsAssumption DEF Histories
<1>2. DOMAIN <<>> = {} OBVIOUS
<1>3. \A c : ~Adds(<<>>, c) /\ ~Deletes(<<>>, c) BY <1>2 DEF Adds, Deletes
<1>4. Content(<<>>) = {} BY <1>2 DEF Content
<1>5. NoRequest \in RequestStates
  BY <1>1 DEF NoRequest, RequestStates, Stages, Actions, Targets, Brought, Changes
<1>6. mirror \in Mirrors BY <1>1 DEF Init, Mirrors, Branches
<1>7. remote \in Remotes
  <2>1. remote = [b \in {"main"} |-> <<>>] BY DEF Init
  <2>2. /\ remote = [b \in DOMAIN remote |-> remote[b]] /\ "main" \in DOMAIN remote
        /\ DOMAIN remote \subseteq Branches /\ \A b \in DOMAIN remote : remote[b] \in Histories
    BY <1>1, <2>1 DEF Branches
  <2>3. QED BY <2>2, RemoteTypes
<1>8. Types
  <2>1. /\ env \in Scenarios /\ req \in [Requests -> RequestStates]
        /\ met \in [Requests -> SUBSET Requests] /\ restarts \in 0..MaxRestarts
    BY <1>1, <1>5 DEF Init
  <2>2. cluster \in Clusters BY DEF Init, Clusters
  <2>3. QED BY <1>6, <1>7, <2>1, <2>2 DEF Types
<1>9. \A r \in Requests : /\ req[r].at = "none" /\ req[r].action = "git_patch" /\ req[r].read = {}
                          /\ met[r] = {}
  BY DEF Init, NoRequest
<1>10. /\ mirror.branch = "main" /\ mirror.files = {} /\ mirror.index = {}
       /\ \A b \in Branches : mirror.local[b] = <<>>
       /\ \A b \in DOMAIN remote : remote[b] = <<>>
  BY DEF Init
<1>11. HEAD = <<>> BY <1>10 DEF HEAD, Branches
<1>12. \A c : NotAdded(c) /\ NotDeleted(c) BY <1>3, <1>10 DEF NotAdded, NotDeleted
<1>13. RequestsInv
  <2>1. Acquainted BY <1>9 DEF Acquainted, Active, Steps
  <2>2. ConflictsStay BY <1>10 DEF ConflictsStay
  <2>3. \A r \in Requests : OnItsWay(r) BY <1>9 DEF OnItsWay, RevertSteps, UndeploySteps
  <2>4. QED BY <2>1, <2>2, <2>3 DEF RequestsInv
<1>14. ChangesInv
  BY <1>9, <1>10, <1>12 DEF ChangesInv, ChangeOnItsWay, Untouched
<1>15. GrowthInv
  BY <1>4, <1>9, <1>10, <1>11, <1>12 DEF GrowthInv, NothingLost
<1>16. QED BY <1>8, <1>13, <1>14, <1>15

Inv == Types /\ RequestsInv /\ ChangesInv /\ GrowthInv

LEMMA StepKeeps ==
    ASSUME Inv, [Next]_vars
    PROVE  Inv'
<1>1. CASE Next BY <1>1, NextTypes, NextRequests, NextChanges, NextGrowth DEF Inv
<1>2. CASE UNCHANGED vars
  <2>1. UNCHANGED <<env, req, mirror, remote, cluster, met, restarts>> BY <1>2 DEF vars
  <2>2. Types' BY <2>1 DEF Inv, Types
  <2>3. RequestsInv'
    BY <2>1 DEF Inv, RequestsInv, Acquainted, ConflictsStay, OnItsWay, Active
  <2>4. HEAD' = HEAD /\ \A c : /\ NotAdded(c)' = NotAdded(c) /\ NotDeleted(c)' = NotDeleted(c)
                               /\ OnRemote(c)' = OnRemote(c)
    BY <2>1 DEF HEAD, NotAdded, NotDeleted, OnRemote
  <2>5. ChangesInv'
    BY <2>1, <2>4 DEF Inv, ChangesInv, Disturbed, ChangeOnItsWay, Untouched, InFile, InIndex,
                      OnBranch, Landed, Kept, OnlyReported
  <2>6. GrowthInv'
    BY <2>1, <2>4 DEF Inv, GrowthInv, Quiet, NothingLost, Lasting, Replaced, In
  <2>7. QED BY <2>2, <2>3, <2>5, <2>6 DEF Inv
<1>3. QED BY <1>1, <1>2

LEMMA InvHolds == Spec => []Inv
<1>1. Init => Inv BY InitialState DEF Inv
<1>2. Inv /\ [Next]_vars => Inv' BY StepKeeps
<1>3. QED BY <1>1, <1>2, PTL DEF Spec

\* Whatever the requests do at the same time, the tree, its index and its branches hold changes and
\* commits, and the requests what their handlers put there.
THEOREM GitOpsTypes == Spec => []TypeOK
<1>1. Inv => TypeOK
  <2> SUFFICES ASSUME Types PROVE TypeOK BY DEF Inv
  <2>1. \A h \in Histories : ToSet(h) \subseteq Commits
    BY LenProperties, ElementOfSeq DEF Histories, ToSet
  <2>2. \A r \in Requests :
           /\ req[r].at \in Steps \cup {"none", "done", "lost"}
           /\ req[r].action \in Actions /\ req[r].target \in Targets /\ req[r].brings \in Brought
           /\ req[r].undoes \in Changes /\ req[r].sha \in Changes
           /\ req[r].read \subseteq Changes
           /\ req[r].prev \in Histories
           /\ req[r].polls \in 0..MaxPolls
           /\ req[r].todo \subseteq {"deployment", "helm"}
           /\ req[r].ok \in BOOLEAN
    <3> SUFFICES ASSUME NEW r \in Requests, req[r] \in RequestStates
                 PROVE  /\ req[r].at \in Steps \cup {"none", "done", "lost"}
                        /\ req[r].action \in Actions /\ req[r].target \in Targets
                        /\ req[r].brings \in Brought
                        /\ req[r].undoes \in Changes /\ req[r].sha \in Changes
                        /\ req[r].read \subseteq Changes
                        /\ req[r].prev \in Histories
                        /\ req[r].polls \in 0..MaxPolls
                        /\ req[r].todo \subseteq {"deployment", "helm"}
                        /\ req[r].ok \in BOOLEAN
      BY DEF Types
    <3>1. QED BY DEF RequestStates, Stages
  <2>3. QED BY <2>1, <2>2, MirrorTypes DEF TypeOK, Types, Clusters
<1>2. QED BY <1>1, InvHolds, PTL

\* Where the success of a patch or of a registration comes from, its change has landed.
LEMMA SuccessIsLanded ==
    ASSUME Inv, Next, NEW r \in Requests,
           req[r].at # "done", req'[r].at = "done", req'[r].ok, env.set.repo,
           req[r].action \in {"git_patch", "helm_deploy"}, ~Disturbed(r), ~OnlyReported(r)
    PROVE  \/ r \in cluster'.patched \cup cluster'.applied
           \/ \E b \in DOMAIN remote' : r \in Content(remote'[b])
<1>1. Types /\ RequestsInv /\ ChangeOnItsWay(r) /\ OnItsWay(r) /\ r \in Branches
  BY DEF Inv, ChangesInv, RequestsInv, Branches
<1>2. ~(\E q \in Requests : Arrives(q)) /\ ~DeveloperPushes /\ ~Restarts
  BY <1>1, DeveloperTree DEF Arrives, Restarts, Active
<1>3. Does(r)
  <2>1. PICK q \in Requests : Does(q) BY <1>1, <1>2, NextKinds
  <2>2. q = r BY <2>1 DEF Does, Moves, MayFollow, SameRequest
  <2>3. QED BY <2>1, <2>2
<1>4. \/ req[r].at \in {"cluster", "hotfix"} /\ r \in cluster'.patched
      \/ r \in cluster'.applied
      \/ req[r].at = "push" /\ ~env.set.pr
      \/ req[r].at \in {"back", "argo"}
  <2>1. req[r].at \notin {"revpush", "check"}
    BY <1>1 DEF OnItsWay, RevertSteps, UndeploySteps
  <2>2. Direct(r) => r \in cluster'.applied BY <1>1 DEF Direct, OnItsWay, OnlyReported
  <2>3. QED BY <1>3, <2>1, <2>2 DEF Does, Moves, SuccessFrom, OnlyReported
<1>5. CASE req[r].at = "push" /\ ~env.set.pr
  <2>1. Pushed(r)
    BY <1>3, <1>5
       DEF Does, Still, Syncs, Branched, Wrote, Added, Committed, Returned, Reverted, RevertPushed
  <2>2. CanPush("main") /\ PushBranch("main") BY <1>5, <2>1 DEF Pushed
  <2>3. "main" \in DOMAIN remote' /\ remote'["main"] = mirror.local["main"]
    BY <1>1, <2>2, PushedTree DEF Branches
  <2>4. mirror.branch = "main"
    <3>1. \A q \in Requests : req[q].action # "git_revert"
      BY <1>1 DEF Disturbed, RequestsInv, OnItsWay
    <3>2. IsPrefix(remote["main"], mirror.local["main"])
      BY <1>1, <2>2, MirrorTypes DEF CanPush
    <3>3. QED BY <1>1, <1>5, <3>1, <3>2 DEF RequestsInv, ConflictsStay
  <2>5. r \in Content(mirror.local["main"])
    BY <1>1, <1>5, <2>4 DEF ChangeOnItsWay, OnBranch, HEAD
  <2>6. QED BY <2>3, <2>5
<1>6. CASE req[r].at \in {"back", "argo"}
  <2>1. UNCHANGED remote
    BY <1>3, <1>6
       DEF Does, Still, Syncs, Branched, Wrote, Added, Committed, Pushed, Returned, Reverted, RevertPushed
  <2>2. OnRemote(r) \/ r \in cluster.applied BY <1>1, <1>6 DEF ChangeOnItsWay, Landed
  <2>3. cluster.applied \subseteq cluster'.applied BY <1>3 DEF Does, Moves
  <2>4. QED BY <2>1, <2>2, <2>3 DEF OnRemote
<1>7. QED BY <1>4, <1>5, <1>6

LEMMA LandedIsKept ==
    ASSUME Inv, Next, Quiet, NEW c \in Content(remote["main"]), ~Replaced(c)
    PROVE  c \in Content(remote'["main"])
<1>1. Types /\ RequestsInv /\ NothingLost BY DEF Inv, GrowthInv
<1>2. c \in Lasting /\ c \in Changes /\ Adds(remote["main"], c) BY ContentIsAdded DEF Lasting
<1>3. "main" \in Branches /\ "main" \in DOMAIN remote /\ remote["main"] \in Histories
      /\ mirror.local["main"] \in Histories
  BY <1>1, MirrorTypes DEF Branches
<1>4. ASSUME NEW r \in Requests, Does(r) PROVE c \in Content(remote'["main"])
  <2>1. OnItsWay(r) /\ r \in Branches BY <1>1 DEF RequestsInv, Branches
  <2>2. ~RevertPushed(r) BY <2>1 DEF OnItsWay, RevertPushed, RevertSteps, Quiet
  <2>3. CASE Pushed(r)
    <3>1. CASE env.set.pr
      <4>1. PushBranch(r) BY <2>3, <3>1 DEF Pushed
      <4>2. r # "main" BY GitOpsAssumption
      <4>3. remote'["main"] = remote["main"] BY <1>1, <1>3, <2>1, <4>1, <4>2, PushedTree
      <4>4. QED BY <4>3
    <3>2. CASE ~env.set.pr
      <4>1. CanPush("main") /\ PushBranch("main") BY <2>3, <3>2 DEF Pushed
      <4>2. IsPrefix(remote["main"], mirror.local["main"]) BY <1>3, <4>1 DEF CanPush
      <4>3. Adds(mirror.local["main"], c) BY <1>2, <1>3, <4>2, PrefixAdds
      <4>4. ~Deletes(mirror.local["main"], c) BY <1>1, <1>2, <1>3 DEF NothingLost, NotDeleted
      <4>5. c \in Content(mirror.local["main"]) BY <1>2, <4>3, <4>4, UndeletedIsContent
      <4>6. QED BY <1>1, <1>3, <4>1, <4>5, PushedTree
    <3>3. QED BY <3>1, <3>2
  <2>4. CASE ~Pushed(r)
    <3>1. UNCHANGED remote
      BY <1>4, <2>2, <2>4
         DEF Does, Still, Syncs, Branched, Wrote, Added, Committed, Returned, Reverted
    <3>2. QED BY <3>1
  <2>5. QED BY <2>3, <2>4
<1>5. CASE DeveloperPushes
  <2>1. PICK commit \in Commits :
           commit.del = {} /\ remote'["main"] = Append(remote["main"], commit)
    BY <1>1, <1>5, DeveloperTree
  <2>2. QED BY <1>3, <2>1, AppendedContent
<1>6. ASSUME UNCHANGED remote PROVE c \in Content(remote'["main"])
  BY <1>6
<1>7. QED BY <1>1, <1>4, <1>5, <1>6, NextKinds DEF Arrives, Restarts

\* A patch or a registration that is reported applied, but for an empty patch and a manifest that is
\* only run dry, is on the remote or on the live workload, whatever other requests do to other manifests
\* of the tree they share; and what is on the main branch stays there unless a revert or a registration
\* of its manifest was asked for or requests were served together (repo-mirror.ts:106-231).
THEOREM ReportedChangesLandAndStay == Spec => ChangesLandAndStay
<1>1. Inv /\ [Next]_vars =>
         [\A r \in Requests :
            /\ req[r].at # "done" /\ req'[r].at = "done" /\ req'[r].ok /\ env.set.repo
            /\ req[r].action \in {"git_patch", "helm_deploy"}
            /\ ~Disturbed(r) /\ ~OnlyReported(r)
            => \/ r \in cluster'.patched \cup cluster'.applied
               \/ \E b \in DOMAIN remote' : r \in Content(remote'[b])]_vars
  BY SuccessIsLanded
<1>2. Inv /\ [Next]_vars =>
         [\A c \in Content(remote["main"]) :
            c \notin Content(remote'["main"])
            => \/ Replaced(c)
               \/ \E r \in Requests : req[r].action = "git_revert" \/ met[r] # {}]_vars
  BY LandedIsKept DEF Quiet
<1>3. Spec => SuccessLanded BY <1>1, InvHolds, PTL DEF Spec, SuccessLanded
<1>4. Spec => LandedStays BY <1>2, InvHolds, PTL DEF Spec, LandedStays
<1>5. QED BY <1>3, <1>4, PTL DEF ChangesLandAndStay

=============================================================================
