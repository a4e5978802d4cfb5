-------------------------- MODULE ToolRuntimeProofs --------------------------
(***************************************************************************)
(* Theorems about ToolRuntime, for every plan and setting, any number of   *)
(* executions, and all deadlines.                                          *)
(***************************************************************************)
EXTENDS ToolRuntime, SequenceTheorems, TLAPS

-----------------------------------------------------------------------------
(* The pipelines: one acting call, an inspection before it, the rest after it *)

Bystanders == {"investigator.repo_inspect", "investigator.verify_health", "commander.notify"}

CoreIndex == IF ~setting.capability /\ setting.mode = "pre-deploy" THEN 2 ELSE 1

\* The acting tool of an action is none of the tools around it.
LEMMA CoreCallIsActing ==
    ASSUME NEW action \in RemediationActions \ (HumanActions \cup {"git_revert"})
    PROVE  CoreCall(action) \in ToolNames \ Bystanders
<1> DEFINE tools == CoreTools([action |-> action, content |-> "fine"])
<1>1. tools # {} /\ tools \subseteq ToolNames \ Bystanders
  BY DEF CoreTools, ToolNames, Bystanders, RemediationActions, HumanActions, GitOpsActions,
     CiActions
<1>2. CoreCall(action) \in tools
  BY <1>1 DEF CoreCall
<1>3. QED BY <1>1, <1>2

\* A conditional part of a pipeline is a sequence of at most one tool.
LEMMA Part ==
    ASSUME NEW b \in BOOLEAN, NEW tool \in ToolNames,
           NEW s, s = IF b THEN <<tool>> ELSE << >>
    PROVE  /\ s \in Seq(ToolNames)
           /\ Len(s) = IF b THEN 1 ELSE 0
           /\ b => s[1] = tool
<1>1. CASE b BY <1>1
<1>2. CASE ~b BY <1>2
<1>3. QED BY <1>1, <1>2

LEMMA Joined ==
    ASSUME NEW s \in Seq(ToolNames), NEW t \in Seq(ToolNames), NEW u, u = s \o t
    PROVE  /\ u \in Seq(ToolNames) /\ Len(s) \in Nat /\ Len(t) \in Nat
           /\ Len(u) = Len(s) + Len(t)
           /\ \A i \in 1..Len(s) : u[i] = s[i]
           /\ \A i \in 1..Len(t) : u[Len(s) + i] = t[i]
  BY ConcatProperties

\* The acting tool stands at CoreIndex, after the inspection, if there is one.
LEMMA Pipeline ==
    ASSUME setting \in Settings
    PROVE  /\ Calls \in Seq(ToolNames) /\ Len(Calls) \in Nat
           /\ CoreIndex \in Indices /\ Indices = 1..Len(Calls)
           /\ Calls[CoreIndex] = CoreCall(setting.action)
           /\ Calls[CoreIndex] \in ToolNames \ Bystanders
           /\ \A i \in Indices \ {CoreIndex} : Calls[i] \in Bystanders
           /\ \A i \in Indices : Calls[i] = "investigator.repo_inspect" => i < CoreIndex
<1> DEFINE core == CoreCall(setting.action)
           inspects == ~setting.capability /\ setting.mode = "pre-deploy"
           inspect == IF inspects THEN <<"investigator.repo_inspect">> ELSE << >>
           notifies == setting.chat
                       /\ (setting.capability \/ setting.mode \notin {"pre-deploy", "ci-failure"})
           notify == IF notifies THEN <<"commander.notify">> ELSE << >>
           verify == IF setting.capability THEN <<"investigator.verify_health">> ELSE << >>
<1>1. /\ core \in ToolNames \ Bystanders
      /\ Bystanders \subseteq ToolNames
      /\ setting.capability \in BOOLEAN /\ setting.chat \in BOOLEAN
  BY CoreCallIsActing DEF Settings, Bystanders, ToolNames
<1>2. /\ inspect \in Seq(ToolNames) /\ Len(inspect) = IF inspects THEN 1 ELSE 0
      /\ inspects => inspect[1] = "investigator.repo_inspect"
  BY <1>1, Part DEF Bystanders
<1>3. /\ notify \in Seq(ToolNames) /\ Len(notify) = IF notifies THEN 1 ELSE 0
      /\ notifies => notify[1] = "commander.notify"
  BY <1>1, Part DEF Bystanders
<1>4. CASE setting.capability
  <2> DEFINE pair == <<core, "investigator.verify_health">>
  <2>1. Calls = pair \o notify
    BY <1>4 DEF Calls, CapabilityPipeline, NotifyCall
  <2>2. pair \in Seq(ToolNames)
    BY <1>1 DEF Bystanders
  <2>3. Len(pair) = 2 /\ pair[1] = core /\ pair[2] = "investigator.verify_health"
    OBVIOUS
  <2> HIDE DEF notify, core, pair
  <2>4. /\ Calls \in Seq(ToolNames) /\ Len(Calls) = Len(pair) + Len(notify)
        /\ \A i \in 1..Len(pair) : Calls[i] = pair[i]
        /\ \A i \in 1..Len(notify) : Calls[Len(pair) + i] = notify[i]
    BY <2>1, <2>2, <1>3, Joined, SMTT(30)
  <2>5. /\ Calls[1] = core /\ Calls[2] = "investigator.verify_health"
        /\ Len(Calls) \in 2..3 /\ (Len(Calls) = 3 => Calls[3] = "commander.notify")
    BY <1>3, <2>3, <2>4
  <2>6. CoreIndex = 1
    BY <1>4 DEF CoreIndex
  <2>7. QED BY <1>1, <2>4, <2>5, <2>6 DEF Indices, Bystanders, core
<1>5. CASE ~setting.capability
  <2> DEFINE act == inspect \o <<core>>
  <2>1. Calls = act \o notify
    BY <1>1, <1>5 DEF Calls, ClassicPipeline, NotifyCall
  <2>2. <<core>> \in Seq(ToolNames) /\ Len(<<core>>) = 1 /\ <<core>>[1] = core
    BY <1>1
  <2> HIDE DEF notify, core, inspect
  <2>3. /\ act \in Seq(ToolNames) /\ Len(act) = Len(inspect) + 1
        /\ \A i \in 1..Len(inspect) : act[i] = inspect[i]
        /\ act[Len(inspect) + 1] = core
    BY <1>2, <2>2, Joined, SMTT(30)
  <2> HIDE DEF act
  <2>4. /\ Calls \in Seq(ToolNames) /\ Len(Calls) = Len(act) + Len(notify)
        /\ \A i \in 1..Len(act) : Calls[i] = act[i]
        /\ \A i \in 1..Len(notify) : Calls[Len(act) + i] = notify[i]
    BY <1>3, <2>1, <2>3, Joined
  <2>5. CoreIndex = Len(inspect) + 1 /\ Len(inspect) \in 0..1 /\ Len(notify) \in 0..1
    BY <1>2, <1>3, <1>5 DEF CoreIndex, inspects
  <2>6. /\ Calls[CoreIndex] = core
        /\ CoreIndex = 2 => Calls[1] = "investigator.repo_inspect"
        /\ Len(Calls) = CoreIndex + 1 => Calls[CoreIndex + 1] = "commander.notify"
    BY <1>2, <1>3, <2>2, <2>3, <2>4, <2>5
  <2>7. /\ Indices = 1..Len(Calls) /\ CoreIndex \in Indices /\ Len(Calls) \in Nat
        /\ \A i \in Indices \ {CoreIndex} : (i = 1 /\ CoreIndex = 2)
                                           \/ (i = CoreIndex + 1 /\ Len(Calls) = CoreIndex + 1)
    BY <2>3, <2>4, <2>5 DEF Indices
  <2>8. \A i \in Indices \ {CoreIndex} :
           /\ Calls[i] \in Bystanders
           /\ Calls[i] = "investigator.repo_inspect" => i < CoreIndex
    BY <2>6, <2>7 DEF Bystanders
  <2>9. QED BY <1>1, <2>4, <2>6, <2>7, <2>8 DEF Bystanders, core
<1>6. QED BY <1>1, <1>4, <1>5

-----------------------------------------------------------------------------
(* The inductive invariant *)

Executing == ex.at # "idle"

\* An execution stands at a call of the plan, and has attempts left until the call ends.
AtACall ==
    /\ ex.at \in {"call", "post", "wait"} => ex.i \in Indices
    /\ ex.at = "wait" => Tool = "investigator.verify_health"
    /\ ex.at = "call" => ex.attempt < MaxRetries(Tool)
    /\ ex.at = "post" => ex.attempt \in 1..MaxRetries(Tool)
    /\ Executing => ex.outcome = "none"

\* Nothing is sent ahead of the call, nor for it before its first attempt; and what is not
\* to be repeated has one attempt.
SentInOrder ==
    /\ NonIdempotentSentOnce
    /\ Executing =>
          /\ \A i \in Indices : i > ex.i => sent[i] = 0
          /\ ex.i \in Indices /\ (ex.at = "before" \/ (ex.at = "call" /\ ex.attempt = 0)) =>
                sent[ex.i] = 0

\* The verdict still stands only if the acting call, once it is passed, took effect, when
\* its agent applies it at all; a failed mutation is one that was passed.
VerdictIsOfTheAct ==
    /\ ex.at = "post" /\ ex.took => effects[ex.i] > 0
    /\ Executing /\ ex.overall /\ CoreIndex < ex.i /\ setting.applies =>
          effects[CoreIndex] > 0
    /\ Executing /\ ex.mutateFailed => ~ex.overall /\ CoreIndex < ex.i
    /\ ex.outcome = "success" /\ setting.applies => effects[CoreIndex] > 0

\* A run resumes from its acting call; what stands before the index was called.
ResumesFromTheAct ==
    /\ run.resumeFrom # 0 => run.resumeFrom = CoreIndex
    /\ ResumeSkipsOnlyWhatRan
    /\ Executing /\ ~ex.mutateFailed => 1..(ex.i - 1) \subseteq ran

RuntimeInv ==
    TypeOK /\ AtACall /\ SentInOrder /\ VerdictIsOfTheAct /\ ResumesFromTheAct

-----------------------------------------------------------------------------
(* What the steps start from *)

LEMMA ToolFacts ==
    /\ \A tool : MaxRetries(tool) \in 1..3
    /\ \A tool : ~Idempotent(tool) => MaxRetries(tool) = 1
    /\ \A tool \in Bystanders : Idempotent(tool) /\ tool \notin MutateTools
  BY DEF MaxRetries, Idempotent, ToolsNeedingHilInProd, Bystanders, MutateTools

ExecutionStates ==
    [at: {"idle", "before", "call", "post", "wait"}, i: 1..(Len(Calls) + 1),
     attempt: 0..3, overall: BOOLEAN, mutateFailed: BOOLEAN, priorMutate: BOOLEAN,
     took: BOOLEAN, age: Nat, outcome: {"none", "success", "failure", "paused", "threw"}]

\* The tools and the indices are those of the setting, which no step changes.
LEMMA SameCalls ==
    ASSUME setting' = setting
    PROVE  /\ Calls' = Calls /\ Indices' = Indices /\ CoreIndex' = CoreIndex
           /\ ExecutionStates' = ExecutionStates
  BY DEF Calls, Indices, CoreIndex, ExecutionStates

LEMMA ExecutionTyped ==
    ASSUME TypeOK
    PROVE  ex \in ExecutionStates
  BY DEF TypeOK, ExecutionStates

\* What each step makes of the execution is an execution.
LEMMA ExecutionSteps ==
    ASSUME Len(Calls) \in Nat, ex \in ExecutionStates
    PROVE  /\ NotExecuting \in ExecutionStates
           /\ \A i \in 1..(Len(Calls) + 1) :
                 [NotExecuting EXCEPT !.at = "before", !.i = i] \in ExecutionStates
           /\ \A outcome \in {"success", "failure", "paused", "threw"} :
                 [NotExecuting EXCEPT !.outcome = outcome] \in ExecutionStates
           /\ [ex EXCEPT !.at = "wait", !.age = 0] \in ExecutionStates
           /\ [ex EXCEPT !.at = "call", !.age = 0] \in ExecutionStates
           /\ [ex EXCEPT !.at = "call", !.attempt = 0] \in ExecutionStates
           /\ [ex EXCEPT !.age = ex.age + 1] \in ExecutionStates
<1>1. 1 \in 1..(Len(Calls) + 1) /\ 0 \in 0..3 /\ ex.age \in Nat /\ ex.age + 1 \in Nat
  BY DEF ExecutionStates
<1>2. NotExecuting \in ExecutionStates
  BY <1>1 DEF NotExecuting, ExecutionStates
<1>3. /\ \A i \in 1..(Len(Calls) + 1) :
            [NotExecuting EXCEPT !.at = "before", !.i = i] \in ExecutionStates
      /\ \A outcome \in {"success", "failure", "paused", "threw"} :
            [NotExecuting EXCEPT !.outcome = outcome] \in ExecutionStates
  BY <1>2 DEF ExecutionStates
<1>4. /\ [ex EXCEPT !.at = "wait", !.age = 0] \in ExecutionStates
      /\ [ex EXCEPT !.at = "call", !.age = 0] \in ExecutionStates
      /\ [ex EXCEPT !.at = "call", !.attempt = 0] \in ExecutionStates
      /\ [ex EXCEPT !.age = ex.age + 1] \in ExecutionStates
  <2>1. [ex EXCEPT !.at = "wait", !.age = 0] \in ExecutionStates
    BY DEF ExecutionStates
  <2>2. [ex EXCEPT !.at = "call", !.age = 0] \in ExecutionStates
    BY DEF ExecutionStates
  <2>3. [ex EXCEPT !.at = "call", !.attempt = 0] \in ExecutionStates
    BY <1>1 DEF ExecutionStates
  <2>4. [ex EXCEPT !.age = ex.age + 1] \in ExecutionStates
    BY <1>1 DEF ExecutionStates
  <2>5. QED BY <2>1, <2>2, <2>3, <2>4
<1>5. QED BY <1>2, <1>3, <1>4

LEMMA ResultTyped ==
    ASSUME ex \in ExecutionStates, ex.i + 1 \in 1..(Len(Calls) + 1), NEW ok \in BOOLEAN,
           NEW next, next = AfterResult(ok)
    PROVE  /\ next \in ExecutionStates
           /\ next.at = "before" /\ next.i = ex.i + 1 /\ next.outcome = ex.outcome
           /\ next.overall = ((ex.overall /\ ok) \/ (~ok /\ Tool = "investigator.repo_inspect"))
           /\ next.mutateFailed = (ex.mutateFailed \/ (~ok /\ Tool \in MutateTools))
<1> DEFINE overall == (ex.overall /\ ok) \/ (~ok /\ Tool = "investigator.repo_inspect")
           mutateFailed == ex.mutateFailed \/ (~ok /\ Tool \in MutateTools)
           priorMutate == ex.priorMutate \/ (ok /\ Tool \in MutateTools)
<1>1. overall \in BOOLEAN /\ mutateFailed \in BOOLEAN /\ priorMutate \in BOOLEAN
  OBVIOUS
<1>2. next = [ex EXCEPT !.at = "before", !.i = ex.i + 1, !.attempt = 0, !.took = FALSE,
                        !.age = 0, !.overall = overall, !.mutateFailed = mutateFailed,
                        !.priorMutate = priorMutate]
  BY DEF AfterResult
<1> HIDE DEF overall, mutateFailed, priorMutate
<1>3. next = [at |-> "before", i |-> ex.i + 1, attempt |-> 0, overall |-> overall,
              mutateFailed |-> mutateFailed, priorMutate |-> priorMutate, took |-> FALSE,
              age |-> 0, outcome |-> ex.outcome]
  BY <1>2 DEF ExecutionStates
<1>4. next \in ExecutionStates
  BY <1>1, <1>3 DEF ExecutionStates
<1>5. QED BY <1>3, <1>4 DEF overall, mutateFailed

LEMMA KnownFacts ==
    ASSUME TypeOK
    PROVE  /\ setting \in Settings /\ ex \in ExecutionStates
           /\ Calls \in Seq(ToolNames) /\ Len(Calls) \in Nat
           /\ CoreIndex \in Indices /\ Indices = 1..Len(Calls)
           /\ Calls[CoreIndex] = CoreCall(setting.action)
           /\ Calls[CoreIndex] \in ToolNames \ Bystanders
           /\ \A i \in Indices \ {CoreIndex} :
                 Calls[i] \in Bystanders /\ Idempotent(Calls[i]) /\ Calls[i] \notin MutateTools
           /\ \A i \in Indices : Calls[i] = "investigator.repo_inspect" => i < CoreIndex
  BY Pipeline, ToolFacts DEF TypeOK, ExecutionStates

-----------------------------------------------------------------------------
(* A call ends *)

\* What AfterResult makes of the execution when the tool's success is real.
LEMMA ResultKeeps ==
    ASSUME RuntimeInv, ex.i \in Indices, Executing, NEW ok \in BOOLEAN,
           ok /\ ex.i = CoreIndex /\ setting.applies => effects[CoreIndex] > 0,
           ex' = AfterResult(ok), ran' = ran \cup {ex.i},
           UNCHANGED <<setting, run, sent, effects, count>>
    PROVE  RuntimeInv'
<1> USE DEF RuntimeInv
<1>1. /\ ex' \in ExecutionStates
      /\ ex'.at = "before" /\ ex'.i = ex.i + 1 /\ ex'.outcome = "none"
      /\ ex'.overall = ((ex.overall /\ ok) \/ (~ok /\ Tool = "investigator.repo_inspect"))
      /\ ex'.mutateFailed = (ex.mutateFailed \/ (~ok /\ Tool \in MutateTools))
  <2>1. ex.i + 1 \in 1..(Len(Calls) + 1) /\ ex.outcome = "none"
    BY KnownFacts DEF AtACall
  <2> HIDE DEF RuntimeInv
  <2>2. ex \in ExecutionStates
    BY ExecutionTyped DEF RuntimeInv
  <2>3. QED BY <2>1, <2>2, ResultTyped
<1>2. TypeOK'
  BY KnownFacts, SameCalls, <1>1 DEF TypeOK, ExecutionStates
<1>3. AtACall'
  BY <1>1 DEF AtACall
<1>4. SentInOrder'
  BY KnownFacts, SameCalls, <1>1
  DEF SentInOrder, NonIdempotentSentOnce, Executing, ExecutionStates
<1>5. VerdictIsOfTheAct'
  BY KnownFacts, SameCalls, <1>1 DEF VerdictIsOfTheAct, Executing, Tool, ExecutionStates
<1>6. ResumesFromTheAct'
  BY KnownFacts, SameCalls, <1>1
  DEF ResumesFromTheAct, ResumeSkipsOnlyWhatRan, Executing, ExecutionStates
<1>7. QED BY <1>2, <1>3, <1>4, <1>5, <1>6

\* An attempt ends the call, or leaves an attempt to a call that may be repeated.
LEMMA AttemptKeeps ==
    ASSUME RuntimeInv, ex.at = "post", NEW result \in {"ok", "refused", "threw"},
           result = "ok" => ex.took \/ ~setting.applies, AttemptEnds(result),
           UNCHANGED <<setting, run, sent, effects, count>>
    PROVE  RuntimeInv'
<1> DEFINE answer == IF result = "threw" /\ CatchesErrors(Tool) THEN "refused" ELSE result
<1>1. ex.i \in Indices /\ Executing
  BY DEF RuntimeInv, AtACall, Executing
<1>2. CASE ex' = AfterResult(answer = "ok") /\ ran' = ran \cup {ex.i}
  <2>1. answer = "ok" /\ ex.i = CoreIndex /\ setting.applies => effects[CoreIndex] > 0
    <3>1. answer = "ok" /\ setting.applies => ex.took
      OBVIOUS
    <3>2. QED BY <3>1 DEF RuntimeInv, VerdictIsOfTheAct
  <2> HIDE DEF answer
  <2>2. CASE answer = "ok"
    <3>1. ex' = AfterResult(TRUE)
      BY <1>2, <2>2
    <3>2. QED BY <1>1, <1>2, <2>1, <2>2, <3>1, ResultKeeps
  <2>3. CASE answer # "ok"
    <3>1. ex' = AfterResult(FALSE)
      BY <1>2, <2>3
    <3>2. QED BY <1>1, <1>2, <3>1, ResultKeeps
  <2>4. QED BY <2>2, <2>3
<1>3. CASE /\ ex.attempt < MaxRetries(Tool)
           /\ ex' = [ex EXCEPT !.at = "call", !.age = 0] /\ ran' = ran
  <2> USE DEF RuntimeInv
  <2>1. /\ ex' \in ExecutionStates /\ ex'.at = "call" /\ ex'.i = ex.i
        /\ ex'.attempt = ex.attempt /\ ex.attempt \in 1..3 /\ ex'.outcome = ex.outcome
        /\ ex'.overall = ex.overall /\ ex'.mutateFailed = ex.mutateFailed
        /\ Tool' = Tool
    <3>1. Len(Calls) \in Nat /\ ex \in ExecutionStates /\ Tool' = Tool
      BY KnownFacts, SameCalls, <1>3 DEF Tool
    <3>2. ex.attempt \in 1..3
      BY ToolFacts DEF AtACall
    <3> HIDE DEF RuntimeInv
    <3>3. ex' \in ExecutionStates
      BY <1>3, <3>1, ExecutionSteps
    <3>4. QED BY <1>3, <3>1, <3>2, <3>3 DEF ExecutionStates
  <2>2. TypeOK'
    BY KnownFacts, SameCalls, <1>3, <2>1 DEF TypeOK, ExecutionStates
  <2>3. AtACall'
    BY SameCalls, <1>1, <1>3, <2>1 DEF AtACall, Executing
  <2>4. SentInOrder'
    BY SameCalls, <1>1, <2>1 DEF SentInOrder, NonIdempotentSentOnce, Executing
  <2>5. VerdictIsOfTheAct' /\ ResumesFromTheAct'
    BY SameCalls, <1>1, <1>3, <2>1
    DEF VerdictIsOfTheAct, ResumesFromTheAct, ResumeSkipsOnlyWhatRan, Executing
  <2>6. QED BY <2>2, <2>3, <2>4, <2>5
<1>4. ex.attempt \in Nat /\ MaxRetries(Tool) \in Nat
  BY KnownFacts, ToolFacts DEF RuntimeInv, ExecutionStates
<1>5. QED BY <1>2, <1>3, <1>4 DEF AttemptEnds

LEMMA AnswerSteps ==
    RuntimeInv /\ (ToolAnswers \/ ExecutorAnswers \/ PostTimesOut) => RuntimeInv'
<1>1. RuntimeInv /\ ToolAnswers => RuntimeInv'
  BY AttemptKeeps DEF ToolAnswers, AppliesNothing
<1>2. RuntimeInv /\ ExecutorAnswers => RuntimeInv'
  BY AttemptKeeps DEF ExecutorAnswers
<1>3. RuntimeInv /\ PostTimesOut => RuntimeInv'
  BY AttemptKeeps DEF PostTimesOut
<1>4. QED BY <1>1, <1>2, <1>3

LEMMA WaitSteps ==
    RuntimeInv /\ PollRollout => RuntimeInv'
<1> SUFFICES ASSUME RuntimeInv, PollRollout PROVE RuntimeInv'
  OBVIOUS
<1>1. /\ ex.at = "wait" /\ ex.i \in Indices /\ Executing
      /\ UNCHANGED <<setting, run, sent, effects, count>>
      /\ ex.i # CoreIndex
  BY KnownFacts DEF RuntimeInv, AtACall, PollRollout, Executing, Tool, Bystanders
<1>2. ASSUME NEW healthy \in BOOLEAN, WaitEnds(healthy) PROVE RuntimeInv'
  BY <1>1, <1>2, ResultKeeps DEF WaitEnds
<1>3. CASE ex' = [ex EXCEPT !.age = @ + 1] /\ ran' = ran
  <2> USE DEF RuntimeInv
  <2>1. /\ ex' \in ExecutionStates /\ ex'.at = "wait" /\ ex'.i = ex.i
        /\ ex'.outcome = ex.outcome
        /\ ex'.overall = ex.overall /\ ex'.mutateFailed = ex.mutateFailed
        /\ Tool' = Tool
    BY KnownFacts, SameCalls, <1>1, <1>3, SMTT(30) DEF ExecutionStates, Tool
  <2>2. TypeOK'
    BY KnownFacts, SameCalls, <1>1, <1>3, <2>1 DEF TypeOK, ExecutionStates
  <2>3. AtACall' /\ SentInOrder'
    BY SameCalls, <1>1, <2>1
    DEF AtACall, SentInOrder, NonIdempotentSentOnce, Executing
  <2>4. VerdictIsOfTheAct' /\ ResumesFromTheAct'
    BY SameCalls, <1>1, <1>3, <2>1
    DEF VerdictIsOfTheAct, ResumesFromTheAct, ResumeSkipsOnlyWhatRan, Executing
  <2>5. QED BY <2>2, <2>3, <2>4
<1>4. QED BY <1>2, <1>3 DEF PollRollout

-----------------------------------------------------------------------------
(* The other steps *)

\* An execution begins with the first call, or with the acting one.
LEMMA ExecuteStep == RuntimeInv /\ ExecuteAction => RuntimeInv'
<1> SUFFICES ASSUME RuntimeInv, ExecuteAction PROVE RuntimeInv'
  OBVIOUS
<1> USE RuntimeAssumption DEF RuntimeInv, ExecuteAction
<1>1. StartIndex \in {1, CoreIndex} /\ StartIndex \in Indices
  BY KnownFacts DEF StartIndex, ResumesFromTheAct
<1>2. /\ ex' \in ExecutionStates /\ ex'.at = "before" /\ ex'.i = StartIndex
      /\ ~ex'.mutateFailed /\ ex'.outcome = "none"
  <2>1. StartIndex \in 1..(Len(Calls) + 1) /\ Len(Calls) \in Nat
    BY KnownFacts, <1>1
  <2>2. ex' = [NotExecuting EXCEPT !.at = "before", !.i = StartIndex]
    OBVIOUS
  <2>3. ex \in ExecutionStates
    BY ExecutionTyped
  <2> HIDE DEF RuntimeInv, ExecuteAction
  <2>4. ex' \in ExecutionStates
    BY <2>1, <2>2, <2>3, ExecutionSteps
  <2>5. QED BY <2>2, <2>4 DEF NotExecuting
<1>3. TypeOK'
  <2>1. /\ count.executions + 1 \in 0..MaxExecutions
        /\ [i \in Indices |-> 0] \in [Indices -> Nat]
    BY DEF TypeOK
  <2>2. QED BY SameCalls, <1>2, <2>1 DEF TypeOK, ExecutionStates
<1>4. AtACall'
  BY <1>2 DEF AtACall
<1>5. SentInOrder'
  BY KnownFacts, SameCalls, <1>1, <1>2 DEF SentInOrder, NonIdempotentSentOnce, Executing
<1>6. VerdictIsOfTheAct'
  BY KnownFacts, SameCalls, <1>1, <1>2, Pipeline DEF VerdictIsOfTheAct, Executing, CoreIndex
<1>7. ResumesFromTheAct'
  BY KnownFacts, SameCalls, <1>1, <1>2
  DEF ResumesFromTheAct, ResumeSkipsOnlyWhatRan, StartIndex, Executing
<1>8. QED BY <1>3, <1>4, <1>5, <1>6, <1>7

\* Only the acting call waits for a human, and what stands before it was called.
LEMMA PauseStep == RuntimeInv /\ PauseForTool => RuntimeInv'
<1> SUFFICES ASSUME RuntimeInv, PauseForTool PROVE RuntimeInv'
  OBVIOUS
<1> USE DEF RuntimeInv, PauseForTool
<1>1. ex.i = CoreIndex
  BY KnownFacts DEF PausesBefore, Tool, Idempotent
<1>2. /\ ~ex.mutateFailed /\ 1..(ex.i - 1) \subseteq ran
      /\ run'.resumeFrom = ex.i /\ ex.i \in 1..Len(Calls)
  BY KnownFacts, <1>1 DEF VerdictIsOfTheAct, ResumesFromTheAct, Executing, PauseAt
<1>3. ex' \in ExecutionStates /\ ex'.at = "idle" /\ ex'.outcome = "paused"
  <2>1. ex' = [NotExecuting EXCEPT !.outcome = "paused"]
    OBVIOUS
  <2>2. Len(Calls) \in Nat /\ ex \in ExecutionStates
    BY KnownFacts
  <2> HIDE DEF RuntimeInv, PauseForTool
  <2>3. ex' \in ExecutionStates
    BY <2>1, <2>2, ExecutionSteps
  <2>4. QED BY <2>1, <2>3 DEF NotExecuting
<1>4. TypeOK'
  BY KnownFacts, SameCalls, <1>2, <1>3, SMTT(30) DEF TypeOK, ExecutionStates, PauseAt
<1>5. AtACall' /\ SentInOrder' /\ VerdictIsOfTheAct'
  BY SameCalls, <1>3
  DEF AtACall, SentInOrder, NonIdempotentSentOnce, VerdictIsOfTheAct, Executing
<1>6. ResumesFromTheAct'
  BY KnownFacts, SameCalls, <1>1, <1>2, <1>3
  DEF ResumesFromTheAct, ResumeSkipsOnlyWhatRan, Executing
<1>7. QED BY <1>4, <1>5, <1>6

\* What is passed over comes after the mutation that failed.
LEMMA SkipStep == RuntimeInv /\ SkipTool => RuntimeInv'
<1> SUFFICES ASSUME RuntimeInv, SkipTool PROVE RuntimeInv'
  OBVIOUS
<1> USE DEF RuntimeInv, SkipTool
<1>1. /\ ex' \in ExecutionStates /\ ex'.at = "before" /\ ex'.i = ex.i + 1
      /\ ex.mutateFailed /\ ex'.mutateFailed /\ ex'.overall = ex.overall
      /\ ex'.outcome = ex.outcome
  <2>1. ex.i + 1 \in 1..(Len(Calls) + 1)
    BY KnownFacts
  <2>2. QED BY <2>1, ExecutionTyped DEF ExecutionStates, SkipsTool
<1>2. TypeOK'
  BY KnownFacts, SameCalls, <1>1 DEF TypeOK, ExecutionStates
<1>3. AtACall' /\ SentInOrder'
  BY KnownFacts, SameCalls, <1>1
  DEF AtACall, SentInOrder, NonIdempotentSentOnce, Executing
<1>4. VerdictIsOfTheAct' /\ ResumesFromTheAct'
  BY KnownFacts, SameCalls, <1>1
  DEF VerdictIsOfTheAct, ResumesFromTheAct, ResumeSkipsOnlyWhatRan, Executing
<1>5. QED BY <1>2, <1>3, <1>4

LEMMA BeginStep == RuntimeInv /\ BeginTool => RuntimeInv'
<1> SUFFICES ASSUME RuntimeInv, BeginTool PROVE RuntimeInv'
  OBVIOUS
<1> USE DEF RuntimeInv, BeginTool
<1>1. /\ ex' \in ExecutionStates /\ ex'.i = ex.i
      /\ \/ ex'.at = "wait" /\ Tool = "investigator.verify_health"
         \/ ex'.at = "call" /\ ex'.attempt = 0
      /\ ex'.mutateFailed = ex.mutateFailed /\ ex'.overall = ex.overall
      /\ ex'.outcome = ex.outcome /\ Tool' = Tool
  <2>1. \/ /\ ex' = [ex EXCEPT !.at = "wait", !.age = 0]
           /\ Tool = "investigator.verify_health"
        \/ ex' = [ex EXCEPT !.at = "call", !.attempt = 0]
    OBVIOUS
  <2>2. Len(Calls) \in Nat /\ ex \in ExecutionStates /\ setting' = setting
    BY KnownFacts
  <2> HIDE DEF RuntimeInv, BeginTool
  <2>3. ex' \in ExecutionStates
    BY <2>1, <2>2, ExecutionSteps
  <2>4. QED BY <2>1, <2>2, <2>3, SameCalls DEF ExecutionStates, Tool
<1>2. TypeOK'
  BY KnownFacts, SameCalls, <1>1 DEF TypeOK, ExecutionStates
<1>3. AtACall'
  BY SameCalls, ToolFacts, <1>1 DEF AtACall, Executing
<1>4. SentInOrder'
  BY SameCalls, <1>1 DEF SentInOrder, NonIdempotentSentOnce, Executing
<1>5. VerdictIsOfTheAct' /\ ResumesFromTheAct'
  BY SameCalls, <1>1
  DEF VerdictIsOfTheAct, ResumesFromTheAct, ResumeSkipsOnlyWhatRan, Executing
<1>6. QED BY <1>2, <1>3, <1>4, <1>5

\* What is not to be repeated is sent at the first attempt, which is its only one.
LEMMA CallStep == RuntimeInv /\ CallTool => RuntimeInv'
<1> SUFFICES ASSUME RuntimeInv, CallTool PROVE RuntimeInv'
  OBVIOUS
<1> USE DEF RuntimeInv
<1>1. PICK took \in BOOLEAN :
         /\ ex.at = "call"
         /\ sent' = [sent EXCEPT ![ex.i] = sent[ex.i] + 1]
         /\ ex' = [ex EXCEPT !.at = "post", !.attempt = ex.attempt + 1, !.took = took]
         /\ effects' = [effects EXCEPT ![ex.i] = IF took THEN effects[ex.i] + 1
                                                         ELSE effects[ex.i]]
         /\ UNCHANGED <<setting, run, ran, count>>
  BY DEF CallTool
<1>2. /\ ex.i \in Indices /\ ex.attempt \in Nat /\ ex.attempt < MaxRetries(Tool)
      /\ MaxRetries(Tool) \in 1..3
  BY KnownFacts, ToolFacts, <1>1 DEF AtACall, ExecutionStates
<1>3. /\ ex' \in ExecutionStates /\ ex'.at = "post" /\ ex'.i = ex.i
      /\ ex'.attempt \in 1..MaxRetries(Tool) /\ ex'.took = took
      /\ ex'.mutateFailed = ex.mutateFailed /\ ex'.overall = ex.overall
      /\ ex'.outcome = ex.outcome /\ Tool' = Tool
  <2>1. ex.attempt + 1 \in 1..MaxRetries(Tool) /\ ex.attempt + 1 \in 0..3
    BY <1>2
  <2>2. QED BY ExecutionTyped, SameCalls, <1>1, <2>1 DEF ExecutionStates, Tool
<1>4. /\ sent \in [Indices -> Nat] /\ effects \in [Indices -> Nat]
      /\ sent' \in [Indices -> Nat] /\ effects' \in [Indices -> Nat]
      /\ \A i \in Indices \ {ex.i} : sent'[i] = sent[i]
      /\ sent'[ex.i] = sent[ex.i] + 1
      /\ \A i \in Indices : effects[i] > 0 => effects'[i] > 0
      /\ took => effects'[ex.i] > 0
  BY <1>1, <1>2, SMTT(30) DEF TypeOK
<1>5. TypeOK'
  BY KnownFacts, SameCalls, <1>1, <1>3, <1>4 DEF TypeOK, ExecutionStates
<1>6. AtACall'
  BY SameCalls, <1>1, <1>2, <1>3 DEF AtACall, Executing
<1>7. SentInOrder'
  <2>1. ~Idempotent(Calls[ex.i]) => sent[ex.i] = 0
    BY ToolFacts, <1>1, <1>2 DEF SentInOrder, Executing, Tool
  <2>2. NonIdempotentSentOnce'
    <3> SUFFICES ASSUME NEW i \in Indices, ~Idempotent(Calls[i]) PROVE sent'[i] <= 1
      BY SameCalls, <1>1 DEF NonIdempotentSentOnce, Idempotent
    <3>1. CASE i = ex.i BY <1>4, <2>1, <3>1
    <3>2. CASE i # ex.i BY <1>4, <3>2 DEF SentInOrder, NonIdempotentSentOnce
    <3>3. QED BY <3>1, <3>2
  <2>3. QED
    BY KnownFacts, SameCalls, <1>1, <1>2, <1>3, <1>4, <2>2 DEF SentInOrder, Executing
<1>8. VerdictIsOfTheAct' /\ ResumesFromTheAct'
  BY KnownFacts, SameCalls, <1>1, <1>2, <1>3, <1>4
  DEF VerdictIsOfTheAct, ResumesFromTheAct, ResumeSkipsOnlyWhatRan, Executing
<1>9. QED BY <1>5, <1>6, <1>7, <1>8

LEMMA TickStep == RuntimeInv /\ Tick => RuntimeInv'
<1> SUFFICES ASSUME RuntimeInv, Tick PROVE RuntimeInv'
  OBVIOUS
<1> USE DEF RuntimeInv, Tick
<1>1. /\ ex' \in ExecutionStates /\ ex'.at = ex.at /\ ex'.i = ex.i
      /\ ex'.attempt = ex.attempt /\ ex'.took = ex.took
      /\ ex'.mutateFailed = ex.mutateFailed /\ ex'.overall = ex.overall
      /\ ex'.outcome = ex.outcome /\ Tool' = Tool
  <2>1. ex.age + 1 \in Nat
    BY ExecutionTyped DEF ExecutionStates
  <2>2. QED BY ExecutionTyped, SameCalls, <2>1 DEF ExecutionStates, Tool
<1>2. TypeOK'
  BY KnownFacts, SameCalls, <1>1 DEF TypeOK, ExecutionStates
<1>3. AtACall' /\ SentInOrder'
  BY SameCalls, <1>1 DEF AtACall, SentInOrder, NonIdempotentSentOnce, Executing
<1>4. VerdictIsOfTheAct' /\ ResumesFromTheAct'
  BY SameCalls, <1>1
  DEF VerdictIsOfTheAct, ResumesFromTheAct, ResumeSkipsOnlyWhatRan, Executing
<1>5. QED BY <1>2, <1>3, <1>4

\* An execution that reached its end with its verdict standing has passed its acting call.
LEMMA EndSteps ==
    RuntimeInv /\ (PollThrows \/ FinishExecution) => RuntimeInv'
<1> SUFFICES ASSUME RuntimeInv, PollThrows \/ FinishExecution PROVE RuntimeInv'
  OBVIOUS
<1> USE DEF RuntimeInv, PollThrows, FinishExecution
<1>1. /\ ex' \in ExecutionStates /\ ex'.at = "idle"
      /\ UNCHANGED <<setting, sent, effects, ran, count>>
      /\ run'.resumeFrom \in {0, run.resumeFrom}
      /\ run'.status \in {run.status, "failed"} /\ run'.pendingTool \in {0, run.pendingTool}
      /\ run' = [run EXCEPT !.status = run'.status, !.resumeFrom = run'.resumeFrom,
                            !.pendingTool = run'.pendingTool]
  <2>1. Len(Calls) \in Nat /\ ex \in ExecutionStates
    BY KnownFacts
  <2>2. ex' \in ExecutionStates /\ ex'.at = "idle"
    <3>1. PICK outcome \in {"success", "failure", "paused", "threw"} :
             ex' = [NotExecuting EXCEPT !.outcome = outcome]
      OBVIOUS
    <3> HIDE DEF RuntimeInv, PollThrows, FinishExecution
    <3>2. ex' \in ExecutionStates
      BY <2>1, <3>1, ExecutionSteps
    <3>3. QED BY <3>1, <3>2 DEF NotExecuting
  <2>3. run \in [status: {"running", "awaiting_human", "failed", "ended"},
                 resumeFrom: 0..(Len(Calls) + 1), pendingTool: 0..Len(Calls)]
    BY DEF TypeOK
  <2>4. QED BY <2>2, <2>3
<1>2. ex'.outcome = "success" /\ setting.applies => effects[CoreIndex] > 0
  <2>1. CASE PollThrows
    BY <2>1 DEF NotExecuting
  <2>2. CASE FinishExecution
    <3>1. CoreIndex < ex.i
      BY <2>2, KnownFacts DEF ExecutionStates
    <3>2. ex'.outcome = "success" => ex.overall
      BY <2>2 DEF NotExecuting
    <3>3. QED BY <2>2, <3>1, <3>2 DEF VerdictIsOfTheAct, Executing
  <2>3. QED BY <2>1, <2>2
<1>3. TypeOK'
  <2>1. run' \in [status: {"running", "awaiting_human", "failed", "ended"},
                  resumeFrom: 0..(Len(Calls) + 1), pendingTool: 0..Len(Calls)]
    <3>1. /\ run \in [status: {"running", "awaiting_human", "failed", "ended"},
                       resumeFrom: 0..(Len(Calls) + 1), pendingTool: 0..Len(Calls)]
          /\ 0 \in 0..(Len(Calls) + 1) /\ 0 \in 0..Len(Calls)
      BY KnownFacts DEF TypeOK
    <3> HIDE DEF RuntimeInv, PollThrows, FinishExecution
    <3>2. QED BY <1>1, <3>1
  <2> HIDE DEF PollThrows, FinishExecution
  <2>2. QED BY SameCalls, <1>1, <2>1 DEF TypeOK, ExecutionStates
<1>4. AtACall' /\ SentInOrder' /\ VerdictIsOfTheAct'
  BY SameCalls, <1>1, <1>2
  DEF AtACall, SentInOrder, NonIdempotentSentOnce, VerdictIsOfTheAct, Executing
<1>5. ResumesFromTheAct'
  BY SameCalls, <1>1
  DEF ResumesFromTheAct, ResumeSkipsOnlyWhatRan, Executing
<1>6. QED BY <1>3, <1>4, <1>5

LEMMA OutsideSteps ==
    RuntimeInv /\ (ApproveTool \/ EndRun) => RuntimeInv'
<1> SUFFICES ASSUME RuntimeInv, ApproveTool \/ EndRun PROVE RuntimeInv'
  OBVIOUS
<1> USE DEF RuntimeInv, ApproveTool, EndRun
<1>1. /\ UNCHANGED <<setting, ex, sent, effects, ran>> /\ Tool' = Tool
      /\ run'.resumeFrom = run.resumeFrom
  BY SameCalls DEF TypeOK, Tool
<1>2. count' \in [executions: 0..MaxExecutions, approvals: [Indices -> Nat]]
  BY DEF TypeOK
<1>3. TypeOK'
  BY SameCalls, <1>1, <1>2, ZenonT(60) DEF TypeOK
<1>4. AtACall' /\ SentInOrder' /\ VerdictIsOfTheAct'
  BY SameCalls, <1>1
  DEF AtACall, SentInOrder, NonIdempotentSentOnce, VerdictIsOfTheAct, Executing
<1>5. ResumesFromTheAct'
  BY SameCalls, <1>1 DEF ResumesFromTheAct, ResumeSkipsOnlyWhatRan, Executing
<1>6. QED BY <1>3, <1>4, <1>5

-----------------------------------------------------------------------------
(* The invariant, and what follows from it *)

LEMMA InitInv == Init => RuntimeInv
<1> SUFFICES ASSUME Init PROVE RuntimeInv
  OBVIOUS
<1> USE RuntimeAssumption DEF Init
<1>1. /\ Len(Calls) \in Nat /\ CoreIndex \in Indices /\ Indices = 1..Len(Calls)
  BY Pipeline
<1>2. ex \in ExecutionStates
  BY <1>1 DEF NotExecuting, ExecutionStates
<1>3. TypeOK
  BY <1>1, <1>2 DEF TypeOK, ExecutionStates
<1>4. AtACall /\ SentInOrder /\ VerdictIsOfTheAct /\ ResumesFromTheAct
  BY <1>1 DEF AtACall, SentInOrder, NonIdempotentSentOnce, VerdictIsOfTheAct,
     ResumesFromTheAct, ResumeSkipsOnlyWhatRan, Executing, NotExecuting
<1>5. QED BY <1>3, <1>4 DEF RuntimeInv

LEMMA NextInv == RuntimeInv /\ [Next]_vars => RuntimeInv'
<1> SUFFICES ASSUME RuntimeInv, [Next]_vars PROVE RuntimeInv'
  OBVIOUS
<1>1. CASE Next
  BY <1>1, ExecuteStep, PauseStep, SkipStep, BeginStep, CallStep, AnswerSteps, TickStep,
     WaitSteps, EndSteps, OutsideSteps DEF Next
<1>2. CASE UNCHANGED vars
  <2>1. Tool' = Tool /\ UNCHANGED <<setting, run, ex, sent, effects, ran, count>>
    BY <1>2, SameCalls DEF vars, Tool
  <2>2. QED
    BY <2>1, SameCalls
    DEF RuntimeInv, TypeOK, AtACall, SentInOrder, NonIdempotentSentOnce, VerdictIsOfTheAct,
        ResumesFromTheAct, ResumeSkipsOnlyWhatRan, Executing
<1>3. QED BY <1>1, <1>2

LEMMA RuntimeInvariant == Spec => []RuntimeInv
  BY InitInv, NextInv, PTL DEF Spec

\* Every variable keeps its type: the stored record, the execution and the counts
\* (tools.ts, tool-runtime.ts).
THEOREM TypesAreKept == Spec => []TypeOK
<1>1. RuntimeInv => TypeOK
  BY DEF RuntimeInv
<1>2. QED BY <1>1, RuntimeInvariant, PTL

\* A commit, a pull request or a workflow run is asked for at most once by an execution,
\* whatever became of the answer (tool-runtime.ts:711-725).
THEOREM NothingIsSentTwice == Spec => []NonIdempotentSentOnce
<1>1. RuntimeInv => NonIdempotentSentOnce
  BY DEF RuntimeInv, SentInOrder
<1>2. QED BY <1>1, RuntimeInvariant, PTL

\* Paused, resumed and retried at will, an execution that reports success has its acting
\* call in effect, if the agent it asked applies it at all (a plain manifest under
\* REGISTRY_DRY_RUN and a patch without operations are not applied), and a paused run resumes past nothing but calls that were made
\* (tools.ts:428-437, tool-runtime.ts:757-765).
THEOREM SuccessesAreWhole == Spec => []SuccessIsWhole
<1>1. RuntimeInv => SuccessIsWhole
  <2> SUFFICES ASSUME RuntimeInv PROVE SuccessIsWhole
    OBVIOUS
  <2>1. ResumeSkipsOnlyWhatRan
    BY DEF RuntimeInv, ResumesFromTheAct
  <2>2. ASSUME NEW i \in Indices, Calls[i] = CoreCall(setting.action) PROVE i = CoreIndex
    BY <2>2, KnownFacts DEF RuntimeInv, Bystanders
  <2>3. SuccessIsEffective
    BY <2>2 DEF SuccessIsEffective, RuntimeInv, VerdictIsOfTheAct
  <2>4. QED BY <2>1, <2>3 DEF SuccessIsWhole
<1>2. QED BY <1>1, RuntimeInvariant, PTL
=============================================================================
