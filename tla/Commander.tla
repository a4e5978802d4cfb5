------------------------------- MODULE Commander -------------------------------
(***************************************************************************)
(* One operator's chat with the commander: messages and buttons that       *)
(* overlap, the prompts that are open meanwhile (delete-choice.ts,         *)
(* investigate-choice.ts, deploy-choice.ts, namespace-prompt.ts,           *)
(* hil-suggest-pending.ts, deploy-source-followup.ts, clarification.ts),   *)
(* what a session remembers for the next message (session-followups.ts,    *)
(* conversation.ts), the commands they end in (router.ts), and the cases   *)
(* that follow the runs (case-manager.ts, case-run-sync.ts).               *)
(*                                                                         *)
(* The three platforms have a handler each (chat-handler.ts, telegram.ts,  *)
(* slack.ts), which ask the same resolvers in different orders.  A prompt  *)
(* is the one entry of its kind in a map of the chat: a newer one replaces *)
(* it, and its buttons answer whatever entry is there.                     *)
(***************************************************************************)
EXTENDS Integers, FiniteSets, Sequences

CONSTANTS
    Targets,     \* workloads
    Handlers,    \* messages and buttons handled at the same time
    Notices,     \* run updates handled at the same time
    Setups,      \* the platform, what the operator may say and command, how often, and
                 \* whether the namespace of a deploy is missing
    MaxMessages,
    MaxRuns

Platforms == {"web", "telegram", "slack"}
Kinds == {"deploy", "namespace", "delete", "investigate", "suggest", "source"}
Texts == {"cancel", "status", "number", "yes", "source", "command", "button", "fix", "image",
          "retry"}
Types == {"deploy", "delete", "investigate", "rollback", "ci", "app"}
Prompts == 1..MaxMessages
SourcePrompt == MaxMessages + 1

\* What a command is about: a workload, a name that no workload has, or a repository.
Other == "other"
Repo == "repo"
Names == Targets \cup {Other}

\* "explicit" says of a deploy that it names its strategy, and of an app's review that the
\* app is to be repaired.
NoCmd == [type |-> "none", target |-> "none", explicit |-> FALSE, create |-> FALSE]
Command(type, target) == [NoCmd EXCEPT !.type = type, !.target = target]
Commands == [type: Types, target: Names \cup {Repo}, explicit: BOOLEAN, create: BOOLEAN]

\* The mode of the run that a command starts.
Mode(cmd) ==
    CASE cmd.type \in {"investigate", "app"} -> "diagnose"
      [] cmd.type = "deploy" -> "pre-deploy"
      [] OTHER -> cmd.type

ASSUME CommanderAssumption ==
    /\ {MaxMessages, MaxRuns} \subseteq Nat \ {0}
    /\ Setups \subseteq [platform: Platforms, texts: SUBSET Texts, commands: SUBSET Types,
                         missing: BOOLEAN, messages: 1..MaxMessages, runs: 1..MaxRuns]

VARIABLES
    setup,
    prompt,  \* per kind, the open prompt
    handler,
    session, \* lastDeployDraft, lastRunId, lastMode, whether there are a lastRepo and a
             \* lastAppReview, the workload of an activeTopic, and what is left of the bounds
    runs,    \* the orchestrator's: per incident, its workload, mode and status
    cases,   \* in the order of their creation
    desk,    \* per subject, the case written last; and the active case
    notice,  \* run updates on their way to the case
    answers, \* per prompt, how often it was resolved
    told     \* the incidents that replies named

vars == <<setup, prompt, handler, session, runs, cases, desk, notice, answers, told>>

-----------------------------------------------------------------------------
NoPrompt == [id |-> 0, cmd |-> NoCmd, run |-> 0]
Idle == [at |-> "idle", text |-> "none", cmd |-> NoCmd, case |-> 0, incident |-> 0, seen |-> {}]
NoNotice == [at |-> "idle", run |-> 0, case |-> 0, status |-> "none"]
App == <<"app", Other>>
Subjects == ({"deploy", "workload"} \X Names) \cup {App}
Active == {"running", "awaiting"}

\* An incident that was given a number although its run was not started.
Ghost == MaxRuns + 1

Init ==
    /\ setup \in Setups
    /\ prompt = [k \in Kinds |-> NoPrompt]
    /\ handler = [h \in Handlers |-> Idle]
    /\ session = [draft |-> NoCmd, run |-> 0, mode |-> "none", repo |-> FALSE, reviewed |-> FALSE,
                  topic |-> "none", messages |-> 0, prompts |-> 0]
    /\ runs = <<>>
    /\ cases = <<>>
    /\ desk = [latest |-> [s \in Subjects |-> 0], active |-> 0]
    /\ notice = [n \in Notices |-> NoNotice]
    /\ answers = [p \in Prompts |-> 0]
    /\ told = {}

Chat == setup.platform \in {"telegram", "slack"}

Goto(h, at, cmd) == handler' = [handler EXCEPT ![h].at = at, ![h].cmd = cmd]
Done(h) == handler' = [handler EXCEPT ![h] = Idle]

\* store...Choice: the entry of the kind is replaced.
Store(kind, cmd) ==
    prompt' = [prompt EXCEPT ![kind] = [id |-> session.prompts + 1, cmd |-> cmd, run |-> 0]]

Remembered(draft) == session' = [session EXCEPT !.prompts = @ + 1, !.draft = draft]
NoCases == UNCHANGED <<cases, desk, notice>>

\* MemoryCaseStore: a case that is written becomes the one its subject leads to, an older
\* one too.
SaveCase(id, case) ==
    /\ cases' = [cases EXCEPT ![id] = case]
    /\ desk' = [desk EXCEPT !.latest[case.subject] = id]

-----------------------------------------------------------------------------
(* A message *)

\* The order in which a platform asks the resolvers.
WebOrder == <<"investigate", "delete", "source", "clarify">>
TelegramOrder == <<"suggest", "namespace", "deploy", "delete", "investigate">>
SlackOrder == <<"namespace", "deploy", "delete", "investigate">>

Order ==
    CASE setup.platform = "web" -> WebOrder
      [] setup.platform = "telegram" -> TelegramOrder
      [] setup.platform = "slack" -> SlackOrder

\* The prompt for a deploy's source and the question which workload was meant are one
\* field of the session, pendingClarification; the former belongs to a run.
IsOpen(kind) ==
    CASE kind = "source" -> prompt["source"].run # 0
      [] kind = "clarify" -> prompt["source"] # NoPrompt /\ prompt["source"].run = 0
      [] OTHER -> prompt[kind] # NoPrompt

\* What a resolver makes of a text, if its prompt is open: a number may be out of range,
\* a prompt for a suggestion takes any text, and the question for a workload takes the
\* first word of any text but a number as its name.
Resolves(kind, text) ==
    \/ text = "cancel"
    \/ text = "number" /\ kind \in {"deploy", "delete", "investigate"}
    \/ text = "yes" /\ kind = "namespace"
    \/ text = "source" /\ kind = "source"
    \/ text # "number" /\ kind = "clarify"
    \/ kind = "suggest"

\* Mutant: a prompt is kept until its command is done.
ResolvedOnCancel(kind, selection) ==
    IF selection = "cancel" THEN [prompt EXCEPT ![kind] = NoPrompt] ELSE prompt

\* resolve...Selection: the entry is removed before anything is awaited.
Resolved(kind, selection) == [prompt EXCEPT ![kind] = NoPrompt]

\* Mutant: a deploy whose namespace is to be created is checked like any other.
AsksNamespaceAlways(cmd) == setup.platform = "telegram"

\* launchDeploy; Slack checks the namespace of commands only, and no answers.
AsksNamespace(cmd) == setup.platform = "telegram" /\ ~cmd.create

\* Where the command of an answer goes on.
AfterAnswer(h, kind) ==
    LET cmd == prompt[kind].cmd
    IN CASE kind = "deploy" ->
                LET chosen == [cmd EXCEPT !.explicit = TRUE]
                IN Goto(h, IF AsksNamespace(chosen) THEN "check" ELSE "open", chosen)
         [] kind = "namespace" ->
                LET agreed == [cmd EXCEPT !.create = TRUE]
                IN Goto(h, IF AsksNamespace(agreed) THEN "check" ELSE "open", agreed)
         [] kind = "delete" -> \E t \in Targets : Goto(h, "delete", [cmd EXCEPT !.target = t])
         [] kind = "investigate" ->
                \/ \E t \in Targets : Goto(h, "open", [cmd EXCEPT !.target = t])
                \/ Done(h) \* a status query
         [] kind = "suggest" -> Done(h)

\* The answer to the open prompt of a kind.
Answer(h, kind, selection) ==
    /\ prompt[kind] # NoPrompt
    /\ prompt' = Resolved(kind, selection)
    /\ answers' = [answers EXCEPT ![prompt[kind].id] = @ + 1]
    /\ IF selection = "cancel" THEN Done(h) ELSE AfterAnswer(h, kind)
    /\ UNCHANGED runs

Message(h, text) ==
    /\ handler[h].at = "idle"
    /\ text \in setup.texts
    /\ session.messages < setup.messages
    /\ session' = [session EXCEPT !.messages = @ + 1]
    /\ UNCHANGED <<setup, told>> /\ NoCases

\* tryPendingRunFollowUp comes first on the web and on Telegram: "cancel" is always
\* about runs there, and so is a question about what is pending.
AskPending(h, text) ==
    /\ text \in {"cancel", "status"} /\ setup.platform # "slack"
    /\ Message(h, text)
    /\ handler' = [handler EXCEPT ![h].at = "list", ![h].text = text]
    /\ UNCHANGED <<prompt, runs, answers>>

Takes(kind, text) == IsOpen(kind) /\ Resolves(kind, text)
NobodyTakes(text) == \A j \in DOMAIN Order : ~Takes(Order[j], text)
TakesFirst(kind, text) ==
    \E j \in DOMAIN Order :
        /\ Order[j] = kind /\ Takes(kind, text)
        /\ \A i \in 1..(j - 1) : ~Takes(Order[i], text)

\* The first resolver that takes the text, or the router; a number that is out of the range
\* of a deletion's or an investigation's prompt goes to the router, too.
Say(h, text) ==
    /\ text \in Texts \ {"button"}
    /\ text \in {"cancel", "status"} => setup.platform = "slack"
    /\ Message(h, text)
    /\ \/ \E kind \in Kinds \ {"source"} :
             /\ TakesFirst(kind, text)
             /\ Answer(h, kind, IF text = "cancel" THEN "cancel" ELSE "select")
       \/ /\ TakesFirst("source", text)
          /\ handler' = [handler EXCEPT ![h].at = "source", ![h].cmd = prompt["source"].cmd,
                            ![h].seen = {prompt["source"].run}]
          /\ UNCHANGED <<prompt, runs, answers>>
       \/ /\ TakesFirst("clarify", text)
          /\ handler' = [handler EXCEPT ![h].at = "clarify"]
          /\ UNCHANGED <<prompt, runs, answers>>
       \/ /\ \/ NobodyTakes(text)
             \/ text = "number" /\ \E kind \in {"delete", "investigate"} : TakesFirst(kind, text)
          /\ handler' = [handler EXCEPT ![h].at = "route", ![h].text = text]
          /\ UNCHANGED <<prompt, runs, answers>>

\* The callbacks of Telegram's buttons; a button of a prompt that is gone does nothing.
Press(h, kind) ==
    /\ setup.platform = "telegram"
    /\ Message(h, "button")
    /\ \/ /\ kind \in {"investigate", "deploy", "namespace"}
          /\ \E selection \in {"select", "cancel"} : Answer(h, kind, selection)
       \/ /\ kind \in {"investigate", "deploy", "namespace"} /\ prompt[kind] = NoPrompt
          /\ UNCHANGED <<handler, prompt, runs, answers>>

\* tryDeploySourceFollowUp: the prompt is part of the session, which is read and cleared by
\* calls of their own, so that two messages may answer the same one.
AnswerSource(h) ==
    /\ handler[h].at = "source"
    /\ prompt' = [prompt EXCEPT !["source"] = NoPrompt]
    /\ \/ /\ runs' = [i \in DOMAIN runs |->
                    IF i \in handler[h].seen /\ runs[i].status \in Active
                    THEN [runs[i] EXCEPT !.status = "cancelled"] ELSE runs[i]]
          /\ Done(h)
       \/ /\ handler' = [handler EXCEPT ![h].at = "open", ![h].seen = {}]
          /\ UNCHANGED runs
    /\ UNCHANGED <<setup, session, answers, told>> /\ NoCases

\* tryResolvePendingClarification: a workload's status, which is answered at once, or an
\* investigation of whatever the first word names.
AnswerClarification(h) ==
    /\ handler[h].at = "clarify" /\ UNCHANGED <<setup, session, runs, answers, told>> /\ NoCases
    /\ prompt' = [prompt EXCEPT !["source"] = NoPrompt]
    /\ Done(h) \/ \E name \in Names : Goto(h, "open", Command("investigate", name))

\* resetWebChatSession: the topic and the question are forgotten; the prompts that are
\* kept in maps, the case, the draft and the last run are not.
ResetWebChat ==
    /\ setup.platform = "web" /\ (prompt["source"] # NoPrompt \/ session.topic # "none")
    /\ prompt' = [prompt EXCEPT !["source"] = NoPrompt]
    /\ session' = [session EXCEPT !.topic = "none"]
    /\ UNCHANGED <<setup, handler, runs, answers, told>> /\ NoCases

\* The button "Suggest fix" of an approval.
PressSuggest(h) ==
    /\ setup.platform = "telegram"
    /\ handler[h].at = "idle" /\ "button" \in setup.texts
    /\ session.messages < setup.messages
    /\ Store("suggest", NoCmd)
    /\ session' = [session EXCEPT !.messages = @ + 1, !.prompts = @ + 1]
    /\ UNCHANGED <<setup, handler, runs, answers, told>> /\ NoCases

\* An entry is past its time; it is removed when it is looked at.
Expire(kind) ==
    /\ prompt[kind] # NoPrompt /\ kind # "source"
    /\ prompt' = [prompt EXCEPT ![kind] = NoPrompt]
    /\ UNCHANGED <<setup, handler, session, runs, answers, told>> /\ NoCases

-----------------------------------------------------------------------------
(* The router, and the prompts that commands lead to *)

HandlerStep(h, at) == handler[h].at = at /\ UNCHANGED <<setup, told>>

\* Where a chat goes on with a routed command: a deploy asks for its strategy and for its
\* namespace.
RoutedInChat(h, cmd) ==
    CASE cmd.type = "deploy" ->
            Goto(h, IF ~cmd.explicit THEN "inspect" ELSE IF cmd.create THEN "open" ELSE "check",
                 cmd)
      [] cmd.type \in {"investigate", "app"} -> Goto(h, "resolve", cmd)
      [] cmd.type = "delete" -> Goto(h, "delete", cmd)
      [] cmd.type \in {"rollback", "ci"} -> Goto(h, "post", cmd)

\* And on the web, where a strategy is not asked for.
RoutedOnWeb(h, cmd) ==
    IF cmd.type = "deploy" THEN Goto(h, "open", cmd) \/ (~cmd.explicit /\ Done(h))
                           ELSE RoutedInChat(h, cmd)

AfterRoute(h, cmd) == IF Chat THEN RoutedInChat(h, cmd) ELSE RoutedOnWeb(h, cmd)

\* trySessionFollowUp: what the session makes of a text before anything else is tried.
\* After an app's review, however old, "fix" is about that app.
FollowUp(text) ==
    CASE text = "fix" /\ session.reviewed -> {[Command("app", Other) EXCEPT !.explicit = TRUE]}
      [] text = "image" /\ session.topic # "none" -> {Command("investigate", session.topic)}
      [] text = "retry" /\ session.mode = "ci" /\ session.repo -> {Command("ci", Repo)}
      [] OTHER -> {}

\* The draft of the last deploy, with another branch or, after a yes, with its namespace to
\* be created.
DraftFollowUp(text) ==
    CASE session.draft # NoCmd /\ text = "command" -> {session.draft}
      [] session.draft # NoCmd /\ text = "yes" -> {[session.draft EXCEPT !.create = TRUE]}
      [] OTHER -> {}

\* What the regular expressions find: an app or chart of the catalog, whose strategy is
\* known, or a repository, whose strategy may be left open;
CatalogDeploys == {[Command("deploy", t) EXCEPT !.explicit = TRUE] : t \in Targets}

RepositoryDeploys ==
    {[Command("deploy", t) EXCEPT !.explicit = e] : t \in Targets, e \in BOOLEAN}

\* the builds of a repository; the name of a workload; an app by the words around it; and a
\* workload, a namespace or nothing in particular that is not well.
BuildFailures == {Command("ci", Repo)}
Rollbacks == {Command("rollback", t) : t \in Targets}
Deletions == {Command("delete", t) : t \in Targets}
AppReviews == {[Command("app", Other) EXCEPT !.explicit = e] : e \in BOOLEAN}
Investigations == {Command("investigate", t) : t \in Targets}

\* The LLM finds the same, or fills in a name: its intent goes through the same expressions.
Parsed ==
    CatalogDeploys \cup RepositoryDeploys \cup BuildFailures \cup Rollbacks \cup Deletions
        \cup AppReviews \cup Investigations

Classified(text) ==
    IF text \in {"command", "fix", "image", "retry"}
    THEN {cmd \in Parsed : cmd.type \in setup.commands}
    ELSE {}

\* maybeSetClarification: the question which workload or namespace is meant, which only a
\* web chat takes answers to; a vague investigation goes on all the same.
AskWhich(h) ==
    /\ setup.platform = "web" /\ handler[h].text = "command" /\ "investigate" \in setup.commands
    /\ prompt' = [prompt EXCEPT !["source"] = [NoPrompt EXCEPT !.id = SourcePrompt]]
    /\ Done(h) \/ Goto(h, "resolve", Command("investigate", Other))

\* routeMessage: a command, or a question that is answered at once.
RouteMessage(h) ==
    /\ HandlerStep(h, "route")
    /\ LET text == handler[h].text
       IN \/ /\ UNCHANGED prompt
             /\ IF FollowUp(text) # {}
                THEN \E cmd \in FollowUp(text) : AfterRoute(h, cmd)
                ELSE \/ \E cmd \in DraftFollowUp(text) \cup Classified(text) : AfterRoute(h, cmd)
                     \/ Done(h)
          \/ AskWhich(h)
    /\ UNCHANGED <<session, runs, answers>> /\ NoCases

\* tryResumeCaseWithHint: the active case goes on with the hint.
ResumeCaseWithHint(h) ==
    /\ HandlerStep(h, "route") /\ handler[h].text \in {"command", "image", "retry"}
    /\ desk.active # 0
    /\ LET c == cases[desk.active]
       IN /\ c.status \in {"open", "escalated"} /\ c.subject[1] = "workload"
          /\ SaveCase(desk.active, [c EXCEPT !.status =
                                       IF @ = "escalated" THEN "investigating" ELSE @])
          /\ Goto(h, "resolve", Command("investigate", c.subject[2]))
    /\ UNCHANGED <<prompt, session, runs, notice, answers>>

\* buildDeployChoicePrompt: the repository is inspected, and the strategy asked for.
DeployChoice(h) ==
    /\ HandlerStep(h, "inspect")
    /\ Store("deploy", handler[h].cmd)
    /\ Remembered(handler[h].cmd)
    /\ Done(h)
    /\ UNCHANGED <<runs, answers>> /\ NoCases

\* needsNamespaceCreatePrompt: a check that fails counts as "exists".
CheckNamespace(h) ==
    /\ HandlerStep(h, "check")
    /\ \/ /\ setup.missing
          /\ Store("namespace", handler[h].cmd)
          /\ Remembered(handler[h].cmd)
          /\ Done(h)
       \/ Goto(h, "open", handler[h].cmd) /\ UNCHANGED <<prompt, session>>
    /\ UNCHANGED <<runs, answers>> /\ NoCases

\* resolveWorkloadCandidates: workloads with a name like the one that was said, or, as none
\* has one, those of the namespace; none either if the cluster cannot be asked.
Candidates == SUBSET Targets

\* prepareInvestigateCommand: nothing is found; or the user is asked which candidate is meant;
\* or one is far above the others, or not ready, and it is investigated unasked.  An app's
\* review needs no workload.
ResolveWorkload(h) ==
    /\ HandlerStep(h, "resolve")
    /\ \/ /\ handler[h].cmd.type = "app" /\ Goto(h, "review", handler[h].cmd)
          /\ UNCHANGED <<prompt, session>>
       \/ Done(h) /\ UNCHANGED <<prompt, session>>
       \/ /\ handler[h].cmd.type = "investigate"
          /\ \E found \in Candidates :
                \/ /\ found # {}
                   /\ Store("investigate", handler[h].cmd)
                   /\ Remembered(session.draft)
                   /\ Done(h)
                \/ /\ \E t \in found : Goto(h, "open", [handler[h].cmd EXCEPT !.target = t])
                   /\ UNCHANGED <<prompt, session>>
    /\ UNCHANGED <<runs, answers>> /\ NoCases

\* remediationTargetFromAppReview: the workload at the frontier of the failure, or the
\* app's own name.
ReviewTargets == Names

\* handleCommand, an app: the review fails; or is told and remembered; and a repair that
\* was asked for goes on, unless the app is well.
LoadAppReview(h) ==
    /\ HandlerStep(h, "review")
    /\ \/ Done(h) /\ UNCHANGED session
       \/ /\ session' = [session EXCEPT !.reviewed = TRUE, !.topic = Other]
          /\ \/ Done(h)
             \/ /\ handler[h].cmd.explicit
                /\ \E t \in ReviewTargets : Goto(h, "open", [handler[h].cmd EXCEPT !.target = t])
    /\ UNCHANGED <<prompt, runs, answers>> /\ NoCases

\* handleCommand, delete: prepareDeleteCommand resolves the name, an answer's too, and
\* asks again or has the gitops agent undeploy what it found.
Delete(h) ==
    /\ HandlerStep(h, "delete")
    /\ \/ Store("delete", handler[h].cmd) /\ Remembered(session.draft)
       \/ UNCHANGED <<prompt, session>>
    /\ Done(h)
    /\ UNCHANGED <<runs, answers>> /\ NoCases

-----------------------------------------------------------------------------
(* handleCommand, and the runs it starts; rollbacks and CI failures have no case *)

Subject(cmd) ==
    CASE cmd.type = "deploy" -> <<"deploy", cmd.target>>
      [] cmd.type = "investigate" -> <<"workload", cmd.target>>
      [] cmd.type = "app" -> App

\* findOpenBySubject.
OpenCase(subject) ==
    {c \in DOMAIN cases : c = desk.latest[subject] /\ cases[c].status # "resolved"}

\* validateDeployCommand and evaluateDeployConfidence answer a deploy that is incomplete, or
\* that the text may not mean, with a question.
MayBeQuestioned(cmd) == cmd.type = "deploy"

\* openOrResumeCase: the subject's open case, or a new one, becomes the active one.
OpenOrResumeCase(h) ==
    /\ HandlerStep(h, "open")
    /\ LET cmd == handler[h].cmd
           subject == Subject(cmd)
           id == IF OpenCase(subject) = {} THEN Len(cases) + 1 ELSE desk.latest[subject]
       IN \/ /\ cases' = IF OpenCase(subject) # {} THEN cases
                         ELSE Append(cases, [subject |-> subject, status |-> "open",
                                             incident |-> 0])
             /\ desk' = [latest |-> [desk.latest EXCEPT ![subject] = id], active |-> id]
             /\ handler' = [handler EXCEPT ![h].case = id,
                               ![h].at = IF cmd.type = "investigate" THEN "look" ELSE "post"]
          \/ MayBeQuestioned(cmd) /\ Done(h) /\ UNCHANGED <<cases, desk>>
    /\ UNCHANGED <<prompt, session, runs, notice, answers>>

\* The handler goes on with the incident of a run of its own, or joins a run there was.
Bound(h, at, incident) == handler' = [handler EXCEPT ![h].at = at, ![h].incident = incident]

\* findActiveRunForCase, whose lookup may fail.
FindActiveRun(h) ==
    /\ HandlerStep(h, "look")
    /\ LET c == cases[handler[h].case]
           active == /\ c.incident \in DOMAIN runs /\ c.status # "resolved"
                     /\ runs[c.incident].status \in Active
       IN (active /\ Bound(h, "join", c.incident)) \/ Goto(h, "post", handler[h].cmd)
    /\ UNCHANGED <<prompt, session, runs, answers>> /\ NoCases

\* Mutant: an investigation reads the answer as a deploy does.
NeverDeduplicated(cmd) == FALSE

\* dispatchRun's answer: only an investigation looks at "deduplicated".
Deduplicated(cmd) == cmd.type = "investigate"

\* POST /runs: an active run of the workload and the mode, or a new one, or an error.  The
\* orchestrator's check is no lock, so that a second run of a workload may start too.
DispatchRun(h) ==
    /\ HandlerStep(h, "post")
    /\ LET cmd == handler[h].cmd
       IN \/ Done(h) /\ UNCHANGED runs
          \/ /\ Len(runs) < setup.runs
             /\ runs' = Append(runs, [target |-> cmd.target, mode |-> Mode(cmd),
                                      status |-> "running"])
             /\ Bound(h, "bind", Len(runs) + 1)
          \/ \E i \in DOMAIN runs :
                /\ runs[i].target = cmd.target /\ runs[i].mode = Mode(cmd)
                /\ runs[i].status \in Active
                /\ IF Deduplicated(cmd) THEN Bound(h, "join", i) ELSE Bound(h, "bind", Ghost)
                /\ UNCHANGED runs
    /\ UNCHANGED <<prompt, session, answers>> /\ NoCases

\* syncActiveTopicFromCommand.
TopicAfter(cmd) ==
    CASE cmd.type = "investigate" -> cmd.target
      [] cmd.type \in {"deploy", "ci"} -> "none"
      [] OTHER -> session.topic

\* setSession; markWebRunWaiting, which a web chat calls without a mode, then forgets it.
Remember(cmd, run) ==
    session' = [session EXCEPT
        !.run = run,
        !.mode = IF setup.platform = "web" /\ cmd.type # "app" THEN "none" ELSE Mode(cmd),
        !.repo = @ \/ cmd.type = "ci",
        !.topic = TopicAfter(cmd),
        !.draft = IF cmd.type = "deploy" THEN cmd ELSE @]

\* linkRunToSession asks for the run of the incident and may fail.
Linked(incident) == {session.run} \cup (DOMAIN runs \cap {incident})

\* handleInvestigateDedupeReturn leaves the session alone; a web chat writes it all the same.
Joined(cmd, incident) ==
    IF setup.platform = "web"
    THEN session' = [session EXCEPT !.run = incident, !.mode = "none", !.topic = TopicAfter(cmd)]
    ELSE UNCHANGED session

\* bindRunToCase, the session, and the reply.
BindRunToCase(h) ==
    /\ handler[h].at \in {"bind", "join"} /\ UNCHANGED setup
    /\ LET incident == handler[h].incident
           cmd == handler[h].cmd
           id == handler[h].case
       IN /\ \/ id = 0 /\ UNCHANGED <<cases, desk>>
             \/ id # 0 /\ SaveCase(id, [cases[id] EXCEPT !.status = "investigating",
                                                        !.incident = incident])
          /\ \/ handler[h].at = "bind" /\ \E run \in Linked(incident) : Remember(cmd, run)
             \/ handler[h].at = "join" /\ Joined(cmd, incident)
          /\ told' = told \cup {[type |-> cmd.type, target |-> cmd.target, incident |-> incident]}
    /\ Done(h)
    /\ UNCHANGED <<prompt, runs, notice, answers>>

-----------------------------------------------------------------------------
(* "cancel" and "what is pending" *)

Awaiting == {i \in DOMAIN runs : runs[i].status = "awaiting"}

\* The runs are listed; a question with an ask open in HIL is only answered.
ListPending(h) ==
    /\ HandlerStep(h, "list")
    /\ LET last == IF session.run = 0 THEN {} ELSE {session.run}
       IN \/ handler' = [handler EXCEPT ![h].at = "clear", ![h].seen =
                            IF handler[h].text = "cancel" THEN Awaiting \cup last ELSE Awaiting]
          \/ handler[h].text = "status" /\ Awaiting # {} /\ Done(h)
    /\ UNCHANGED <<prompt, session, runs, answers>> /\ NoCases

\* POST /runs/:id/cancel, one after the other, which a run that has ended refuses.
CancelNext(h) ==
    /\ HandlerStep(h, "clear")
    /\ \E i \in handler[h].seen :
          /\ runs' = [runs EXCEPT ![i].status = IF @ \in Active THEN "cancelled" ELSE @]
          /\ handler' = [handler EXCEPT ![h].seen = @ \ {i}]
    /\ UNCHANGED <<prompt, session, answers>> /\ NoCases

\* The active case is open again.
Cleared(h) ==
    /\ HandlerStep(h, "clear") /\ handler[h].seen = {}
    /\ IF desk.active # 0 /\ handler[h].text = "cancel"
          /\ cases[desk.active].status = "investigating"
       THEN SaveCase(desk.active, [cases[desk.active] EXCEPT !.status = "open"])
       ELSE UNCHANGED <<cases, desk>>
    /\ Done(h)
    /\ UNCHANGED <<prompt, session, runs, notice, answers>>

-----------------------------------------------------------------------------
(* The runs and their updates *)

RunStep == UNCHANGED <<setup, handler, cases, desk, answers, told>>

\* forwardHilAction: a button of an approval is acknowledged at once and forwarded to HIL,
\* which may refuse it.
ForwardHilAction(i) ==
    /\ setup.platform = "telegram" /\ "button" \in setup.texts
    /\ i \in DOMAIN runs /\ runs[i].status = "awaiting"
    /\ \E status \in {"running", "failed"} : runs' = [runs EXCEPT ![i].status = status]
    /\ UNCHANGED <<prompt, session, notice>> /\ RunStep

\* The webhook of GitHub reports a failed workflow.
GithubWebhook ==
    /\ "ci" \in setup.commands /\ Len(runs) < setup.runs
    /\ \A i \in DOMAIN runs : runs[i].mode = "ci" => runs[i].status \notin Active
    /\ runs' = Append(runs, [target |-> Repo, mode |-> "ci", status |-> "running"])
    /\ UNCHANGED <<prompt, session, notice>> /\ RunStep

\* A run asks HIL and is approved.
RunSuspends(i) ==
    /\ i \in DOMAIN runs
    /\ \/ runs[i].status = "running" /\ runs' = [runs EXCEPT ![i].status = "awaiting"]
       \/ runs[i].status = "awaiting" /\ runs' = [runs EXCEPT ![i].status = "running"]
    /\ UNCHANGED <<prompt, session, notice>> /\ RunStep

\* A diagnosis needs to know where its workload comes from: deliverWebChatUpdate arms the
\* clarification.  Elsewhere it is armed for a user "default" who says nothing.
SourceRequired(i) ==
    /\ i \in DOMAIN runs /\ runs[i].status = "running" /\ runs[i].mode = "diagnose"
    /\ setup.platform = "web" /\ "source" \in setup.texts
    /\ runs' = [runs EXCEPT ![i].status = "awaiting"]
    /\ prompt' = [prompt EXCEPT !["source"] =
                     [id |-> SourcePrompt, run |-> i,
                      cmd |-> Command("investigate", runs[i].target)]]
    /\ session' = [session EXCEPT !.run = i, !.mode = runs[i].mode]
    /\ UNCHANGED notice /\ RunStep

\* An update of an agent's step, or the last one.  Only web chats have cases that
\* updates find.
Update(n, i, kind) ==
    /\ setup.platform = "web"
    /\ notice[n].at = "idle"
    /\ notice' = [notice EXCEPT ![n] =
                     [NoNotice EXCEPT !.at = "deliver", !.run = i, !.status = kind]]

RunEnds(i) ==
    /\ i \in DOMAIN runs /\ runs[i].status = "running"
    /\ \E status \in {"succeeded", "failed"} : runs' = [runs EXCEPT ![i].status = status]
    /\ (\E n \in Notices : Update(n, i, "ended")) \/ (setup.platform # "web" /\ UNCHANGED notice)
    /\ UNCHANGED <<prompt, session>> /\ RunStep

AgentStep(i) ==
    /\ i \in DOMAIN runs /\ runs[i].status = "running"
    /\ \E n \in Notices : Update(n, i, "step")
    /\ UNCHANGED <<prompt, session, runs>> /\ RunStep

NoticeStep(n, at) ==
    notice[n].at = at /\ UNCHANGED <<setup, prompt, handler, runs, answers, told>>

\* deliverWebChatUpdate: the update's run becomes the session's last one, which
\* the next "cancel" is about, and its mode the last mode.
DeliverWebChatUpdate(n) ==
    /\ NoticeStep(n, "deliver") /\ UNCHANGED <<cases, desk>>
    /\ session' = [session EXCEPT !.run = notice[n].run, !.mode = runs[notice[n].run].mode]
    /\ notice' = [notice EXCEPT ![n].at = "read"]

\* onRunUpdateForCase: an update of another incident than the active case's is dropped,
\* but a case without an incident takes any.
OnRunUpdate(n) ==
    /\ NoticeStep(n, "read") /\ UNCHANGED <<session, cases, desk>>
    /\ LET i == notice[n].run
           takes == {c \in DOMAIN cases : c = desk.active /\ cases[c].incident \in {0, i}}
       IN IF takes = {}
          THEN notice' = [notice EXCEPT ![n] = NoNotice]
          ELSE notice' = [notice EXCEPT ![n].case = desk.active,
                             ![n].at = IF notice[n].status = "ended" THEN "sync" ELSE "evidence"]

\* syncCaseFromRunOutcome.
SyncCase(n) ==
    /\ NoticeStep(n, "sync") /\ UNCHANGED session
    /\ SaveCase(notice[n].case, [cases[notice[n].case] EXCEPT
          !.status = IF runs[notice[n].run].status = "succeeded" THEN "resolved" ELSE "escalated",
          !.incident = notice[n].run])
    /\ notice' = [notice EXCEPT ![n].at = "evidence"]

\* persistCaseEvidenceFromRun reads the case and writes the status it read with the
\* evidence, or does neither.
ReadCase(n) ==
    /\ NoticeStep(n, "evidence") /\ UNCHANGED <<session, cases, desk>>
    /\ \/ notice' = [notice EXCEPT ![n].at = "write", ![n].status = cases[notice[n].case].status]
       \/ notice' = [notice EXCEPT ![n] = NoNotice]

WriteEvidence(n) ==
    /\ NoticeStep(n, "write") /\ UNCHANGED session
    /\ SaveCase(notice[n].case, [cases[notice[n].case] EXCEPT !.status = notice[n].status])
    /\ notice' = [notice EXCEPT ![n] = NoNotice]

-----------------------------------------------------------------------------
Handle(h) ==
    \/ AnswerSource(h) \/ AnswerClarification(h) \/ RouteMessage(h) \/ ResumeCaseWithHint(h)
    \/ DeployChoice(h) \/ CheckNamespace(h) \/ ResolveWorkload(h) \/ LoadAppReview(h)
    \/ Delete(h) \/ OpenOrResumeCase(h) \/ FindActiveRun(h)
    \/ DispatchRun(h) \/ BindRunToCase(h) \/ ListPending(h) \/ CancelNext(h) \/ Cleared(h)

Notify(n) ==
    DeliverWebChatUpdate(n) \/ OnRunUpdate(n) \/ SyncCase(n) \/ ReadCase(n) \/ WriteEvidence(n)

Next ==
    \/ \E h \in Handlers :
          \/ \E text \in Texts : AskPending(h, text) \/ Say(h, text)
          \/ \E kind \in Kinds : Press(h, kind)
          \/ PressSuggest(h) \/ Handle(h)
    \/ \E kind \in Kinds : Expire(kind)
    \/ ResetWebChat \/ GithubWebhook
    \/ \E i \in 1..MaxRuns :
          ForwardHilAction(i) \/ RunSuspends(i) \/ SourceRequired(i) \/ RunEnds(i) \/ AgentStep(i)
    \/ \E n \in Notices : Notify(n)

Spec == Init /\ [][Next]_vars

-----------------------------------------------------------------------------
(* Properties *)

Incidents == 0..Ghost
Modes == {"diagnose", "pre-deploy", "rollback", "ci"}

TypeOK ==
    /\ setup \in Setups
    /\ \A k \in Kinds :
          /\ prompt[k].id \in IF k = "source" THEN {0, SourcePrompt} ELSE {0} \cup Prompts
          /\ prompt[k].run \in 0..MaxRuns
          /\ prompt[k].cmd \in Commands \cup {NoCmd}
          /\ k = "namespace" => ~prompt[k].cmd.create
    /\ \A h \in Handlers :
          /\ handler[h].at \in {"idle", "source", "clarify", "route", "inspect", "check", "resolve",
                                "review", "delete", "open", "look", "post", "bind", "join", "list",
                                "clear"}
          /\ handler[h].cmd \in Commands \cup {NoCmd}
          /\ handler[h].case \in 0..Len(cases) /\ handler[h].incident \in Incidents
          /\ handler[h].seen \subseteq DOMAIN runs
    /\ session.draft \in Commands \cup {NoCmd} /\ session.run \in 0..Len(runs)
    /\ session.mode \in {"none"} \cup Modes /\ {session.repo, session.reviewed} \subseteq BOOLEAN
    /\ session.topic \in Names \cup {"none"}
    /\ runs \in Seq([target: Names \cup {Repo}, mode: Modes,
                     status: Active \cup {"succeeded", "failed", "cancelled"}])
    /\ cases \in Seq([subject: Subjects, incident: Incidents,
                      status: {"open", "investigating", "resolved", "escalated"}])
    /\ desk.latest \in [Subjects -> 0..Len(cases)] /\ desk.active \in 0..Len(cases)
    /\ \A n \in Notices : notice[n].at \in {"idle", "deliver", "read", "sync", "evidence", "write"}

\* However buttons, texts and newer prompts overlap, a prompt that is kept in a map is
\* answered at most once, which the one for a deploy's source is not:
\* it becomes one command or one cancellation (delete-choice.ts:146, namespace-prompt.ts:
\* 154, telegram.ts:324).
OneAnswerPerPrompt == \A p \in Prompts : answers[p] <= 1

\* Where an operator is told that a workload is being investigated, there is a run of
\* that workload under the incident of the reply; and a case that is under investigation
\* names a run, although updates of other runs are applied to fresh cases and evidence is
\* written back with an old status (router.ts:130, case-run-sync.ts:141).
InvestigationsAreReal ==
    /\ \A r \in told : r.type = "investigate" =>
          r.incident \in DOMAIN runs /\ runs[r.incident].target = r.target
    /\ \A c \in DOMAIN cases :
          cases[c].subject[1] = "workload" /\ cases[c].status = "investigating"
             => cases[c].incident \in DOMAIN runs

=============================================================================
