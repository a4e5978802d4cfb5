---------------------------- MODULE CommanderProofs ----------------------------
(***************************************************************************)
(* Theorems about Commander, for every set of workloads and setups, and    *)
(* however many messages, buttons and run updates are handled at a time.   *)
(***************************************************************************)
EXTENDS Commander, FiniteSetTheorems, TLAPS

Ended == {"succeeded", "failed", "cancelled"}
RunRecords == [target: Names \cup {Repo}, mode: Modes, status: Active \cup Ended]
CaseRecords == [subject: Subjects, incident: Incidents,
                status: {"open", "investigating", "resolved", "escalated"}]
Ats == {"idle", "source", "clarify", "route", "inspect", "check", "resolve", "review", "delete",
        "open", "look", "post", "bind", "join", "list", "clear"}
PromptRecords == [id: Nat, cmd: Commands \cup {NoCmd}, run: Nat]
HandlerRecords == [at: Ats, text: Texts \cup {"none"}, cmd: Commands \cup {NoCmd}, case: Nat,
                   incident: Incidents, seen: SUBSET Nat]
NoticeRecords == [at: {"idle", "deliver", "read", "sync", "evidence", "write"}, run: Nat,
                  case: Nat, status: {"none", "step", "ended", "open", "investigating",
                                      "resolved", "escalated"}]

\* Only the builds of a repository are not about a name.
Meant(cmd) == cmd \in Commands /\ (cmd.type # "ci" => cmd.target \in Names)

\* What the prompts of a kind ask about.
Asked(k, cmd) ==
    CASE k \in {"deploy", "namespace"} ->
            Meant(cmd) /\ cmd.type = "deploy" /\ (k = "namespace" => ~cmd.create)
      [] k \in {"delete", "investigate"} -> Meant(cmd) /\ cmd.type = k
      [] k = "suggest" -> cmd = NoCmd
      [] OTHER -> FALSE

\* The commands a handler may be at a step with.
CommandAt(at, cmd) ==
    /\ at \in {"idle", "clarify", "route", "list", "clear"} \/ Meant(cmd)
    /\ at = "source" => cmd.type = "investigate"
    /\ at = "inspect" => cmd.type = "deploy"
    /\ at = "check" => cmd.type = "deploy" /\ ~cmd.create
    /\ at = "resolve" => cmd.type \in {"investigate", "app"}
    /\ at = "review" => cmd.type = "app"
    /\ at = "delete" => cmd.type = "delete"
    /\ at = "open" => cmd.type \in {"deploy", "investigate", "app"}
    /\ at = "look" => cmd.type = "investigate"
    /\ at \in {"post", "bind", "join"} => cmd.type # "delete"
    /\ at = "join" => cmd.type = "investigate"

HasCase == {"look", "post", "bind", "join"}
\* With an incident to go on with.
Bounds == {"bind", "join"}

-----------------------------------------------------------------------------
(* The parts of the invariant, of one record each *)

RunOK(r) == r \in RunRecords /\ (r.mode = "diagnose" => r.target \in Names)

\* A case that was ever investigated names an incident; of a workload's case that is a run,
\* of that workload or one that is over.
CaseOK(c, rs) ==
    /\ c \in CaseRecords
    /\ c.status # "open" => c.incident # 0
    /\ c.subject[1] = "workload" /\ c.incident # 0 =>
          /\ c.incident \in DOMAIN rs
          /\ rs[c.incident].target = c.subject[2] \/ rs[c.incident].status \in Ended

\* A handler has opened the case of its command's subject before it starts a run, and an
\* investigation is bound to a run of its workload.
HandlerOK(x, rs, cs) ==
    /\ x \in HandlerRecords /\ x.case \in 0..Len(cs) /\ x.seen \subseteq DOMAIN rs
    /\ CommandAt(x.at, x.cmd)
    /\ x.at \notin HasCase => x.case = 0
    /\ x.at \in HasCase =>
          IF x.cmd.type \in {"rollback", "ci"} THEN x.case = 0
          ELSE x.case \in DOMAIN cs /\ cs[x.case].subject = Subject(x.cmd)
    /\ x.at \in Bounds => x.incident # 0
    /\ x.at \in Bounds /\ x.cmd.type = "investigate" =>
          x.incident \in DOMAIN rs /\ rs[x.incident].target = x.cmd.target

\* An update is of a run; the last one comes when the run is over, and the status that
\* is written back was read when the case named an incident, unless it was new.
NoticeOK(x, rs, cs) ==
    /\ x \in NoticeRecords
    /\ x.at # "idle" => x.run \in DOMAIN rs
    /\ x.at \in {"deliver", "read"} => x.status \in {"step", "ended"}
    /\ x.at = "sync" => x.status = "ended"
    /\ x.at \in {"deliver", "read", "sync"} /\ x.status = "ended" => rs[x.run].status \in Ended
    /\ x.at \in {"sync", "evidence", "write"} => x.case \in DOMAIN cs
    /\ x.at = "write" =>
          /\ x.status \in {"open", "investigating", "resolved", "escalated"}
          /\ x.status # "open" => cs[x.case].incident # 0

\* A reply that names an investigation names a run of its workload.
ReplyOK(r, rs) ==
    r.type = "investigate" => r.incident \in DOMAIN rs /\ rs[r.incident].target = r.target

SessionRecords == [draft: Commands \cup {NoCmd}, run: Nat, mode: {"none"} \cup Modes,
                   repo: BOOLEAN, reviewed: BOOLEAN, topic: Names \cup {"none"}, messages: Nat, prompts: Nat]

SessionOK(s, rs) ==
    /\ s \in SessionRecords /\ s.run \in 0..Len(rs)
    /\ s.draft # NoCmd => Meant(s.draft) /\ s.draft.type = "deploy"

\* The prompt for a deploy's source is of a run; the question which workload is meant is of
\* none.
SourceOK(p, rs) ==
    /\ p.id \in {0, SourcePrompt} /\ p.run \in 0..Len(rs)
    /\ p.run # 0 => Meant(p.cmd) /\ p.cmd.type = "investigate"

\* A prompt that is kept in a map has a number of its own, none above the last that was
\* given, and was not answered.
PromptOK(k, p, last, answered) ==
    /\ p.run = 0
    /\ IF p.id = 0 THEN p = NoPrompt
                   ELSE p.id \in 1..last /\ Asked(k, p.cmd) /\ answered[p.id] = 0

-----------------------------------------------------------------------------
(* The invariant *)

RunsInv == /\ runs \in Seq(RunRecords) /\ Len(runs) <= setup.runs
           /\ \A i \in DOMAIN runs : RunOK(runs[i])

\* A subject leads to a case of its own.
CasesInv ==
    /\ cases \in Seq(CaseRecords)
    /\ desk \in [latest: [Subjects -> Nat], active: Nat] /\ desk.active \in 0..Len(cases)
    /\ \A s \in Subjects : /\ desk.latest[s] \in 0..Len(cases)
                           /\ desk.latest[s] # 0 => cases[desk.latest[s]].subject = s
    /\ \A c \in DOMAIN cases : CaseOK(cases[c], runs)

HandlersInv == /\ handler \in [Handlers -> HandlerRecords]
               /\ \A h \in Handlers : HandlerOK(handler[h], runs, cases)
NoticesInv == /\ notice \in [Notices -> NoticeRecords]
              /\ \A n \in Notices : NoticeOK(notice[n], runs, cases)
TalkInv == SessionOK(session, runs) /\ \A r \in told : ReplyOK(r, runs)

Mapped == Kinds \ {"source"}
PromptsInv ==
    /\ prompt \in [Kinds -> PromptRecords] /\ answers \in [Prompts -> Nat]
    /\ SourceOK(prompt["source"], runs)
    /\ \A k \in Mapped : PromptOK(k, prompt[k], session.prompts, answers)
    /\ \A k, l \in Mapped : k # l /\ prompt[k].id = prompt[l].id => prompt[k].id = 0
    /\ \A p \in Prompts : p > session.prompts => answers[p] = 0
    /\ OneAnswerPerPrompt

\* Every prompt is owed to a message, and every handler may open one more.
Busy == {h \in Handlers : handler[h].at # "idle"}
MessagesPay ==
    /\ IsFiniteSet(Busy)
    /\ session.prompts + Cardinality(Busy) <= session.messages
    /\ session.messages <= setup.messages

CommanderInv ==
    /\ setup \in Setups
    /\ RunsInv /\ CasesInv /\ HandlersInv /\ NoticesInv /\ TalkInv /\ PromptsInv /\ MessagesPay

-----------------------------------------------------------------------------
(* What only grows *)

RunsGrow(rs, new) ==
    /\ DOMAIN rs \subseteq DOMAIN new /\ Len(rs) \in 0..Len(new)
    /\ \A i \in DOMAIN rs : /\ new[i].target = rs[i].target
                            /\ rs[i].status \in Ended => new[i].status \in Ended

CasesGrow(cs, new) ==
    /\ DOMAIN cs \subseteq DOMAIN new /\ Len(cs) \in 0..Len(new)
    /\ \A c \in DOMAIN cs : /\ new[c].subject = cs[c].subject
                            /\ cs[c].incident # 0 => new[c].incident # 0

\* What is known of a record stays known while the runs and the cases grow.
LEMMA CaseStays ==
    ASSUME NEW c, NEW rs, NEW new, CaseOK(c, rs), RunsGrow(rs, new)
    PROVE  CaseOK(c, new)
  BY DEF CaseOK, RunsGrow

LEMMA HandlerStays ==
    ASSUME NEW x, NEW rs, NEW rs2, NEW cs, NEW cs2, HandlerOK(x, rs, cs),
           RunsGrow(rs, rs2), CasesGrow(cs, cs2), Len(cs2) \in Nat
    PROVE  HandlerOK(x, rs2, cs2)
<1>1. x.case \in 0..Len(cs2)
  BY DEF HandlerOK, CasesGrow
<1>2. x.seen \subseteq DOMAIN rs2
  BY DEF HandlerOK, RunsGrow
<1>3. x.at \in HasCase =>
          IF x.cmd.type \in {"rollback", "ci"} THEN x.case = 0
          ELSE x.case \in DOMAIN cs2 /\ cs2[x.case].subject = Subject(x.cmd)
  BY DEF HandlerOK, CasesGrow
<1>4. x.at \in Bounds /\ x.cmd.type = "investigate" =>
          x.incident \in DOMAIN rs2 /\ rs2[x.incident].target = x.cmd.target
  BY DEF HandlerOK, RunsGrow
<1>5. QED BY <1>1, <1>2, <1>3, <1>4 DEF HandlerOK

LEMMA NoticeStays ==
    ASSUME NEW x, NEW rs, NEW rs2, NEW cs, NEW cs2, NoticeOK(x, rs, cs),
           RunsGrow(rs, rs2), CasesGrow(cs, cs2)
    PROVE  NoticeOK(x, rs2, cs2)
  BY DEF NoticeOK, RunsGrow, CasesGrow, NoticeRecords

LEMMA TalkStays ==
    ASSUME NEW rs, NEW new, RunsGrow(rs, new), Len(new) \in Nat
    PROVE  /\ \A r : ReplyOK(r, rs) => ReplyOK(r, new)
           /\ \A s : SessionOK(s, rs) => SessionOK(s, new)
           /\ \A p : SourceOK(p, rs) => SourceOK(p, new)
<1>1. \A r : ReplyOK(r, rs) => ReplyOK(r, new)
  BY DEF ReplyOK, RunsGrow
<1>2. \A s : SessionOK(s, rs) => SessionOK(s, new)
  BY DEF SessionOK, RunsGrow
<1>3. \A p : SourceOK(p, rs) => SourceOK(p, new)
  BY DEF SourceOK, RunsGrow
<1>4. QED BY <1>1, <1>2, <1>3

LEMMA NothingShrinks ==
    /\ \A rs : Len(rs) \in Nat => RunsGrow(rs, rs)
    /\ \A cs : Len(cs) \in Nat => CasesGrow(cs, cs)
  BY DEF RunsGrow, CasesGrow

-----------------------------------------------------------------------------
(* A step keeps the parts it does not touch, and those it changes in one place *)

LEMMA RunsStill ==
    ASSUME CommanderInv, UNCHANGED <<setup, runs>>
    PROVE  RunsInv' /\ RunsGrow(runs, runs')
<1>1. RunsInv' BY DEF CommanderInv, RunsInv
<1>2. Len(runs) \in Nat BY DEF CommanderInv, RunsInv
<1>3. QED BY <1>1, <1>2, NothingShrinks

LEMMA RunTurns ==
    ASSUME CommanderInv, UNCHANGED setup, NEW i \in DOMAIN runs, NEW s \in Active \cup Ended,
           runs' = [runs EXCEPT ![i].status = s], runs[i].status \in Ended => s \in Ended
    PROVE  RunsInv' /\ RunsGrow(runs, runs')
<1> DEFINE r == [runs[i] EXCEPT !.status = s]
<1>1. runs \in Seq(RunRecords) /\ runs[i] \in RunRecords /\ RunOK(runs[i])
  BY DEF CommanderInv, RunsInv
<1>2. r \in RunRecords /\ r.target = runs[i].target /\ r.mode = runs[i].mode /\ r.status = s
  BY <1>1 DEF RunRecords
<1>3. runs' = [runs EXCEPT ![i] = r]
  BY <1>1
<1> HIDE DEF r
<1>4. runs' \in Seq(RunRecords) /\ DOMAIN runs' = DOMAIN runs /\ Len(runs') = Len(runs)
  BY <1>1, <1>2, <1>3
<1>5. RunOK(r)
  BY <1>1, <1>2 DEF RunOK
<1>6. \A j \in DOMAIN runs : runs'[j] = IF j = i THEN r ELSE runs[j]
  BY <1>1, <1>3
<1>7. RunsInv'
  BY <1>4, <1>5, <1>6 DEF CommanderInv, RunsInv
<1>8. RunsGrow(runs, runs')
  BY <1>1, <1>2, <1>4, <1>6 DEF RunsGrow
<1>9. QED BY <1>7, <1>8

LEMMA RunStarts ==
    ASSUME CommanderInv, UNCHANGED setup, NEW r, RunOK(r), runs' = Append(runs, r),
           Len(runs) < setup.runs
    PROVE  /\ RunsInv' /\ RunsGrow(runs, runs')
           /\ Len(runs) + 1 \in DOMAIN runs' /\ runs'[Len(runs) + 1] = r
<1>1. runs \in Seq(RunRecords) /\ r \in RunRecords /\ setup.runs \in Nat
  BY CommanderAssumption DEF CommanderInv, RunsInv, RunOK
<1>2. /\ runs' \in Seq(RunRecords) /\ Len(runs') = Len(runs) + 1 /\ Len(runs) \in Nat
      /\ DOMAIN runs' = 1..(Len(runs) + 1) /\ DOMAIN runs = 1..Len(runs)
      /\ runs'[Len(runs) + 1] = r /\ \A j \in DOMAIN runs : runs'[j] = runs[j]
  BY <1>1
<1>3. \A j \in DOMAIN runs' : j \in DOMAIN runs \/ j = Len(runs) + 1
  BY <1>2
<1>4. RunsInv'
  BY <1>1, <1>2, <1>3 DEF CommanderInv, RunsInv
<1>5. RunsGrow(runs, runs')
  BY <1>2 DEF RunsGrow
<1>6. QED BY <1>2, <1>4, <1>5

LEMMA CasesStill ==
    ASSUME CommanderInv, RunsGrow(runs, runs'), UNCHANGED <<cases, desk>>
    PROVE  CasesInv' /\ CasesGrow(cases, cases')
<1>1. \A c \in DOMAIN cases : CaseOK(cases[c], runs')
  BY CaseStays DEF CommanderInv, CasesInv
<1>2. CasesInv'
  BY <1>1 DEF CommanderInv, CasesInv
<1>3. Len(cases) \in Nat
  BY DEF CommanderInv, CasesInv
<1>4. QED BY <1>2, <1>3, NothingShrinks

LEMMA CaseSaved ==
    ASSUME CommanderInv, UNCHANGED runs, NEW id \in DOMAIN cases, NEW c, CaseOK(c, runs),
           c.subject = cases[id].subject, cases[id].incident # 0 => c.incident # 0,
           SaveCase(id, c)
    PROVE  CasesInv' /\ CasesGrow(cases, cases')
<1>1. /\ cases \in Seq(CaseRecords) /\ c \in CaseRecords /\ c.subject \in Subjects
      /\ desk \in [latest: [Subjects -> Nat], active: Nat] /\ id \in 1..Len(cases)
  BY DEF CommanderInv, CasesInv, CaseOK, CaseRecords
<1>2. /\ cases' = [cases EXCEPT ![id] = c]
      /\ desk' = [desk EXCEPT !.latest = [desk.latest EXCEPT ![c.subject] = id]]
  BY <1>1 DEF SaveCase
<1>3. /\ cases' \in Seq(CaseRecords) /\ DOMAIN cases' = DOMAIN cases /\ Len(cases') = Len(cases)
      /\ \A j \in DOMAIN cases : cases'[j] = IF j = id THEN c ELSE cases[j]
  BY <1>1, <1>2
<1> DEFINE latest == [desk.latest EXCEPT ![c.subject] = id]
<1>a. /\ latest \in [Subjects -> Nat]
      /\ \A s \in Subjects : latest[s] = IF s = c.subject THEN id ELSE desk.latest[s]
  BY <1>1
<1>b. desk' = [desk EXCEPT !.latest = latest]
  BY <1>2
<1> HIDE DEF latest
<1>4. /\ desk' \in [latest: [Subjects -> Nat], active: Nat] /\ desk'.active = desk.active
      /\ \A s \in Subjects :
            desk'.latest[s] = IF s = c.subject THEN id ELSE desk.latest[s]
  BY <1>1, <1>a, <1>b
<1>5. \A s \in Subjects : /\ desk'.latest[s] \in 0..Len(cases)
                          /\ desk'.latest[s] # 0 => cases'[desk'.latest[s]].subject = s
  BY <1>1, <1>3, <1>4 DEF CommanderInv, CasesInv
<1>6. CasesInv'
  BY <1>3, <1>4, <1>5 DEF CommanderInv, CasesInv
<1>7. CasesGrow(cases, cases')
  BY <1>1, <1>3 DEF CasesGrow
<1>8. QED BY <1>6, <1>7

LEMMA HandlersStill ==
    ASSUME CommanderInv, RunsGrow(runs, runs'), CasesGrow(cases, cases'), CasesInv',
           UNCHANGED handler
    PROVE  HandlersInv' /\ Busy' = Busy
<1>1. Len(cases') \in Nat
  BY DEF CasesInv
<1>2. \A h \in Handlers : HandlerOK(handler[h], runs', cases')
  BY <1>1, HandlerStays DEF CommanderInv, HandlersInv
<1>3. QED BY <1>2 DEF CommanderInv, HandlersInv, Busy

LEMMA HandlerMoves ==
    ASSUME CommanderInv, RunsGrow(runs, runs'), CasesGrow(cases, cases'), CasesInv',
           NEW h \in Handlers, NEW x, handler' = [handler EXCEPT ![h] = x],
           HandlerOK(x, runs', cases')
    PROVE  /\ HandlersInv'
           /\ Busy' = IF x.at = "idle" THEN Busy \ {h} ELSE Busy \cup {h}
<1>1. Len(cases') \in Nat /\ x \in HandlerRecords /\ handler \in [Handlers -> HandlerRecords]
  BY DEF CommanderInv, CasesInv, HandlersInv, HandlerOK
<1>2. \A k \in Handlers : HandlerOK(handler[k], runs', cases')
  BY <1>1, HandlerStays DEF CommanderInv, HandlersInv
<1>3. \A k \in Handlers : handler'[k] = IF k = h THEN x ELSE handler[k]
  BY <1>1
<1>4. HandlersInv'
  BY <1>1, <1>2, <1>3 DEF HandlersInv
<1>5. QED BY <1>3, <1>4 DEF Busy

LEMMA NoticesStill ==
    ASSUME CommanderInv, RunsGrow(runs, runs'), CasesGrow(cases, cases'), UNCHANGED notice
    PROVE  NoticesInv'
<1>1. \A n \in Notices : NoticeOK(notice[n], runs', cases')
  BY NoticeStays DEF CommanderInv, NoticesInv
<1>2. QED BY <1>1 DEF CommanderInv, NoticesInv

LEMMA NoticeMoves ==
    ASSUME CommanderInv, RunsGrow(runs, runs'), CasesGrow(cases, cases'),
           NEW n \in Notices, NEW x, notice' = [notice EXCEPT ![n] = x],
           NoticeOK(x, runs', cases')
    PROVE  NoticesInv'
<1>1. x \in NoticeRecords /\ notice \in [Notices -> NoticeRecords]
  BY DEF CommanderInv, NoticesInv, NoticeOK
<1>2. \A k \in Notices : NoticeOK(notice[k], runs', cases')
  BY NoticeStays DEF CommanderInv, NoticesInv
<1>3. QED BY <1>1, <1>2 DEF NoticesInv

LEMMA TalkStill ==
    ASSUME CommanderInv, RunsGrow(runs, runs'), RunsInv', UNCHANGED told,
           session' = session \/ SessionOK(session', runs)
    PROVE  TalkInv'
<1>1. Len(runs') \in Nat
  BY DEF RunsInv
<1>2. (\A r \in told : ReplyOK(r, runs')) /\ SessionOK(session', runs')
  BY <1>1, TalkStays DEF CommanderInv, TalkInv
<1>3. QED BY <1>2 DEF TalkInv

-----------------------------------------------------------------------------
(* Prompts are opened, answered and dropped *)

SamePrompts == session'.prompts = session.prompts /\ UNCHANGED answers

LEMMA PromptsStill ==
    ASSUME CommanderInv, RunsGrow(runs, runs'), RunsInv', SamePrompts, UNCHANGED prompt
    PROVE  PromptsInv'
<1>1. SourceOK(prompt["source"], runs')
  BY TalkStays DEF CommanderInv, PromptsInv, RunsInv
<1>2. \A p \in Prompts : answers[p] <= 1
  BY DEF CommanderInv, PromptsInv, OneAnswerPerPrompt
<1>3. QED BY <1>1, <1>2 DEF CommanderInv, PromptsInv, SamePrompts, OneAnswerPerPrompt

LEMMA SourceSet ==
    ASSUME CommanderInv, SamePrompts, NEW p \in PromptRecords, SourceOK(p, runs'),
           prompt' = [prompt EXCEPT !["source"] = p]
    PROVE  PromptsInv'
<1>1. prompt' \in [Kinds -> PromptRecords] /\ prompt'["source"] = p
      /\ \A k \in Mapped : prompt'[k] = prompt[k]
  BY DEF CommanderInv, PromptsInv, Mapped, Kinds
<1>2. \A q \in Prompts : answers[q] <= 1
  BY DEF CommanderInv, PromptsInv, OneAnswerPerPrompt
<1>3. QED BY <1>1, <1>2 DEF CommanderInv, PromptsInv, SamePrompts, OneAnswerPerPrompt

LEMMA PromptStored ==
    ASSUME CommanderInv, RunsGrow(runs, runs'), RunsInv', NEW k \in Mapped,
           NEW cmd \in Commands \cup {NoCmd}, Asked(k, cmd), Store(k, cmd),
           session'.prompts = session.prompts + 1, session.prompts < MaxMessages,
           UNCHANGED answers
    PROVE  PromptsInv'
<1> DEFINE n == session.prompts + 1
           p == [id |-> n, cmd |-> cmd, run |-> 0]
<1>0. session.prompts \in Nat /\ n \in Nat /\ n > session.prompts /\ n \in Prompts
  BY CommanderAssumption DEF CommanderInv, TalkInv, SessionOK, SessionRecords, Prompts
<1>1. p \in PromptRecords /\ p.id = n /\ p.run = 0 /\ p.cmd = cmd
  BY <1>0 DEF PromptRecords
<1>2. prompt' = [prompt EXCEPT ![k] = p]
  BY DEF Store
<1> HIDE DEF p
<1>3. /\ prompt' \in [Kinds -> PromptRecords] /\ prompt'[k] = p
      /\ \A l \in Kinds : l # k => prompt'[l] = prompt[l]
  BY <1>1, <1>2 DEF CommanderInv, PromptsInv, Mapped
<1>4. SourceOK(prompt'["source"], runs')
  BY <1>3, TalkStays DEF CommanderInv, PromptsInv, RunsInv, Mapped, Kinds
<1>5. \A q \in Prompts : q > session.prompts => answers[q] = 0
  BY DEF CommanderInv, PromptsInv
<1>6. PromptOK(k, p, n, answers)
  BY <1>0, <1>1, <1>5 DEF PromptOK
<1>7. \A l \in Mapped : /\ prompt[l].id = 0 \/ prompt[l].id \in 1..session.prompts
                        /\ PromptOK(l, prompt[l], n, answers)
  BY <1>0 DEF CommanderInv, PromptsInv, PromptOK
<1>8. \A l \in Mapped : PromptOK(l, prompt'[l], n, answers)
  BY <1>3, <1>6, <1>7 DEF Mapped
<1>9. \A l \in Mapped : l # k => prompt'[l].id # n
  BY <1>0, <1>3, <1>7 DEF Mapped
<1>10. \A l, m \in Mapped : l # m /\ prompt'[l].id = prompt'[m].id => prompt'[l].id = 0
  BY <1>1, <1>3, <1>9 DEF CommanderInv, PromptsInv, Mapped
<1>11. \A q \in Prompts : q > n => answers[q] = 0
  BY <1>0, <1>5 DEF Prompts
<1>12. OneAnswerPerPrompt'
  BY DEF CommanderInv, PromptsInv, OneAnswerPerPrompt
<1>13. QED
  BY <1>3, <1>4, <1>8, <1>10, <1>11, <1>12 DEF CommanderInv, PromptsInv

LEMMA PaidNumbers ==
    ASSUME CommanderInv
    PROVE  /\ session.prompts \in Nat /\ session.messages \in Nat /\ setup.messages \in Nat
           /\ setup.messages <= MaxMessages /\ MaxMessages \in Nat
           /\ IsFiniteSet(Busy) /\ Cardinality(Busy) \in Nat
           /\ session.prompts + Cardinality(Busy) <= session.messages
           /\ session.messages <= setup.messages
<1>1. session.prompts \in Nat /\ session.messages \in Nat
  BY DEF CommanderInv, TalkInv, SessionOK, SessionRecords
<1>2. setup.messages \in 1..MaxMessages /\ MaxMessages \in Nat
  BY CommanderAssumption DEF CommanderInv
<1>3. QED BY <1>1, <1>2, FS_CardinalityType DEF CommanderInv, MessagesPay

\* An answered prompt is gone, and so is one that is past its time.
LEMMA PromptGone ==
    ASSUME CommanderInv, RunsGrow(runs, runs'), RunsInv', NEW k \in Mapped,
           prompt' = [prompt EXCEPT ![k] = NoPrompt], session'.prompts = session.prompts,
           \/ UNCHANGED answers
           \/ /\ prompt[k] # NoPrompt
              /\ answers' = [answers EXCEPT ![prompt[k].id] = @ + 1]
    PROVE  PromptsInv'
<1>0. session.prompts \in Nat /\ answers \in [Prompts -> Nat]
  BY DEF CommanderInv, TalkInv, SessionOK, SessionRecords, PromptsInv
<1>1. NoPrompt \in PromptRecords /\ NoPrompt.id = 0 /\ NoPrompt.run = 0
  BY DEF PromptRecords, NoPrompt
<1>2. /\ prompt' \in [Kinds -> PromptRecords] /\ prompt'[k] = NoPrompt
      /\ \A l \in Kinds : l # k => prompt'[l] = prompt[l]
  BY <1>1 DEF CommanderInv, PromptsInv, Mapped
<1>3. SourceOK(prompt'["source"], runs')
  BY <1>2, TalkStays DEF CommanderInv, PromptsInv, RunsInv, Mapped, Kinds
<1>4. \A l, m \in Mapped : l # m /\ prompt'[l].id = prompt'[m].id => prompt'[l].id = 0
  BY <1>1, <1>2 DEF CommanderInv, PromptsInv, Mapped
<1>5. CASE UNCHANGED answers
  <2>1. \A l \in Mapped : PromptOK(l, prompt'[l], session.prompts, answers)
    BY <1>1, <1>2 DEF CommanderInv, PromptsInv, PromptOK, Mapped
  <2>2. OneAnswerPerPrompt'
    BY <1>5 DEF CommanderInv, PromptsInv, OneAnswerPerPrompt
  <2>3. QED BY <1>2, <1>3, <1>4, <1>5, <2>1, <2>2 DEF CommanderInv, PromptsInv
<1>6. CASE prompt[k] # NoPrompt /\ answers' = [answers EXCEPT ![prompt[k].id] = @ + 1]
  <2> DEFINE n == prompt[k].id
  <2>1. n \in 1..session.prompts /\ answers[n] = 0
    BY <1>6 DEF CommanderInv, PromptsInv, PromptOK
  <2>0. n \in Prompts
    BY <2>1, PaidNumbers DEF Prompts
  <2>a. answers' = [answers EXCEPT ![n] = answers[n] + 1]
    BY <1>6
  <2> HIDE DEF n
  <2>2. /\ answers' \in [Prompts -> Nat]
        /\ \A q \in Prompts : answers'[q] = IF q = n THEN 1 ELSE answers[q]
    BY <1>0, <2>0, <2>1, <2>a
  <2>3. \A l \in Mapped : l # k => prompt[l].id # n
    BY <2>1 DEF n, CommanderInv, PromptsInv
  <2>4. /\ \A q \in Prompts : q # n => answers'[q] = answers[q]
        /\ 1..session.prompts \subseteq Prompts
    BY <1>0, <2>a, PaidNumbers DEF Prompts
  <2>5. \A l \in Mapped : l # k => PromptOK(l, prompt[l], session.prompts, answers')
    BY <2>3, <2>4 DEF CommanderInv, PromptsInv, PromptOK
  <2>6. \A l \in Mapped : PromptOK(l, prompt'[l], session.prompts, answers')
    BY <1>1, <1>2, <2>5 DEF PromptOK, Mapped
  <2>7. \A q \in Prompts : q > session.prompts => answers'[q] = 0
    BY <1>0, <2>1, <2>2, PaidNumbers DEF CommanderInv, PromptsInv, Prompts
  <2>8. OneAnswerPerPrompt'
    BY <2>2 DEF CommanderInv, PromptsInv, OneAnswerPerPrompt
  <2>9. QED BY <1>2, <1>3, <1>4, <2>2, <2>6, <2>7, <2>8 DEF CommanderInv, PromptsInv
<1>7. QED BY <1>5, <1>6

-----------------------------------------------------------------------------
(* Messages pay for prompts *)

\* A handler that goes on or is done costs nothing; a busy one may trade itself for a prompt.
LEMMA BusyPays ==
    ASSUME CommanderInv, UNCHANGED setup, NEW h, h \in Busy,
           session'.messages = session.messages,
           \/ Busy' = Busy \cup {h} /\ session'.prompts = session.prompts
           \/ Busy' = Busy \ {h} /\ session'.prompts = session.prompts
           \/ Busy' = Busy \ {h} /\ session'.prompts = session.prompts + 1
    PROVE  MessagesPay'
<1>1. Busy \cup {h} = Busy
  OBVIOUS
<1>2. IsFiniteSet(Busy \ {h}) /\ Cardinality(Busy \ {h}) = Cardinality(Busy) - 1
  BY PaidNumbers, FS_RemoveElement
<1>3. QED BY <1>1, <1>2, PaidNumbers DEF MessagesPay

\* A message pays for the handler it makes busy, or for the prompt it opens.
LEMMA MessagePays ==
    ASSUME CommanderInv, UNCHANGED setup, NEW h, session.messages < setup.messages,
           session'.messages = session.messages + 1,
           \/ Busy' = Busy /\ session'.prompts = session.prompts + 1
           \/ Busy' = Busy /\ session'.prompts = session.prompts
           \/ h \notin Busy /\ Busy' \in {Busy \cup {h}, Busy \ {h}}
              /\ session'.prompts = session.prompts
    PROVE  MessagesPay'
<1>1. h \notin Busy => IsFiniteSet(Busy \cup {h})
                       /\ Cardinality(Busy \cup {h}) = Cardinality(Busy) + 1
  BY PaidNumbers, FS_AddElement
<1>2. h \notin Busy => Busy \ {h} = Busy
  OBVIOUS
<1>3. CASE Busy' = Busy
  BY <1>3, PaidNumbers DEF MessagesPay
<1>4. CASE h \notin Busy /\ Busy' = Busy \cup {h} /\ session'.prompts = session.prompts
  BY <1>1, <1>4, PaidNumbers DEF MessagesPay
<1>5. QED BY <1>2, <1>3, <1>4

LEMMA NobodyPays ==
    ASSUME CommanderInv, UNCHANGED setup, Busy' = Busy,
           session'.messages = session.messages, session'.prompts = session.prompts
    PROVE  MessagesPay'
  BY PaidNumbers DEF MessagesPay

-----------------------------------------------------------------------------
(* What a handler's step is made of *)

QuietData == UNCHANGED <<setup, runs, cases, desk, notice, told>>

LEMMA QuietDataKept ==
    ASSUME CommanderInv, QuietData
    PROVE  /\ setup' \in Setups /\ RunsInv' /\ CasesInv' /\ NoticesInv'
           /\ RunsGrow(runs, runs') /\ CasesGrow(cases, cases')
<1>1. setup' \in Setups /\ RunsInv' /\ RunsGrow(runs, runs')
  BY RunsStill DEF QuietData, CommanderInv
<1>2. CasesInv' /\ CasesGrow(cases, cases')
  BY <1>1, CasesStill DEF QuietData
<1>3. NoticesInv'
  BY <1>1, <1>2, NoticesStill DEF QuietData
<1>4. QED BY <1>1, <1>2, <1>3

LEMMA KnownHandler ==
    ASSUME CommanderInv, NEW h \in Handlers
    PROVE  /\ HandlerOK(handler[h], runs, cases)
           /\ handler[h].at # "idle" <=> h \in Busy
           /\ handler[h].at \notin HasCase => handler[h].case = 0
           /\ CommandAt(handler[h].at, handler[h].cmd)
           /\ handler[h] \in HandlerRecords /\ handler \in [Handlers -> HandlerRecords]
           /\ handler[h].cmd \in Commands \cup {NoCmd}
  BY DEF CommanderInv, HandlersInv, HandlerOK, Busy, HandlerRecords

\* Done(h): the handler is free again.
LEMMA IsDone ==
    ASSUME CommanderInv, RunsGrow(runs, runs'), CasesGrow(cases, cases'), CasesInv',
           NEW h \in Handlers, Done(h)
    PROVE  HandlersInv' /\ Busy' = Busy \ {h}
<1>1. Idle \in HandlerRecords /\ Idle.at = "idle" /\ Idle.case = 0 /\ Idle.seen = {}
      /\ Idle.cmd = NoCmd
  BY CommanderAssumption DEF Idle, HandlerRecords, Ats, Incidents, Ghost
<1>2. Len(cases') \in Nat
  BY DEF CasesInv
<1>3. CommandAt("idle", NoCmd)
  BY DEF CommandAt
<1>4. HandlerOK(Idle, runs', cases')
  BY <1>1, <1>2, <1>3 DEF HandlerOK, HasCase, Bounds
<1>5. QED BY <1>1, <1>4, HandlerMoves DEF Done

\* Goto(h, at, cmd): a handler that has no case goes on without one.
LEMMA GoesOn ==
    ASSUME CommanderInv, RunsGrow(runs, runs'), CasesGrow(cases, cases'), CasesInv',
           NEW h \in Handlers, NEW at \in Ats \ {"idle", "bind", "join"},
           NEW cmd \in Commands \cup {NoCmd},
           Goto(h, at, cmd), CommandAt(at, cmd), handler[h].at \notin HasCase,
           at \in HasCase => cmd.type \in {"rollback", "ci"}
    PROVE  HandlersInv' /\ Busy' = Busy \cup {h}
<1> DEFINE x == [handler[h] EXCEPT !.at = at, !.cmd = cmd]
<1>1. x \in HandlerRecords /\ x.at = at /\ x.cmd = cmd /\ x.case = 0 /\ x.seen = handler[h].seen
  BY KnownHandler DEF HandlerRecords
<1>2. handler' = [handler EXCEPT ![h] = x]
  BY KnownHandler DEF Goto
<1> HIDE DEF x
<1>3. x.seen \subseteq DOMAIN runs' /\ Len(cases') \in Nat
  BY <1>1, KnownHandler DEF HandlerOK, RunsGrow, CasesInv
<1>4. HandlerOK(x, runs', cases')
  BY <1>1, <1>3 DEF HandlerOK, Bounds
<1>5. QED BY <1>1, <1>2, <1>4, HandlerMoves

\* A step that only changes its handler.
LEMMA OnlyHandler ==
    ASSUME CommanderInv, QuietData, UNCHANGED <<prompt, session, answers>>, NEW h, h \in Busy,
           HandlersInv', Busy' \in {Busy \cup {h}, Busy \ {h}}
    PROVE  CommanderInv'
<1>1. TalkInv'
  BY QuietDataKept, TalkStill DEF QuietData
<1>2. PromptsInv'
  BY QuietDataKept, PromptsStill DEF SamePrompts
<1>3. MessagesPay'
  BY BusyPays DEF QuietData
<1>4. QED BY QuietDataKept, <1>1, <1>2, <1>3 DEF CommanderInv

\* A step that stores a prompt and is done.
LEMMA OpensPrompt ==
    ASSUME CommanderInv, QuietData, UNCHANGED answers, NEW h \in Handlers, h \in Busy, Done(h),
           NEW k \in Mapped, NEW cmd \in Commands \cup {NoCmd}, Asked(k, cmd), Store(k, cmd),
           NEW draft, Remembered(draft),
           draft = session.draft \/ (Meant(draft) /\ draft.type = "deploy")
    PROVE  CommanderInv'
<1>1. session \in SessionRecords /\ SessionOK(session, runs)
  BY DEF CommanderInv, TalkInv, SessionOK
<1>2. draft \in Commands \cup {NoCmd} /\ (draft # NoCmd => Meant(draft) /\ draft.type = "deploy")
  BY <1>1 DEF SessionOK, SessionRecords, Meant
<1> DEFINE paid == session.prompts + 1
<1>a. paid \in Nat
  BY PaidNumbers
<1>b. session' = [session EXCEPT !.prompts = paid, !.draft = draft]
  BY DEF Remembered
<1> HIDE DEF paid
<1>c. /\ session' \in SessionRecords /\ session'.prompts = paid
      /\ session'.messages = session.messages /\ session'.draft = draft
      /\ session'.run = session.run
  BY <1>1, <1>2, <1>a, <1>b DEF SessionRecords
<1>3. /\ session' \in SessionRecords /\ session'.prompts = session.prompts + 1
      /\ session'.messages = session.messages /\ session'.draft = draft
      /\ session'.run = session.run
  BY <1>c DEF paid
<1>4. SessionOK(session', runs)
  BY <1>1, <1>2, <1>3 DEF SessionOK
<1>5. TalkInv'
  BY <1>4, QuietDataKept, TalkStill DEF QuietData
<1>6. HandlersInv' /\ Busy' = Busy \ {h}
  BY QuietDataKept, IsDone
<1>7. Cardinality(Busy) > 0
  <2>1. Busy # {} OBVIOUS
  <2>2. QED BY <2>1, PaidNumbers, FS_EmptySet
<1>8. session.prompts < MaxMessages
  BY <1>7, PaidNumbers
<1>9. PromptsInv'
  BY <1>3, <1>8, QuietDataKept, PromptStored
<1>10. MessagesPay'
  BY <1>3, <1>6, BusyPays DEF QuietData
<1>11. QED BY QuietDataKept, <1>5, <1>6, <1>9, <1>10 DEF CommanderInv

-----------------------------------------------------------------------------
(* Messages and buttons *)

Moved(h) == HandlersInv' /\ Busy' \in {Busy \cup {h}, Busy \ {h}}

LEMMA AMessage ==
    ASSUME CommanderInv, NEW h \in Handlers, NEW text, Message(h, text), UNCHANGED runs
    PROVE  /\ QuietData /\ h \notin Busy /\ handler[h].at = "idle"
           /\ text \in Texts /\ session.messages < setup.messages
           /\ session'.messages = session.messages + 1 /\ session'.prompts = session.prompts
           /\ TalkInv'
<1>1. session \in SessionRecords /\ SessionOK(session, runs)
  BY DEF CommanderInv, TalkInv, SessionOK
<1>2. session' = [session EXCEPT !.messages = @ + 1]
  BY DEF Message
<1>3. /\ session' \in SessionRecords /\ session'.messages = session.messages + 1
      /\ session'.prompts = session.prompts /\ session'.draft = session.draft
      /\ session'.run = session.run
  BY <1>1, <1>2 DEF SessionRecords
<1>4. SessionOK(session', runs)
  BY <1>1, <1>3 DEF SessionOK
<1>5. QuietData
  BY DEF Message, NoCases, QuietData
<1>6. TalkInv'
  BY <1>4, <1>5, QuietDataKept, TalkStill DEF QuietData
<1>7. text \in Texts
  BY CommanderAssumption DEF Message, CommanderInv
<1>8. QED BY <1>3, <1>5, <1>6, <1>7 DEF Message, Busy

\* A message that changes no prompt.
LEMMA MessageKeeps ==
    ASSUME CommanderInv, NEW h \in Handlers, NEW text, Message(h, text),
           UNCHANGED <<runs, prompt, answers>>, Moved(h)
    PROVE  CommanderInv'
<1>1. PromptsInv'
  BY AMessage, QuietDataKept, PromptsStill DEF SamePrompts
<1>2. MessagesPay'
  BY AMessage, MessagePays DEF Moved, QuietData
<1>3. QED BY AMessage, QuietDataKept, <1>1, <1>2 DEF CommanderInv, Moved

LEMMA AskedCommand ==
    ASSUME CommanderInv, NEW k \in Mapped, prompt[k] # NoPrompt
    PROVE  Asked(k, prompt[k].cmd) /\ prompt[k].cmd \in Commands \cup {NoCmd}
  BY DEF CommanderInv, PromptsInv, PromptOK, Mapped, PromptRecords

\* The command of an answer is as good as the one the prompt was stored with.
LEMMA AnswerMoves ==
    ASSUME CommanderInv, QuietData, NEW h \in Handlers, handler[h].at = "idle",
           NEW k \in Mapped, prompt[k] # NoPrompt, Done(h) \/ AfterAnswer(h, k)
    PROVE  Moved(h)
<1> DEFINE cmd == prompt[k].cmd
<1>1. handler[h].at \notin HasCase
  BY DEF HasCase
<1>2. CASE Done(h)
  BY <1>2, QuietDataKept, IsDone DEF Moved
<1>3. CASE k = "deploy" /\ AfterAnswer(h, k)
  <2> DEFINE chosen == [cmd EXCEPT !.explicit = TRUE]
  <2>1. cmd \in Commands /\ cmd.type = "deploy" /\ cmd.target \in Names
    BY <1>3, AskedCommand DEF Asked, Meant
  <2>2. chosen \in Commands /\ Meant(chosen) /\ chosen.type = "deploy"
    BY <2>1 DEF Commands, Meant
  <2>3. Goto(h, IF AsksNamespace(chosen) THEN "check" ELSE "open", chosen)
    BY <1>3 DEF AfterAnswer
  <2> HIDE DEF chosen
  <2>4. CASE AsksNamespace(chosen)
    <3>1. CommandAt("check", chosen)
      BY <2>2, <2>4 DEF CommandAt, AsksNamespace
    <3>2. QED BY <1>1, <2>2, <2>3, <2>4, <3>1, QuietDataKept, GoesOn DEF Moved, Ats, HasCase
  <2>5. CASE ~AsksNamespace(chosen)
    <3>1. CommandAt("open", chosen)
      BY <2>2 DEF CommandAt
    <3>2. QED BY <1>1, <2>2, <2>3, <2>5, <3>1, QuietDataKept, GoesOn DEF Moved, Ats, HasCase
  <2>6. QED BY <2>4, <2>5
<1>4. CASE k = "namespace" /\ AfterAnswer(h, k)
  <2> DEFINE agreed == [cmd EXCEPT !.create = TRUE]
  <2>1. cmd \in Commands /\ cmd.type = "deploy" /\ cmd.target \in Names
    BY <1>4, AskedCommand DEF Asked, Meant
  <2>2. agreed \in Commands /\ Meant(agreed) /\ agreed.type = "deploy" /\ agreed.create
    BY <2>1 DEF Commands, Meant
  <2>3. Goto(h, "open", agreed)
    BY <1>4, <2>2 DEF AfterAnswer, AsksNamespace
  <2> HIDE DEF agreed
  <2>4. CommandAt("open", agreed)
    BY <2>2 DEF CommandAt
  <2>5. QED BY <1>1, <2>2, <2>3, <2>4, QuietDataKept, GoesOn DEF Moved, Ats, HasCase
<1>5. CASE k = "delete" /\ AfterAnswer(h, k)
  <2>1. PICK t \in Targets : Goto(h, "delete", [cmd EXCEPT !.target = t])
    BY <1>5 DEF AfterAnswer
  <2> DEFINE chosen == [cmd EXCEPT !.target = t]
  <2>2. cmd \in Commands /\ cmd.type = "delete"
    BY <1>5, AskedCommand DEF Asked, Meant
  <2>3. chosen \in Commands /\ Meant(chosen) /\ chosen.type = "delete"
    BY <2>2 DEF Commands, Meant, Names
  <2>4. CommandAt("delete", chosen)
    BY <2>3 DEF CommandAt
  <2> HIDE DEF chosen
  <2>5. QED BY <1>1, <2>1, <2>3, <2>4, QuietDataKept, GoesOn DEF Moved, Ats, HasCase, chosen
<1>6. CASE k = "investigate" /\ AfterAnswer(h, k)
  <2>1. CASE \E t \in Targets : Goto(h, "open", [cmd EXCEPT !.target = t])
    <3>1. PICK t \in Targets : Goto(h, "open", [cmd EXCEPT !.target = t])
      BY <2>1
    <3> DEFINE chosen == [cmd EXCEPT !.target = t]
    <3>2. cmd \in Commands /\ cmd.type = "investigate"
      BY <1>6, AskedCommand DEF Asked, Meant
    <3>3. chosen \in Commands /\ Meant(chosen) /\ chosen.type = "investigate"
      BY <3>2 DEF Commands, Meant, Names
    <3>4. CommandAt("open", chosen)
      BY <3>3 DEF CommandAt
    <3> HIDE DEF chosen
    <3>5. QED BY <1>1, <3>1, <3>3, <3>4, QuietDataKept, GoesOn DEF Moved, Ats, HasCase, chosen
  <2>2. QED BY <1>2, <1>6, <2>1 DEF AfterAnswer
<1>7. CASE k = "suggest" /\ AfterAnswer(h, k)
  BY <1>2, <1>7 DEF AfterAnswer
<1>8. QED BY <1>2, <1>3, <1>4, <1>5, <1>6, <1>7 DEF Mapped, Kinds

LEMMA AnswerKeeps ==
    ASSUME CommanderInv, NEW h \in Handlers, NEW text, Message(h, text),
           NEW k \in Mapped, NEW selection, Answer(h, k, selection)
    PROVE  CommanderInv'
<1>1. UNCHANGED runs /\ prompt[k] # NoPrompt /\ (Done(h) \/ AfterAnswer(h, k))
      /\ prompt' = [prompt EXCEPT ![k] = NoPrompt]
      /\ answers' = [answers EXCEPT ![prompt[k].id] = @ + 1]
  BY DEF Answer, Resolved
<1>2. QuietData /\ TalkInv'
  BY <1>1, AMessage
<1>3. Moved(h)
  BY <1>1, <1>2, AMessage, AnswerMoves
<1>4. PromptsInv'
  BY <1>1, <1>2, AMessage, QuietDataKept, PromptGone
<1>5. MessagesPay'
  BY <1>1, <1>2, <1>3, AMessage, MessagePays DEF Moved, QuietData
<1>6. QED BY <1>2, <1>3, <1>4, <1>5, QuietDataKept DEF CommanderInv, Moved

\* An idle handler takes a message and works on it.
LEMMA Starts ==
    ASSUME CommanderInv, QuietData, NEW h \in Handlers, handler[h].at = "idle",
           NEW x \in HandlerRecords, handler' = [handler EXCEPT ![h] = x],
           x.at \in {"list", "source", "clarify", "route"}, x.case = 0,
           x.seen \subseteq DOMAIN runs, CommandAt(x.at, x.cmd)
    PROVE  Moved(h)
<1>1. x.at \notin HasCase /\ x.at \notin Bounds /\ x.at # "idle"
  BY DEF HasCase, Bounds
<1>2. Len(cases) \in Nat
  BY DEF CommanderInv, CasesInv
<1>3. HandlerOK(x, runs, cases)
  BY <1>1, <1>2 DEF HandlerOK
<1>4. HandlerOK(x, runs', cases')
  BY <1>3 DEF QuietData
<1>5. QED BY <1>1, <1>4, QuietDataKept, HandlerMoves DEF Moved

LEMMA AskPendingStep ==
    ASSUME CommanderInv, NEW h \in Handlers, NEW text, AskPending(h, text)
    PROVE  CommanderInv'
<1>1. Message(h, text) /\ UNCHANGED <<prompt, runs, answers>>
  BY DEF AskPending
<1>2. QuietData /\ handler[h].at = "idle" /\ text \in Texts
  BY <1>1, AMessage
<1> DEFINE x == [handler[h] EXCEPT !.at = "list", !.text = text]
<1>3. /\ x \in HandlerRecords /\ x.at = "list" /\ x.case = 0 /\ x.seen \subseteq DOMAIN runs
      /\ x.cmd = handler[h].cmd
  BY <1>2, KnownHandler DEF HandlerRecords, HandlerOK, HasCase, Ats
<1>4. handler' = [handler EXCEPT ![h] = x]
  BY KnownHandler DEF AskPending
<1> HIDE DEF x
<1>5. CommandAt(x.at, x.cmd)
  BY <1>3 DEF CommandAt
<1>6. Moved(h)
  BY <1>2, <1>3, <1>4, <1>5, Starts
<1>7. QED BY <1>1, <1>6, MessageKeeps

LEMMA SayStep ==
    ASSUME CommanderInv, NEW h \in Handlers, NEW text, Say(h, text)
    PROVE  CommanderInv'
<1>1. Message(h, text)
  BY DEF Say
<1>2. CASE \E kind \in Kinds \ {"source"} :
               Answer(h, kind, IF text = "cancel" THEN "cancel" ELSE "select")
  BY <1>1, <1>2, AnswerKeeps DEF Mapped
<1>3. CASE /\ TakesFirst("source", text)
           /\ handler' = [handler EXCEPT ![h].at = "source", ![h].cmd = prompt["source"].cmd,
                             ![h].seen = {prompt["source"].run}]
           /\ UNCHANGED <<prompt, runs, answers>>
  <2> DEFINE p == prompt["source"]
             x == [handler[h] EXCEPT !.at = "source", !.cmd = p.cmd, !.seen = {p.run}]
  <2>1. QuietData /\ handler[h].at = "idle"
    BY <1>1, <1>3, AMessage
  <2>2. p.run # 0
    BY <1>3 DEF TakesFirst, Takes, IsOpen
  <2>3. p.run \in 0..Len(runs) /\ Meant(p.cmd) /\ p.cmd.type = "investigate"
    BY <2>2 DEF CommanderInv, PromptsInv, SourceOK
  <2>4. p.run \in DOMAIN runs /\ p.run \in Nat /\ p.cmd \in Commands
    BY <2>2, <2>3 DEF CommanderInv, RunsInv, Meant
  <2>5. /\ x \in HandlerRecords /\ x.at = "source" /\ x.case = 0 /\ x.seen = {p.run}
        /\ x.cmd = p.cmd
    BY <2>1, <2>4, KnownHandler DEF HandlerRecords, HasCase, Ats
  <2>6. handler' = [handler EXCEPT ![h] = x]
    BY <1>3, KnownHandler
  <2> HIDE DEF x
  <2>7. CommandAt(x.at, x.cmd)
    BY <2>3, <2>5 DEF CommandAt
  <2>8. Moved(h)
    BY <2>1, <2>4, <2>5, <2>6, <2>7, Starts
  <2>9. QED BY <1>1, <1>3, <2>8, MessageKeeps
<1>4. CASE /\ handler' = [handler EXCEPT ![h].at = "clarify"]
           /\ UNCHANGED <<prompt, runs, answers>>
  <2> DEFINE x == [handler[h] EXCEPT !.at = "clarify"]
  <2>1. QuietData /\ handler[h].at = "idle"
    BY <1>1, <1>4, AMessage
  <2>2. /\ x \in HandlerRecords /\ x.at = "clarify" /\ x.case = 0 /\ x.seen \subseteq DOMAIN runs
        /\ x.cmd = handler[h].cmd
    BY <2>1, KnownHandler DEF HandlerRecords, HandlerOK, HasCase, Ats
  <2>3. handler' = [handler EXCEPT ![h] = x]
    BY <1>4, KnownHandler
  <2> HIDE DEF x
  <2>4. CommandAt(x.at, x.cmd)
    BY <2>2 DEF CommandAt
  <2>5. Moved(h)
    BY <2>1, <2>2, <2>3, <2>4, Starts
  <2>6. QED BY <1>1, <1>4, <2>5, MessageKeeps
<1>5. CASE /\ handler' = [handler EXCEPT ![h].at = "route", ![h].text = text]
           /\ UNCHANGED <<prompt, runs, answers>>
  <2> DEFINE x == [handler[h] EXCEPT !.at = "route", !.text = text]
  <2>1. QuietData /\ handler[h].at = "idle" /\ text \in Texts
    BY <1>1, <1>5, AMessage
  <2>2. /\ x \in HandlerRecords /\ x.at = "route" /\ x.case = 0 /\ x.seen \subseteq DOMAIN runs
        /\ x.cmd = handler[h].cmd
    BY <2>1, KnownHandler DEF HandlerRecords, HandlerOK, HasCase, Ats
  <2>3. handler' = [handler EXCEPT ![h] = x]
    BY <1>5, KnownHandler
  <2> HIDE DEF x
  <2>4. CommandAt(x.at, x.cmd)
    BY <2>2 DEF CommandAt
  <2>5. Moved(h)
    BY <2>1, <2>2, <2>3, <2>4, Starts
  <2>6. QED BY <1>1, <1>5, <2>5, MessageKeeps
<1>6. QED BY <1>2, <1>3, <1>4, <1>5 DEF Say

LEMMA PressStep ==
    ASSUME CommanderInv, NEW h \in Handlers, NEW kind \in Kinds, Press(h, kind)
    PROVE  CommanderInv'
<1>1. Message(h, "button")
  BY DEF Press
<1>2. CASE kind \in {"investigate", "deploy", "namespace"}
           /\ \E selection \in {"select", "cancel"} : Answer(h, kind, selection)
  BY <1>1, <1>2, AnswerKeeps DEF Mapped
<1>3. CASE UNCHANGED <<handler, prompt, runs, answers>>
  <2>1. QuietData /\ TalkInv' /\ session'.messages = session.messages + 1
        /\ session'.prompts = session.prompts /\ session.messages < setup.messages
    BY <1>1, <1>3, AMessage
  <2>2. HandlersInv' /\ Busy' = Busy
    BY <1>3, <2>1, QuietDataKept, HandlersStill
  <2>3. PromptsInv'
    BY <1>3, <2>1, QuietDataKept, PromptsStill DEF SamePrompts
  <2>4. MessagesPay'
    BY <2>1, <2>2, MessagePays DEF QuietData
  <2>5. QED BY <2>1, <2>2, <2>3, <2>4, QuietDataKept DEF CommanderInv
<1>4. QED BY <1>2, <1>3 DEF Press

LEMMA PressSuggestStep ==
    ASSUME CommanderInv, NEW h \in Handlers, PressSuggest(h)
    PROVE  CommanderInv'
<1>1. session \in SessionRecords /\ SessionOK(session, runs)
  BY DEF CommanderInv, TalkInv, SessionOK
<1>2. session' = [session EXCEPT !.messages = @ + 1, !.prompts = @ + 1]
  BY DEF PressSuggest
<1> DEFINE paid == session.prompts + 1
           counted == session.messages + 1
<1>a. paid \in Nat /\ counted \in Nat
  BY PaidNumbers
<1>b. session' = [session EXCEPT !.messages = counted, !.prompts = paid]
  BY <1>2
<1> HIDE DEF paid, counted
<1>c. /\ session' \in SessionRecords /\ session'.messages = counted
      /\ session'.prompts = paid /\ session'.draft = session.draft
      /\ session'.run = session.run
  BY <1>1, <1>a, <1>b DEF SessionRecords
<1>3. /\ session' \in SessionRecords /\ session'.messages = session.messages + 1
      /\ session'.prompts = session.prompts + 1 /\ session'.draft = session.draft
      /\ session'.run = session.run
  BY <1>c DEF paid, counted
<1>4. SessionOK(session', runs)
  BY <1>1, <1>3 DEF SessionOK
<1>5. QuietData /\ session.messages < setup.messages /\ Store("suggest", NoCmd)
      /\ UNCHANGED <<handler, answers>>
  BY DEF PressSuggest, NoCases, QuietData
<1>6. TalkInv'
  BY <1>4, <1>5, QuietDataKept, TalkStill DEF QuietData
<1>7. HandlersInv' /\ Busy' = Busy
  BY <1>5, QuietDataKept, HandlersStill
<1>8. "suggest" \in Mapped /\ Asked("suggest", NoCmd) /\ session.prompts < MaxMessages
  BY <1>5, PaidNumbers DEF Mapped, Kinds, Asked
<1>9. PromptsInv'
  BY <1>3, <1>5, <1>8, QuietDataKept, PromptStored
<1>10. MessagesPay'
  BY <1>3, <1>5, <1>7, MessagePays DEF QuietData
<1>11. QED BY <1>5, <1>6, <1>7, <1>9, <1>10, QuietDataKept DEF CommanderInv

-----------------------------------------------------------------------------
(* The prompts of the session, and the router *)

\* The source's prompt is gone: NoPrompt is of no run.
LEMMA SourceGone ==
    ASSUME RunsInv'
    PROVE  /\ NoPrompt \in PromptRecords /\ SourceOK(NoPrompt, runs')
           /\ [NoPrompt EXCEPT !.id = SourcePrompt] \in PromptRecords
           /\ SourceOK([NoPrompt EXCEPT !.id = SourcePrompt], runs')
<1>1. Len(runs') \in Nat
  BY DEF RunsInv
<1>2. SourcePrompt \in Nat
  BY CommanderAssumption DEF SourcePrompt
<1>3. NoPrompt \in PromptRecords /\ [NoPrompt EXCEPT !.id = SourcePrompt] \in PromptRecords
  BY <1>2 DEF NoPrompt, PromptRecords
<1>4. QED BY <1>1, <1>3 DEF NoPrompt, SourceOK

\* Runs that the operator gives up are cancelled, if they are not over.
LEMMA RunsCancelled ==
    ASSUME CommanderInv, UNCHANGED setup, NEW seen,
           runs' = [i \in DOMAIN runs |->
                       IF i \in seen /\ runs[i].status \in Active
                       THEN [runs[i] EXCEPT !.status = "cancelled"] ELSE runs[i]]
    PROVE  RunsInv' /\ RunsGrow(runs, runs')
<1>1. runs \in Seq(RunRecords) /\ Len(runs) \in Nat /\ DOMAIN runs = 1..Len(runs)
  BY DEF CommanderInv, RunsInv
<1> DEFINE over(i) == [runs[i] EXCEPT !.status = "cancelled"]
<1>a. \A i \in DOMAIN runs : runs'[i] \in {runs[i], over(i)}
  OBVIOUS
<1>b. \A i \in DOMAIN runs : runs[i] \in RunRecords
  BY <1>1
<1>c. \A i \in DOMAIN runs :
          /\ over(i) \in RunRecords /\ over(i).target = runs[i].target
          /\ over(i).mode = runs[i].mode /\ over(i).status = "cancelled"
  BY <1>b DEF RunRecords, Ended
<1> HIDE DEF over
<1>2. \A i \in DOMAIN runs :
          /\ runs'[i] \in RunRecords /\ runs'[i].target = runs[i].target
          /\ runs'[i].mode = runs[i].mode
          /\ runs[i].status \in Ended => runs'[i].status \in Ended
  BY <1>a, <1>b, <1>c DEF Ended
<1>3. runs' \in Seq(RunRecords) /\ DOMAIN runs' = DOMAIN runs /\ Len(runs') = Len(runs)
  BY <1>1, <1>2
<1>4. RunsInv'
  BY <1>2, <1>3 DEF CommanderInv, RunsInv, RunOK
<1>5. QED BY <1>1, <1>2, <1>3, <1>4 DEF RunsGrow

LEMMA AnswerSourceStep ==
    ASSUME CommanderInv, NEW h \in Handlers, AnswerSource(h)
    PROVE  CommanderInv'
<1>1. /\ handler[h].at = "source" /\ h \in Busy
      /\ UNCHANGED <<setup, session, answers, told, cases, desk, notice>>
      /\ prompt' = [prompt EXCEPT !["source"] = NoPrompt]
  BY KnownHandler DEF AnswerSource, NoCases
<1>2. RunsInv' /\ RunsGrow(runs, runs')
  BY <1>1, RunsCancelled, RunsStill DEF AnswerSource
<1>3. CasesInv' /\ CasesGrow(cases, cases')
  BY <1>1, <1>2, CasesStill
<1>4. NoticesInv' /\ TalkInv'
  BY <1>1, <1>2, <1>3, NoticesStill, TalkStill
<1>5. PromptsInv'
  BY <1>1, <1>2, SourceGone, SourceSet DEF SamePrompts
<1>6. Moved(h)
  <2>1. CASE Done(h)
    BY <1>2, <1>3, <2>1, IsDone DEF Moved
  <2>2. CASE handler' = [handler EXCEPT ![h].at = "open", ![h].seen = {}]
    <3> DEFINE x == [handler[h] EXCEPT !.at = "open", !.seen = {}]
    <3>1. /\ x \in HandlerRecords /\ x.at = "open" /\ x.case = 0 /\ x.seen = {}
          /\ x.cmd = handler[h].cmd
      BY <1>1, KnownHandler DEF HandlerRecords, HasCase, Ats
    <3>2. handler' = [handler EXCEPT ![h] = x]
      BY <2>2, KnownHandler
    <3> HIDE DEF x
    <3>3. CommandAt(x.at, x.cmd)
      BY <1>1, <3>1, KnownHandler DEF CommandAt
    <3>4. Len(cases') \in Nat
      BY <1>3 DEF CasesInv
    <3>5. HandlerOK(x, runs', cases')
      BY <3>1, <3>3, <3>4 DEF HandlerOK, HasCase, Bounds
    <3>6. QED BY <1>2, <1>3, <3>1, <3>2, <3>5, HandlerMoves DEF Moved
  <2>3. QED BY <2>1, <2>2 DEF AnswerSource
<1>7. MessagesPay'
  BY <1>1, <1>6, BusyPays DEF Moved
<1>8. QED BY <1>1, <1>2, <1>3, <1>4, <1>5, <1>6, <1>7 DEF CommanderInv, Moved

\* A step that changes its handler and the session's prompt.
LEMMA HandlerAndSource ==
    ASSUME CommanderInv, QuietData, UNCHANGED <<session, answers>>,
           NEW h \in Handlers, h \in Busy,
           Moved(h), prompt' = prompt \/ prompt' = [prompt EXCEPT !["source"] = NoPrompt]
                     \/ prompt' = [prompt EXCEPT !["source"] =
                                      [NoPrompt EXCEPT !.id = SourcePrompt]]
    PROVE  CommanderInv'
<1>1. TalkInv'
  BY QuietDataKept, TalkStill DEF QuietData
<1>2. PromptsInv'
  BY QuietDataKept, PromptsStill, SourceGone, SourceSet DEF SamePrompts
<1>3. MessagesPay'
  BY BusyPays DEF QuietData, Moved
<1>4. QED BY QuietDataKept, <1>1, <1>2, <1>3 DEF CommanderInv, Moved

\* A command, whoever gave it, at a step that takes it.
LEMMA CommandMoves ==
    ASSUME CommanderInv, QuietData, NEW h \in Handlers, handler[h].at \notin HasCase,
           NEW cmd, Meant(cmd),
           \/ Done(h)
           \/ cmd.type = "deploy" /\ Goto(h, "inspect", cmd)
           \/ cmd.type = "deploy" /\ ~cmd.create /\ Goto(h, "check", cmd)
           \/ cmd.type \in {"deploy", "investigate", "app"} /\ Goto(h, "open", cmd)
           \/ cmd.type \in {"investigate", "app"} /\ Goto(h, "resolve", cmd)
           \/ cmd.type = "app" /\ Goto(h, "review", cmd)
           \/ cmd.type = "delete" /\ Goto(h, "delete", cmd)
           \/ cmd.type \in {"rollback", "ci"} /\ Goto(h, "post", cmd)
    PROVE  Moved(h)
<1>1. cmd \in Commands
  BY DEF Meant
<1>2. CASE Done(h)
  BY <1>2, QuietDataKept, IsDone DEF Moved
<1>3. ASSUME NEW at \in Ats \ {"idle", "bind", "join"}, Goto(h, at, cmd), CommandAt(at, cmd),
             at \in HasCase => cmd.type \in {"rollback", "ci"}
      PROVE  Moved(h)
  BY <1>1, <1>3, QuietDataKept, GoesOn DEF Moved
<1>4. /\ cmd.type = "deploy" => CommandAt("inspect", cmd)
      /\ cmd.type = "deploy" /\ ~cmd.create => CommandAt("check", cmd)
      /\ cmd.type \in {"deploy", "investigate", "app"} => CommandAt("open", cmd)
      /\ cmd.type \in {"investigate", "app"} => CommandAt("resolve", cmd)
      /\ cmd.type = "app" => CommandAt("review", cmd)
      /\ cmd.type = "delete" => CommandAt("delete", cmd)
      /\ cmd.type \in {"rollback", "ci"} => CommandAt("post", cmd)
  BY DEF CommandAt
<1>5. /\ {"inspect", "check", "open", "resolve", "review", "delete", "post"}
            \subseteq Ats \ {"idle", "bind", "join"}
      /\ "post" \in HasCase
      /\ {"inspect", "check", "open", "resolve", "review", "delete"} \cap HasCase = {}
  BY DEF Ats, HasCase
<1>6. QED BY <1>2, <1>3, <1>4, <1>5

LEMMA Understood ==
    ASSUME NEW type \in Types, NEW target \in Names \cup {Repo}, type # "ci" => target \in Names
    PROVE  /\ Meant(Command(type, target)) /\ Command(type, target).type = type
           /\ Command(type, target).target = target /\ ~Command(type, target).create
           /\ \A e \in BOOLEAN :
                 /\ Meant([Command(type, target) EXCEPT !.explicit = e])
                 /\ [Command(type, target) EXCEPT !.explicit = e].type = type
  BY DEF Command, NoCmd, Commands, Meant

\* Whatever the session, the regular expressions or the LLM make of a text.
LEMMA RoutedCommands ==
    ASSUME CommanderInv, NEW text, NEW cmd \in FollowUp(text) \cup DraftFollowUp(text)
                                                  \cup Classified(text)
    PROVE  Meant(cmd) /\ cmd.type \in Types
<1>1. SessionOK(session, runs)
  BY DEF CommanderInv, TalkInv
<1>2. session.draft # NoCmd => Meant(session.draft)
  BY <1>1 DEF SessionOK
<1>3. session.topic # "none" => session.topic \in Names
  BY <1>1 DEF SessionOK, SessionRecords
<1>4. CASE cmd \in FollowUp(text)
  <2>1. \/ cmd = [Command("app", Other) EXCEPT !.explicit = TRUE]
        \/ session.topic # "none" /\ cmd = Command("investigate", session.topic)
        \/ cmd = Command("ci", Repo)
    BY <1>4 DEF FollowUp
  <2>2. Other \in Names /\ {"app", "investigate", "ci"} \subseteq Types
    BY DEF Names, Types
  <2>3. Meant(cmd)
    <3>1. CASE cmd = [Command("app", Other) EXCEPT !.explicit = TRUE]
      BY <2>2, <3>1, Understood
    <3>2. CASE session.topic # "none" /\ cmd = Command("investigate", session.topic)
      BY <1>3, <2>2, <3>2, Understood
    <3>3. CASE cmd = Command("ci", Repo)
      BY <2>2, <3>3, Understood
    <3>4. QED BY <2>1, <3>1, <3>2, <3>3
  <2>4. QED BY <2>3 DEF Meant, Commands
<1>5. CASE cmd \in DraftFollowUp(text)
  <2>1. session.draft # NoCmd
        /\ (cmd = session.draft \/ cmd = [session.draft EXCEPT !.create = TRUE])
    BY <1>5 DEF DraftFollowUp
  <2>2. QED BY <1>2, <2>1 DEF Meant, Commands
<1>6. CASE cmd \in Classified(text)
  <2>1. cmd \in Parsed
    BY <1>6 DEF Classified
  <2>2. Targets \subseteq Names /\ Other \in Names
        /\ {"app", "investigate", "ci", "deploy", "delete", "rollback"} \subseteq Types
    BY DEF Names, Types
  <2> DEFINE deploy(t, e) == [Command("deploy", t) EXCEPT !.explicit = e]
  <2>a. \A t \in Targets, e \in BOOLEAN : Meant(deploy(t, e))
    BY <2>2, Understood
  <2>b. /\ CatalogDeploys = {deploy(t, TRUE) : t \in Targets}
        /\ RepositoryDeploys = {deploy(t, e) : t \in Targets, e \in BOOLEAN}
    BY DEF CatalogDeploys, RepositoryDeploys
  <2> HIDE DEF deploy
  <2>c. CASE cmd \in RepositoryDeploys
    <3>1. PICK t \in Targets, e \in BOOLEAN : cmd = deploy(t, e)
      BY <2>b, <2>c
    <3>2. Meant(deploy(t, e))
      BY <2>a
    <3>3. QED BY <3>1, <3>2 DEF Meant, Commands
  <2>d. CASE cmd \in CatalogDeploys
    <3>1. PICK t \in Targets : cmd = deploy(t, TRUE)
      BY <2>b, <2>d
    <3>2. Meant(deploy(t, TRUE))
      BY <2>a
    <3>3. QED BY <3>1, <3>2 DEF Meant, Commands
  <2>3. cmd \in CatalogDeploys \cup RepositoryDeploys => Meant(cmd)
    BY <2>c, <2>d
  <2>4. cmd \in BuildFailures \cup Rollbacks \cup Deletions => Meant(cmd)
    BY <2>2, Understood DEF BuildFailures, Rollbacks, Deletions
  <2>5. cmd \in AppReviews \cup Investigations => Meant(cmd)
    BY <2>2, Understood DEF AppReviews, Investigations
  <2>6. QED BY <2>1, <2>3, <2>4, <2>5 DEF Parsed, Meant, Commands
<1>7. QED BY <1>4, <1>5, <1>6

LEMMA RoutedMoves ==
    ASSUME CommanderInv, QuietData, NEW h \in Handlers, handler[h].at \notin HasCase,
           NEW cmd, Meant(cmd), AfterRoute(h, cmd)
    PROVE  Moved(h)
<1>1. cmd.type \in Types
  BY DEF Meant, Commands
<1>2. CASE RoutedInChat(h, cmd)
  <2>1. CASE cmd.type = "deploy"
    <3>1. \/ Goto(h, "inspect", cmd) \/ Goto(h, "open", cmd)
          \/ ~cmd.create /\ Goto(h, "check", cmd)
      BY <1>2, <2>1 DEF RoutedInChat
    <3>2. QED BY <2>1, <3>1, CommandMoves
  <2>2. CASE cmd.type \in {"investigate", "app"}
    BY <1>2, <2>2, CommandMoves DEF RoutedInChat
  <2>3. CASE cmd.type = "delete"
    BY <1>2, <2>3, CommandMoves DEF RoutedInChat
  <2>4. CASE cmd.type \in {"rollback", "ci"}
    BY <1>2, <2>4, CommandMoves DEF RoutedInChat
  <2>5. QED BY <1>1, <2>1, <2>2, <2>3, <2>4 DEF Types
<1>3. CASE RoutedOnWeb(h, cmd)
  BY <1>2, <1>3, CommandMoves DEF RoutedOnWeb
<1>4. QED BY <1>2, <1>3 DEF AfterRoute

LEMMA RouteMessageStep ==
    ASSUME CommanderInv, NEW h \in Handlers, RouteMessage(h)
    PROVE  CommanderInv'
<1>1. /\ QuietData /\ handler[h].at = "route" /\ h \in Busy /\ UNCHANGED <<session, answers>>
  BY KnownHandler DEF RouteMessage, HandlerStep, NoCases, QuietData
<1>2. handler[h].at \notin HasCase
  BY <1>1 DEF HasCase
<1>3. ASSUME NEW text, NEW cmd \in FollowUp(text) \cup DraftFollowUp(text) \cup Classified(text),
             AfterRoute(h, cmd)
      PROVE  Moved(h)
  BY <1>1, <1>2, <1>3, RoutedCommands, RoutedMoves
<1>4. ASSUME Done(h) PROVE Moved(h)
  BY <1>1, <1>4, QuietDataKept, IsDone DEF Moved
<1>5. ASSUME AskWhich(h) PROVE Moved(h)
  <2>1. Other \in Names /\ "investigate" \in Types
    BY DEF Names, Types
  <2>2. Meant(Command("investigate", Other)) /\ Command("investigate", Other).type = "investigate"
    BY <2>1, Understood
  <2>3. Done(h) \/ Goto(h, "resolve", Command("investigate", Other))
    BY <1>5 DEF AskWhich
  <2>4. QED BY <1>1, <1>2, <2>2, <2>3, CommandMoves
<1>6. Moved(h)
  BY <1>3, <1>4, <1>5 DEF RouteMessage
<1>7. \/ prompt' = prompt
      \/ prompt' = [prompt EXCEPT !["source"] = [NoPrompt EXCEPT !.id = SourcePrompt]]
  BY DEF RouteMessage, AskWhich
<1>8. QED BY <1>1, <1>6, <1>7, HandlerAndSource

LEMMA AnswerClarificationStep ==
    ASSUME CommanderInv, NEW h \in Handlers, AnswerClarification(h)
    PROVE  CommanderInv'
<1>1. /\ QuietData /\ handler[h].at = "clarify" /\ h \in Busy /\ UNCHANGED <<session, answers>>
      /\ prompt' = [prompt EXCEPT !["source"] = NoPrompt]
  BY KnownHandler DEF AnswerClarification, NoCases, QuietData
<1>2. handler[h].at \notin HasCase
  BY <1>1 DEF HasCase
<1>3. CASE Done(h)
  BY <1>1, <1>3, QuietDataKept, IsDone, HandlerAndSource DEF Moved
<1>4. CASE \E name \in Names : Goto(h, "open", Command("investigate", name))
  <2>1. PICK name \in Names : Goto(h, "open", Command("investigate", name))
    BY <1>4
  <2>2. Meant(Command("investigate", name)) /\ Command("investigate", name).type = "investigate"
    BY Understood DEF Types
  <2>3. Moved(h)
    BY <1>1, <1>2, <2>1, <2>2, CommandMoves
  <2>4. QED BY <1>1, <2>3, HandlerAndSource
<1>5. QED BY <1>3, <1>4 DEF AnswerClarification

LEMMA DeployChoiceStep ==
    ASSUME CommanderInv, NEW h \in Handlers, DeployChoice(h)
    PROVE  CommanderInv'
<1> DEFINE cmd == handler[h].cmd
<1>1. /\ QuietData /\ handler[h].at = "inspect" /\ h \in Busy /\ UNCHANGED answers
      /\ Store("deploy", cmd) /\ Remembered(cmd) /\ Done(h)
  BY KnownHandler DEF DeployChoice, HandlerStep, NoCases, QuietData
<1>2. Meant(cmd) /\ cmd.type = "deploy" /\ cmd \in Commands
  BY <1>1, KnownHandler DEF CommandAt, Meant
<1>3. "deploy" \in Mapped /\ Asked("deploy", cmd)
  BY <1>2 DEF Mapped, Kinds, Asked
<1>4. QED BY <1>1, <1>2, <1>3, OpensPrompt

LEMMA CheckNamespaceStep ==
    ASSUME CommanderInv, NEW h \in Handlers, CheckNamespace(h)
    PROVE  CommanderInv'
<1> DEFINE cmd == handler[h].cmd
<1>1. QuietData /\ handler[h].at = "check" /\ h \in Busy /\ UNCHANGED answers
  BY KnownHandler DEF CheckNamespace, HandlerStep, NoCases, QuietData
<1>2. Meant(cmd) /\ cmd.type = "deploy" /\ ~cmd.create /\ cmd \in Commands
  BY <1>1, KnownHandler DEF CommandAt, Meant
<1>3. CASE Store("namespace", cmd) /\ Remembered(cmd) /\ Done(h)
  <2>1. "namespace" \in Mapped /\ Asked("namespace", cmd)
    BY <1>2 DEF Mapped, Kinds, Asked
  <2>2. QED BY <1>1, <1>2, <1>3, <2>1, OpensPrompt
<1>4. CASE Goto(h, "open", cmd) /\ UNCHANGED <<prompt, session>>
  <2>1. Moved(h)
    BY <1>1, <1>2, <1>4, CommandMoves DEF HasCase
  <2>2. QED BY <1>1, <1>4, <2>1, HandlerAndSource
<1>5. QED BY <1>3, <1>4 DEF CheckNamespace

\* A command with another target is as good.
LEMMA Retargeted ==
    ASSUME NEW cmd, Meant(cmd), NEW t \in Names
    PROVE  Meant([cmd EXCEPT !.target = t]) /\ [cmd EXCEPT !.target = t].type = cmd.type
  BY DEF Meant, Commands

LEMMA ResolveWorkloadStep ==
    ASSUME CommanderInv, NEW h \in Handlers, ResolveWorkload(h)
    PROVE  CommanderInv'
<1> DEFINE cmd == handler[h].cmd
<1>1. QuietData /\ handler[h].at = "resolve" /\ h \in Busy /\ UNCHANGED answers
  BY KnownHandler DEF ResolveWorkload, HandlerStep, NoCases, QuietData
<1>2. Meant(cmd) /\ cmd.type \in {"investigate", "app"} /\ cmd \in Commands
  BY <1>1, KnownHandler DEF CommandAt, Meant
<1>3. handler[h].at \notin HasCase
  BY <1>1 DEF HasCase
<1>4. CASE /\ (cmd.type = "app" /\ Goto(h, "review", cmd)) \/ Done(h)
           /\ UNCHANGED <<prompt, session>>
  BY <1>1, <1>2, <1>3, <1>4, CommandMoves, HandlerAndSource
<1>5. CASE cmd.type = "investigate" /\ Store("investigate", cmd) /\ Remembered(session.draft)
           /\ Done(h)
  <2>1. "investigate" \in Mapped /\ Asked("investigate", cmd)
    BY <1>2, <1>5 DEF Mapped, Kinds, Asked
  <2>2. QED BY <1>1, <1>2, <1>5, <2>1, OpensPrompt
<1>6. ASSUME NEW t \in Targets, Goto(h, "open", [cmd EXCEPT !.target = t]),
             UNCHANGED <<prompt, session>>
      PROVE  CommanderInv'
  <2> DEFINE chosen == [cmd EXCEPT !.target = t]
  <2>1. Meant(chosen) /\ chosen.type \in {"investigate", "app"}
    BY <1>2, Retargeted DEF Names
  <2>2. Goto(h, "open", chosen)
    BY <1>6
  <2> HIDE DEF chosen
  <2>3. Moved(h)
    BY <1>1, <1>3, <2>1, <2>2, CommandMoves
  <2>4. QED BY <1>1, <1>6, <2>3, HandlerAndSource
<1>7. QED BY <1>4, <1>5, <1>6 DEF ResolveWorkload, Candidates

LEMMA LoadAppReviewStep ==
    ASSUME CommanderInv, NEW h \in Handlers, LoadAppReview(h)
    PROVE  CommanderInv'
<1> DEFINE cmd == handler[h].cmd
<1>1. QuietData /\ handler[h].at = "review" /\ h \in Busy /\ UNCHANGED <<prompt, answers>>
  BY KnownHandler DEF LoadAppReview, HandlerStep, NoCases, QuietData
<1>2. Meant(cmd) /\ cmd.type = "app"
  BY <1>1, KnownHandler DEF CommandAt
<1>3. handler[h].at \notin HasCase
  BY <1>1 DEF HasCase
<1>4. Moved(h)
  <2>1. CASE Done(h)
    BY <1>1, <2>1, QuietDataKept, IsDone DEF Moved
  <2>2. ASSUME NEW t \in ReviewTargets, Goto(h, "open", [cmd EXCEPT !.target = t])
        PROVE  Moved(h)
    <3> DEFINE chosen == [cmd EXCEPT !.target = t]
    <3>1. Meant(chosen) /\ chosen.type = "app"
      BY <1>2, Retargeted DEF ReviewTargets
    <3>2. Goto(h, "open", chosen)
      BY <2>2
    <3> HIDE DEF chosen
    <3>3. QED BY <1>1, <1>3, <3>1, <3>2, CommandMoves
  <2>3. QED BY <2>1, <2>2 DEF LoadAppReview
<1>5. /\ SessionOK(session', runs) /\ session'.messages = session.messages
      /\ session'.prompts = session.prompts
  <2>1. session \in SessionRecords /\ SessionOK(session, runs)
    BY DEF CommanderInv, TalkInv, SessionOK
  <2>2. CASE UNCHANGED session
    BY <2>1, <2>2
  <2>3. CASE session' = [session EXCEPT !.reviewed = TRUE, !.topic = Other]
    <3>1. /\ session' \in SessionRecords /\ session'.draft = session.draft
          /\ session'.run = session.run /\ session'.messages = session.messages
          /\ session'.prompts = session.prompts
      BY <2>1, <2>3 DEF SessionRecords, Names
    <3>2. QED BY <2>1, <3>1 DEF SessionOK
  <2>4. QED BY <2>2, <2>3 DEF LoadAppReview
<1>6. TalkInv'
  BY <1>1, <1>5, QuietDataKept, TalkStill DEF QuietData
<1>7. PromptsInv'
  BY <1>1, <1>5, QuietDataKept, PromptsStill DEF SamePrompts
<1>8. MessagesPay'
  BY <1>1, <1>4, <1>5, BusyPays DEF Moved, QuietData
<1>9. QED BY <1>1, <1>4, <1>6, <1>7, <1>8, QuietDataKept DEF CommanderInv, Moved

LEMMA DeleteStep ==
    ASSUME CommanderInv, NEW h \in Handlers, Delete(h)
    PROVE  CommanderInv'
<1> DEFINE cmd == handler[h].cmd
<1>1. QuietData /\ handler[h].at = "delete" /\ h \in Busy /\ UNCHANGED answers /\ Done(h)
  BY KnownHandler DEF Delete, HandlerStep, NoCases, QuietData
<1>2. Meant(cmd) /\ cmd.type = "delete" /\ cmd \in Commands
  BY <1>1, KnownHandler DEF CommandAt, Meant
<1>3. CASE Store("delete", cmd) /\ Remembered(session.draft)
  <2>1. "delete" \in Mapped /\ Asked("delete", cmd)
    BY <1>2 DEF Mapped, Kinds, Asked
  <2>2. QED BY <1>1, <1>2, <1>3, <2>1, OpensPrompt
<1>4. CASE UNCHANGED <<prompt, session>>
  BY <1>1, <1>4, QuietDataKept, IsDone, HandlerAndSource DEF Moved
<1>5. QED BY <1>3, <1>4 DEF Delete

-----------------------------------------------------------------------------
(* Cases, and the runs they follow *)

\* A step that changes its handler and the cases.
LEMMA HandlerAndCases ==
    ASSUME CommanderInv, UNCHANGED <<setup, prompt, session, runs, notice, answers, told>>,
           CasesInv', CasesGrow(cases, cases'), NEW h \in Handlers, h \in Busy, Moved(h)
    PROVE  CommanderInv'
<1>1. setup' \in Setups /\ RunsInv' /\ RunsGrow(runs, runs')
  BY RunsStill DEF CommanderInv
<1>2. NoticesInv' /\ TalkInv'
  BY <1>1, NoticesStill, TalkStill
<1>3. PromptsInv'
  BY <1>1, PromptsStill DEF SamePrompts
<1>4. MessagesPay'
  BY BusyPays DEF Moved
<1>5. QED BY <1>1, <1>2, <1>3, <1>4 DEF CommanderInv, Moved

LEMMA KnownCase ==
    ASSUME CommanderInv, NEW id \in DOMAIN cases
    PROVE  /\ CaseOK(cases[id], runs) /\ cases[id] \in CaseRecords
           /\ cases[id].subject \in Subjects
           /\ cases[id].status \in {"open", "investigating", "resolved", "escalated"}
           /\ cases \in Seq(CaseRecords)
  BY DEF CommanderInv, CasesInv, CaseOK, CaseRecords

\* A case whose status alone is written: it must name an incident, unless it is new.
LEMMA CaseTurns ==
    ASSUME CommanderInv, UNCHANGED runs, NEW id \in DOMAIN cases,
           NEW status \in {"open", "investigating", "resolved", "escalated"},
           status # "open" => cases[id].incident # 0,
           SaveCase(id, [cases[id] EXCEPT !.status = status])
    PROVE  CasesInv' /\ CasesGrow(cases, cases')
<1> DEFINE c == [cases[id] EXCEPT !.status = status]
<1>1. /\ c \in CaseRecords /\ c.subject = cases[id].subject
      /\ c.incident = cases[id].incident /\ c.status = status
  BY KnownCase DEF CaseRecords
<1>2. SaveCase(id, c)
  OBVIOUS
<1> HIDE DEF c
<1>3. CaseOK(c, runs)
  BY <1>1, KnownCase DEF CaseOK
<1>4. QED BY <1>1, <1>2, <1>3, CaseSaved

LEMMA ResumeCaseStep ==
    ASSUME CommanderInv, NEW h \in Handlers, ResumeCaseWithHint(h)
    PROVE  CommanderInv'
<1> DEFINE id == desk.active
           c == cases[id]
           status == IF c.status = "escalated" THEN "investigating" ELSE c.status
<1>1. /\ handler[h].at = "route" /\ h \in Busy
      /\ UNCHANGED <<setup, prompt, session, runs, notice, answers, told>>
      /\ c.subject[1] = "workload" /\ Goto(h, "resolve", Command("investigate", c.subject[2]))
  BY KnownHandler DEF ResumeCaseWithHint, HandlerStep
<1>2. id \in DOMAIN cases
  BY DEF CommanderInv, CasesInv, ResumeCaseWithHint
<1>3. status \in {"open", "investigating", "resolved", "escalated"}
      /\ (status # "open" => c.incident # 0)
  BY <1>2, KnownCase DEF CaseOK
<1>4. SaveCase(id, [c EXCEPT !.status = status])
  BY DEF ResumeCaseWithHint
<1> HIDE DEF status
<1>5. CasesInv' /\ CasesGrow(cases, cases')
  BY <1>1, <1>2, <1>3, <1>4, CaseTurns
<1>6. RunsGrow(runs, runs')
  BY <1>1, RunsStill
<1>7. c.subject[2] \in Names
  BY <1>1, <1>2, KnownCase DEF Subjects, App, Names
<1>8. /\ Meant(Command("investigate", c.subject[2]))
      /\ Command("investigate", c.subject[2]).type = "investigate"
      /\ Command("investigate", c.subject[2]) \in Commands
  BY <1>7, Understood DEF Types, Meant
<1>9. CommandAt("resolve", Command("investigate", c.subject[2]))
  BY <1>8 DEF CommandAt
<1>10. "resolve" \in Ats \ {"idle", "bind", "join"} /\ "resolve" \notin HasCase
       /\ handler[h].at \notin HasCase
  BY <1>1 DEF Ats, HasCase
<1>11. Moved(h)
  BY <1>1, <1>5, <1>6, <1>8, <1>9, <1>10, GoesOn DEF Moved
<1>12. QED BY <1>1, <1>5, <1>11, HandlerAndCases

\* A subject's open case is its own, and a new one becomes it.
LEMMA OpenOrResumeCaseStep ==
    ASSUME CommanderInv, NEW h \in Handlers, OpenOrResumeCase(h)
    PROVE  CommanderInv'
<1> DEFINE cmd == handler[h].cmd
           subject == Subject(cmd)
           open == OpenCase(subject)
           new == [subject |-> subject, status |-> "open", incident |-> 0]
           id == IF open = {} THEN Len(cases) + 1 ELSE desk.latest[subject]
           at == IF cmd.type = "investigate" THEN "look" ELSE "post"
           x == [handler[h] EXCEPT !.case = id, !.at = at]
<1>1. /\ handler[h].at = "open" /\ h \in Busy
      /\ UNCHANGED <<setup, prompt, session, runs, notice, answers, told>>
  BY KnownHandler DEF OpenOrResumeCase, HandlerStep
<1>2. RunsGrow(runs, runs')
  BY <1>1, RunsStill
<1>3. CASE Done(h) /\ UNCHANGED <<cases, desk>>
  <2>1. CasesInv' /\ CasesGrow(cases, cases')
    BY <1>2, <1>3, CasesStill
  <2>2. QED BY <1>1, <1>2, <1>3, <2>1, IsDone, HandlerAndCases DEF Moved
<1>4. CASE /\ cases' = IF open # {} THEN cases ELSE Append(cases, new)
           /\ desk' = [latest |-> [desk.latest EXCEPT ![subject] = id], active |-> id]
           /\ handler' = [handler EXCEPT ![h].case = id, ![h].at = at]
  <2>1. Meant(cmd) /\ cmd.type \in {"deploy", "investigate", "app"}
    BY <1>1, KnownHandler DEF CommandAt
  <2>2. subject \in Subjects
    BY <2>1 DEF Subject, Subjects, App, Meant
  <2>3. /\ cases \in Seq(CaseRecords) /\ Len(cases) \in Nat /\ DOMAIN cases = 1..Len(cases)
        /\ desk.latest \in [Subjects -> Nat]
        /\ \A s \in Subjects : /\ desk.latest[s] \in 0..Len(cases)
                               /\ desk.latest[s] # 0 => cases[desk.latest[s]].subject = s
        /\ \A c \in DOMAIN cases : CaseOK(cases[c], runs)
    BY DEF CommanderInv, CasesInv
  <2>4. new \in CaseRecords /\ CaseOK(new, runs) /\ new.subject = subject /\ new.incident = 0
    BY <2>2, CommanderAssumption DEF CaseRecords, CaseOK, Incidents, Ghost
  <2> HIDE DEF new
  <2>5. open # {} => id \in DOMAIN cases /\ cases[id].subject = subject
    BY <2>2, <2>3 DEF OpenCase
  <2>6. /\ cases' \in Seq(CaseRecords) /\ Len(cases') \in Nat /\ Len(cases) <= Len(cases')
        /\ DOMAIN cases' = 1..Len(cases') /\ id \in DOMAIN cases' /\ cases'[id].subject = subject
        /\ \A c \in DOMAIN cases : cases'[c] = cases[c]
        /\ \A c \in DOMAIN cases' : cases'[c] = new \/ c \in DOMAIN cases
    <3>1. CASE open # {}
      BY <1>4, <2>3, <2>5, <3>1
    <3>2. CASE open = {}
      BY <1>4, <2>3, <2>4, <3>2
    <3>3. QED BY <3>1, <3>2
  <2> HIDE DEF id, subject, open
  <2>7. CasesGrow(cases, cases')
    BY <2>3, <2>6 DEF CasesGrow
  <2>a. id \in Nat
    BY <2>6
  <2>8. /\ desk' \in [latest: [Subjects -> Nat], active: Nat] /\ desk'.active = id
        /\ \A s \in Subjects : desk'.latest[s] = IF s = subject THEN id ELSE desk.latest[s]
    <3>1. [desk.latest EXCEPT ![subject] = id] \in [Subjects -> Nat]
      BY <2>3, <2>a
    <3>2. QED BY <1>4, <2>3, <2>a, <3>1
  <2>9. \A c \in DOMAIN cases' : CaseOK(cases'[c], runs')
    BY <1>1, <2>3, <2>4, <2>6
  <2>10. \A s \in Subjects : /\ desk'.latest[s] \in 0..Len(cases')
                             /\ desk'.latest[s] # 0 => cases'[desk'.latest[s]].subject = s
    <3> SUFFICES ASSUME NEW s \in Subjects
                 PROVE  /\ desk'.latest[s] \in 0..Len(cases')
                        /\ desk'.latest[s] # 0 => cases'[desk'.latest[s]].subject = s
      OBVIOUS
    <3>1. CASE s = subject
      BY <2>6, <2>8, <3>1
    <3>2. CASE s # subject
      <4>1. desk'.latest[s] = desk.latest[s] /\ desk.latest[s] \in 0..Len(cases)
        BY <2>3, <2>8, <3>2
      <4>2. desk.latest[s] # 0 => desk.latest[s] \in DOMAIN cases
        BY <2>3, <4>1
      <4>3. QED BY <2>3, <2>6, <4>1, <4>2
    <3>3. QED BY <3>1, <3>2
  <2>11. CasesInv'
    BY <2>6, <2>8, <2>9, <2>10 DEF CasesInv
  <2>12. at \in {"look", "post"} /\ (at = "look" <=> cmd.type = "investigate")
    OBVIOUS
  <2> HIDE DEF at
  <2>13. /\ x \in HandlerRecords /\ x.case = id /\ x.at = at /\ x.cmd = cmd
         /\ x.seen = handler[h].seen
    BY <2>a, <2>12, KnownHandler DEF HandlerRecords, Ats
  <2>14. handler' = [handler EXCEPT ![h] = x]
    BY <1>4, KnownHandler
  <2> HIDE DEF x
  <2>15. CommandAt(at, cmd)
    BY <2>1, <2>12 DEF CommandAt
  <2>16. HandlerOK(x, runs', cases')
    <3>1. x.seen \subseteq DOMAIN runs' /\ x.case \in 0..Len(cases')
      BY <1>1, <2>6, <2>13, KnownHandler DEF HandlerOK
    <3>2. x.at \in HasCase /\ x.at \notin Bounds /\ x.cmd.type \notin {"rollback", "ci"}
      BY <2>1, <2>12, <2>13 DEF HasCase, Bounds
    <3>3. x.case \in DOMAIN cases' /\ cases'[x.case].subject = Subject(x.cmd)
      BY <2>6, <2>13 DEF subject
    <3>4. QED BY <2>13, <2>15, <3>1, <3>2, <3>3 DEF HandlerOK
  <2>17. Moved(h)
    BY <1>2, <2>7, <2>11, <2>14, <2>16, <2>13, <2>12, HandlerMoves DEF Moved
  <2>18. QED BY <1>1, <2>7, <2>11, <2>17, HandlerAndCases
<1>5. QED BY <1>3, <1>4 DEF OpenOrResumeCase

\* A handler with its case, or of a rollback or a build, goes on to a run's incident.
LEMMA GoesOnWithCase ==
    ASSUME CommanderInv, RunsGrow(runs, runs'), CasesGrow(cases, cases'), CasesInv',
           NEW h \in Handlers, handler[h].at \in {"look", "post"},
           NEW at \in {"post", "bind", "join"}, NEW i \in Incidents,
           handler' = [handler EXCEPT ![h] = [handler[h] EXCEPT !.at = at, !.incident = i]],
           at = "join" => handler[h].cmd.type = "investigate",
           at \in Bounds => i # 0,
           at \in Bounds /\ handler[h].cmd.type = "investigate" =>
               i \in DOMAIN runs' /\ runs'[i].target = handler[h].cmd.target
    PROVE  Moved(h)
<1> DEFINE x == [handler[h] EXCEPT !.at = at, !.incident = i]
<1>1. /\ x \in HandlerRecords /\ x.at = at /\ x.incident = i /\ x.cmd = handler[h].cmd
      /\ x.case = handler[h].case /\ x.seen = handler[h].seen
  BY KnownHandler DEF HandlerRecords, Ats
<1>2. handler' = [handler EXCEPT ![h] = x]
  OBVIOUS
<1> HIDE DEF x
<1>3. HandlerOK(handler[h], runs', cases')
  BY KnownHandler, HandlerStays DEF CasesInv
<1>4. CommandAt(at, x.cmd)
  BY <1>1, KnownHandler DEF CommandAt
<1>5. HandlerOK(x, runs', cases')
  BY <1>1, <1>3, <1>4 DEF HandlerOK, HasCase, Bounds
<1>6. QED BY <1>1, <1>2, <1>5, HandlerMoves DEF Moved

LEMMA FindActiveRunStep ==
    ASSUME CommanderInv, NEW h \in Handlers, FindActiveRun(h)
    PROVE  CommanderInv'
<1> DEFINE cmd == handler[h].cmd
           c == cases[handler[h].case]
<1>1. /\ QuietData /\ handler[h].at = "look" /\ h \in Busy
      /\ UNCHANGED <<prompt, session, answers>>
  BY KnownHandler DEF FindActiveRun, HandlerStep, NoCases, QuietData
<1>2. Meant(cmd) /\ cmd.type = "investigate"
  BY <1>1, KnownHandler DEF CommandAt
<1>3. handler[h].case \in DOMAIN cases /\ c.subject = <<"workload", cmd.target>>
  BY <1>1, <1>2, KnownHandler DEF HandlerOK, HasCase, Subject
<1>4. ASSUME c.incident \in DOMAIN runs, runs[c.incident].status \in Active,
             Bound(h, "join", c.incident)
      PROVE  Moved(h)
  <2>1. c.incident \in Nat \ {0} /\ c.incident \in Incidents
    BY <1>3, <1>4, KnownCase DEF CommanderInv, RunsInv, CaseRecords
  <2>2. runs[c.incident].status \notin Ended
    BY <1>4 DEF Active, Ended
  <2>3. runs[c.incident].target = cmd.target
    BY <1>3, <2>1, <2>2, KnownCase DEF CaseOK
  <2>4. handler' = [handler EXCEPT ![h] =
                       [handler[h] EXCEPT !.at = "join", !.incident = c.incident]]
    BY <1>4, KnownHandler DEF Bound
  <2>5. runs' = runs
    BY <1>1 DEF QuietData
  <2>6. QED BY <1>1, <1>2, <1>4, <2>1, <2>3, <2>4, <2>5, QuietDataKept, GoesOnWithCase
<1>5. ASSUME Goto(h, "post", cmd) PROVE Moved(h)
  <2>1. handler' = [handler EXCEPT ![h] =
                       [handler[h] EXCEPT !.at = "post", !.incident = handler[h].incident]]
    BY <1>5, KnownHandler DEF Goto, HandlerRecords
  <2>2. handler[h].incident \in Incidents
    BY KnownHandler DEF HandlerRecords
  <2>3. QED BY <1>1, <2>1, <2>2, QuietDataKept, GoesOnWithCase DEF Bounds
<1>6. QED BY <1>1, <1>4, <1>5, HandlerAndSource DEF FindActiveRun

\* What is posted is in a mode of its own, and a diagnosis is of a name.
LEMMA PostedMode ==
    ASSUME NEW cmd, Meant(cmd), cmd.type # "delete"
    PROVE  /\ Mode(cmd) \in Modes /\ cmd.target \in Names \cup {Repo}
           /\ Mode(cmd) = "diagnose" => cmd.target \in Names
  BY DEF Mode, Modes, Meant, Commands, Types

LEMMA DispatchRunStep ==
    ASSUME CommanderInv, NEW h \in Handlers, DispatchRun(h)
    PROVE  CommanderInv'
<1> DEFINE cmd == handler[h].cmd
           new == [target |-> cmd.target, mode |-> Mode(cmd), status |-> "running"]
<1>1. /\ handler[h].at = "post" /\ h \in Busy
      /\ UNCHANGED <<setup, prompt, session, answers, cases, desk, notice, told>>
  BY KnownHandler DEF DispatchRun, HandlerStep, NoCases
<1>2. Meant(cmd) /\ cmd.type # "delete"
  BY <1>1, KnownHandler DEF CommandAt
<1>3. MaxRuns \in Nat /\ setup.runs \in 1..MaxRuns /\ Len(runs) \in Nat
      /\ DOMAIN runs = 1..Len(runs) /\ Len(runs) <= setup.runs
  BY CommanderAssumption DEF CommanderInv, RunsInv
<1>4. ASSUME RunsInv', RunsGrow(runs, runs'), Moved(h) PROVE CommanderInv'
  <2>1. CasesInv' /\ CasesGrow(cases, cases')
    BY <1>1, <1>4, CasesStill
  <2>2. NoticesInv' /\ TalkInv'
    BY <1>1, <1>4, <2>1, NoticesStill, TalkStill
  <2>3. PromptsInv'
    BY <1>1, <1>4, PromptsStill DEF SamePrompts
  <2>4. MessagesPay'
    BY <1>1, <1>4, BusyPays DEF Moved
  <2>5. QED BY <1>1, <1>4, <2>1, <2>2, <2>3, <2>4 DEF CommanderInv, Moved
<1>5. ASSUME RunsGrow(runs, runs') PROVE CasesInv' /\ CasesGrow(cases, cases')
  BY <1>1, <1>5, CasesStill
<1>6. ASSUME NEW i, NEW at, Bound(h, at, i)
      PROVE  handler' = [handler EXCEPT ![h] = [handler[h] EXCEPT !.at = at, !.incident = i]]
  BY <1>6, KnownHandler DEF Bound
<1>7. CASE Done(h) /\ UNCHANGED runs
  <2>1. RunsInv' /\ RunsGrow(runs, runs')
    BY <1>1, <1>7, RunsStill
  <2>2. QED BY <1>4, <1>5, <1>7, <2>1, IsDone DEF Moved
<1>8. CASE Len(runs) < setup.runs /\ runs' = Append(runs, new) /\ Bound(h, "bind", Len(runs) + 1)
  <2>1. new \in RunRecords /\ new.mode = Mode(cmd) /\ new.target = cmd.target
    BY <1>2, PostedMode DEF RunRecords, Active
  <2> HIDE DEF new
  <2>2. RunOK(new)
    BY <1>2, <2>1, PostedMode DEF RunOK
  <2>3. /\ RunsInv' /\ RunsGrow(runs, runs') /\ Len(runs) + 1 \in DOMAIN runs'
        /\ runs'[Len(runs) + 1] = new
    BY <1>1, <1>8, <2>2, RunStarts
  <2> DEFINE n == Len(runs) + 1
  <2>4. n \in Incidents /\ n # 0
    BY <1>3, <1>8 DEF Incidents, Ghost
  <2>5. n \in DOMAIN runs' /\ runs'[n].target = cmd.target /\ Bound(h, "bind", n)
    BY <1>8, <2>1, <2>3
  <2> HIDE DEF n
  <2>6. Moved(h)
    BY <1>1, <1>5, <1>6, <2>3, <2>4, <2>5, GoesOnWithCase
  <2>7. QED BY <1>4, <2>3, <2>6
<1>9. CASE \E i \in DOMAIN runs :
              /\ runs[i].target = cmd.target
              /\ IF Deduplicated(cmd) THEN Bound(h, "join", i) ELSE Bound(h, "bind", Ghost)
              /\ UNCHANGED runs
  <2>1. PICK i \in DOMAIN runs : /\ runs[i].target = cmd.target
                                 /\ IF Deduplicated(cmd) THEN Bound(h, "join", i)
                                                          ELSE Bound(h, "bind", Ghost)
                                 /\ UNCHANGED runs
    BY <1>9
  <2>2. RunsInv' /\ RunsGrow(runs, runs')
    BY <1>1, <2>1, RunsStill
  <2> DEFINE n == IF Deduplicated(cmd) THEN i ELSE Ghost
             at == IF Deduplicated(cmd) THEN "join" ELSE "bind"
  <2>3. n \in Incidents /\ n # 0
    BY <1>3 DEF Incidents, Ghost
  <2>4. cmd.type = "investigate" => n = i
    BY DEF Deduplicated
  <2>5. Bound(h, at, n) /\ at \in {"bind", "join"} /\ (at = "join" => cmd.type = "investigate")
    BY <2>1 DEF Deduplicated
  <2> HIDE DEF n, at
  <2>6. handler' = [handler EXCEPT ![h] = [handler[h] EXCEPT !.at = at, !.incident = n]]
    BY <1>6, <2>5
  <2>7. Moved(h)
    BY <1>1, <1>5, <2>1, <2>2, <2>3, <2>4, <2>5, <2>6, GoesOnWithCase
  <2>8. QED BY <1>4, <2>2, <2>7
<1>10. QED BY <1>7, <1>8, <1>9 DEF DispatchRun

LEMMA BindRunToCaseStep ==
    ASSUME CommanderInv, NEW h \in Handlers, BindRunToCase(h)
    PROVE  CommanderInv'
<1> DEFINE cmd == handler[h].cmd
           i == handler[h].incident
           id == handler[h].case
           c == [cases[id] EXCEPT !.status = "investigating", !.incident = i]
           reply == [type |-> cmd.type, target |-> cmd.target, incident |-> i]
<1>1. /\ handler[h].at \in {"bind", "join"} /\ h \in Busy /\ Done(h)
      /\ UNCHANGED <<setup, prompt, runs, notice, answers>>
      /\ told' = told \cup {reply}
  BY KnownHandler DEF BindRunToCase
<1>2. RunsInv' /\ RunsGrow(runs, runs')
  BY <1>1, RunsStill
<1>3. Meant(cmd) /\ cmd.type # "delete" /\ i # 0 /\ i \in Incidents
      /\ (cmd.type = "investigate" => i \in DOMAIN runs /\ runs[i].target = cmd.target)
  BY <1>1, KnownHandler DEF CommandAt, HandlerOK, HandlerRecords, Bounds
<1>4. CasesInv' /\ CasesGrow(cases, cases')
  <2>1. CASE UNCHANGED <<cases, desk>>
    BY <1>2, <2>1, CasesStill
  <2>2. CASE id # 0 /\ SaveCase(id, c)
    <3>1. id \in DOMAIN cases /\ cases[id].subject = Subject(cmd)
          /\ cmd.type \notin {"rollback", "ci"}
      BY <1>1, <2>2, KnownHandler DEF HandlerOK, HasCase
    <3>2. c \in CaseRecords /\ c.subject = Subject(cmd) /\ c.incident = i
          /\ c.subject = cases[id].subject
      BY <1>3, <3>1, KnownCase DEF CaseRecords
    <3> HIDE DEF c
    <3>3. cmd.type \in {"deploy", "investigate", "app"}
      BY <1>3, <3>1 DEF Meant, Commands, Types
    <3>4. c.subject[1] = "workload" => cmd.type = "investigate" /\ c.subject[2] = cmd.target
      BY <3>2, <3>3 DEF Subject, App
    <3>5. CaseOK(c, runs)
      BY <1>3, <3>2, <3>4 DEF CaseOK
    <3>6. QED BY <1>1, <1>3, <2>2, <3>1, <3>2, <3>5, CaseSaved
  <2>3. QED BY <2>1, <2>2 DEF BindRunToCase
<1>5. HandlersInv' /\ Busy' = Busy \ {h}
  BY <1>1, <1>2, <1>4, IsDone
<1>6. NoticesInv'
  BY <1>1, <1>2, <1>4, NoticesStill
<1>7. /\ SessionOK(session', runs) /\ session'.messages = session.messages
      /\ session'.prompts = session.prompts
  <2>1. session \in SessionRecords /\ SessionOK(session, runs)
    BY DEF CommanderInv, TalkInv, SessionOK
  <2>2. TopicAfter(cmd) \in Names \cup {"none"} /\ Mode(cmd) \in Modes /\ cmd \in Commands
    BY <1>3, <2>1, PostedMode DEF TopicAfter, Meant, SessionRecords
  <2>3. CASE \E run \in Linked(i) : Remember(cmd, run)
    <3>1. PICK run \in Linked(i) : Remember(cmd, run)
      BY <2>3
    <3>2. run \in 0..Len(runs) /\ run \in Nat
      BY <2>1, <3>1 DEF Linked, SessionOK, CommanderInv, RunsInv
    <3>3. /\ session' \in SessionRecords /\ session'.run = run
          /\ session'.messages = session.messages /\ session'.prompts = session.prompts
          /\ session'.draft = IF cmd.type = "deploy" THEN cmd ELSE session.draft
      BY <2>1, <2>2, <3>1, <3>2 DEF Remember, SessionRecords
    <3>4. QED BY <1>3, <2>1, <3>2, <3>3 DEF SessionOK
  <2>4. CASE handler[h].at = "join" /\ Joined(cmd, i)
    <3>1. cmd.type = "investigate"
      BY <1>1, <2>4, KnownHandler DEF CommandAt
    <3>2. i \in 0..Len(runs) /\ i \in Nat
      BY <1>3, <3>1 DEF CommanderInv, RunsInv
    <3>3. CASE UNCHANGED session
      BY <2>1, <3>3 DEF SessionOK
    <3>4. CASE session' = [session EXCEPT !.run = i, !.mode = "none", !.topic = TopicAfter(cmd)]
      <4>1. /\ session' \in SessionRecords /\ session'.run = i
            /\ session'.messages = session.messages /\ session'.prompts = session.prompts
            /\ session'.draft = session.draft
        BY <2>1, <2>2, <3>2, <3>4 DEF SessionRecords
      <4>2. QED BY <2>1, <3>2, <4>1 DEF SessionOK
    <3>5. QED BY <2>4, <3>3, <3>4 DEF Joined
  <2>5. QED BY <2>3, <2>4 DEF BindRunToCase
<1>8. TalkInv'
  <2>1. ReplyOK(reply, runs)
    BY <1>3 DEF ReplyOK
  <2>2. QED BY <1>1, <1>7, <2>1 DEF TalkInv, CommanderInv
<1>9. PromptsInv'
  BY <1>1, <1>2, <1>7, PromptsStill DEF SamePrompts
<1>10. MessagesPay'
  BY <1>1, <1>5, <1>7, BusyPays
<1>11. QED BY <1>1, <1>2, <1>4, <1>5, <1>6, <1>8, <1>9, <1>10 DEF CommanderInv

-----------------------------------------------------------------------------
(* "cancel", and the end of prompts *)

LEMMA Lists ==
    ASSUME CommanderInv, RunsGrow(runs, runs'), CasesGrow(cases, cases'), CasesInv',
           NEW h \in Handlers, handler[h].at \in {"list", "clear"}, RunsInv',
           NEW seen \in SUBSET DOMAIN runs',
           handler' = [handler EXCEPT ![h] = [handler[h] EXCEPT !.at = "clear", !.seen = seen]]
    PROVE  Moved(h)
<1> DEFINE x == [handler[h] EXCEPT !.at = "clear", !.seen = seen]
<1>1. seen \in SUBSET Nat
  BY DEF RunsInv
<1>2. /\ x \in HandlerRecords /\ x.at = "clear" /\ x.seen = seen /\ x.case = 0
      /\ x.cmd = handler[h].cmd
  BY <1>1, KnownHandler DEF HandlerRecords, HasCase, Ats
<1>3. handler' = [handler EXCEPT ![h] = x]
  OBVIOUS
<1> HIDE DEF x
<1>4. CommandAt(x.at, x.cmd)
  BY <1>2 DEF CommandAt
<1>5. HandlerOK(x, runs', cases')
  BY <1>2, <1>4 DEF HandlerOK, HasCase, Bounds, CasesInv
<1>6. QED BY <1>2, <1>3, <1>5, HandlerMoves DEF Moved

LEMMA ListPendingStep ==
    ASSUME CommanderInv, NEW h \in Handlers, ListPending(h)
    PROVE  CommanderInv'
<1>1. /\ QuietData /\ handler[h].at = "list" /\ h \in Busy
      /\ UNCHANGED <<prompt, session, answers>>
  BY KnownHandler DEF ListPending, HandlerStep, NoCases, QuietData
<1>2. CASE Done(h)
  BY <1>1, <1>2, QuietDataKept, IsDone, HandlerAndSource DEF Moved
<1> DEFINE last == IF session.run = 0 THEN {} ELSE {session.run}
           seen == IF handler[h].text = "cancel" THEN Awaiting \cup last ELSE Awaiting
<1>3. CASE handler' = [handler EXCEPT ![h].at = "clear", ![h].seen = seen]
  <2>1. last \subseteq DOMAIN runs
    BY DEF CommanderInv, TalkInv, SessionOK, RunsInv
  <2>2. seen \in SUBSET DOMAIN runs'
    BY <1>1, <2>1 DEF Awaiting, QuietData
  <2> HIDE DEF seen
  <2>3. handler' = [handler EXCEPT ![h] = [handler[h] EXCEPT !.at = "clear", !.seen = seen]]
    BY <1>3, KnownHandler
  <2>4. Moved(h)
    BY <1>1, <2>2, <2>3, QuietDataKept, Lists
  <2>5. QED BY <1>1, <2>4, HandlerAndSource
<1>4. QED BY <1>2, <1>3 DEF ListPending

LEMMA CancelNextStep ==
    ASSUME CommanderInv, NEW h \in Handlers, CancelNext(h)
    PROVE  CommanderInv'
<1>1. /\ handler[h].at = "clear" /\ h \in Busy
      /\ UNCHANGED <<setup, prompt, session, answers, cases, desk, notice, told>>
  BY KnownHandler DEF CancelNext, HandlerStep, NoCases
<1>2. PICK i \in handler[h].seen :
         /\ runs' = [runs EXCEPT ![i].status = IF @ \in Active THEN "cancelled" ELSE @]
         /\ handler' = [handler EXCEPT ![h].seen = @ \ {i}]
  BY DEF CancelNext
<1> DEFINE s == IF runs[i].status \in Active THEN "cancelled" ELSE runs[i].status
<1>3. i \in DOMAIN runs /\ runs[i] \in RunRecords
  BY KnownHandler DEF HandlerOK, CommanderInv, RunsInv, RunOK
<1>4. s \in Active \cup Ended /\ (runs[i].status \in Ended => s \in Ended)
  BY <1>3 DEF RunRecords, Active, Ended
<1>5. runs' = [runs EXCEPT ![i].status = s]
  BY <1>2
<1> HIDE DEF s
<1>6. RunsInv' /\ RunsGrow(runs, runs')
  BY <1>1, <1>3, <1>4, <1>5, RunTurns
<1>7. CasesInv' /\ CasesGrow(cases, cases')
  BY <1>1, <1>6, CasesStill
<1>8. NoticesInv' /\ TalkInv'
  BY <1>1, <1>6, <1>7, NoticesStill, TalkStill
<1>9. PromptsInv'
  BY <1>1, <1>6, PromptsStill DEF SamePrompts
<1>10. Moved(h)
  <2> DEFINE seen == handler[h].seen \ {i}
  <2>1. seen \in SUBSET DOMAIN runs'
    BY <1>6, KnownHandler DEF HandlerOK, RunsGrow
  <2>2. handler' = [handler EXCEPT ![h] = [handler[h] EXCEPT !.at = "clear", !.seen = seen]]
    BY <1>1, <1>2, KnownHandler DEF HandlerRecords
  <2> HIDE DEF seen
  <2>3. QED BY <1>1, <1>6, <1>7, <2>1, <2>2, Lists
<1>11. MessagesPay'
  BY <1>1, <1>10, BusyPays DEF Moved
<1>12. QED BY <1>1, <1>6, <1>7, <1>8, <1>9, <1>10, <1>11 DEF CommanderInv, Moved

LEMMA ClearedStep ==
    ASSUME CommanderInv, NEW h \in Handlers, Cleared(h)
    PROVE  CommanderInv'
<1>1. /\ handler[h].at = "clear" /\ h \in Busy /\ Done(h)
      /\ UNCHANGED <<setup, prompt, session, runs, notice, answers, told>>
  BY KnownHandler DEF Cleared, HandlerStep
<1>2. RunsGrow(runs, runs')
  BY <1>1, RunsStill
<1>3. CasesInv' /\ CasesGrow(cases, cases')
  <2>1. CASE UNCHANGED <<cases, desk>>
    BY <1>2, <2>1, CasesStill
  <2>2. CASE desk.active # 0
             /\ SaveCase(desk.active, [cases[desk.active] EXCEPT !.status = "open"])
    <3>1. desk.active \in DOMAIN cases
      BY <2>2 DEF CommanderInv, CasesInv
    <3>2. QED BY <1>1, <2>2, <3>1, CaseTurns
  <2>3. QED BY <2>1, <2>2 DEF Cleared
<1>4. QED BY <1>1, <1>2, <1>3, IsDone, HandlerAndCases DEF Moved

LEMMA ExpireStep ==
    ASSUME CommanderInv, NEW kind \in Kinds, Expire(kind)
    PROVE  CommanderInv'
<1>1. /\ QuietData /\ UNCHANGED <<handler, session, answers>> /\ kind \in Mapped
      /\ prompt' = [prompt EXCEPT ![kind] = NoPrompt]
  BY DEF Expire, NoCases, QuietData, Mapped
<1>2. HandlersInv' /\ Busy' = Busy
  BY <1>1, QuietDataKept, HandlersStill
<1>3. TalkInv'
  BY <1>1, QuietDataKept, TalkStill DEF QuietData
<1>4. PromptsInv'
  BY <1>1, QuietDataKept, PromptGone
<1>5. MessagesPay'
  BY <1>1, <1>2, NobodyPays DEF QuietData
<1>6. QED BY <1>1, <1>2, <1>3, <1>4, <1>5, QuietDataKept DEF CommanderInv

LEMMA ResetWebChatStep ==
    ASSUME CommanderInv, ResetWebChat
    PROVE  CommanderInv'
<1>1. /\ QuietData /\ UNCHANGED <<handler, answers>>
      /\ prompt' = [prompt EXCEPT !["source"] = NoPrompt]
      /\ session' = [session EXCEPT !.topic = "none"]
  BY DEF ResetWebChat, NoCases, QuietData
<1>2. session \in SessionRecords /\ SessionOK(session, runs)
  BY DEF CommanderInv, TalkInv, SessionOK
<1>3. /\ session' \in SessionRecords /\ session'.messages = session.messages
      /\ session'.prompts = session.prompts /\ session'.draft = session.draft
      /\ session'.run = session.run
  BY <1>1, <1>2 DEF SessionRecords
<1>4. SessionOK(session', runs)
  BY <1>2, <1>3 DEF SessionOK
<1>5. HandlersInv' /\ Busy' = Busy
  BY <1>1, QuietDataKept, HandlersStill
<1>6. TalkInv'
  BY <1>1, <1>4, QuietDataKept, TalkStill DEF QuietData
<1>7. PromptsInv'
  BY <1>1, <1>3, QuietDataKept, SourceGone, SourceSet DEF SamePrompts
<1>8. MessagesPay'
  BY <1>1, <1>3, <1>5, NobodyPays DEF QuietData
<1>9. QED BY <1>1, <1>5, <1>6, <1>7, <1>8, QuietDataKept DEF CommanderInv

-----------------------------------------------------------------------------
(* The runs and their updates *)

LEMMA OfTheRuns ==
    ASSUME CommanderInv, RunStep, RunsInv', RunsGrow(runs, runs'), NoticesInv',
           session' = session \/ SessionOK(session', runs),
           session'.messages = session.messages, session'.prompts = session.prompts,
           \/ UNCHANGED prompt
           \/ \E p \in PromptRecords :
                 SourceOK(p, runs') /\ prompt' = [prompt EXCEPT !["source"] = p]
    PROVE  CommanderInv'
<1>1. UNCHANGED <<setup, handler, cases, desk, answers, told>>
  BY DEF RunStep
<1>2. CasesInv' /\ CasesGrow(cases, cases')
  BY <1>1, CasesStill
<1>3. HandlersInv' /\ Busy' = Busy
  BY <1>1, <1>2, HandlersStill
<1>4. TalkInv'
  BY <1>1, TalkStill
<1>5. PromptsInv'
  BY <1>1, PromptsStill, SourceSet DEF SamePrompts
<1>6. MessagesPay'
  BY <1>1, <1>3, NobodyPays
<1>7. QED BY <1>1, <1>2, <1>3, <1>4, <1>5, <1>6 DEF CommanderInv

\* A run of which nobody is told turns, or starts.
LEMMA QuietTurn ==
    ASSUME CommanderInv, RunStep, UNCHANGED <<prompt, session, notice>>,
           RunsInv', RunsGrow(runs, runs')
    PROVE  CommanderInv'
<1>1. CasesGrow(cases, cases')
  BY CasesStill DEF RunStep
<1>2. NoticesInv'
  BY <1>1, NoticesStill
<1>3. QED BY <1>2, OfTheRuns

LEMMA RunSteps ==
    ASSUME CommanderInv, NEW i,
           ForwardHilAction(i) \/ RunSuspends(i) \/ GithubWebhook
    PROVE  CommanderInv'
<1>1. UNCHANGED setup /\ RunStep /\ UNCHANGED <<prompt, session, notice>>
  BY DEF ForwardHilAction, RunSuspends, GithubWebhook, RunStep
<1>2. ASSUME i \in DOMAIN runs, runs[i].status \in Active, NEW s \in Active \cup Ended,
             runs' = [runs EXCEPT ![i].status = s]
      PROVE  CommanderInv'
  <2>1. runs[i].status \notin Ended
    BY <1>2 DEF Active, Ended
  <2>2. QED BY <1>1, <1>2, <2>1, RunTurns, QuietTurn
<1>3. CASE ForwardHilAction(i)
  BY <1>2, <1>3 DEF ForwardHilAction, Active, Ended
<1>4. CASE RunSuspends(i)
  BY <1>2, <1>4 DEF RunSuspends, Active
<1>5. CASE GithubWebhook
  <2> DEFINE r == [target |-> Repo, mode |-> "ci", status |-> "running"]
  <2>1. RunOK(r)
    BY DEF RunOK, RunRecords, Modes, Active
  <2>2. runs' = Append(runs, r) /\ Len(runs) < setup.runs
    BY <1>5 DEF GithubWebhook
  <2> HIDE DEF r
  <2>3. QED BY <1>1, <2>1, <2>2, RunStarts, QuietTurn
<1>6. QED BY <1>3, <1>4, <1>5

LEMMA SourceRequiredStep ==
    ASSUME CommanderInv, NEW i, SourceRequired(i)
    PROVE  CommanderInv'
<1> DEFINE cmd == Command("investigate", runs[i].target)
           p == [id |-> SourcePrompt, run |-> i, cmd |-> cmd]
<1>1. /\ RunStep /\ UNCHANGED <<setup, cases, desk, notice>> /\ i \in DOMAIN runs
      /\ runs[i].status = "running" /\ runs[i].mode = "diagnose"
      /\ runs' = [runs EXCEPT ![i].status = "awaiting"]
      /\ prompt' = [prompt EXCEPT !["source"] = p]
      /\ session' = [session EXCEPT !.run = i, !.mode = "diagnose"]
  BY DEF SourceRequired, RunStep
<1>2. RunsInv' /\ RunsGrow(runs, runs')
  BY <1>1, RunTurns DEF Active, Ended
<1>3. CasesGrow(cases, cases')
  BY <1>1, <1>2, CasesStill
<1>4. NoticesInv'
  BY <1>1, <1>2, <1>3, NoticesStill
<1>5. i \in 1..Len(runs) /\ Len(runs) \in Nat /\ i \in Nat /\ runs[i].target \in Names
  BY <1>1 DEF CommanderInv, RunsInv, RunOK
<1>6. Meant(cmd) /\ cmd.type = "investigate" /\ cmd \in Commands
  BY <1>5, Understood DEF Types, Meant
<1> HIDE DEF cmd
<1>7. p \in PromptRecords /\ p.id = SourcePrompt /\ p.run = i /\ p.cmd = cmd
  BY <1>5, <1>6, CommanderAssumption DEF PromptRecords, SourcePrompt
<1>8. p.run \in 0..Len(runs')
  BY <1>2, <1>5, <1>7 DEF RunsGrow
<1> HIDE DEF p
<1>9. SourceOK(p, runs')
  BY <1>6, <1>7, <1>8 DEF SourceOK
<1>10. /\ SessionOK(session', runs) /\ session'.messages = session.messages
       /\ session'.prompts = session.prompts
  <2>1. session \in SessionRecords /\ SessionOK(session, runs)
    BY DEF CommanderInv, TalkInv, SessionOK
  <2>2. /\ session' \in SessionRecords /\ session'.messages = session.messages
        /\ session'.prompts = session.prompts /\ session'.draft = session.draft
        /\ session'.run = i
    BY <1>1, <1>5, <2>1 DEF SessionRecords, Modes
  <2>3. QED BY <1>5, <2>1, <2>2 DEF SessionOK
<1>11. QED BY <1>1, <1>2, <1>4, <1>7, <1>9, <1>10, OfTheRuns

\* A new update of a run.
LEMMA UpdateKeeps ==
    ASSUME CommanderInv, RunsGrow(runs, runs'), CasesGrow(cases, cases'), RunsInv',
           NEW n \in Notices, NEW i \in DOMAIN runs, NEW kind \in {"step", "ended"},
           Update(n, i, kind), kind = "ended" => runs'[i].status \in Ended
    PROVE  NoticesInv'
<1> DEFINE x == [NoNotice EXCEPT !.at = "deliver", !.run = i, !.status = kind]
<1>1. i \in Nat /\ i \in DOMAIN runs'
  BY DEF CommanderInv, RunsInv, RunsGrow
<1>2. x \in NoticeRecords /\ x.at = "deliver" /\ x.run = i /\ x.status = kind
  BY <1>1 DEF NoNotice, NoticeRecords
<1>3. notice' = [notice EXCEPT ![n] = x]
  BY DEF Update
<1> HIDE DEF x
<1>4. NoticeOK(x, runs', cases')
  BY <1>1, <1>2 DEF NoticeOK
<1>5. QED BY <1>3, <1>4, NoticeMoves

LEMMA RunEndsStep ==
    ASSUME CommanderInv, NEW i, RunEnds(i)
    PROVE  CommanderInv'
<1>1. /\ RunStep /\ UNCHANGED <<setup, cases, desk, prompt, session>> /\ i \in DOMAIN runs
      /\ runs[i].status = "running"
  BY DEF RunEnds, RunStep
<1>2. PICK s \in {"succeeded", "failed"} : runs' = [runs EXCEPT ![i].status = s]
  BY DEF RunEnds
<1>3. RunsInv' /\ RunsGrow(runs, runs')
  BY <1>1, <1>2, RunTurns DEF Active, Ended
<1>4. CasesGrow(cases, cases')
  BY <1>1, <1>3, CasesStill
<1>5. runs'[i].status \in Ended
  BY <1>1, <1>2 DEF CommanderInv, RunsInv, RunOK, RunRecords, Ended
<1>6. NoticesInv'
  BY <1>1, <1>3, <1>4, <1>5, UpdateKeeps, NoticesStill DEF RunEnds
<1>7. QED BY <1>1, <1>3, <1>6, OfTheRuns

LEMMA AgentStepStep ==
    ASSUME CommanderInv, NEW i, AgentStep(i)
    PROVE  CommanderInv'
<1>1. /\ RunStep /\ UNCHANGED <<setup, cases, desk, prompt, session, runs>> /\ i \in DOMAIN runs
      /\ \E n \in Notices : Update(n, i, "step")
  BY DEF AgentStep, RunStep
<1>2. RunsInv' /\ RunsGrow(runs, runs')
  BY <1>1, RunsStill
<1>3. CasesGrow(cases, cases')
  BY <1>1, <1>2, CasesStill
<1>4. NoticesInv'
  BY <1>1, <1>2, <1>3, UpdateKeeps
<1>5. QED BY <1>1, <1>2, <1>4, OfTheRuns

\* A step of an update's handling.
LEMMA NoticeKeeps ==
    ASSUME CommanderInv, UNCHANGED <<setup, prompt, handler, runs, answers, told>>,
           CasesInv', CasesGrow(cases, cases'), NEW n \in Notices, NEW x,
           notice' = [notice EXCEPT ![n] = x], NoticeOK(x, runs', cases'),
           session' = session \/ SessionOK(session', runs),
           session'.messages = session.messages, session'.prompts = session.prompts
    PROVE  CommanderInv'
<1>1. RunsInv' /\ RunsGrow(runs, runs')
  BY RunsStill
<1>2. HandlersInv' /\ Busy' = Busy
  BY <1>1, HandlersStill
<1>3. NoticesInv'
  BY <1>1, NoticeMoves
<1>4. TalkInv'
  BY <1>1, TalkStill
<1>5. PromptsInv'
  BY <1>1, PromptsStill DEF SamePrompts
<1>6. MessagesPay'
  BY <1>2, NobodyPays
<1>7. QED BY <1>1, <1>2, <1>3, <1>4, <1>5, <1>6 DEF CommanderInv

LEMMA KnownNotice ==
    ASSUME CommanderInv, NEW n \in Notices
    PROVE  /\ NoticeOK(notice[n], runs, cases) /\ notice[n] \in NoticeRecords
           /\ notice \in [Notices -> NoticeRecords]
  BY DEF CommanderInv, NoticesInv

LEMMA NothingToTell == \A rs, cs : NoticeOK(NoNotice, rs, cs)
  BY DEF NoticeOK, NoNotice, NoticeRecords

LEMMA DeliverStep ==
    ASSUME CommanderInv, NEW n \in Notices, DeliverWebChatUpdate(n)
    PROVE  CommanderInv'
<1> DEFINE x == [notice[n] EXCEPT !.at = "read"]
<1>1. /\ notice[n].at = "deliver" /\ UNCHANGED <<setup, prompt, handler, runs, answers, told>>
      /\ UNCHANGED <<cases, desk>>
      /\ session' = [session EXCEPT !.run = notice[n].run, !.mode = runs[notice[n].run].mode]
  BY DEF DeliverWebChatUpdate, NoticeStep
<1>2. /\ x \in NoticeRecords /\ x.at = "read" /\ x.run = notice[n].run
      /\ x.status = notice[n].status
  BY KnownNotice DEF NoticeRecords
<1>3. notice' = [notice EXCEPT ![n] = x]
  BY KnownNotice DEF DeliverWebChatUpdate
<1> HIDE DEF x
<1>4. NoticeOK(x, runs, cases)
  BY <1>1, <1>2, KnownNotice DEF NoticeOK
<1>5. CasesInv' /\ CasesGrow(cases, cases')
  BY <1>1, RunsStill, CasesStill
<1>6. notice[n].run \in DOMAIN runs
  BY <1>1, KnownNotice DEF NoticeOK
<1>7. /\ SessionOK(session', runs) /\ session'.messages = session.messages
      /\ session'.prompts = session.prompts
  <2>1. session \in SessionRecords /\ SessionOK(session, runs)
    BY DEF CommanderInv, TalkInv, SessionOK
  <2>2. /\ notice[n].run \in 0..Len(runs) /\ notice[n].run \in Nat
        /\ runs[notice[n].run].mode \in Modes
    BY <1>6 DEF CommanderInv, RunsInv, RunOK, RunRecords
  <2>3. /\ session' \in SessionRecords /\ session'.messages = session.messages
        /\ session'.prompts = session.prompts /\ session'.draft = session.draft
        /\ session'.run = notice[n].run
    BY <1>1, <2>1, <2>2 DEF SessionRecords
  <2>4. QED BY <2>1, <2>2, <2>3 DEF SessionOK
<1>8. NoticeOK(x, runs', cases')
  BY <1>1, <1>4
<1>9. QED BY <1>1, <1>3, <1>5, <1>7, <1>8, NoticeKeeps

LEMMA OnRunUpdateStep ==
    ASSUME CommanderInv, NEW n \in Notices, OnRunUpdate(n)
    PROVE  CommanderInv'
<1> DEFINE at == IF notice[n].status = "ended" THEN "sync" ELSE "evidence"
           x == [notice[n] EXCEPT !.case = desk.active, !.at = at]
<1>1. /\ notice[n].at = "read" /\ UNCHANGED <<setup, prompt, handler, runs, answers, told>>
      /\ UNCHANGED <<session, cases, desk>>
  BY DEF OnRunUpdate, NoticeStep
<1>2. CasesInv' /\ CasesGrow(cases, cases')
  BY <1>1, RunsStill, CasesStill
<1>3. CASE notice' = [notice EXCEPT ![n] = NoNotice]
  BY <1>1, <1>2, <1>3, NothingToTell, NoticeKeeps
<1>4. CASE /\ desk.active \in DOMAIN cases
           /\ notice' = [notice EXCEPT ![n].case = desk.active, ![n].at = at]
  <2>1. desk.active \in Nat
    BY DEF CommanderInv, CasesInv
  <2>2. /\ x \in NoticeRecords /\ x.at = at /\ x.run = notice[n].run
        /\ x.status = notice[n].status /\ x.case = desk.active
    BY <2>1, KnownNotice DEF NoticeRecords
  <2>3. notice' = [notice EXCEPT ![n] = x]
    BY <1>4, KnownNotice
  <2>4. (at = "sync" /\ notice[n].status = "ended") \/ at = "evidence"
    OBVIOUS
  <2> HIDE DEF x, at
  <2>5. NoticeOK(x, runs, cases)
    BY <1>1, <1>4, <2>2, <2>4, KnownNotice DEF NoticeOK
  <2>6. NoticeOK(x, runs', cases')
    BY <1>1, <2>5
  <2>7. QED BY <1>1, <1>2, <2>3, <2>6, NoticeKeeps
<1>5. QED BY <1>3, <1>4 DEF OnRunUpdate

LEMMA SyncCaseStep ==
    ASSUME CommanderInv, NEW n \in Notices, SyncCase(n)
    PROVE  CommanderInv'
<1> DEFINE id == notice[n].case
           i == notice[n].run
           status == IF runs[i].status = "succeeded" THEN "resolved" ELSE "escalated"
           c == [cases[id] EXCEPT !.status = status, !.incident = i]
           x == [notice[n] EXCEPT !.at = "evidence"]
<1>1. /\ notice[n].at = "sync" /\ UNCHANGED <<setup, prompt, handler, runs, answers, told>>
      /\ UNCHANGED session /\ SaveCase(id, c)
  BY DEF SyncCase, NoticeStep
<1>2. i \in DOMAIN runs /\ runs[i].status \in Ended /\ id \in DOMAIN cases
  BY <1>1, KnownNotice DEF NoticeOK
<1>3. i # 0 /\ i \in Incidents
  BY <1>2, CommanderAssumption DEF CommanderInv, RunsInv, Incidents, Ghost
<1>4. status \in {"resolved", "escalated"}
  OBVIOUS
<1> HIDE DEF status
<1>5. /\ c \in CaseRecords /\ c.subject = cases[id].subject /\ c.incident = i
      /\ c.status = status
  BY <1>2, <1>3, <1>4, KnownCase DEF CaseRecords
<1> HIDE DEF c
<1>6. CaseOK(c, runs)
  BY <1>2, <1>3, <1>5 DEF CaseOK
<1>7. CasesInv' /\ CasesGrow(cases, cases')
  BY <1>1, <1>2, <1>3, <1>5, <1>6, CaseSaved
<1>8. /\ x \in NoticeRecords /\ x.at = "evidence" /\ x.run = i /\ x.case = id
  BY KnownNotice DEF NoticeRecords
<1>9. notice' = [notice EXCEPT ![n] = x]
  BY KnownNotice DEF SyncCase
<1> HIDE DEF x
<1>10. NoticeOK(x, runs, cases)
  BY <1>2, <1>8 DEF NoticeOK
<1>11. NoticeOK(x, runs', cases')
  BY <1>1, <1>7, <1>10, RunsStill, NoticeStays
<1>12. QED BY <1>1, <1>7, <1>9, <1>11, NoticeKeeps

LEMMA ReadCaseStep ==
    ASSUME CommanderInv, NEW n \in Notices, ReadCase(n)
    PROVE  CommanderInv'
<1> DEFINE c == cases[notice[n].case]
           x == [notice[n] EXCEPT !.at = "write", !.status = c.status]
<1>1. /\ notice[n].at = "evidence" /\ UNCHANGED <<setup, prompt, handler, runs, answers, told>>
      /\ UNCHANGED <<session, cases, desk>>
  BY DEF ReadCase, NoticeStep
<1>2. CasesInv' /\ CasesGrow(cases, cases')
  BY <1>1, RunsStill, CasesStill
<1>3. CASE notice' = [notice EXCEPT ![n] = NoNotice]
  BY <1>1, <1>2, <1>3, NothingToTell, NoticeKeeps
<1>4. CASE notice' = [notice EXCEPT ![n].at = "write", ![n].status = c.status]
  <2>1. notice[n].case \in DOMAIN cases /\ notice[n].run \in DOMAIN runs
    BY <1>1, KnownNotice DEF NoticeOK
  <2>2. c.status \in {"open", "investigating", "resolved", "escalated"}
        /\ (c.status # "open" => c.incident # 0)
    BY <2>1, KnownCase DEF CaseOK
  <2>3. /\ x \in NoticeRecords /\ x.at = "write" /\ x.run = notice[n].run
        /\ x.status = c.status /\ x.case = notice[n].case
    BY <2>2, KnownNotice DEF NoticeRecords
  <2>4. notice' = [notice EXCEPT ![n] = x]
    BY <1>4, KnownNotice
  <2> HIDE DEF x
  <2>5. NoticeOK(x, runs, cases)
    BY <2>1, <2>2, <2>3 DEF NoticeOK
  <2>6. NoticeOK(x, runs', cases')
    BY <1>1, <2>5
  <2>7. QED BY <1>1, <1>2, <2>4, <2>6, NoticeKeeps
<1>5. QED BY <1>3, <1>4 DEF ReadCase

LEMMA WriteEvidenceStep ==
    ASSUME CommanderInv, NEW n \in Notices, WriteEvidence(n)
    PROVE  CommanderInv'
<1>1. /\ notice[n].at = "write" /\ UNCHANGED <<setup, prompt, handler, runs, answers, told>>
      /\ UNCHANGED session /\ notice' = [notice EXCEPT ![n] = NoNotice]
      /\ SaveCase(notice[n].case, [cases[notice[n].case] EXCEPT !.status = notice[n].status])
  BY DEF WriteEvidence, NoticeStep
<1>2. /\ notice[n].case \in DOMAIN cases
      /\ notice[n].status \in {"open", "investigating", "resolved", "escalated"}
      /\ notice[n].status # "open" => cases[notice[n].case].incident # 0
  BY <1>1, KnownNotice DEF NoticeOK
<1>3. CasesInv' /\ CasesGrow(cases, cases')
  BY <1>1, <1>2, CaseTurns
<1>4. QED BY <1>1, <1>3, NothingToTell, NoticeKeeps

-----------------------------------------------------------------------------
(* The invariant holds, and what it implies *)

LEMMA InitInv == Init => CommanderInv
<1> SUFFICES ASSUME Init PROVE CommanderInv
  OBVIOUS
<1>1. setup \in Setups /\ setup.runs \in Nat /\ setup.messages \in Nat /\ MaxRuns \in Nat
  BY CommanderAssumption DEF Init
<1>2. RunsInv
  BY <1>1 DEF Init, RunsInv
<1>3. CasesInv
  BY DEF Init, CasesInv
<1>4. Idle \in HandlerRecords /\ Idle.at = "idle" /\ Idle.case = 0 /\ Idle.seen = {}
  BY <1>1 DEF Idle, HandlerRecords, Ats, Incidents, Ghost
<1>5. CommandAt("idle", Idle.cmd)
  BY DEF CommandAt
<1>6. HandlerOK(Idle, runs, cases)
  BY <1>4, <1>5 DEF HandlerOK, HasCase, Bounds, Init
<1>7. HandlersInv
  BY <1>4, <1>6 DEF Init, HandlersInv
<1>8. NoNotice \in NoticeRecords
  BY DEF NoNotice, NoticeRecords
<1>9. NoticesInv
  BY <1>8, NothingToTell DEF Init, NoticesInv
<1>10. TalkInv
  BY DEF Init, TalkInv, SessionOK, SessionRecords
<1>11. NoPrompt \in PromptRecords /\ NoPrompt.id = 0 /\ NoPrompt.run = 0
  BY DEF NoPrompt, PromptRecords
<1>12. PromptsInv
  BY <1>11 DEF Init, PromptsInv, SourceOK, PromptOK, OneAnswerPerPrompt, Mapped, Kinds
<1>13. MessagesPay
  <2>1. Busy = {}
    BY <1>4 DEF Busy, Init
  <2>2. QED BY <1>1, <2>1, FS_EmptySet DEF MessagesPay, Init
<1>14. QED BY <1>1, <1>2, <1>3, <1>7, <1>9, <1>10, <1>12, <1>13 DEF CommanderInv

LEMMA NextInv == CommanderInv /\ [Next]_vars => CommanderInv'
<1> SUFFICES ASSUME CommanderInv, [Next]_vars PROVE CommanderInv'
  OBVIOUS
<1>1. ASSUME NEW h \in Handlers, NEW text \in Texts, AskPending(h, text) \/ Say(h, text)
      PROVE  CommanderInv'
  BY <1>1, AskPendingStep, SayStep
<1>2. ASSUME NEW h \in Handlers, NEW kind \in Kinds, Press(h, kind) PROVE CommanderInv'
  BY <1>2, PressStep
<1>3. ASSUME NEW h \in Handlers, PressSuggest(h) \/ Handle(h) PROVE CommanderInv'
  BY <1>3, PressSuggestStep, AnswerSourceStep, AnswerClarificationStep, RouteMessageStep,
     ResumeCaseStep, DeployChoiceStep, CheckNamespaceStep, ResolveWorkloadStep,
     LoadAppReviewStep, DeleteStep, OpenOrResumeCaseStep, FindActiveRunStep, DispatchRunStep,
     BindRunToCaseStep, ListPendingStep, CancelNextStep, ClearedStep
  DEF Handle
<1>4. ASSUME NEW kind \in Kinds, Expire(kind) PROVE CommanderInv'
  BY <1>4, ExpireStep
<1>5. CASE ResetWebChat
  BY <1>5, ResetWebChatStep
<1>6. CASE GithubWebhook
  BY <1>6, RunSteps
<1>7. ASSUME NEW i, ForwardHilAction(i) \/ RunSuspends(i) \/ SourceRequired(i) \/ RunEnds(i)
                    \/ AgentStep(i)
      PROVE  CommanderInv'
  BY <1>7, RunSteps, SourceRequiredStep, RunEndsStep, AgentStepStep
<1>8. ASSUME NEW n \in Notices, Notify(n) PROVE CommanderInv'
  BY <1>8, DeliverStep, OnRunUpdateStep, SyncCaseStep, ReadCaseStep, WriteEvidenceStep
  DEF Notify
<1>9. CASE UNCHANGED vars
  <2>1. QuietData /\ UNCHANGED <<prompt, handler, session, answers>>
    BY <1>9 DEF vars, QuietData
  <2>2. HandlersInv' /\ Busy' = Busy
    BY <2>1, QuietDataKept, HandlersStill
  <2>3. TalkInv' /\ PromptsInv'
    BY <2>1, QuietDataKept, TalkStill, PromptsStill DEF QuietData, SamePrompts
  <2>4. MessagesPay'
    BY <2>1, <2>2, NobodyPays DEF QuietData
  <2>5. QED BY <2>2, <2>3, <2>4, <2>1, QuietDataKept DEF CommanderInv
<1>10. QED BY <1>1, <1>2, <1>3, <1>4, <1>5, <1>6, <1>7, <1>8, <1>9 DEF Next

LEMMA Invariant == Spec => []CommanderInv
  BY InitInv, NextInv, PTL DEF Spec

\* A command that is not meant for anything is none, so that the parts imply the types.
LEMMA InvImpliesTypeOK == CommanderInv => TypeOK
<1> SUFFICES ASSUME CommanderInv PROVE TypeOK
  OBVIOUS
<1>1. RunsInv /\ CasesInv /\ HandlersInv /\ NoticesInv /\ TalkInv /\ PromptsInv
  BY DEF CommanderInv
<1>2. Len(runs) \in Nat /\ Len(runs) <= MaxRuns /\ MaxRuns \in Nat
  BY <1>1, CommanderAssumption DEF CommanderInv, RunsInv
<1>3. 1..session.prompts \subseteq Prompts
  BY PaidNumbers DEF Prompts
<1>4. \A k \in Kinds :
          /\ prompt[k].id \in IF k = "source" THEN {0, SourcePrompt} ELSE {0} \cup Prompts
          /\ prompt[k].run \in 0..MaxRuns
          /\ prompt[k].cmd \in Commands \cup {NoCmd}
          /\ k = "namespace" => ~prompt[k].cmd.create
  <2>1. ASSUME NEW k \in Kinds PROVE prompt[k] \in PromptRecords
    BY <1>1 DEF PromptsInv
  <2>2. prompt["source"].id \in {0, SourcePrompt} /\ prompt["source"].run \in 0..MaxRuns
    BY <1>1, <1>2 DEF PromptsInv, SourceOK
  <2>3. ASSUME NEW k \in Mapped
        PROVE  /\ prompt[k].id \in {0} \cup Prompts /\ prompt[k].run \in 0..MaxRuns
               /\ k = "namespace" => ~prompt[k].cmd.create
    <3>1. PromptOK(k, prompt[k], session.prompts, answers)
      BY <1>1 DEF PromptsInv
    <3>2. QED BY <1>2, <1>3, <3>1 DEF PromptOK, Asked, NoPrompt, NoCmd
  <2>4. \A k \in Kinds : k = "source" \/ k \in Mapped
    BY DEF Mapped
  <2>5. \A k \in Kinds : prompt[k].cmd \in Commands \cup {NoCmd}
    BY <2>1 DEF PromptRecords
  <2>6. "source" # "namespace" /\ "source" \notin Mapped
    BY DEF Mapped
  <2>7. QED BY <2>2, <2>3, <2>4, <2>5, <2>6
<1>5. \A h \in Handlers :
          /\ handler[h].at \in Ats /\ handler[h].cmd \in Commands \cup {NoCmd}
          /\ handler[h].case \in 0..Len(cases) /\ handler[h].incident \in Incidents
          /\ handler[h].seen \subseteq DOMAIN runs
  BY <1>1 DEF HandlersInv, HandlerOK, HandlerRecords
<1>6. /\ session.draft \in Commands \cup {NoCmd} /\ session.run \in 0..Len(runs)
      /\ session.mode \in {"none"} \cup Modes
      /\ {session.repo, session.reviewed} \subseteq BOOLEAN
      /\ session.topic \in Names \cup {"none"}
  BY <1>1 DEF TalkInv, SessionOK, SessionRecords
<1>7. runs \in Seq([target: Names \cup {Repo}, mode: Modes,
                    status: Active \cup {"succeeded", "failed", "cancelled"}])
  BY <1>1 DEF RunsInv, RunRecords, Ended
<1>8. /\ cases \in Seq([subject: Subjects, incident: Incidents,
                        status: {"open", "investigating", "resolved", "escalated"}])
      /\ desk.latest \in [Subjects -> 0..Len(cases)] /\ desk.active \in 0..Len(cases)
  BY <1>1 DEF CasesInv, CaseRecords
<1>9. \A n \in Notices : notice[n].at \in {"idle", "deliver", "read", "sync", "evidence", "write"}
  BY <1>1 DEF NoticesInv, NoticeRecords
<1>10. QED BY <1>4, <1>5, <1>6, <1>7, <1>8, <1>9 DEF CommanderInv, TypeOK, Ats

\* However messages, buttons, expiries and run updates interleave, on every platform and for
\* every choice of what the operator may say, the chat's state is well-formed: no prompt is
\* numbered beyond the messages that paid for it, and nobody refers to a run or a case that
\* is not there (Commander!TypeOK).
THEOREM TypesAreKept == Spec => []TypeOK
  BY Invariant, InvImpliesTypeOK, PTL

\* A prompt that is kept in a map is answered at most once, by a text or by a button
\* (delete-choice.ts, investigate-choice.ts, deploy-choice.ts, namespace-prompt.ts and
\* hil-suggest-pending.ts remove the entry before they await anything).
THEOREM PromptsAreAnsweredOnce == Spec => []OneAnswerPerPrompt
<1>1. CommanderInv => OneAnswerPerPrompt
  BY DEF CommanderInv, PromptsInv
<1>2. QED BY Invariant, <1>1, PTL

\* Whoever is told that a workload is investigated is told of a run of that workload, and a
\* workload's case under investigation names a run, although updates of other runs reach
\* fresh cases and evidence is written back with the status it was read with (router.ts,
\* case-manager.ts, case-run-sync.ts).
THEOREM InvestigationsHaveRuns == Spec => []InvestigationsAreReal
<1>1. CommanderInv => InvestigationsAreReal
  BY DEF CommanderInv, CasesInv, CaseOK, TalkInv, ReplyOK, InvestigationsAreReal
<1>2. QED BY Invariant, <1>1, PTL

=============================================================================
