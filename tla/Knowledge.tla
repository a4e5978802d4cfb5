------------------------------ MODULE Knowledge -------------------------------
(***************************************************************************)
(* What the bot learns: the table of playbooks of the RAG platform         *)
(* (sre-agent-platform/rag), which finished runs teach                     *)
(* (orchestrator/src/persist-outcome.ts, rag-seed-on-success.ts), a        *)
(* deduplication worker rewrites, and later runs take plans from           *)
(* (rag-triage-gate.ts); and the deploy sources that operators are asked   *)
(* for, whose registry is rows of the same table (deploy-source-gate.ts,   *)
(* investigator/src/deploy-provenance-resolve.ts).                         *)
(*                                                                         *)
(* Whether two texts are similar is a relation on the signatures they are  *)
(* embedded with; the thresholds of the three searches are one.            *)
(***************************************************************************)
EXTENDS Integers, FiniteSets, DeploySource

CONSTANTS
    Runs,
    Workloads,    \* their registry keys are signatures, their component is gitops
    KeyOrder,     \* <<component, signature>> in the order of list_all_runbooks
    AskLimit,     \* replies an operator gives in an incident
    Alike,        \* pairs of signatures whose embeddings are near each other
    Containing,   \* pairs of signatures, the text of the first contains that of the second
    Setups        \* the seeds, what the runs are about, who is asked, the methods that words of
                  \* the replies name, and bounds

Keys == ToSet(KeyOrder)
Fixes == {"restart", "git_patch", "cicd_code_pr", "noop"}
Tasks == Runs \X {"end", "again"}
Save(w) == <<w, "save">>
Pending == Tasks \cup {Save(w) : w \in Workloads}

ASSUME KnowledgeAssumption ==
    /\ KeyOrder \in Seq(STRING \X STRING)
    /\ \A pair \in Alike : <<pair[2], pair[1]>> \in Alike /\ pair[1] # pair[2]
    /\ AskLimit \in Nat \ {0}
    /\ \A s \in Setups :
          /\ s.seeds \in Seq(Keys)
          /\ \A r \in DOMAIN s.key :
                r \in Runs /\ s.key[r] \in Keys /\ s.mode[r] \in {"diagnose", "ci-failure"}
          /\ \A w \in DOMAIN s.facts : w \in Workloads /\ <<"gitops", w>> \in Keys
          /\ {s.faults, s.restarts, s.incidents} \subseteq Nat
          /\ s.words \subseteq Methods \ {"unknown"}

VARIABLES
    setup,
    table,   \* key -> row of sre_runbooks
    boot,    \* the seeds bootstrap() has still to insert
    worker,  \* the pass of the deduplication worker
    run,     \* the runs, as far as teaching and being taught goes
    seed,    \* the calls of maybeSeedRagFromSuccessfulRun
    learn,   \* the requests to /rag/learn and /registry/deploy-source
    ask,     \* the deploy source gate of each workload
    spent,   \* faults and restarts so far
    taught   \* keys that were ever inserted or learned under

knowledgeVars == <<setup, table, boot, worker, run, seed, learn, ask, spent, taught>>

-----------------------------------------------------------------------------
Row(text, proven) == [text |-> text, proven |-> proven]
\* named: the text names its workload; entry: what a registry entry says of it.
Text(fix, verified, from, named, entry) ==
    [fix |-> fix, verified |-> verified, from |-> from, named |-> named, entry |-> entry]
SeedText == Text("none", FALSE, {}, FALSE, Silent)

Pass(at, list, gone, pair) == [at |-> at, list |-> list, gone |-> gone, pair |-> pair]
Asleep == Pass("sleep", <<>>, {}, <<0, 0>>)
NewRun == [at |-> "idle", plan |-> "none", direct |-> FALSE, seeded |-> FALSE, cures |-> {},
           failed |-> {}]
NotSent == [at |-> "none", key |-> <<>>, text |-> SeedText]
NotAsked == [at |-> "new", request |-> Silent, pending |-> Blank, asked |-> 0, full |-> TRUE,
             given |-> TRUE, incident |-> 1]

KnowledgeInit ==
    /\ setup \in Setups
    /\ table = <<>>
    /\ boot = setup.seeds
    /\ worker = Asleep
    /\ run = [r \in Runs |-> NewRun]
    /\ seed = [t \in Tasks |-> [at |-> "none", plan |-> "none"]]
    /\ learn = [q \in Pending |-> NotSent]
    /\ ask = [w \in Workloads |-> NotAsked]
    /\ spent = [faults |-> 0, restarts |-> 0]
    /\ taught = {}

Fault == spent.faults < setup.faults /\ spent' = [spent EXCEPT !.faults = @ + 1]
Up == boot = <<>>

Put(key, row) == [k \in DOMAIN table \cup {key} |-> IF k = key THEN row ELSE table[k]]

platform == <<table, boot, worker, taught>>
orchestrator == <<run, seed, ask>>

-----------------------------------------------------------------------------
(* Teaching: the orchestrator *)

\* Mutant: a run that succeeded worked.
InferWorkedByStatus(status, acts, plan) == IF status = "succeeded" THEN "yes" ELSE "no"

\* inferWorked; acts are [fix, ok, degraded], none of them a noop.  No outcome is persisted with a
\* decision of rejected or ignored, which would make it FALSE.
InferWorked(status, acts, plan) ==
    IF status \in {"failed", "escalated"} THEN "no"
    ELSE IF status # "succeeded" \/ plan = "noop" THEN "unknown"
    ELSE IF acts = <<>> \/ (Last(acts).ok /\ ~Last(acts).degraded) THEN "yes" ELSE "no"

\* The ways a run ends that took plan p and, when p failed or did not help, another fix.
Act(fix, ok, degraded) == [fix |-> fix, ok |-> ok, degraded |-> degraded]
Ending(status, acts, failed, pending) ==
    [status |-> status, acts |-> acts, failed |-> {failed} \ {"none"},
     plan |-> IF failed # "none" THEN failed ELSE pending]

Endings(r, p) ==
    LET done == Act(p, TRUE, FALSE)
        failed == Act(p, FALSE, FALSE)
        unhealed == Act(p, TRUE, TRUE)
        another == {Act(q, TRUE, FALSE) : q \in {"restart", "git_patch"} \ {p}}
    IN IF setup.mode[r] = "ci-failure"
       THEN {Ending("succeeded", <<done>>, "none", p), Ending("failed", <<failed>>, "none", p)}
       ELSE {Ending("succeeded", <<done>>, "none", p),
             Ending("succeeded", <<failed>>, p, "noop"),
             Ending("succeeded", <<unhealed>>, "none", "noop"),
             Ending("succeeded", <<unhealed>>, "none", p),
             Ending("succeeded", <<>>, "none", "noop"),
             Ending("escalated", <<unhealed>>, "none", p),
             Ending("awaiting_human", <<>>, "none", p)}
            \cup {Ending("succeeded", <<failed, q>>, p, q.fix) : q \in another}
            \cup {Ending("succeeded", <<unhealed, q>>, "none", q.fix) : q \in another}

EndedWell(e) == e.status = "succeeded" /\ e.acts # <<>> /\ Last(e.acts).ok /\ ~Last(e.acts).degraded

\* persistRunOutcome: what worked is taught, with the plan the outcome was built with.
Outcome(t, e) ==
    LET r == t[1]
    IN /\ run' = [run EXCEPT ![r].at = "ended",
                             ![r].cures = IF EndedWell(e) THEN @ \cup {Last(e.acts).fix} ELSE @,
                             ![r].failed = @ \cup e.failed]
       /\ seed' = IF InferWorked(e.status, e.acts, e.plan) = "yes"
                  THEN [seed EXCEPT ![t] = [at |-> "due", plan |-> e.plan]] ELSE seed

EndRun(r) ==
    /\ run[r].at = "running"
    /\ \E e \in Endings(r, run[r].plan) : Outcome(<<r, "end">>, e)
    /\ UNCHANGED <<setup, platform, learn, ask, spent>>

\* The outcome is persisted once more: by a second continuation of the run, or when the
\* checks of its pull request are over, then with no history.
EndAgain(r) ==
    /\ run[r].at = "ended" /\ seed[<<r, "again">>].at = "none"
    /\ \/ /\ setup.mode[r] = "diagnose" /\ Fault
          /\ \E e \in Endings(r, run[r].plan) : Outcome(<<r, "again">>, e)
       \/ /\ setup.mode[r] = "ci-failure" /\ UNCHANGED spent
          /\ \E worked \in BOOLEAN :
                LET e == Ending(IF worked THEN "succeeded" ELSE "failed", <<>>, "none", run[r].plan)
                IN seed' = IF InferWorked(e.status, e.acts, e.plan) = "yes"
                           THEN [seed EXCEPT ![<<r, "again">>] = [at |-> "due", plan |-> e.plan]]
                           ELSE seed
          /\ UNCHANGED run
    /\ UNCHANGED <<setup, platform, learn, ask>>

\* maybeSeedRagFromSuccessfulRun: the run is read, then the call is made.
TeachRun(t) ==
    LET r == t[1]
    IN /\ seed[t].at = "due"
       /\ IF run[r].seeded
          THEN seed' = [seed EXCEPT ![t].at = "over"] /\ UNCHANGED learn
          ELSE /\ seed' = [seed EXCEPT ![t].at = "posted"]
               /\ learn' = [learn EXCEPT ![t] =
                      [at |-> "sent", key |-> setup.key[r],
                       text |-> Text(seed[t].plan, TRUE, {r}, TRUE, Silent)]]
       /\ UNCHANGED <<setup, platform, run, ask, spent>>

MarkSeeded(t) ==
    /\ seed[t].at = "posted" /\ learn[t].at \in {"done", "refused"}
    /\ seed' = [seed EXCEPT ![t].at = "over"]
    /\ run' = IF learn[t].at = "done" THEN [run EXCEPT ![t[1]].seeded = TRUE] ELSE run
    /\ UNCHANGED <<setup, platform, learn, ask, spent>>

\* Thirty seconds are over; the platform goes on.
GiveUp(t) ==
    /\ seed[t].at = "posted" /\ learn[t].at \in {"sent", "looked"}
    /\ Fault
    /\ seed' = [seed EXCEPT ![t].at = "over"]
    /\ UNCHANGED <<setup, platform, run, learn, ask>>

-----------------------------------------------------------------------------
(* Learning: the platform *)

\* Names of workloads are replaced by placeholders; the key of a registry entry is such a name.
ParameterizePlaybookMarkdown(text) == [text EXCEPT !.named = FALSE]

Near(sig, other) == <<sig, other>> \in Alike

\* The first of the component's rows, where it is the own one or near enough: those whose signature
\* contains the one looked for come before all others, however near these are.
HybridSearch(key) ==
    LET rows == {k \in DOMAIN table : k[1] = key[1]}
        first == {k \in rows : k = key \/ <<k[2], key[2]>> \in Containing}
        ranked == IF first = {} THEN rows ELSE first
    IN {k \in ranked : k = key \/ Near(key[2], k[2])}

\* The row that is found gives the playbook its signature.
PremergeTargets(key) == IF HybridSearch(key) = {} THEN {key} ELSE HybridSearch(key)

OwnKey(q) == IF q[2] = "save" THEN <<"gitops", q[1]>> ELSE setup.key[q[1]]

\* The text is embedded, and the table searched; where that fails, the own signature is kept.
LookForNear(q) ==
    /\ Up /\ learn[q].at = "sent"
    /\ \E k \in PremergeTargets(learn[q].key) \cup {learn[q].key} :
          /\ learn' = [learn EXCEPT ![q] =
                [at |-> "looked", key |-> k, text |-> ParameterizePlaybookMarkdown(learn[q].text)]]
          /\ IF k \in PremergeTargets(learn[q].key) THEN UNCHANGED spent ELSE Fault
    /\ UNCHANGED <<setup, platform, orchestrator>>

\* The text cannot be embedded, or the platform is not there.
RefuseLearn(q) ==
    /\ learn[q].at = "sent"
    /\ \/ ~Up /\ UNCHANGED spent
       \/ Up /\ Fault
    /\ learn' = [learn EXCEPT ![q].at = "refused"]
    /\ UNCHANGED <<setup, platform, orchestrator>>

UpsertVerifiedRunbook(q) ==
    /\ learn[q].at = "looked"
    /\ LET k == learn[q].key
           proven == IF k \in DOMAIN table THEN table[k].proven + 1 ELSE 1
       IN /\ table' = Put(k, Row(learn[q].text, proven))
          /\ taught' = taught \cup {OwnKey(q)}
    /\ learn' = [learn EXCEPT ![q].at = "done"]
    /\ UNCHANGED <<setup, boot, worker, orchestrator, spent>>

-----------------------------------------------------------------------------
(* Deduplication *)

\* Mutant: rows of all components are compared.
MergeableAnywhere(k1, k2) == k1[2] # k2[2] /\ Near(k1[2], k2[2])

\* Two rows of one component whose embeddings are near each other.
Mergeable(k1, k2) == k1[1] = k2[1] /\ k1[2] # k2[2] /\ Near(k1[2], k2[2])

PairsLeft(w) ==
    {p \in (1..Len(KeyOrder)) \X (1..Len(KeyOrder)) :
        LET k1 == KeyOrder[p[1]]   k2 == KeyOrder[p[2]]
        IN /\ p[1] < p[2]
           /\ {k1, k2} \subseteq DOMAIN w.list \ w.gone
           /\ Mergeable(k1, k2)}

IsNextPair(p, w) ==
    \A q \in PairsLeft(w) : p[1] < q[1] \/ (p[1] = q[1] /\ p[2] <= q[2])

\* Without a model the lines of both; the first primary fix counts.  A model may leave out the
\* fix or the word "verified"; that it invents neither is assumed.
MergePlaybooksWithLlm(a, b) ==
    [fix: {"none", a.fix, b.fix}, verified: {FALSE, a.verified \/ b.verified},
     from: {a.from \cup b.from}, named: {FALSE}, entry: {Silent}]

MergeMarkdown(a, b) ==
    {Text(IF a.fix # "none" THEN a.fix ELSE b.fix, a.verified \/ b.verified, a.from \cup b.from,
          a.named, a.entry)}
    \cup IF setup.llm THEN MergePlaybooksWithLlm(a, b) ELSE {}

UpdateRunbook(k, text, proven) ==
    table' = [table EXCEPT ![k] = Row(ParameterizePlaybookMarkdown(text), proven)]

DeleteRunbook(k) == table' = [other \in DOMAIN table \ {k} |-> table[other]]

\* A pass that finds nothing to merge changes nothing, and is left out.
ListRunbooks ==
    /\ Up /\ worker.at = "sleep"
    /\ LET w == Pass("scan", table, {}, <<0, 0>>)
       IN PairsLeft(w) # {} /\ worker' = w
    /\ UNCHANGED <<setup, table, boot, taught, orchestrator, learn, spent>>

\* Both texts are those of the list.
MergePair ==
    /\ worker.at = "scan"
    /\ \E p \in PairsLeft(worker) :
          LET keep == KeyOrder[p[1]]   drop == KeyOrder[p[2]]
              a == worker.list[keep]   b == worker.list[drop]
              proven == 1 + IF a.proven >= b.proven THEN a.proven ELSE b.proven
          IN /\ IsNextPair(p, worker)
             /\ \E text \in MergeMarkdown(a.text, b.text) : UpdateRunbook(keep, text, proven)
             /\ worker' = Pass("delete", worker.list, worker.gone, p)
    /\ UNCHANGED <<setup, boot, taught, orchestrator, learn, spent>>

DeleteMerged ==
    /\ worker.at = "delete"
    /\ LET drop == KeyOrder[worker.pair[2]]
       IN /\ DeleteRunbook(drop)
          /\ worker' = Pass("scan", worker.list, worker.gone \cup {drop}, <<0, 0>>)
    /\ UNCHANGED <<setup, boot, taught, orchestrator, learn, spent>>

\* Mutant: what was deleted is not forgotten.
PassedOver(w) == [w EXCEPT !.at = "sleep", !.list = <<>>]

Passed(w) == Asleep

PassEnds ==
    /\ worker.at = "scan" /\ PairsLeft(worker) = {}
    /\ worker' = Passed(worker)
    /\ UNCHANGED <<setup, table, boot, taught, orchestrator, learn, spent>>

\* Mutant: the loop is outside its try.
LoopFails == worker.at \in {"scan", "delete"} /\ Fault /\ worker' = [worker EXCEPT !.at = "dead"]

\* An error ends the pass, not the loop.
PassFails == worker.at \in {"scan", "delete"} /\ Fault /\ worker' = Passed(worker)

DedupFails ==
    /\ PassFails
    /\ UNCHANGED <<setup, table, boot, taught, orchestrator, learn>>

-----------------------------------------------------------------------------
(* Start and restart of the platform: an empty table is seeded, row by row *)

SeedRunbook ==
    /\ boot # <<>>
    /\ table' = Put(Head(boot), Row(SeedText, 1))
    /\ taught' = taught \cup {Head(boot)}
    /\ boot' = Tail(boot)
    /\ UNCHANGED <<setup, worker, orchestrator, learn, spent>>

SeedingFails ==
    /\ boot # <<>> /\ Fault
    /\ boot' = <<>>
    /\ UNCHANGED <<setup, table, worker, taught, orchestrator, learn>>

RestartPlatform ==
    /\ spent.restarts < setup.restarts
    /\ spent' = [spent EXCEPT !.restarts = @ + 1]
    /\ boot' = IF DOMAIN table = {} THEN setup.seeds ELSE <<>>
    /\ worker' = Asleep
    /\ learn' = [q \in Pending |->
           IF learn[q].at \in {"sent", "looked"}
           THEN [learn[q] EXCEPT !.at = "refused"] ELSE learn[q]]
    /\ UNCHANGED <<setup, table, taught, orchestrator>>

-----------------------------------------------------------------------------
(* Being taught *)

Retrieved(key) == HybridSearch(key)

ParseVerifiedRunbookPlan(text) == IF text.verified THEN text.fix ELSE "none"
IsDirectRagBypassPlan(fix) == fix \in {"restart", "noop"}

\* /rag/ground
RagGround(key) == IF Up THEN {table[k].text : k \in Retrieved(key)} ELSE {}

\* A verified playbook whose fix needs no planning is the plan. Where it is not near enough to the
\* text of the request, or the call fails, the brain plans, with what a fix may be.
RunRagTriageGate(r) ==
    /\ run[r].at = "idle" /\ r \in DOMAIN setup.key
    /\ \/ /\ setup.mode[r] = "diagnose"
          /\ \E text \in RagGround(setup.key[r]) :
                LET fix == ParseVerifiedRunbookPlan(text)
                IN /\ IsDirectRagBypassPlan(fix)
                   /\ run' = [run EXCEPT ![r].at = "running", ![r].plan = fix, ![r].direct = TRUE]
       \/ \E fix \in IF setup.mode[r] = "diagnose" THEN {"restart", "git_patch"}
                   ELSE {"cicd_code_pr"} :
             run' = [run EXCEPT ![r].at = "running", ![r].plan = fix]
    /\ UNCHANGED <<setup, platform, seed, learn, ask, spent>>

-----------------------------------------------------------------------------
(* The deploy source of a workload *)

RegistryKey(w) == <<"gitops", w>>
RegistryMarkdown(p) == Text("none", FALSE, {}, TRUE, p)

\* An entry counts if it names the workload it is looked up for.
ProvenanceFromRegistryMarkdown(text) ==
    IF text.named THEN [text.entry EXCEPT !.source = "registry"] ELSE Silent

GetByExactSignature(k) == IF k \in DOMAIN table THEN table[k].text ELSE SeedText

LookupDeploySourceRegistry(w) == ProvenanceFromRegistryMarkdown(GetByExactSignature(RegistryKey(w)))

ResolveDeployProvenance(w, registry) == MergeDeployProvenance(<<registry>> \o setup.facts[w])

SaveDeploySourceRegistry(w, p) ==
    learn' = [learn EXCEPT ![Save(w)] =
        [at |-> "sent", key |-> RegistryKey(w), text |-> RegistryMarkdown(p)]]

MergeRequestProvenance(facts, request) == MergeDeployProvenance(<<facts, request>>)

\* evaluateDeploySourceGate, on the facts of the investigator, whose lookup may fail, and what the
\* request brings; a save in progress is waited for.
EvaluateDeploySourceGate(w) ==
    /\ w \in DOMAIN setup.facts /\ ask[w].at = "new" /\ learn[Save(w)].at \notin {"sent", "looked"}
    /\ \E registry \in {Silent, LookupDeploySourceRegistry(w)} :
          LET p == MergeRequestProvenance(ResolveDeployProvenance(w, registry), ask[w].request)
          IN /\ ask' = IF NeedsDeploySourcePrompt(p)
                       THEN [ask EXCEPT ![w].at = "asked", ![w].pending = p, ![w].asked = @ + 1]
                       ELSE [ask EXCEPT ![w].at = "ready"]
             /\ IF IsDeploySourceReady(p) /\ ask[w].request # Silent
                THEN SaveDeploySourceRegistry(w, p) ELSE UNCHANGED learn
    /\ UNCHANGED <<setup, platform, run, seed, spent>>

\* What was asked for, or only one detail of it, with the words that announce it or as in the
\* examples, and perhaps a word that names a method.
Replies(asked) ==
    {Reply(named, {}, word) : named \in {asked} \cup {{d} : d \in asked},
                              word \in {""} \cup setup.words}
    \cup {Reply(asked \ bare, bare, "") : bare \in {asked \cap Exemplified, asked \cap {"ref"}}}

\* A reply in which nothing is recognised is not taken for an answer.
ReplyDeploySource(w) ==
    /\ ask[w].at = "asked" /\ ask[w].asked < AskLimit
    /\ \E reply \in Replies(Asked(ask[w].pending)) :
          LET said == ParseDeploySourceReply(reply)
              merged == MergeDeployProvenance(<<ask[w].pending, said>>)
          IN /\ said # Silent
             /\ ask' = [ask EXCEPT ![w].at = "new", ![w].request = merged,
                                   ![w].full = @ /\ Asked(ask[w].pending) \subseteq Recognised(reply),
                                   ![w].given = @ /\ Asked(ask[w].pending) \subseteq Gives(reply)]
    /\ UNCHANGED <<setup, platform, run, seed, learn, spent>>

\* By the button or the word hot-fix, or by other words (tryDeploySourceFollowUp).
HotFixDeploySource(w) ==
    /\ ask[w].at = "asked"
    /\ \E reply \in {HotFixButton, MergeDeployProvenance(<<ask[w].pending, HotFixReply>>)} :
          ask' = [ask EXCEPT ![w].at = "new", ![w].request = reply]
    /\ UNCHANGED <<setup, platform, run, seed, learn, spent>>

CancelDeploySource(w) ==
    /\ ask[w].at = "asked"
    /\ ask' = [ask EXCEPT ![w].at = "cancelled"]
    /\ UNCHANGED <<setup, platform, run, seed, learn, spent>>

\* The next incident of the workload.
NextIncident(w) ==
    /\ ask[w].at \in {"ready", "cancelled"} /\ ask[w].incident < setup.incidents
    /\ ask' = [ask EXCEPT ![w] = [NotAsked EXCEPT !.incident = ask[w].incident + 1]]
    /\ UNCHANGED <<setup, platform, run, seed, learn, spent>>

-----------------------------------------------------------------------------
Dedup == ListRunbooks \/ MergePair \/ DeleteMerged \/ PassEnds
Bootstrap == SeedRunbook

KnowledgeNext ==
    \/ \E r \in Runs : RunRagTriageGate(r) \/ EndRun(r) \/ EndAgain(r)
    \/ \E t \in Tasks : TeachRun(t) \/ MarkSeeded(t) \/ GiveUp(t)
    \/ \E q \in Pending : LookForNear(q) \/ RefuseLearn(q) \/ UpsertVerifiedRunbook(q)
    \/ Dedup \/ DedupFails
    \/ Bootstrap \/ SeedingFails \/ RestartPlatform
    \/ \E w \in Workloads :
          EvaluateDeploySourceGate(w) \/ ReplyDeploySource(w) \/ HotFixDeploySource(w)
          \/ CancelDeploySource(w) \/ NextIncident(w)

\* The loop of the worker, its interval included, and the start of the process go on by themselves.
Fairness == WF_knowledgeVars(Dedup) /\ WF_knowledgeVars(Bootstrap)
KnowledgeSpec == KnowledgeInit /\ [][KnowledgeNext]_knowledgeVars /\ Fairness

-----------------------------------------------------------------------------
(* Properties *)

KnowledgeTypes ==
    /\ setup \in Setups
    /\ DOMAIN table \subseteq Keys
    /\ \A k \in DOMAIN table :
          table[k].text.fix \in Fixes \cup {"none"} /\ table[k].text.from \subseteq Runs
    /\ taught \subseteq Keys
    /\ \/ worker = Asleep
       \/ /\ worker.at \in {"scan", "delete"} /\ DOMAIN worker.list \subseteq Keys
          /\ worker.gone \subseteq DOMAIN worker.list
          /\ worker.at = "delete" <=> worker.pair # <<0, 0>>
    /\ \A r \in Runs :
          /\ run[r].at \in {"idle", "running", "ended"} /\ run[r].plan \in Fixes \cup {"none"}
          /\ run[r].cures \cup run[r].failed \subseteq Fixes
    /\ \A t \in Tasks : seed[t].at \in {"none", "due", "posted", "over"}
    /\ \A q \in Pending : learn[q].at \in {"none", "sent", "looked", "done", "refused"}
    /\ \A w \in Workloads :
          ask[w].at \in {"new", "asked", "ready", "cancelled"} /\ ask[w].asked <= AskLimit

Signatures == {k[2] : k \in Keys}
Closed(S) == \A x \in S, y \in Signatures : Near(x, y) => y \in S

\* Merges lead from one of the pair to the other.
Related == {p \in Signatures \X Signatures : \A S \in SUBSET Signatures : p[1] \in S /\ Closed(S) => p[2] \in S}

\* A plan that a run takes from the table without asking the brain (rag-triage-gate.ts:203) is one
\* that a run of the same component, about a signature that merges lead to, taught: a run that ended
\* well, after this fix, or after another when this one had failed (graph.ts:177 hands that on).
DirectPlansWereProven ==
    \A r \in Runs : run[r].direct =>
        \E q \in Runs \ {r} :
            /\ run[q].cures # {} /\ run[r].plan \in run[q].cures \cup run[q].failed
            /\ \E t \in {<<q, "end">>, <<q, "again">>} : learn[t].text.fix = run[r].plan
            /\ setup.key[q][1] = setup.key[r][1]
            /\ <<setup.key[q][2], setup.key[r][2]>> \in Related

\* No merge, overlapping upsert, failure or restart loses what was seeded or taught
\* (dedup_worker.py:129, learn.py:107): its component keeps a row that merges lead to.
KnowledgeIsKept ==
    \A k \in taught : \E kept \in DOMAIN table : kept[1] = k[1] /\ <<kept[2], k[2]>> \in Related

\* What is known stays known, and what is done on its strength alone was taught by a run that ended
\* well and had tried it (dedup_worker.py:113, rag-triage-gate.ts:203).
KnowledgeIsSound == DirectPlansWereProven /\ KnowledgeIsKept

\* In the end no two rows of a component are alike: passes go on after errors and restarts, and
\* later upserts are merged too (dedup_worker.py:169).
SimilarAreMerged ==
    <>[](\A k1, k2 \in DOMAIN table : ~Mergeable(k1, k2))

\* An operator whose every reply gives all that is asked for in words the parser knows is asked at
\* most three times in an incident (deploy-source-gate.ts:66), whatever methods the words of the
\* replies name and though each of them changes what is missing.
AnswersEndAsking == \A w \in Workloads : ask[w].full => ask[w].asked <= 3

\* Does not hold: a reply that gives all that is asked for as the examples of the prompt do
\* (deploy-provenance.ts:199-202) is understood (deploy-source-parse.ts:61 does not recognise
\* @develop or main, nor line 54 a path by itself).
ExamplesAreUnderstood ==
    \A w \in Workloads :
        ask[w].at = "new" /\ ask[w].asked > 0 /\ ask[w].given /\ ~ask[w].request.hotFix =>
            Asked(ask[w].pending) \subseteq ask[w].request.has

\* Does not hold: the primary fix of a verified playbook is the act after which one of its runs
\* ended well (graph.ts:177 hands on the plan that failed).
TaughtFixIsTheOneThatWorked ==
    \A k \in DOMAIN table : table[k].text.verified /\ table[k].text.fix # "none" =>
        \E r \in table[k].text.from : table[k].text.fix \in run[r].cures

\* Does not hold: what an operator said once is found again (deploy-provenance.ts:235, where the
\* key no longer reads as it was saved).
SavedSourceIsFound ==
    \A w \in Workloads : learn[Save(w)].at = "done" => LookupDeploySourceRegistry(w) # Silent

\* Does not hold: an answer leaves the method that was found out (deploy-source-parse.ts:100).
AnswerKeepsMethod ==
    \A w \in Workloads : ask[w].request.source = "user-provided" /\ ~ask[w].request.hotFix =>
        ask[w].request.method = ask[w].pending.method
=============================================================================
