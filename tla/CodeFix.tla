-------------------------------- MODULE CodeFix --------------------------------
(***************************************************************************)
(* The repair of a failed CI run: the plan (orchestrator/src/              *)
(* ci-failure-plan.ts, shared/src/ci-plan.ts), the tools that ask for a    *)
(* pull request (orchestrator/src/tool-runtime.ts), the coding agent's     *)
(* fix loop (coding-agent/src), the requests to GitHub and the watch of    *)
(* the pull request's CI (cicd-agent/src).                                 *)
(*                                                                         *)
(* Everything is about one incident: its pull requests share one head      *)
(* branch, named after it.  A request that its client has given up goes on *)
(* at the agent that serves it, so several may write that branch at once.  *)
(***************************************************************************)
EXTENDS Naturals, FiniteSets

CONSTANTS
    MaxCalls,      \* times the graph executes the tool
    MaxAttempts,   \* CODING_AGENT_MAX_ITERATIONS
    MaxRequests,   \* requests for a pull request, of all attempts
    MaxPolls,      \* polls of the job, and of the CI, before their deadlines
    MaxRestarts,   \* restarts of the coding agent and of the CI/CD agent
    MaxCancels,    \* cancellations by the operator
    Files,         \* files of the repository
    Patches        \* the sets of files that patches replace

ASSUME CodeFixAssumption ==
    /\ {MaxCalls, MaxAttempts, MaxRequests, MaxPolls} \subseteq Nat \ {0}
    /\ {MaxRestarts, MaxCancels} \subseteq Nat
    /\ IsFiniteSet(Files)
    /\ Patches \subseteq (SUBSET Files) \ {{}}

Calls == 1..MaxCalls

\* A request for a pull request: the call's own (attempt 0), or that of an
\* attempt of the job the call started.
Requests == Calls \X (0..MaxAttempts)

VARIABLES
    plan,     \* the action planned for the failure, or "none"
    caller,   \* the tool call under way in the orchestrator
    job,      \* per call, the coding agent's job
    req,      \* per request, the files it replaces and how far the CI/CD agent is with it
    github,   \* the files of the head branch, and whether its pull request is open
    watch,    \* the CI/CD agent's watch of the head branch
    restarts

vars == <<plan, caller, job, req, github, watch, restarts>>

-----------------------------------------------------------------------------
(* Planning *)

Actions == {"noop", "escalate_human", "cicd_rerun", "cicd_open_pr", "cicd_code_pr",
            "coding_agent_handoff"}

NoRequest == [at |-> "none", files |-> {}, todo |-> {}]

\* What was written of a request that failed stays on the branch and is nobody's patch.
Failed == [NoRequest EXCEPT !.at = "failed"]

NoJob == [status |-> "none", cancelled |-> FALSE, attempt |-> 0, pc |-> "off"]

WatchOff == [on |-> FALSE, polls |-> 0]

Init ==
    /\ plan = "none"
    /\ caller = [at |-> "idle", call |-> 0, polls |-> 0]
    /\ job = [c \in Calls |-> NoJob]
    /\ req = [r \in Requests |-> NoRequest]
    /\ github = [head |-> [f \in Files |-> <<>>],
                 pr |-> FALSE]
    /\ watch = WatchOff
    /\ restarts = 0

\* buildFullCiFailurePlan: the diagnosis suggests an action; a code fix needs the
\* brain's patches, and without them nothing is done; what is left to humans goes
\* to the coding agent when the application's code is to blame.
PlanFailure ==
    /\ plan = "none"
    /\ \E suggested \in {"report_only", "escalate_human", "rerun", "open_pr", "propose_code_pr"},
          applicationCode, patches \in BOOLEAN :
          plan' = CASE suggested = "rerun" -> "cicd_rerun"
                    [] suggested = "open_pr" -> "cicd_open_pr"
                    [] suggested = "propose_code_pr" /\ patches -> "cicd_code_pr"
                    [] suggested = "escalate_human" -> "escalate_human"
                    [] suggested = "report_only" /\ applicationCode -> "coding_agent_handoff"
                    [] OTHER -> "noop"
    /\ UNCHANGED <<caller, job, req, github, watch, restarts>>

-----------------------------------------------------------------------------
(* The orchestrator's tools *)

\* The tool returns success or a failure; both end the call.
Answered == [caller EXCEPT !.at = "idle", !.polls = 0]

SendRequest(r) ==
    /\ Cardinality({s \in Requests : req[s].at # "none"}) < MaxRequests
    /\ \E files \in Patches :
          req' = [req EXCEPT ![r] = [at |-> "branch", files |-> files, todo |-> files]]

\* cicd.open_pr and cicd.open_code_pr: one request to the CI/CD agent, which may
\* not arrive.
RequestPr ==
    /\ caller.at = "idle" /\ caller.call < MaxCalls
    /\ plan \in {"cicd_open_pr", "cicd_code_pr"}
    /\ LET r == <<caller.call + 1, 0>>
       IN \/ /\ caller' = [at |-> "request", call |-> r[1], polls |-> 0]
             /\ SendRequest(r)
          \/ /\ caller' = [at |-> "idle", call |-> r[1], polls |-> 0]
             /\ UNCHANGED req
    /\ UNCHANGED <<plan, job, github, watch, restarts>>

\* scheduleCiWatchAfterPr, which nobody waits for, and watchCiAfterPr: one watch
\* at a time for the branch.
WatchStarted(w) == IF w.on THEN w ELSE [on |-> TRUE, polls |-> 0]

ScheduleWatch == watch' \in {watch, WatchStarted(watch)}

RequestAnswered ==
    /\ caller.at = "request"
    /\ LET at == req[<<caller.call, 0>>].at
       IN \/ /\ at \in {"ok", "issue"}
             /\ caller' = Answered
             /\ ScheduleWatch
          \/ /\ at = "failed"
             /\ caller' = Answered
             /\ UNCHANGED watch
    /\ UNCHANGED <<plan, job, req, github, restarts>>

\* The tool's own timeout; the CI/CD agent goes on.
RequestTimesOut ==
    /\ caller.at = "request"
    /\ caller' = Answered
    /\ UNCHANGED <<plan, job, req, github, watch, restarts>>

\* coding_agent.run_fix: POST /run-fix creates a job with a fresh id and starts
\* its loop.  The request, or the answer with the id, may be lost.
RunFix ==
    /\ caller.at = "idle" /\ caller.call < MaxCalls
    /\ plan = "coding_agent_handoff"
    /\ LET c == caller.call + 1
       IN \E arrives, heard \in BOOLEAN :
             /\ heard => arrives
             /\ caller' = [at |-> IF heard THEN "poll" ELSE "idle", call |-> c, polls |-> 0]
             /\ job' = IF arrives
                       THEN [job EXCEPT ![c] = [NoJob EXCEPT !.status = "running", !.pc = "context"]]
                       ELSE job
    /\ UNCHANGED <<plan, req, github, watch, restarts>>

\* One GET /jobs/:jobId.  No job (the agent restarted) is polled again; a poll
\* that throws ends the call.
PollJob ==
    /\ caller.at = "poll" /\ caller.polls < MaxPolls
    /\ LET status == job[caller.call].status
       IN \/ /\ status = "succeeded"
             /\ caller' = Answered
             /\ ScheduleWatch
          \/ /\ status \in {"failed", "cancelled"}
             /\ caller' = Answered
             /\ UNCHANGED watch
          \/ /\ caller' = [caller EXCEPT !.polls = @ + 1]
             /\ UNCHANGED watch
          \/ /\ caller' = Answered
             /\ UNCHANGED watch
    /\ UNCHANGED <<plan, job, req, github, restarts>>

\* Mutant: the deadline is set anew.
RenewDeadline ==
    /\ caller.at = "poll" /\ caller.polls = MaxPolls
    /\ caller' = [caller EXCEPT !.polls = 0]
    /\ UNCHANGED <<plan, job, req, github, watch, restarts>>

PollDeadline ==
    /\ caller.at = "poll" /\ caller.polls = MaxPolls
    /\ caller' = Answered
    /\ UNCHANGED <<plan, job, req, github, watch, restarts>>

-----------------------------------------------------------------------------
(* The coding agent: runFixLoop *)

LoadContext(c) ==
    /\ job[c].pc = "context"
    /\ \/ job' = [job EXCEPT ![c].pc = "top"]
       \/ job' = [job EXCEPT ![c].pc = "off", ![c].status = "failed"]
    /\ UNCHANGED <<plan, caller, req, github, watch, restarts>>

Cancelled(c) == job[c].cancelled \/ job[c].status = "cancelled"

\* Mutant: the loop makes one attempt too many.
BeginOneMore(c) ==
    /\ job[c].pc = "top" /\ job[c].attempt <= MaxAttempts
    /\ job' = IF Cancelled(c)
              THEN [job EXCEPT ![c].pc = "off", ![c].status = "cancelled"]
              ELSE [job EXCEPT ![c].pc = "plan", ![c].status = "running", ![c].attempt = @ + 1]
    /\ UNCHANGED <<plan, caller, req, github, watch, restarts>>

\* The head of the loop.
BeginAttempt(c) ==
    /\ job[c].pc = "top" /\ job[c].attempt < MaxAttempts
    /\ job' = IF Cancelled(c)
              THEN [job EXCEPT ![c].pc = "off", ![c].status = "cancelled"]
              ELSE [job EXCEPT ![c].pc = "plan", ![c].status = "running", ![c].attempt = @ + 1]
    /\ UNCHANGED <<plan, caller, req, github, watch, restarts>>

\* The loop ends without a pull request, whatever the job's status was.
ExhaustAttempts(c) ==
    /\ job[c].pc = "top" /\ job[c].attempt = MaxAttempts
    /\ job' = [job EXCEPT ![c].pc = "off", ![c].status = "failed"]
    /\ UNCHANGED <<plan, caller, req, github, watch, restarts>>

\* planFix, then clone, apply the patches, run the local check if the plan names
\* one; nothing of it is seen from outside.  Then POST /open-code-pr.  Whatever
\* fails is an error that the next attempt's plan is told of.
TryPatch(c) ==
    /\ job[c].pc = "plan"
    /\ \/ /\ job' = [job EXCEPT ![c].pc = "pr"]
          /\ SendRequest(<<c, job[c].attempt>>)
       \/ /\ job' = [job EXCEPT ![c].pc = "top"]
          /\ UNCHANGED req
    /\ UNCHANGED <<plan, caller, github, watch, restarts>>

\* The answer, or the agent's own timeout while the CI/CD agent goes on.
PrAnswered(c) ==
    /\ job[c].pc = "pr"
    /\ job' = IF req[<<c, job[c].attempt>>].at = "ok"
              THEN [job EXCEPT ![c].pc = "off", ![c].status = "succeeded"]
              ELSE [job EXCEPT ![c].pc = "top"]
    /\ UNCHANGED <<plan, caller, req, github, watch, restarts>>

\* POST /jobs/:jobId/cancel, from the console.
CancelJob(c) ==
    /\ job[c].status = "running"
    /\ Cardinality({d \in Calls : job[d].cancelled}) < MaxCancels
    /\ job' = [job EXCEPT ![c].status = "cancelled", ![c].cancelled = TRUE]
    /\ UNCHANGED <<plan, caller, req, github, watch, restarts>>

\* The jobs are in memory, and so are their loops.
RestartCodingAgent ==
    /\ restarts < MaxRestarts
    /\ \E c \in Calls : job[c] # NoJob
    /\ restarts' = restarts + 1
    /\ job' = [c \in Calls |-> NoJob]
    /\ UNCHANGED <<plan, caller, req, github, watch>>

-----------------------------------------------------------------------------
(* The CI/CD agent: openCiFixPr and openCiCodeFixPr *)

RequestEnds(r, at) == req' = [req EXCEPT ![r].at = at]
RequestFails(r) == req' = [req EXCEPT ![r] = Failed]

\* openTrackingIssue: no workflow file, or no safe patch of it, becomes an issue,
\* which the answer reports as a pull request's URL.
OpenIssue(r) ==
    /\ plan = "cicd_open_pr" /\ req[r].at = "branch"
    /\ RequestEnds(r, "issue") \/ RequestFails(r)
    /\ UNCHANGED <<plan, caller, job, github, watch, restarts>>

\* ensureBranch: the branch is made from the base, or is there (422).
EnsureBranch(r) ==
    /\ req[r].at = "branch"
    /\ RequestEnds(r, "files") \/ RequestFails(r)
    /\ UNCHANGED <<plan, caller, job, github, watch, restarts>>

\* Mutant: the request carries the blob the head branch has.
PutOverwrites(f) == TRUE

\* GitHub writes a file only over the blob the request names: the base's blob.
PutAccepted(f) == github.head[f] = <<>>

\* One file after another, each a commit.
PutFile(r) ==
    /\ req[r].at = "files" /\ req[r].todo # {}
    /\ \/ \E f \in req[r].todo :
             /\ PutAccepted(f)
             /\ github' = [github EXCEPT !.head[f] = r]
             /\ req' = [req EXCEPT ![r].todo = @ \ {f}]
       \/ RequestFails(r) /\ UNCHANGED github
    /\ UNCHANGED <<plan, caller, job, watch, restarts>>

\* GitHub refuses a second pull request for the head branch.
OpenPull(r) ==
    /\ req[r].at = "files" /\ req[r].todo = {}
    /\ \/ /\ ~github.pr
          /\ github' = [github EXCEPT !.pr = TRUE]
          /\ RequestEnds(r, "ok")
       \/ RequestFails(r) /\ UNCHANGED github
    /\ UNCHANGED <<plan, caller, job, watch, restarts>>

-----------------------------------------------------------------------------
(* The watch of the branch's CI: watchCiAfterPr and pollCiUntilSettled *)

\* One poll of the latest run of the branch, whichever commit it is of: there is
\* none, it runs, or it has settled (external).  When it has settled the
\* operator is told and POST /runs/:runId/ci-verify records it, or is lost.
PollCi ==
    /\ watch.on /\ watch.polls < MaxPolls
    /\ \/ /\ \E f \in Files : github.head[f] # <<>>
          /\ watch' = WatchOff
       \/ watch' = [watch EXCEPT !.polls = @ + 1]
    /\ UNCHANGED <<plan, caller, job, req, github, restarts>>

\* Recorded as a failure.
CiDeadline ==
    /\ watch.on /\ watch.polls = MaxPolls
    /\ watch' = WatchOff
    /\ UNCHANGED <<plan, caller, job, req, github, restarts>>

\* GitHub answers with an error: the operator is told, nothing is recorded.
PollCiThrows ==
    /\ watch.on
    /\ watch' = WatchOff
    /\ UNCHANGED <<plan, caller, job, req, github, restarts>>

\* The requests under way fail at their clients; the watch is forgotten.
RestartCicdAgent ==
    /\ restarts < MaxRestarts
    /\ watch.on \/ \E r \in Requests : req[r].at \in {"branch", "files"}
    /\ restarts' = restarts + 1
    /\ watch' = WatchOff
    /\ req' = [r \in Requests |->
                  IF req[r].at \in {"branch", "files"} THEN Failed ELSE req[r]]
    /\ UNCHANGED <<plan, caller, job, github>>

-----------------------------------------------------------------------------
CallerStep == RequestAnswered \/ RequestTimesOut \/ PollJob \/ PollDeadline

JobStep(c) ==
    \/ LoadContext(c) \/ BeginAttempt(c) \/ ExhaustAttempts(c)
    \/ TryPatch(c) \/ PrAnswered(c)

RequestStep(r) == OpenIssue(r) \/ EnsureBranch(r) \/ PutFile(r) \/ OpenPull(r)

WatchStep == PollCi \/ CiDeadline \/ PollCiThrows

Progress ==
    \/ CallerStep \/ WatchStep
    \/ \E c \in Calls : JobStep(c)
    \/ \E r \in Requests : RequestStep(r)

Next ==
    \/ PlanFailure \/ RequestPr \/ RunFix
    \/ Progress
    \/ \E c \in Calls : CancelJob(c)
    \/ RestartCodingAgent \/ RestartCicdAgent

\* Every loop and request has timeouts of its own, and as each is bounded it is
\* enough that something goes on; nothing is assumed of the operator, or of the
\* graph that calls the tool.
Spec == Init /\ [][Next]_vars /\ WF_vars(Progress)

-----------------------------------------------------------------------------
(* Properties *)

TypeOK ==
    /\ plan \in Actions \cup {"none"}
    /\ caller \in [at: {"idle", "request", "poll"}, call: 0..MaxCalls, polls: 0..MaxPolls]
    /\ job \in [Calls -> [status: {"none", "running", "succeeded", "failed", "cancelled"},
                          cancelled: BOOLEAN, attempt: 0..MaxAttempts,
                          pc: {"off", "context", "top", "plan", "pr"}]]
    /\ req \in [Requests -> [at: {"none", "branch", "files", "ok", "issue", "failed"},
                             files: SUBSET Files, todo: SUBSET Files]]
    /\ github \in [head: [Files -> Requests \cup {<<>>}], pr: BOOLEAN]
    /\ watch \in [on: BOOLEAN, polls: 0..MaxPolls]
    /\ restarts \in 0..MaxRestarts

\* The head branch holds, for good, every file of a patch whose pull request was
\* reported open, although abandoned attempts and orphaned jobs of the incident
\* write the same branch at the same time (github.ts:406-426).
OpenedPatchIsIntact ==
    \A r \in Requests : req[r].at = "ok" => github.pr /\ \A f \in req[r].files : github.head[f] = r

\* Quiet: no call waits, no loop of the coding agent runs, and no watch is on.
Quiet ==
    /\ caller.at = "idle"
    /\ \A c \in Calls : job[c].pc = "off"
    /\ ~watch.on

\* All that is begun ends, whatever becomes of the agents and of GitHub: the call
\* that waits, the loops nobody waits for any more, and the watch, whose key would
\* keep later watches of the branch away (tool-runtime.ts:543, fix-loop.ts:168,
\* ci-verify-watch.ts:96).
WorkEnds == []<>Quiet

\* A user's cancellation is a stop condition of the coding agent
\* (docs/CI-CODE-REMEDIATION-ROADMAP.md:125): a cancelled job opens no pull request.
CancelledJobOpensNoPr ==
    [][\A c \in Calls : Cancelled(c) /\ job[c].pc # "pr" => job'[c].status # "succeeded" /\ job'[c].pc # "pr"]_vars
=============================================================================
