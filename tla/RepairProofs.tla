----------------------------- MODULE RepairProofs -----------------------------
(***************************************************************************)
(* Theorems about repairing in a repository, and learning from repairs:    *)
(* CodeFix (the coding agent and the CI watch), for any repository, any    *)
(* number of calls, attempts, requests and restarts, and all deadlines;    *)
(* and Knowledge (the table of playbooks and the deploy sources), for any  *)
(* runs, keys, likeness of signatures and facts, and every number of       *)
(* faults, restarts and incidents.                                         *)
(***************************************************************************)
EXTENDS CodeFix, Knowledge, SequenceTheorems, TLAPS

-----------------------------------------------------------------------------
(* The inductive invariant *)

UnderWay == {"branch", "files"}

\* What a request has written of its patch is on the head branch, and no request has
\* overwritten it; one that opened the pull request has written all of it.
PatchIsKept(q, r) ==
    /\ q.at \in UnderWay \cup {"ok"} => \A f \in q.files \ q.todo : github.head[f] = r
    /\ q.at = "ok" => q.todo = {} /\ github.pr

PatchesAreKept == \A r \in Requests : PatchIsKept(req[r], r)

\* The requests of attempts that a job has not come to are still to be made.
JobIsFresh(c) ==
    /\ job[c].pc # "off" =>
          \A a \in 1..MaxAttempts :
              a > job[c].attempt \/ (a = job[c].attempt /\ job[c].pc = "plan") =>
                  req[<<c, a>>].at = "none"
    /\ job[c].pc = "plan" => job[c].attempt \in 1..MaxAttempts

\* A request is made once.  There is none of a call that has not begun, which has no job
\* either.
RequestsAreFresh ==
    /\ \A c \in Calls : c > caller.call =>
          job[c] = NoJob /\ \A a \in 0..MaxAttempts : req[<<c, a>>].at = "none"
    /\ \A c \in Calls : JobIsFresh(c)

\* TypeOK, with names for its parts.
CallerStates == [at: {"idle", "request", "poll"}, call: 0..MaxCalls, polls: 0..MaxPolls]

JobStates ==
    [status: {"none", "running", "succeeded", "failed", "cancelled"}, cancelled: BOOLEAN,
     attempt: 0..MaxAttempts, pc: {"off", "context", "top", "plan", "pr"}]

RequestStates ==
    [at: {"none", "branch", "files", "ok", "issue", "failed"},
     files: SUBSET Files, todo: SUBSET Files]

WatchStates == [on: BOOLEAN, polls: 0..MaxPolls]

Typed ==
    /\ plan \in Actions \cup {"none"}
    /\ caller \in CallerStates
    /\ job \in [Calls -> JobStates]
    /\ req \in [Requests -> RequestStates]
    /\ github \in [head: [Files -> Requests \cup {<<>>}], pr: BOOLEAN]
    /\ watch \in WatchStates
    /\ restarts \in 0..MaxRestarts

CodeFixInv == Typed /\ PatchesAreKept /\ RequestsAreFresh

-----------------------------------------------------------------------------
(* Requests *)

\* What a step does to the requests: nothing, or one is made, goes on or fails, writes
\* another file over the base's, or opens the pull request; or all under way fail.
Made(r) ==
    /\ req[r].at = "none"
    /\ \E files \in Patches :
          req' = [req EXCEPT ![r] = [at |-> "branch", files |-> files, todo |-> files]]
    /\ github' = github

GoesOn(r) ==
    /\ req[r].at \in UnderWay
    /\ RequestEnds(r, "files") \/ RequestEnds(r, "issue") \/ RequestFails(r)
    /\ github' = github

Writes(r, f) ==
    /\ req[r].at = "files" /\ f \in req[r].todo /\ github.head[f] = <<>>
    /\ github' = [github EXCEPT !.head[f] = r]
    /\ req' = [req EXCEPT ![r].todo = @ \ {f}]

Opens(r) ==
    /\ req[r].at = "files" /\ req[r].todo = {}
    /\ github' = [github EXCEPT !.pr = TRUE]
    /\ RequestEnds(r, "ok")

AllFail ==
    /\ req' = [r \in Requests |-> IF req[r].at \in UnderWay THEN Failed ELSE req[r]]
    /\ github' = github

RequestsMove ==
    \/ req' = req /\ github' = github
    \/ \E r \in Requests : Made(r) \/ GoesOn(r) \/ Opens(r)
    \/ \E r \in Requests : \E f \in req[r].todo : Writes(r, f)
    \/ AllFail

\* A request is only made of a call or an attempt that has just begun.
LEMMA StepsMoveRequests ==
    ASSUME CodeFixInv, [Next]_vars
    PROVE  RequestsMove
<1>0. /\ RequestsAreFresh /\ caller.call \in 0..MaxCalls
      /\ \A c \in Calls : job[c].attempt \in 0..MaxAttempts
  BY DEF CodeFixInv, Typed, CallerStates, JobStates
<1>1. CASE req' = req /\ github' = github
  BY <1>1 DEF RequestsMove
<1>2. CASE \/ UNCHANGED vars \/ PlanFailure \/ RunFix \/ CallerStep \/ WatchStep
           \/ RestartCodingAgent
           \/ \E c \in Calls : \/ LoadContext(c) \/ BeginAttempt(c) \/ ExhaustAttempts(c)
                               \/ PrAnswered(c) \/ CancelJob(c)
  <2>1. req' = req /\ github' = github
    BY <1>2 DEF PlanFailure, RunFix, CallerStep, RequestAnswered, RequestTimesOut, PollJob,
       PollDeadline, WatchStep, PollCi, CiDeadline, PollCiThrows, RestartCodingAgent, LoadContext,
       BeginAttempt, ExhaustAttempts, PrAnswered, CancelJob, vars
  <2>2. QED BY <1>1, <2>1
<1>3. CASE RequestPr
  <2> DEFINE r == <<caller.call + 1, 0>>
  <2>1. caller.call < MaxCalls /\ caller.call + 1 \in Calls /\ 0 \in 0..MaxAttempts
    BY <1>0, <1>3, CodeFixAssumption DEF RequestPr, Calls
  <2>2. r \in Requests /\ req[r].at = "none"
    <3>1. caller.call + 1 > caller.call
      BY <1>0
    <3>2. QED BY <1>0, <2>1, <3>1 DEF Requests, RequestsAreFresh
  <2>3. github' = github /\ (SendRequest(r) \/ req' = req)
    BY <1>3 DEF RequestPr
  <2>4. Made(r) \/ req' = req
    BY <2>2, <2>3 DEF SendRequest, Made
  <2>5. QED BY <1>1, <2>2, <2>3, <2>4 DEF RequestsMove
<1>4. ASSUME NEW c \in Calls, TryPatch(c) PROVE RequestsMove
  <2> DEFINE r == <<c, job[c].attempt>>
  <2>1. job[c].pc = "plan" /\ job[c].attempt \in 1..MaxAttempts
    BY <1>0, <1>4 DEF TryPatch, RequestsAreFresh, JobIsFresh
  <2>2. r \in Requests /\ req[r].at = "none"
    BY <1>0, <2>1, CodeFixAssumption DEF Requests, RequestsAreFresh, JobIsFresh
  <2>3. github' = github /\ (SendRequest(r) \/ req' = req)
    BY <1>4 DEF TryPatch
  <2>4. Made(r) \/ req' = req
    BY <2>2, <2>3 DEF SendRequest, Made
  <2>5. QED BY <1>1, <2>2, <2>3, <2>4 DEF RequestsMove
<1>5. ASSUME NEW r \in Requests, RequestStep(r) PROVE RequestsMove
  <2>1. CASE OpenIssue(r) \/ EnsureBranch(r)
    <3>1. GoesOn(r)
      BY <2>1 DEF OpenIssue, EnsureBranch, GoesOn, UnderWay
    <3>2. QED BY <3>1 DEF RequestsMove
  <2>2. CASE PutFile(r)
    <3>1. GoesOn(r) \/ \E f \in req[r].todo : Writes(r, f)
      BY <2>2 DEF PutFile, PutAccepted, GoesOn, Writes, UnderWay
    <3>2. QED BY <3>1 DEF RequestsMove
  <2>3. CASE OpenPull(r)
    <3>1. GoesOn(r) \/ Opens(r)
      BY <2>3 DEF OpenPull, GoesOn, Opens, UnderWay
    <3>2. QED BY <3>1 DEF RequestsMove
  <2>4. QED BY <1>5, <2>1, <2>2, <2>3 DEF RequestStep
<1>6. CASE RestartCicdAgent
  <2>1. AllFail
    BY <1>6 DEF RestartCicdAgent, AllFail, UnderWay
  <2>2. QED BY <2>1 DEF RequestsMove
<1>7. QED BY <1>2, <1>3, <1>4, <1>5, <1>6 DEF Next, Progress, JobStep

\* A step of the requests keeps what was written where it is.
LEMMA PatchesStayKept ==
    ASSUME Typed, PatchesAreKept, RequestsMove
    PROVE  PatchesAreKept'
<1> SUFFICES ASSUME NEW s \in Requests PROVE PatchIsKept(req[s], s)'
  BY DEF PatchesAreKept
<1> USE DEF Typed, RequestStates, PatchIsKept, UnderWay
<1>1. PatchIsKept(req[s], s) /\ s # <<>>
  <2>1. PICK c \in Calls, a \in 0..MaxAttempts : s = <<c, a>>
    BY DEF Requests
  <2>2. <<c, a>> # <<>>
    OBVIOUS
  <2>3. QED BY <2>1, <2>2 DEF PatchesAreKept
<1>2. CASE req' = req /\ github' = github
  BY <1>1, <1>2
<1>3. ASSUME NEW r \in Requests, Made(r) PROVE PatchIsKept(req[s], s)'
  BY <1>1, <1>3 DEF Made
<1>4. ASSUME NEW r \in Requests, GoesOn(r) PROVE PatchIsKept(req[s], s)'
  BY <1>1, <1>4 DEF GoesOn, RequestEnds, RequestFails, Failed, NoRequest
<1>5. ASSUME NEW r \in Requests, NEW f \in req[r].todo, Writes(r, f)
      PROVE  PatchIsKept(req[s], s)'
  <2>1. f \in Files
    OBVIOUS
  <2>2. \A g \in Files : github.head[g] = s => github'.head[g] = s
    BY <1>1, <1>5, <2>1 DEF Writes
  <2>3. github'.pr = github.pr /\ github'.head[f] = r
    BY <1>5, <2>1 DEF Writes
  <2>4. CASE s = r
    <3>1. req'[s].at = req[s].at /\ req'[s].files = req[s].files
          /\ req'[s].todo = req[s].todo \ {f} /\ req[s].at = "files"
      BY <1>5, <2>4 DEF Writes
    <3>2. req[s].files \subseteq Files
      OBVIOUS
    <3>3. QED BY <1>1, <2>2, <2>3, <2>4, <3>1, <3>2
  <2>5. CASE s # r
    <3>1. req'[s] = req[s] /\ req[s].files \subseteq Files
      BY <1>5, <2>5 DEF Writes
    <3>2. QED BY <1>1, <2>2, <2>3, <3>1
  <2>6. QED BY <2>4, <2>5
<1>6. ASSUME NEW r \in Requests, Opens(r) PROVE PatchIsKept(req[s], s)'
  BY <1>1, <1>6 DEF Opens, RequestEnds
<1>7. CASE AllFail
  BY <1>1, <1>7 DEF AllFail, Failed, NoRequest
<1>8. QED BY <1>2, <1>3, <1>4, <1>5, <1>6, <1>7 DEF RequestsMove

\* The requests and GitHub keep their types, and a request that opened the pull request stays
\* as it is.
LEMMA RequestFacts ==
    ASSUME Typed, RequestsMove
    PROVE  /\ req' \in [Requests -> RequestStates]
           /\ github' \in [head: [Files -> Requests \cup {<<>>}], pr: BOOLEAN]
           /\ \A r \in Requests : req[r].at = "ok" => req'[r] = req[r]
<1> DEFINE Good == /\ req' \in [Requests -> RequestStates]
                   /\ github' \in [head: [Files -> Requests \cup {<<>>}], pr: BOOLEAN]
                   /\ \A r \in Requests : req[r].at = "ok" => req'[r] = req[r]
<1> USE DEF Typed
<1>1. CASE req' = req /\ github' = github
  BY <1>1
<1>2. ASSUME NEW r \in Requests, Made(r) PROVE Good
  BY <1>2, CodeFixAssumption DEF Made, RequestStates
<1>3. ASSUME NEW r \in Requests, GoesOn(r) PROVE Good
  BY <1>3 DEF GoesOn, RequestEnds, RequestFails, Failed, NoRequest, RequestStates, UnderWay
<1>4. ASSUME NEW r \in Requests, NEW f \in req[r].todo, Writes(r, f) PROVE Good
  <2>1. f \in Files
    BY DEF RequestStates
  <2>2. QED BY <1>4, <2>1 DEF Writes, RequestStates
<1>5. ASSUME NEW r \in Requests, Opens(r) PROVE Good
  BY <1>5 DEF Opens, RequestEnds, RequestStates
<1>6. CASE AllFail
  BY <1>6 DEF AllFail, Failed, NoRequest, RequestStates, UnderWay
<1>7. QED BY <1>1, <1>2, <1>3, <1>4, <1>5, <1>6 DEF RequestsMove

-----------------------------------------------------------------------------
(* Calls and jobs *)

\* What a step does to the call under way and to the jobs.  A call begins, with or without a
\* job of its own; a job's loop takes a step, or is cancelled; the coding agent restarts.
NewJob == [NoJob EXCEPT !.status = "running", !.pc = "context"]

CallBegins ==
    /\ caller.call < MaxCalls /\ caller'.call = caller.call + 1
    /\ \/ job' = job
       \/ job' = [job EXCEPT ![caller.call + 1] = NewJob] /\ req' = req

Moves(c, x) ==
    /\ x \in JobStates /\ c <= caller.call
    /\ x.pc # "off" => job[c].pc # "off"
    /\ \/ x.attempt = job[c].attempt /\ x.pc \in {job[c].pc, "off", "top", "pr"}
       \/ x.attempt = job[c].attempt + 1 /\ x.pc = "plan"
    /\ job' = [job EXCEPT ![c] = x]

JobsMove ==
    \/ CallBegins
    \/ /\ caller'.call = caller.call
       /\ \/ job' = job
          \/ job' = [c \in Calls |-> NoJob]
          \/ \E c \in Calls : \E x \in JobStates : Moves(c, x)

\* A job whose loop runs is of a call that has begun.
LEMMA BegunFacts ==
    ASSUME CodeFixInv, NEW c \in Calls, job[c] # NoJob
    PROVE  c <= caller.call
  BY DEF CodeFixInv, RequestsAreFresh, Typed, CallerStates, Calls

LEMMA StepsMoveJobs ==
    ASSUME CodeFixInv, [Next]_vars
    PROVE  JobsMove /\ caller' \in CallerStates
<1>0. /\ caller \in CallerStates /\ job \in [Calls -> JobStates]
      /\ MaxCalls \in Nat /\ MaxPolls \in Nat \ {0} /\ MaxAttempts \in Nat
  BY CodeFixAssumption DEF CodeFixInv, Typed
<1>1. CASE \/ UNCHANGED vars \/ PlanFailure \/ WatchStep \/ RestartCicdAgent
           \/ \E r \in Requests : RequestStep(r)
  <2>1. caller' = caller /\ job' = job
    BY <1>1 DEF vars, PlanFailure, WatchStep, PollCi, CiDeadline, PollCiThrows, RestartCicdAgent,
       RequestStep, OpenIssue, EnsureBranch, PutFile, OpenPull
  <2>2. QED BY <1>0, <2>1 DEF JobsMove
<1>2. CASE RequestPr
  <2>1. /\ caller.call < MaxCalls /\ job' = job
        /\ \E a \in {"idle", "request"} :
              caller' = [at |-> a, call |-> caller.call + 1, polls |-> 0]
    BY <1>2 DEF RequestPr
  <2>2. caller' \in CallerStates /\ caller'.call = caller.call + 1
    BY <1>0, <2>1 DEF CallerStates
  <2>3. QED BY <2>1, <2>2 DEF JobsMove, CallBegins
<1>3. CASE RunFix
  <2>1. /\ caller.call < MaxCalls /\ req' = req
        /\ \E a \in {"idle", "poll"} :
              caller' = [at |-> a, call |-> caller.call + 1, polls |-> 0]
        /\ job' = job \/ job' = [job EXCEPT ![caller.call + 1] = NewJob]
    BY <1>3 DEF RunFix, NewJob
  <2>2. caller' \in CallerStates /\ caller'.call = caller.call + 1
    BY <1>0, <2>1 DEF CallerStates
  <2>3. QED BY <2>1, <2>2 DEF JobsMove, CallBegins
<1>4. CASE CallerStep
  <2>1. job' = job
    BY <1>4 DEF CallerStep, RequestAnswered, RequestTimesOut, PollJob, PollDeadline
  <2>2. \/ caller' = Answered
        \/ caller.polls < MaxPolls /\ caller' = [caller EXCEPT !.polls = @ + 1]
    BY <1>4 DEF CallerStep, RequestAnswered, RequestTimesOut, PollJob, PollDeadline
  <2>3. caller' \in CallerStates /\ caller'.call = caller.call
    <3>1. CASE caller' = Answered
      <4>1. 0 \in 0..MaxPolls
        BY <1>0
      <4>2. Answered \in CallerStates /\ Answered.call = caller.call
        BY <1>0, <4>1 DEF Answered, CallerStates
      <4>3. QED BY <3>1, <4>2
    <3>2. CASE caller.polls < MaxPolls /\ caller' = [caller EXCEPT !.polls = @ + 1]
      <4>1. caller.polls + 1 \in 0..MaxPolls
        BY <1>0, <3>2 DEF CallerStates
      <4>2. QED BY <1>0, <3>2, <4>1 DEF CallerStates
    <3>3. QED BY <2>2, <3>1, <3>2
  <2>4. QED BY <2>1, <2>3 DEF JobsMove
<1>5. ASSUME NEW c \in Calls, \/ JobStep(c) \/ CancelJob(c)
      PROVE  JobsMove /\ caller' \in CallerStates
  <2>1. /\ caller' = caller
        /\ job[c].pc # "off" \/ job[c].status = "running"
    BY <1>5 DEF JobStep, CancelJob, LoadContext, BeginAttempt, ExhaustAttempts, TryPatch,
       PrAnswered
  <2>2. c <= caller.call
    BY <2>1, BegunFacts DEF NoJob
  <2>3. \E x \in JobStates : Moves(c, x)
    <3>1. CASE LoadContext(c)
      <4>1. PICK x \in {[job[c] EXCEPT !.pc = "top"],
                        [[job[c] EXCEPT !.pc = "off"] EXCEPT !.status = "failed"]} :
               job' = [job EXCEPT ![c] = x]
        BY <1>0, <3>1 DEF LoadContext, JobStates
      <4>2. x \in JobStates /\ x.attempt = job[c].attempt /\ x.pc \in {"off", "top"}
        BY <1>0, <4>1 DEF JobStates
      <4>3. QED BY <2>2, <3>1, <4>1, <4>2 DEF LoadContext, Moves
    <3>2. CASE BeginAttempt(c)
      <4>1. CASE Cancelled(c)
        <5> DEFINE x == [[job[c] EXCEPT !.pc = "off"] EXCEPT !.status = "cancelled"]
        <5>1. job' = [job EXCEPT ![c] = x]
          BY <1>0, <3>2, <4>1 DEF BeginAttempt, JobStates
        <5>2. x \in JobStates /\ x.attempt = job[c].attempt /\ x.pc = "off"
          BY <1>0 DEF JobStates
        <5>3. QED BY <2>2, <5>1, <5>2 DEF Moves
      <4>2. CASE ~Cancelled(c)
        <5> DEFINE x == [[[job[c] EXCEPT !.pc = "plan"] EXCEPT !.status = "running"]
                            EXCEPT !.attempt = job[c].attempt + 1]
        <5>1. job' = [job EXCEPT ![c] = x] /\ job[c].attempt < MaxAttempts /\ job[c].pc = "top"
          BY <1>0, <3>2, <4>2 DEF BeginAttempt, JobStates
        <5>2. job[c] \in JobStates /\ job[c].attempt + 1 \in 0..MaxAttempts
          BY <1>0, <5>1 DEF JobStates
        <5>3. x \in JobStates /\ x.attempt = job[c].attempt + 1 /\ x.pc = "plan"
          BY <5>2 DEF JobStates
        <5>4. QED BY <2>2, <5>1, <5>3 DEF Moves
      <4>3. QED BY <4>1, <4>2
    <3>3. CASE ExhaustAttempts(c)
      <4> DEFINE x == [[job[c] EXCEPT !.pc = "off"] EXCEPT !.status = "failed"]
      <4>1. job' = [job EXCEPT ![c] = x]
        BY <1>0, <3>3 DEF ExhaustAttempts, JobStates
      <4>2. x \in JobStates /\ x.attempt = job[c].attempt /\ x.pc = "off"
        BY <1>0 DEF JobStates
      <4>3. QED BY <2>2, <4>1, <4>2 DEF Moves
    <3>4. CASE TryPatch(c)
      <4>1. PICK pc \in {"pr", "top"} : job' = [job EXCEPT ![c] = [job[c] EXCEPT !.pc = pc]]
        BY <1>0, <3>4 DEF TryPatch, JobStates
      <4>2. /\ [job[c] EXCEPT !.pc = pc] \in JobStates
            /\ [job[c] EXCEPT !.pc = pc].attempt = job[c].attempt
            /\ [job[c] EXCEPT !.pc = pc].pc = pc
        BY <1>0 DEF JobStates
      <4>3. job[c].pc = "plan"
        BY <3>4 DEF TryPatch
      <4>4. QED BY <2>2, <4>1, <4>2, <4>3 DEF Moves
    <3>5. CASE PrAnswered(c)
      <4>1. PICK x \in {[job[c] EXCEPT !.pc = "top"],
                        [[job[c] EXCEPT !.pc = "off"] EXCEPT !.status = "succeeded"]} :
               job' = [job EXCEPT ![c] = x]
        BY <1>0, <3>5 DEF PrAnswered, JobStates
      <4>2. x \in JobStates /\ x.attempt = job[c].attempt /\ x.pc \in {"off", "top"}
        BY <1>0, <4>1 DEF JobStates
      <4>3. QED BY <2>2, <3>5, <4>1, <4>2 DEF PrAnswered, Moves
    <3>6. CASE CancelJob(c)
      <4> DEFINE x == [[job[c] EXCEPT !.status = "cancelled"] EXCEPT !.cancelled = TRUE]
      <4>1. job' = [job EXCEPT ![c] = x]
        BY <1>0, <3>6 DEF CancelJob, JobStates
      <4>2. x \in JobStates /\ x.attempt = job[c].attempt /\ x.pc = job[c].pc
        BY <1>0 DEF JobStates
      <4>3. QED BY <2>2, <4>1, <4>2 DEF Moves
    <3>7. QED BY <1>5, <3>1, <3>2, <3>3, <3>4, <3>5, <3>6 DEF JobStep
  <2>4. QED BY <1>0, <2>1, <2>3 DEF JobsMove
<1>6. CASE RestartCodingAgent
  BY <1>0, <1>6 DEF RestartCodingAgent, JobsMove
<1>7. QED BY <1>1, <1>2, <1>3, <1>4, <1>5, <1>6 DEF Next, Progress

\* The jobs keep their type.
LEMMA JobTypes ==
    ASSUME Typed, JobsMove
    PROVE  job' \in [Calls -> JobStates]
<1>1. NoJob \in JobStates
  BY CodeFixAssumption DEF NoJob, JobStates
<1>2. NewJob \in JobStates
  BY <1>1 DEF NewJob, JobStates
<1>3. QED BY <1>1, <1>2 DEF Typed, JobsMove, CallBegins, Moves

-----------------------------------------------------------------------------
(* The invariant *)

LEMMA InitInv == Init => CodeFixInv
<1> SUFFICES ASSUME Init PROVE CodeFixInv
  OBVIOUS
<1>1. Typed
  BY CodeFixAssumption DEF Init, Typed, Actions, NoJob, NoRequest, WatchOff, CallerStates,
     JobStates, RequestStates, WatchStates
<1>2. PatchesAreKept
  BY DEF Init, PatchesAreKept, PatchIsKept, NoRequest, UnderWay
<1>3. RequestsAreFresh
  BY DEF Init, RequestsAreFresh, JobIsFresh, NoRequest, NoJob, Requests
<1>4. QED BY <1>1, <1>2, <1>3 DEF CodeFixInv

LEMMA TypesStep ==
    ASSUME CodeFixInv, [Next]_vars
    PROVE  Typed'
<1>1. caller' \in CallerStates /\ job' \in [Calls -> JobStates]
  BY StepsMoveJobs, JobTypes DEF CodeFixInv
<1>2. /\ req' \in [Requests -> RequestStates]
      /\ github' \in [head: [Files -> Requests \cup {<<>>}], pr: BOOLEAN]
  BY StepsMoveRequests, RequestFacts DEF CodeFixInv
<1>3. plan' \in Actions \cup {"none"}
  <2>1. CASE PlanFailure
    BY <2>1 DEF PlanFailure, Actions
  <2>2. CASE ~PlanFailure
    <3>1. plan' = plan
      BY <2>2 DEF Next, Progress, vars, RequestPr, RunFix, CallerStep, RequestAnswered,
         RequestTimesOut, PollJob, PollDeadline, WatchStep, PollCi, CiDeadline, PollCiThrows,
         JobStep, LoadContext, BeginAttempt, ExhaustAttempts, TryPatch, PrAnswered, RequestStep,
         OpenIssue, EnsureBranch, PutFile, OpenPull, CancelJob, RestartCodingAgent,
         RestartCicdAgent
    <3>2. QED BY <3>1 DEF CodeFixInv, Typed
  <2>3. QED BY <2>1, <2>2
<1>4. watch' \in WatchStates
  <2>1. watch \in WatchStates /\ MaxPolls \in Nat \ {0}
    BY CodeFixAssumption DEF CodeFixInv, Typed
  <2>2. WatchOff \in WatchStates /\ WatchStarted(watch) \in WatchStates
    BY <2>1 DEF WatchOff, WatchStarted, WatchStates
  <2>3. watch.polls < MaxPolls => [watch EXCEPT !.polls = watch.polls + 1] \in WatchStates
    BY <2>1 DEF WatchStates
  <2>4. \/ watch' \in {watch, WatchOff, WatchStarted(watch)}
        \/ watch.polls < MaxPolls /\ watch' = [watch EXCEPT !.polls = watch.polls + 1]
    BY DEF Next, Progress, vars, PlanFailure, RequestPr, RunFix, CallerStep, RequestAnswered,
       RequestTimesOut, PollJob, PollDeadline, ScheduleWatch, WatchStep, PollCi, CiDeadline,
       PollCiThrows, JobStep, LoadContext, BeginAttempt, ExhaustAttempts, TryPatch, PrAnswered,
       RequestStep, OpenIssue, EnsureBranch, PutFile, OpenPull, CancelJob, RestartCodingAgent,
       RestartCicdAgent
  <2>5. QED BY <2>1, <2>2, <2>3, <2>4
<1>5. restarts' \in 0..MaxRestarts
  <2>1. restarts \in 0..MaxRestarts /\ MaxRestarts \in Nat
    BY CodeFixAssumption DEF CodeFixInv, Typed
  <2>2. \/ restarts' = restarts
        \/ restarts < MaxRestarts /\ restarts' = restarts + 1
    BY DEF Next, Progress, vars, PlanFailure, RequestPr, RunFix, CallerStep, RequestAnswered,
       RequestTimesOut, PollJob, PollDeadline, WatchStep, PollCi, CiDeadline,
       PollCiThrows, JobStep, LoadContext, BeginAttempt, ExhaustAttempts, TryPatch, PrAnswered,
       RequestStep, OpenIssue, EnsureBranch, PutFile, OpenPull, CancelJob, RestartCodingAgent,
       RestartCicdAgent
  <2>3. QED BY <2>1, <2>2
<1>6. QED BY <1>1, <1>2, <1>3, <1>4, <1>5 DEF Typed

\* What was not yet asked for stays so, but for the one request that a step makes: of the
\* call that begins, or of the attempt that has its patch.
StayUnmade(requests) == \A r \in requests : req[r].at = "none" => req'[r].at = "none"

AsksForPr(c) ==
    /\ job[c].pc = "plan" /\ job' = [job EXCEPT ![c].pc = "pr"]
    /\ caller' = caller

LEMMA RequestsStayUnmade ==
    ASSUME CodeFixInv, [Next]_vars
    PROVE  \/ StayUnmade(Requests)
           \/ CallBegins /\ StayUnmade(Requests \ {<<caller.call + 1, 0>>})
           \/ \E c \in Calls : AsksForPr(c) /\ StayUnmade(Requests \ {<<c, job[c].attempt>>})
<1>0. req \in [Requests -> RequestStates]
  BY DEF CodeFixInv, Typed
<1>1. ASSUME NEW r, SendRequest(r) PROVE StayUnmade(Requests \ {r})
  BY <1>0, <1>1 DEF SendRequest, StayUnmade
<1>2. ASSUME req' = req PROVE StayUnmade(Requests)
  BY <1>2 DEF StayUnmade
<1>3. CASE RequestPr
  <2>1. \/ req' = req
        \/ /\ SendRequest(<<caller.call + 1, 0>>)
           /\ caller.call < MaxCalls /\ job' = job
           /\ caller' = [at |-> "request", call |-> caller.call + 1, polls |-> 0]
    BY <1>3 DEF RequestPr
  <2>2. QED BY <1>1, <1>2, <2>1 DEF CallBegins
<1>4. ASSUME NEW c \in Calls, TryPatch(c)
      PROVE  \/ StayUnmade(Requests)
             \/ AsksForPr(c) /\ StayUnmade(Requests \ {<<c, job[c].attempt>>})
  <2>1. \/ req' = req
        \/ AsksForPr(c) /\ SendRequest(<<c, job[c].attempt>>)
    BY <1>4 DEF TryPatch, AsksForPr
  <2>2. SendRequest(<<c, job[c].attempt>>) => StayUnmade(Requests \ {<<c, job[c].attempt>>})
    BY <1>1
  <2>3. QED BY <1>2, <2>1, <2>2
<1>5. ASSUME NEW r \in Requests, RequestStep(r) PROVE StayUnmade(Requests)
  <2>1. req[r].at \in {"branch", "files"}
    BY <1>5 DEF RequestStep, OpenIssue, EnsureBranch, PutFile, OpenPull
  <2>2. \/ \E at \in {"issue", "files", "ok"} : RequestEnds(r, at)
        \/ RequestFails(r)
        \/ \E f \in req[r].todo : req' = [req EXCEPT ![r].todo = @ \ {f}]
    BY <1>5 DEF RequestStep, OpenIssue, EnsureBranch, PutFile, OpenPull
  <2>3. \A s \in Requests \ {r} : req'[s] = req[s]
    BY <1>0, <2>2 DEF RequestEnds, RequestFails
  <2>4. QED BY <2>1, <2>3 DEF StayUnmade
<1>6. CASE RestartCicdAgent
  BY <1>6 DEF RestartCicdAgent, StayUnmade
<1>7. CASE \/ UNCHANGED vars \/ PlanFailure \/ RunFix \/ CallerStep \/ WatchStep
           \/ RestartCodingAgent
           \/ \E c \in Calls : \/ LoadContext(c) \/ BeginAttempt(c) \/ ExhaustAttempts(c)
                               \/ PrAnswered(c) \/ CancelJob(c)
  <2>1. req' = req
    BY <1>7 DEF PlanFailure, RunFix, CallerStep, RequestAnswered, RequestTimesOut, PollJob,
       PollDeadline, WatchStep, PollCi, CiDeadline, PollCiThrows, RestartCodingAgent, LoadContext,
       BeginAttempt, ExhaustAttempts, PrAnswered, CancelJob, vars
  <2>2. QED BY <1>2, <2>1
<1>8. QED BY <1>3, <1>4, <1>5, <1>6, <1>7 DEF Next, Progress, JobStep

\* A step leaves the requests of later calls and attempts unmade.
LEMMA FreshStep ==
    ASSUME CodeFixInv, [Next]_vars
    PROVE  RequestsAreFresh'
<1>1. /\ RequestsAreFresh /\ job \in [Calls -> JobStates] /\ caller.call \in Nat
      /\ MaxAttempts \in Nat /\ Calls \subseteq Nat \ {0}
      /\ \A c \in Calls : job[c].attempt \in 0..MaxAttempts
      /\ \A c \in Calls, a \in 0..MaxAttempts : <<c, a>> \in Requests
  <2>1. MaxCalls \in Nat /\ MaxAttempts \in Nat
    BY CodeFixAssumption
  <2>2. caller.call \in Nat /\ \A c \in Calls : job[c].attempt \in 0..MaxAttempts
    BY <2>1 DEF CodeFixInv, Typed, CallerStates, JobStates
  <2>3. Calls \subseteq Nat \ {0}
    BY <2>1 DEF Calls
  <2>4. \A c \in Calls, a \in 0..MaxAttempts : <<c, a>> \in Requests
    BY DEF Requests
  <2>5. QED BY <2>1, <2>2, <2>3, <2>4 DEF CodeFixInv, Typed
<1>2. JobsMove
  BY StepsMoveJobs
<1>3. CASE CallBegins /\ StayUnmade(Requests \ {<<caller.call + 1, 0>>})
  <2>1. ASSUME NEW c \in Calls, c > caller'.call
        PROVE  job'[c] = NoJob /\ \A a \in 0..MaxAttempts : req'[<<c, a>>].at = "none"
    <3>1. c > caller.call /\ c # caller.call + 1
      BY <1>1, <1>3, <2>1 DEF CallBegins
    <3>2. job[c] = NoJob /\ \A a \in 0..MaxAttempts : req[<<c, a>>].at = "none"
      BY <1>1, <3>1 DEF RequestsAreFresh
    <3>3. job'[c] = job[c]
      BY <1>1, <1>3, <3>1 DEF CallBegins
    <3>4. QED BY <1>1, <1>3, <3>1, <3>2, <3>3 DEF StayUnmade
  <2>2. ASSUME NEW c \in Calls PROVE JobIsFresh(c)'
    <3>1. \A a \in 1..MaxAttempts : req[<<c, a>>].at = "none" => req'[<<c, a>>].at = "none"
      <4>1. \A a \in 1..MaxAttempts : <<c, a>> # <<caller.call + 1, 0>> /\ a \in 0..MaxAttempts
        BY <1>1
      <4>2. QED BY <1>1, <1>3, <4>1 DEF StayUnmade
    <3>2. CASE job'[c] = job[c]
      BY <1>1, <3>1, <3>2 DEF RequestsAreFresh, JobIsFresh
    <3>3. CASE job'[c] # job[c]
      <4>1. c = caller.call + 1 /\ job' = [job EXCEPT ![c] = NewJob]
        BY <1>1, <1>3, <3>3 DEF CallBegins
      <4>2. NewJob.pc = "context"
        BY DEF NewJob, NoJob
      <4>3. \A a \in 0..MaxAttempts : req[<<c, a>>].at = "none"
        BY <1>1, <4>1 DEF RequestsAreFresh
      <4>4. QED BY <1>1, <3>1, <4>1, <4>2, <4>3 DEF JobIsFresh
    <3>4. QED BY <3>2, <3>3
  <2>3. QED BY <2>1, <2>2 DEF RequestsAreFresh
<1>4. CASE ~CallBegins /\ StayUnmade(Requests)
  <2>1. caller'.call = caller.call
    BY <1>2, <1>4 DEF JobsMove
  <2>2. ASSUME NEW c \in Calls, c > caller'.call
        PROVE  job'[c] = NoJob /\ \A a \in 0..MaxAttempts : req'[<<c, a>>].at = "none"
    <3>1. c > caller.call
      BY <2>1, <2>2
    <3>2. job[c] = NoJob /\ \A a \in 0..MaxAttempts : req[<<c, a>>].at = "none"
      BY <1>1, <3>1 DEF RequestsAreFresh
    <3>3. job'[c] = NoJob
      BY <1>1, <1>2, <1>4, <3>1, <3>2 DEF JobsMove, Moves
    <3>4. QED BY <1>1, <1>4, <3>2, <3>3 DEF StayUnmade
  <2>3. ASSUME NEW c \in Calls PROVE JobIsFresh(c)'
    <3>1. \A a \in 1..MaxAttempts : req[<<c, a>>].at = "none" => req'[<<c, a>>].at = "none"
      BY <1>1, <1>4 DEF StayUnmade
    <3>2. CASE job'[c] = job[c]
      BY <1>1, <3>1, <3>2 DEF RequestsAreFresh, JobIsFresh
    <3>3. CASE job'[c] = NoJob
      BY <3>3 DEF JobIsFresh, NoJob
    <3>4. ASSUME NEW x \in JobStates, Moves(c, x) PROVE JobIsFresh(c)'
      <4>1. job'[c] = x /\ x.attempt \in 0..MaxAttempts
        BY <1>1, <3>4 DEF Moves, JobStates
      <4>2. JobIsFresh(c)
        BY <1>1 DEF RequestsAreFresh
      <4>3. CASE x.attempt = job[c].attempt
        <5>1. x.pc = "plan" => job[c].pc = "plan"
          BY <1>1, <3>4, <4>3 DEF Moves
        <5>2. QED BY <1>1, <3>1, <3>4, <4>1, <4>2, <4>3, <5>1 DEF JobIsFresh, Moves
      <4>4. CASE x.attempt = job[c].attempt + 1
        <5>1. x.attempt \in 1..MaxAttempts /\ \A a \in 1..MaxAttempts :
                 a >= x.attempt => a > job[c].attempt
          BY <1>1, <4>1, <4>4
        <5>2. QED BY <1>1, <3>1, <3>4, <4>1, <4>2, <4>4, <5>1 DEF JobIsFresh, Moves
      <4>5. QED BY <3>4, <4>3, <4>4 DEF Moves
    <3>5. QED BY <1>1, <1>2, <1>4, <3>2, <3>3, <3>4 DEF JobsMove, Moves
  <2>4. QED BY <2>2, <2>3 DEF RequestsAreFresh
<1>5. ASSUME NEW b \in Calls, AsksForPr(b), StayUnmade(Requests \ {<<b, job[b].attempt>>})
      PROVE  RequestsAreFresh'
  <2>0. job[b].pc = "plan" /\ job' = [job EXCEPT ![b].pc = "pr"] /\ caller' = caller
    BY <1>5 DEF AsksForPr
  <2>1. b <= caller.call
    BY <2>0, BegunFacts DEF NoJob
  <2>2. \A c \in Calls \ {b} : job'[c] = job[c]
    BY <1>1, <2>0
  <2>3. job'[b].pc = "pr" /\ job'[b].attempt = job[b].attempt
    BY <1>1, <2>0 DEF JobStates
  <2>4. ASSUME NEW c \in Calls, NEW a \in 0..MaxAttempts, req[<<c, a>>].at = "none",
               c # b \/ a # job[b].attempt
        PROVE  req'[<<c, a>>].at = "none"
    <3>1. <<c, a>> # <<b, job[b].attempt>>
      BY <2>4
    <3>2. QED BY <1>1, <1>5, <2>4, <3>1 DEF StayUnmade
  <2>5. ASSUME NEW c \in Calls, c > caller'.call
        PROVE  job'[c] = NoJob /\ \A a \in 0..MaxAttempts : req'[<<c, a>>].at = "none"
    <3>1. c > caller.call /\ c # b
      BY <1>1, <2>0, <2>1, <2>5
    <3>2. QED BY <1>1, <2>2, <2>4, <3>1 DEF RequestsAreFresh
  <2>6. ASSUME NEW c \in Calls PROVE JobIsFresh(c)'
    <3>1. JobIsFresh(c) /\ 1..MaxAttempts \subseteq 0..MaxAttempts
      BY <1>1 DEF RequestsAreFresh
    <3>2. CASE c = b
      <4>1. \A a \in 1..MaxAttempts : a > job[b].attempt => req'[<<b, a>>].at = "none"
        BY <1>1, <2>0, <2>4, <3>1, <3>2 DEF JobIsFresh
      <4>2. QED BY <2>3, <3>2, <4>1 DEF JobIsFresh
    <3>3. CASE c # b
      BY <2>2, <2>4, <3>1, <3>3 DEF JobIsFresh
    <3>4. QED BY <3>2, <3>3
  <2>7. QED BY <2>5, <2>6 DEF RequestsAreFresh
<1>6. StayUnmade(Requests) => StayUnmade(Requests \ {<<caller.call + 1, 0>>})
  BY DEF StayUnmade
<1>7. QED BY <1>3, <1>4, <1>5, <1>6, RequestsStayUnmade

LEMMA NextInv == CodeFixInv /\ [Next]_vars => CodeFixInv'
<1> SUFFICES ASSUME CodeFixInv, [Next]_vars PROVE CodeFixInv'
  OBVIOUS
<1>1. PatchesAreKept'
  BY StepsMoveRequests, PatchesStayKept DEF CodeFixInv
<1>2. QED BY <1>1, TypesStep, FreshStep DEF CodeFixInv

LEMMA CodeFixInvariant == Spec => []CodeFixInv
  BY InitInv, NextInv, PTL DEF Spec

-----------------------------------------------------------------------------
(* The theorems *)

\* Every variable keeps its type: no job makes more attempts, and no call or watch more
\* polls, than it may (fix-loop.ts, tool-runtime.ts, ci-verify-poll.ts).
THEOREM TypesAreKept == Spec => []TypeOK
<1>1. CodeFixInv => TypeOK
  BY DEF CodeFixInv, Typed, CallerStates, JobStates, RequestStates, WatchStates, TypeOK
<1>2. QED BY <1>1, CodeFixInvariant, PTL

\* Requests that overlap, given up by their clients or not, write one head branch file by
\* file, and yet an open pull request has the whole patch it was asked for: a file is only
\* written over the base's, so nobody writes over what another has written
\* (github.ts:406-426).
THEOREM PatchesStayIntact == Spec => []OpenedPatchIsIntact
<1>1. CodeFixInv => OpenedPatchIsIntact
  BY DEF CodeFixInv, PatchesAreKept, PatchIsKept, UnderWay, OpenedPatchIsIntact
<1>2. QED BY <1>1, CodeFixInvariant, PTL

\* A request whose pull request was opened is never made again or taken back, though jobs
\* are lost and calls repeated: every attempt of every job asks on its own account
\* (fix-loop.ts:168-210).
OpenedForGood == [][\A r \in Requests : req[r].at = "ok" => req'[r] = req[r]]_vars

\* The head branch's pull request is opened by one request for good (fix-loop.ts:168,
\* tool-runtime.ts).
THEOREM OpenedStaysOpen == Spec => OpenedForGood
<1>1. CodeFixInv /\ [Next]_vars => [\A r \in Requests : req[r].at = "ok" => req'[r] = req[r]]_vars
  BY StepsMoveRequests, RequestFacts DEF CodeFixInv
<1>2. QED BY <1>1, CodeFixInvariant, PTL DEF Spec, OpenedForGood

-----------------------------------------------------------------------------
(* Knowledge: the invariant *)

IsText(text) ==
    /\ text = Text(text.fix, text.verified, text.from, text.named, text.entry)
    /\ text.fix \in Fixes \cup {"none"} /\ text.from \subseteq Runs
    /\ text.verified \in BOOLEAN /\ text.named \in BOOLEAN

IsTable(rows) ==
    /\ rows = [k \in DOMAIN rows |-> rows[k]] /\ DOMAIN rows \subseteq Keys
    /\ \A k \in DOMAIN rows : rows[k] = Row(rows[k].text, rows[k].proven) /\ IsText(rows[k].text)

IsPass(w) ==
    /\ w = [at |-> w.at, list |-> w.list, gone |-> w.gone, pair |-> w.pair]
    /\ IsTable(w.list) /\ w.gone \subseteq DOMAIN w.list
    /\ \/ w.at = "scan" /\ w.pair = <<0, 0>>
       \/ w.at = "delete" /\ w.pair \in PairsLeft(w)

RunRows == [at: {"idle", "running", "ended"}, plan: Fixes \cup {"none"}, direct: BOOLEAN,
            seeded: BOOLEAN, cures: SUBSET Fixes, failed: SUBSET Fixes]

SeedRows == [at: {"none", "due", "posted", "over"}, plan: Fixes \cup {"none"}]

IsLearn(row) ==
    /\ row = [at |-> row.at, key |-> row.key, text |-> row.text]
    /\ row.at \in {"none", "sent", "looked", "done", "refused"} /\ IsText(row.text)

\* Whatever the sources say.
AskRows(P) ==
    [at: {"new", "asked", "ready", "cancelled"}, request: P, pending: P, asked: 0..AskLimit,
     full: BOOLEAN, given: BOOLEAN, incident: Nat]

AskTypes == \E P : ask \in [Workloads -> AskRows(P)]

LearningTypes ==
    /\ setup \in Setups
    /\ IsTable(table) /\ boot \in Seq(Keys) /\ taught \subseteq Keys
    /\ worker = Asleep \/ IsPass(worker)
    /\ run \in [Runs -> RunRows]
    /\ seed \in [Tasks -> SeedRows]
    /\ learn = [q \in Pending |-> learn[q]] /\ \A q \in Pending : IsLearn(learn[q])
    /\ AskTypes
    /\ spent \in [faults: Nat, restarts: Nat]

-----------------------------------------------------------------------------
\* Merges lead from one key to the other.
Leads(k1, k2) == k1[1] = k2[1] /\ <<k1[2], k2[2]>> \in Related

\* A run that began is one of the setup, follows a plan of its mode, and has found a cure only when
\* it has ended.
RunOfItsKind(r) ==
    /\ run[r].at # "idle" => r \in DOMAIN setup.key
    /\ run[r].at # "idle" =>
          run[r].plan \in (IF setup.mode[r] = "ci-failure" THEN {"cicd_code_pr"}
                           ELSE {"restart", "git_patch", "noop"})
    /\ run[r].at = "idle" => ~run[r].direct
    /\ run[r].cures # {} => run[r].at = "ended"

\* A run that ended well, after this fix or after another when this one had failed.
Tried(r, fix) == run[r].cures # {} /\ fix \in run[r].cures \cup run[r].failed

\* An outcome teaches once, the plan it was built with; one that needs no planning had been tried by
\* a run that ended well.
TeachesOnce(t) ==
    /\ seed[t].at # "none" => run[t[1]].at = "ended"
    /\ learn[t].at # "none" => seed[t].at \in {"posted", "over"} /\ learn[t].text.fix = seed[t].plan
    /\ seed[t].at # "none" /\ IsDirectRagBypassPlan(seed[t].plan) => Tried(t[1], seed[t].plan)

\* What is sent is filed under a key that merges lead to from its own.
FiledNear(q) ==
    learn[q].at \in {"sent", "looked"} =>
        OwnKey(q) \in Keys /\ learn[q].key \in Keys /\ Leads(learn[q].key, OwnKey(q))

\* A deploy source that is saved is no fix.
SavesNoFix == \A w \in Workloads : learn[Save(w)].text.fix = "none"

RunsInv ==
    /\ \A r \in Runs : RunOfItsKind(r)
    /\ \A t \in Tasks : TeachesOnce(t)
    /\ \A q \in Pending : FiledNear(q)
    /\ SavesNoFix

-----------------------------------------------------------------------------
\* A run that ended well had tried the fix, and taught it under a key that merges lead to.
TaughtBy(t, k, fix) ==
    /\ learn[t].at # "none" /\ learn[t].text.fix = fix /\ Tried(t[1], fix)
    /\ Leads(setup.key[t[1]], k)

Backed(k, text) ==
    IsDirectRagBypassPlan(text.fix) => \E t \in Tasks : TaughtBy(t, k, text.fix)

AllBacked(rows) == \A k \in DOMAIN rows : Backed(k, rows[k].text)

LookedBacked(q) == learn[q].at = "looked" => Backed(learn[q].key, learn[q].text)

\* A run that took its plan from the table was taught by another.
DirectBacked(r) ==
    run[r].direct => \E t \in Tasks : t[1] # r /\ TaughtBy(t, setup.key[r], run[r].plan)

BackedInv ==
    /\ AllBacked(table) /\ AllBacked(worker.list)
    /\ \A q \in Pending : LookedBacked(q)
    /\ \A r \in Runs : DirectBacked(r)

\* The rows of the list that were not yet deleted are still in the table.
KeptInv ==
    /\ KnowledgeIsKept
    /\ DOMAIN worker.list \ worker.gone \subseteq DOMAIN table

-----------------------------------------------------------------------------
\* What is known answers the questions about an operator's resource, a chart, and manifests.
Repo(has) == {"sourceRepo", "gitopsRepo"} \cap has # {}
Path(has) == {"chart", "manifest"} \cap has # {}
OperatorSettled(has) == "operatorCr" \in has /\ {"sourceRepo", "manifest"} \cap has # {}
HelmSettled(has) == Repo(has) /\ Path(has) /\ "ref" \in has
PlainSettled(has) == (Repo(has) \/ Path(has)) /\ (Repo(has) \/ "argoApp" \in has)

Bit(b) == IF b THEN 1 ELSE 0
Settled(has) == Bit(OperatorSettled(has)) + Bit(HelmSettled(has)) + Bit(PlainSettled(has))

\* Every full answer settles one more of the three.
AsksEnd(row) ==
    /\ row.at = "new" => row.asked < AskLimit \/ row.request.hotFix
    /\ row.at = "asked" => NeedsDeploySourcePrompt(row.pending)
    /\ row.full =>
         /\ row.asked <= 3
         /\ row.at = "new" => row.request.hotFix \/ row.asked <= Settled(row.request.has)
         /\ row.at = "asked" => row.asked <= 1 + Settled(row.pending.has)

AsksInv == \A w \in Workloads : AsksEnd(ask[w])
-----------------------------------------------------------------------------
(* Keys that merges lead to *)

LEMMA SignatureOfKey == \A k \in Keys : k[2] \in Signatures
  BY DEF Signatures

LEMMA NearIsSymmetric == \A x, y : Near(x, y) => Near(y, x)
  BY KnowledgeAssumption DEF KnowledgeAssumption, Near

LEMMA LeadsToItself ==
    ASSUME NEW k \in Keys
    PROVE  Leads(k, k)
  BY SignatureOfKey DEF Leads, Related

\* The complement of a closed set is closed, since being near is symmetric.
LEMMA LeadsBack ==
    ASSUME NEW k1 \in Keys, NEW k2 \in Keys, Leads(k1, k2)
    PROVE  Leads(k2, k1)
<1>1. k1[2] \in Signatures /\ k2[2] \in Signatures BY SignatureOfKey
<1>2. SUFFICES ASSUME NEW S \in SUBSET Signatures, k2[2] \in S, Closed(S), k1[2] \notin S PROVE FALSE
  BY <1>1 DEF Leads, Related
<1>3. Closed(Signatures \ S) BY <1>2, NearIsSymmetric DEF Closed
<1>4. k2[2] \in Signatures \ S BY <1>1, <1>2, <1>3 DEF Leads, Related
<1>5. QED BY <1>2, <1>4

LEMMA LeadsOn ==
    ASSUME NEW k1 \in Keys, NEW k2 \in Keys, NEW k3 \in Keys, Leads(k1, k2), Leads(k2, k3)
    PROVE  Leads(k1, k3)
<1>1. k1[2] \in Signatures /\ k3[2] \in Signatures BY SignatureOfKey
<1>2. QED BY <1>1 DEF Leads, Related

LEMMA NearLeads ==
    ASSUME NEW k1 \in Keys, NEW k2 \in Keys, k1[1] = k2[1], Near(k1[2], k2[2])
    PROVE  Leads(k1, k2)
  BY SignatureOfKey DEF Leads, Related, Closed

LEMMA PairOfKeys ==
    ASSUME NEW w, NEW p \in PairsLeft(w)
    PROVE  /\ KeyOrder[p[1]] \in DOMAIN w.list \ w.gone /\ KeyOrder[p[2]] \in DOMAIN w.list \ w.gone
           /\ KeyOrder[p[1]] # KeyOrder[p[2]]
           /\ KeyOrder[p[1]][1] = KeyOrder[p[2]][1] /\ Near(KeyOrder[p[1]][2], KeyOrder[p[2]][2])
           /\ p \in Nat \X Nat /\ p # <<0, 0>>
<1>1. Len(KeyOrder) \in Nat BY KnowledgeAssumption DEF KnowledgeAssumption
<1>2. QED BY <1>1 DEF PairsLeft, Mergeable

-----------------------------------------------------------------------------
(* Initially *)

LEMMA SeedTextIsText == IsText(SeedText)
  BY DEF IsText, SeedText, Text

LEMMA EmptyIsTable == IsTable(<<>>) /\ DOMAIN <<>> = {}
  BY DEF IsTable

LEMMA InitLearning == KnowledgeInit => LearningTypes
<1> SUFFICES ASSUME KnowledgeInit PROVE LearningTypes
  OBVIOUS
<1>1. setup \in Setups /\ boot \in Seq(Keys)
  BY KnowledgeAssumption DEF KnowledgeInit, KnowledgeAssumption
<1>2. run \in [Runs -> RunRows]
  BY DEF KnowledgeInit, NewRun, RunRows
<1>3. seed \in [Tasks -> SeedRows]
  BY DEF KnowledgeInit, SeedRows
<1>4. IsLearn(NotSent)
  BY SeedTextIsText DEF IsLearn, NotSent
<1>5. AskTypes
  <2>1. ask \in [Workloads -> AskRows({Silent, Blank})]
    BY KnowledgeAssumption DEF KnowledgeAssumption, KnowledgeInit, AskRows, NotAsked
  <2>2. QED BY <2>1 DEF AskTypes
<1>6. QED BY <1>1, <1>2, <1>3, <1>4, <1>5, EmptyIsTable DEF KnowledgeInit, LearningTypes

LEMMA SettledAtMostThree == \A has : Settled(has) \in 0..3
<1>1. ASSUME NEW has PROVE Settled(has) \in 0..3
  <2>1. \A a, b, c \in {0, 1} : a + b + c \in 0..3 OBVIOUS
  <2>2. /\ Bit(OperatorSettled(has)) \in {0, 1} /\ Bit(HelmSettled(has)) \in {0, 1}
        /\ Bit(PlainSettled(has)) \in {0, 1}
    BY DEF Bit
  <2>3. QED BY <2>1, <2>2 DEF Settled
<1>2. QED BY <1>1

LEMMA FreshAsk == \A n : AsksEnd([NotAsked EXCEPT !.incident = n]) /\ AsksEnd(NotAsked)
<1>1. AskLimit > 0 BY KnowledgeAssumption DEF KnowledgeAssumption
<1>2. ASSUME NEW row, row.at = "new", row.asked = 0 PROVE AsksEnd(row)
  <2>1. Settled(row.request.has) \in 0..3 BY SettledAtMostThree
  <2>2. QED BY <1>1, <1>2, <2>1 DEF AsksEnd
<1>3. NotAsked.at = "new" /\ NotAsked.asked = 0 BY DEF NotAsked
<1>4. \A n : LET row == [NotAsked EXCEPT !.incident = n] IN row.at = "new" /\ row.asked = 0
  BY DEF NotAsked
<1>5. QED BY <1>2, <1>3, <1>4

LEMMA InitLearned == KnowledgeInit => RunsInv /\ BackedInv /\ KeptInv /\ AsksInv
<1> SUFFICES ASSUME KnowledgeInit PROVE RunsInv /\ BackedInv /\ KeptInv /\ AsksInv
  OBVIOUS
<1>1. RunsInv
  <2>1. \A r \in Runs : RunOfItsKind(r)
    BY DEF KnowledgeInit, RunOfItsKind, NewRun
  <2>2. \A q \in Pending : learn[q].at = "none"
    BY DEF KnowledgeInit, NotSent
  <2>3. \A t \in Tasks : TeachesOnce(t)
    BY <2>2 DEF KnowledgeInit, TeachesOnce, Pending
  <2>4. \A q \in Pending : FiledNear(q)
    BY <2>2 DEF FiledNear
  <2>6. SavesNoFix
    <3>1. \A w \in Workloads : Save(w) \in Pending BY DEF Pending
    <3>2. QED BY <3>1 DEF KnowledgeInit, SavesNoFix, NotSent, SeedText, Text
  <2>5. QED BY <2>1, <2>3, <2>4, <2>6 DEF RunsInv
<1>2. BackedInv
  BY EmptyIsTable DEF KnowledgeInit, BackedInv, AllBacked, LookedBacked, DirectBacked, NewRun, NotSent, Asleep, Pass
<1>3. KeptInv
  BY EmptyIsTable DEF KnowledgeInit, KeptInv, KnowledgeIsKept, Asleep, Pass
<1>4. AsksInv
  BY FreshAsk DEF KnowledgeInit, AsksInv
<1>5. QED BY <1>1, <1>2, <1>3, <1>4

-----------------------------------------------------------------------------
(* Texts, rows and records *)

LEMMA TextFields ==
    ASSUME NEW fix \in Fixes \cup {"none"}, NEW verified \in BOOLEAN, NEW from \in SUBSET Runs,
           NEW named \in BOOLEAN, NEW entry
    PROVE  IsText(Text(fix, verified, from, named, entry)) /\ Text(fix, verified, from, named, entry).fix = fix
  BY DEF IsText, Text

LEMMA ParameterizedText ==
    ASSUME NEW text, IsText(text)
    PROVE  IsText(ParameterizePlaybookMarkdown(text)) /\ ParameterizePlaybookMarkdown(text).fix = text.fix
<1>1. text = [fix |-> text.fix, verified |-> text.verified, from |-> text.from,
              named |-> text.named, entry |-> text.entry]
  BY DEF IsText, Text
<1>2. ASSUME NEW b \in BOOLEAN
      PROVE  [text EXCEPT !.named = b]
               = [fix |-> text.fix, verified |-> text.verified, from |-> text.from, named |-> b,
                  entry |-> text.entry]
  BY <1>1
<1>3. FALSE \in BOOLEAN OBVIOUS
<1>4. ParameterizePlaybookMarkdown(text)
        = [fix |-> text.fix, verified |-> text.verified, from |-> text.from, named |-> FALSE,
           entry |-> text.entry]
  BY <1>2, <1>3, Zenon DEF ParameterizePlaybookMarkdown
<1>5. QED BY <1>4 DEF IsText, Text

LEMMA MergedText ==
    ASSUME NEW a, NEW b, IsText(a), IsText(b), NEW text \in MergeMarkdown(a, b)
    PROVE  IsText(text) /\ text.fix \in {"none", a.fix, b.fix}
<1>1. a.fix \in Fixes \cup {"none"} /\ b.fix \in Fixes \cup {"none"} /\ a.from \cup b.from \subseteq Runs
  BY DEF IsText
<1>2. CASE text \in MergePlaybooksWithLlm(a, b)
  <2>1. text.verified \in {FALSE, a.verified \/ b.verified}
    BY <1>2 DEF MergePlaybooksWithLlm
  <2>2. text.verified \in BOOLEAN BY <2>1 DEF IsText
  <2>3. text.fix \in {"none", a.fix, b.fix} /\ text.from \subseteq Runs
    BY <1>1, <1>2 DEF MergePlaybooksWithLlm
  <2>4. text.named \in BOOLEAN
    BY <1>2 DEF MergePlaybooksWithLlm
  <2>5. text = [fix |-> text.fix, verified |-> text.verified, from |-> text.from,
                named |-> text.named, entry |-> text.entry]
    BY <1>2 DEF MergePlaybooksWithLlm
  <2>6. QED BY <1>1, <2>2, <2>3, <2>4, <2>5 DEF IsText, Text
<1>3. CASE text = Text(IF a.fix # "none" THEN a.fix ELSE b.fix, a.verified \/ b.verified,
                       a.from \cup b.from, a.named, a.entry)
  <2> DEFINE fix == IF a.fix # "none" THEN a.fix ELSE b.fix
  <2>1. fix \in Fixes \cup {"none"} /\ fix \in {"none", a.fix, b.fix} BY <1>1
  <2>2. text = Text(fix, a.verified \/ b.verified, a.from \cup b.from, a.named, a.entry) BY <1>3
  <2> HIDE DEF fix
  <2>3. a.verified \in BOOLEAN /\ b.verified \in BOOLEAN /\ a.named \in BOOLEAN BY DEF IsText
  <2>4. (a.verified \/ b.verified) \in BOOLEAN BY <2>3
  <2>5. QED BY <1>1, <2>1, <2>2, <2>3, <2>4, TextFields
<1>4. QED BY <1>2, <1>3 DEF MergeMarkdown

LEMMA RowFields ==
    ASSUME NEW text, NEW proven
    PROVE  Row(text, proven).text = text /\ Row(text, proven) = Row(Row(text, proven).text, Row(text, proven).proven)
  BY DEF Row

LEMMA PutIsTable ==
    ASSUME IsTable(table), NEW k \in Keys, NEW text, IsText(text), NEW proven
    PROVE  /\ IsTable(Put(k, Row(text, proven)))
           /\ DOMAIN Put(k, Row(text, proven)) = DOMAIN table \cup {k}
           /\ Put(k, Row(text, proven))[k].text = text
           /\ \A j \in DOMAIN table \ {k} : Put(k, Row(text, proven))[j] = table[j]
<1> DEFINE row == Row(text, proven)
<1>1. row.text = text /\ row = Row(row.text, row.proven) BY RowFields
<1> HIDE DEF row
<1>2. Put(k, row) = [j \in DOMAIN table \cup {k} |-> IF j = k THEN row ELSE table[j]] BY DEF Put
<1>3. DOMAIN Put(k, row) = DOMAIN table \cup {k} BY <1>2
<1>4. Put(k, row) = [j \in DOMAIN Put(k, row) |-> Put(k, row)[j]] BY <1>2
<1>5. \A j \in DOMAIN table \cup {k} : Put(k, row)[j] = IF j = k THEN row ELSE table[j] BY <1>2
<1>6. IsTable(Put(k, row)) BY <1>1, <1>3, <1>4, <1>5 DEF IsTable
<1>7. QED BY <1>1, <1>3, <1>5, <1>6 DEF row

LEMMA UpdateIsTable ==
    ASSUME IsTable(table), NEW k \in DOMAIN table, NEW text, IsText(text), NEW proven,
           UpdateRunbook(k, text, proven)
    PROVE  /\ IsTable(table') /\ DOMAIN table' = DOMAIN table
           /\ table'[k].text = ParameterizePlaybookMarkdown(text)
           /\ \A j \in DOMAIN table \ {k} : table'[j] = table[j]
<1> DEFINE param == ParameterizePlaybookMarkdown(text)
           row == Row(param, proven)
<1>1. IsText(param) BY ParameterizedText
<1>2. table' = [table EXCEPT ![k] = row] BY DEF UpdateRunbook
<1> HIDE DEF param
<1>3. row.text = param /\ row = Row(row.text, row.proven) BY RowFields
<1> HIDE DEF row
<1>4. DOMAIN table' = DOMAIN table /\ table' = [j \in DOMAIN table' |-> table'[j]]
  BY <1>2 DEF IsTable
<1>5. table'[k] = row /\ \A j \in DOMAIN table \ {k} : table'[j] = table[j] BY <1>2 DEF IsTable
<1>6. IsTable(table') BY <1>1, <1>3, <1>4, <1>5 DEF IsTable
<1>7. QED BY <1>3, <1>4, <1>5, <1>6 DEF param

LEMMA DeleteIsTable ==
    ASSUME IsTable(table), NEW k, DeleteRunbook(k)
    PROVE  /\ IsTable(table') /\ DOMAIN table' = DOMAIN table \ {k}
           /\ \A j \in DOMAIN table \ {k} : table'[j] = table[j]
  BY DEF IsTable, DeleteRunbook

LEMMA PassHasPairs ==
    ASSUME NEW w, NEW v, w.list = v.list, w.gone = v.gone
    PROVE  PairsLeft(w) = PairsLeft(v)
  BY DEF PairsLeft

LEMMA LearnSet ==
    ASSUME LearningTypes, NEW q \in Pending, NEW row, IsLearn(row), learn' = [learn EXCEPT ![q] = row]
    PROVE  /\ learn' = [p \in Pending |-> learn'[p]] /\ \A p \in Pending : IsLearn(learn'[p])
           /\ learn'[q] = row /\ \A p \in Pending \ {q} : learn'[p] = learn[p]
<1>1. learn' = [p \in Pending |-> learn'[p]] /\ learn'[q] = row /\ \A p \in Pending \ {q} : learn'[p] = learn[p]
  BY DEF LearningTypes
<1>2. QED BY <1>1 DEF LearningTypes

LEMMA SentIsLearn ==
    ASSUME NEW at \in {"none", "sent", "looked", "done", "refused"}, NEW key, NEW text, IsText(text)
    PROVE  IsLearn([at |-> at, key |-> key, text |-> text])
  BY DEF IsLearn

LEMMA LearnRow ==
    ASSUME LearningTypes, NEW q \in Pending
    PROVE  /\ learn[q] = [at |-> learn[q].at, key |-> learn[q].key, text |-> learn[q].text]
           /\ IsText(learn[q].text) /\ learn = [p \in Pending |-> learn[p]]
  BY DEF LearningTypes, IsLearn

\* A learn that only goes on to the next step.
LEMMA LearnGoesOn ==
    ASSUME LearningTypes, NEW q \in Pending, NEW at \in {"none", "sent", "looked", "done", "refused"},
           learn' = [learn EXCEPT ![q].at = at]
    PROVE  /\ learn' = [p \in Pending |-> learn'[p]] /\ \A p \in Pending : IsLearn(learn'[p])
           /\ learn'[q] = [at |-> at, key |-> learn[q].key, text |-> learn[q].text]
           /\ \A p \in Pending \ {q} : learn'[p] = learn[p]
<1> DEFINE old == learn[q]
           row == [at |-> at, key |-> old.key, text |-> old.text]
<1>1. old = [at |-> old.at, key |-> old.key, text |-> old.text] /\ IsText(old.text) BY LearnRow
<1>2. [old EXCEPT !.at = at] = row BY <1>1
<1>3. IsLearn(row) BY <1>1, SentIsLearn
<1>4. learn' = [learn EXCEPT ![q] = [old EXCEPT !.at = at]] OBVIOUS
<1> HIDE DEF row
<1>5. learn' = [learn EXCEPT ![q] = row] BY <1>2, <1>4
<1>6. QED BY <1>3, <1>5, LearnSet DEF row

\* The search gives the text a key and takes the names out.
LEMMA LearnLooked ==
    ASSUME LearningTypes, NEW q \in Pending, NEW k,
           learn' = [learn EXCEPT ![q] =
               [at |-> "looked", key |-> k, text |-> ParameterizePlaybookMarkdown(learn[q].text)]]
    PROVE  /\ learn' = [p \in Pending |-> learn'[p]] /\ \A p \in Pending : IsLearn(learn'[p])
           /\ learn'[q].at = "looked" /\ learn'[q].key = k
           /\ learn'[q].text.fix = learn[q].text.fix
           /\ \A p \in Pending \ {q} : learn'[p] = learn[p]
<1> DEFINE text == ParameterizePlaybookMarkdown(learn[q].text)
           row == [at |-> "looked", key |-> k, text |-> text]
<1>1. IsText(text) /\ text.fix = learn[q].text.fix BY LearnRow, ParameterizedText
<1> HIDE DEF text
<1>2. IsLearn(row) /\ row.at = "looked" /\ row.key = k /\ row.text = text BY <1>1, SentIsLearn
<1>3. learn' = [learn EXCEPT ![q] = row] BY DEF text
<1> HIDE DEF row
<1>4. QED BY <1>1, <1>2, <1>3, LearnSet

LEMMA AskRowsOf ==
    ASSUME LearningTypes, NEW value
    PROVE  \E P : value \in P /\ ask \in [Workloads -> AskRows(P)]
<1>1. PICK P : ask \in [Workloads -> AskRows(P)] BY DEF LearningTypes, AskTypes
<1>2. ask \in [Workloads -> AskRows(P \cup {value})] BY <1>1 DEF AskRows
<1>3. QED BY <1>2

-----------------------------------------------------------------------------
(* Types are kept *)

\* The variables of the platform keep their types.
PlatformTypes ==
    /\ IsTable(table) /\ boot \in Seq(Keys) /\ taught \subseteq Keys
    /\ worker = Asleep \/ IsPass(worker)

LearnTypes == learn = [q \in Pending |-> learn[q]] /\ \A q \in Pending : IsLearn(learn[q])

LEMMA TypesAgain ==
    ASSUME LearningTypes, UNCHANGED setup, PlatformTypes', LearnTypes', AskTypes',
           UNCHANGED run \/ run' \in [Runs -> RunRows],
           UNCHANGED seed \/ seed' \in [Tasks -> SeedRows],
           UNCHANGED spent \/ spent' \in [faults: Nat, restarts: Nat]
    PROVE  LearningTypes'
  BY DEF LearningTypes, PlatformTypes, LearnTypes

LEMMA PlatformRests ==
    ASSUME LearningTypes, UNCHANGED <<table, boot, worker, taught>>
    PROVE  PlatformTypes'
  BY DEF LearningTypes, PlatformTypes, IsTable, IsPass, PairsLeft

LEMMA LearnRests ==
    ASSUME LearningTypes, UNCHANGED learn
    PROVE  LearnTypes'
  BY DEF LearningTypes, LearnTypes

LEMMA AskRests ==
    ASSUME LearningTypes, UNCHANGED ask
    PROVE  AskTypes'
  BY DEF LearningTypes, AskTypes

LEMMA FaultTypes ==
    ASSUME LearningTypes, Fault
    PROVE  spent' \in [faults: Nat, restarts: Nat]
  BY DEF LearningTypes, Fault

LEMMA TaskOfRun == \A t \in Tasks : t \in Pending /\ t[1] \in Runs /\ t[2] # "save"
  BY DEF Tasks, Pending

LEMMA SaveIsPending == \A w \in Workloads : Save(w) \in Pending /\ Save(w)[1] = w /\ Save(w)[2] = "save" /\ Save(w) \notin Tasks
  BY DEF Pending, Save, Tasks

LEMMA FixesOfPlans ==
    /\ Fixes = {"restart", "git_patch", "cicd_code_pr", "noop"}
    /\ \A fix : IsDirectRagBypassPlan(fix) <=> fix \in {"restart", "noop"}
  BY DEF Fixes, IsDirectRagBypassPlan

LEMMA TriageTypes ==
    ASSUME LearningTypes, NEW r \in Runs, RunRagTriageGate(r)
    PROVE  /\ run' \in [Runs -> RunRows] /\ \A q \in Runs \ {r} : run'[q] = run[q]
           /\ run[r].at = "idle" /\ r \in DOMAIN setup.key /\ run'[r].at = "running"
           /\ run'[r].cures = run[r].cures /\ run'[r].failed = run[r].failed
           /\ \/ /\ setup.mode[r] = "diagnose" /\ run'[r].direct
                 /\ \E text \in RagGround(setup.key[r]) :
                       run'[r].plan = text.fix /\ IsDirectRagBypassPlan(text.fix)
              \/ /\ run'[r].direct = run[r].direct
                 /\ run'[r].plan \in (IF setup.mode[r] = "diagnose" THEN {"restart", "git_patch"}
                                      ELSE {"cicd_code_pr"})
<1>1. run \in [Runs -> RunRows] BY DEF LearningTypes
<1>2. CASE setup.mode[r] = "diagnose"
           /\ \E text \in RagGround(setup.key[r]) :
                LET fix == ParseVerifiedRunbookPlan(text)
                IN /\ IsDirectRagBypassPlan(fix)
                   /\ run' = [run EXCEPT ![r].at = "running", ![r].plan = fix, ![r].direct = TRUE]
  <2>1. PICK text \in RagGround(setup.key[r]) :
           /\ IsDirectRagBypassPlan(ParseVerifiedRunbookPlan(text))
           /\ run' = [run EXCEPT ![r].at = "running", ![r].plan = ParseVerifiedRunbookPlan(text),
                                 ![r].direct = TRUE]
    BY <1>2
  <2>2. ParseVerifiedRunbookPlan(text) = text.fix /\ text.fix \in Fixes
    BY <2>1, FixesOfPlans DEF ParseVerifiedRunbookPlan
  <2>3. run' = [run EXCEPT ![r].at = "running", ![r].plan = text.fix, ![r].direct = TRUE]
    BY <2>1, <2>2
  <2>4. IsDirectRagBypassPlan(text.fix) BY <2>1, <2>2
  <2>5. run' \in [Runs -> RunRows]
    <3> DEFINE row == [run[r] EXCEPT !.at = "running", !.plan = text.fix, !.direct = TRUE]
    <3>1. TRUE \in BOOLEAN /\ run[r] \in RunRows BY <1>1
    <3>2. row \in RunRows BY <2>2, <3>1 DEF RunRows
    <3>3. run' = [run EXCEPT ![r] = row] BY <2>3
    <3> HIDE DEF row
    <3>4. QED BY <1>1, <3>2, <3>3
  <2>6. /\ \A q \in Runs \ {r} : run'[q] = run[q]
        /\ run'[r].at = "running" /\ run'[r].plan = text.fix /\ run'[r].direct = TRUE
        /\ run'[r].cures = run[r].cures /\ run'[r].failed = run[r].failed
    BY <1>1, <2>3 DEF RunRows
  <2>7. QED BY <1>2, <2>1, <2>4, <2>5, <2>6 DEF RunRagTriageGate
<1>3. CASE \E fix \in IF setup.mode[r] = "diagnose" THEN {"restart", "git_patch"} ELSE {"cicd_code_pr"} :
              run' = [run EXCEPT ![r].at = "running", ![r].plan = fix]
  <2>1. PICK fix \in IF setup.mode[r] = "diagnose" THEN {"restart", "git_patch"} ELSE {"cicd_code_pr"} :
              run' = [run EXCEPT ![r].at = "running", ![r].plan = fix]
    BY <1>3
  <2>2. fix \in Fixes BY FixesOfPlans
  <2>3. run' \in [Runs -> RunRows]
    <3> DEFINE row == [run[r] EXCEPT !.at = "running", !.plan = fix]
    <3>1. run[r] \in RunRows BY <1>1
    <3>2. row \in RunRows BY <2>2, <3>1 DEF RunRows
    <3>3. run' = [run EXCEPT ![r] = row] BY <2>1
    <3> HIDE DEF row
    <3>4. QED BY <1>1, <3>2, <3>3
  <2>4. /\ \A q \in Runs \ {r} : run'[q] = run[q]
        /\ run'[r].at = "running" /\ run'[r].plan = fix /\ run'[r].direct = run[r].direct
        /\ run'[r].cures = run[r].cures /\ run'[r].failed = run[r].failed
    BY <1>1, <2>1 DEF RunRows
  <2>5. QED BY <2>1, <2>3, <2>4 DEF RunRagTriageGate
<1>4. QED BY <1>2, <1>3 DEF RunRagTriageGate

-----------------------------------------------------------------------------
(* Outcomes *)

LEMMA LastOfOne == \A a : Last(<<a>>) = a
  BY DEF Last

LEMMA LastOfTwo == \A a, b : Last(<<a, b>>) = b
  BY DEF Last

LEMMA WhatWorked ==
    ASSUME NEW status, NEW acts, NEW fix, InferWorked(status, acts, fix) = "yes"
    PROVE  /\ fix # "noop" /\ status \notin {"failed", "escalated", "awaiting_human"}
           /\ acts # <<>> => status = "succeeded" /\ Last(acts).ok /\ ~Last(acts).degraded
  BY DEF InferWorked

\* What an ending says, as far as teaching goes: its plan is the fix of its last act, one that had
\* failed or none to teach, and it has no acts only if it teaches nothing.
SaysWhatWasDone(e) ==
    /\ e.plan \in Fixes /\ e.failed \subseteq Fixes
    /\ e.acts # <<>> => Last(e.acts).fix \in Fixes
    /\ e.acts # <<>> => e.plan \in {Last(e.acts).fix, "noop"} \cup e.failed
    /\ e.acts = <<>> => e.status = "awaiting_human" \/ e.plan = "noop"

LEMMA OneActSaysIt ==
    ASSUME NEW status, NEW fix \in Fixes, NEW ok, NEW degraded, NEW failed \in Fixes \cup {"none"},
           NEW pending \in Fixes, failed # "none" \/ pending \in {fix, "noop"}
    PROVE  SaysWhatWasDone(Ending(status, <<Act(fix, ok, degraded)>>, failed, pending))
<1> DEFINE act == Act(fix, ok, degraded)
           e == Ending(status, <<act>>, failed, pending)
<1>1. act.fix = fix BY DEF Act
<1> HIDE DEF act
<1>2. /\ e.acts = <<act>> /\ e.plan \in Fixes /\ e.failed \subseteq Fixes
      /\ e.plan \in {fix, "noop"} \cup e.failed
  BY FixesOfPlans DEF Ending
<1> HIDE DEF e
<1>3. SaysWhatWasDone(e) BY <1>1, <1>2, LastOfOne DEF SaysWhatWasDone
<1>4. QED BY <1>3 DEF e, act

LEMMA TwoActsSayIt ==
    ASSUME NEW status, NEW first, NEW fix \in Fixes, NEW ok, NEW degraded,
           NEW failed \in Fixes \cup {"none"}, NEW pending \in Fixes,
           failed # "none" \/ pending \in {fix, "noop"}
    PROVE  SaysWhatWasDone(Ending(status, <<first, Act(fix, ok, degraded)>>, failed, pending))
<1> DEFINE act == Act(fix, ok, degraded)
           e == Ending(status, <<first, act>>, failed, pending)
<1>1. act.fix = fix BY DEF Act
<1> HIDE DEF act
<1>2. /\ e.acts = <<first, act>> /\ e.plan \in Fixes /\ e.failed \subseteq Fixes
      /\ e.plan \in {fix, "noop"} \cup e.failed
  BY FixesOfPlans DEF Ending
<1> HIDE DEF e
<1>3. SaysWhatWasDone(e) BY <1>1, <1>2, LastOfTwo DEF SaysWhatWasDone
<1>4. QED BY <1>3 DEF e, act

LEMMA NoActSaysIt ==
    ASSUME NEW status, NEW pending \in Fixes, status = "awaiting_human" \/ pending = "noop"
    PROVE  SaysWhatWasDone(Ending(status, <<>>, "none", pending))
  BY DEF SaysWhatWasDone, Ending

LEMMA EndingsSayIt ==
    ASSUME NEW r, NEW p \in Fixes, NEW e \in Endings(r, p)
    PROVE  SaysWhatWasDone(e)
<1> DEFINE done == Act(p, TRUE, FALSE)
           failed == Act(p, FALSE, FALSE)
           unhealed == Act(p, TRUE, TRUE)
           another == {Act(q, TRUE, FALSE) : q \in {"restart", "git_patch"} \ {p}}
<1>1. "noop" \in Fixes /\ "none" \in Fixes \cup {"none"} /\ p \in Fixes \cup {"none"}
      /\ {"restart", "git_patch"} \subseteq Fixes
  BY FixesOfPlans
<1>2. CASE e \in {Ending("succeeded", <<done>>, "none", p), Ending("failed", <<failed>>, "none", p)}
  BY <1>1, <1>2, OneActSaysIt
<1>3. CASE e \in {Ending("succeeded", <<done>>, "none", p),
             Ending("succeeded", <<failed>>, p, "noop"),
             Ending("succeeded", <<unhealed>>, "none", "noop"),
             Ending("succeeded", <<unhealed>>, "none", p),
             Ending("escalated", <<unhealed>>, "none", p)}
  BY <1>1, <1>3, OneActSaysIt
<1>4. CASE e \in {Ending("succeeded", <<>>, "none", "noop"), Ending("awaiting_human", <<>>, "none", p)}
  BY <1>1, <1>4, NoActSaysIt
<1>5. CASE e \in {Ending("succeeded", <<failed, q>>, p, q.fix) : q \in another}
  <2>1. PICK fix \in {"restart", "git_patch"} \ {p} :
            e = Ending("succeeded", <<failed, Act(fix, TRUE, FALSE)>>, p, Act(fix, TRUE, FALSE).fix)
    BY <1>5
  <2>2. Act(fix, TRUE, FALSE).fix = fix /\ fix \in Fixes BY <1>1 DEF Act
  <2>3. QED BY <1>1, <2>1, <2>2, TwoActsSayIt
<1>6. CASE e \in {Ending("succeeded", <<unhealed, q>>, "none", q.fix) : q \in another}
  <2>1. PICK fix \in {"restart", "git_patch"} \ {p} :
            e = Ending("succeeded", <<unhealed, Act(fix, TRUE, FALSE)>>, "none", Act(fix, TRUE, FALSE).fix)
    BY <1>6
  <2>2. Act(fix, TRUE, FALSE).fix = fix /\ fix \in Fixes BY <1>1 DEF Act
  <2>3. QED BY <1>1, <2>1, <2>2, TwoActsSayIt
<1>7. QED BY <1>2, <1>3, <1>4, <1>5, <1>6 DEF Endings

\* An outcome ends its run and, when it teaches, the run ended well and had tried what it teaches.
LEMMA OutcomeEnds ==
    ASSUME LearningTypes, NEW t \in Tasks, NEW e, SaysWhatWasDone(e), Outcome(t, e)
    PROVE  /\ run' \in [Runs -> RunRows] /\ \A r \in Runs \ {t[1]} : run'[r] = run[r]
           /\ run'[t[1]].at = "ended" /\ run'[t[1]].plan = run[t[1]].plan
           /\ run'[t[1]].direct = run[t[1]].direct
           /\ run[t[1]].cures \subseteq run'[t[1]].cures /\ run[t[1]].failed \subseteq run'[t[1]].failed
           /\ \/ UNCHANGED seed
              \/ /\ seed' = [seed EXCEPT ![t] = [at |-> "due", plan |-> e.plan]] /\ e.plan \in Fixes
                 /\ run'[t[1]].cures # {}
                 /\ e.plan \in run'[t[1]].cures \cup run'[t[1]].failed
<1> DEFINE r == t[1]
           cures == IF EndedWell(e) THEN run[r].cures \cup {Last(e.acts).fix} ELSE run[r].cures
           failed == run[r].failed \cup e.failed
<1>1. r \in Runs /\ run \in [Runs -> RunRows] BY TaskOfRun DEF LearningTypes
<1>2. EndedWell(e) => Last(e.acts).fix \in Fixes BY DEF SaysWhatWasDone, EndedWell
<1>3. /\ cures \in SUBSET Fixes /\ failed \in SUBSET Fixes
      /\ run[r].cures \subseteq cures /\ run[r].failed \subseteq failed /\ e.failed \subseteq failed
  BY <1>1, <1>2 DEF RunRows, SaysWhatWasDone
<1>4. run' = [run EXCEPT ![r].at = "ended", ![r].cures = cures, ![r].failed = failed]
  BY <1>1 DEF Outcome, RunRows
<1>5. InferWorked(e.status, e.acts, e.plan) = "yes" =>
          EndedWell(e) /\ e.plan \in {Last(e.acts).fix} \cup e.failed
  BY WhatWorked, FixesOfPlans DEF EndedWell, SaysWhatWasDone
<1>6. InferWorked(e.status, e.acts, e.plan) = "yes" => cures # {} /\ e.plan \in cures \cup failed
  BY <1>3, <1>5
<1> HIDE DEF cures, failed, r
<1>7. run' \in [Runs -> RunRows]
  <2> DEFINE row == [run[r] EXCEPT !.at = "ended", !.cures = cures, !.failed = failed]
  <2>1. row \in RunRows BY <1>1, <1>3 DEF RunRows
  <2>2. run' = [run EXCEPT ![r] = row] BY <1>4
  <2> HIDE DEF row
  <2>3. QED BY <1>1, <2>1, <2>2
<1>8. /\ \A q \in Runs \ {r} : run'[q] = run[q]
      /\ run'[r].at = "ended" /\ run'[r].plan = run[r].plan /\ run'[r].direct = run[r].direct
      /\ run'[r].cures = cures /\ run'[r].failed = failed
  BY <1>1, <1>4 DEF RunRows
<1>9. \/ UNCHANGED seed
      \/ /\ seed' = [seed EXCEPT ![t] = [at |-> "due", plan |-> e.plan]] /\ e.plan \in Fixes
         /\ cures # {} /\ e.plan \in cures \cup failed
  BY <1>6 DEF Outcome, SaysWhatWasDone
<1>10. QED BY <1>3, <1>7, <1>8, <1>9 DEF r

-----------------------------------------------------------------------------
(* Runs and what they teach: each step *)

LEMMA TriageLearning ==
    ASSUME LearningTypes, NEW r \in Runs, RunRagTriageGate(r)
    PROVE  LearningTypes'
<1>1. UNCHANGED <<setup, table, boot, worker, taught, seed, learn, ask, spent>>
  BY DEF RunRagTriageGate, platform
<1>2. QED BY <1>1, TriageTypes, TypesAgain, PlatformRests, LearnRests, AskRests

LEMMA EndRunMoves ==
    ASSUME LearningTypes, RunsInv, NEW r \in Runs, EndRun(r)
    PROVE  /\ UNCHANGED <<setup, table, boot, worker, taught, learn, ask, spent>>
           /\ run[r].at = "running" /\ <<r, "end">> \in Tasks
           /\ \E e : SaysWhatWasDone(e) /\ Outcome(<<r, "end">>, e)
<1>1. PICK e \in Endings(r, run[r].plan) : Outcome(<<r, "end">>, e) BY DEF EndRun
<1>2. run[r].plan \in Fixes BY FixesOfPlans DEF EndRun, RunsInv, RunOfItsKind
<1>3. SaysWhatWasDone(e) BY <1>1, <1>2, EndingsSayIt
<1>4. QED BY <1>1, <1>3 DEF EndRun, platform, Tasks

LEMMA EndAgainMoves ==
    ASSUME LearningTypes, RunsInv, NEW r \in Runs, EndAgain(r)
    PROVE  /\ UNCHANGED <<setup, table, boot, worker, taught, learn, ask>>
           /\ spent' \in [faults: Nat, restarts: Nat]
           /\ run[r].at = "ended" /\ <<r, "again">> \in Tasks /\ seed[<<r, "again">>].at = "none"
           /\ \/ \E e : SaysWhatWasDone(e) /\ Outcome(<<r, "again">>, e)
              \/ /\ UNCHANGED run
                 /\ \/ UNCHANGED seed
                    \/ seed' = [seed EXCEPT ![<<r, "again">>] = [at |-> "due", plan |-> "cicd_code_pr"]]
<1> DEFINE t == <<r, "again">>
<1>1. t \in Tasks /\ spent \in [faults: Nat, restarts: Nat] BY DEF Tasks, LearningTypes
<1>2. run[r].at = "ended" /\ run[r].plan \in Fixes
  BY FixesOfPlans DEF EndAgain, RunsInv, RunOfItsKind
<1>3. CASE Fault /\ \E e \in Endings(r, run[r].plan) : Outcome(t, e)
  <2>1. PICK e \in Endings(r, run[r].plan) : Outcome(t, e) BY <1>3
  <2>2. SaysWhatWasDone(e) BY <1>2, <2>1, EndingsSayIt
  <2>3. QED BY <1>1, <1>2, <1>3, <2>1, <2>2, FaultTypes DEF EndAgain, platform
<1>4. CASE /\ setup.mode[r] = "ci-failure" /\ UNCHANGED spent
           /\ \E worked \in BOOLEAN :
                 LET e == Ending(IF worked THEN "succeeded" ELSE "failed", <<>>, "none", run[r].plan)
                 IN seed' = IF InferWorked(e.status, e.acts, e.plan) = "yes"
                            THEN [seed EXCEPT ![t] = [at |-> "due", plan |-> e.plan]] ELSE seed
           /\ UNCHANGED run
  <2>1. run[r].plan = "cicd_code_pr" BY <1>2, <1>4 DEF RunsInv, RunOfItsKind
  <2>2. \A status : Ending(status, <<>>, "none", run[r].plan).plan = "cicd_code_pr"
    BY <2>1 DEF Ending
  <2>3. UNCHANGED seed \/ seed' = [seed EXCEPT ![t] = [at |-> "due", plan |-> "cicd_code_pr"]]
    BY <1>4, <2>2
  <2>4. QED BY <1>1, <1>2, <1>4, <2>3 DEF EndAgain, platform
<1>5. QED BY <1>3, <1>4 DEF EndAgain

LEMMA OutcomeTypes ==
    ASSUME LearningTypes, NEW t \in Tasks, NEW e, SaysWhatWasDone(e), Outcome(t, e)
    PROVE  run' \in [Runs -> RunRows] /\ seed' \in [Tasks -> SeedRows]
<1>1. e.plan \in Fixes => [at |-> "due", plan |-> e.plan] \in SeedRows BY DEF SeedRows
<1>2. seed \in [Tasks -> SeedRows] BY DEF LearningTypes
<1>3. QED BY <1>1, <1>2, OutcomeEnds

LEMMA EndRunLearning ==
    ASSUME LearningTypes, RunsInv, NEW r \in Runs, EndRun(r)
    PROVE  LearningTypes'
<1>1. PICK e : SaysWhatWasDone(e) /\ Outcome(<<r, "end">>, e) BY EndRunMoves
<1>2. run' \in [Runs -> RunRows] /\ seed' \in [Tasks -> SeedRows]
  BY <1>1, EndRunMoves, OutcomeTypes
<1>3. QED BY <1>2, EndRunMoves, TypesAgain, PlatformRests, LearnRests, AskRests

LEMMA EndAgainLearning ==
    ASSUME LearningTypes, RunsInv, NEW r \in Runs, EndAgain(r)
    PROVE  LearningTypes'
<1>1. run' \in [Runs -> RunRows] /\ seed' \in [Tasks -> SeedRows]
  <2>1. CASE \E e : SaysWhatWasDone(e) /\ Outcome(<<r, "again">>, e)
    BY <2>1, EndAgainMoves, OutcomeTypes
  <2>2. CASE UNCHANGED run /\ UNCHANGED seed BY <2>2 DEF LearningTypes
  <2>3. CASE UNCHANGED run /\ seed' = [seed EXCEPT ![<<r, "again">>] = [at |-> "due", plan |-> "cicd_code_pr"]]
    <3>1. [at |-> "due", plan |-> "cicd_code_pr"] \in SeedRows BY FixesOfPlans DEF SeedRows
    <3>2. QED BY <2>3, <3>1 DEF LearningTypes
  <2>4. QED BY <2>1, <2>2, <2>3, EndAgainMoves
<1>2. QED BY <1>1, EndAgainMoves, TypesAgain, PlatformRests, LearnRests, AskRests

LEMMA TeachMoves ==
    ASSUME LearningTypes, RunsInv, NEW t \in Tasks, TeachRun(t)
    PROVE  /\ UNCHANGED <<setup, table, boot, worker, taught, run, ask, spent>>
           /\ seed[t].at = "due" /\ run[t[1]].at = "ended" /\ t[1] \in DOMAIN setup.key
           /\ seed' \in [Tasks -> SeedRows] /\ seed'[t].plan = seed[t].plan
           /\ \A u \in Tasks \ {t} : seed'[u] = seed[u]
           /\ \/ seed'[t].at = "over" /\ UNCHANGED learn
              \/ /\ seed'[t].at = "posted" /\ LearnTypes'
                 /\ learn'[t].at = "sent" /\ learn'[t].key = setup.key[t[1]]
                 /\ learn'[t].text.fix = seed[t].plan
                 /\ \A q \in Pending \ {t} : learn'[q] = learn[q]
<1> DEFINE r == t[1]
           text == Text(seed[t].plan, TRUE, {r}, TRUE, Silent)
           row == [at |-> "sent", key |-> setup.key[r], text |-> text]
<1>1. t \in Pending /\ r \in Runs /\ seed \in [Tasks -> SeedRows] BY TaskOfRun DEF LearningTypes
<1>2. run[r].at = "ended" /\ r \in DOMAIN setup.key
  BY <1>1 DEF TeachRun, RunsInv, TeachesOnce, RunOfItsKind
<1>3. IsText(text) /\ text.fix = seed[t].plan
  <2>1. TRUE \in BOOLEAN /\ {r} \in SUBSET Runs BY <1>1
  <2>2. seed[t].plan \in Fixes \cup {"none"} BY <1>1 DEF SeedRows
  <2>3. \A b \in BOOLEAN : /\ IsText(Text(seed[t].plan, b, {r}, b, Silent))
                           /\ Text(seed[t].plan, b, {r}, b, Silent).fix = seed[t].plan
    BY <2>1, <2>2, TextFields
  <2>4. QED BY <2>1, <2>3
<1>4. UNCHANGED <<setup, table, boot, worker, taught, run, ask, spent>> /\ seed[t].at = "due"
  BY DEF TeachRun, platform
<1>5. CASE seed' = [seed EXCEPT ![t].at = "over"] /\ UNCHANGED learn
  BY <1>1, <1>2, <1>4, <1>5 DEF SeedRows
<1>6. CASE seed' = [seed EXCEPT ![t].at = "posted"] /\ learn' = [learn EXCEPT ![t] = row]
  <2> HIDE DEF text
  <2>1. IsLearn(row) /\ row.at = "sent" /\ row.key = setup.key[r] /\ row.text = text
    BY <1>3, SentIsLearn
  <2> HIDE DEF row
  <2>2. LearnTypes' /\ learn'[t] = row /\ \A q \in Pending \ {t} : learn'[q] = learn[q]
    BY <1>1, <1>6, <2>1, LearnSet DEF LearnTypes
  <2>3. seed' \in [Tasks -> SeedRows] /\ seed'[t].plan = seed[t].plan /\ seed'[t].at = "posted"
        /\ \A u \in Tasks \ {t} : seed'[u] = seed[u]
    BY <1>1, <1>6 DEF SeedRows
  <2>4. QED BY <1>2, <1>3, <1>4, <2>1, <2>2, <2>3
<1>7. QED BY <1>5, <1>6 DEF TeachRun

LEMMA TeachLearning ==
    ASSUME LearningTypes, RunsInv, NEW t \in Tasks, TeachRun(t)
    PROVE  LearningTypes'
<1>1. LearnTypes' BY TeachMoves, LearnRests
<1>2. QED BY <1>1, TeachMoves, TypesAgain, PlatformRests, AskRests

LEMMA MarkMoves ==
    ASSUME LearningTypes, NEW t \in Tasks, MarkSeeded(t)
    PROVE  /\ UNCHANGED <<setup, table, boot, worker, taught, learn, ask, spent>>
           /\ seed[t].at = "posted" /\ seed'[t].at = "over" /\ seed'[t].plan = seed[t].plan
           /\ seed' \in [Tasks -> SeedRows] /\ \A u \in Tasks \ {t} : seed'[u] = seed[u]
           /\ run' \in [Runs -> RunRows]
           /\ \A r \in Runs : /\ run'[r].at = run[r].at /\ run'[r].plan = run[r].plan
                              /\ run'[r].direct = run[r].direct
                              /\ run'[r].cures = run[r].cures /\ run'[r].failed = run[r].failed
<1>1. t[1] \in Runs /\ run \in [Runs -> RunRows] /\ seed \in [Tasks -> SeedRows]
  BY TaskOfRun DEF LearningTypes
<1>2. seed' = [seed EXCEPT ![t].at = "over"] /\ seed[t].at = "posted" BY DEF MarkSeeded
<1>3. UNCHANGED run \/ run' = [run EXCEPT ![t[1]].seeded = TRUE] BY DEF MarkSeeded
<1>4. run' \in [Runs -> RunRows]
  <2>1. \A b \in BOOLEAN : [run[t[1]] EXCEPT !.seeded = b] \in RunRows BY <1>1 DEF RunRows
  <2>2. TRUE \in BOOLEAN OBVIOUS
  <2>3. [run[t[1]] EXCEPT !.seeded = TRUE] \in RunRows BY <2>1, <2>2
  <2>4. QED BY <1>1, <1>3, <2>3
<1>5. \A r \in Runs : /\ run'[r].at = run[r].at /\ run'[r].plan = run[r].plan
                      /\ run'[r].direct = run[r].direct
                              /\ run'[r].cures = run[r].cures /\ run'[r].failed = run[r].failed
  BY <1>1, <1>3 DEF RunRows
<1>6. /\ seed'[t].at = "over" /\ seed'[t].plan = seed[t].plan
      /\ seed' \in [Tasks -> SeedRows] /\ \A u \in Tasks \ {t} : seed'[u] = seed[u]
  BY <1>1, <1>2 DEF SeedRows
<1>7. QED BY <1>2, <1>4, <1>5, <1>6 DEF MarkSeeded, platform

LEMMA GiveUpMoves ==
    ASSUME LearningTypes, NEW t \in Tasks, GiveUp(t)
    PROVE  /\ UNCHANGED <<setup, table, boot, worker, taught, run, learn, ask>>
           /\ spent' \in [faults: Nat, restarts: Nat]
           /\ seed[t].at = "posted" /\ seed'[t].at = "over" /\ seed'[t].plan = seed[t].plan
           /\ seed' \in [Tasks -> SeedRows] /\ \A u \in Tasks \ {t} : seed'[u] = seed[u]
<1>1. seed \in [Tasks -> SeedRows] BY DEF LearningTypes
<1>2. seed' = [seed EXCEPT ![t].at = "over"] /\ seed[t].at = "posted" BY DEF GiveUp
<1>3. /\ seed'[t].at = "over" /\ seed'[t].plan = seed[t].plan
      /\ seed' \in [Tasks -> SeedRows] /\ \A u \in Tasks \ {t} : seed'[u] = seed[u]
  BY <1>1, <1>2 DEF SeedRows
<1>4. QED BY <1>2, <1>3, FaultTypes DEF GiveUp, platform

LEMMA SeedingLearning ==
    ASSUME LearningTypes, NEW t \in Tasks, MarkSeeded(t) \/ GiveUp(t)
    PROVE  LearningTypes'
<1>1. CASE MarkSeeded(t)
  BY <1>1, MarkMoves, TypesAgain, PlatformRests, LearnRests, AskRests
<1>2. CASE GiveUp(t)
  BY <1>2, GiveUpMoves, TypesAgain, PlatformRests, LearnRests, AskRests
<1>3. QED BY <1>1, <1>2

-----------------------------------------------------------------------------
(* The platform: each step *)

\* Whatever comes first, what a search finds leads to what was looked for.
LEMMA KeysOfSearch ==
    ASSUME LearningTypes, NEW key \in Keys, NEW k \in HybridSearch(key)
    PROVE  k \in DOMAIN table /\ k \in Keys /\ Leads(k, key)
<1>1. k \in DOMAIN table /\ k[1] = key[1] /\ (k = key \/ Near(key[2], k[2]))
  BY DEF HybridSearch
<1>2. k \in Keys BY <1>1 DEF LearningTypes, IsTable
<1>3. QED BY <1>1, <1>2, LeadsToItself, NearIsSymmetric, NearLeads

LEMMA KeysOfTargets ==
    ASSUME LearningTypes, NEW key \in Keys, NEW k \in PremergeTargets(key) \cup {key}
    PROVE  k \in Keys /\ Leads(k, key)
<1>1. CASE k = key BY <1>1, LeadsToItself
<1>2. CASE k \in HybridSearch(key) BY <1>2, KeysOfSearch
<1>3. QED BY <1>1, <1>2 DEF PremergeTargets

LEMMA LookMoves ==
    ASSUME LearningTypes, RunsInv, NEW q \in Pending, LookForNear(q)
    PROVE  /\ UNCHANGED <<setup, table, boot, worker, taught, run, seed, ask>>
           /\ UNCHANGED spent \/ spent' \in [faults: Nat, restarts: Nat]
           /\ learn[q].at = "sent" /\ learn'[q].at = "looked"
           /\ learn'[q].key \in Keys /\ Leads(learn'[q].key, learn[q].key)
           /\ learn'[q].text.fix = learn[q].text.fix /\ LearnTypes'
           /\ \A p \in Pending \ {q} : learn'[p] = learn[p]
<1>1. learn[q].at = "sent" /\ learn[q].key \in Keys BY DEF LookForNear, RunsInv, FiledNear
<1>2. PICK k \in PremergeTargets(learn[q].key) \cup {learn[q].key} :
         /\ learn' = [learn EXCEPT ![q] =
                [at |-> "looked", key |-> k, text |-> ParameterizePlaybookMarkdown(learn[q].text)]]
         /\ IF k \in PremergeTargets(learn[q].key) THEN UNCHANGED spent ELSE Fault
  BY DEF LookForNear
<1>3. k \in Keys /\ Leads(k, learn[q].key) BY <1>1, <1>2, KeysOfTargets
<1>4. /\ LearnTypes' /\ learn'[q].at = "looked" /\ learn'[q].key = k
      /\ learn'[q].text.fix = learn[q].text.fix
      /\ \A p \in Pending \ {q} : learn'[p] = learn[p]
  BY <1>2, LearnLooked DEF LearnTypes
<1>5. UNCHANGED spent \/ spent' \in [faults: Nat, restarts: Nat] BY <1>2, FaultTypes
<1>6. QED BY <1>1, <1>3, <1>4, <1>5 DEF LookForNear, platform, orchestrator

LEMMA RefuseMoves ==
    ASSUME LearningTypes, NEW q \in Pending, RefuseLearn(q)
    PROVE  /\ UNCHANGED <<setup, table, boot, worker, taught, run, seed, ask>>
           /\ UNCHANGED spent \/ spent' \in [faults: Nat, restarts: Nat]
           /\ learn[q].at = "sent" /\ learn'[q].at = "refused" /\ learn'[q].text = learn[q].text
           /\ LearnTypes' /\ \A p \in Pending \ {q} : learn'[p] = learn[p]
<1>1. /\ learn'[q] = [at |-> "refused", key |-> learn[q].key, text |-> learn[q].text]
      /\ LearnTypes' /\ \A p \in Pending \ {q} : learn'[p] = learn[p]
  BY LearnGoesOn DEF RefuseLearn, LearnTypes
<1>2. learn'[q].at = "refused" /\ learn'[q].text = learn[q].text BY <1>1
<1>3. QED BY <1>1, <1>2, FaultTypes DEF RefuseLearn, platform, orchestrator

LEMMA UpsertMoves ==
    ASSUME LearningTypes, RunsInv, NEW q \in Pending, UpsertVerifiedRunbook(q)
    PROVE  /\ UNCHANGED <<setup, boot, worker, run, seed, ask, spent>>
           /\ learn[q].at = "looked" /\ learn'[q].at = "done" /\ learn'[q].text = learn[q].text
           /\ LearnTypes' /\ \A p \in Pending \ {q} : learn'[p] = learn[p]
           /\ OwnKey(q) \in Keys /\ taught' = taught \cup {OwnKey(q)}
           /\ learn[q].key \in Keys /\ Leads(learn[q].key, OwnKey(q))
           /\ IsTable(table') /\ DOMAIN table' = DOMAIN table \cup {learn[q].key}
           /\ table'[learn[q].key].text = learn[q].text
           /\ \A k \in DOMAIN table \ {learn[q].key} : table'[k] = table[k]
<1> DEFINE key == learn[q].key
           text == learn[q].text
           proven == IF key \in DOMAIN table THEN table[key].proven + 1 ELSE 1
<1>1. learn[q].at = "looked" /\ key \in Keys /\ OwnKey(q) \in Keys /\ Leads(key, OwnKey(q))
  BY DEF UpsertVerifiedRunbook, RunsInv, FiledNear
<1>2. IsText(text) /\ IsTable(table) BY LearnRow DEF LearningTypes
<1>3. table' = Put(key, Row(text, proven)) /\ taught' = taught \cup {OwnKey(q)}
  BY DEF UpsertVerifiedRunbook
<1>4. /\ learn'[q] = [at |-> "done", key |-> key, text |-> text]
      /\ LearnTypes' /\ \A p \in Pending \ {q} : learn'[p] = learn[p]
  BY LearnGoesOn DEF UpsertVerifiedRunbook, LearnTypes
<1>5. learn'[q].at = "done" /\ learn'[q].text = text BY <1>4
<1>6. UNCHANGED <<setup, boot, worker, run, seed, ask, spent>>
  BY DEF UpsertVerifiedRunbook, orchestrator
<1> HIDE DEF key, text, proven
<1> DEFINE rows == Put(key, Row(text, proven))
<1>9. /\ IsTable(rows) /\ DOMAIN rows = DOMAIN table \cup {key}
      /\ rows[key].text = text /\ \A k \in DOMAIN table \ {key} : rows[k] = table[k]
  <2>1. key \in Keys /\ IsText(text) /\ IsTable(table) BY <1>1, <1>2
  <2>2. IsTable(rows) BY <2>1, PutIsTable
  <2>3. DOMAIN rows = DOMAIN table \cup {key} BY <2>1, PutIsTable
  <2>4. rows[key].text = text  BY <2>1, PutIsTable
  <2>5. \A k \in DOMAIN table \ {key} : rows[k] = table[k] BY DEF Put
  <2>6. QED BY <2>2, <2>3, <2>4, <2>5
<1>10. table' = rows BY <1>3
<1> HIDE DEF rows
<1>7. /\ IsTable(table') /\ DOMAIN table' = DOMAIN table \cup {key} /\ table'[key].text = text
      /\ \A k \in DOMAIN table \ {key} : table'[k] = table[k]
  BY <1>9, <1>10
<1>8. QED BY <1>1, <1>3, <1>4, <1>5, <1>6, <1>7 DEF key, text

LEMMA PassRests ==
    ASSUME LearningTypes, UNCHANGED worker
    PROVE  worker' = Asleep \/ IsPass(worker')
  BY DEF LearningTypes

LEMMA LearnLearning ==
    ASSUME LearningTypes, RunsInv, NEW q \in Pending,
           LookForNear(q) \/ RefuseLearn(q) \/ UpsertVerifiedRunbook(q)
    PROVE  LearningTypes'
<1>1. CASE LookForNear(q) BY <1>1, LookMoves, TypesAgain, PlatformRests, AskRests
<1>2. CASE RefuseLearn(q) BY <1>2, RefuseMoves, TypesAgain, PlatformRests, AskRests
<1>3. CASE UpsertVerifiedRunbook(q)
  <2>1. PlatformTypes'
    <3>1. worker' = Asleep \/ IsPass(worker') BY <1>3, UpsertMoves, PassRests
    <3>2. boot' \in Seq(Keys) /\ taught' \subseteq Keys BY <1>3, UpsertMoves DEF LearningTypes
    <3>3. IsTable(table') BY <1>3, UpsertMoves
    <3>4. QED BY <3>1, <3>2, <3>3 DEF PlatformTypes
  <2>2. QED BY <1>3, <2>1, UpsertMoves, TypesAgain, AskRests
<1>4. QED BY <1>1, <1>2, <1>3

-----------------------------------------------------------------------------
(* The worker: each step *)

LEMMA SleepingWorker ==
    ASSUME LearningTypes
    PROVE  /\ worker.at = "sleep" => worker = Asleep
           /\ worker.at # "sleep" => IsPass(worker)
           /\ IsTable(worker.list) /\ worker.gone \subseteq DOMAIN worker.list
  BY EmptyIsTable DEF LearningTypes, Asleep, Pass, IsPass

LEMMA PassFields ==
    ASSUME NEW at, NEW list, NEW gone, NEW pair
    PROVE  LET w == Pass(at, list, gone, pair)
           IN /\ w.at = at /\ w.list = list /\ w.gone = gone /\ w.pair = pair
              /\ w = [at |-> w.at, list |-> w.list, gone |-> w.gone, pair |-> w.pair]
  BY DEF Pass

LEMMA ListMoves ==
    ASSUME LearningTypes, ListRunbooks
    PROVE  /\ UNCHANGED <<setup, table, boot, taught, run, seed, learn, ask, spent>>
           /\ worker'.list = table /\ worker'.gone = {} /\ IsPass(worker')
<1>1. worker' = Pass("scan", table, {}, <<0, 0>>) BY DEF ListRunbooks
<1>2. /\ worker'.at = "scan" /\ worker'.list = table /\ worker'.gone = {} /\ worker'.pair = <<0, 0>>
      /\ worker' = [at |-> worker'.at, list |-> worker'.list, gone |-> worker'.gone, pair |-> worker'.pair]
  BY <1>1, PassFields
<1>3. IsPass(worker') BY <1>2 DEF IsPass, LearningTypes
<1>4. QED BY <1>2, <1>3 DEF ListRunbooks, orchestrator

\* The two rows of the list that are merged, and the text that is kept.
LEMMA MergeMoves ==
    ASSUME LearningTypes, KeptInv, MergePair
    PROVE  /\ UNCHANGED <<setup, boot, taught, run, seed, learn, ask, spent>>
           /\ IsPass(worker') /\ worker'.list = worker.list /\ worker'.gone = worker.gone
           /\ IsTable(table') /\ DOMAIN table' = DOMAIN table
           /\ \E keep, drop \in DOMAIN worker.list :
                 /\ keep \in DOMAIN table /\ Leads(drop, keep)
                 /\ table'[keep].text.fix \in {"none", worker.list[keep].text.fix,
                                               worker.list[drop].text.fix}
                 /\ \A k \in DOMAIN table \ {keep} : table'[k] = table[k]
<1>1. PICK p \in PairsLeft(worker) :
         LET keep == KeyOrder[p[1]]   drop == KeyOrder[p[2]]
             a == worker.list[keep]   b == worker.list[drop]
             proven == 1 + IF a.proven >= b.proven THEN a.proven ELSE b.proven
         IN /\ \E text \in MergeMarkdown(a.text, b.text) : UpdateRunbook(keep, text, proven)
            /\ worker' = Pass("delete", worker.list, worker.gone, p)
  BY DEF MergePair
<1> DEFINE keep == KeyOrder[p[1]]
           drop == KeyOrder[p[2]]
           proven == 1 + IF worker.list[keep].proven >= worker.list[drop].proven
                         THEN worker.list[keep].proven ELSE worker.list[drop].proven
<1>2. PICK text \in MergeMarkdown(worker.list[keep].text, worker.list[drop].text) :
         UpdateRunbook(keep, text, proven)
  BY <1>1
<1>3. worker' = Pass("delete", worker.list, worker.gone, p) BY <1>1
<1> HIDE DEF proven
<1>4. IsPass(worker) BY SleepingWorker DEF MergePair
<1>5. /\ keep \in DOMAIN worker.list \ worker.gone /\ drop \in DOMAIN worker.list \ worker.gone
      /\ keep[1] = drop[1] /\ Near(keep[2], drop[2])
  BY PairOfKeys
<1> HIDE DEF keep, drop
<1>6. keep \in DOMAIN table /\ keep \in Keys /\ drop \in Keys
  BY <1>4, <1>5 DEF KeptInv, IsPass, IsTable
<1>7. Leads(drop, keep) BY <1>5, <1>6, NearIsSymmetric, NearLeads
<1>8. IsText(worker.list[keep].text) /\ IsText(worker.list[drop].text)
  BY <1>4, <1>5 DEF IsPass, IsTable
<1>9. IsText(text) /\ text.fix \in {"none", worker.list[keep].text.fix, worker.list[drop].text.fix}
  BY <1>2, <1>8, MergedText
<1>10. /\ IsTable(table') /\ DOMAIN table' = DOMAIN table
       /\ table'[keep].text = ParameterizePlaybookMarkdown(text)
       /\ \A k \in DOMAIN table \ {keep} : table'[k] = table[k]
  BY <1>2, <1>6, <1>9, UpdateIsTable DEF LearningTypes
<1>11. table'[keep].text.fix = text.fix BY <1>9, <1>10, ParameterizedText
<1>13. /\ worker'.at = "delete" /\ worker'.list = worker.list /\ worker'.gone = worker.gone
       /\ worker'.pair = p
       /\ worker' = [at |-> worker'.at, list |-> worker'.list, gone |-> worker'.gone, pair |-> worker'.pair]
  BY <1>3, PassFields
<1>14. p \in PairsLeft(worker') BY <1>13 DEF PairsLeft
<1>15. IsPass(worker') BY <1>4, <1>13, <1>14 DEF IsPass
<1>16. UNCHANGED <<setup, boot, taught, run, seed, learn, ask, spent>> BY DEF MergePair, orchestrator
<1>17. QED BY <1>5, <1>6, <1>7, <1>9, <1>10, <1>11, <1>13, <1>15, <1>16

LEMMA DeleteMoves ==
    ASSUME LearningTypes, KeptInv, DeleteMerged
    PROVE  /\ UNCHANGED <<setup, boot, taught, run, seed, learn, ask, spent>>
           /\ IsPass(worker') /\ worker'.list = worker.list /\ IsTable(table')
           /\ \E keep \in DOMAIN table, drop \in Keys :
                 /\ keep # drop /\ Leads(keep, drop) /\ worker'.gone = worker.gone \cup {drop}
                 /\ DOMAIN table' = DOMAIN table \ {drop}
                 /\ \A k \in DOMAIN table \ {drop} : table'[k] = table[k]
<1> DEFINE keep == KeyOrder[worker.pair[1]]
           drop == KeyOrder[worker.pair[2]]
<1>1. IsPass(worker) /\ worker.pair \in PairsLeft(worker)
  BY SleepingWorker DEF DeleteMerged, IsPass
<1>2. /\ keep \in DOMAIN worker.list \ worker.gone /\ drop \in DOMAIN worker.list \ worker.gone
      /\ keep # drop /\ keep[1] = drop[1] /\ Near(keep[2], drop[2])
  BY <1>1, PairOfKeys
<1>3. DeleteRunbook(drop) /\ worker' = Pass("scan", worker.list, worker.gone \cup {drop}, <<0, 0>>)
  BY DEF DeleteMerged
<1> HIDE DEF keep, drop
<1>4. keep \in DOMAIN table /\ keep \in Keys /\ drop \in Keys
  BY <1>1, <1>2 DEF KeptInv, IsPass, IsTable
<1>5. Leads(keep, drop) BY <1>2, <1>4, NearLeads
<1>6. /\ IsTable(table') /\ DOMAIN table' = DOMAIN table \ {drop}
      /\ \A k \in DOMAIN table \ {drop} : table'[k] = table[k]
  BY <1>3, DeleteIsTable DEF LearningTypes
<1> DEFINE gone == worker.gone \cup {drop}
<1>12. worker' = Pass("scan", worker.list, gone, <<0, 0>>) BY <1>3
<1> HIDE DEF gone
<1>7. /\ worker'.at = "scan" /\ worker'.list = worker.list
      /\ worker'.gone = gone /\ worker'.pair = <<0, 0>>
      /\ worker' = [at |-> worker'.at, list |-> worker'.list, gone |-> worker'.gone, pair |-> worker'.pair]
  BY <1>12, PassFields
<1>8. IsPass(worker') BY <1>1, <1>2, <1>7 DEF IsPass, gone
<1>9. UNCHANGED <<setup, boot, taught, run, seed, learn, ask, spent>> BY DEF DeleteMerged, orchestrator
<1>10. QED BY <1>2, <1>4, <1>5, <1>6, <1>7, <1>8, <1>9 DEF gone

LEMMA PassEndMoves ==
    ASSUME LearningTypes, PassEnds \/ DedupFails
    PROVE  /\ UNCHANGED <<setup, table, boot, taught, run, seed, learn, ask>> /\ worker' = Asleep
           /\ UNCHANGED spent \/ spent' \in [faults: Nat, restarts: Nat]
  BY FaultTypes DEF PassEnds, DedupFails, PassFails, Passed, orchestrator

LEMMA DedupLearning ==
    ASSUME LearningTypes, KeptInv, Dedup \/ DedupFails
    PROVE  LearningTypes'
<1>1. PlatformTypes' /\ UNCHANGED <<setup, run, seed, learn, ask>>
      /\ (UNCHANGED spent \/ spent' \in [faults: Nat, restarts: Nat])
  <2>1. CASE ListRunbooks BY <2>1, ListMoves DEF PlatformTypes, LearningTypes
  <2>2. CASE MergePair BY <2>2, MergeMoves DEF PlatformTypes, LearningTypes
  <2>3. CASE DeleteMerged BY <2>3, DeleteMoves DEF PlatformTypes, LearningTypes
  <2>4. CASE PassEnds \/ DedupFails BY <2>4, PassEndMoves DEF PlatformTypes, LearningTypes, IsTable
  <2>5. QED BY <2>1, <2>2, <2>3, <2>4 DEF Dedup
<1>2. QED BY <1>1, TypesAgain, LearnRests, AskRests

-----------------------------------------------------------------------------
(* Start and restart: each step *)

LEMMA SeedTable ==
    ASSUME LearningTypes, SeedRunbook
    PROVE  /\ UNCHANGED <<setup, worker, run, seed, learn, ask, spent>>
           /\ Head(boot) \in Keys /\ boot' \in Seq(Keys) /\ taught' = taught \cup {Head(boot)}
           /\ IsTable(table') /\ DOMAIN table' = DOMAIN table \cup {Head(boot)}
           /\ table'[Head(boot)].text = SeedText
           /\ \A k \in DOMAIN table \ {Head(boot)} : table'[k] = table[k]
<1> DEFINE key == Head(boot)
           rows == Put(key, Row(SeedText, 1))
<1>1. boot \in Seq(Keys) /\ boot # <<>> BY DEF LearningTypes, SeedRunbook
<1>2. key \in Keys /\ Tail(boot) \in Seq(Keys) BY <1>1
<1>3. IsText(SeedText) /\ IsTable(table) BY SeedTextIsText DEF LearningTypes
<1>4. table' = rows /\ taught' = taught \cup {key} /\ boot' = Tail(boot) BY DEF SeedRunbook
<1> HIDE DEF key
<1>5. IsTable(rows) /\ DOMAIN rows = DOMAIN table \cup {key} /\ rows[key].text = SeedText
  BY <1>2, <1>3, PutIsTable
<1>6. \A k \in DOMAIN table \ {key} : rows[k] = table[k] BY DEF Put
<1>7. UNCHANGED <<setup, worker, run, seed, learn, ask, spent>> BY DEF SeedRunbook, orchestrator
<1> HIDE DEF rows
<1>8. QED BY <1>2, <1>4, <1>5, <1>6, <1>7 DEF key

LEMMA SeedingFailsMoves ==
    ASSUME LearningTypes, SeedingFails
    PROVE  /\ UNCHANGED <<setup, table, worker, taught, run, seed, learn, ask>>
           /\ boot' \in Seq(Keys) /\ spent' \in [faults: Nat, restarts: Nat]
  BY FaultTypes DEF SeedingFails, orchestrator

LEMMA RestartMoves ==
    ASSUME LearningTypes, RestartPlatform
    PROVE  /\ UNCHANGED <<setup, table, taught, run, seed, ask>>
           /\ worker' = Asleep /\ boot' \in Seq(Keys) /\ spent' \in [faults: Nat, restarts: Nat]
           /\ LearnTypes'
           /\ \A q \in Pending :
                 /\ learn'[q].key = learn[q].key /\ learn'[q].text = learn[q].text
                 /\ IF learn[q].at \in {"sent", "looked"} THEN learn'[q].at = "refused"
                    ELSE learn'[q].at = learn[q].at
<1>1. UNCHANGED <<setup, table, taught, run, seed, ask>> /\ worker' = Asleep
  BY DEF RestartPlatform, orchestrator
<1>2. boot' \in Seq(Keys)
  BY KnowledgeAssumption DEF KnowledgeAssumption, RestartPlatform, LearningTypes
<1>3. spent' \in [faults: Nat, restarts: Nat] BY DEF RestartPlatform, LearningTypes
<1> DEFINE next(q) == IF learn[q].at \in {"sent", "looked"}
                      THEN [learn[q] EXCEPT !.at = "refused"] ELSE learn[q]
<1>4. ASSUME NEW q \in Pending
      PROVE  /\ IsLearn(next(q)) /\ next(q).key = learn[q].key /\ next(q).text = learn[q].text
             /\ IF learn[q].at \in {"sent", "looked"} THEN next(q).at = "refused"
                ELSE next(q).at = learn[q].at
  <2> DEFINE old == learn[q]
  <2>1. IsLearn(old) BY DEF LearningTypes
  <2> HIDE DEF old
  <2>2. [old EXCEPT !.at = "refused"] = [at |-> "refused", key |-> old.key, text |-> old.text]
    BY <2>1 DEF IsLearn
  <2>3. IsLearn([at |-> "refused", key |-> old.key, text |-> old.text]) BY <2>1 DEF IsLearn
  <2>4. CASE old.at \in {"sent", "looked"} BY <2>2, <2>3, <2>4 DEF old
  <2>5. CASE old.at \notin {"sent", "looked"} BY <2>1, <2>5 DEF old
  <2>6. QED BY <2>4, <2>5
<1>5. learn' = [q \in Pending |-> next(q)] BY DEF RestartPlatform
<1> HIDE DEF next
<1>6. learn' = [q \in Pending |-> learn'[q]] /\ \A q \in Pending : learn'[q] = next(q) BY <1>5
<1>7. QED BY <1>1, <1>2, <1>3, <1>4, <1>6 DEF LearnTypes

LEMMA StartLearning ==
    ASSUME LearningTypes, SeedRunbook \/ SeedingFails \/ RestartPlatform
    PROVE  LearningTypes'
<1>1. CASE SeedRunbook
  <2>1. taught' \subseteq Keys BY <1>1, SeedTable DEF LearningTypes
  <2>2. PlatformTypes' BY <1>1, <2>1, SeedTable, PassRests DEF PlatformTypes
  <2>3. QED BY <1>1, <2>2, SeedTable, TypesAgain, LearnRests, AskRests
<1>2. CASE SeedingFails
  <2>1. PlatformTypes' BY <1>2, SeedingFailsMoves, PassRests DEF PlatformTypes, LearningTypes
  <2>2. QED BY <1>2, <2>1, SeedingFailsMoves, TypesAgain, LearnRests, AskRests
<1>3. CASE RestartPlatform
  <2>1. PlatformTypes' BY <1>3, RestartMoves DEF PlatformTypes, LearningTypes
  <2>2. QED BY <1>3, <2>1, RestartMoves, TypesAgain, AskRests
<1>4. QED BY <1>1, <1>2, <1>3

-----------------------------------------------------------------------------
(* Merged provenances *)

LEMMA LastOfThree ==
    ASSUME NEW S \in SUBSET {1, 2, 3}, S # {}
    PROVE  LastOf(S) = IF 3 \in S THEN 3 ELSE IF 2 \in S THEN 2 ELSE 1
<1> DEFINE last == IF 3 \in S THEN 3 ELSE IF 2 \in S THEN 2 ELSE 1
<1>1. last \in S /\ \A j \in S : j <= last
  <2>1. \A j \in S : j = 1 \/ j = 2 \/ j = 3 BY S \subseteq {1, 2, 3}
  <2>2. CASE 3 \in S BY <2>1, <2>2
  <2>3. CASE 3 \notin S /\ 2 \in S BY <2>1, <2>3
  <2>4. CASE 3 \notin S /\ 2 \notin S
    <3>1. 1 \in S /\ \A j \in S : j = 1 BY <2>1, <2>4
    <3>2. QED BY <2>4, <3>1
  <2>5. QED BY <2>2, <2>3, <2>4
<1>2. \A i \in S : (\A j \in S : j <= i) => i = last
  <2>1. \A i \in S : i \in Int BY S \subseteq {1, 2, 3}
  <2>2. last \in Int OBVIOUS
  <2> HIDE DEF last
  <2>3. QED BY <1>1, <2>1, <2>2
<1> HIDE DEF last
<1>3. LastOf(S) = last BY <1>1, <1>2 DEF LastOf
<1>4. QED BY <1>3 DEF last

\* Of two parts the second counts, where it says something.
LEMMA MergeOfTwo ==
    ASSUME NEW a, NEW b
    PROVE  LET p == MergeDeployProvenance(<<a, b>>)
           IN /\ p.method = IF b.method # "unknown" THEN b.method
                            ELSE IF a.method # "unknown" THEN a.method ELSE "unknown"
              /\ p.surface = IF b.surface # "" THEN b.surface
                             ELSE IF a.surface # "" THEN a.surface ELSE "gitops-repo"
              /\ p.has = a.has \cup b.has
              /\ p.hotFix <=> a.hotFix \/ b.hotFix
<1> DEFINE all == <<Blank, a, b>>
           known == {i \in DOMAIN all : i = 1 \/ all[i].method # "unknown"}
           placed == {i \in DOMAIN all : all[i].surface # ""}
           signed == {i \in DOMAIN all : all[i].source # ""}
           p == MergeDeployProvenance(<<a, b>>)
<1>1. <<Blank>> \o <<a, b>> = all
  <2>1. <<Blank>> \in Seq({Blank, a, b}) /\ <<a, b>> \in Seq({Blank, a, b}) OBVIOUS
  <2> DEFINE both == <<Blank>> \o <<a, b>>
  <2>2. /\ both \in Seq({Blank, a, b}) /\ Len(both) = Len(<<Blank>>) + Len(<<a, b>>)
        /\ \A i \in 1..Len(<<Blank>>) + Len(<<a, b>>) :
              both[i] = IF i <= Len(<<Blank>>) THEN <<Blank>>[i] ELSE <<a, b>>[i - Len(<<Blank>>)]
    BY <2>1, ConcatProperties
  <2>3. Len(<<Blank>>) = 1 /\ Len(<<a, b>>) = 2 /\ all \in Seq({Blank, a, b}) /\ Len(all) = 3
    OBVIOUS
  <2>4. Len(both) = 3 /\ both[1] = Blank /\ both[2] = a /\ both[3] = b BY <2>2, <2>3
  <2> HIDE DEF both
  <2>5. \A i \in 1..3 : both[i] = all[i] BY <2>4
  <2>6. both = all BY <2>2, <2>3, <2>4, <2>5, SeqEqual
  <2>7. QED BY <2>6 DEF both
<1>2. DOMAIN all = {1, 2, 3} /\ all[1] = Blank /\ all[2] = a /\ all[3] = b OBVIOUS
<1>3. p = [method |-> all[LastOf(known)].method,
           surface |-> all[LastOf(placed)].surface,
           has |-> KnownDetails(all),
           source |-> all[LastOf(signed)].source,
           hotFix |-> \E i \in DOMAIN all : all[i].hotFix]
  BY <1>1 DEF MergeDeployProvenance
<1> HIDE DEF all, p
<1>4. /\ Blank.method = "unknown" /\ Blank.surface = "gitops-repo" /\ Blank.has = {}
      /\ Blank.hotFix = FALSE
  BY DEF Blank
<1>5. p.method = IF b.method # "unknown" THEN b.method
                 ELSE IF a.method # "unknown" THEN a.method ELSE "unknown"
  <2>1. known \in SUBSET {1, 2, 3} /\ 1 \in known
        /\ (2 \in known <=> a.method # "unknown") /\ (3 \in known <=> b.method # "unknown")
    BY <1>2
  <2> HIDE DEF known
  <2>2. QED BY <1>2, <1>3, <1>4, <2>1, LastOfThree
<1>6. p.surface = IF b.surface # "" THEN b.surface
                  ELSE IF a.surface # "" THEN a.surface ELSE "gitops-repo"
  <2>1. placed \in SUBSET {1, 2, 3} /\ 1 \in placed
        /\ (2 \in placed <=> a.surface # "") /\ (3 \in placed <=> b.surface # "")
    BY <1>2, <1>4
  <2> HIDE DEF placed
  <2>2. QED BY <1>2, <1>3, <1>4, <2>1, LastOfThree
<1>7. p.has = a.has \cup b.has
  <2>1. {all[i].has : i \in DOMAIN all} = {{}, a.has, b.has} BY <1>2, <1>4
  <2>2. p.has = UNION {all[i].has : i \in DOMAIN all} BY <1>3 DEF KnownDetails
  <2>3. QED BY <2>1, <2>2
<1>8. p.hotFix <=> a.hotFix \/ b.hotFix
  <2>1. p.hotFix = \E i \in DOMAIN all : all[i].hotFix BY <1>3
  <2>2. (\E i \in DOMAIN all : all[i].hotFix) <=> a.hotFix \/ b.hotFix BY <1>2, <1>4
  <2>3. QED BY <2>1, <2>2
<1>9. QED BY <1>5, <1>6, <1>7, <1>8 DEF p

\* A merge forgets nothing.
LEMMA MergeKnows ==
    ASSUME NEW a, NEW b
    PROVE  /\ MergeDeployProvenance(<<a, b>>).has = a.has \cup b.has
           /\ MergeDeployProvenance(<<a, b>>).hotFix <=> a.hotFix \/ b.hotFix
<1> DEFINE p == MergeDeployProvenance(<<a, b>>)
<1>1. /\ p.method = IF b.method # "unknown" THEN b.method
                    ELSE IF a.method # "unknown" THEN a.method ELSE "unknown"
      /\ p.surface = IF b.surface # "" THEN b.surface
                     ELSE IF a.surface # "" THEN a.surface ELSE "gitops-repo"
      /\ p.has = a.has \cup b.has
      /\ p.hotFix <=> a.hotFix \/ b.hotFix
  BY MergeOfTwo
<1> HIDE DEF p
<1>2. p.has = a.has \cup b.has /\ (p.hotFix <=> a.hotFix \/ b.hotFix) BY <1>1
<1>3. QED BY <1>2 DEF p

\* What is settled stays settled when more is known.
LEMMA SettledStays ==
    ASSUME NEW known, NEW has, known \subseteq has
    PROVE  /\ OperatorSettled(known) => OperatorSettled(has)
           /\ HelmSettled(known) => HelmSettled(has)
           /\ PlainSettled(known) => PlainSettled(has)
<1>1. (Repo(known) => Repo(has)) /\ (Path(known) => Path(has)) BY DEF Repo, Path
<1>2. QED BY <1>1 DEF OperatorSettled, HelmSettled, PlainSettled

LEMMA SettledGrows ==
    ASSUME NEW known, NEW has, known \subseteq has
    PROVE  Settled(known) <= Settled(has)
<1> DEFINE a == OperatorSettled(known)   x == OperatorSettled(has)
           b == HelmSettled(known)       y == HelmSettled(has)
           c == PlainSettled(known)      z == PlainSettled(has)
<1>1. (a => x) /\ (b => y) /\ (c => z) BY SettledStays
<1>2. Settled(known) = Bit(a) + Bit(b) + Bit(c) /\ Settled(has) = Bit(x) + Bit(y) + Bit(z)
  BY DEF Settled
<1> HIDE DEF a, b, c, x, y, z
<1>3. QED BY <1>1, <1>2 DEF Bit

\* The whole answer settles what was asked for, which was not.
LEMMA AnswerSettles ==
    ASSUME NEW p, NEW has, NeedsDeploySourcePrompt(p), p.has \cup Asked(p) \subseteq has
    PROVE  \/ ~OperatorSettled(p.has) /\ OperatorSettled(has)
           \/ ~HelmSettled(p.has) /\ HelmSettled(has)
           \/ ~PlainSettled(p.has) /\ PlainSettled(has)
<1> DEFINE missing == ComputeMissingFields(p)
<1>1. /\ ~p.hotFix /\ p.surface # "cluster-live" /\ p.method # "unknown" /\ missing # {}
  BY DEF NeedsDeploySourcePrompt, ComputeMissingFields
<1>2. /\ \A d \in missing : d # "manifest" => d \in has
      /\ "manifest" \in missing => "sourceRepo" \in has
      /\ p.has \subseteq has
  BY DEF Asked
<1>3. CASE p.surface = "operator-cr"
  <2>1. missing = (IF "operatorCr" \notin p.has THEN {"operatorCr"} ELSE {})
                  \cup (IF {"sourceRepo", "manifest"} \cap p.has = {} THEN {"sourceRepo"} ELSE {})
    BY <1>1, <1>3 DEF ComputeMissingFields
  <2> HIDE DEF missing
  <2>2. ~OperatorSettled(p.has) BY <1>1, <2>1 DEF OperatorSettled
  <2>3. "operatorCr" \in has /\ {"sourceRepo", "manifest"} \cap has # {} BY <1>2, <2>1
  <2>4. QED BY <2>2, <2>3 DEF OperatorSettled
<1>4. CASE p.surface # "operator-cr" /\ p.method = "helm"
  <2>1. missing = (IF ~Repo(p.has) THEN {"sourceRepo"} ELSE {})
                  \cup (IF ~Path(p.has) THEN {"chart"} ELSE {})
                  \cup (IF "ref" \notin p.has THEN {"ref"} ELSE {})
    BY <1>1, <1>4 DEF ComputeMissingFields, Repo, Path
  <2> HIDE DEF missing
  <2>2. ~HelmSettled(p.has) BY <1>1, <2>1 DEF HelmSettled
  <2>3. Repo(has) BY <1>2, <2>1 DEF Repo
  <2>4. Path(has) BY <1>2, <2>1 DEF Path
  <2>5. "ref" \in has BY <1>2, <2>1
  <2>6. QED BY <2>2, <2>3, <2>4, <2>5 DEF HelmSettled
<1>5. CASE p.surface # "operator-cr" /\ p.method = "argocd"
  <2>1. missing = (IF "argoApp" \notin p.has /\ ~Repo(p.has) THEN {"argoApp"} ELSE {})
                  \cup (IF ~Repo(p.has) /\ ~Path(p.has) THEN {"sourceRepo"} ELSE {})
    BY <1>1, <1>5 DEF ComputeMissingFields, Repo, Path
  <2> HIDE DEF missing
  <2>2. ~PlainSettled(p.has) BY <1>1, <2>1 DEF PlainSettled
  <2>3. Repo(has) \/ Path(has) BY <1>2, <2>1 DEF Repo, Path
  <2>4. Repo(has) \/ "argoApp" \in has BY <1>2, <2>1 DEF Repo
  <2>5. QED BY <2>2, <2>3, <2>4 DEF PlainSettled
<1>6. CASE p.surface # "operator-cr" /\ p.method \notin {"helm", "argocd"}
  <2>1. missing \in {{}, {"manifest"}} /\ ("manifest" \in missing => ~Repo(p.has) /\ ~Path(p.has))
    BY <1>1, <1>6 DEF ComputeMissingFields, Repo, Path
  <2> HIDE DEF missing
  <2>2. ~PlainSettled(p.has) BY <1>1, <2>1 DEF PlainSettled
  <2>3. Repo(has) BY <1>1, <1>2, <2>1 DEF Repo
  <2>4. QED BY <2>2, <2>3 DEF PlainSettled
<1>7. QED BY <1>3, <1>4, <1>5, <1>6

LEMMA AnswerSettlesMore ==
    ASSUME NEW p, NEW has, NeedsDeploySourcePrompt(p), p.has \cup Asked(p) \subseteq has
    PROVE  Settled(p.has) + 1 <= Settled(has)
<1> DEFINE a == OperatorSettled(p.has)   x == OperatorSettled(has)
           b == HelmSettled(p.has)       y == HelmSettled(has)
           c == PlainSettled(p.has)      z == PlainSettled(has)
<1>1. (a => x) /\ (b => y) /\ (c => z)
  <2>1. p.has \subseteq has OBVIOUS
  <2>2. QED BY <2>1, SettledStays
<1>2. (~a /\ x) \/ (~b /\ y) \/ (~c /\ z) BY AnswerSettles
<1>3. Settled(p.has) = Bit(a) + Bit(b) + Bit(c) /\ Settled(has) = Bit(x) + Bit(y) + Bit(z)
  BY DEF Settled
<1> HIDE DEF a, b, c, x, y, z
<1>4. QED BY <1>1, <1>2, <1>3 DEF Bit

\* What is asked about is not all settled.
LEMMA AskedIsNotSettled ==
    ASSUME NEW p, NeedsDeploySourcePrompt(p)
    PROVE  Settled(p.has) <= 2
<1>1. Settled(p.has) + 1 <= Settled(p.has \cup Asked(p)) BY AnswerSettlesMore
<1>2. Settled(p.has \cup Asked(p)) \in 0..3 /\ Settled(p.has) \in 0..3 BY SettledAtMostThree
<1>3. QED BY <1>1, <1>2

-----------------------------------------------------------------------------
(* The deploy source gate: each step *)

LEMMA AskSet ==
    ASSUME NEW w \in Workloads, NEW P, ask \in [Workloads -> AskRows(P)], NEW row \in AskRows(P),
           ask' = [ask EXCEPT ![w] = row]
    PROVE  AskTypes' /\ ask'[w] = row /\ \A v \in Workloads \ {w} : ask'[v] = ask[v]
<1>1. ask' \in [Workloads -> AskRows(P)] OBVIOUS
<1>2. QED BY <1>1 DEF AskTypes, AskRows

LEMMA AskRowsOfTwo ==
    ASSUME LearningTypes, NEW x, NEW y
    PROVE  \E P : x \in P /\ y \in P /\ ask \in [Workloads -> AskRows(P)]
<1>1. PICK P : x \in P /\ ask \in [Workloads -> AskRows(P)] BY AskRowsOf
<1>2. ask \in [Workloads -> AskRows(P \cup {y})] BY <1>1 DEF AskRows
<1>3. QED BY <1>1, <1>2

\* What the gate is decided on, and what becomes of it.
Gated(w, p) ==
    /\ \/ /\ NeedsDeploySourcePrompt(p) /\ ask'[w].at = "asked" /\ ask'[w].pending = p
          /\ ask'[w].asked = ask[w].asked + 1
       \/ ~NeedsDeploySourcePrompt(p) /\ ask'[w].at = "ready" /\ ask'[w].asked = ask[w].asked
    /\ ask'[w].full = ask[w].full

LEMMA EvaluateMoves ==
    ASSUME LearningTypes, AsksInv, NEW w \in Workloads, EvaluateDeploySourceGate(w)
    PROVE  /\ UNCHANGED <<setup, table, boot, worker, taught, run, seed, spent>>
           /\ ask[w].at = "new" /\ AskTypes' /\ \A v \in Workloads \ {w} : ask'[v] = ask[v]
           /\ \E facts : Gated(w, MergeDeployProvenance(<<facts, ask[w].request>>))
           /\ LearnTypes'
           /\ \/ UNCHANGED learn
              \/ /\ OwnKey(Save(w)) \in Keys
                 /\ learn'[Save(w)].at = "sent" /\ learn'[Save(w)].key = OwnKey(Save(w))
                 /\ learn'[Save(w)].text.fix = "none"
                 /\ \A q \in Pending \ {Save(w)} : learn'[q] = learn[q]
<1>1. /\ UNCHANGED <<setup, table, boot, worker, taught, run, seed, spent>>
      /\ w \in DOMAIN setup.facts /\ ask[w].at = "new"
  BY DEF EvaluateDeploySourceGate, platform
<1>2. PICK facts :
         LET p == MergeDeployProvenance(<<facts, ask[w].request>>)
         IN /\ ask' = IF NeedsDeploySourcePrompt(p)
                      THEN [ask EXCEPT ![w].at = "asked", ![w].pending = p, ![w].asked = @ + 1]
                      ELSE [ask EXCEPT ![w].at = "ready"]
            /\ UNCHANGED learn \/ SaveDeploySourceRegistry(w, p)
  BY DEF EvaluateDeploySourceGate, MergeRequestProvenance
<1> DEFINE p == MergeDeployProvenance(<<facts, ask[w].request>>)
<1>3. ask[w].request.hotFix => ~NeedsDeploySourcePrompt(p)
  BY MergeOfTwo DEF NeedsDeploySourcePrompt
<1>4. /\ ask' = IF NeedsDeploySourcePrompt(p)
                THEN [ask EXCEPT ![w].at = "asked", ![w].pending = p, ![w].asked = ask[w].asked + 1]
                ELSE [ask EXCEPT ![w].at = "ready"]
      /\ UNCHANGED learn \/ SaveDeploySourceRegistry(w, p)
  BY <1>2
<1> HIDE DEF p
<1>5. PICK P : p \in P /\ ask \in [Workloads -> AskRows(P)] BY AskRowsOf
<1>8. AskTypes' /\ Gated(w, p) /\ \A v \in Workloads \ {w} : ask'[v] = ask[v]
  <2>1. CASE NeedsDeploySourcePrompt(p)
    <3> DEFINE old == ask[w]
               row == [old EXCEPT !.at = "asked", !.pending = p, !.asked = old.asked + 1]
    <3>1. old \in AskRows(P) BY <1>5
    <3>2. old.asked + 1 \in 0..AskLimit
      <4>1. old.asked < AskLimit BY <1>1, <1>3, <2>1 DEF AsksInv, AsksEnd
      <4>2. old.asked \in 0..AskLimit BY <3>1 DEF AskRows
      <4> HIDE DEF old
      <4>3. QED BY <4>1, <4>2, KnowledgeAssumption DEF KnowledgeAssumption
    <3>3. ask' = [ask EXCEPT ![w] = row] BY <1>4, <2>1
    <3> HIDE DEF old
    <3>4. row \in AskRows(P) /\ row.at = "asked" /\ row.pending = p /\ row.asked = old.asked + 1
          /\ row.full = old.full
      BY <1>5, <3>1, <3>2 DEF AskRows
    <3> HIDE DEF row
    <3>5. AskTypes' /\ ask'[w] = row /\ \A v \in Workloads \ {w} : ask'[v] = ask[v]
      BY <1>5, <3>3, <3>4, AskSet
    <3>6. Gated(w, p) BY <2>1, <3>4, <3>5 DEF Gated, old
    <3>7. QED BY <3>5, <3>6
  <2>2. CASE ~NeedsDeploySourcePrompt(p)
    <3> DEFINE old == ask[w]
               row == [old EXCEPT !.at = "ready"]
    <3>1. old \in AskRows(P) BY <1>5
    <3>2. ask' = [ask EXCEPT ![w] = row] BY <1>4, <2>2
    <3> HIDE DEF old
    <3>3. row \in AskRows(P) /\ row.at = "ready" /\ row.asked = old.asked /\ row.full = old.full
      BY <3>1 DEF AskRows
    <3> HIDE DEF row
    <3>4. AskTypes' /\ ask'[w] = row /\ \A v \in Workloads \ {w} : ask'[v] = ask[v]
      BY <1>5, <3>2, <3>3, AskSet
    <3>5. Gated(w, p) BY <2>2, <3>3, <3>4 DEF Gated, old
    <3>6. QED BY <3>4, <3>5
  <2>3. QED BY <2>1, <2>2
<1>9. CASE UNCHANGED learn BY <1>1, <1>8, <1>9, LearnRests DEF p
<1>10. CASE SaveDeploySourceRegistry(w, p)
  <2> DEFINE text == RegistryMarkdown(p)
             row == [at |-> "sent", key |-> RegistryKey(w), text |-> text]
  <2>1. IsText(text) /\ text.fix = "none"
    <3>1. \A b, c \in BOOLEAN : IsText(Text("none", b, {}, c, p)) /\ Text("none", b, {}, c, p).fix = "none"
      BY TextFields
    <3>2. QED BY <3>1 DEF RegistryMarkdown
  <2> HIDE DEF text
  <2>2. IsLearn(row) /\ row.at = "sent" /\ row.key = RegistryKey(w) /\ row.text.fix = "none"
    BY <2>1, SentIsLearn
  <2>3. learn' = [learn EXCEPT ![Save(w)] = row] BY <1>10 DEF SaveDeploySourceRegistry, text
  <2> HIDE DEF row
  <2>4. LearnTypes' /\ learn'[Save(w)] = row /\ \A q \in Pending \ {Save(w)} : learn'[q] = learn[q]
    BY <2>2, <2>3, SaveIsPending, LearnSet DEF LearnTypes
  <2>5. OwnKey(Save(w)) = RegistryKey(w) /\ RegistryKey(w) \in Keys
    BY <1>1, SaveIsPending, KnowledgeAssumption DEF KnowledgeAssumption, OwnKey, RegistryKey, LearningTypes
  <2>6. QED BY <1>1, <1>8, <2>2, <2>4, <2>5 DEF p
<1>11. QED BY <1>4, <1>9, <1>10

\* An answer, whole or not, and the question is put anew.
LEMMA ReplyMoves ==
    ASSUME LearningTypes, NEW w \in Workloads, ReplyDeploySource(w)
    PROVE  /\ UNCHANGED <<setup, table, boot, worker, taught, run, seed, learn, spent>>
           /\ ask[w].at = "asked" /\ ask[w].asked < AskLimit
           /\ AskTypes' /\ \A v \in Workloads \ {w} : ask'[v] = ask[v]
           /\ ask'[w].at = "new" /\ ask'[w].asked = ask[w].asked
           /\ ask'[w].full =>
                 /\ ask[w].full
                 /\ ask[w].pending.has \cup Asked(ask[w].pending) \subseteq ask'[w].request.has
<1>1. /\ UNCHANGED <<setup, table, boot, worker, taught, run, seed, learn, spent>>
      /\ ask[w].at = "asked" /\ ask[w].asked < AskLimit
  BY DEF ReplyDeploySource, platform
<1> DEFINE old == ask[w]
<1>2. PICK reply \in Replies(Asked(old.pending)) :
         LET merged == MergeDeployProvenance(<<old.pending, ParseDeploySourceReply(reply)>>)
         IN ask' = [ask EXCEPT ![w].at = "new", ![w].request = merged,
                               ![w].full = @ /\ Asked(old.pending) \subseteq Recognised(reply),
                               ![w].given = @ /\ Asked(old.pending) \subseteq Gives(reply)]
  BY DEF ReplyDeploySource
<1> DEFINE said == ParseDeploySourceReply(reply)
           merged == MergeDeployProvenance(<<old.pending, said>>)
           full == old.full /\ Asked(old.pending) \subseteq Recognised(reply)
           given == old.given /\ Asked(old.pending) \subseteq Gives(reply)
           row == [old EXCEPT !.at = "new", !.request = merged, !.full = full, !.given = given]
<1>3. ask' = [ask EXCEPT ![w].at = "new", ![w].request = merged, ![w].full = full, ![w].given = given]
  BY <1>2
<1>4. PICK P : merged \in P /\ ask \in [Workloads -> AskRows(P)] BY AskRowsOf
<1>5. full \in BOOLEAN /\ given \in BOOLEAN OBVIOUS
<1>6. full => old.full /\ old.pending.has \cup Asked(old.pending) \subseteq merged.has
  <2>1. said.has = Recognised(reply) BY DEF ParseDeploySourceReply, Silent
  <2> HIDE DEF said
  <2>2. merged.has = old.pending.has \cup said.has BY MergeKnows
  <2>3. QED BY <2>1, <2>2
<1> HIDE DEF merged, full, given
<1>7. ask' = [ask EXCEPT ![w] = row] BY <1>3
<1>8. old \in AskRows(P) BY <1>4
<1> HIDE DEF old
<1>9. /\ row \in AskRows(P) /\ row.at = "new" /\ row.request = merged /\ row.full = full
      /\ row.asked = old.asked
  BY <1>4, <1>5, <1>8 DEF AskRows
<1> HIDE DEF row
<1>10. AskTypes' /\ ask'[w] = row /\ \A v \in Workloads \ {w} : ask'[v] = ask[v]
  BY <1>4, <1>7, <1>9, AskSet
<1>11. QED BY <1>1, <1>6, <1>9, <1>10 DEF old

LEMMA HotFixMoves ==
    ASSUME LearningTypes, NEW w \in Workloads, HotFixDeploySource(w)
    PROVE  /\ UNCHANGED <<setup, table, boot, worker, taught, run, seed, learn, spent>>
           /\ ask[w].at = "asked"
           /\ AskTypes' /\ \A v \in Workloads \ {w} : ask'[v] = ask[v]
           /\ ask'[w].at = "new" /\ ask'[w].asked = ask[w].asked /\ ask'[w].full = ask[w].full
           /\ ask'[w].request.hotFix
<1> DEFINE old == ask[w]
<1>1. PICK reply \in {HotFixButton, MergeDeployProvenance(<<old.pending, HotFixReply>>)} :
         ask' = [ask EXCEPT ![w].at = "new", ![w].request = reply]
  BY DEF HotFixDeploySource
<1>2. reply.hotFix
  <2>1. HotFixReply.hotFix /\ HotFixButton.hotFix BY DEF HotFixReply, HotFixButton, Silent
  <2>2. MergeDeployProvenance(<<old.pending, HotFixReply>>).hotFix BY <2>1, MergeOfTwo
  <2>3. QED BY <1>1, <2>1, <2>2
<1>3. PICK P : reply \in P /\ ask \in [Workloads -> AskRows(P)] BY AskRowsOf
<1> DEFINE row == [old EXCEPT !.at = "new", !.request = reply]
<1>4. ask' = [ask EXCEPT ![w] = row] BY <1>1
<1>5. old \in AskRows(P) BY <1>3
<1> HIDE DEF old
<1>6. /\ row \in AskRows(P) /\ row.at = "new" /\ row.request = reply /\ row.full = old.full
      /\ row.asked = old.asked
  BY <1>3, <1>5 DEF AskRows
<1> HIDE DEF row
<1>7. AskTypes' /\ ask'[w] = row /\ \A v \in Workloads \ {w} : ask'[v] = ask[v]
  BY <1>3, <1>4, <1>6, AskSet
<1>8. QED BY <1>2, <1>6, <1>7 DEF HotFixDeploySource, platform, old

LEMMA CancelMoves ==
    ASSUME LearningTypes, NEW w \in Workloads, CancelDeploySource(w)
    PROVE  /\ UNCHANGED <<setup, table, boot, worker, taught, run, seed, learn, spent>>
           /\ AskTypes' /\ \A v \in Workloads \ {w} : ask'[v] = ask[v]
           /\ ask'[w].at = "cancelled" /\ ask'[w].asked = ask[w].asked /\ ask'[w].full = ask[w].full
<1> DEFINE old == ask[w]
           row == [old EXCEPT !.at = "cancelled"]
<1>1. PICK P : ask \in [Workloads -> AskRows(P)] BY AskRowsOf
<1>2. ask' = [ask EXCEPT ![w] = row] BY DEF CancelDeploySource
<1>3. old \in AskRows(P) BY <1>1
<1> HIDE DEF old
<1>4. row \in AskRows(P) /\ row.at = "cancelled" /\ row.full = old.full /\ row.asked = old.asked
  BY <1>3 DEF AskRows
<1> HIDE DEF row
<1>5. AskTypes' /\ ask'[w] = row /\ \A v \in Workloads \ {w} : ask'[v] = ask[v]
  BY <1>1, <1>2, <1>4, AskSet
<1>6. QED BY <1>4, <1>5 DEF CancelDeploySource, platform, old

LEMMA NextIncidentMoves ==
    ASSUME LearningTypes, NEW w \in Workloads, NextIncident(w)
    PROVE  /\ UNCHANGED <<setup, table, boot, worker, taught, run, seed, learn, spent>>
           /\ AskTypes' /\ \A v \in Workloads \ {w} : ask'[v] = ask[v]
           /\ AsksEnd(ask'[w])
<1> DEFINE n == ask[w].incident + 1
           row == [NotAsked EXCEPT !.incident = n]
<1>1. PICK P : Silent \in P /\ Blank \in P /\ ask \in [Workloads -> AskRows(P)] BY AskRowsOfTwo
<1>2. n \in Nat BY <1>1 DEF AskRows
<1>3. ask' = [ask EXCEPT ![w] = row] BY DEF NextIncident
<1> HIDE DEF n
<1>4. row \in AskRows(P)
  <2>1. NotAsked \in AskRows(P)
    BY <1>1, KnowledgeAssumption DEF KnowledgeAssumption, AskRows, NotAsked
  <2>2. QED BY <1>2, <2>1 DEF AskRows
<1>5. AsksEnd(row) BY FreshAsk
<1> HIDE DEF row
<1>6. AskTypes' /\ ask'[w] = row /\ \A v \in Workloads \ {w} : ask'[v] = ask[v]
  BY <1>1, <1>3, <1>4, AskSet
<1>7. QED BY <1>5, <1>6 DEF NextIncident, platform

LEMMA AskLearning ==
    ASSUME LearningTypes, AsksInv, NEW w \in Workloads,
           \/ EvaluateDeploySourceGate(w) \/ ReplyDeploySource(w) \/ HotFixDeploySource(w)
           \/ CancelDeploySource(w) \/ NextIncident(w)
    PROVE  LearningTypes'
<1>1. /\ UNCHANGED <<setup, table, boot, worker, taught, run, seed, spent>>
      /\ AskTypes' /\ LearnTypes'
  BY EvaluateMoves, ReplyMoves, HotFixMoves, CancelMoves, NextIncidentMoves, LearnRests
<1>2. QED BY <1>1, TypesAgain, PlatformRests

\* An answered operator is not asked on.
LEMMA AsksGoOn ==
    ASSUME LearningTypes, AsksInv, NEW w \in Workloads,
           \/ EvaluateDeploySourceGate(w) \/ ReplyDeploySource(w) \/ HotFixDeploySource(w)
           \/ CancelDeploySource(w) \/ NextIncident(w)
    PROVE  AsksInv'
<1>1. PICK P : ask \in [Workloads -> AskRows(P)] BY AskRowsOf
<1>2. ask[w].asked \in Nat /\ AsksEnd(ask[w])
  BY <1>1, KnowledgeAssumption DEF KnowledgeAssumption, AskRows, AsksInv
<1>3. SUFFICES AsksEnd(ask'[w]) /\ \A v \in Workloads \ {w} : ask'[v] = ask[v]
  BY DEF AsksInv
<1>4. CASE EvaluateDeploySourceGate(w)
  <2>1. PICK facts : Gated(w, MergeDeployProvenance(<<facts, ask[w].request>>))
    BY <1>4, EvaluateMoves
  <2> DEFINE request == ask[w].request
             p == MergeDeployProvenance(<<facts, request>>)
  <2>2. request.has \subseteq p.has /\ (request.hotFix => p.hotFix)
    <3> HIDE DEF request
    <3>1. p.has = facts.has \cup request.has /\ (p.hotFix <=> facts.hotFix \/ request.hotFix)
      BY MergeKnows
    <3> HIDE DEF p
    <3>2. QED BY <3>1
  <2>3. Gated(w, p) BY <2>1
  <2> HIDE DEF p
  <2>4. Settled(request.has) <= Settled(p.has) BY <2>2, SettledGrows
  <2>5. Settled(request.has) \in 0..3 /\ Settled(p.has) \in 0..3 BY SettledAtMostThree
  <2>6. request.hotFix => ~NeedsDeploySourcePrompt(p) BY <2>2 DEF NeedsDeploySourcePrompt
  <2>7. ask[w].at = "new" /\ \A v \in Workloads \ {w} : ask'[v] = ask[v] BY <1>4, EvaluateMoves
  <2> DEFINE old == ask[w]
             row == ask'[w]
  <2>8. CASE NeedsDeploySourcePrompt(p)
    <3>1. row.at = "asked" /\ row.pending = p /\ row.asked = old.asked + 1 /\ row.full = old.full
      BY <2>3, <2>8 DEF Gated
    <3>2. old.full => old.asked <= Settled(request.has) BY <1>2, <2>6, <2>7, <2>8 DEF AsksEnd
    <3>3. Settled(p.has) <= 2 BY <2>8, AskedIsNotSettled
    <3> HIDE DEF row, old, request
    <3>4. old.asked \in Nat BY <1>2 DEF old
    <3>5. row.full => row.asked <= 1 + Settled(p.has) /\ row.asked <= 3
      BY <2>4, <2>5, <3>1, <3>2, <3>3, <3>4
    <3>6. AsksEnd(row) BY <2>8, <3>1, <3>5 DEF AsksEnd
    <3>7. QED BY <2>7, <3>6 DEF row
  <2>9. CASE ~NeedsDeploySourcePrompt(p)
    <3>1. row.at = "ready" /\ row.asked = old.asked /\ row.full = old.full
      BY <2>3, <2>9 DEF Gated
    <3> HIDE DEF row
    <3>2. AsksEnd(row) BY <1>2, <3>1 DEF AsksEnd
    <3>3. QED BY <2>7, <3>2 DEF row
  <2>10. QED BY <2>8, <2>9
<1>5. CASE ReplyDeploySource(w)
  <2> DEFINE old == ask[w]
             row == ask'[w]
  <2>1. /\ old.asked < AskLimit /\ old.at = "asked" /\ NeedsDeploySourcePrompt(old.pending)
    BY <1>2, <1>5, ReplyMoves DEF AsksEnd
  <2>2. row.full => Settled(old.pending.has) + 1 <= Settled(row.request.has)
    BY <1>5, <2>1, AnswerSettlesMore, ReplyMoves
  <2>3. row.full => old.asked <= 3 /\ old.asked <= 1 + Settled(old.pending.has)
    BY <1>2, <1>5, <2>1, ReplyMoves DEF AsksEnd
  <2>4. row.at = "new" /\ row.asked = old.asked BY <1>5, ReplyMoves
  <2>5. /\ old.asked \in Nat /\ Settled(old.pending.has) \in 0..3
        /\ Settled(row.request.has) \in 0..3
    BY <1>2, SettledAtMostThree
  <2>6. \A v \in Workloads \ {w} : ask'[v] = ask[v] BY <1>5, ReplyMoves
  <2> HIDE DEF row, old
  <2>7. row.asked < AskLimit /\ (row.full => row.asked <= 3) BY <2>1, <2>3, <2>4
  <2>8. row.full => row.asked <= Settled(row.request.has) BY <2>2, <2>3, <2>4, <2>5
  <2>9. AsksEnd(row) BY <2>4, <2>7, <2>8 DEF AsksEnd
  <2>10. QED BY <2>6, <2>9 DEF row
<1>6. CASE HotFixDeploySource(w)
  <2> DEFINE old == ask[w]
             row == ask'[w]
  <2>1. /\ row.at = "new" /\ row.asked = old.asked /\ row.full = old.full /\ row.request.hotFix
        /\ \A v \in Workloads \ {w} : ask'[v] = ask[v]
    BY <1>6, HotFixMoves
  <2>2. old.full => old.asked <= 3 BY <1>2 DEF AsksEnd
  <2> HIDE DEF row, old
  <2>3. AsksEnd(row) BY <2>1, <2>2 DEF AsksEnd
  <2>4. QED BY <2>1, <2>3 DEF row
<1>7. CASE CancelDeploySource(w)
  <2> DEFINE old == ask[w]
             row == ask'[w]
  <2>1. /\ row.at = "cancelled" /\ row.asked = old.asked /\ row.full = old.full
        /\ \A v \in Workloads \ {w} : ask'[v] = ask[v]
    BY <1>7, CancelMoves
  <2>2. old.full => old.asked <= 3 BY <1>2 DEF AsksEnd
  <2> HIDE DEF row, old
  <2>3. AsksEnd(row) BY <2>1, <2>2 DEF AsksEnd
  <2>4. QED BY <2>1, <2>3 DEF row
<1>8. CASE NextIncident(w) BY <1>8, NextIncidentMoves
<1>9. QED BY <1>4, <1>5, <1>6, <1>7, <1>8

-----------------------------------------------------------------------------
(* Runs teach once *)

LEMMA RunStays ==
    ASSUME NEW r, RunOfItsKind(r), UNCHANGED setup,
           run'[r].at = run[r].at, run'[r].plan = run[r].plan, run'[r].direct = run[r].direct,
           run'[r].cures = run[r].cures
    PROVE  RunOfItsKind(r)'
  BY DEF RunOfItsKind

LEMMA TeachingStays ==
    ASSUME NEW t, TeachesOnce(t),
           run[t[1]].at = "ended" => run'[t[1]].at = "ended",
           run[t[1]].cures \subseteq run'[t[1]].cures /\ run[t[1]].failed \subseteq run'[t[1]].failed,
           seed'[t].at = seed[t].at \/ (seed[t].at = "posted" /\ seed'[t].at = "over"),
           seed'[t].plan = seed[t].plan,
           learn'[t].at # "none" => learn[t].at # "none",
           learn'[t].text.fix = learn[t].text.fix
    PROVE  TeachesOnce(t)'
  BY DEF TeachesOnce, Tried

LEMMA FilingStays ==
    ASSUME NEW q, FiledNear(q), UNCHANGED setup,
           learn'[q].at \in {"sent", "looked"} =>
               learn[q].at \in {"sent", "looked"} /\ learn'[q].key = learn[q].key
    PROVE  FiledNear(q)'
  BY DEF FiledNear, OwnKey

\* What a step leaves alone.
LEMMA RunsRest ==
    ASSUME RunsInv, UNCHANGED <<setup, run, seed, learn>>
    PROVE  RunsInv'
  BY DEF RunsInv, RunOfItsKind, TeachesOnce, Tried, FiledNear, OwnKey, SavesNoFix

LEMMA TriageRuns ==
    ASSUME LearningTypes, RunsInv, NEW r \in Runs, RunRagTriageGate(r)
    PROVE  RunsInv'
<1>1. UNCHANGED <<setup, seed, learn>> BY DEF RunRagTriageGate
<1>2. run[r].at = "idle" /\ RunOfItsKind(r) BY TriageTypes DEF RunsInv
<1>3. setup.mode[r] \in {"diagnose", "ci-failure"}
  BY TriageTypes, KnowledgeAssumption DEF KnowledgeAssumption, LearningTypes
<1>4. RunOfItsKind(r)'
  <2> DEFINE row == run'[r]
  <2>1. run[r].cures = {} /\ run[r].direct = FALSE
    BY <1>2 DEF RunOfItsKind, LearningTypes, RunRows
  <2>2. row.at = "running" /\ r \in DOMAIN setup.key /\ row.cures = {}
    BY <2>1, TriageTypes
  <2>3. CASE setup.mode[r] = "diagnose"
    <3>1. row.plan \in {"restart", "git_patch", "noop"}
      BY <2>3, TriageTypes, FixesOfPlans
    <3>2. QED BY <1>1, <2>2, <2>3, <3>1 DEF RunOfItsKind
  <2>4. CASE setup.mode[r] = "ci-failure"
    <3>1. row.plan = "cicd_code_pr" BY <2>4, TriageTypes
    <3>2. QED BY <1>1, <2>2, <2>4, <3>1 DEF RunOfItsKind
  <2>5. QED BY <1>3, <2>3, <2>4
<1>5. ASSUME NEW p \in Runs \ {r} PROVE RunOfItsKind(p)'
  BY <1>1, TriageTypes, RunStays DEF RunsInv
<1>6. ASSUME NEW t \in Tasks PROVE TeachesOnce(t)'
  <2>1. TeachesOnce(t) /\ t[1] \in Runs BY TaskOfRun DEF RunsInv
  <2>2. run[t[1]].at = "ended" => t[1] # r BY <1>2
  <2>3. run[t[1]].at = "ended" => run'[t[1]] = run[t[1]] BY <2>1, <2>2, TriageTypes
  <2>4. run[t[1]].cures \subseteq run'[t[1]].cures /\ run[t[1]].failed \subseteq run'[t[1]].failed
    BY <2>1, TriageTypes
  <2>5. QED BY <1>1, <2>1, <2>3, <2>4, TeachingStays
<1>7. \A q \in Pending : FiledNear(q)' BY <1>1 DEF RunsInv, FiledNear, OwnKey
<1>8. SavesNoFix' BY <1>1 DEF RunsInv, SavesNoFix
<1>9. QED BY <1>4, <1>5, <1>6, <1>7, <1>8 DEF RunsInv

\* A run ends, and an outcome that was not taught before may be.
LEMMA OutcomeRuns ==
    ASSUME LearningTypes, RunsInv, NEW t \in Tasks, UNCHANGED <<setup, learn>>,
           run' \in [Runs -> RunRows], seed[t].at = "none",
           \A r \in Runs \ {t[1]} : run'[r] = run[r],
           run[t[1]].at # "idle", run'[t[1]].at = "ended", run'[t[1]].plan = run[t[1]].plan,
           run'[t[1]].direct = run[t[1]].direct,
           run[t[1]].cures \subseteq run'[t[1]].cures, run[t[1]].failed \subseteq run'[t[1]].failed,
           NEW fix \in Fixes,
           IsDirectRagBypassPlan(fix) =>
               run'[t[1]].cures # {} /\ fix \in run'[t[1]].cures \cup run'[t[1]].failed,
           UNCHANGED seed \/ seed' = [seed EXCEPT ![t] = [at |-> "due", plan |-> fix]]
    PROVE  RunsInv'
<1>1. t[1] \in Runs /\ t \in Pending BY TaskOfRun
<1>2. seed \in [Tasks -> SeedRows] BY DEF LearningTypes
<1>3. RunOfItsKind(t[1])'
  <2>1. RunOfItsKind(t[1]) BY <1>1 DEF RunsInv
  <2>2. QED BY <2>1 DEF RunOfItsKind
<1>4. ASSUME NEW r \in Runs \ {t[1]} PROVE RunOfItsKind(r)' BY RunStays DEF RunsInv
<1>5. ASSUME NEW u \in Tasks \ {t} PROVE TeachesOnce(u)'
  <2>1. TeachesOnce(u) /\ u[1] \in Runs BY TaskOfRun DEF RunsInv
  <2>2. seed'[u] = seed[u] BY <1>2
  <2>3. run[u[1]].at = "ended" => run'[u[1]].at = "ended" BY <2>1
  <2>4. run[u[1]].cures \subseteq run'[u[1]].cures /\ run[u[1]].failed \subseteq run'[u[1]].failed BY <2>1
  <2>5. learn'[u] = learn[u] OBVIOUS
  <2>6. QED BY <2>1, <2>2, <2>3, <2>4, <2>5, TeachingStays
<1>6. TeachesOnce(t)'
  <2>1. learn[t].at = "none" BY DEF RunsInv, TeachesOnce
  <2>2. seed'[t].at = "none" \/ (seed'[t].at = "due" /\ seed'[t].plan = fix) BY <1>2
  <2>4. CASE seed'[t].at = "none" BY <2>1, <2>4 DEF TeachesOnce
  <2>5. CASE seed'[t].at = "due" /\ seed'[t].plan = fix BY <2>1, <2>5 DEF TeachesOnce, Tried
  <2>3. QED BY <2>2, <2>4, <2>5
<1>7. \A q \in Pending : FiledNear(q)' BY DEF RunsInv, FiledNear, OwnKey
<1>8. SavesNoFix' BY DEF RunsInv, SavesNoFix
<1>9. QED BY <1>3, <1>4, <1>5, <1>6, <1>7, <1>8 DEF RunsInv

LEMMA EndRuns ==
    ASSUME LearningTypes, RunsInv, NEW r \in Runs, EndRun(r) \/ EndAgain(r)
    PROVE  RunsInv'
<1>1. ASSUME NEW t \in Tasks, t[1] = r, run[r].at # "idle", seed[t].at = "none", UNCHANGED <<setup, learn>>,
             NEW e, SaysWhatWasDone(e), Outcome(t, e)
      PROVE  RunsInv'
  <2>1. /\ run' \in [Runs -> RunRows] /\ \A p \in Runs \ {t[1]} : run'[p] = run[p]
        /\ run'[t[1]].at = "ended" /\ run'[t[1]].plan = run[t[1]].plan
        /\ run'[t[1]].direct = run[t[1]].direct
        /\ run[t[1]].cures \subseteq run'[t[1]].cures /\ run[t[1]].failed \subseteq run'[t[1]].failed
    BY <1>1, OutcomeEnds
  <2>2. \/ UNCHANGED seed
        \/ /\ seed' = [seed EXCEPT ![t] = [at |-> "due", plan |-> e.plan]] /\ e.plan \in Fixes
           /\ run'[t[1]].cures # {} /\ e.plan \in run'[t[1]].cures \cup run'[t[1]].failed
    BY <1>1, OutcomeEnds
  <2>3. \E fix \in Fixes : ~IsDirectRagBypassPlan(fix) BY FixesOfPlans
  <2>4. QED BY <1>1, <2>1, <2>2, <2>3, OutcomeRuns
<1>2. CASE EndRun(r)
  <2>1. TeachesOnce(<<r, "end">>) /\ seed \in [Tasks -> SeedRows]
    BY <1>2, EndRunMoves DEF RunsInv, LearningTypes
  <2>2. seed[<<r, "end">>].at = "none" BY <1>2, <2>1, EndRunMoves DEF TeachesOnce
  <2>3. QED BY <1>1, <1>2, <2>2, EndRunMoves
<1>3. CASE EndAgain(r)
  <2> DEFINE t == <<r, "again">>
  <2>1. t \in Tasks /\ t[1] = r /\ run[r].at = "ended" /\ seed[t].at = "none" /\ UNCHANGED <<setup, learn>>
    BY <1>3, EndAgainMoves
  <2>2. CASE \E e : SaysWhatWasDone(e) /\ Outcome(t, e) BY <1>1, <2>1, <2>2
  <2>3. CASE /\ UNCHANGED run
             /\ UNCHANGED seed \/ seed' = [seed EXCEPT ![t] = [at |-> "due", plan |-> "cicd_code_pr"]]
    <3>1. "cicd_code_pr" \in Fixes /\ ~IsDirectRagBypassPlan("cicd_code_pr") BY FixesOfPlans
    <3>2. run' \in [Runs -> RunRows] BY <2>3 DEF LearningTypes
    <3>3. QED BY <2>1, <2>3, <3>1, <3>2, OutcomeRuns
  <2>4. QED BY <1>3, <2>2, <2>3, EndAgainMoves
<1>4. QED BY <1>2, <1>3

LEMMA TeachRuns ==
    ASSUME LearningTypes, RunsInv, NEW t \in Tasks, TeachRun(t)
    PROVE  RunsInv'
<1>1. UNCHANGED <<setup, run>> /\ t \in Pending BY TeachMoves, TaskOfRun
<1>2. \A r \in Runs : RunOfItsKind(r)' BY <1>1 DEF RunsInv, RunOfItsKind
<1>3. ASSUME NEW u \in Tasks \ {t} PROVE TeachesOnce(u)'
  <2>1. TeachesOnce(u) /\ u \in Pending BY TaskOfRun DEF RunsInv
  <2>2. seed'[u] = seed[u] /\ learn'[u] = learn[u] BY <2>1, TeachMoves
  <2>3. QED BY <1>1, <2>1, <2>2, TeachingStays
<1>4. TeachesOnce(t)'
  <2>1. TeachesOnce(t) /\ seed[t].at = "due" /\ seed'[t].plan = seed[t].plan
        /\ run[t[1]].at = "ended"
    BY TeachMoves DEF RunsInv
  <2>2. learn[t].at = "none" BY <2>1 DEF TeachesOnce
  <2>3. \/ seed'[t].at = "over" /\ UNCHANGED learn
        \/ seed'[t].at = "posted" /\ learn'[t].text.fix = seed[t].plan
    BY TeachMoves
  <2>4. QED BY <1>1, <2>1, <2>2, <2>3 DEF TeachesOnce, Tried
<1>5. ASSUME NEW q \in Pending \ {t} PROVE FiledNear(q)'
  <2>1. learn'[q] = learn[q] BY TeachMoves
  <2>2. QED BY <1>1, <2>1, FilingStays DEF RunsInv
<1>6. FiledNear(t)'
  <2>1. OwnKey(t)' = setup.key[t[1]] /\ OwnKey(t) = setup.key[t[1]] BY <1>1, TaskOfRun DEF OwnKey
  <2>2. setup.key[t[1]] \in Keys
    BY TeachMoves, KnowledgeAssumption DEF KnowledgeAssumption, LearningTypes
  <2>3. CASE UNCHANGED learn BY <1>1, <2>3, FilingStays DEF RunsInv
  <2>4. CASE learn'[t].key = setup.key[t[1]] BY <2>1, <2>2, <2>4, LeadsToItself DEF FiledNear
  <2>5. QED BY <2>3, <2>4, TeachMoves
<1>7. SavesNoFix'
  <2>1. \A w \in Workloads : learn'[Save(w)] = learn[Save(w)] BY TeachMoves, SaveIsPending
  <2>2. QED BY <2>1 DEF RunsInv, SavesNoFix
<1>8. QED BY <1>2, <1>3, <1>4, <1>5, <1>6, <1>7 DEF RunsInv

LEMMA SeedingRuns ==
    ASSUME LearningTypes, RunsInv, NEW t \in Tasks, MarkSeeded(t) \/ GiveUp(t)
    PROVE  RunsInv'
<1>1. /\ UNCHANGED <<setup, learn>>
      /\ seed[t].at = "posted" /\ seed'[t].at = "over" /\ seed'[t].plan = seed[t].plan
      /\ \A u \in Tasks \ {t} : seed'[u] = seed[u]
      /\ \A r \in Runs : /\ run'[r].at = run[r].at /\ run'[r].plan = run[r].plan
                         /\ run'[r].direct = run[r].direct
                              /\ run'[r].cures = run[r].cures /\ run'[r].failed = run[r].failed
  BY MarkMoves, GiveUpMoves
<1>2. \A r \in Runs : RunOfItsKind(r)' BY <1>1, RunStays DEF RunsInv
<1>3. ASSUME NEW u \in Tasks PROVE TeachesOnce(u)'
  <2>1. TeachesOnce(u) /\ u[1] \in Runs BY TaskOfRun DEF RunsInv
  <2>2. QED BY <1>1, <2>1, TeachingStays
<1>4. \A q \in Pending : FiledNear(q)' BY <1>1 DEF RunsInv, FiledNear, OwnKey
<1>5. SavesNoFix' BY <1>1 DEF RunsInv, SavesNoFix
<1>6. QED BY <1>2, <1>3, <1>4, <1>5 DEF RunsInv

\* A learn goes on: what it is about stays, and where it is filed is near.
LEMMA LearningRuns ==
    ASSUME LearningTypes, RunsInv, NEW q \in Pending, UNCHANGED <<setup, run, seed>>,
           \A p \in Pending \ {q} : learn'[p] = learn[p],
           learn[q].at # "none", learn'[q].text.fix = learn[q].text.fix, FiledNear(q)'
    PROVE  RunsInv'
<1>1. \A r \in Runs : RunOfItsKind(r)' BY DEF RunsInv, RunOfItsKind
<1>2. ASSUME NEW t \in Tasks PROVE TeachesOnce(t)'
  <2>1. TeachesOnce(t) /\ t \in Pending BY TaskOfRun DEF RunsInv
  <2>2. learn'[t].text.fix = learn[t].text.fix /\ (learn'[t].at # "none" => learn[t].at # "none")
    BY <2>1
  <2>3. QED BY <2>1, <2>2, TeachingStays
<1>3. ASSUME NEW p \in Pending PROVE FiledNear(p)'
  <2>1. CASE p # q BY <2>1, FilingStays DEF RunsInv
  <2>2. QED BY <2>1
<1>4. SavesNoFix'
  <2>1. \A w \in Workloads : learn'[Save(w)].text.fix = learn[Save(w)].text.fix BY SaveIsPending
  <2>2. QED BY <2>1 DEF RunsInv, SavesNoFix
<1>5. QED BY <1>1, <1>2, <1>3, <1>4 DEF RunsInv

LEMMA LearnRuns ==
    ASSUME LearningTypes, RunsInv, NEW q \in Pending,
           LookForNear(q) \/ RefuseLearn(q) \/ UpsertVerifiedRunbook(q)
    PROVE  RunsInv'
<1>1. CASE LookForNear(q)
  <2>1. OwnKey(q) \in Keys /\ learn[q].key \in Keys /\ Leads(learn[q].key, OwnKey(q))
    BY <1>1, LookMoves DEF RunsInv, FiledNear
  <2>2. learn'[q].key \in Keys /\ Leads(learn'[q].key, learn[q].key) BY <1>1, LookMoves
  <2>3. Leads(learn'[q].key, OwnKey(q)) BY <2>1, <2>2, LeadsOn
  <2>4. OwnKey(q)' = OwnKey(q) BY <1>1, LookMoves DEF OwnKey
  <2>5. FiledNear(q)' BY <2>1, <2>2, <2>3, <2>4 DEF FiledNear
  <2>6. QED BY <1>1, <2>5, LookMoves, LearningRuns
<1>2. CASE RefuseLearn(q)
  <2>1. FiledNear(q)' BY <1>2, RefuseMoves DEF FiledNear
  <2>2. QED BY <1>2, <2>1, RefuseMoves, LearningRuns
<1>3. CASE UpsertVerifiedRunbook(q)
  <2>1. FiledNear(q)' BY <1>3, UpsertMoves DEF FiledNear
  <2>2. QED BY <1>3, <2>1, UpsertMoves, LearningRuns
<1>4. QED BY <1>1, <1>2, <1>3

LEMMA RestartRuns ==
    ASSUME LearningTypes, RunsInv, RestartPlatform
    PROVE  RunsInv'
<1>1. UNCHANGED <<setup, run, seed>> BY RestartMoves
<1>2. \A q \in Pending :
         /\ learn'[q].text = learn[q].text /\ (learn'[q].at # "none" => learn[q].at # "none")
         /\ learn'[q].at \notin {"sent", "looked"}
  BY RestartMoves
<1>3. \A r \in Runs : RunOfItsKind(r)' BY <1>1 DEF RunsInv, RunOfItsKind
<1>4. ASSUME NEW t \in Tasks PROVE TeachesOnce(t)'
  <2>1. TeachesOnce(t) /\ t \in Pending BY TaskOfRun DEF RunsInv
  <2>2. QED BY <1>1, <1>2, <2>1, TeachingStays
<1>5. \A q \in Pending : FiledNear(q)' BY <1>2 DEF FiledNear
<1>6. SavesNoFix' BY <1>2, SaveIsPending DEF RunsInv, SavesNoFix
<1>7. QED BY <1>3, <1>4, <1>5, <1>6 DEF RunsInv

LEMMA AskRuns ==
    ASSUME LearningTypes, RunsInv, AsksInv, NEW w \in Workloads, EvaluateDeploySourceGate(w)
    PROVE  RunsInv'
<1>1. UNCHANGED <<setup, run, seed>> BY EvaluateMoves
<1>2. CASE UNCHANGED learn BY <1>1, <1>2, RunsRest
<1>3. CASE /\ OwnKey(Save(w)) \in Keys
           /\ learn'[Save(w)].at = "sent" /\ learn'[Save(w)].key = OwnKey(Save(w))
           /\ learn'[Save(w)].text.fix = "none"
           /\ \A q \in Pending \ {Save(w)} : learn'[q] = learn[q]
  <2>1. \A r \in Runs : RunOfItsKind(r)' BY <1>1 DEF RunsInv, RunOfItsKind
  <2>2. ASSUME NEW t \in Tasks PROVE TeachesOnce(t)'
    <3>1. learn'[t] = learn[t] /\ TeachesOnce(t) BY <1>3, TaskOfRun, SaveIsPending DEF RunsInv
    <3>2. QED BY <1>1, <3>1 DEF TeachesOnce, Tried
  <2>3. ASSUME NEW q \in Pending PROVE FiledNear(q)'
    <3>1. CASE q = Save(w)
      <4>1. OwnKey(q)' = OwnKey(q) BY <1>1 DEF OwnKey
      <4>2. QED BY <1>3, <3>1, <4>1, LeadsToItself DEF FiledNear
    <3>2. CASE q # Save(w) BY <1>1, <1>3, <3>2, FilingStays DEF RunsInv
    <3>3. QED BY <3>1, <3>2
  <2>4. SavesNoFix'
    <3>1. \A v \in Workloads : Save(v) = Save(w) \/ learn'[Save(v)] = learn[Save(v)]
      BY <1>3, SaveIsPending
    <3>2. QED BY <1>3, <3>1 DEF RunsInv, SavesNoFix
  <2>5. QED BY <2>1, <2>2, <2>3, <2>4 DEF RunsInv
<1>4. QED BY <1>2, <1>3, EvaluateMoves

-----------------------------------------------------------------------------
(* What is known had been tried *)

\* What was taught and tried stays so.
TaughtStays ==
    /\ UNCHANGED setup
    /\ \A t \in Tasks : learn[t].at # "none" => learn'[t].at # "none" /\ learn'[t].text.fix = learn[t].text.fix
    /\ \A r \in Runs : run[r].cures \subseteq run'[r].cures /\ run[r].failed \subseteq run'[r].failed

LEMMA TaughtByStays ==
    ASSUME TaughtStays, NEW t \in Tasks, NEW k, NEW fix, TaughtBy(t, k, fix)
    PROVE  TaughtBy(t, k, fix)'
<1>1. t[1] \in Runs /\ Tried(t[1], fix) BY TaskOfRun DEF TaughtBy
<1>2. Tried(t[1], fix)' BY <1>1 DEF TaughtStays, Tried
<1>3. QED BY <1>2 DEF TaughtStays, TaughtBy

LEMMA BackedStays ==
    ASSUME TaughtStays, NEW k, NEW text, Backed(k, text)
    PROVE  Backed(k, text)'
<1>1. CASE ~IsDirectRagBypassPlan(text.fix) BY <1>1 DEF Backed
<1>2. CASE \E t \in Tasks : TaughtBy(t, k, text.fix)
  <2>1. PICK t \in Tasks : TaughtBy(t, k, text.fix) BY <1>2
  <2>2. TaughtBy(t, k, text.fix)' BY <2>1, TaughtByStays
  <2>3. QED BY <2>2 DEF Backed
<1>3. QED BY <1>1, <1>2 DEF Backed

\* A text with the same fix, under a key that merges lead to, is as well backed.
LEMMA BackedElsewhere ==
    ASSUME LearningTypes, RunsInv, NEW k1 \in Keys, NEW k2 \in Keys, Leads(k1, k2),
           NEW text, NEW other, Backed(k1, text), other.fix = text.fix
    PROVE  Backed(k2, other)
<1>1. SUFFICES ASSUME IsDirectRagBypassPlan(text.fix) PROVE \E t \in Tasks : TaughtBy(t, k2, text.fix)
  BY DEF Backed
<1>2. PICK t \in Tasks : TaughtBy(t, k1, text.fix) BY <1>1 DEF Backed
<1>3. learn[t].at # "none" /\ t[1] \in Runs BY <1>2, TaskOfRun DEF TaughtBy
<1>4. t[1] \in DOMAIN setup.key BY <1>3 DEF RunsInv, TeachesOnce, RunOfItsKind
<1>5. setup.key[t[1]] \in Keys
  BY <1>4, KnowledgeAssumption DEF KnowledgeAssumption, LearningTypes
<1>6. Leads(setup.key[t[1]], k2) BY <1>2, <1>5, LeadsOn DEF TaughtBy
<1>7. QED BY <1>2, <1>6 DEF TaughtBy

LEMMA TableBackedStays ==
    ASSUME TaughtStays, NEW rows, AllBacked(rows)
    PROVE  \A k \in DOMAIN rows : Backed(k, rows[k].text)'
  BY BackedStays DEF AllBacked

LEMMA DirectStays ==
    ASSUME TaughtStays, NEW r, DirectBacked(r), run'[r].direct = run[r].direct, run'[r].plan = run[r].plan
    PROVE  DirectBacked(r)'
<1>1. CASE ~run[r].direct BY <1>1 DEF DirectBacked
<1>2. CASE \E t \in Tasks : t[1] # r /\ TaughtBy(t, setup.key[r], run[r].plan)
  <2>1. PICK t \in Tasks : t[1] # r /\ TaughtBy(t, setup.key[r], run[r].plan) BY <1>2
  <2>2. PICK k, fix : k = setup.key[r] /\ fix = run[r].plan OBVIOUS
  <2>3. TaughtBy(t, k, fix)' BY <2>1, <2>2, TaughtByStays
  <2>4. run'[r].plan = fix /\ setup'.key[r] = k BY <2>2 DEF TaughtStays
  <2>5. QED BY <2>1, <2>3, <2>4 DEF DirectBacked, TaughtBy
<1>3. QED BY <1>1, <1>2 DEF DirectBacked

LEMMA BackedRests ==
    ASSUME BackedInv, TaughtStays, UNCHANGED <<table, worker, learn>>,
           \A r \in Runs : run'[r].direct = run[r].direct /\ run'[r].plan = run[r].plan
    PROVE  BackedInv'
<1>1. AllBacked(table)' BY TableBackedStays DEF BackedInv, AllBacked
<1>2. AllBacked(worker.list)' BY TableBackedStays DEF BackedInv, AllBacked
<1>3. \A r \in Runs : DirectBacked(r)' BY DirectStays DEF BackedInv
<1>4. ASSUME NEW q \in Pending PROVE LookedBacked(q)'
  <2>1. PICK k, text : k = learn[q].key /\ text = learn[q].text OBVIOUS
  <2>2. learn[q].at = "looked" => Backed(k, text)' BY <2>1, BackedStays DEF BackedInv, LookedBacked
  <2>3. learn'[q].at = learn[q].at /\ learn'[q].key = k /\ learn'[q].text = text BY <2>1
  <2>4. QED BY <2>2, <2>3 DEF LookedBacked, Backed
<1>5. QED BY <1>1, <1>2, <1>3, <1>4 DEF BackedInv

LEMMA TableStaysBacked ==
    ASSUME TaughtStays, \A k \in DOMAIN table' : Backed(k, table'[k].text)
    PROVE  AllBacked(table)'
<1>1. SUFFICES ASSUME NEW k \in DOMAIN table' PROVE Backed(k, table[k].text)'
  BY DEF AllBacked
<1>2. PICK text : text = table'[k].text OBVIOUS
<1>3. Backed(k, text) BY <1>2
<1>4. Backed(k, text)' BY <1>3, BackedStays
<1>5. QED BY <1>2, <1>4 DEF Backed

LEMMA ListStaysBacked ==
    ASSUME TaughtStays, \A k \in DOMAIN worker'.list : Backed(k, worker'.list[k].text)
    PROVE  AllBacked(worker.list)'
<1>1. SUFFICES ASSUME NEW k \in DOMAIN worker'.list PROVE Backed(k, worker.list[k].text)'
  BY DEF AllBacked
<1>2. PICK text : text = worker'.list[k].text OBVIOUS
<1>3. Backed(k, text) BY <1>2
<1>4. Backed(k, text)' BY <1>3, BackedStays
<1>5. QED BY <1>2, <1>4 DEF Backed

LEMMA LookedStays ==
    ASSUME TaughtStays, NEW q, LookedBacked(q), learn'[q].at = "looked" => learn'[q] = learn[q]
    PROVE  LookedBacked(q)'
<1>1. PICK k, text : k = learn[q].key /\ text = learn[q].text OBVIOUS
<1>2. learn[q].at = "looked" => Backed(k, text)' BY <1>1, BackedStays DEF LookedBacked
<1>3. learn'[q].at = "looked" => learn[q].at = "looked" /\ learn'[q].key = k /\ learn'[q].text = text
  BY <1>1
<1>4. QED BY <1>2, <1>3 DEF LookedBacked, Backed

LEMMA PlatformStaysBacked ==
    ASSUME BackedInv, TaughtStays, UNCHANGED <<table, worker>>
    PROVE  AllBacked(table)' /\ AllBacked(worker.list)'
  BY TableStaysBacked, ListStaysBacked DEF BackedInv, AllBacked

-----------------------------------------------------------------------------
(* Each step leaves what was taught *)

LEMMA RunStepStays ==
    ASSUME LearningTypes, RunsInv, NEW r \in Runs,
           RunRagTriageGate(r) \/ EndRun(r) \/ EndAgain(r)
    PROVE  TaughtStays /\ UNCHANGED <<table, worker, taught, learn>>
<1>1. CASE RunRagTriageGate(r)
  <2>1. UNCHANGED <<setup, table, worker, taught, learn>> BY <1>1 DEF RunRagTriageGate, platform
  <2>2. QED BY <1>1, <2>1, TriageTypes DEF TaughtStays
<1>2. ASSUME NEW t \in Tasks, t[1] = r, NEW e, SaysWhatWasDone(e), Outcome(t, e)
      PROVE  \A p \in Runs : run[p].cures \subseteq run'[p].cures /\ run[p].failed \subseteq run'[p].failed
  BY <1>2, OutcomeEnds
<1>3. CASE EndRun(r)
  <2>1. \A p \in Runs : run[p].cures \subseteq run'[p].cures /\ run[p].failed \subseteq run'[p].failed
    BY <1>2, <1>3, EndRunMoves
  <2>2. QED BY <1>3, <2>1, EndRunMoves DEF TaughtStays
<1>4. CASE EndAgain(r)
  <2>1. \A p \in Runs : run[p].cures \subseteq run'[p].cures /\ run[p].failed \subseteq run'[p].failed
    BY <1>2, <1>4, EndAgainMoves
  <2>2. QED BY <1>4, <2>1, EndAgainMoves DEF TaughtStays
<1>5. QED BY <1>1, <1>3, <1>4

LEMMA TaskStepStays ==
    ASSUME LearningTypes, RunsInv, NEW t \in Tasks, TeachRun(t) \/ MarkSeeded(t) \/ GiveUp(t)
    PROVE  /\ TaughtStays /\ UNCHANGED <<table, worker, taught>>
           /\ \A q \in Pending : learn'[q].at = "looked" => learn'[q] = learn[q]
           /\ \A r \in Runs : run'[r].direct = run[r].direct /\ run'[r].plan = run[r].plan
<1>1. CASE TeachRun(t)
  <2>1. learn[t].at = "none" BY <1>1, TeachMoves DEF RunsInv, TeachesOnce
  <2>2. \A q \in Pending : learn'[q] = learn[q] \/ (q = t /\ learn'[q].at = "sent")
    BY <1>1, TeachMoves
  <2>3. \A u \in Tasks : learn[u].at # "none" => learn'[u] = learn[u] BY <2>1, <2>2, TaskOfRun
  <2>4. QED BY <1>1, <2>2, <2>3, TeachMoves DEF TaughtStays
<1>2. CASE MarkSeeded(t) BY <1>2, MarkMoves DEF TaughtStays
<1>3. CASE GiveUp(t) BY <1>3, GiveUpMoves DEF TaughtStays
<1>4. QED BY <1>1, <1>2, <1>3

LEMMA LearnStepStays ==
    ASSUME LearningTypes, RunsInv, NEW q \in Pending,
           LookForNear(q) \/ RefuseLearn(q) \/ UpsertVerifiedRunbook(q)
    PROVE  /\ TaughtStays /\ UNCHANGED run
           /\ \A p \in Pending \ {q} : learn'[p] = learn[p]
<1>1. /\ UNCHANGED <<setup, run>> /\ learn[q].at # "none" /\ learn'[q].at # "none"
      /\ learn'[q].text.fix = learn[q].text.fix /\ \A p \in Pending \ {q} : learn'[p] = learn[p]
  BY LookMoves, RefuseMoves, UpsertMoves
<1>2. \A t \in Tasks : learn[t].at # "none" => learn'[t].at # "none" /\ learn'[t].text.fix = learn[t].text.fix
  BY <1>1, TaskOfRun
<1>3. QED BY <1>1, <1>2 DEF TaughtStays

LEMMA PlatformStepStays ==
    ASSUME LearningTypes, KeptInv,
           Dedup \/ DedupFails \/ SeedRunbook \/ SeedingFails
    PROVE  TaughtStays /\ UNCHANGED <<run, learn>>
<1>1. UNCHANGED <<setup, run, learn>>
  BY ListMoves, MergeMoves, DeleteMoves, PassEndMoves, SeedTable, SeedingFailsMoves DEF Dedup
<1>2. QED BY <1>1 DEF TaughtStays

LEMMA RestartStays ==
    ASSUME LearningTypes, RestartPlatform
    PROVE  /\ TaughtStays /\ UNCHANGED run
           /\ \A q \in Pending : learn'[q].at # "looked"
<1>1. \A t \in Tasks : learn[t].at # "none" => learn'[t].at # "none" /\ learn'[t].text.fix = learn[t].text.fix
  BY RestartMoves, TaskOfRun
<1>2. QED BY <1>1, RestartMoves DEF TaughtStays

LEMMA AskStepStays ==
    ASSUME LearningTypes, AsksInv, NEW w \in Workloads,
           \/ EvaluateDeploySourceGate(w) \/ ReplyDeploySource(w) \/ HotFixDeploySource(w)
           \/ CancelDeploySource(w) \/ NextIncident(w)
    PROVE  /\ TaughtStays /\ UNCHANGED <<table, worker, taught, run>>
           /\ \A q \in Pending : learn'[q].at = "looked" => learn'[q] = learn[q]
<1>1. UNCHANGED <<setup, table, worker, taught, run>>
  BY EvaluateMoves, ReplyMoves, HotFixMoves, CancelMoves, NextIncidentMoves
<1>2. \A q \in Pending : learn'[q] = learn[q] \/ (q = Save(w) /\ learn'[q].at = "sent")
  BY EvaluateMoves, ReplyMoves, HotFixMoves, CancelMoves, NextIncidentMoves
<1>3. \A t \in Tasks : learn'[t] = learn[t] BY <1>2, TaskOfRun, SaveIsPending
<1>4. QED BY <1>1, <1>2, <1>3 DEF TaughtStays

-----------------------------------------------------------------------------
(* Each step keeps the knowledge backed *)

LEMMA TriageBacked ==
    ASSUME LearningTypes, RunsInv, BackedInv, NEW r \in Runs, RunRagTriageGate(r)
    PROVE  BackedInv'
<1>1. TaughtStays /\ UNCHANGED <<table, worker, learn>> BY RunStepStays
<1>2. \A p \in Runs \ {r} : DirectBacked(p)' BY <1>1, TriageTypes, DirectStays DEF BackedInv
<1>3. DirectBacked(r)'
  <2>1. CASE run'[r].direct = run[r].direct
    BY <2>1, TriageTypes DEF DirectBacked, RunsInv, RunOfItsKind
  <2>2. CASE \E text \in RagGround(setup.key[r]) :
                run'[r].plan = text.fix /\ IsDirectRagBypassPlan(text.fix)
    <3> DEFINE key == setup.key[r]
    <3>1. key \in Keys
      BY TriageTypes, KnowledgeAssumption DEF KnowledgeAssumption, LearningTypes
    <3> HIDE DEF key
    <3>2. PICK text \in RagGround(key) : run'[r].plan = text.fix /\ IsDirectRagBypassPlan(text.fix)
      BY <2>2 DEF key
    <3>3. PICK k \in Retrieved(key) : text = table[k].text BY <3>2 DEF RagGround
    <3>4. k \in DOMAIN table /\ k \in Keys /\ Leads(k, key)
      BY <3>1, <3>3, KeysOfSearch DEF Retrieved
    <3>6. Backed(k, text) BY <3>3, <3>4 DEF BackedInv, AllBacked
    <3>7. Backed(key, text) BY <3>1, <3>4, <3>6, BackedElsewhere
    <3>8. PICK t \in Tasks : TaughtBy(t, key, text.fix) BY <3>2, <3>7 DEF Backed
    <3>9. t[1] # r
      <4>1. run[t[1]].at = "ended" BY <3>8 DEF TaughtBy, RunsInv, TeachesOnce
      <4>2. QED BY <4>1, TriageTypes
    <3>10. PICK kk, fix : kk = key /\ fix = text.fix OBVIOUS
    <3>11. TaughtBy(t, kk, fix)' BY <1>1, <3>8, <3>10, TaughtByStays
    <3>12. run'[r].plan = fix /\ setup'.key[r] = kk BY <1>1, <3>2, <3>10 DEF TaughtStays, key
    <3>13. QED BY <3>9, <3>11, <3>12 DEF DirectBacked, TaughtBy
  <2>3. QED BY <2>1, <2>2, TriageTypes
<1>4. \A q \in Pending : LookedBacked(q)' BY <1>1, LookedStays DEF BackedInv
<1>5. QED BY <1>1, <1>2, <1>3, <1>4, PlatformStaysBacked DEF BackedInv

LEMMA EndBacked ==
    ASSUME LearningTypes, RunsInv, BackedInv, NEW r \in Runs, EndRun(r) \/ EndAgain(r)
    PROVE  BackedInv'
<1>1. TaughtStays /\ UNCHANGED <<table, worker, learn>> BY RunStepStays
<1>2. ASSUME NEW t \in Tasks, t[1] = r, NEW e, SaysWhatWasDone(e), Outcome(t, e), NEW p \in Runs
      PROVE  run'[p].direct = run[p].direct /\ run'[p].plan = run[p].plan
  BY <1>2, OutcomeEnds
<1>3. \A p \in Runs : run'[p].direct = run[p].direct /\ run'[p].plan = run[p].plan
  BY <1>2, EndRunMoves, EndAgainMoves
<1>4. QED BY <1>1, <1>3, BackedRests

LEMMA TaskBacked ==
    ASSUME LearningTypes, RunsInv, BackedInv, NEW t \in Tasks,
           TeachRun(t) \/ MarkSeeded(t) \/ GiveUp(t)
    PROVE  BackedInv'
<1>1. \A q \in Pending : LookedBacked(q)' BY TaskStepStays, LookedStays DEF BackedInv
<1>2. \A r \in Runs : DirectBacked(r)' BY TaskStepStays, DirectStays DEF BackedInv
<1>3. QED BY <1>1, <1>2, TaskStepStays, PlatformStaysBacked DEF BackedInv

LEMMA LookBacked ==
    ASSUME LearningTypes, RunsInv, BackedInv, NEW q \in Pending, LookForNear(q)
    PROVE  BackedInv'
<1>1. TaughtStays /\ UNCHANGED run /\ \A p \in Pending \ {q} : learn'[p] = learn[p]
  BY LearnStepStays
<1>2. ASSUME NEW p \in Pending \ {q} PROVE LookedBacked(p)'
  BY <1>1, LookedStays DEF BackedInv
<1>3. LookedBacked(q)'
  <2>1. PICK k, text : k = learn'[q].key /\ text = learn'[q].text OBVIOUS
  <2>2. /\ k \in Keys /\ Leads(k, OwnKey(q)) /\ OwnKey(q) \in Keys /\ text.fix = learn[q].text.fix
        /\ learn[q].at = "sent"
    <3>1. k \in Keys /\ Leads(k, learn[q].key) /\ text.fix = learn[q].text.fix /\ learn[q].at = "sent"
      BY <2>1, LookMoves
    <3>2. OwnKey(q) \in Keys /\ learn[q].key \in Keys /\ Leads(learn[q].key, OwnKey(q))
      BY <3>1 DEF RunsInv, FiledNear
    <3>3. QED BY <3>1, <3>2, LeadsOn
  <2>3. Backed(k, text)
    <3>1. CASE q \in Tasks
      <4>1. OwnKey(q) = setup.key[q[1]] BY <3>1, TaskOfRun DEF OwnKey
      <4>2. Leads(OwnKey(q), k) BY <2>2, LeadsBack
      <4>3. TeachesOnce(q) /\ learn[q].at # "none" BY <2>2, <3>1 DEF RunsInv
      <4>4. IsDirectRagBypassPlan(text.fix) => TaughtBy(q, k, text.fix)
        BY <2>2, <4>1, <4>2, <4>3 DEF TeachesOnce, TaughtBy
      <4>5. QED BY <3>1, <4>4 DEF Backed
    <3>2. CASE \E w \in Workloads : q = Save(w)
      <4>1. text.fix = "none" BY <2>2, <3>2 DEF RunsInv, SavesNoFix
      <4>2. QED BY <4>1 DEF Backed, IsDirectRagBypassPlan
    <3>3. QED BY <3>1, <3>2 DEF Pending
  <2>4. Backed(k, text)' BY <1>1, <2>3, BackedStays
  <2>5. QED BY <2>1, <2>4 DEF LookedBacked, Backed
<1>4. \A r \in Runs : DirectBacked(r)' BY <1>1, DirectStays DEF BackedInv
<1>5. UNCHANGED <<table, worker>> BY LookMoves
<1>6. QED BY <1>1, <1>2, <1>3, <1>4, <1>5, PlatformStaysBacked DEF BackedInv

LEMMA RefuseBacked ==
    ASSUME LearningTypes, RunsInv, BackedInv, NEW q \in Pending, RefuseLearn(q)
    PROVE  BackedInv'
<1>1. TaughtStays /\ UNCHANGED run /\ \A p \in Pending \ {q} : learn'[p] = learn[p]
  BY LearnStepStays
<1>2. learn'[q].at = "refused" /\ UNCHANGED <<table, worker>> BY RefuseMoves
<1>3. \A p \in Pending : LookedBacked(p)' BY <1>1, <1>2, LookedStays DEF BackedInv
<1>4. \A r \in Runs : DirectBacked(r)' BY <1>1, DirectStays DEF BackedInv
<1>5. QED BY <1>1, <1>2, <1>3, <1>4, PlatformStaysBacked DEF BackedInv

LEMMA UpsertBacked ==
    ASSUME LearningTypes, RunsInv, BackedInv, NEW q \in Pending, UpsertVerifiedRunbook(q)
    PROVE  BackedInv'
<1>1. TaughtStays /\ UNCHANGED run /\ \A p \in Pending \ {q} : learn'[p] = learn[p]
  BY LearnStepStays
<1>2. learn'[q].at = "done" /\ learn[q].at = "looked" /\ UNCHANGED worker BY UpsertMoves
<1>3. \A p \in Pending : LookedBacked(p)' BY <1>1, <1>2, LookedStays DEF BackedInv
<1>4. \A r \in Runs : DirectBacked(r)' BY <1>1, DirectStays DEF BackedInv
<1>5. Backed(learn[q].key, learn[q].text) BY <1>2 DEF BackedInv, LookedBacked
<1>6. ASSUME NEW k \in DOMAIN table' PROVE Backed(k, table'[k].text)
  <2>1. CASE k = learn[q].key BY <1>5, <2>1, UpsertMoves
  <2>2. CASE k # learn[q].key
    <3>1. k \in DOMAIN table /\ table'[k] = table[k] BY <1>6, <2>2, UpsertMoves
    <3>2. QED BY <3>1 DEF BackedInv, AllBacked
  <2>3. QED BY <2>1, <2>2
<1>7. AllBacked(table)' BY <1>1, <1>6, TableStaysBacked
<1>8. AllBacked(worker.list)' BY <1>1, <1>2, ListStaysBacked DEF BackedInv, AllBacked
<1>9. QED BY <1>3, <1>4, <1>7, <1>8 DEF BackedInv

LEMMA LookedAndDirectStay ==
    ASSUME BackedInv, TaughtStays, UNCHANGED <<run, learn>>
    PROVE  (\A q \in Pending : LookedBacked(q)') /\ (\A r \in Runs : DirectBacked(r)')
  BY LookedStays, DirectStays DEF BackedInv

LEMMA AsleepHasNoList == Asleep.list = <<>> /\ Asleep.gone = {}
  BY DEF Asleep, Pass

LEMMA MergeBacked ==
    ASSUME LearningTypes, RunsInv, BackedInv, KeptInv, MergePair
    PROVE  BackedInv'
<1>1. TaughtStays /\ UNCHANGED <<run, learn>> BY PlatformStepStays DEF Dedup
<1>2. AllBacked(worker.list)' BY <1>1, MergeMoves, ListStaysBacked DEF BackedInv, AllBacked
<1>3. PICK keep \in DOMAIN worker.list, drop \in DOMAIN worker.list :
         /\ keep \in DOMAIN table /\ Leads(drop, keep)
         /\ table'[keep].text.fix \in {"none", worker.list[keep].text.fix, worker.list[drop].text.fix}
         /\ \A k \in DOMAIN table \ {keep} : table'[k] = table[k]
  BY MergeMoves
<1>4. keep \in Keys /\ drop \in Keys
  BY <1>3, SleepingWorker DEF IsTable
<1>5. Backed(keep, worker.list[keep].text) /\ Backed(drop, worker.list[drop].text)
  BY <1>3 DEF BackedInv, AllBacked
<1>6. PICK text : text = table'[keep].text OBVIOUS
<1>7. Backed(keep, text)
  <2>1. CASE text.fix = "none" BY <2>1 DEF Backed, IsDirectRagBypassPlan
  <2>2. CASE text.fix = worker.list[keep].text.fix
    BY <1>4, <1>5, <2>2, LeadsToItself, BackedElsewhere
  <2>3. CASE text.fix = worker.list[drop].text.fix BY <1>3, <1>4, <1>5, <2>3, BackedElsewhere
  <2>4. QED BY <1>3, <1>6, <2>1, <2>2, <2>3
<1>8. ASSUME NEW k \in DOMAIN table' PROVE Backed(k, table'[k].text)
  <2>1. CASE k = keep BY <1>6, <1>7, <2>1
  <2>2. CASE k # keep
    <3>1. k \in DOMAIN table /\ table'[k] = table[k] BY <1>3, <1>8, <2>2, MergeMoves
    <3>2. QED BY <3>1 DEF BackedInv, AllBacked
  <2>3. QED BY <2>1, <2>2
<1>9. AllBacked(table)' BY <1>1, <1>8, TableStaysBacked
<1>10. QED BY <1>1, <1>2, <1>9, LookedAndDirectStay DEF BackedInv

LEMMA DedupBacked ==
    ASSUME LearningTypes, RunsInv, BackedInv, KeptInv, Dedup \/ DedupFails
    PROVE  BackedInv'
<1>1. TaughtStays /\ UNCHANGED <<run, learn>> BY PlatformStepStays
<1>2. CASE ListRunbooks
  <2>1. UNCHANGED table /\ worker'.list = table BY <1>2, ListMoves
  <2>2. \A k \in DOMAIN table' : Backed(k, table'[k].text) BY <2>1 DEF BackedInv, AllBacked
  <2>3. AllBacked(table)' BY <1>1, <2>2, TableStaysBacked
  <2>4. AllBacked(worker.list)' BY <2>1, <2>3 DEF AllBacked
  <2>5. QED BY <1>1, <2>3, <2>4, LookedAndDirectStay DEF BackedInv
<1>3. CASE MergePair BY <1>3, MergeBacked
<1>4. CASE DeleteMerged
  <2>1. worker'.list = worker.list
        /\ \A k \in DOMAIN table' : k \in DOMAIN table /\ table'[k] = table[k]
    BY <1>4, DeleteMoves
  <2>2. AllBacked(table)' BY <1>1, <2>1, TableStaysBacked DEF BackedInv, AllBacked
  <2>3. AllBacked(worker.list)' BY <1>1, <2>1, ListStaysBacked DEF BackedInv, AllBacked
  <2>4. QED BY <1>1, <2>2, <2>3, LookedAndDirectStay DEF BackedInv
<1>5. CASE PassEnds \/ DedupFails
  <2>1. UNCHANGED table /\ worker' = Asleep BY <1>5, PassEndMoves
  <2>2. AllBacked(table)' BY <1>1, <2>1, TableStaysBacked DEF BackedInv, AllBacked
  <2>3. AllBacked(worker.list)' BY <2>1, AsleepHasNoList, EmptyIsTable DEF AllBacked
  <2>4. QED BY <1>1, <2>2, <2>3, LookedAndDirectStay DEF BackedInv
<1>6. QED BY <1>2, <1>3, <1>4, <1>5 DEF Dedup

LEMMA StartBacked ==
    ASSUME LearningTypes, RunsInv, BackedInv, KeptInv, SeedRunbook \/ SeedingFails \/ RestartPlatform
    PROVE  BackedInv'
<1>1. CASE SeedRunbook
  <2>1. TaughtStays /\ UNCHANGED <<run, learn, worker>> BY <1>1, PlatformStepStays, SeedTable
  <2>2. ASSUME NEW k \in DOMAIN table' PROVE Backed(k, table'[k].text)
    <3>1. CASE k = Head(boot)
      <4>1. table'[k].text.fix = "none" BY <1>1, <3>1, SeedTable DEF SeedText, Text
      <4>2. QED BY <4>1 DEF Backed, IsDirectRagBypassPlan
    <3>2. CASE k # Head(boot)
      <4>1. k \in DOMAIN table /\ table'[k] = table[k] BY <1>1, <2>2, <3>2, SeedTable
      <4>2. QED BY <4>1 DEF BackedInv, AllBacked
    <3>3. QED BY <3>1, <3>2
  <2>3. AllBacked(table)' BY <2>1, <2>2, TableStaysBacked
  <2>4. AllBacked(worker.list)' BY <2>1, ListStaysBacked DEF BackedInv, AllBacked
  <2>5. QED BY <2>1, <2>3, <2>4, LookedAndDirectStay DEF BackedInv
<1>2. CASE SeedingFails
  <2>1. TaughtStays /\ UNCHANGED <<table, worker, run, learn>>
    BY <1>2, PlatformStepStays, SeedingFailsMoves
  <2>2. QED BY <2>1, BackedRests
<1>3. CASE RestartPlatform
  <2>1. TaughtStays /\ UNCHANGED <<run, table>> /\ worker' = Asleep
        /\ \A q \in Pending : learn'[q].at # "looked"
    BY <1>3, RestartStays, RestartMoves
  <2>2. AllBacked(table)' BY <2>1, TableStaysBacked DEF BackedInv, AllBacked
  <2>3. AllBacked(worker.list)' BY <2>1, AsleepHasNoList, EmptyIsTable DEF AllBacked
  <2>4. \A q \in Pending : LookedBacked(q)' BY <2>1 DEF LookedBacked
  <2>5. \A r \in Runs : DirectBacked(r)' BY <2>1, DirectStays DEF BackedInv
  <2>6. QED BY <2>2, <2>3, <2>4, <2>5 DEF BackedInv
<1>4. QED BY <1>1, <1>2, <1>3

LEMMA AskBacked ==
    ASSUME LearningTypes, BackedInv, AsksInv, NEW w \in Workloads,
           \/ EvaluateDeploySourceGate(w) \/ ReplyDeploySource(w) \/ HotFixDeploySource(w)
           \/ CancelDeploySource(w) \/ NextIncident(w)
    PROVE  BackedInv'
<1>1. \A q \in Pending : LookedBacked(q)' BY AskStepStays, LookedStays DEF BackedInv
<1>2. \A r \in Runs : DirectBacked(r)' BY AskStepStays, DirectStays DEF BackedInv
<1>3. QED BY <1>1, <1>2, AskStepStays, PlatformStaysBacked DEF BackedInv

-----------------------------------------------------------------------------
(* What is known is kept *)

KeptFor(k) == \E kept \in DOMAIN table : Leads(kept, k)

LEMMA KeptIsLed == KnowledgeIsKept <=> \A k \in taught : KeptFor(k)
  BY DEF KnowledgeIsKept, KeptFor, Leads

\* Where no row goes, none has to be replaced.
LEMMA KeptInLargerTable ==
    ASSUME KeptInv, DOMAIN table \subseteq DOMAIN table',
           \A k \in taught' : k \in taught \/ \E kept \in DOMAIN table' : Leads(kept, k),
           \/ UNCHANGED worker
           \/ worker'.list = worker.list /\ worker'.gone = worker.gone
           \/ worker' = Asleep
           \/ worker'.list = table'
    PROVE  KeptInv'
<1>1. \A k \in taught : \E kept \in DOMAIN table : Leads(kept, k)
  BY KeptIsLed DEF KeptInv, KeptFor
<1>2. \A k \in taught' : \E kept \in DOMAIN table' : Leads(kept, k) BY <1>1
<1>3. KnowledgeIsKept' BY <1>2 DEF KnowledgeIsKept, Leads
<1>4. DOMAIN worker'.list \ worker'.gone \subseteq DOMAIN table'
  BY AsleepHasNoList, EmptyIsTable DEF KeptInv
<1>5. QED BY <1>3, <1>4 DEF KeptInv

LEMMA UpsertKept ==
    ASSUME LearningTypes, RunsInv, KeptInv, NEW q \in Pending, UpsertVerifiedRunbook(q)
    PROVE  KeptInv'
<1>1. /\ DOMAIN table' = DOMAIN table \cup {learn[q].key} /\ taught' = taught \cup {OwnKey(q)}
      /\ Leads(learn[q].key, OwnKey(q)) /\ UNCHANGED worker
  BY UpsertMoves
<1>2. QED BY <1>1, KeptInLargerTable

LEMMA DeleteKept ==
    ASSUME LearningTypes, KeptInv, DeleteMerged
    PROVE  KeptInv'
<1>1. PICK keep \in DOMAIN table, drop \in Keys :
         /\ keep # drop /\ Leads(keep, drop) /\ worker'.gone = worker.gone \cup {drop}
         /\ DOMAIN table' = DOMAIN table \ {drop}
  BY DeleteMoves
<1>2. UNCHANGED taught /\ worker'.list = worker.list BY DeleteMoves
<1>3. ASSUME NEW k \in taught PROVE \E kept \in DOMAIN table' : Leads(kept, k)
  <2>1. PICK kept \in DOMAIN table : Leads(kept, k) BY KeptIsLed DEF KeptInv, KeptFor
  <2>2. k \in Keys /\ keep \in Keys BY DEF LearningTypes, IsTable
  <2>3. CASE kept = drop
    <3>1. Leads(keep, k) BY <1>1, <2>1, <2>2, <2>3, LeadsOn
    <3>2. QED BY <1>1, <3>1
  <2>4. CASE kept # drop BY <1>1, <2>1, <2>4
  <2>5. QED BY <2>3, <2>4
<1>4. KnowledgeIsKept' BY <1>2, <1>3 DEF KnowledgeIsKept, Leads
<1>5. DOMAIN worker'.list \ worker'.gone \subseteq DOMAIN table' BY <1>1, <1>2 DEF KeptInv
<1>6. QED BY <1>4, <1>5 DEF KeptInv

LEMMA DedupKept ==
    ASSUME LearningTypes, KeptInv, Dedup \/ DedupFails
    PROVE  KeptInv'
<1>1. CASE ListRunbooks BY <1>1, ListMoves, KeptInLargerTable
<1>2. CASE MergePair BY <1>2, MergeMoves, KeptInLargerTable
<1>3. CASE DeleteMerged BY <1>3, DeleteKept
<1>4. CASE PassEnds \/ DedupFails BY <1>4, PassEndMoves, KeptInLargerTable
<1>5. QED BY <1>1, <1>2, <1>3, <1>4 DEF Dedup

LEMMA StartKept ==
    ASSUME LearningTypes, KeptInv, SeedRunbook \/ SeedingFails \/ RestartPlatform
    PROVE  KeptInv'
<1>1. CASE SeedRunbook
  <2>1. /\ DOMAIN table' = DOMAIN table \cup {Head(boot)} /\ taught' = taught \cup {Head(boot)}
        /\ Head(boot) \in Keys /\ UNCHANGED worker
    BY <1>1, SeedTable
  <2>2. Leads(Head(boot), Head(boot)) BY <2>1, LeadsToItself
  <2>3. QED BY <2>1, <2>2, KeptInLargerTable
<1>2. CASE SeedingFails BY <1>2, SeedingFailsMoves, KeptInLargerTable
<1>3. CASE RestartPlatform BY <1>3, RestartMoves, KeptInLargerTable
<1>4. QED BY <1>1, <1>2, <1>3

LEMMA KeptRests ==
    ASSUME KeptInv, UNCHANGED <<table, worker, taught>>
    PROVE  KeptInv'
  BY KeptInLargerTable

-----------------------------------------------------------------------------
(* The invariant *)

KnowledgeInv == LearningTypes /\ RunsInv /\ BackedInv /\ KeptInv /\ AsksInv

LEMMA AsksRest ==
    ASSUME AsksInv, UNCHANGED ask
    PROVE  AsksInv'
  BY DEF AsksInv

LEMMA KnowledgeInit_Inv == KnowledgeInit => KnowledgeInv
  BY InitLearning, InitLearned DEF KnowledgeInv

LEMMA RunKeeps ==
    ASSUME KnowledgeInv, NEW r \in Runs, RunRagTriageGate(r) \/ EndRun(r) \/ EndAgain(r)
    PROVE  KnowledgeInv'
<1>1. LearningTypes /\ RunsInv /\ BackedInv /\ KeptInv /\ AsksInv BY DEF KnowledgeInv
<1>2. UNCHANGED <<table, worker, taught, ask>>
  <2>1. UNCHANGED ask BY <1>1, EndRunMoves, EndAgainMoves DEF RunRagTriageGate
  <2>2. QED BY <1>1, <2>1, RunStepStays
<1>3. LearningTypes' BY <1>1, TriageLearning, EndRunLearning, EndAgainLearning
<1>4. RunsInv' BY <1>1, TriageRuns, EndRuns
<1>5. BackedInv' BY <1>1, TriageBacked, EndBacked
<1>6. KeptInv' /\ AsksInv' BY <1>1, <1>2, KeptRests, AsksRest
<1>7. QED BY <1>3, <1>4, <1>5, <1>6 DEF KnowledgeInv

LEMMA TaskKeeps ==
    ASSUME KnowledgeInv, NEW t \in Tasks, TeachRun(t) \/ MarkSeeded(t) \/ GiveUp(t)
    PROVE  KnowledgeInv'
<1>1. LearningTypes /\ RunsInv /\ BackedInv /\ KeptInv /\ AsksInv BY DEF KnowledgeInv
<1>2. UNCHANGED <<table, worker, taught, ask>> BY <1>1, TeachMoves, MarkMoves, GiveUpMoves
<1>3. LearningTypes' BY <1>1, TeachLearning, SeedingLearning
<1>4. RunsInv' BY <1>1, TeachRuns, SeedingRuns
<1>5. BackedInv' BY <1>1, TaskBacked
<1>6. KeptInv' /\ AsksInv' BY <1>1, <1>2, KeptRests, AsksRest
<1>7. QED BY <1>3, <1>4, <1>5, <1>6 DEF KnowledgeInv

LEMMA LearnKeeps ==
    ASSUME KnowledgeInv, NEW q \in Pending,
           LookForNear(q) \/ RefuseLearn(q) \/ UpsertVerifiedRunbook(q)
    PROVE  KnowledgeInv'
<1>1. LearningTypes /\ RunsInv /\ BackedInv /\ KeptInv /\ AsksInv BY DEF KnowledgeInv
<1>2. UNCHANGED ask BY <1>1, LookMoves, RefuseMoves, UpsertMoves
<1>3. LearningTypes' BY <1>1, LearnLearning
<1>4. RunsInv' BY <1>1, LearnRuns
<1>5. BackedInv' BY <1>1, LookBacked, RefuseBacked, UpsertBacked
<1>6. KeptInv'
  <2>1. CASE UpsertVerifiedRunbook(q) BY <1>1, <2>1, UpsertKept
  <2>2. CASE LookForNear(q) \/ RefuseLearn(q)
    <3>1. UNCHANGED <<table, worker, taught>> BY <1>1, <2>2, LookMoves, RefuseMoves
    <3>2. QED BY <1>1, <3>1, KeptRests
  <2>3. QED BY <2>1, <2>2
<1>7. AsksInv' BY <1>1, <1>2, AsksRest
<1>8. QED BY <1>3, <1>4, <1>5, <1>6, <1>7 DEF KnowledgeInv

LEMMA DedupKeeps ==
    ASSUME KnowledgeInv, Dedup \/ DedupFails
    PROVE  KnowledgeInv'
<1>1. LearningTypes /\ RunsInv /\ BackedInv /\ KeptInv /\ AsksInv BY DEF KnowledgeInv
<1>2. UNCHANGED <<setup, run, seed, learn, ask>>
  BY <1>1, ListMoves, MergeMoves, DeleteMoves, PassEndMoves DEF Dedup
<1>3. LearningTypes' BY <1>1, DedupLearning
<1>4. RunsInv' BY <1>1, <1>2, RunsRest
<1>5. BackedInv' BY <1>1, DedupBacked
<1>6. KeptInv' BY <1>1, DedupKept
<1>7. AsksInv' BY <1>1, <1>2, AsksRest
<1>8. QED BY <1>3, <1>4, <1>5, <1>6, <1>7 DEF KnowledgeInv

LEMMA StartKeeps ==
    ASSUME KnowledgeInv, SeedRunbook \/ SeedingFails \/ RestartPlatform
    PROVE  KnowledgeInv'
<1>1. LearningTypes /\ RunsInv /\ BackedInv /\ KeptInv /\ AsksInv BY DEF KnowledgeInv
<1>2. UNCHANGED <<setup, run, seed, ask>> BY <1>1, SeedTable, SeedingFailsMoves, RestartMoves
<1>3. LearningTypes' BY <1>1, StartLearning
<1>4. RunsInv'
  <2>1. CASE RestartPlatform BY <1>1, <2>1, RestartRuns
  <2>2. CASE SeedRunbook \/ SeedingFails
    <3>1. UNCHANGED learn BY <1>1, <2>2, SeedTable, SeedingFailsMoves
    <3>2. QED BY <1>1, <1>2, <3>1, RunsRest
  <2>3. QED BY <2>1, <2>2
<1>5. BackedInv' BY <1>1, StartBacked
<1>6. KeptInv' BY <1>1, StartKept
<1>7. AsksInv' BY <1>1, <1>2, AsksRest
<1>8. QED BY <1>3, <1>4, <1>5, <1>6, <1>7 DEF KnowledgeInv

LEMMA AskKeeps ==
    ASSUME KnowledgeInv, NEW w \in Workloads,
           \/ EvaluateDeploySourceGate(w) \/ ReplyDeploySource(w) \/ HotFixDeploySource(w)
           \/ CancelDeploySource(w) \/ NextIncident(w)
    PROVE  KnowledgeInv'
<1>1. LearningTypes /\ RunsInv /\ BackedInv /\ KeptInv /\ AsksInv BY DEF KnowledgeInv
<1>2. UNCHANGED <<table, worker, taught>> BY <1>1, AskStepStays
<1>3. LearningTypes' BY <1>1, AskLearning
<1>4. RunsInv'
  <2>1. CASE EvaluateDeploySourceGate(w) BY <1>1, <2>1, AskRuns
  <2>2. CASE ReplyDeploySource(w) \/ HotFixDeploySource(w) \/ CancelDeploySource(w) \/ NextIncident(w)
    <3>1. UNCHANGED <<setup, run, seed, learn>>
      BY <1>1, <2>2, ReplyMoves, HotFixMoves, CancelMoves, NextIncidentMoves
    <3>2. QED BY <1>1, <3>1, RunsRest
  <2>3. QED BY <2>1, <2>2
<1>5. BackedInv' BY <1>1, AskBacked
<1>6. KeptInv' BY <1>1, <1>2, KeptRests
<1>7. AsksInv' BY <1>1, AsksGoOn
<1>8. QED BY <1>3, <1>4, <1>5, <1>6, <1>7 DEF KnowledgeInv

LEMMA KnowledgeStutters ==
    ASSUME KnowledgeInv, UNCHANGED knowledgeVars
    PROVE  KnowledgeInv'
<1>1. LearningTypes /\ RunsInv /\ BackedInv /\ KeptInv /\ AsksInv BY DEF KnowledgeInv
<1>2. UNCHANGED <<setup, table, boot, worker, run, seed, learn, ask, spent, taught>>
  BY DEF knowledgeVars
<1>3. LearningTypes' BY <1>1, <1>2, TypesAgain, PlatformRests, LearnRests, AskRests
<1>4. TaughtStays BY <1>2 DEF TaughtStays
<1>5. RunsInv' /\ BackedInv' /\ KeptInv' /\ AsksInv'
  BY <1>1, <1>2, <1>4, RunsRest, BackedRests, KeptRests, AsksRest
<1>6. QED BY <1>3, <1>5 DEF KnowledgeInv

\* Every step keeps the invariant.
LEMMA KnowledgeStep == KnowledgeInv /\ [KnowledgeNext]_knowledgeVars => KnowledgeInv'
<1> SUFFICES ASSUME KnowledgeInv, [KnowledgeNext]_knowledgeVars PROVE KnowledgeInv'
  OBVIOUS
<1>1. CASE UNCHANGED knowledgeVars BY <1>1, KnowledgeStutters
<1>2. CASE \E r \in Runs : RunRagTriageGate(r) \/ EndRun(r) \/ EndAgain(r) BY <1>2, RunKeeps
<1>3. CASE \E t \in Tasks : TeachRun(t) \/ MarkSeeded(t) \/ GiveUp(t) BY <1>3, TaskKeeps
<1>4. CASE \E q \in Pending : LookForNear(q) \/ RefuseLearn(q) \/ UpsertVerifiedRunbook(q)
  BY <1>4, LearnKeeps
<1>5. CASE Dedup \/ DedupFails BY <1>5, DedupKeeps
<1>6. CASE Bootstrap \/ SeedingFails \/ RestartPlatform BY <1>6, StartKeeps DEF Bootstrap
<1>7. CASE \E w \in Workloads :
              EvaluateDeploySourceGate(w) \/ ReplyDeploySource(w) \/ HotFixDeploySource(w)
              \/ CancelDeploySource(w) \/ NextIncident(w)
  BY <1>7, AskKeeps
<1>8. QED BY <1>1, <1>2, <1>3, <1>4, <1>5, <1>6, <1>7 DEF KnowledgeNext

\* The invariant holds in every state.
LEMMA KnowledgeInvHolds == KnowledgeSpec => []KnowledgeInv
  BY KnowledgeInit_Inv, KnowledgeStep, PTL DEF KnowledgeSpec

LEMMA KnowledgeInvTypes == KnowledgeInv => KnowledgeTypes
<1> SUFFICES ASSUME KnowledgeInv PROVE KnowledgeTypes
  OBVIOUS
<1>1. LearningTypes BY DEF KnowledgeInv
<1>2. /\ setup \in Setups /\ DOMAIN table \subseteq Keys /\ taught \subseteq Keys
      /\ \A k \in DOMAIN table :
            table[k].text.fix \in Fixes \cup {"none"} /\ table[k].text.from \subseteq Runs
  BY <1>1 DEF LearningTypes, IsTable, IsText
<1>3. worker = Asleep
      \/ /\ worker.at \in {"scan", "delete"} /\ DOMAIN worker.list \subseteq Keys
         /\ worker.gone \subseteq DOMAIN worker.list
         /\ worker.at = "delete" <=> worker.pair # <<0, 0>>
  <2>1. SUFFICES ASSUME IsPass(worker)
                 PROVE  /\ worker.at \in {"scan", "delete"} /\ DOMAIN worker.list \subseteq Keys
                        /\ worker.gone \subseteq DOMAIN worker.list
                        /\ worker.at = "delete" <=> worker.pair # <<0, 0>>
    BY <1>1 DEF LearningTypes
  <2>2. worker.pair \in PairsLeft(worker) => worker.pair # <<0, 0>> BY PairOfKeys
  <2>3. QED BY <2>1, <2>2 DEF IsPass, IsTable
<1>4. \A r \in Runs :
         /\ run[r].at \in {"idle", "running", "ended"} /\ run[r].plan \in Fixes \cup {"none"}
         /\ run[r].cures \cup run[r].failed \subseteq Fixes
  BY <1>1 DEF LearningTypes, RunRows
<1>5. \A t \in Tasks : seed[t].at \in {"none", "due", "posted", "over"}
  BY <1>1 DEF LearningTypes, SeedRows
<1>6. \A q \in Pending : learn[q].at \in {"none", "sent", "looked", "done", "refused"}
  BY <1>1 DEF LearningTypes, IsLearn
<1>7. \A w \in Workloads :
         ask[w].at \in {"new", "asked", "ready", "cancelled"} /\ ask[w].asked <= AskLimit
  <2>1. PICK P : ask \in [Workloads -> AskRows(P)] BY <1>1, AskRowsOf
  <2>2. QED BY <2>1, KnowledgeAssumption DEF KnowledgeAssumption, AskRows
<1>8. QED BY <1>2, <1>3, <1>4, <1>5, <1>6, <1>7 DEF KnowledgeTypes

LEMMA KnowledgeInvSound == KnowledgeInv => KnowledgeIsSound
<1> SUFFICES ASSUME KnowledgeInv PROVE KnowledgeIsSound
  OBVIOUS
<1>1. KnowledgeIsKept BY DEF KnowledgeInv, KeptInv
<1>2. ASSUME NEW r \in Runs, run[r].direct
      PROVE  \E q \in Runs \ {r} :
                /\ run[q].cures # {} /\ run[r].plan \in run[q].cures \cup run[q].failed
                /\ \E t \in {<<q, "end">>, <<q, "again">>} : learn[t].text.fix = run[r].plan
                /\ setup.key[q][1] = setup.key[r][1]
                /\ <<setup.key[q][2], setup.key[r][2]>> \in Related
  <2>1. PICK t \in Tasks : t[1] # r /\ TaughtBy(t, setup.key[r], run[r].plan)
    BY <1>2 DEF KnowledgeInv, BackedInv, DirectBacked
  <2>2. t[1] \in Runs \ {r} /\ t \in {<<t[1], "end">>, <<t[1], "again">>}
    BY <2>1 DEF Tasks
  <2>3. /\ run[t[1]].cures # {} /\ run[r].plan \in run[t[1]].cures \cup run[t[1]].failed
        /\ learn[t].text.fix = run[r].plan
        /\ setup.key[t[1]][1] = setup.key[r][1]
        /\ <<setup.key[t[1]][2], setup.key[r][2]>> \in Related
    BY <2>1 DEF TaughtBy, Leads, Tried
  <2>4. QED BY <2>2, <2>3
<1>3. DirectPlansWereProven BY <1>2 DEF DirectPlansWereProven
<1>4. QED BY <1>1, <1>3 DEF KnowledgeIsSound

LEMMA KnowledgeInvAsks == KnowledgeInv => AnswersEndAsking
  BY DEF KnowledgeInv, AsksInv, AsksEnd, AnswersEndAsking

-----------------------------------------------------------------------------
\* The variables of the learning loop and of the deploy source gate have their types, in every
\* state (knowledge table, workers and gate: learn.py, dedup_worker.py, deploy-source-gate.ts).
THEOREM KnowledgeKeepsTypes == KnowledgeSpec => []KnowledgeTypes
  BY KnowledgeInvHolds, KnowledgeInvTypes, PTL

\* A plan that is taken from the table without asking the brain is one that another run of the same
\* component had tried and taught, and that run ended well, after this plan or after another one when
\* this one had failed (rag-triage-gate.ts:203, graph.ts:177); and neither merges, nor overlapping
\* upserts, nor failures or restarts lose what was seeded or taught (dedup_worker.py:129,
\* learn.py:107).
THEOREM KnowledgeStaysSound == KnowledgeSpec => []KnowledgeIsSound
  BY KnowledgeInvHolds, KnowledgeInvSound, PTL

\* An operator who answers all that is asked for in words the parser knows is asked at most three
\* times in an incident, whatever method the words name (deploy-source-gate.ts:66).
THEOREM KnowledgeAsksEnd == KnowledgeSpec => []AnswersEndAsking
  BY KnowledgeInvHolds, KnowledgeInvAsks, PTL
=============================================================================
