----------------------------- MODULE CodingJob -----------------------------
(***************************************************************************)
(* One coding run on its worker (apps/worker: jobs/claude-code.ts,         *)
(* coding/claude-code-adapter.ts, git/worktree.ts, coding/pull-request.ts, *)
(* client.ts) against the control plane of CodingSession: a worktree, a    *)
(* coding agent that edits, commits and asks, the tests, the self-review,  *)
(* the push and the pull request, and what is left of the worktree.        *)
(*                                                                         *)
(* The job and the agent's questions each have one request of the control  *)
(* plane under way.  An attempt may lose its request, its reply, or time   *)
(* out before a request that is still served.  The coding agent, git and   *)
(* GitHub are external, and choose.                                        *)
(***************************************************************************)
EXTENDS CodingSession, GitPolicy

CONSTANTS
  Attempts,     \* maxAttempts of the client
  MaxLost,      \* bound: calls that go wrong, each on as many of its attempts as it may
  Commands,     \* git commands the agent may try
  MaxCommits,   \* bound: commits of the agent
  MaxRefused    \* bound: prohibited git operations the agent attempts

ASSUME CodingJobAssumption ==
  /\ Commands \subseteq Command
  /\ Attempts \in Nat \ {0} /\ MaxLost \in Nat /\ MaxCommits \in Nat /\ MaxRefused \in Nat

VARIABLES
  calls,    \* the request each thread of the worker has under way
  late,     \* requests nobody waits for any more that are still to be served
  lost,     \* how many calls went wrong
  pc,       \* where runCodingJob is
  job,      \* its locals
  aborted,  \* ctx.signal: the stop has reached the worker
  agent,    \* the agent's process: "off", "working", "waiting" for an answer or "gone"
  told,     \* the decision the agent was given about each question
  repo      \* the clone, the worktree in it, the remote and GitHub

workerVars == <<pc, job, aborted>>
networkVars == <<calls, late, lost>>
agentVars == <<agent, told>>
vars == <<sessionVars, networkVars, workerVars, agentVars, repo>>

THREADS == {"job", "ask"}
ENDS == {"done", "failed", "crashed"}

Request ==
  [op : {"none", "violation", "pull_request"}]
    \cup [op : {"worktree"}, status : {"active", "preserved", "removed"}]
    \cup [op : {"question"}, question : Question]
    \cup [op : {"review"}, evidence : Evidence]

Op(op) == [op |-> op]
Worktree(status) == [op |-> "worktree", status |-> status]

Idle == [request |-> Op("none"), tries |-> 0, state |-> "idle", reply |-> "none"]

(* "refused" counts the entries of the local violations, "failed" is a test or build that
   failed, "url" a pull request that was opened, "end" how the job ends once it has preserved. *)
Job ==
  [result : {"none", "completed", "failed", "cancelled"}, refused : 0..MaxRefused, failed : BOOLEAN, unchanged : BOOLEAN, url : BOOLEAN, end : ENDS]

(* The clone of GitPolicy, the remote and GitHub; "attempts" are the lines the git shim
   wrote. *)
Repo ==
  [tip : 0..MaxCommits + 1, branch : 0..MaxCommits + 1, head : BRANCHES, dirty : BOOLEAN,
   moved : BOOLEAN,
   attempts : 0..MaxRefused, pushed : 0..MaxCommits + 1, published : BOOLEAN,
   removed : BOOLEAN]

PCS == ENDS \cup {"prepare", "reporting", "open", "coding", "violations", "violating",
                  "decide", "leftovers", "testing", "verifying", "gather", "reviewing", "push",
                  "create", "recording", "release", "releasing", "preserving"}

TypeOK ==
  /\ TypeOKSession
  /\ \A t \in THREADS :
       /\ calls[t].request \in Request /\ calls[t].tries \in 0..Attempts
       /\ calls[t].state \in {"idle", "sent", "replied", "refused", "failed"}
       /\ calls[t].reply \in DECISIONS \cup {"none"}
  /\ late \subseteq Request
  /\ lost \in 0..MaxLost
  /\ pc \in PCS /\ job \in Job /\ aborted \in BOOLEAN
  /\ agent \in {"off", "working", "waiting", "gone"}
  /\ told \in [Question -> DECISIONS \cup {"none"}]
  /\ repo \in Repo

Init ==
  /\ InitSession
  /\ calls = [t \in THREADS |-> Idle] /\ late = {} /\ lost = 0
  /\ pc = "prepare" /\ aborted = FALSE
  /\ job = [result |-> "none", refused |-> 0, failed |-> FALSE, unchanged |-> TRUE, url |-> FALSE, end |-> "failed"]
  /\ agent = "off" /\ told = [q \in Question |-> "none"]
  /\ repo = [tip |-> 0, branch |-> 0, head |-> "task", dirty |-> FALSE, moved |-> FALSE, attempts |-> 0,
             pushed |-> 0, published |-> FALSE, removed |-> FALSE]

-----------------------------------------------------------------------------
(* The client and the network.                                             *)

Sent(request) == [request |-> request, tries |-> 0, state |-> "sent", reply |-> "none"]

Send(t, request) ==
  /\ calls' = [calls EXCEPT ![t] = Sent(request)]
  /\ UNCHANGED <<late, lost>>

Receive(t) ==
  /\ calls' = [calls EXCEPT ![t] = Idle]
  /\ UNCHANGED <<late, lost>>

Under(t) == calls[t].state # "idle"
Over(t) == calls[t].state \in {"replied", "refused", "failed"}

(* A 4xx is final. *)
Refused(request) ==
  \/ request.op = "review" /\ ~MayReview
  \/ request.op = "pull_request" /\ ~MayRecordPullRequest

Handle(request) ==
  \/ request.op = "worktree" /\ RecordWorktree(request.status)
  \/ request.op = "question" /\ AnswerAgentQuestion(request.question)
  \/ request.op = "violation" /\ RecordGitViolation
  \/ request.op = "review" /\ SubmitReview(request.evidence)
  \/ request.op = "pull_request" /\ RecordPullRequest

Serve(t) ==
  /\ calls[t].state = "sent"
  /\ LET request == calls[t].request IN
     IF Refused(request)
     THEN UNCHANGED sessionVars /\ calls' = [calls EXCEPT ![t].state = "refused"]
     ELSE /\ Handle(request)
          /\ calls' = [calls EXCEPT ![t].state = "replied",
                                    ![t].reply = IF request.op = "question"
                                                 THEN decided'[request.question] ELSE "none"]
  /\ UNCHANGED <<late, lost, workerVars, agentVars, repo>>

(* The request, or its reply, is lost; or the attempt times out and its request is served
   later.  The client tries again until it has no attempt left. *)
AttemptFails(t) ==
  /\ calls[t].state \in {"sent", "replied", "refused"}
  /\ lost' = IF calls[t].tries = 0 THEN lost + 1 ELSE lost
  /\ lost' <= MaxLost
  /\ \/ UNCHANGED late
     \/ calls[t].state = "sent" /\ late = {} /\ late' = late \cup {calls[t].request}
  /\ calls' = [calls EXCEPT ![t].tries = @ + 1,
                            ![t].state = IF calls[t].tries + 1 = Attempts THEN "failed" ELSE "sent",
                            ![t].reply = "none"]
  /\ UNCHANGED <<sessionVars, workerVars, agentVars, repo>>

ServeLate(request) ==
  /\ late' = late \ {request}
  /\ IF Refused(request) THEN UNCHANGED sessionVars ELSE Handle(request)
  /\ UNCHANGED <<calls, lost, workerVars, agentVars, repo>>

-----------------------------------------------------------------------------
(* runCodingJob: the worktree, and the agent in it.                        *)

Goes(to) == pc' = to /\ UNCHANGED <<job, aborted>>

(* What fails once the worktree is there is preserved before the job ends. *)
Preserve(end) ==
  /\ pc' = "preserving" /\ job' = [job EXCEPT !.end = end]
  /\ UNCHANGED aborted
  /\ Send("job", Worktree("preserved"))

Fails == Preserve("failed")

(* The fetch, the worktree and the branch; outside the try, as is the report. *)
Prepare ==
  /\ pc = "prepare"
  /\ \/ Goes("reporting") /\ Send("job", Worktree("active"))
     \/ Goes("failed") /\ UNCHANGED networkVars
  /\ UNCHANGED <<sessionVars, agentVars, repo>>

WorktreeReported ==
  /\ pc = "reporting" /\ Over("job")
  /\ Goes(IF calls["job"].state = "replied" THEN "open" ELSE "failed")
  /\ Receive("job")
  /\ UNCHANGED <<sessionVars, agentVars, repo>>

(* The sandbox, the git shim and the agent. *)
StartAgent ==
  /\ pc = "open"
  /\ \/ Fails /\ UNCHANGED agentVars
     \/ /\ agent' = "working" /\ UNCHANGED told
        /\ Goes("coding") /\ UNCHANGED networkVars
  /\ UNCHANGED <<sessionVars, repo>>

-----------------------------------------------------------------------------
(* The coding agent.  One without a sandbox does nothing but edit.         *)

AgentSteps == UNCHANGED <<sessionVars, networkVars, workerVars, agentVars>>

Edit ==
  /\ agent = "working"
  /\ repo' = [repo EXCEPT !.dirty = TRUE]
  /\ AgentSteps

(* The agent's git is the shim: what it refuses leaves a line and touches nothing. *)
AgentGit(c) ==
  /\ agent = "working"
  /\ \/ CheckGitCommand(c, ShimPolicy) /\ repo' \in GitDoes(c, repo, MaxCommits)
     \/ /\ ~CheckGitCommand(c, ShimPolicy) /\ repo.attempts < MaxRefused
        /\ repo' = [repo EXCEPT !.attempts = @ + 1]
  /\ AgentSteps

Ask(q) ==
  /\ agent = "working" /\ ~Under("ask") /\ told[q] = "none"
  /\ decided[q] = "none"
  /\ agent' = "waiting" /\ UNCHANGED told
  /\ Send("ask", [op |-> "question", question |-> q])
  /\ UNCHANGED <<sessionVars, workerVars, repo>>

(* An answer for a session that is over is written to a closed stdin. *)
IsTold ==
  /\ Over("ask") /\ calls["ask"].state = "replied"
  /\ LET q == calls["ask"].request.question IN
     IF agent = "waiting"
     THEN agent' = "working" /\ told' = [told EXCEPT ![q] = calls["ask"].reply]
     ELSE UNCHANGED agentVars
  /\ Receive("ask")
  /\ UNCHANGED <<sessionVars, workerVars, repo>>

(* Nobody handles the rejection of onLine: it ends the process. *)
AskFails ==
  /\ calls["ask"].state = "failed"
  /\ pc' = IF pc \in ENDS THEN pc ELSE "crashed"
  /\ UNCHANGED <<job, aborted>>
  /\ calls' = [t \in THREADS |-> Idle] /\ UNCHANGED <<late, lost>>
  /\ agent' = "gone" /\ UNCHANGED told
  /\ UNCHANGED <<sessionVars, repo>>

(* The session settles: a result, the exit of the process, or the idle timer.  One that waits
   for an answer does not complete. *)
Settles ==
  /\ agent \in {"working", "waiting"}
  /\ agent' = "gone" /\ UNCHANGED told
  /\ \E result \in {"completed", "failed"} :
       /\ result = "completed" => agent = "working"
       /\ job' = [job EXCEPT !.result = IF aborted THEN "cancelled" ELSE result]
  /\ UNCHANGED <<pc, aborted, sessionVars, networkVars, repo>>

-----------------------------------------------------------------------------
(* runCodingJob: what the session left.                                    *)

SessionOver ==
  /\ pc = "coding" /\ agent = "gone"
  /\ Goes("violations")
  /\ UNCHANGED <<sessionVars, networkVars, agentVars, repo>>

(* A report that fails is tolerated. *)
ViolationReported ==
  /\ pc = "violating" /\ Over("job")
  /\ Goes("violations") /\ Receive("job")
  /\ UNCHANGED <<sessionVars, agentVars, repo>>

ReportsPastTheEnd ==  \* mutant: the loop over the shim's lines runs once too often
  /\ pc = "violations" /\ job.refused <= repo.attempts
  /\ pc' = "violating" /\ job' = [job EXCEPT !.refused = @ + 1] /\ UNCHANGED aborted
  /\ Send("job", Op("violation"))
  /\ UNCHANGED <<sessionVars, agentVars, repo>>

ReportViolation ==
  /\ pc = "violations" /\ job.refused < repo.attempts
  /\ pc' = "violating" /\ job' = [job EXCEPT !.refused = @ + 1] /\ UNCHANGED aborted
  /\ Send("job", Op("violation"))
  /\ UNCHANGED <<sessionVars, agentVars, repo>>

CancelledOrNot ==
  /\ pc = "violations" /\ job.refused = repo.attempts
  /\ IF job.result = "cancelled" \/ aborted THEN Preserve("done")
     ELSE Goes("leftovers") /\ UNCHANGED networkVars
  /\ UNCHANGED <<sessionVars, agentVars, repo>>

(* git is run under the signal: once that is set it answers nothing, and what may not fail
   throws.  A commit may fail, and a hook may see to that. *)
CommitLeftovers ==
  /\ pc = "leftovers"
  /\ \/ /\ aborted /\ repo.dirty
        /\ Fails /\ UNCHANGED repo
     \/ /\ Goes("testing") /\ UNCHANGED networkVars
        /\ \/ UNCHANGED repo
           \/ ~aborted /\ repo.dirty /\ repo' = Commits(repo)
  /\ UNCHANGED <<sessionVars, agentVars>>

(* The project's own commands, which may leave files behind. *)
RunProjectCommands ==
  /\ pc = "testing"
  /\ pc' = "verifying" /\ UNCHANGED aborted
  /\ \E failed, leaves \in BOOLEAN :
       /\ job' = [job EXCEPT !.failed = failed]
       /\ repo' = [repo EXCEPT !.dirty = @ \/ leaves]
  /\ UNCHANGED <<sessionVars, networkVars, agentVars>>

(* Another run of the repository may have fetched into the same clone. *)
VerifyDefaultBranchUnchanged ==
  /\ pc = "verifying"
  /\ pc' = "gather" /\ UNCHANGED aborted
  /\ \E unchanged \in IF aborted \/ repo.moved THEN {FALSE} ELSE BOOLEAN :
       job' = [job EXCEPT !.unchanged = unchanged]
  /\ UNCHANGED <<sessionVars, networkVars, agentVars, repo>>

CollectEvidence ==
  /\ pc = "gather"
  /\ Goes("reviewing")
  /\ \E commits \in {repo.tip} \cup (IF aborted THEN {0} ELSE {}),
        dirty \in {repo.dirty} \cup (IF aborted THEN {FALSE} ELSE {}) :
       Send("job", [op |-> "review",
                    evidence |-> [commits |-> commits, dirty |-> dirty, prohibited |-> job.refused,
                                  failed |-> job.failed, unchanged |-> job.unchanged]])
  /\ UNCHANGED <<sessionVars, agentVars, repo>>

(* The reply carries the review as it was recorded, since no later submission is accepted,
   and asks for a pull request unless the run is not to have one. *)
Reviewed ==
  /\ pc = "reviewing" /\ Over("job")
  /\ \/ /\ calls["job"].state = "replied"
        /\ Goes("release") \/ (review.recommended /\ Goes("push"))
        /\ Receive("job")
     \/ calls["job"].state # "replied" /\ Fails
  /\ UNCHANGED <<sessionVars, agentVars, repo>>

PushTaskBranch ==
  /\ pc = "push"
  /\ \/ ~aborted /\ Goes("create") /\ repo' = [repo EXCEPT !.pushed = repo.branch]
     \/ Goes("release") /\ UNCHANGED repo
  /\ UNCHANGED <<sessionVars, networkVars, agentVars>>

(* GitHub opens nothing for a branch without commits. *)
CreatePullRequest ==
  /\ pc = "create"
  /\ \/ /\ repo.pushed > 0
        /\ repo' = [repo EXCEPT !.published = TRUE]
        /\ pc' = "recording" /\ job' = [job EXCEPT !.url = TRUE] /\ UNCHANGED aborted
        /\ Send("job", Op("pull_request"))
     \/ Goes("release") /\ UNCHANGED <<repo, networkVars>>
  /\ UNCHANGED <<sessionVars, agentVars>>

PullRequestReported ==
  /\ pc = "recording" /\ Over("job")
  /\ Goes("release") /\ Receive("job")
  /\ UNCHANGED <<sessionVars, agentVars, repo>>

RemoveWorktree == job.url /\ ~review.attention /\ review.verdict = "satisfies_brief"

Release ==
  /\ pc = "release"
  /\ Goes("releasing")
  /\ Send("job", Worktree(IF RemoveWorktree THEN "removed" ELSE "preserved"))
  /\ UNCHANGED <<sessionVars, agentVars, repo>>

(* A session that failed fails the job, once its work is released: it is preserved again. *)
Released ==
  /\ pc = "releasing" /\ Over("job")
  /\ repo' = [repo EXCEPT !.removed = RemoveWorktree]
  /\ IF job.result = "failed" THEN Fails ELSE Goes("done") /\ Receive("job")
  /\ UNCHANGED <<sessionVars, agentVars>>

Preserved ==
  /\ pc = "preserving" /\ Over("job")
  /\ Goes(job.end) /\ Receive("job")
  /\ UNCHANGED <<sessionVars, agentVars, repo>>

-----------------------------------------------------------------------------
(* What happens to a job.                                                  *)

(* The stop reaches the worker with any reply.  Where neither the agent nor git looks at the
   signal, now is as good as later. *)
Abort ==
  /\ ~aborted
  /\ pc \in {"coding", "violations", "leftovers", "testing", "verifying", "gather", "push"}
  /\ aborted' = TRUE
  /\ UNCHANGED <<pc, job, sessionVars, networkVars, agentVars, repo>>

(* The run ends without its worker, and nothing but the review looks at that. *)
Ends ==
  /\ pc = "reviewing"
  /\ RunEnds
  /\ UNCHANGED <<networkVars, workerVars, agentVars, repo>>

JobStep ==
  \/ Prepare
  \/ WorktreeReported
  \/ StartAgent
  \/ SessionOver
  \/ ViolationReported
  \/ ReportViolation
  \/ CancelledOrNot
  \/ CommitLeftovers
  \/ RunProjectCommands
  \/ VerifyDefaultBranchUnchanged
  \/ CollectEvidence
  \/ Reviewed
  \/ PushTaskBranch
  \/ CreatePullRequest
  \/ PullRequestReported
  \/ Release
  \/ Released
  \/ Preserved

AgentStep ==
  \/ Edit
  \/ \E c \in Commands : AgentGit(c)
  \/ \E q \in Question : Ask(q)
  \/ IsTold \/ AskFails
  \/ Settles

Next ==
  \/ JobStep
  \/ AgentStep
  \/ \E t \in THREADS : Serve(t) \/ AttemptFails(t)
  \/ \E request \in late : ServeLate(request)
  \/ Abort \/ Ends

Spec == Init /\ [][Next]_vars

-----------------------------------------------------------------------------
(* Properties.                                                             *)

(* A worktree is removed only when all there was in it is in a pull request that satisfies
   the brief and leaves nobody anything to look at. *)
RemovedMeansPublished ==
  repo.removed =>
    /\ repo.published /\ repo.pushed = repo.branch /\ ~repo.dirty
    /\ review.verdict = "satisfies_brief"
    /\ \A q \in Question : told[q] \in {"none", "answered"}

(* A pull request is opened for work Mac's review recommended, with commits, whose tests did
   not fail, beside an unmoved default branch, by an agent that attempted nothing prohibited
   and was told "blocked" about nothing, whatever reports of that were lost. *)
PullRequestsAreWarranted ==
  repo.published =>
    /\ review.recommended
    /\ repo.pushed > 0 /\ ~job.failed /\ job.unchanged
    /\ repo.attempts = 0
    /\ \A q \in Question : told[q] # "blocked"

(* Whatever sequence of the commands the policy knows the agent strings together, and though
   the shim's idea of what is checked out grows old, the default branch stays where it was
   (git-policy.ts, "rules": each refuses a precondition of another), and Mac's own push is
   never refused. *)
DefaultBranchStays ==
  /\ ~repo.moved /\ repo.head # "default"
  /\ CheckGitCommand(PushOfTaskBranch, MacPolicy)

(* Together: what leaves the machine, and what is removed from it, is Mac's own verdict, and
   the default branch is nobody's to move. *)
DeliveryIsWarranted == RemovedMeansPublished /\ PullRequestsAreWarranted /\ DefaultBranchStays

(* A question has one answer however often it arrives: the agent was told what is recorded,
   and it left one blocker if it was blocked, one assumption if it was assumed. *)
OneAnswerPerQuestion ==
  \A q \in Question :
    /\ told[q] # "none" => told[q] = decided[q]
    /\ consequences[q] =
         [k \in KINDS |-> IF <<k, decided[q]>> \in {<<"blocker", "blocked">>,
                                                    <<"assumption", "assumed">>} THEN 1 ELSE 0]

(* Together: an answer stands, and it is one a person would have let Mac give. *)
AnswersStand == OneAnswerPerQuestion /\ AnswersAreSafe
=============================================================================
