--------------------------- MODULE CodingJob_proofs ---------------------------
(***************************************************************************)
(* Proofs about CodingJob, for any questions, any git commands the agent   *)
(* may try, any records and settings, and any number of lost calls: type   *)
(* correctness, that what leaves the machine is Mac's own verdict, that    *)
(* the default branch stays, that an answer stands, and that there is      *)
(* something on record behind it.                                          *)
(***************************************************************************)
EXTENDS CodingJob, FiniteSetTheorems, NaturalsInduction, SequenceTheorems, TLAPS,
        WellFoundedInduction

-----------------------------------------------------------------------------
(* The inductive invariant, in named parts.                                *)

(* A thread that has not given up has an attempt left. *)
CallRecord ==
  {c \in [request : Request, tries : 0..Attempts,
          state : {"idle", "sent", "replied", "refused", "failed"},
          reply : DECISIONS \cup {"none"}] : c.state # "failed" => c.tries < Attempts}

Typed == TypeOK /\ calls \in [THREADS -> CallRecord]

(* The agent works while the job waits for it, and at no other time. *)
AgentHours == agent \in {"working", "waiting"} => pc = "coding"

(* Once the job has looked, it has counted every line the git shim wrote. *)
RefusalsAreCounted ==
  pc \in {"leftovers", "testing", "verifying", "gather", "reviewing", "push", "create", "recording",
          "release", "releasing"} => job.refused = repo.attempts

(* The agent's commits are within their bound, which leaves room for the leftovers. *)
BranchIsBounded ==
  pc \in {"prepare", "reporting", "open", "coding", "violations", "violating", "leftovers"}
    => repo.tip <= MaxCommits /\ repo.branch <= MaxCommits

DefaultIsLeft == ~repo.moved /\ repo.head # "default"

AfterGather ==
  {"reviewing", "push", "create", "recording", "release", "releasing", "preserving"} \cup ENDS

(* What is under way, and what is still to be served. *)
Outstanding == late \cup {calls[t].request : t \in THREADS}

(* The evidence is of the work that is in the worktree, for good. *)
OfTheWork(e) ==
  /\ e.prohibited = repo.attempts /\ e.failed = job.failed /\ e.unchanged = job.unchanged
  /\ ~aborted => e.dirty = repo.dirty

EvidenceIsOfTheWork ==
  \A r \in Outstanding : r.op = "review" => pc \in AfterGather /\ OfTheWork(r.evidence)

(* So is the review, which is the only one: what it leaves unsaid is not the case. *)
ReviewIsOfTheWork ==
  /\ review # NoReview => pc \in AfterGather /\ run # "running"
  /\ review.recommended =>
       repo.attempts = 0 /\ ~job.failed /\ job.unchanged /\ \A q \in Question : told[q] # "blocked"
  /\ ~review.attention =>
       (~aborted => ~repo.dirty) /\ \A q \in Question : told[q] \in {"none", "answered"}

(* What is published is what was pushed, on a recommendation, and not after a stop. *)
PublicationIsOfTheBranch ==
  /\ pc \in {"push", "create"} => review.recommended
  /\ pc = "create" => ~aborted /\ repo.pushed = repo.branch
  /\ repo.published = job.url
  /\ job.url =>
       /\ pc \in AfterGather \ {"reviewing", "push", "create"}
       /\ review.recommended /\ ~aborted /\ repo.pushed = repo.branch /\ repo.pushed > 0
  /\ repo.removed => RemoveWorktree

(* An answer on its way to the agent is the one on record. *)
AnswersOnTheWay ==
  /\ calls["ask"].state # "idle" => calls["ask"].request.op = "question"
  /\ calls["ask"].state = "replied" =>
       calls["ask"].reply = decided[calls["ask"].request.question] /\ calls["ask"].reply # "none"

Inv ==
  /\ Typed
  /\ AgentHours
  /\ RefusalsAreCounted
  /\ BranchIsBounded
  /\ DefaultIsLeft
  /\ EvidenceIsOfTheWork
  /\ ReviewIsOfTheWork
  /\ PublicationIsOfTheBranch
  /\ AnswersOnTheWay
  /\ OneAnswerPerQuestion

-----------------------------------------------------------------------------
(* The network.                                                            *)

(* A request is a record of what its handler asks for. *)
LEMMA RequestFields ==
  ASSUME NEW r \in Request
  PROVE  /\ r.op \in {"none", "violation", "pull_request", "worktree", "question", "review"}
         /\ r.op = "worktree" => r.status \in {"active", "preserved", "removed"}
         /\ r.op = "question" => r.question \in Question
         /\ r.op = "review" => r.evidence \in Evidence
BY DEF Request

(* A thread sends a request: it is under way, and so is whatever was. *)
LEMMA SendIs ==
  ASSUME Typed, NEW t \in THREADS, NEW request \in Request, Send(t, request)
  PROVE  /\ calls' \in [THREADS -> CallRecord] /\ late' = late /\ lost' = lost
         /\ calls'[t].request = request /\ calls'[t].state = "sent"
         /\ \A u \in THREADS \ {t} : calls'[u] = calls[u]
         /\ Outstanding' \subseteq Outstanding \cup {request}
<1> DEFINE sent == Sent(request)
<1>1. sent \in CallRecord /\ sent.request = request /\ sent.state = "sent"
  BY CodingJobAssumption DEF Sent, CallRecord, DECISIONS
<1>2. calls' = [calls EXCEPT ![t] = sent] /\ late' = late /\ lost' = lost
  BY DEF Send
<1> HIDE DEF sent
<1> QED BY <1>1, <1>2 DEF Typed, Outstanding

(* A thread is done with its request. *)
LEMMA ReceiveIs ==
  ASSUME Typed, NEW t \in THREADS, Receive(t)
  PROVE  /\ calls' \in [THREADS -> CallRecord] /\ late' = late /\ lost' = lost
         /\ calls'[t] = Idle
         /\ \A u \in THREADS \ {t} : calls'[u] = calls[u]
         /\ Outstanding' \subseteq Outstanding \cup {Op("none")}
<1>1. Idle \in CallRecord /\ Idle.request = Op("none")
  BY CodingJobAssumption DEF Idle, CallRecord, Request, Op, DECISIONS
<1>2. calls' = [calls EXCEPT ![t] = Idle] /\ late' = late /\ lost' = lost
  BY DEF Receive
<1> HIDE DEF Idle
<1> QED BY <1>1, <1>2 DEF Typed, Outstanding

(* The requests of the job. *)
LEMMA JobRequests ==
  /\ \A status \in {"active", "preserved", "removed"} :
       Worktree(status) \in Request /\ Worktree(status).op = "worktree"
  /\ \A op \in {"none", "violation", "pull_request"} : Op(op) \in Request /\ Op(op).op = op
  /\ \A q \in Question : [op |-> "question", question |-> q] \in Request
  /\ \A e \in Evidence : [op |-> "review", evidence |-> e] \in Request
BY DEF Request, Worktree, Op

(* The parts of the type invariant that most steps leave alone. *)
LEMMA SessionStays ==
  ASSUME Typed, UNCHANGED sessionVars
  PROVE  TypeOKSession'
BY DEF Typed, TypeOK, TypeOKSession, sessionVars

LEMMA TypedIs ==
  ASSUME TypeOKSession', calls' \in [THREADS -> CallRecord], late' \subseteq Request,
         lost' \in 0..MaxLost, pc' \in PCS, job' \in Job, aborted' \in BOOLEAN,
         agent' \in {"off", "working", "waiting", "gone"},
         told' \in [Question -> DECISIONS \cup {"none"}], repo' \in Repo
  PROVE  Typed'
BY DEF Typed, TypeOK, CallRecord

(* A step of the job that adds nothing to what is under way but what is no review, and leaves
   the work alone once it has been collected, keeps what is said of the evidence and the
   review, and all that is said of the questions. *)
LEMMA WorkStays ==
  ASSUME Inv, UNCHANGED <<sessionVars, agentVars>>,
         \A r \in Outstanding' : r.op = "review" => r \in Outstanding,
         calls'["ask"] = calls["ask"], aborted => aborted',
         pc \in AfterGather =>
           /\ pc' \in AfterGather
           /\ job'.failed = job.failed /\ job'.unchanged = job.unchanged
           /\ repo'.dirty = repo.dirty /\ repo'.attempts = repo.attempts
  PROVE  EvidenceIsOfTheWork' /\ ReviewIsOfTheWork' /\ AnswersOnTheWay' /\ OneAnswerPerQuestion'
<1> USE DEF Inv
<1>1. EvidenceIsOfTheWork'
  BY DEF EvidenceIsOfTheWork, OfTheWork
<1>2. ReviewIsOfTheWork'
  <2>1. CASE pc \in AfterGather
    BY <2>1 DEF ReviewIsOfTheWork, sessionVars, agentVars
  <2>2. CASE pc \notin AfterGather
    <3>1. review' = NoReview
      BY <2>2 DEF ReviewIsOfTheWork, sessionVars
    <3>2. review'.recommended = FALSE /\ review'.attention = TRUE
      BY <3>1 DEF NoReview
    <3> QED BY <3>1, <3>2 DEF ReviewIsOfTheWork
  <2> QED BY <2>1, <2>2
<1>3. AnswersOnTheWay'
  <2>1. decided' = decided
    BY DEF sessionVars
  <2> QED BY <2>1 DEF AnswersOnTheWay
<1>4. OneAnswerPerQuestion'
  <2>1. decided' = decided /\ consequences' = consequences /\ told' = told
    BY DEF sessionVars, agentVars
  <2> QED BY <2>1 DEF OneAnswerPerQuestion
<1> QED BY <1>1, <1>2, <1>3, <1>4

(* A commit adds one to the branch that is checked out. *)
LEMMA CommitsIs ==
  ASSUME NEW clone \in Repo, clone.tip <= MaxCommits, clone.head # "default"
  PROVE  /\ Commits(clone) \in Repo
         /\ Commits(clone).head = clone.head /\ Commits(clone).moved = clone.moved
         /\ Commits(clone).attempts = clone.attempts /\ Commits(clone).pushed = clone.pushed
         /\ Commits(clone).published = clone.published /\ Commits(clone).removed = clone.removed
<1>1. clone.tip \in 0..MaxCommits + 1 /\ clone.branch \in 0..MaxCommits + 1
  BY DEF Repo
<1>2. clone.tip + 1 \in 0..MaxCommits + 1
  BY <1>1, CodingJobAssumption
<1>3. (clone.moved \/ clone.head = "default") = clone.moved
  BY DEF Repo
<1> QED BY <1>1, <1>2, <1>3 DEF Commits, MovesTo, Repo

-----------------------------------------------------------------------------
(* The job: its network is one of these.                                   *)

(* The worktree is prepared, or the job has failed already. *)
LEMMA PrepareInv ==
  ASSUME Inv, Prepare
  PROVE  Inv'
<1> USE DEF Inv, Prepare, Goes, sessionVars, networkVars, workerVars, agentVars
<1>1. /\ calls' \in [THREADS -> CallRecord] /\ late' = late /\ lost' = lost
      /\ calls'["ask"] = calls["ask"]
      /\ \A r \in Outstanding' : r.op = "review" => r \in Outstanding
  BY SendIs, JobRequests DEF THREADS, Typed, Outstanding
<1>2. Typed'
  <2>1. TypeOKSession'
    BY SessionStays
  <2>2. job' \in Job
    BY CodingJobAssumption DEF Typed, TypeOK, Job, Repo, ENDS
  <2>3. repo' \in Repo
    BY CodingJobAssumption DEF Typed, TypeOK, Repo
  <2> QED BY <1>1, <2>1, <2>2, <2>3, TypedIs DEF Typed, TypeOK, PCS, ENDS
<1>3. AgentHours' /\ RefusalsAreCounted' /\ BranchIsBounded' /\ DefaultIsLeft'
  BY <1>1 DEF AgentHours, RefusalsAreCounted, ENDS, BranchIsBounded, DefaultIsLeft
<1>4. EvidenceIsOfTheWork' /\ ReviewIsOfTheWork' /\ AnswersOnTheWay' /\ OneAnswerPerQuestion'
  BY <1>1, WorkStays DEF AfterGather, ENDS
<1>5. PublicationIsOfTheBranch'
  BY <1>1 DEF PublicationIsOfTheBranch, RemoveWorktree, AfterGather, ENDS
<1> QED BY <1>2, <1>3, <1>4, <1>5

(* The worktree is reported, or the job fails. *)
LEMMA WorktreeReportedInv ==
  ASSUME Inv, WorktreeReported
  PROVE  Inv'
<1> USE DEF Inv, WorktreeReported, Goes, sessionVars, networkVars, workerVars, agentVars
<1>1. /\ calls' \in [THREADS -> CallRecord] /\ late' = late /\ lost' = lost
      /\ calls'["ask"] = calls["ask"]
      /\ \A r \in Outstanding' : r.op = "review" => r \in Outstanding
  BY ReceiveIs, JobRequests DEF THREADS
<1> HIDE DEF Receive
<1>2. Typed'
  <2>1. TypeOKSession'
    BY SessionStays
  <2>2. job' \in Job
    BY CodingJobAssumption DEF Typed, TypeOK, Job, Repo, ENDS
  <2>3. repo' \in Repo
    BY CodingJobAssumption DEF Typed, TypeOK, Repo
  <2> QED BY <1>1, <2>1, <2>2, <2>3, TypedIs DEF Typed, TypeOK, PCS, ENDS
<1>3. AgentHours' /\ RefusalsAreCounted' /\ BranchIsBounded' /\ DefaultIsLeft'
  BY <1>1 DEF AgentHours, RefusalsAreCounted, ENDS, BranchIsBounded, DefaultIsLeft
<1>4. EvidenceIsOfTheWork' /\ ReviewIsOfTheWork' /\ AnswersOnTheWay' /\ OneAnswerPerQuestion'
  BY <1>1, WorkStays DEF AfterGather, ENDS
<1>5. PublicationIsOfTheBranch'
  BY <1>1 DEF PublicationIsOfTheBranch, RemoveWorktree, AfterGather, ENDS
<1> QED BY <1>2, <1>3, <1>4, <1>5

(* The session is over, and the agent gone. *)
LEMMA SessionOverInv ==
  ASSUME Inv, SessionOver
  PROVE  Inv'
<1> USE DEF Inv, SessionOver, Goes, sessionVars, networkVars, workerVars, agentVars
<1>1. /\ calls' \in [THREADS -> CallRecord] /\ late' = late /\ lost' = lost
      /\ calls'["ask"] = calls["ask"] /\ Outstanding' = Outstanding
  BY DEF Typed, Outstanding
<1>2. Typed'
  <2>1. TypeOKSession'
    BY SessionStays
  <2>2. job' \in Job
    BY CodingJobAssumption DEF Typed, TypeOK, Job, Repo, ENDS
  <2>3. repo' \in Repo
    BY CodingJobAssumption DEF Typed, TypeOK, Repo
  <2> QED BY <1>1, <2>1, <2>2, <2>3, TypedIs DEF Typed, TypeOK, PCS, ENDS
<1>3. AgentHours' /\ RefusalsAreCounted' /\ BranchIsBounded' /\ DefaultIsLeft'
  BY <1>1 DEF AgentHours, RefusalsAreCounted, ENDS, BranchIsBounded, DefaultIsLeft
<1>4. EvidenceIsOfTheWork' /\ ReviewIsOfTheWork' /\ AnswersOnTheWay' /\ OneAnswerPerQuestion'
  BY <1>1, WorkStays DEF AfterGather, ENDS
<1>5. PublicationIsOfTheBranch'
  BY <1>1 DEF PublicationIsOfTheBranch, RemoveWorktree, AfterGather, ENDS
<1> QED BY <1>2, <1>3, <1>4, <1>5

(* One line of the shim's is counted. *)
LEMMA ReportViolationInv ==
  ASSUME Inv, ReportViolation
  PROVE  Inv'
<1> USE DEF Inv, ReportViolation, sessionVars, networkVars, workerVars, agentVars
<1>1. /\ calls' \in [THREADS -> CallRecord] /\ late' = late /\ lost' = lost
      /\ calls'["ask"] = calls["ask"]
      /\ \A r \in Outstanding' : r.op = "review" => r \in Outstanding
  BY SendIs, JobRequests DEF THREADS
<1> HIDE DEF Send
<1>2. Typed'
  <2>1. TypeOKSession'
    BY SessionStays
  <2>2. job' \in Job
    BY CodingJobAssumption DEF Typed, TypeOK, Job, Repo, ENDS
  <2>3. repo' \in Repo
    BY CodingJobAssumption DEF Typed, TypeOK, Repo
  <2> QED BY <1>1, <2>1, <2>2, <2>3, TypedIs DEF Typed, TypeOK, PCS, ENDS
<1>3. AgentHours' /\ RefusalsAreCounted' /\ BranchIsBounded' /\ DefaultIsLeft'
  BY <1>1 DEF AgentHours, RefusalsAreCounted, ENDS, BranchIsBounded, DefaultIsLeft
<1>4. EvidenceIsOfTheWork' /\ ReviewIsOfTheWork' /\ AnswersOnTheWay' /\ OneAnswerPerQuestion'
  BY <1>1, WorkStays DEF AfterGather, ENDS
<1>5. PublicationIsOfTheBranch'
  BY <1>1 DEF PublicationIsOfTheBranch, RemoveWorktree, AfterGather, ENDS
<1> QED BY <1>2, <1>3, <1>4, <1>5

(* A report that fails is tolerated. *)
LEMMA ViolationReportedInv ==
  ASSUME Inv, ViolationReported
  PROVE  Inv'
<1> USE DEF Inv, ViolationReported, Goes, sessionVars, networkVars, workerVars, agentVars
<1>1. /\ calls' \in [THREADS -> CallRecord] /\ late' = late /\ lost' = lost
      /\ calls'["ask"] = calls["ask"]
      /\ \A r \in Outstanding' : r.op = "review" => r \in Outstanding
  BY ReceiveIs, JobRequests DEF THREADS
<1> HIDE DEF Receive
<1>2. Typed'
  <2>1. TypeOKSession'
    BY SessionStays
  <2>2. job' \in Job
    BY CodingJobAssumption DEF Typed, TypeOK, Job, Repo, ENDS
  <2>3. repo' \in Repo
    BY CodingJobAssumption DEF Typed, TypeOK, Repo
  <2> QED BY <1>1, <2>1, <2>2, <2>3, TypedIs DEF Typed, TypeOK, PCS, ENDS
<1>3. AgentHours' /\ RefusalsAreCounted' /\ BranchIsBounded' /\ DefaultIsLeft'
  BY <1>1 DEF AgentHours, RefusalsAreCounted, ENDS, BranchIsBounded, DefaultIsLeft
<1>4. EvidenceIsOfTheWork' /\ ReviewIsOfTheWork' /\ AnswersOnTheWay' /\ OneAnswerPerQuestion'
  BY <1>1, WorkStays DEF AfterGather, ENDS
<1>5. PublicationIsOfTheBranch'
  BY <1>1 DEF PublicationIsOfTheBranch, RemoveWorktree, AfterGather, ENDS
<1> QED BY <1>2, <1>3, <1>4, <1>5

(* A pull request is reported, or not. *)
LEMMA PullRequestReportedInv ==
  ASSUME Inv, PullRequestReported
  PROVE  Inv'
<1> USE DEF Inv, PullRequestReported, Goes, sessionVars, networkVars, workerVars, agentVars
<1>1. /\ calls' \in [THREADS -> CallRecord] /\ late' = late /\ lost' = lost
      /\ calls'["ask"] = calls["ask"]
      /\ \A r \in Outstanding' : r.op = "review" => r \in Outstanding
  BY ReceiveIs, JobRequests DEF THREADS
<1> HIDE DEF Receive
<1>2. Typed'
  <2>1. TypeOKSession'
    BY SessionStays
  <2>2. job' \in Job
    BY CodingJobAssumption DEF Typed, TypeOK, Job, Repo, ENDS
  <2>3. repo' \in Repo
    BY CodingJobAssumption DEF Typed, TypeOK, Repo
  <2> QED BY <1>1, <2>1, <2>2, <2>3, TypedIs DEF Typed, TypeOK, PCS, ENDS
<1>3. AgentHours' /\ RefusalsAreCounted' /\ BranchIsBounded' /\ DefaultIsLeft'
  BY <1>1 DEF AgentHours, RefusalsAreCounted, ENDS, BranchIsBounded, DefaultIsLeft
<1>4. EvidenceIsOfTheWork' /\ ReviewIsOfTheWork' /\ AnswersOnTheWay' /\ OneAnswerPerQuestion'
  BY <1>1, WorkStays DEF AfterGather, ENDS
<1>5. PublicationIsOfTheBranch'
  BY <1>1 DEF PublicationIsOfTheBranch, RemoveWorktree, AfterGather, ENDS
<1> QED BY <1>2, <1>3, <1>4, <1>5

(* The worktree is released. *)
LEMMA ReleaseInv ==
  ASSUME Inv, Release
  PROVE  Inv'
<1> USE DEF Inv, Release, Goes, sessionVars, networkVars, workerVars, agentVars
<1>1. /\ calls' \in [THREADS -> CallRecord] /\ late' = late /\ lost' = lost
      /\ calls'["ask"] = calls["ask"]
      /\ \A r \in Outstanding' : r.op = "review" => r \in Outstanding
  BY SendIs, JobRequests DEF THREADS, Typed, Outstanding
<1>2. Typed'
  <2>1. TypeOKSession'
    BY SessionStays
  <2>2. job' \in Job
    BY CodingJobAssumption DEF Typed, TypeOK, Job, Repo, ENDS
  <2>3. repo' \in Repo
    BY CodingJobAssumption DEF Typed, TypeOK, Repo
  <2> QED BY <1>1, <2>1, <2>2, <2>3, TypedIs DEF Typed, TypeOK, PCS, ENDS
<1>3. AgentHours' /\ RefusalsAreCounted' /\ BranchIsBounded' /\ DefaultIsLeft'
  BY <1>1 DEF AgentHours, RefusalsAreCounted, ENDS, BranchIsBounded, DefaultIsLeft
<1>4. EvidenceIsOfTheWork' /\ ReviewIsOfTheWork' /\ AnswersOnTheWay' /\ OneAnswerPerQuestion'
  BY <1>1, WorkStays DEF AfterGather, ENDS
<1>5. PublicationIsOfTheBranch'
  BY <1>1 DEF PublicationIsOfTheBranch, RemoveWorktree, AfterGather, ENDS
<1> QED BY <1>2, <1>3, <1>4, <1>5

(* The stop reaches the worker before anything is pushed. *)
LEMMA AbortInv ==
  ASSUME Inv, Abort
  PROVE  Inv'
<1> USE DEF Inv, Abort, sessionVars, networkVars, workerVars, agentVars
<1>1. /\ calls' \in [THREADS -> CallRecord] /\ late' = late /\ lost' = lost
      /\ calls'["ask"] = calls["ask"] /\ Outstanding' = Outstanding
  BY DEF Typed, Outstanding
<1>2. Typed'
  <2>1. TypeOKSession'
    BY SessionStays
  <2>2. job' \in Job
    BY CodingJobAssumption DEF Typed, TypeOK, Job, Repo, ENDS
  <2>3. repo' \in Repo
    BY CodingJobAssumption DEF Typed, TypeOK, Repo
  <2> QED BY <1>1, <2>1, <2>2, <2>3, TypedIs DEF Typed, TypeOK, PCS, ENDS
<1>3. AgentHours' /\ RefusalsAreCounted' /\ BranchIsBounded' /\ DefaultIsLeft'
  BY <1>1 DEF AgentHours, RefusalsAreCounted, ENDS, BranchIsBounded, DefaultIsLeft
<1>4. EvidenceIsOfTheWork' /\ ReviewIsOfTheWork' /\ AnswersOnTheWay' /\ OneAnswerPerQuestion'
  BY <1>1, WorkStays DEF AfterGather, ENDS
<1>5. PublicationIsOfTheBranch'
  BY <1>1 DEF PublicationIsOfTheBranch, RemoveWorktree, AfterGather, ENDS
<1> QED BY <1>2, <1>3, <1>4, <1>5

(* The agent is started, or what failed is preserved. *)
LEMMA StartAgentInv ==
  ASSUME Inv, StartAgent
  PROVE  Inv'
<1> USE DEF Inv
<1>1. /\ calls' \in [THREADS -> CallRecord] /\ late' = late /\ lost' = lost
      /\ calls'["ask"] = calls["ask"]
      /\ \A r \in Outstanding' : r.op = "review" => r \in Outstanding
  BY SendIs, ReceiveIs, JobRequests
  DEF StartAgent, Goes, Fails, Preserve, THREADS, Typed, Outstanding, networkVars
<1>2. UNCHANGED sessionVars /\ aborted' = aborted /\ repo' = repo
  BY DEF StartAgent, Goes, Fails, Preserve
<1>3. /\ pc = "open" /\ told' = told
      /\ \/ pc' = "preserving" /\ agent' = agent
         \/ pc' = "coding" /\ agent' = "working"
  <2>1. CASE Fails /\ UNCHANGED agentVars
    BY <2>1 DEF StartAgent, Fails, Preserve, agentVars
  <2>2. CASE agent' = "working" /\ UNCHANGED told /\ Goes("coding")
    BY <2>2 DEF StartAgent, Goes
  <2> QED BY <2>1, <2>2 DEF StartAgent
<1>4. /\ job' \in Job
      /\ job'.result = job.result /\ job'.refused = job.refused
      /\ job'.failed = job.failed /\ job'.unchanged = job.unchanged
      /\ job'.url = job.url
  BY CodingJobAssumption
  DEF Typed, TypeOK, Job, Repo, ENDS, BranchIsBounded, StartAgent, Goes, Fails, Preserve
<1>5. review' = NoReview /\ review'.recommended = FALSE /\ review'.attention = TRUE
  BY <1>2, <1>3 DEF ReviewIsOfTheWork, AfterGather, ENDS, NoReview, sessionVars
<1>6. Typed'
  <2>1. TypeOKSession'
    BY <1>1, <1>2, <1>3, <1>4, <1>5, SessionStays
  <2> QED BY <1>1, <1>2, <1>3, <1>4, <1>5, <2>1, TypedIs DEF Typed, TypeOK, PCS, ENDS, agentVars
<1>7. AgentHours' /\ RefusalsAreCounted' /\ BranchIsBounded' /\ DefaultIsLeft'
  BY <1>1, <1>2, <1>3, <1>4, <1>5
  DEF AgentHours, RefusalsAreCounted, ENDS, BranchIsBounded, DefaultIsLeft, agentVars
<1>8. EvidenceIsOfTheWork'
  BY <1>1, <1>2, <1>3, <1>4, <1>5
  DEF EvidenceIsOfTheWork, OfTheWork, AfterGather, ENDS, sessionVars, agentVars
<1>9. ReviewIsOfTheWork'
  BY <1>1, <1>2, <1>3, <1>4, <1>5 DEF ReviewIsOfTheWork, AfterGather, ENDS, sessionVars, agentVars
<1>10. AnswersOnTheWay'
  BY <1>1, <1>2, <1>3, <1>4, <1>5 DEF AnswersOnTheWay, sessionVars, agentVars
<1>11. OneAnswerPerQuestion'
  BY <1>1, <1>2, <1>3, <1>4, <1>5 DEF OneAnswerPerQuestion, sessionVars, agentVars
<1>12. PublicationIsOfTheBranch'
  BY <1>1, <1>2, <1>3, <1>4, <1>5
  DEF PublicationIsOfTheBranch, RemoveWorktree, AfterGather, ENDS, sessionVars, agentVars
<1> QED BY <1>6, <1>7, <1>8, <1>9, <1>10, <1>11, <1>12

(* Every line is counted before the job goes on. *)
LEMMA CancelledOrNotInv ==
  ASSUME Inv, CancelledOrNot
  PROVE  Inv'
<1> USE DEF Inv
<1>1. /\ calls' \in [THREADS -> CallRecord] /\ late' = late /\ lost' = lost
      /\ calls'["ask"] = calls["ask"]
      /\ \A r \in Outstanding' : r.op = "review" => r \in Outstanding
  BY SendIs, ReceiveIs, JobRequests
  DEF CancelledOrNot, Goes, Preserve, THREADS, Typed, Outstanding, networkVars
<1>2. UNCHANGED <<sessionVars, agentVars>> /\ aborted' = aborted /\ repo' = repo
  BY DEF CancelledOrNot, Goes, Preserve
<1>3. pc = "violations" /\ pc' \in {"preserving", "leftovers"} /\ job.refused = repo.attempts
  BY DEF CancelledOrNot, Goes, Preserve
<1>4. /\ job' \in Job
      /\ job'.result = job.result /\ job'.refused = job.refused
      /\ job'.failed = job.failed /\ job'.unchanged = job.unchanged
      /\ job'.url = job.url
  BY CodingJobAssumption
  DEF Typed, TypeOK, Job, Repo, ENDS, BranchIsBounded, CancelledOrNot, Goes, Preserve
<1>5. Typed'
  <2>1. TypeOKSession'
    BY <1>1, <1>2, <1>3, <1>4, SessionStays
  <2> QED BY <1>1, <1>2, <1>3, <1>4, <2>1, TypedIs DEF Typed, TypeOK, PCS, ENDS, agentVars
<1>6. AgentHours' /\ RefusalsAreCounted' /\ BranchIsBounded' /\ DefaultIsLeft'
  BY <1>1, <1>2, <1>3, <1>4
  DEF AgentHours, RefusalsAreCounted, ENDS, BranchIsBounded, DefaultIsLeft, agentVars
<1>7. EvidenceIsOfTheWork' /\ ReviewIsOfTheWork' /\ AnswersOnTheWay' /\ OneAnswerPerQuestion'
  BY <1>1, <1>2, <1>3, <1>4, WorkStays DEF AfterGather, ENDS
<1>8. PublicationIsOfTheBranch'
  BY <1>1, <1>2, <1>3, <1>4
  DEF PublicationIsOfTheBranch, RemoveWorktree, AfterGather, ENDS, sessionVars, agentVars
<1> QED BY <1>5, <1>6, <1>7, <1>8

(* What is left in the worktree is committed, or the job fails. *)
LEMMA CommitLeftoversInv ==
  ASSUME Inv, CommitLeftovers
  PROVE  Inv'
<1> USE DEF Inv
<1>1. /\ calls' \in [THREADS -> CallRecord] /\ late' = late /\ lost' = lost
      /\ calls'["ask"] = calls["ask"]
      /\ \A r \in Outstanding' : r.op = "review" => r \in Outstanding
  BY SendIs, ReceiveIs, JobRequests
  DEF CommitLeftovers, Goes, Fails, Preserve, THREADS, Typed, Outstanding, networkVars
<1>2. UNCHANGED <<sessionVars, agentVars>> /\ aborted' = aborted
  BY DEF CommitLeftovers, Goes, Fails, Preserve
<1>3. pc = "leftovers" /\ pc' \in {"preserving", "testing"}
  BY DEF CommitLeftovers, Goes, Fails, Preserve
<1>4. /\ job' \in Job
      /\ job'.result = job.result /\ job'.refused = job.refused
      /\ job'.failed = job.failed /\ job'.unchanged = job.unchanged
      /\ job'.url = job.url
  BY CodingJobAssumption
  DEF Typed, TypeOK, Job, Repo, ENDS, BranchIsBounded, CommitLeftovers, Goes, Fails, Preserve
<1>5. /\ repo' \in Repo
      /\ repo'.head = repo.head /\ repo'.moved = repo.moved
      /\ repo'.attempts = repo.attempts /\ repo'.pushed = repo.pushed
      /\ repo'.published = repo.published /\ repo'.removed = repo.removed
  <2>1. repo' = repo \/ repo' = Commits(repo)
    BY DEF CommitLeftovers
  <2>2. repo.tip <= MaxCommits /\ repo.head # "default" /\ repo \in Repo
    BY <1>3 DEF BranchIsBounded, DefaultIsLeft, Typed, TypeOK
  <2> QED BY <2>1, <2>2, CommitsIs
<1>6. ~job.url
  BY <1>3 DEF PublicationIsOfTheBranch, AfterGather, ENDS
<1>7. Typed'
  <2>1. TypeOKSession'
    BY <1>1, <1>2, <1>3, <1>4, <1>5, <1>6, SessionStays
  <2> QED BY <1>1, <1>2, <1>3, <1>4, <1>5, <1>6, <2>1, TypedIs DEF Typed, TypeOK, PCS, ENDS, agentVars
<1>8. AgentHours' /\ RefusalsAreCounted' /\ BranchIsBounded' /\ DefaultIsLeft'
  BY <1>1, <1>2, <1>3, <1>4, <1>5, <1>6
  DEF AgentHours, RefusalsAreCounted, ENDS, BranchIsBounded, DefaultIsLeft, agentVars
<1>9. EvidenceIsOfTheWork' /\ ReviewIsOfTheWork' /\ AnswersOnTheWay' /\ OneAnswerPerQuestion'
  BY <1>1, <1>2, <1>3, <1>4, <1>5, <1>6, WorkStays DEF AfterGather, ENDS
<1>10. PublicationIsOfTheBranch'
  BY <1>1, <1>2, <1>3, <1>4, <1>5, <1>6
  DEF PublicationIsOfTheBranch, RemoveWorktree, AfterGather, ENDS, sessionVars, agentVars
<1> QED BY <1>7, <1>8, <1>9, <1>10

(* The project's commands may leave files behind. *)
LEMMA RunProjectCommandsInv ==
  ASSUME Inv, RunProjectCommands
  PROVE  Inv'
<1> USE DEF Inv
<1>1. /\ calls' \in [THREADS -> CallRecord] /\ late' = late /\ lost' = lost
      /\ calls'["ask"] = calls["ask"]
      /\ \A r \in Outstanding' : r.op = "review" => r \in Outstanding
  BY DEF RunProjectCommands, Typed, Outstanding, networkVars
<1>2. UNCHANGED <<sessionVars, agentVars>> /\ aborted' = aborted
  BY DEF RunProjectCommands
<1>3. pc = "testing" /\ pc' = "verifying"
  BY DEF RunProjectCommands
<1>4. /\ job' \in Job
      /\ job'.result = job.result /\ job'.refused = job.refused
      /\ job'.unchanged = job.unchanged /\ job'.url = job.url
  BY CodingJobAssumption DEF Typed, TypeOK, Job, Repo, ENDS, BranchIsBounded, RunProjectCommands
<1>5. /\ repo' \in Repo
      /\ repo'.tip = repo.tip /\ repo'.branch = repo.branch
      /\ repo'.head = repo.head /\ repo'.moved = repo.moved
      /\ repo'.attempts = repo.attempts /\ repo'.pushed = repo.pushed
      /\ repo'.published = repo.published /\ repo'.removed = repo.removed
  BY CodingJobAssumption DEF Typed, TypeOK, Job, Repo, ENDS, BranchIsBounded, RunProjectCommands
<1>6. ~job.url
  BY <1>3 DEF PublicationIsOfTheBranch, AfterGather, ENDS
<1>7. Typed'
  <2>1. TypeOKSession'
    BY <1>1, <1>2, <1>3, <1>4, <1>5, <1>6, SessionStays
  <2> QED BY <1>1, <1>2, <1>3, <1>4, <1>5, <1>6, <2>1, TypedIs DEF Typed, TypeOK, PCS, ENDS, agentVars
<1>8. AgentHours' /\ RefusalsAreCounted' /\ BranchIsBounded' /\ DefaultIsLeft'
  BY <1>1, <1>2, <1>3, <1>4, <1>5, <1>6
  DEF AgentHours, RefusalsAreCounted, ENDS, BranchIsBounded, DefaultIsLeft, agentVars
<1>9. EvidenceIsOfTheWork' /\ ReviewIsOfTheWork' /\ AnswersOnTheWay' /\ OneAnswerPerQuestion'
  BY <1>1, <1>2, <1>3, <1>4, <1>5, <1>6, WorkStays DEF AfterGather, ENDS
<1>10. PublicationIsOfTheBranch'
  BY <1>1, <1>2, <1>3, <1>4, <1>5, <1>6
  DEF PublicationIsOfTheBranch, RemoveWorktree, AfterGather, ENDS, sessionVars, agentVars
<1> QED BY <1>7, <1>8, <1>9, <1>10

(* The default branch is looked at. *)
LEMMA VerifyInv ==
  ASSUME Inv, VerifyDefaultBranchUnchanged
  PROVE  Inv'
<1> USE DEF Inv
<1>1. /\ calls' \in [THREADS -> CallRecord] /\ late' = late /\ lost' = lost
      /\ calls'["ask"] = calls["ask"]
      /\ \A r \in Outstanding' : r.op = "review" => r \in Outstanding
  BY DEF VerifyDefaultBranchUnchanged, Typed, Outstanding, networkVars
<1>2. UNCHANGED <<sessionVars, agentVars>> /\ aborted' = aborted /\ repo' = repo
  BY DEF VerifyDefaultBranchUnchanged
<1>3. pc = "verifying" /\ pc' = "gather"
  BY DEF VerifyDefaultBranchUnchanged
<1>4. /\ job' \in Job
      /\ job'.result = job.result /\ job'.refused = job.refused
      /\ job'.failed = job.failed /\ job'.url = job.url
  <2>1. PICK unchanged \in IF aborted \/ repo.moved THEN {FALSE} ELSE BOOLEAN :
           job' = [job EXCEPT !.unchanged = unchanged]
    BY DEF VerifyDefaultBranchUnchanged
  <2>2. unchanged \in BOOLEAN
    OBVIOUS
  <2>3. job \in Job
    BY DEF Typed, TypeOK
  <2> QED BY <2>1, <2>2, <2>3 DEF Job
<1>5. Typed'
  <2>1. TypeOKSession'
    BY <1>1, <1>2, <1>3, <1>4, SessionStays
  <2> QED BY <1>1, <1>2, <1>3, <1>4, <2>1, TypedIs DEF Typed, TypeOK, PCS, ENDS, agentVars
<1>6. AgentHours' /\ RefusalsAreCounted' /\ BranchIsBounded' /\ DefaultIsLeft'
  BY <1>1, <1>2, <1>3, <1>4
  DEF AgentHours, RefusalsAreCounted, ENDS, BranchIsBounded, DefaultIsLeft, agentVars
<1>7. EvidenceIsOfTheWork' /\ ReviewIsOfTheWork' /\ AnswersOnTheWay' /\ OneAnswerPerQuestion'
  BY <1>1, <1>2, <1>3, <1>4, WorkStays DEF AfterGather, ENDS
<1>8. PublicationIsOfTheBranch'
  BY <1>1, <1>2, <1>3, <1>4
  DEF PublicationIsOfTheBranch, RemoveWorktree, AfterGather, ENDS, sessionVars, agentVars
<1> QED BY <1>5, <1>6, <1>7, <1>8

(* What is collected is of the work. *)
LEMMA CollectEvidenceInv ==
  ASSUME Inv, CollectEvidence
  PROVE  Inv'
<1> USE DEF Inv
<1>1. PICK e \in Evidence : Send("job", [op |-> "review", evidence |-> e]) /\ OfTheWork(e)
  <2>1. PICK commits \in {repo.tip} \cup (IF aborted THEN {0} ELSE {}),
             dirty \in {repo.dirty} \cup (IF aborted THEN {FALSE} ELSE {}) :
          Send("job", [op |-> "review",
                       evidence |-> [commits |-> commits, dirty |-> dirty, prohibited |-> job.refused,
                                     failed |-> job.failed, unchanged |-> job.unchanged]])
    BY DEF CollectEvidence
  <2> DEFINE e == [commits |-> commits, dirty |-> dirty, prohibited |-> job.refused,
                   failed |-> job.failed, unchanged |-> job.unchanged]
  <2>2. repo \in Repo /\ job \in Job
    BY DEF Typed, TypeOK
  <2>3. e \in Evidence
    <3>1. commits \in Nat
      <4>1. repo.tip \in 0..MaxCommits + 1
        BY <2>2 DEF Repo
      <4>2. repo.tip \in Nat
        BY <4>1, CodingJobAssumption
      <4> QED BY <4>2
    <3>2. dirty \in BOOLEAN
      <4>1. repo.dirty \in BOOLEAN
        BY <2>2 DEF Repo
      <4> QED BY <4>1
    <3>3. job.refused \in Nat /\ job.failed \in BOOLEAN /\ job.unchanged \in BOOLEAN
      BY <2>2, CodingJobAssumption DEF Job
    <3> QED BY <3>1, <3>2, <3>3 DEF Evidence
  <2>4. OfTheWork(e)
    <3>1. job.refused = repo.attempts
      BY DEF CollectEvidence, RefusalsAreCounted
    <3> QED BY <3>1 DEF OfTheWork
  <2> QED BY <2>1, <2>3, <2>4
<1>2. /\ calls' \in [THREADS -> CallRecord] /\ late' = late /\ lost' = lost
      /\ calls'["ask"] = calls["ask"]
      /\ Outstanding' \subseteq Outstanding \cup {[op |-> "review", evidence |-> e]}
  BY <1>1, SendIs, JobRequests DEF THREADS
<1>3. UNCHANGED <<sessionVars, agentVars, aborted, job, repo>> /\ pc = "gather" /\ pc' = "reviewing"
  BY DEF CollectEvidence, Goes
<1>4. review = NoReview /\ review.recommended = FALSE /\ review.attention = TRUE
  BY <1>3 DEF ReviewIsOfTheWork, AfterGather, ENDS, NoReview
<1>5. Typed'
  <2>1. TypeOKSession'
    BY <1>1, <1>2, <1>3, <1>4, SessionStays
  <2> QED BY <1>1, <1>2, <1>3, <1>4, <2>1, TypedIs DEF Typed, TypeOK, PCS, ENDS, agentVars
<1>6. AgentHours' /\ RefusalsAreCounted' /\ BranchIsBounded' /\ DefaultIsLeft'
  BY <1>1, <1>2, <1>3, <1>4
  DEF AgentHours, RefusalsAreCounted, ENDS, BranchIsBounded, DefaultIsLeft, agentVars
<1>7. EvidenceIsOfTheWork'
  BY <1>1, <1>2, <1>3, <1>4
  DEF EvidenceIsOfTheWork, OfTheWork, AfterGather, ENDS, sessionVars, agentVars
<1>8. ReviewIsOfTheWork'
  BY <1>1, <1>2, <1>3, <1>4 DEF ReviewIsOfTheWork, AfterGather, ENDS, sessionVars, agentVars
<1>9. AnswersOnTheWay'
  BY <1>1, <1>2, <1>3, <1>4 DEF AnswersOnTheWay, sessionVars, agentVars
<1>10. OneAnswerPerQuestion'
  BY <1>1, <1>2, <1>3, <1>4 DEF OneAnswerPerQuestion, sessionVars, agentVars
<1>11. PublicationIsOfTheBranch'
  BY <1>1, <1>2, <1>3, <1>4
  DEF PublicationIsOfTheBranch, RemoveWorktree, AfterGather, ENDS, sessionVars, agentVars
<1> QED BY <1>5, <1>6, <1>7, <1>8, <1>9, <1>10, <1>11

(* Only a review that was recorded, and recommends it, leads to a push. *)
LEMMA ReviewedInv ==
  ASSUME Inv, Reviewed
  PROVE  Inv'
<1> USE DEF Inv
<1>1. /\ calls' \in [THREADS -> CallRecord] /\ late' = late /\ lost' = lost
      /\ calls'["ask"] = calls["ask"]
      /\ \A r \in Outstanding' : r.op = "review" => r \in Outstanding
  BY SendIs, ReceiveIs, JobRequests
  DEF Reviewed, Goes, Fails, Preserve, THREADS, Typed, Outstanding, networkVars
<1>2. UNCHANGED <<sessionVars, agentVars>> /\ aborted' = aborted /\ repo' = repo
  BY DEF Reviewed, Goes, Fails, Preserve
<1>3. /\ pc = "reviewing"
      /\ pc' \in {"preserving", "release"} \/ (pc' = "push" /\ review.recommended)
  BY DEF Reviewed, Goes, Fails, Preserve
<1>4. /\ job' \in Job
      /\ job'.result = job.result /\ job'.refused = job.refused
      /\ job'.failed = job.failed /\ job'.unchanged = job.unchanged
      /\ job'.url = job.url
  BY CodingJobAssumption
  DEF Typed, TypeOK, Job, Repo, ENDS, BranchIsBounded, Reviewed, Goes, Fails, Preserve
<1>5. Typed'
  <2>1. TypeOKSession'
    BY <1>1, <1>2, <1>3, <1>4, SessionStays
  <2> QED BY <1>1, <1>2, <1>3, <1>4, <2>1, TypedIs DEF Typed, TypeOK, PCS, ENDS, agentVars
<1>6. AgentHours' /\ RefusalsAreCounted' /\ BranchIsBounded' /\ DefaultIsLeft'
  BY <1>1, <1>2, <1>3, <1>4
  DEF AgentHours, RefusalsAreCounted, ENDS, BranchIsBounded, DefaultIsLeft, agentVars
<1>7. EvidenceIsOfTheWork' /\ ReviewIsOfTheWork' /\ AnswersOnTheWay' /\ OneAnswerPerQuestion'
  BY <1>1, <1>2, <1>3, <1>4, WorkStays DEF AfterGather, ENDS
<1>8. PublicationIsOfTheBranch'
  BY <1>1, <1>2, <1>3, <1>4
  DEF PublicationIsOfTheBranch, RemoveWorktree, AfterGather, ENDS, sessionVars, agentVars
<1> QED BY <1>5, <1>6, <1>7, <1>8

(* What is pushed is the branch, and not after a stop. *)
LEMMA PushTaskBranchInv ==
  ASSUME Inv, PushTaskBranch
  PROVE  Inv'
<1> USE DEF Inv
<1>1. /\ calls' \in [THREADS -> CallRecord] /\ late' = late /\ lost' = lost
      /\ calls'["ask"] = calls["ask"]
      /\ \A r \in Outstanding' : r.op = "review" => r \in Outstanding
  BY DEF PushTaskBranch, Typed, Outstanding, networkVars
<1>2. UNCHANGED <<sessionVars, agentVars>> /\ aborted' = aborted /\ job' = job
  BY DEF PushTaskBranch, Goes
<1>3. /\ pc = "push"
      /\ pc' = "release" \/ (pc' = "create" /\ ~aborted /\ repo'.pushed = repo'.branch)
  BY DEF PushTaskBranch, Goes, Typed, TypeOK, Repo
<1>4. /\ repo' \in Repo
      /\ repo'.tip = repo.tip /\ repo'.branch = repo.branch
      /\ repo'.head = repo.head /\ repo'.dirty = repo.dirty
      /\ repo'.moved = repo.moved /\ repo'.attempts = repo.attempts
      /\ repo'.published = repo.published /\ repo'.removed = repo.removed
  BY CodingJobAssumption DEF Typed, TypeOK, Job, Repo, ENDS, BranchIsBounded, PushTaskBranch
<1>5. ~job.url
  BY <1>3 DEF PublicationIsOfTheBranch, AfterGather, ENDS
<1>6. Typed'
  <2>1. TypeOKSession'
    BY <1>1, <1>2, <1>3, <1>4, <1>5, SessionStays
  <2> QED BY <1>1, <1>2, <1>3, <1>4, <1>5, <2>1, TypedIs DEF Typed, TypeOK, PCS, ENDS, agentVars
<1>7. AgentHours' /\ RefusalsAreCounted' /\ BranchIsBounded' /\ DefaultIsLeft'
  BY <1>1, <1>2, <1>3, <1>4, <1>5
  DEF AgentHours, RefusalsAreCounted, ENDS, BranchIsBounded, DefaultIsLeft, agentVars
<1>8. EvidenceIsOfTheWork' /\ ReviewIsOfTheWork' /\ AnswersOnTheWay' /\ OneAnswerPerQuestion'
  BY <1>1, <1>2, <1>3, <1>4, <1>5, WorkStays DEF AfterGather, ENDS
<1>9. PublicationIsOfTheBranch'
  BY <1>1, <1>2, <1>3, <1>4, <1>5
  DEF PublicationIsOfTheBranch, RemoveWorktree, AfterGather, ENDS, sessionVars, agentVars
<1> QED BY <1>6, <1>7, <1>8, <1>9

(* A pull request is opened for what was pushed. *)
LEMMA CreatePullRequestInv ==
  ASSUME Inv, CreatePullRequest
  PROVE  Inv'
<1> USE DEF Inv
<1>1. /\ calls' \in [THREADS -> CallRecord] /\ late' = late /\ lost' = lost
      /\ calls'["ask"] = calls["ask"]
      /\ \A r \in Outstanding' : r.op = "review" => r \in Outstanding
  BY SendIs, JobRequests DEF CreatePullRequest, Goes, THREADS, Typed, Outstanding, networkVars
<1>2. UNCHANGED <<sessionVars, agentVars>> /\ aborted' = aborted
  BY DEF CreatePullRequest, Goes
<1>3. /\ job' \in Job
      /\ job'.result = job.result /\ job'.refused = job.refused
      /\ job'.failed = job.failed /\ job'.unchanged = job.unchanged
  BY CodingJobAssumption
  DEF Typed, TypeOK, Job, Repo, ENDS, BranchIsBounded, CreatePullRequest, Goes
<1>4. /\ repo' \in Repo
      /\ repo'.tip = repo.tip /\ repo'.branch = repo.branch
      /\ repo'.head = repo.head /\ repo'.dirty = repo.dirty
      /\ repo'.moved = repo.moved /\ repo'.attempts = repo.attempts
      /\ repo'.pushed = repo.pushed /\ repo'.removed = repo.removed
  BY ZenonT(60), CodingJobAssumption DEF Typed, TypeOK, Job, Repo, ENDS, BranchIsBounded, CreatePullRequest
<1>5. /\ pc = "create"
      /\ \/ pc' = "release" /\ job' = job /\ repo' = repo
         \/ pc' = "recording" /\ job'.url /\ repo'.published /\ repo.pushed > 0
  BY DEF CreatePullRequest, Goes, Typed, TypeOK, Job, Repo
<1>6. ~job.url
  BY <1>5 DEF PublicationIsOfTheBranch, AfterGather, ENDS
<1>7. Typed'
  <2>1. TypeOKSession'
    BY <1>1, <1>2, <1>3, <1>4, <1>5, <1>6, SessionStays
  <2> QED BY <1>1, <1>2, <1>3, <1>4, <1>5, <1>6, <2>1, TypedIs DEF Typed, TypeOK, PCS, ENDS, agentVars
<1>8. AgentHours' /\ RefusalsAreCounted' /\ BranchIsBounded' /\ DefaultIsLeft'
  BY <1>1, <1>2, <1>3, <1>4, <1>5, <1>6
  DEF AgentHours, RefusalsAreCounted, ENDS, BranchIsBounded, DefaultIsLeft, agentVars
<1>9. EvidenceIsOfTheWork' /\ ReviewIsOfTheWork' /\ AnswersOnTheWay' /\ OneAnswerPerQuestion'
  BY <1>1, <1>2, <1>3, <1>4, <1>5, <1>6, WorkStays DEF AfterGather, ENDS
<1>10. PublicationIsOfTheBranch'
  BY <1>1, <1>2, <1>3, <1>4, <1>5, <1>6
  DEF PublicationIsOfTheBranch, RemoveWorktree, AfterGather, ENDS, sessionVars, agentVars
<1> QED BY <1>7, <1>8, <1>9, <1>10

(* A worktree is removed only when nothing in it is needed. *)
LEMMA ReleasedInv ==
  ASSUME Inv, Released
  PROVE  Inv'
<1> USE DEF Inv
<1>1. /\ calls' \in [THREADS -> CallRecord] /\ late' = late /\ lost' = lost
      /\ calls'["ask"] = calls["ask"]
      /\ \A r \in Outstanding' : r.op = "review" => r \in Outstanding
  BY SendIs, ReceiveIs, JobRequests
  DEF Released, Goes, Fails, Preserve, THREADS, Typed, Outstanding, networkVars
<1>2. UNCHANGED <<sessionVars, agentVars>> /\ aborted' = aborted
  BY DEF Released, Goes, Fails, Preserve
<1>3. pc = "releasing" /\ pc' \in {"preserving", "done"}
  BY DEF Released, Goes, Fails, Preserve
<1>4. /\ job' \in Job
      /\ job'.result = job.result /\ job'.refused = job.refused
      /\ job'.failed = job.failed /\ job'.unchanged = job.unchanged
      /\ job'.url = job.url
  BY CodingJobAssumption
  DEF Typed, TypeOK, Job, Repo, ENDS, BranchIsBounded, Released, Goes, Fails, Preserve
<1>5. /\ repo' \in Repo /\ repo'.removed = RemoveWorktree
      /\ repo'.tip = repo.tip /\ repo'.branch = repo.branch
      /\ repo'.head = repo.head /\ repo'.dirty = repo.dirty
      /\ repo'.moved = repo.moved /\ repo'.attempts = repo.attempts
      /\ repo'.pushed = repo.pushed /\ repo'.published = repo.published
  <2>1. RemoveWorktree \in BOOLEAN
    BY DEF RemoveWorktree
  <2> QED BY <2>1 DEF Released, Typed, TypeOK, Repo
<1>6. Typed'
  <2>1. TypeOKSession'
    BY <1>1, <1>2, <1>3, <1>4, <1>5, SessionStays
  <2> QED BY <1>1, <1>2, <1>3, <1>4, <1>5, <2>1, TypedIs DEF Typed, TypeOK, PCS, ENDS, agentVars
<1>7. AgentHours' /\ RefusalsAreCounted' /\ BranchIsBounded' /\ DefaultIsLeft'
  BY <1>1, <1>2, <1>3, <1>4, <1>5
  DEF AgentHours, RefusalsAreCounted, ENDS, BranchIsBounded, DefaultIsLeft, agentVars
<1>8. EvidenceIsOfTheWork' /\ ReviewIsOfTheWork' /\ AnswersOnTheWay' /\ OneAnswerPerQuestion'
  BY <1>1, <1>2, <1>3, <1>4, <1>5, WorkStays DEF AfterGather, ENDS
<1>9. PublicationIsOfTheBranch'
  BY <1>1, <1>2, <1>3, <1>4, <1>5
  DEF PublicationIsOfTheBranch, RemoveWorktree, AfterGather, ENDS, sessionVars, agentVars
<1> QED BY <1>6, <1>7, <1>8, <1>9

(* What was preserved ends the job. *)
LEMMA PreservedInv ==
  ASSUME Inv, Preserved
  PROVE  Inv'
<1> USE DEF Inv
<1>1. /\ calls' \in [THREADS -> CallRecord] /\ late' = late /\ lost' = lost
      /\ calls'["ask"] = calls["ask"]
      /\ \A r \in Outstanding' : r.op = "review" => r \in Outstanding
  BY ReceiveIs, JobRequests DEF Preserved, Goes, THREADS, Typed, Outstanding, networkVars
<1>2. UNCHANGED <<sessionVars, agentVars, aborted, job, repo>>
  BY DEF Preserved, Goes
<1>3. pc = "preserving" /\ pc' \in ENDS
  BY DEF Preserved, Goes, Typed, TypeOK, Job
<1>4. Typed'
  <2>1. TypeOKSession'
    BY <1>1, <1>2, <1>3, SessionStays
  <2> QED BY <1>1, <1>2, <1>3, <2>1, TypedIs DEF Typed, TypeOK, PCS, ENDS, agentVars
<1>5. AgentHours' /\ RefusalsAreCounted' /\ BranchIsBounded' /\ DefaultIsLeft'
  BY <1>1, <1>2, <1>3
  DEF AgentHours, RefusalsAreCounted, ENDS, BranchIsBounded, DefaultIsLeft, agentVars
<1>6. EvidenceIsOfTheWork' /\ ReviewIsOfTheWork' /\ AnswersOnTheWay' /\ OneAnswerPerQuestion'
  BY <1>1, <1>2, <1>3, WorkStays DEF AfterGather, ENDS
<1>7. PublicationIsOfTheBranch'
  BY <1>1, <1>2, <1>3
  DEF PublicationIsOfTheBranch, RemoveWorktree, AfterGather, ENDS, sessionVars, agentVars
<1> QED BY <1>4, <1>5, <1>6, <1>7

(* The run ends without its worker. *)
LEMMA EndsInv ==
  ASSUME Inv, Ends
  PROVE  Inv'
<1> USE DEF Inv, Ends, RunEnds, sessionVars, networkVars, workerVars, agentVars
<1>1. /\ calls' \in [THREADS -> CallRecord] /\ late' = late /\ lost' = lost
      /\ calls'["ask"] = calls["ask"] /\ Outstanding' = Outstanding
  BY DEF Typed, Outstanding
<1>2. Typed'
  <2>1. TypeOKSession'
    BY DEF Typed, TypeOK, TypeOKSession
  <2> QED BY <1>1, <2>1, TypedIs DEF Typed, TypeOK
<1>3. AgentHours' /\ RefusalsAreCounted' /\ BranchIsBounded' /\ DefaultIsLeft'
  BY <1>1 DEF AgentHours, RefusalsAreCounted, ENDS, BranchIsBounded, DefaultIsLeft
<1>4. EvidenceIsOfTheWork' /\ ReviewIsOfTheWork' /\ AnswersOnTheWay' /\ OneAnswerPerQuestion'
  BY <1>1
  DEF EvidenceIsOfTheWork, OfTheWork, ReviewIsOfTheWork, AnswersOnTheWay, OneAnswerPerQuestion
<1>5. PublicationIsOfTheBranch'
  BY <1>1 DEF PublicationIsOfTheBranch, RemoveWorktree, AfterGather, ENDS
<1> QED BY <1>2, <1>3, <1>4, <1>5

-----------------------------------------------------------------------------
(* The agent, which works while the job waits for it.                      *)

(* What the shim lets through keeps the default branch, and stays within the bound. *)
LEMMA GitKeepsClone ==
  ASSUME NEW c \in Command, CheckGitCommand(c, ShimPolicy), NEW clone \in Repo,
         clone.tip <= MaxCommits, clone.branch <= MaxCommits,
         ~clone.moved, clone.head # "default",
         NEW new \in GitDoes(c, clone, MaxCommits)
  PROVE  /\ new \in Repo /\ new.tip <= MaxCommits /\ new.branch <= MaxCommits
         /\ ~new.moved /\ new.head # "default"
         /\ new.attempts = clone.attempts /\ new.pushed = clone.pushed
         /\ new.published = clone.published /\ new.removed = clone.removed
<1>1. /\ clone.tip \in 0..MaxCommits /\ clone.branch \in 0..MaxCommits
      /\ 0..MaxCommits \subseteq 0..MaxCommits + 1 /\ clone.head \in BRANCHES
      /\ clone.moved = FALSE
  BY CodingJobAssumption DEF Repo
<1> DEFINE Kept(r) == /\ r \in Repo /\ r.tip <= MaxCommits /\ r.branch <= MaxCommits
                      /\ ~r.moved /\ r.head # "default"
                      /\ r.attempts = clone.attempts /\ r.pushed = clone.pushed
                      /\ r.published = clone.published /\ r.removed = clone.removed
<1>2. ASSUME NEW n \in 0..MaxCommits
      PROVE  Kept(MovesTo(clone, n))
  <2>1. n \in 0..MaxCommits + 1 /\ n <= MaxCommits
    BY CodingJobAssumption
  <2>2. (clone.moved \/ clone.head = "default") = FALSE
    BY <1>1
  <2> QED BY <1>1, <2>1, <2>2 DEF MovesTo, Repo
<1>3. CASE c.sub = "commit"
  <2>1. new = Commits(clone) /\ clone.tip + 1 \in 0..MaxCommits
    BY <1>1, <1>3, CodingJobAssumption DEF GitDoes
  <2>2. Kept(MovesTo(clone, clone.tip + 1))
    BY <1>2, <2>1
  <2> DEFINE m == MovesTo(clone, clone.tip + 1)
  <2>3. Kept(m) /\ new = [m EXCEPT !.dirty = FALSE]
    BY <2>1, <2>2 DEF Commits
  <2> HIDE DEF m
  <2> QED BY <2>3 DEF Repo
<1>4. CASE c.sub = "checkout"
  <2>1. PICK b \in c.refs \ {"HEAD"} :
          new \in IF "create" \in c.options
                  THEN {[clone EXCEPT !.head = b, !.branch = IF b = "task" THEN clone.tip ELSE @,
                                      !.moved = @ \/ b = "default"]}
                  ELSE CASE b = "task" -> {[clone EXCEPT !.head = b, !.tip = clone.branch]}
                         [] b = "default" -> {[clone EXCEPT !.head = b, !.tip = 0]}
                         [] OTHER -> {[clone EXCEPT !.head = b, !.tip = n] : n \in 0..clone.tip}
    BY <1>4 DEF GitDoes, ChecksOut
  <2>2. b \in BRANCHES /\ b # "default" /\ (clone.moved \/ b = "default") = FALSE
    BY <1>1, <1>4, <2>1 DEF CheckGitCommand, CheckCheckout, Command
  <2>3. CASE "create" \in c.options
    <3>1. new = [clone EXCEPT !.head = b, !.branch = IF b = "task" THEN clone.tip ELSE @,
                              !.moved = @ \/ b = "default"]
      BY <2>1, <2>3
    <3> QED BY <1>1, <2>2, <3>1 DEF Repo
  <2>4. CASE "create" \notin c.options /\ b = "task"
    <3>1. new = [clone EXCEPT !.head = b, !.tip = clone.branch]
      BY <2>1, <2>4
    <3> QED BY <1>1, <2>2, <3>1 DEF Repo
  <2>5. CASE "create" \notin c.options /\ b # "task"
    <3>1. PICK n \in 0..clone.tip : new = [clone EXCEPT !.head = b, !.tip = n]
      BY <2>1, <2>5, <2>2
    <3>2. n \in 0..MaxCommits + 1 /\ n <= MaxCommits
      BY <1>1, CodingJobAssumption
    <3> QED BY <1>1, <2>2, <3>1, <3>2 DEF Repo
  <2> QED BY <2>3, <2>4, <2>5
<1>5. CASE c.sub \in {"merge", "rebase"}
  <2>1. PICK n \in clone.tip..MaxCommits : new = MovesTo(clone, n)
    BY <1>5 DEF GitDoes
  <2>2. n \in 0..MaxCommits
    BY <1>1, CodingJobAssumption
  <2> QED BY <1>2, <2>1, <2>2
<1>6. CASE c.sub = "reset"
  <2>1. PICK n \in 0..clone.tip :
          new = [MovesTo(clone, n) EXCEPT !.dirty = @ /\ "hard" \notin c.options]
    BY <1>6 DEF GitDoes
  <2>2. n \in 0..MaxCommits
    BY <1>1, CodingJobAssumption
  <2>3. Kept(MovesTo(clone, n))
    BY <1>2, <2>2
  <2> DEFINE m == MovesTo(clone, n)
  <2>4. Kept(m) /\ new = [m EXCEPT !.dirty = @ /\ "hard" \notin c.options]
    BY <2>1, <2>3
  <2> HIDE DEF m
  <2>5. (m.dirty /\ "hard" \notin c.options) \in BOOLEAN
    OBVIOUS
  <2> QED BY <2>4, <2>5 DEF Repo
<1>7. CASE c.sub = "ref-write" \/ (c.sub = "branch" /\ c.options \cap {"delete", "force"} # {})
  <2>1. "default" \notin c.refs
    BY <1>7 DEF CheckGitCommand, CheckRefWrite, CheckBranch
  <2>2. new \in MovesBranches(c, clone)
    BY <1>7 DEF GitDoes
  <2>3. PICK n \in 0..clone.tip :
          new = [clone EXCEPT
                   !.branch = IF "task" \in c.refs /\ clone.head # "task" THEN n ELSE @,
                   !.moved = @ \/ ("default" \in c.refs /\ clone.head # "default")]
    BY <2>2 DEF MovesBranches
  <2>4. n \in 0..MaxCommits + 1 /\ n <= MaxCommits
    BY <1>1, CodingJobAssumption
  <2>5. (clone.moved \/ ("default" \in c.refs /\ clone.head # "default")) = FALSE
    BY <1>1, <2>1
  <2> QED BY <1>1, <2>3, <2>4, <2>5 DEF Repo
<1>8. CASE /\ c.sub \notin {"commit", "checkout", "merge", "rebase", "reset", "ref-write"}
           /\ ~(c.sub = "branch" /\ c.options \cap {"delete", "force"} # {})
  <2>1. new = clone
    BY <1>8 DEF GitDoes
  <2> QED BY <2>1, <1>1
<1> QED BY <1>3, <1>4, <1>5, <1>6, <1>7, <1>8

(* An edit leaves the worktree dirty. *)
LEMMA EditInv ==
  ASSUME Inv, Edit
  PROVE  Inv'
<1> USE DEF Inv
<1>1. /\ calls' \in [THREADS -> CallRecord] /\ late' = late /\ lost' = lost
      /\ calls'["ask"] = calls["ask"]
      /\ \A r \in Outstanding' : r.op = "review" => r \in Outstanding
  BY DEF Edit, AgentSteps, Typed, Outstanding, networkVars
<1>2. UNCHANGED <<sessionVars, agentVars, workerVars>>
  BY DEF Edit, AgentSteps
<1>3. /\ pc = "coding" /\ pc' = pc /\ aborted' = aborted /\ job' = job /\ job \in Job
  BY <1>2 DEF AgentHours, Edit, workerVars, Typed, TypeOK
<1>4. /\ repo' \in Repo
      /\ repo'.tip = repo.tip /\ repo'.branch = repo.branch
      /\ repo'.head = repo.head /\ repo'.moved = repo.moved
      /\ repo'.attempts = repo.attempts /\ repo'.pushed = repo.pushed
      /\ repo'.published = repo.published /\ repo'.removed = repo.removed
  BY CodingJobAssumption DEF Typed, TypeOK, Job, Repo, ENDS, BranchIsBounded, Edit
<1>5. ~job.url
  BY <1>3 DEF PublicationIsOfTheBranch, AfterGather, ENDS
<1>6. Typed'
  <2>1. TypeOKSession'
    BY <1>1, <1>2, <1>3, <1>4, <1>5, SessionStays
  <2> QED BY <1>1, <1>2, <1>3, <1>4, <1>5, <2>1, TypedIs DEF Typed, TypeOK, PCS, ENDS, agentVars
<1>7. AgentHours' /\ RefusalsAreCounted' /\ BranchIsBounded' /\ DefaultIsLeft'
  BY <1>1, <1>2, <1>3, <1>4, <1>5
  DEF AgentHours, RefusalsAreCounted, ENDS, BranchIsBounded, DefaultIsLeft, agentVars
<1>8. EvidenceIsOfTheWork' /\ ReviewIsOfTheWork' /\ AnswersOnTheWay' /\ OneAnswerPerQuestion'
  BY <1>1, <1>2, <1>3, <1>4, <1>5, WorkStays DEF AfterGather, ENDS
<1>9. PublicationIsOfTheBranch'
  BY <1>1, <1>2, <1>3, <1>4, <1>5
  DEF PublicationIsOfTheBranch, RemoveWorktree, AfterGather, ENDS, sessionVars, agentVars
<1> QED BY <1>6, <1>7, <1>8, <1>9

(* The agent's git keeps the default branch. *)
LEMMA AgentGitInv ==
  ASSUME Inv, NEW c \in Commands, AgentGit(c)
  PROVE  Inv'
<1> USE DEF Inv
<1>1. /\ calls' \in [THREADS -> CallRecord] /\ late' = late /\ lost' = lost
      /\ calls'["ask"] = calls["ask"]
      /\ \A r \in Outstanding' : r.op = "review" => r \in Outstanding
  BY DEF AgentGit, AgentSteps, Typed, Outstanding, networkVars
<1>2. UNCHANGED <<sessionVars, agentVars, workerVars>>
  BY DEF AgentGit, AgentSteps
<1>3. /\ pc = "coding" /\ pc' = pc /\ aborted' = aborted /\ job' = job /\ job \in Job
  BY <1>2 DEF AgentHours, AgentGit, workerVars, Typed, TypeOK
<1>4. /\ repo' \in Repo /\ repo'.tip <= MaxCommits /\ repo'.branch <= MaxCommits
      /\ ~repo'.moved /\ repo'.head # "default"
      /\ repo'.pushed = repo.pushed /\ repo'.published = repo.published
      /\ repo'.removed = repo.removed
  <2>1. /\ repo \in Repo /\ repo.tip <= MaxCommits /\ repo.branch <= MaxCommits
        /\ ~repo.moved /\ repo.head # "default" /\ c \in Command
    BY <1>3, CodingJobAssumption DEF Typed, TypeOK, BranchIsBounded, DefaultIsLeft
  <2>2. CASE CheckGitCommand(c, ShimPolicy) /\ repo' \in GitDoes(c, repo, MaxCommits)
    BY <2>1, <2>2, GitKeepsClone
  <2>3. CASE repo.attempts < MaxRefused /\ repo' = [repo EXCEPT !.attempts = @ + 1]
    BY <2>1, <2>3, CodingJobAssumption DEF Repo
  <2> QED BY <2>2, <2>3 DEF AgentGit
<1>5. ~job.url
  BY <1>3 DEF PublicationIsOfTheBranch, AfterGather, ENDS
<1>6. Typed'
  <2>1. TypeOKSession'
    BY <1>1, <1>2, <1>3, <1>4, <1>5, SessionStays
  <2> QED BY <1>1, <1>2, <1>3, <1>4, <1>5, <2>1, TypedIs DEF Typed, TypeOK, PCS, ENDS, agentVars
<1>7. AgentHours' /\ RefusalsAreCounted' /\ BranchIsBounded' /\ DefaultIsLeft'
  BY <1>1, <1>2, <1>3, <1>4, <1>5
  DEF AgentHours, RefusalsAreCounted, ENDS, BranchIsBounded, DefaultIsLeft, agentVars
<1>8. EvidenceIsOfTheWork' /\ ReviewIsOfTheWork' /\ AnswersOnTheWay' /\ OneAnswerPerQuestion'
  BY <1>1, <1>2, <1>3, <1>4, <1>5, WorkStays DEF AfterGather, ENDS
<1>9. PublicationIsOfTheBranch'
  BY <1>1, <1>2, <1>3, <1>4, <1>5
  DEF PublicationIsOfTheBranch, RemoveWorktree, AfterGather, ENDS, sessionVars, agentVars
<1> QED BY <1>6, <1>7, <1>8, <1>9

(* A question is on its way, and the agent waits. *)
LEMMA AskInv ==
  ASSUME Inv, NEW q \in Question, Ask(q)
  PROVE  Inv'
<1> USE DEF Inv
<1>1. /\ calls' \in [THREADS -> CallRecord] /\ late' = late /\ lost' = lost
      /\ calls'["ask"].state = "sent" /\ calls'["ask"].request.op = "question"
      /\ \A r \in Outstanding' : r.op = "review" => r \in Outstanding
  BY SendIs, JobRequests DEF Ask, THREADS
<1>2. UNCHANGED <<sessionVars, workerVars, repo>> /\ told' = told
  BY DEF Ask
<1>3. /\ pc = "coding" /\ pc' = pc /\ aborted' = aborted /\ job' = job /\ agent' = "waiting"
      /\ job \in Job /\ repo \in Repo
  BY <1>2 DEF AgentHours, Ask, workerVars, Typed, TypeOK
<1>4. review' = NoReview /\ review'.recommended = FALSE /\ review'.attention = TRUE
  BY <1>2, <1>3 DEF ReviewIsOfTheWork, AfterGather, ENDS, NoReview, sessionVars
<1>5. ~job.url
  BY <1>3 DEF PublicationIsOfTheBranch, AfterGather, ENDS
<1>6. Typed'
  <2>1. TypeOKSession'
    BY <1>1, <1>2, <1>3, <1>4, <1>5, SessionStays
  <2> QED BY <1>1, <1>2, <1>3, <1>4, <1>5, <2>1, TypedIs DEF Typed, TypeOK, PCS, ENDS, agentVars
<1>7. AgentHours' /\ RefusalsAreCounted' /\ BranchIsBounded' /\ DefaultIsLeft'
  BY <1>1, <1>2, <1>3, <1>4, <1>5
  DEF AgentHours, RefusalsAreCounted, ENDS, BranchIsBounded, DefaultIsLeft, agentVars
<1>8. EvidenceIsOfTheWork'
  BY <1>1, <1>2, <1>3, <1>4, <1>5
  DEF EvidenceIsOfTheWork, OfTheWork, AfterGather, ENDS, sessionVars, agentVars
<1>9. ReviewIsOfTheWork'
  BY <1>1, <1>2, <1>3, <1>4, <1>5 DEF ReviewIsOfTheWork, AfterGather, ENDS, sessionVars, agentVars
<1>10. AnswersOnTheWay'
  BY <1>1, <1>2, <1>3, <1>4, <1>5 DEF AnswersOnTheWay, sessionVars, agentVars
<1>11. OneAnswerPerQuestion'
  BY <1>1, <1>2, <1>3, <1>4, <1>5 DEF OneAnswerPerQuestion, sessionVars, agentVars
<1>12. PublicationIsOfTheBranch'
  BY <1>1, <1>2, <1>3, <1>4, <1>5
  DEF PublicationIsOfTheBranch, RemoveWorktree, AfterGather, ENDS, sessionVars, agentVars
<1> QED BY <1>6, <1>7, <1>8, <1>9, <1>10, <1>11, <1>12

(* What the agent is told is on record. *)
LEMMA IsToldInv ==
  ASSUME Inv, IsTold
  PROVE  Inv'
<1> USE DEF Inv
<1>1. /\ calls' \in [THREADS -> CallRecord] /\ late' = late /\ lost' = lost
      /\ calls'["ask"].state = "idle"
      /\ \A r \in Outstanding' : r.op = "review" => r \in Outstanding
  BY ReceiveIs, JobRequests DEF IsTold, THREADS, Idle
<1>2. UNCHANGED <<sessionVars, workerVars, repo>>
  BY DEF IsTold
<1>3. /\ pc' = pc /\ aborted' = aborted /\ job' = job
      /\ job \in Job /\ repo \in Repo
  BY <1>2 DEF workerVars, Typed, TypeOK
<1>4. PICK q \in Question : /\ calls["ask"].reply = decided[q] /\ decided[q] \in DECISIONS
                             /\ IF agent = "waiting"
                                THEN agent' = "working" /\ told' = [told EXCEPT ![q] = decided[q]]
                                ELSE UNCHANGED agentVars
  <2>1. calls["ask"].state = "replied" /\ calls["ask"].request \in Request
    BY DEF IsTold, Typed, CallRecord, THREADS
  <2>2. calls["ask"].request.question \in Question
    BY <2>1, RequestFields DEF AnswersOnTheWay
  <2>3. /\ calls["ask"].reply = decided[calls["ask"].request.question]
        /\ calls["ask"].reply # "none"
    BY <2>1 DEF AnswersOnTheWay
  <2> QED BY <2>2, <2>3 DEF IsTold, Typed, TypeOK, TypeOKSession
<1>5. /\ told' \in [Question -> DECISIONS \cup {"none"}] /\ agent' \in {"working", agent}
      /\ \A r \in Question : told'[r] = told[r] \/ told'[r] = decided[r]
  BY <1>4 DEF Typed, TypeOK, agentVars
<1>6. \/ pc = "coding" /\ review = NoReview /\ ~job.url
      \/ UNCHANGED agentVars
  BY <1>4 DEF AgentHours, ReviewIsOfTheWork, PublicationIsOfTheBranch, AfterGather, ENDS
<1>7. NoReview.recommended = FALSE /\ NoReview.attention = TRUE
  BY DEF NoReview
<1>8. Typed'
  <2>1. TypeOKSession'
    BY <1>1, <1>2, <1>3, <1>4, <1>5, <1>6, <1>7, SessionStays
  <2> QED BY <1>1, <1>2, <1>3, <1>4, <1>5, <1>6, <1>7, <2>1, TypedIs DEF Typed, TypeOK, PCS, ENDS, agentVars
<1>9. AgentHours' /\ RefusalsAreCounted' /\ BranchIsBounded' /\ DefaultIsLeft'
  BY <1>1, <1>2, <1>3, <1>4, <1>5, <1>6, <1>7
  DEF AgentHours, RefusalsAreCounted, ENDS, BranchIsBounded, DefaultIsLeft, agentVars
<1>10. EvidenceIsOfTheWork'
  BY <1>1, <1>2, <1>3, <1>4, <1>5, <1>6, <1>7
  DEF EvidenceIsOfTheWork, OfTheWork, AfterGather, ENDS, sessionVars, agentVars
<1>11. ReviewIsOfTheWork'
  BY <1>1, <1>2, <1>3, <1>4, <1>5, <1>6, <1>7
  DEF ReviewIsOfTheWork, AfterGather, ENDS, sessionVars, agentVars
<1>12. AnswersOnTheWay'
  BY <1>1, <1>2, <1>3, <1>4, <1>5, <1>6, <1>7 DEF AnswersOnTheWay, sessionVars, agentVars
<1>13. OneAnswerPerQuestion'
  BY <1>1, <1>2, <1>3, <1>4, <1>5, <1>6, <1>7 DEF OneAnswerPerQuestion, sessionVars, agentVars
<1>14. PublicationIsOfTheBranch'
  BY <1>1, <1>2, <1>3, <1>4, <1>5, <1>6, <1>7
  DEF PublicationIsOfTheBranch, RemoveWorktree, AfterGather, ENDS, sessionVars, agentVars
<1> QED BY <1>8, <1>9, <1>10, <1>11, <1>12, <1>13, <1>14

(* A question nobody answers ends the process. *)
LEMMA AskFailsInv ==
  ASSUME Inv, AskFails
  PROVE  Inv'
<1> USE DEF Inv
<1>1. /\ calls' \in [THREADS -> CallRecord] /\ late' = late /\ lost' = lost
      /\ calls'["ask"].state = "idle"
      /\ \A r \in Outstanding' : r.op = "review" => r \in Outstanding
  <2>1. Idle \in CallRecord /\ Idle.request = Op("none") /\ Idle.state = "idle"
    BY CodingJobAssumption DEF Idle, CallRecord, Request, Op, DECISIONS
  <2>2. calls' = [t \in THREADS |-> Idle] /\ late' = late /\ lost' = lost
    BY DEF AskFails
  <2> HIDE DEF Idle
  <2> QED BY <2>1, <2>2, JobRequests DEF Outstanding, THREADS
<1>2. UNCHANGED <<sessionVars, repo, job, aborted, told>>
  BY DEF AskFails
<1>3. /\ agent' = "gone" /\ job \in Job /\ repo \in Repo
      /\ (pc' = pc /\ pc \in ENDS) \/ pc' = "crashed"
  BY DEF AskFails, Typed, TypeOK
<1>4. Typed'
  <2>1. TypeOKSession'
    BY <1>1, <1>2, <1>3, SessionStays
  <2> QED BY <1>1, <1>2, <1>3, <2>1, TypedIs DEF Typed, TypeOK, PCS, ENDS, agentVars
<1>5. AgentHours' /\ RefusalsAreCounted' /\ BranchIsBounded' /\ DefaultIsLeft'
  BY <1>1, <1>2, <1>3
  DEF AgentHours, RefusalsAreCounted, ENDS, BranchIsBounded, DefaultIsLeft, agentVars
<1>6. EvidenceIsOfTheWork'
  BY <1>1, <1>2, <1>3 DEF EvidenceIsOfTheWork, OfTheWork, AfterGather, ENDS, sessionVars, agentVars
<1>7. ReviewIsOfTheWork'
  BY <1>1, <1>2, <1>3 DEF ReviewIsOfTheWork, AfterGather, ENDS, sessionVars, agentVars
<1>8. AnswersOnTheWay'
  BY <1>1, <1>2, <1>3 DEF AnswersOnTheWay, sessionVars, agentVars
<1>9. OneAnswerPerQuestion'
  BY <1>1, <1>2, <1>3 DEF OneAnswerPerQuestion, sessionVars, agentVars
<1>10. PublicationIsOfTheBranch'
  BY <1>1, <1>2, <1>3
  DEF PublicationIsOfTheBranch, RemoveWorktree, AfterGather, ENDS, sessionVars, agentVars
<1> QED BY <1>4, <1>5, <1>6, <1>7, <1>8, <1>9, <1>10

(* The session settles, whatever it has come to. *)
LEMMA SettlesInv ==
  ASSUME Inv, Settles
  PROVE  Inv'
<1> USE DEF Inv
<1>1. /\ calls' \in [THREADS -> CallRecord] /\ late' = late /\ lost' = lost
      /\ calls'["ask"] = calls["ask"]
      /\ \A r \in Outstanding' : r.op = "review" => r \in Outstanding
  BY DEF Settles, Typed, Outstanding, networkVars
<1>2. UNCHANGED <<sessionVars, repo, pc, aborted, told>>
  BY DEF Settles
<1>3. /\ agent' = "gone" /\ pc = "coding" /\ repo \in Repo
  BY DEF Settles, AgentHours, Typed, TypeOK
<1>4. /\ job' \in Job
      /\ job'.refused = job.refused /\ job'.failed = job.failed
      /\ job'.unchanged = job.unchanged /\ job'.url = job.url
      /\ job'.end = job.end
  BY CodingJobAssumption DEF Typed, TypeOK, Job, Repo, ENDS, BranchIsBounded, Settles
<1>5. ~job.url
  BY <1>3 DEF PublicationIsOfTheBranch, AfterGather, ENDS
<1>6. review' = NoReview /\ review'.recommended = FALSE /\ review'.attention = TRUE
  BY <1>2, <1>3 DEF ReviewIsOfTheWork, AfterGather, ENDS, NoReview, sessionVars
<1>7. Typed'
  <2>1. TypeOKSession'
    BY <1>1, <1>2, <1>3, <1>4, <1>5, <1>6, SessionStays
  <2> QED BY <1>1, <1>2, <1>3, <1>4, <1>5, <1>6, <2>1, TypedIs DEF Typed, TypeOK, PCS, ENDS, agentVars
<1>8. AgentHours' /\ RefusalsAreCounted' /\ BranchIsBounded' /\ DefaultIsLeft'
  BY <1>1, <1>2, <1>3, <1>4, <1>5, <1>6
  DEF AgentHours, RefusalsAreCounted, ENDS, BranchIsBounded, DefaultIsLeft, agentVars
<1>9. EvidenceIsOfTheWork'
  BY <1>1, <1>2, <1>3, <1>4, <1>5, <1>6
  DEF EvidenceIsOfTheWork, OfTheWork, AfterGather, ENDS, sessionVars, agentVars
<1>10. ReviewIsOfTheWork'
  BY <1>1, <1>2, <1>3, <1>4, <1>5, <1>6
  DEF ReviewIsOfTheWork, AfterGather, ENDS, sessionVars, agentVars
<1>11. AnswersOnTheWay'
  BY <1>1, <1>2, <1>3, <1>4, <1>5, <1>6 DEF AnswersOnTheWay, sessionVars, agentVars
<1>12. OneAnswerPerQuestion'
  BY <1>1, <1>2, <1>3, <1>4, <1>5, <1>6 DEF OneAnswerPerQuestion, sessionVars, agentVars
<1>13. PublicationIsOfTheBranch'
  BY <1>1, <1>2, <1>3, <1>4, <1>5, <1>6
  DEF PublicationIsOfTheBranch, RemoveWorktree, AfterGather, ENDS, sessionVars, agentVars
<1> QED BY <1>7, <1>8, <1>9, <1>10, <1>11, <1>12, <1>13

-----------------------------------------------------------------------------
(* The network, and the control plane behind it.                           *)

(* Whatever is to be served is a request. *)
LEMMA OutstandingAreRequests ==
  ASSUME Typed
  PROVE  Outstanding \subseteq Request
BY DEF Typed, TypeOK, Outstanding, CallRecord

(* An attempt that fails keeps the request, and takes the reply back. *)
LEMMA AttemptFailsInv ==
  ASSUME Inv, NEW t \in THREADS, AttemptFails(t)
  PROVE  Inv'
<1> USE DEF Inv
<1>1. /\ calls' \in [THREADS -> CallRecord] /\ late' \subseteq Request /\ lost' \in 0..MaxLost
      /\ \A u \in THREADS : calls'[u].request = calls[u].request
      /\ \A u \in THREADS \ {t} : calls'[u] = calls[u]
      /\ calls[t].state # "idle" /\ calls'[t].state # "replied"
  <2>1. calls[t] \in CallRecord /\ calls[t].request \in Request
    BY DEF Typed, CallRecord
  <2>2. PICK s \in {"failed", "sent"} :
          /\ s = "failed" <=> calls[t].tries + 1 = Attempts
          /\ calls' = [calls EXCEPT ![t].tries = @ + 1, ![t].state = s, ![t].reply = "none"]
    BY DEF AttemptFails
  <2>3. calls[t].tries + 1 \in 0..Attempts
    <3>1. calls[t].tries < Attempts
      BY <2>1 DEF AttemptFails, CallRecord
    <3> QED BY <2>1, <3>1, CodingJobAssumption DEF CallRecord
  <2> DEFINE again == [calls[t] EXCEPT !.tries = @ + 1, !.state = s, !.reply = "none"]
  <2>4. again \in CallRecord /\ again.request = calls[t].request /\ again.state = s
    <3>1. s # "failed" => calls[t].tries + 1 < Attempts
      BY <2>2, <2>3, CodingJobAssumption
    <3> QED BY <2>1, <2>3, <3>1 DEF CallRecord
  <2>5. calls' = [calls EXCEPT ![t] = again]
    BY <2>2 DEF Typed, CallRecord
  <2>6. late' \subseteq Request /\ lost' \in 0..MaxLost
    BY <2>1, CodingJobAssumption DEF AttemptFails, Typed, TypeOK
  <2> HIDE DEF again
  <2> QED BY ZenonT(60), <2>4, <2>5, <2>6 DEF Typed, AttemptFails
<1>2. Outstanding' = Outstanding
  BY <1>1 DEF AttemptFails, Outstanding
<1>3. UNCHANGED <<sessionVars, workerVars, agentVars, repo>>
  BY DEF AttemptFails
<1>4. UNCHANGED <<pc, aborted, job>> /\ job \in Job /\ repo \in Repo
  BY <1>3 DEF workerVars, Typed, TypeOK
<1>5. Typed'
  <2>1. TypeOKSession'
    BY <1>1, <1>2, <1>3, <1>4, SessionStays
  <2> QED BY <1>1, <1>2, <1>3, <1>4, <2>1, TypedIs DEF Typed, TypeOK, PCS, ENDS, agentVars
<1>6. AgentHours' /\ RefusalsAreCounted' /\ BranchIsBounded' /\ DefaultIsLeft'
  BY <1>1, <1>2, <1>3, <1>4
  DEF AgentHours, RefusalsAreCounted, ENDS, BranchIsBounded, DefaultIsLeft, agentVars
<1>7. EvidenceIsOfTheWork'
  BY <1>1, <1>2, <1>3, <1>4
  DEF EvidenceIsOfTheWork, OfTheWork, AfterGather, ENDS, sessionVars, agentVars
<1>8. ReviewIsOfTheWork'
  BY <1>1, <1>2, <1>3, <1>4 DEF ReviewIsOfTheWork, AfterGather, ENDS, sessionVars, agentVars
<1>9. AnswersOnTheWay'
  <2>1. decided' = decided
    BY <1>3 DEF sessionVars
  <2> QED BY <1>1, <2>1 DEF AnswersOnTheWay, THREADS
<1>10. OneAnswerPerQuestion'
  BY <1>1, <1>2, <1>3, <1>4 DEF OneAnswerPerQuestion, sessionVars, agentVars
<1>11. PublicationIsOfTheBranch'
  BY <1>1, <1>2, <1>3, <1>4
  DEF PublicationIsOfTheBranch, RemoveWorktree, AfterGather, ENDS, sessionVars, agentVars
<1> QED BY <1>5, <1>6, <1>7, <1>8, <1>9, <1>10, <1>11

(* What the review says of the work is so, of the run that is under review. *)
LEMMA ReviewIsTyped ==
  ASSUME NEW e \in Evidence, NEW met, NEW notable, NEW sure
  PROVE  /\ ReviewOf(e, met, notable, sure) \in Review
         /\ ReviewOf(e, met, notable, sure).recommended =>
              e.prohibited = 0 /\ ~e.failed /\ e.unchanged /\ Blocked = {}
         /\ ~ReviewOf(e, met, notable, sure).attention =>
              ~e.dirty /\ Blocked = {} /\ Rows("assumption") = {}
<1>1. Verdict(e, met) \in VERDICTS
  BY DEF Verdict, VERDICTS, Evidence
<1>2. HumanAttentionRequired(e, met, notable) \in BOOLEAN
  BY DEF HumanAttentionRequired
<1>3. PullRequestRecommended(e, sure) \in BOOLEAN
  BY DEF PullRequestRecommended
<1>4. PullRequestRecommended(e, sure) =>
        e.prohibited = 0 /\ ~e.failed /\ e.unchanged /\ Blocked = {}
  BY DEF PullRequestRecommended
<1>5. ~HumanAttentionRequired(e, met, notable) =>
        ~e.dirty /\ Blocked = {} /\ Rows("assumption") = {}
  BY DEF HumanAttentionRequired
<1> QED BY <1>1, <1>2, <1>3, <1>4, <1>5 DEF ReviewOf, Review

(* A first row leaves one. *)
LEMMA LeavesIs ==
  ASSUME TypeOKSession, NEW q \in Question, NEW kind \in KINDS, Leaves(q, kind),
         consequences[q] = [k \in KINDS |-> 0]
  PROVE  consequences' = [consequences EXCEPT ![q] = [k \in KINDS |-> IF k = kind THEN 1 ELSE 0]]
<1> DEFINE more == [consequences[q] EXCEPT ![kind] = consequences[q][kind] + 1]
           one == [k \in KINDS |-> IF k = kind THEN 1 ELSE 0]
<1>1. consequences' = [consequences EXCEPT ![q] = more]
  BY DEF Leaves, TypeOKSession
<1>2. more = one
  <2>1. more = [k \in KINDS |-> IF k = kind THEN consequences[q][kind] + 1 ELSE consequences[q][k]]
    OBVIOUS
  <2>2. \A k \in KINDS : consequences[q][k] = 0
    OBVIOUS
  <2> QED BY <2>1, <2>2
<1> QED BY <1>1, <1>2

(* An answer is given once, and leaves what it has to leave. *)
LEMMA AnswerIsGivenOnce ==
  ASSUME Inv, NEW q \in Question, AnswerAgentQuestion(q), told' = told
  PROVE  /\ decided' \in [Question -> DECISIONS \cup {"none"}]
         /\ consequences' \in [Question -> [KINDS -> 0..MaxRows]]
         /\ decided'[q] # "none"
         /\ \A r \in Question : decided[r] # "none" => decided'[r] = decided[r]
         /\ OneAnswerPerQuestion'
<1> USE DEF Inv, Typed, TypeOK, TypeOKSession
<1>1. CASE decided[q] # "none"
  BY <1>1 DEF AnswerAgentQuestion, OneAnswerPerQuestion
<1>2. CASE decided[q] = "none"
  <2>1. PICK decision : Decides(q, decision)
    BY <1>2 DEF AnswerAgentQuestion
  <2>2. decision \in DECISIONS
    BY <2>1 DEF Decides, DECISIONS
  <2>3. decided' = [decided EXCEPT ![q] = decision]
    BY <2>1 DEF Decides, FinaliseQuestion
  <2> DEFINE Left(d) ==
        [k \in KINDS |-> IF <<k, d>> \in {<<"blocker", "blocked">>, <<"assumption", "assumed">>}
                         THEN 1 ELSE 0]
  <2>4. consequences[q] = [k \in KINDS |-> 0] /\ told[q] = "none"
    <3>1. consequences[q] = Left("none")
      BY <1>2 DEF OneAnswerPerQuestion
    <3>2. told[q] = "none"
      BY <1>2 DEF OneAnswerPerQuestion
    <3> QED BY <3>1, <3>2
  <2>5. consequences' = [consequences EXCEPT ![q] = Left(decision)]
    <3>1. CASE decision = "answered" /\ UNCHANGED consequences
      BY <3>1, <2>4
    <3>2. CASE decision = "assumed" /\ Leaves(q, "assumption")
      <4>1. Left("assumed") = [k \in KINDS |-> IF k = "assumption" THEN 1 ELSE 0]
        BY DEF KINDS
      <4> QED BY <2>4, <3>2, <4>1, LeavesIs DEF KINDS
    <3>3. CASE decision = "blocked" /\ Leaves(q, "blocker")
      <4>1. Left("blocked") = [k \in KINDS |-> IF k = "blocker" THEN 1 ELSE 0]
        BY DEF KINDS
      <4> QED BY <2>4, <3>3, <4>1, LeavesIs DEF KINDS
    <3> QED BY <2>1, <3>1, <3>2, <3>3 DEF Decides
  <2>6. Left(decision) \in [KINDS -> 0..MaxRows]
    BY CodingSessionAssumption
  <2>7. OneAnswerPerQuestion'
    <3> SUFFICES ASSUME NEW r \in Question
                 PROVE  /\ told'[r] # "none" => told'[r] = decided'[r]
                        /\ consequences'[r] = Left(decided'[r])
      BY DEF OneAnswerPerQuestion
    <3>1. /\ told[r] # "none" => told[r] = decided[r]
          /\ consequences[r] = Left(decided[r])
      BY DEF OneAnswerPerQuestion
    <3> HIDE DEF Left
    <3> QED BY <2>3, <2>4, <2>5, <3>1
  <2> HIDE DEF Left
  <2> QED BY <1>2, <2>2, <2>3, <2>5, <2>6, <2>7 DEF DECISIONS
<1> QED BY <1>1, <1>2

(* The work is under review once, and the review is of the work. *)
LEMMA ReviewedOnce ==
  ASSUME Inv, NEW r \in Outstanding, r.op = "review", SubmitReview(r.evidence),
         UNCHANGED <<workerVars, agentVars, repo>>
  PROVE  TypeOKSession' /\ ReviewIsOfTheWork' /\ PublicationIsOfTheBranch'
<1> USE DEF Inv
<1>1. r.evidence \in Evidence
  BY OutstandingAreRequests, RequestFields
<1>2. /\ review.recommended = FALSE /\ run = "running" /\ run' = "self_review"
      /\ UNCHANGED <<decided, consequences, worktreeRow, violationRows, pullRequestRow>>
  BY DEF SubmitReview, MayReview, ReviewIsOfTheWork, NoReview
<1>3. PICK met, notable, sure : review' = ReviewOf(r.evidence, met, notable, sure)
  BY DEF SubmitReview
<1>4. /\ review' \in Review
      /\ review'.recommended =>
           r.evidence.prohibited = 0 /\ ~r.evidence.failed /\ r.evidence.unchanged /\ Blocked = {}
      /\ ~review'.attention => ~r.evidence.dirty /\ Blocked = {} /\ Rows("assumption") = {}
  BY <1>1, <1>3, ReviewIsTyped
<1>5. TypeOKSession'
  BY <1>2, <1>4 DEF Typed, TypeOK, TypeOKSession
<1>6. pc \in AfterGather /\ OfTheWork(r.evidence)
  BY DEF EvidenceIsOfTheWork
<1>7. Blocked = {} => \A q \in Question : told[q] # "blocked"
  BY DEF OneAnswerPerQuestion, Blocked
<1>8. Blocked = {} /\ Rows("assumption") = {} =>
        \A q \in Question : told[q] \in {"none", "answered"}
  <2> SUFFICES ASSUME NEW q \in Question, Rows("assumption") = {}
               PROVE  told[q] # "assumed"
    BY <1>7 DEF Typed, TypeOK, DECISIONS
  <2>1. SUFFICES ASSUME told[q] = "assumed" PROVE FALSE
    OBVIOUS
  <2>2. consequences[q]["assumption"] = 1
    BY <2>1 DEF OneAnswerPerQuestion, KINDS
  <2>3. q \in Rows("assumption")
    BY <2>2 DEF Rows
  <2> QED BY <2>3
<1>9. ReviewIsOfTheWork'
  <2>1. /\ pc' = pc /\ told' = told /\ repo' = repo /\ aborted' = aborted /\ job' = job
        /\ run' # "running"
    BY <1>2 DEF workerVars, agentVars
  <2>2. review'.recommended =>
          /\ repo'.attempts = 0 /\ ~job'.failed /\ job'.unchanged
          /\ \A q \in Question : told'[q] # "blocked"
    BY <1>4, <1>6, <1>7, <2>1 DEF OfTheWork
  <2>3. ~review'.attention =>
          (~aborted' => ~repo'.dirty) /\ \A q \in Question : told'[q] \in {"none", "answered"}
    BY <1>4, <1>6, <1>8, <2>1 DEF OfTheWork
  <2> QED BY <1>6, <2>1, <2>2, <2>3 DEF ReviewIsOfTheWork, AfterGather
<1>10. PublicationIsOfTheBranch'
  <2>1. pc' = pc /\ repo' = repo /\ aborted' = aborted /\ job' = job
    BY DEF workerVars
  <2>2. pc \notin {"push", "create"} /\ ~job.url /\ ~repo.removed
    BY <1>2 DEF PublicationIsOfTheBranch, RemoveWorktree
  <2> QED BY <2>1, <2>2 DEF PublicationIsOfTheBranch, AfterGather, ENDS
<1> QED BY <1>5, <1>9, <1>10

(* Whatever is served, when and however often. *)
LEMMA HandleKeeps ==
  ASSUME Inv, NEW r \in Outstanding, Handle(r), UNCHANGED <<workerVars, agentVars, repo>>
  PROVE  /\ TypeOKSession' /\ OneAnswerPerQuestion'
         /\ ReviewIsOfTheWork' /\ PublicationIsOfTheBranch'
         /\ \A q \in Question : decided[q] # "none" => decided'[q] = decided[q]
         /\ r.op = "question" => decided'[r.question] # "none"
<1> USE DEF Inv
<1>1. r \in Request /\ told' = told
  BY OutstandingAreRequests DEF agentVars
<1>2. CASE r.op = "question" /\ AnswerAgentQuestion(r.question)
  <2>1. r.question \in Question
    BY <1>1, <1>2, RequestFields
  <2>2. /\ decided' \in [Question -> DECISIONS \cup {"none"}]
        /\ consequences' \in [Question -> [KINDS -> 0..MaxRows]]
        /\ decided'[r.question] # "none"
        /\ \A q \in Question : decided[q] # "none" => decided'[q] = decided[q]
        /\ OneAnswerPerQuestion'
    BY <1>1, <1>2, <2>1, AnswerIsGivenOnce
  <2>3. UNCHANGED <<run, worktreeRow, violationRows, review, pullRequestRow>>
    BY <1>2 DEF AnswerAgentQuestion
  <2>4. TypeOKSession'
    BY <2>2, <2>3 DEF Typed, TypeOK, TypeOKSession
  <2>5. ReviewIsOfTheWork'
    BY <2>3 DEF ReviewIsOfTheWork, workerVars, agentVars
  <2>6. PublicationIsOfTheBranch'
    BY <2>3 DEF PublicationIsOfTheBranch, RemoveWorktree, workerVars
  <2> QED BY <2>2, <2>4, <2>5, <2>6
<1>3. CASE r.op = "review" /\ SubmitReview(r.evidence)
  <2>1. decided' = decided /\ consequences' = consequences
    BY <1>3 DEF SubmitReview
  <2>2. OneAnswerPerQuestion'
    BY <1>1, <2>1 DEF OneAnswerPerQuestion
  <2>3. TypeOKSession' /\ ReviewIsOfTheWork' /\ PublicationIsOfTheBranch'
    BY <1>3, ReviewedOnce
  <2> QED BY <1>3, <2>1, <2>2, <2>3
<1>4. CASE \/ r.op = "worktree" /\ RecordWorktree(r.status)
           \/ r.op = "violation" /\ RecordGitViolation
           \/ r.op = "pull_request" /\ RecordPullRequest
  <2>1. /\ UNCHANGED <<run, decided, consequences, review>> /\ r.op # "question"
        /\ worktreeRow' \in {"none", "active", "preserved", "removed"}
        /\ violationRows' \in 0..MaxRows /\ pullRequestRow' \in BOOLEAN
    <3>1. CASE r.op = "worktree" /\ RecordWorktree(r.status)
      BY <1>1, <3>1, RequestFields DEF RecordWorktree, Typed, TypeOK, TypeOKSession
    <3>2. CASE r.op = "violation" /\ RecordGitViolation
      BY <3>2, CodingSessionAssumption DEF RecordGitViolation, Typed, TypeOK, TypeOKSession
    <3>3. CASE r.op = "pull_request" /\ RecordPullRequest
      BY <3>3 DEF RecordPullRequest, Typed, TypeOK, TypeOKSession
    <3> QED BY <1>4, <3>1, <3>2, <3>3
  <2>2. TypeOKSession'
    BY <2>1 DEF Typed, TypeOK, TypeOKSession
  <2>3. ReviewIsOfTheWork'
    BY <2>1 DEF ReviewIsOfTheWork, workerVars, agentVars
  <2>4. PublicationIsOfTheBranch'
    BY <2>1 DEF PublicationIsOfTheBranch, RemoveWorktree, workerVars
  <2>5. OneAnswerPerQuestion'
    BY <1>1, <2>1 DEF OneAnswerPerQuestion
  <2> QED BY <2>1, <2>2, <2>3, <2>4, <2>5
<1> QED BY <1>2, <1>3, <1>4 DEF Handle

(* Whether it is refused or handled. *)
LEMMA ServedOrNot ==
  ASSUME Inv, NEW r \in Outstanding, UNCHANGED <<workerVars, agentVars, repo>>,
         IF Refused(r) THEN UNCHANGED sessionVars ELSE Handle(r)
  PROVE  /\ TypeOKSession' /\ OneAnswerPerQuestion'
         /\ ReviewIsOfTheWork' /\ PublicationIsOfTheBranch'
         /\ \A q \in Question : decided[q] # "none" => decided'[q] = decided[q]
<1>1. CASE Handle(r)
  BY <1>1, HandleKeeps
<1>2. CASE UNCHANGED sessionVars
  <2> USE DEF Inv
  <2>1. TypeOKSession'
    BY <1>2, SessionStays
  <2>2. OneAnswerPerQuestion' /\ \A q \in Question : decided'[q] = decided[q]
    BY <1>2 DEF OneAnswerPerQuestion, sessionVars, agentVars
  <2>3. ReviewIsOfTheWork'
    BY <1>2 DEF ReviewIsOfTheWork, sessionVars, workerVars, agentVars
  <2>4. PublicationIsOfTheBranch'
    BY <1>2 DEF PublicationIsOfTheBranch, RemoveWorktree, sessionVars, workerVars
  <2> QED BY <2>1, <2>2, <2>3, <2>4
<1> QED BY <1>1, <1>2

(* The steps of the network leave the job and the worktree alone. *)
LEMMA WorkerStays ==
  ASSUME Inv, UNCHANGED <<workerVars, agentVars, repo>>, Outstanding' \subseteq Outstanding,
         TypeOKSession', calls' \in [THREADS -> CallRecord], late' \subseteq Request,
         lost' \in 0..MaxLost
  PROVE  /\ Typed' /\ AgentHours' /\ RefusalsAreCounted' /\ BranchIsBounded' /\ DefaultIsLeft'
         /\ EvidenceIsOfTheWork'
<1> USE DEF Inv, workerVars, agentVars
<1>1. Typed'
  BY TypedIs DEF Typed, TypeOK
<1>2. AgentHours' /\ RefusalsAreCounted' /\ BranchIsBounded' /\ DefaultIsLeft'
  BY DEF AgentHours, RefusalsAreCounted, BranchIsBounded, DefaultIsLeft
<1>3. EvidenceIsOfTheWork'
  BY DEF EvidenceIsOfTheWork, OfTheWork, AfterGather
<1> QED BY <1>1, <1>2, <1>3

(* A request is served while its thread waits for it. *)
LEMMA ServeInv ==
  ASSUME Inv, NEW t \in THREADS, Serve(t)
  PROVE  Inv'
<1> DEFINE r == calls[t].request
<1>1. r \in Outstanding /\ calls[t] \in CallRecord /\ calls[t].state = "sent"
  BY DEF Serve, Outstanding, Inv, Typed
<1>2. /\ IF Refused(r) THEN UNCHANGED sessionVars ELSE Handle(r)
      /\ UNCHANGED <<workerVars, agentVars, repo, late, lost>>
  BY DEF Serve
<1>3. /\ TypeOKSession' /\ OneAnswerPerQuestion'
      /\ ReviewIsOfTheWork' /\ PublicationIsOfTheBranch'
      /\ \A q \in Question : decided[q] # "none" => decided'[q] = decided[q]
  BY <1>1, <1>2, ServedOrNot
<1>4. PICK s \in {"refused", "replied"}, answer \in DECISIONS \cup {"none"} :
        /\ calls' = [calls EXCEPT ![t] = [@ EXCEPT !.state = s, !.reply = answer]]
        /\ s = "replied" /\ r.op = "question" =>
             answer = decided'[r.question] /\ decided'[r.question] # "none"
  <2>1. CASE Refused(r)
    <3>1. calls' = [calls EXCEPT ![t] = [@ EXCEPT !.state = "refused", !.reply = calls[t].reply]]
      BY <1>1, <2>1 DEF Serve, Inv, Typed, CallRecord
    <3>2. calls[t].reply \in DECISIONS \cup {"none"}
      BY <1>1 DEF CallRecord
    <3> QED BY <3>1, <3>2
  <2>2. CASE ~Refused(r)
    <3>1. Handle(r) /\ r \in Request
      BY <1>1, <1>2, <2>2, OutstandingAreRequests DEF Inv
    <3>2. r.op = "question" => r.question \in Question /\ decided'[r.question] # "none"
      BY <1>1, <1>2, <3>1, HandleKeeps, RequestFields
    <3> DEFINE answer == IF r.op = "question" THEN decided'[r.question] ELSE "none"
    <3>3. answer \in DECISIONS \cup {"none"}
      BY <1>3, <3>2 DEF TypeOKSession
    <3>4. calls' = [calls EXCEPT ![t] = [@ EXCEPT !.state = "replied", !.reply = answer]]
      BY <2>2 DEF Serve
    <3> QED BY <3>2, <3>3, <3>4
  <2> QED BY <2>1, <2>2
<1> DEFINE served == [calls[t] EXCEPT !.state = s, !.reply = answer]
<1>5. /\ served \in CallRecord /\ served.request = r /\ served.state = s
      /\ served.reply = answer
  BY <1>1, <1>4 DEF CallRecord
<1>6. calls' = [calls EXCEPT ![t] = served]
  BY <1>4
<1> HIDE DEF served
<1>7. /\ calls' \in [THREADS -> CallRecord] /\ calls'[t] = served
      /\ \A u \in THREADS \ {t} : calls'[u] = calls[u]
      /\ Outstanding' \subseteq Outstanding
  <2>1. calls' \in [THREADS -> CallRecord] /\ calls'[t] = served
    BY <1>5, <1>6 DEF Inv, Typed
  <2>2. \A u \in THREADS \ {t} : calls'[u] = calls[u]
    BY <1>6 DEF Inv, Typed
  <2>3. Outstanding' \subseteq Outstanding
    BY <1>2, <1>5, <2>1, <2>2 DEF Outstanding
  <2> QED BY <2>1, <2>2, <2>3
<1>8. /\ Typed' /\ AgentHours' /\ RefusalsAreCounted' /\ BranchIsBounded' /\ DefaultIsLeft'
      /\ EvidenceIsOfTheWork'
  BY <1>2, <1>3, <1>7, WorkerStays DEF Inv, Typed, TypeOK
<1>9. AnswersOnTheWay'
  <2>1. CASE t = "ask"
    <3>1. r.op = "question"
      BY <1>1, <2>1 DEF Inv, AnswersOnTheWay
    <3> QED BY <1>4, <1>5, <1>7, <2>1, <3>1 DEF AnswersOnTheWay
  <2>2. CASE t # "ask"
    <3>1. calls'["ask"] = calls["ask"] /\ calls["ask"].request \in Request
      BY <1>7, <2>2 DEF THREADS, Inv, Typed, CallRecord
    <3>2. calls["ask"].request.op = "question" => calls["ask"].request.question \in Question
      BY <3>1, RequestFields
    <3> QED BY <1>3, <3>1, <3>2 DEF Inv, AnswersOnTheWay
  <2> QED BY <2>1, <2>2
<1> QED BY <1>3, <1>8, <1>9 DEF Inv

(* A request is served that its thread no longer waits for. *)
LEMMA ServeLateInv ==
  ASSUME Inv, NEW r \in late, ServeLate(r)
  PROVE  Inv'
<1>1. /\ IF Refused(r) THEN UNCHANGED sessionVars ELSE Handle(r)
      /\ UNCHANGED <<workerVars, agentVars, repo, calls, lost>> /\ late' = late \ {r}
  BY DEF ServeLate
<1>2. r \in Outstanding
  BY DEF Outstanding
<1>3. /\ TypeOKSession' /\ OneAnswerPerQuestion'
      /\ ReviewIsOfTheWork' /\ PublicationIsOfTheBranch'
      /\ \A q \in Question : decided[q] # "none" => decided'[q] = decided[q]
  BY <1>1, <1>2, ServedOrNot
<1>4. Outstanding' \subseteq Outstanding
  BY <1>1 DEF Outstanding
<1>5. /\ Typed' /\ AgentHours' /\ RefusalsAreCounted' /\ BranchIsBounded' /\ DefaultIsLeft'
      /\ EvidenceIsOfTheWork'
  BY <1>1, <1>3, <1>4, WorkerStays DEF Inv, Typed, TypeOK
<1>6. AnswersOnTheWay'
  <2>1. calls["ask"].request \in Request
    BY DEF THREADS, Inv, Typed, CallRecord
  <2>2. calls["ask"].request.op = "question" => calls["ask"].request.question \in Question
    BY <2>1, RequestFields
  <2> QED BY <1>1, <1>3, <2>2 DEF Inv, AnswersOnTheWay
<1> QED BY <1>3, <1>5, <1>6 DEF Inv

-----------------------------------------------------------------------------
(* The invariant.                                                          *)

(* It holds when the job starts. *)
LEMMA InitInv == Init => Inv
<1> SUFFICES ASSUME Init PROVE Inv
  OBVIOUS
<1>1. Idle \in CallRecord /\ Idle.state = "idle" /\ Idle.request = Op("none")
  BY CodingJobAssumption DEF Idle, CallRecord, Request, Op, DECISIONS
<1>2. calls \in [THREADS -> CallRecord] /\ \A t \in THREADS : calls[t] = Idle
  BY <1>1 DEF Init
<1>3. Outstanding = {Op("none")} /\ calls["ask"].state = "idle"
  <2> HIDE DEF Idle
  <2> QED BY <1>1, <1>2 DEF Outstanding, Init, THREADS
<1>4. /\ pc = "prepare" /\ aborted = FALSE /\ agent = "off"
      /\ told = [q \in Question |-> "none"] /\ late = {} /\ lost = 0
      /\ job = [result |-> "none", refused |-> 0, failed |-> FALSE, unchanged |-> TRUE,
                url |-> FALSE, end |-> "failed"]
      /\ repo = [tip |-> 0, branch |-> 0, head |-> "task", dirty |-> FALSE, moved |-> FALSE,
                 attempts |-> 0, pushed |-> 0, published |-> FALSE, removed |-> FALSE]
  BY DEF Init
<1>5. InitSession
  BY DEF Init
<1>6. 0 \in 0..MaxCommits + 1 /\ 0 \in 0..MaxRefused /\ 0 \in 0..MaxLost /\ 0 \in 0..MaxRows
  BY CodingJobAssumption, CodingSessionAssumption
<1>7. TypeOKSession
  BY <1>5, <1>6 DEF InitSession, TypeOKSession
<1>8. Typed
  <2>1. job \in Job /\ repo \in Repo
    BY <1>4, <1>6 DEF Job, Repo, ENDS, BRANCHES
  <2>2. \A t \in THREADS :
          /\ calls[t].request \in Request /\ calls[t].tries \in 0..Attempts
          /\ calls[t].state \in {"idle", "sent", "replied", "refused", "failed"}
          /\ calls[t].reply \in DECISIONS \cup {"none"}
    BY <1>2 DEF CallRecord
  <2> QED BY <1>2, <1>4, <1>6, <1>7, <2>1, <2>2 DEF Typed, TypeOK, PCS
<1>9. AgentHours /\ RefusalsAreCounted /\ BranchIsBounded /\ DefaultIsLeft
  BY <1>4, CodingJobAssumption
  DEF AgentHours, RefusalsAreCounted, BranchIsBounded, DefaultIsLeft
<1>10. EvidenceIsOfTheWork /\ AnswersOnTheWay
  BY <1>3 DEF EvidenceIsOfTheWork, AnswersOnTheWay, Op
<1>11. ReviewIsOfTheWork /\ PublicationIsOfTheBranch
  BY <1>4, <1>5
  DEF InitSession, ReviewIsOfTheWork, PublicationIsOfTheBranch, NoReview, AfterGather, ENDS
<1>12. OneAnswerPerQuestion
  BY <1>4, <1>5 DEF InitSession, OneAnswerPerQuestion, KINDS
<1> QED BY <1>8, <1>9, <1>10, <1>11, <1>12 DEF Inv

(* A stutter keeps it. *)
LEMMA StutterInv ==
  ASSUME Inv, UNCHANGED vars
  PROVE  Inv'
BY DEF vars, sessionVars, networkVars, workerVars, agentVars, Inv, Typed, TypeOK, TypeOKSession,
       AgentHours, RefusalsAreCounted, BranchIsBounded, DefaultIsLeft, EvidenceIsOfTheWork,
       OfTheWork, AfterGather, Outstanding, ReviewIsOfTheWork, PublicationIsOfTheBranch,
       RemoveWorktree, AnswersOnTheWay, OneAnswerPerQuestion

(* So does every step of the job, ... *)
LEMMA JobStepInv ==
  ASSUME Inv, JobStep
  PROVE  Inv'
BY PrepareInv, WorktreeReportedInv, StartAgentInv, SessionOverInv, ViolationReportedInv,
   ReportViolationInv, CancelledOrNotInv, CommitLeftoversInv, RunProjectCommandsInv, VerifyInv,
   CollectEvidenceInv, ReviewedInv, PushTaskBranchInv, CreatePullRequestInv,
   PullRequestReportedInv, ReleaseInv, ReleasedInv, PreservedInv
DEF JobStep

(* ... of the agent, ... *)
LEMMA AgentStepInv ==
  ASSUME Inv, AgentStep
  PROVE  Inv'
BY EditInv, AgentGitInv, AskInv, IsToldInv, AskFailsInv, SettlesInv DEF AgentStep

(* ... and any other. *)
LEMMA NextInv ==
  ASSUME Inv, [Next]_vars
  PROVE  Inv'
BY JobStepInv, AgentStepInv, ServeInv, AttemptFailsInv, ServeLateInv, AbortInv, EndsInv,
   StutterInv
DEF Next

LEMMA Invariance == Spec => []Inv
BY InitInv, NextInv, PTL DEF Spec

-----------------------------------------------------------------------------
(* What Mac may answer.                                                    *)

(* What is decided but to block is neither sensitive nor out of scope, and what is assumed can
   be undone. *)
LEMMA DecideActionIs ==
  ASSUME NEW d, NEW policy, DecideAction(d, policy) # "blocked"
  PROVE  /\ ~d.sensitive /\ d.withinApprovedScope
         /\ DecideAction(d, policy) = "assumed" => d.reversible
<1>1. ~(d.sensitive \/ d.risk = "high" \/ ~d.withinApprovedScope)
  BY DEF DecideAction
<1>2. DecideAction(d, policy) =
        IF d.confidence >= policy.answerAt THEN "answered"
        ELSE IF ~d.reversible \/ (d.confidence < policy.floor /\ d.risk # "low") THEN "blocked"
             ELSE "assumed"
  BY <1>1 DEF DecideAction
<1> QED BY <1>1, <1>2

(* An entry of what the run's brief excludes, all of whose words are in a question, puts that
   question out of scope. *)
LEMMA ExcludedIsOutOfScope ==
  ASSUME NEW q \in Subjects, NEW c \in Runs, NEW store \in Stores, NEW e \in store,
         e.kind = "outOfScope", e.task = c.task, e.version = c.version,
         e.terms # {}, e.terms \subseteq q.terms
  PROVE  IsOutOfScope(q, LoadRunContext(c, store))
<1>1. e \in LoadRunContext(c, store)
  BY DEF LoadRunContext, IsBrief, BriefAuthority
<1>2. Matched(e.terms, q.terms) = e.terms
  BY DEF Matched
<1>3. Cardinality(e.terms) \in Nat
  BY FS_CardinalityType, CodingSessionAssumption
<1> QED BY <1>1, <1>2, <1>3 DEF IsOutOfScope

(* However sure Mac is, and whatever an investigation found. *)
LEMMA WhatIsAnsweredIsSafe == Safe
<1> SUFFICES ASSUME NEW x \in Answers, x.a.decision # "blocked"
             PROVE  /\ ~x.q.sensitive
                    /\ ~\E e \in x.store :
                         /\ e.kind = "outOfScope" /\ e.task = x.c.task /\ e.version = x.c.version
                         /\ e.terms # {} /\ e.terms \subseteq x.q.terms
                    /\ x.a.decision = "assumed" => ~x.q.irreversible
  BY DEF Safe
<1>1. PICK q \in Subjects, c \in Runs, store \in Stores, policy \in Policies, failed \in BOOLEAN :
        x = [q |-> q, c |-> c, store |-> store, a |-> AnswerTo(q, c, store, policy, failed)]
  BY DEF Answers
<1>2. x.q = q /\ x.c = c /\ x.store = store
  BY <1>1
<1>3. x.a.decision = SuperviseQuestion(q, c, store, policy).decision
  BY <1>1 DEF AnswerTo, AnswerFrom
<1> DEFINE sources == LoadRunContext(c, store)
           confidence == ConfidenceOf(Ranked(q.terms \cup q.context, sources, SupervisionAuthority))
           d == [confidence |-> confidence, risk |-> RiskOf(q), sensitive |-> q.sensitive,
                 reversible |-> ~q.irreversible, withinApprovedScope |-> ~IsOutOfScope(q, sources)]
<1>4. SuperviseQuestion(q, c, store, policy).decision = DecideAction(d, policy)
  BY DEF SuperviseQuestion
<1>5. /\ d.sensitive = q.sensitive /\ d.reversible = ~q.irreversible
      /\ d.withinApprovedScope = ~IsOutOfScope(q, sources)
  OBVIOUS
<1> HIDE DEF d
<1>6. /\ ~d.sensitive /\ d.withinApprovedScope
      /\ x.a.decision = "assumed" => d.reversible
  BY <1>3, <1>4, DecideActionIs
<1>7. ~q.sensitive /\ ~IsOutOfScope(q, LoadRunContext(c, store))
  BY <1>5, <1>6
<1>8. ~\E e \in store :
         /\ e.kind = "outOfScope" /\ e.task = c.task /\ e.version = c.version
         /\ e.terms # {} /\ e.terms \subseteq q.terms
  BY <1>7, ExcludedIsOutOfScope
<1>9. x.a.decision = "assumed" => ~q.irreversible
  BY <1>5, <1>6
<1> QED BY <1>2, <1>7, <1>8, <1>9

-----------------------------------------------------------------------------
(* What is behind an answer.                                               *)

(* Of some hits one is the worst: scores are natural numbers. *)
LEMMA WorstExists ==
  ASSUME NEW hits, hits # {}, \A h \in hits : h.score \in Nat
  PROVE  \E w \in hits : \A h \in hits : w.score <= h.score
<1> DEFINE Scores == {h.score : h \in hits}
           Less == OpToRel(<, Nat)
<1>1. Scores \subseteq Nat /\ Scores # {}
  OBVIOUS
<1>2. PICK x \in Scores : \A y \in Scores : <<y, x>> \notin Less
  BY <1>1, WFMin, NatLessThanWellFounded
<1>3. \A y \in Scores : x <= y
  <2> SUFFICES ASSUME NEW y \in Scores, y < x PROVE FALSE
    <3> HIDE DEF Scores, Less
    <3> QED BY <1>1
  <2>1. <<y, x>> \in Less
    BY <1>1 DEF OpToRel
  <2> QED BY <1>2, <2>1
<1>4. PICK w \in hits : x = w.score
  OBVIOUS
<1> QED BY <1>3, <1>4

(* What a ranking is, and that one that lacks only the worst can be completed. *)
LEMMA RankingIs ==
  ASSUME NEW hits, IsFiniteSet(hits), NEW s \in Rankings(hits)
  PROVE  /\ Cardinality(hits) \in Nat
         /\ s \in [1..Cardinality(hits) -> hits]
         /\ s \in Seq(hits) /\ Len(s) = Cardinality(hits)
<1>1. Cardinality(hits) \in Nat
  BY FS_CardinalityType
<1>2. s \in [1..Cardinality(hits) -> hits]
  BY DEF Rankings, SetToSeqs
<1> QED BY <1>1, <1>2

LEMMA WorstComesLast ==
  ASSUME NEW hits, IsFiniteSet(hits), \A h \in hits : h.score \in Nat,
         NEW w \in hits, \A h \in hits : w.score <= h.score,
         NEW s \in Rankings(hits \ {w})
  PROVE  Rankings(hits) # {}
<1> DEFINE n == Cardinality(hits)
           r == [i \in 1..n |-> IF i = n THEN w ELSE s[i]]
<1>1. /\ n \in Nat \ {0} /\ Cardinality(hits \ {w}) = n - 1
      /\ IsFiniteSet(hits \ {w})
  BY FS_RemoveElement, FS_CardinalityType, FS_EmptySet
<1>2. /\ s \in [1..(n - 1) -> hits \ {w}]
      /\ \A i, j \in 1..(n - 1) : i # j => s[i] # s[j]
      /\ \A i, j \in 1..(n - 1) : i < j => s[i].score >= s[j].score
  BY <1>1 DEF Rankings, SetToSeqs
<1> HIDE DEF n
<1>3. \A i \in 1..n : i # n => i \in 1..(n - 1)
  BY <1>1
<1>4. \A i \in 1..n : r[i] = IF i = n THEN w ELSE s[i]
  OBVIOUS
<1>5. \A i \in 1..n : i # n => r[i] = s[i] /\ r[i] \in hits \ {w}
  BY <1>2, <1>3, <1>4
<1>6. r \in [1..n -> hits]
  BY <1>4, <1>5
<1>7. ASSUME NEW i \in 1..n, NEW j \in 1..n, i # j
      PROVE  r[i] # r[j]
  BY <1>2, <1>3, <1>4, <1>5, <1>7
<1>8. ASSUME NEW i \in 1..n, NEW j \in 1..n, i < j
      PROVE  r[i].score >= r[j].score
  <2>1. i # n
    BY <1>1, <1>8
  <2>2. CASE j = n
    <3>1. r[j] = w /\ r[i] \in hits
      BY <1>4, <1>5, <2>1, <2>2
    <3> HIDE DEF r
    <3> QED BY <3>1
  <2>3. CASE j # n
    BY <1>2, <1>3, <1>4, <1>8, <2>1, <2>3
  <2> QED BY <2>2, <2>3
<1>9. r \in SetToSeqs(hits)
  BY <1>6, <1>7 DEF SetToSeqs, n
<1>10. DOMAIN r = 1..n
  OBVIOUS
<1> HIDE DEF r
<1> QED BY <1>8, <1>9, <1>10 DEF Rankings

(* Any finite set of hits has a ranking: a smallest one without would have a worst hit, and a
   ranking of the others. *)
LEMMA RankingExists ==
  ASSUME NEW all, IsFiniteSet(all), \A h \in all : h.score \in Nat
  PROVE  Rankings(all) # {}
<1> DEFINE Unranked == {hits \in SUBSET all : Rankings(hits) = {}}
           Sizes == {Cardinality(hits) : hits \in Unranked}
           Less == OpToRel(<, Nat)
<1> SUFFICES ASSUME Unranked # {} PROVE FALSE
  OBVIOUS
<1>1. \A hits \in SUBSET all : IsFiniteSet(hits) /\ Cardinality(hits) \in Nat
  BY FS_Subset, FS_CardinalityType
<1>2. Sizes \subseteq Nat /\ Sizes # {}
  BY <1>1
<1>3. PICK n \in Sizes : \A m \in Sizes : <<m, n>> \notin Less
  BY <1>2, WFMin, NatLessThanWellFounded
<1>4. PICK hits \in Unranked : n = Cardinality(hits)
  OBVIOUS
<1>5. hits # {}
  <2>1. [i \in 1..0 |-> 0] \in SetToSeqs({})
    BY FS_EmptySet DEF SetToSeqs
  <2>2. [i \in 1..0 |-> 0] \in Rankings({})
    BY <2>1 DEF Rankings
  <2> QED BY <2>2
<1>6. PICK w \in hits : \A h \in hits : w.score <= h.score
  BY <1>5, WorstExists
<1> DEFINE others == hits \ {w}
<1>7. others \in SUBSET all /\ Cardinality(others) = n - 1 /\ n \in Nat /\ n - 1 \in Nat
  BY <1>1, <1>4, FS_RemoveElement
<1>8. <<n - 1, n>> \in Less
  BY <1>7 DEF OpToRel
<1>9. others \notin Unranked
  BY <1>3, <1>7, <1>8
<1>10. PICK s \in Rankings(others) : TRUE
  BY <1>7, <1>9
<1>11. Rankings(hits) # {}
  BY <1>1, <1>6, <1>10, WorstComesLast
<1> QED BY <1>11

(* The sources of an answer: finitely many, each of a kind that has an authority. *)
Weighed(sources, authority) ==
  /\ IsFiniteSet(sources)
  /\ \A e \in sources : e.sure \in 0..100 /\ IsFiniteSet(e.terms) /\ authority[e.kind] \in Nat

LEMMA ScoreIs ==
  ASSUME NEW terms, IsFiniteSet(terms), NEW e, e.sure \in 0..100, NEW authority,
         authority[e.kind] \in Nat, Score(terms, e, authority) > 0
  PROVE  Score(terms, e, authority) \in Nat
<1>1. CASE terms = {}
  BY <1>1 DEF Score
<1>2. CASE terms # {}
  <2>1. Cardinality(terms) \in Nat \ {0}
    BY <1>2, FS_CardinalityType, FS_EmptySet
  <2>2. Cardinality(Matched(terms, e.terms)) \in Nat
    <3>1. Matched(terms, e.terms) \in SUBSET terms
      BY DEF Matched
    <3> QED BY <3>1, FS_Subset, FS_CardinalityType
  <2>3. Sureness(e) \in Nat
    BY DEF Sureness
  <2>4. \A a, b \in Nat : a * b \in Nat
    OBVIOUS
  <2>5. Cardinality(Matched(terms, e.terms)) * authority[e.kind] * Sureness(e) * 100 \in Nat
    BY <2>2, <2>3, <2>4
  <2>6. \A a \in Nat, b \in Nat \ {0} : a \div b \in Int
    OBVIOUS
  <2>7. Score(terms, e, authority) \in Int
    BY <1>2, <2>1, <2>5, <2>6 DEF Score
  <2> QED BY <2>7
<1> QED BY <1>1, <1>2

LEMMA HitsAre ==
  ASSUME NEW terms, IsFiniteSet(terms), NEW sources, NEW authority, Weighed(sources, authority)
  PROVE  /\ IsFiniteSet(Hits(terms, sources, authority))
         /\ \A h \in Hits(terms, sources, authority) : h.score \in Nat /\ h.entry \in sources
<1> DEFINE matching == {e \in sources : Score(terms, e, authority) > 0}
           hit == [e \in matching |-> [entry |-> e, score |-> Score(terms, e, authority)]]
<1>1. Hits(terms, sources, authority) = {hit[e] : e \in matching}
  BY DEF Hits
<1>2. \A e \in matching : Score(terms, e, authority) \in Nat
  BY ScoreIs DEF Weighed
<1>3. \A e \in matching : hit[e].entry = e /\ hit[e].score = Score(terms, e, authority)
  OBVIOUS
<1>4. IsFiniteSet(matching)
  BY FS_Subset DEF Weighed
<1>5. hit \in Surjection(matching, Hits(terms, sources, authority))
  <2> HIDE DEF hit
  <2>1. DOMAIN hit = matching /\ hit = [e \in matching |-> hit[e]]
    BY DEF hit
  <2> QED BY <1>1, <2>1 DEF Surjection
<1>6. IsFiniteSet(Hits(terms, sources, authority))
  BY <1>4, <1>5, FS_Surjection
<1> HIDE DEF hit
<1> QED BY <1>1, <1>2, <1>3, <1>6

(* So there is a ranking to choose. *)
LEMMA RankedIs ==
  ASSUME NEW terms, IsFiniteSet(terms), NEW sources, NEW authority, Weighed(sources, authority)
  PROVE  /\ Ranked(terms, sources, authority) \in Seq(Hits(terms, sources, authority))
         /\ \A h \in Hits(terms, sources, authority) : h.score \in Nat /\ h.entry \in sources
<1>1. /\ IsFiniteSet(Hits(terms, sources, authority))
      /\ \A h \in Hits(terms, sources, authority) : h.score \in Nat /\ h.entry \in sources
  BY HitsAre
<1>2. Rankings(Hits(terms, sources, authority)) # {}
  BY <1>1, RankingExists
<1>3. Ranked(terms, sources, authority) \in Rankings(Hits(terms, sources, authority))
  BY <1>2 DEF Ranked
<1> QED BY <1>1, <1>3, RankingIs

LEMMA ConfidenceIsWhole ==
  ASSUME NEW hits, \A h \in hits : h.score \in Nat, NEW s \in Seq(hits)
  PROVE  ConfidenceOf(s) \in Int
<1> DEFINE scores == [i \in 1..3 |-> IF i <= Len(s) THEN s[i].score ELSE 0]
<1>1. \A i \in 1..3 : scores[i] \in Nat
  OBVIOUS
<1>2. scores[1] \in Nat /\ scores[2] \in Nat /\ scores[3] \in Nat
  BY <1>1
<1> HIDE DEF scores
<1>3. \A x \in Int : Smaller(950000, Rounded(x)) \in Int
  BY DEF Smaller, Rounded
<1>4. scores[1] + ((scores[2] + scores[3]) * 15) \div 100 \in Int
  BY <1>2
<1>5. ConfidenceOf(s) = Smaller(950000, Rounded(scores[1] + ((scores[2] + scores[3]) * 15) \div 100))
  BY DEF ConfidenceOf, scores
<1> QED BY <1>3, <1>4, <1>5

(* The best three are three of them. *)
LEMMA TopIs ==
  ASSUME NEW hits, NEW s \in Seq(hits)
  PROVE  ToSet(Top(s)) \subseteq hits
<1> DEFINE n == Smaller(3, Len(s))
<1>1. n \in Nat /\ n <= Len(s)
  BY DEF Smaller
<1>2. SubSeq(s, 1, n) \in Seq(hits)
  BY <1>1, SubSeqProperties
<1> HIDE DEF n
<1>3. \A i \in DOMAIN SubSeq(s, 1, n) : SubSeq(s, 1, n)[i] \in hits
  BY <1>2
<1> QED BY <1>3 DEF Top, ToSet, n

(* Every kind of source has an authority. *)
LEMMA OverlaidIsNat ==
  ASSUME NEW f, NEW g, \A k \in DOMAIN f : f[k] \in Nat, \A k \in DOMAIN g : g[k] \in Nat
  PROVE  /\ DOMAIN Overlaid(f, g) = DOMAIN f \cup DOMAIN g
         /\ \A k \in DOMAIN Overlaid(f, g) : Overlaid(f, g)[k] \in Nat
BY DEF Overlaid

LEMMA AuthoritiesAreNat ==
  /\ \A k \in DOMAIN SupervisionAuthority : SupervisionAuthority[k] \in Nat
  /\ DOMAIN SupervisionAuthority =
       DOMAIN BriefAuthority \cup (DOMAIN MemoryAuthority \cup DOMAIN RepositoryAuthority)
  /\ \A k \in DOMAIN InvestigationAuthority : InvestigationAuthority[k] \in Nat
  /\ "earlier" \in DOMAIN InvestigationAuthority
<1>1. \A k \in DOMAIN BriefAuthority : BriefAuthority[k] \in Nat
  BY DEF BriefAuthority
<1>2. \A k \in DOMAIN MemoryAuthority : MemoryAuthority[k] \in Nat
  BY DEF MemoryAuthority
<1>3. \A k \in DOMAIN RepositoryAuthority : RepositoryAuthority[k] \in Nat
  BY DEF RepositoryAuthority
<1> DEFINE below == Overlaid(MemoryAuthority, RepositoryAuthority)
           further == [commit |-> 45, company |-> 90, answer |-> 70, earlier |-> 85, item |-> 80,
                       global |-> 80]
<1>4. /\ DOMAIN below = DOMAIN MemoryAuthority \cup DOMAIN RepositoryAuthority
      /\ \A k \in DOMAIN below : below[k] \in Nat
  BY <1>2, <1>3, OverlaidIsNat
<1>5. /\ DOMAIN SupervisionAuthority = DOMAIN BriefAuthority \cup DOMAIN below
      /\ \A k \in DOMAIN SupervisionAuthority : SupervisionAuthority[k] \in Nat
  <2> HIDE DEF below
  <2> QED BY <1>1, <1>4, OverlaidIsNat DEF SupervisionAuthority, below
<1>6. (\A k \in DOMAIN further : further[k] \in Nat) /\ "earlier" \in DOMAIN further
  OBVIOUS
<1>7. InvestigationAuthority = Overlaid(further, SupervisionAuthority)
  BY DEF InvestigationAuthority
<1> HIDE DEF below, further
<1>8. /\ DOMAIN InvestigationAuthority = DOMAIN further \cup DOMAIN SupervisionAuthority
      /\ \A k \in DOMAIN InvestigationAuthority : InvestigationAuthority[k] \in Nat
  BY <1>5, <1>6, <1>7, OverlaidIsNat
<1> QED BY <1>4, <1>5, <1>6, <1>8

LEMMA RunContextIsWeighed ==
  ASSUME NEW c \in Runs, NEW store \in Stores
  PROVE  Weighed(LoadRunContext(c, store), SupervisionAuthority)
<1>1. IsFiniteSet(LoadRunContext(c, store)) /\ LoadRunContext(c, store) \subseteq store
  <2>1. LoadRunContext(c, store) \in SUBSET store
    BY DEF LoadRunContext
  <2> QED BY <2>1, CodingSessionAssumption, FS_Subset
<1>2. \A e \in store : e.sure \in 0..100 /\ IsFiniteSet(e.terms)
  BY CodingSessionAssumption DEF AnswerSource
<1>3. ASSUME NEW e \in LoadRunContext(c, store)
      PROVE  e.kind \in DOMAIN SupervisionAuthority
  <2>1. CASE IsBrief(e)
    BY <2>1, AuthoritiesAreNat DEF IsBrief
  <2>2. CASE e.kind \in DOMAIN RepositoryAuthority
    BY <2>2, AuthoritiesAreNat
  <2>3. CASE MemoryForTask(e, c)
    <3>1. e.kind \in DOMAIN MemoryAuthority
      BY <2>3 DEF MemoryForTask, MemoryAuthority
    <3> QED BY <3>1, AuthoritiesAreNat
  <2> QED BY <1>3, <2>1, <2>2, <2>3 DEF LoadRunContext
<1> QED BY <1>1, <1>2, <1>3, AuthoritiesAreNat DEF Weighed

(* What an investigation gathers: entries on record as they are, and of what other tasks'
   briefs said for good, its own copies. *)
LEMMA GatheredAreWeighed ==
  ASSUME NEW c \in Runs, NEW store \in Stores
  PROVE  Weighed(GatherSources(c, store), InvestigationAuthority)
<1> DEFINE own(e) ==
             \/ IsBrief(e) /\ e.task = c.task /\ e.version \in LatestVersion(c, store)
             \/ e.kind \in DOMAIN RepositoryAuthority \cup {"commit"} /\ e.task = c.task
             \/ MemoryForTask(e, c) \/ PreviousAnswer(e, c)
             \/ CompanyContext(e, c) \/ MondayContext(e, c)
           entries == {e \in store : own(e)}
           others == {d \in store : EarlierBrief(d, c)}
           copy == [e \in others |-> [e EXCEPT !.kind = "earlier"]]
           copies == {copy[e] : e \in others}
<1>1. GatherSources(c, store) = entries \cup copies
  BY DEF GatherSources
<1>2. entries \in SUBSET store /\ others \in SUBSET store
  OBVIOUS
<1>3. store \subseteq AnswerSource /\ IsFiniteSet(store) /\ \A e \in store : IsFiniteSet(e.terms)
  BY CodingSessionAssumption
<1>4. \A e \in others : copy[e] \in AnswerSource /\ copy[e].terms = e.terms
  BY <1>2, <1>3, AuthoritiesAreNat DEF AnswerSource
<1>5. copy \in Surjection(others, copies)
  <2> HIDE DEF copy, others
  <2>1. DOMAIN copy = others /\ copy = [e \in others |-> copy[e]]
    BY DEF copy
  <2> QED BY <2>1 DEF Surjection
<1> HIDE DEF entries, others, copy
<1>6. IsFiniteSet(entries) /\ IsFiniteSet(others)
  BY <1>2, <1>3, FS_Subset
<1>7. IsFiniteSet(copies)
  BY <1>5, <1>6, FS_Surjection
<1>8. IsFiniteSet(entries \cup copies)
  BY <1>6, <1>7, FS_Union
<1>9. \A e \in entries \cup copies : e \in AnswerSource /\ IsFiniteSet(e.terms)
  BY <1>2, <1>3, <1>4
<1>10. \A e \in entries \cup copies : e.sure \in 0..100 /\ e.kind \in DOMAIN InvestigationAuthority
  BY <1>9 DEF AnswerSource
<1> HIDE DEF copies
<1> QED BY <1>1, <1>8, <1>9, <1>10, AuthoritiesAreNat DEF Weighed

(* None of it is a note of another task, another project's, or an answer of this very run. *)
LEMMA GatheredAreOfTheRun ==
  ASSUME NEW c \in Runs, NEW store \in Stores, NEW e \in GatherSources(c, store)
  PROVE  /\ e.kind = "task" => e.task = c.task
         /\ e.kind \in {"project", "answer", "earlier"} => e.project = c.project
         /\ e.kind = "company" => e.revision = c.revision
         /\ e.kind = "answer" => e.run # c.run /\ e.decision # "assumed"
<1>1. CASE \E d \in store : EarlierBrief(d, c) /\ e = [d EXCEPT !.kind = "earlier"]
  <2>1. PICK d \in store : EarlierBrief(d, c) /\ e = [d EXCEPT !.kind = "earlier"]
    BY <1>1
  <2>2. e.kind = "earlier" /\ e.project = d.project
    BY <2>1, CodingSessionAssumption DEF AnswerSource
  <2> QED BY <2>1, <2>2 DEF EarlierBrief
<1>2. CASE IsBrief(e)
  BY <1>2 DEF IsBrief, BriefAuthority
<1>3. CASE e.kind \in DOMAIN RepositoryAuthority \cup {"commit"}
  BY <1>3 DEF RepositoryAuthority
<1>4. CASE MemoryForTask(e, c)
  BY <1>4 DEF MemoryForTask
<1>5. CASE PreviousAnswer(e, c)
  BY <1>5 DEF PreviousAnswer
<1>6. CASE CompanyContext(e, c)
  BY <1>6 DEF CompanyContext
<1>7. CASE MondayContext(e, c)
  BY <1>7 DEF MondayContext
<1> QED BY <1>1, <1>2, <1>3, <1>4, <1>5, <1>6, <1>7 DEF GatherSources

(* A cap is a cap. *)
LEMMA UngroundedIsCapped ==
  ASSUME NEW confidence \in Int
  PROVE  CapUngroundedConfidence(confidence, {}) <= UNGROUNDED_CONFIDENCE_CEILING
BY DEF CapUngroundedConfidence, DeriveGroundedness, Smaller, UNGROUNDED_CONFIDENCE_CEILING

LEMMA CappedIsWhole ==
  ASSUME NEW confidence \in Int, NEW evidence
  PROVE  CapUngroundedConfidence(confidence, evidence) \in Int
BY DEF CapUngroundedConfidence, Smaller, UNGROUNDED_CONFIDENCE_CEILING

LEMMA SupervisionIsWhole ==
  ASSUME NEW q \in Subjects, NEW c \in Runs, NEW store \in Stores, NEW policy
  PROVE  SuperviseQuestion(q, c, store, policy).confidence \in Int
<1> DEFINE terms == q.terms \cup q.context
           sources == LoadRunContext(c, store)
<1>1. IsFiniteSet(terms)
  BY CodingSessionAssumption, FS_Union
<1>2. Weighed(sources, SupervisionAuthority)
  BY RunContextIsWeighed
<1> HIDE DEF terms, sources
<1>3. ConfidenceOf(Ranked(terms, sources, SupervisionAuthority)) \in Int
  BY <1>1, <1>2, RankedIs, ConfidenceIsWhole
<1> QED BY <1>3 DEF SuperviseQuestion, terms, sources

LEMMA InvestigationIs ==
  ASSUME NEW q \in Subjects, NEW c \in Runs, NEW store \in Stores, NEW policy
  PROVE  /\ Investigate(q, c, store, policy).confidence \in Int
         /\ Investigate(q, c, store, policy).evidence \subseteq GatherSources(c, store)
<1> DEFINE terms == q.terms \cup q.context
           sources == GatherSources(c, store)
           ranked == Ranked(terms, sources, InvestigationAuthority)
           evidence == {hit.entry : hit \in ToSet(Top(ranked))}
<1>1. IsFiniteSet(terms)
  BY CodingSessionAssumption, FS_Union
<1>2. Weighed(sources, InvestigationAuthority)
  BY GatheredAreWeighed
<1>3. /\ Investigate(q, c, store, policy).confidence
           = CapUngroundedConfidence(ConfidenceOf(ranked), evidence)
      /\ Investigate(q, c, store, policy).evidence = evidence
  BY DEF Investigate
<1> HIDE DEF terms, sources
<1>4. /\ ranked \in Seq(Hits(terms, sources, InvestigationAuthority))
      /\ \A h \in Hits(terms, sources, InvestigationAuthority) : h.score \in Nat /\ h.entry \in sources
  BY <1>1, <1>2, RankedIs
<1> HIDE DEF ranked
<1>5. ConfidenceOf(ranked) \in Int
  BY <1>4, ConfidenceIsWhole
<1>6. evidence \subseteq sources
  BY <1>4, TopIs
<1> HIDE DEF evidence
<1> QED BY <1>3, <1>5, <1>6, CappedIsWhole DEF sources

(* What Mac is sure of has something on record behind it, and what is behind it is of the run
   he answers in. *)
LEMMA WhatIsAnsweredIsGrounded == Grounded
<1> SUFFICES ASSUME NEW x \in Answers
             PROVE  /\ x.a.confidence > UNGROUNDED_CONFIDENCE_CEILING => x.a.evidence # {}
                    /\ \A e \in x.a.evidence :
                         /\ e.kind = "task" => e.task = x.c.task
                         /\ e.kind \in {"project", "answer", "earlier"} => e.project = x.c.project
                         /\ e.kind = "company" => e.revision = x.c.revision
                         /\ e.kind = "answer" => e.run # x.c.run /\ e.decision # "assumed"
  BY DEF Grounded
<1>1. PICK q \in Subjects, c \in Runs, store \in Stores, policy \in Policies, failed \in BOOLEAN :
        x = [q |-> q, c |-> c, store |-> store, a |-> AnswerTo(q, c, store, policy, failed)]
  BY DEF Answers
<1> DEFINE supervision == SuperviseQuestion(q, c, store, policy)
           investigation == IF failed THEN NoInvestigation ELSE Investigate(q, c, store, policy)
<1>2. supervision.confidence \in Int
  BY SupervisionIsWhole
<1>3. investigation.confidence \in Int /\ investigation.evidence \subseteq GatherSources(c, store)
  BY InvestigationIs DEF NoInvestigation
<1>4. x.c = c /\ x.a = AnswerFrom(supervision, investigation)
  BY <1>1 DEF AnswerTo
<1> HIDE DEF supervision, investigation
<1>5. PICK confidence \in Int :
        /\ x.a.confidence = CapUngroundedConfidence(confidence, investigation.evidence)
        /\ x.a.evidence = investigation.evidence
  BY <1>2, <1>3, <1>4 DEF AnswerFrom
<1>6. x.a.confidence > UNGROUNDED_CONFIDENCE_CEILING => x.a.evidence # {}
  <2> SUFFICES ASSUME x.a.evidence = {} PROVE ~(x.a.confidence > UNGROUNDED_CONFIDENCE_CEILING)
    OBVIOUS
  <2>1. x.a.confidence <= UNGROUNDED_CONFIDENCE_CEILING /\ x.a.confidence \in Int
    BY <1>5, UngroundedIsCapped, CappedIsWhole
  <2> QED BY <2>1 DEF UNGROUNDED_CONFIDENCE_CEILING
<1> QED BY <1>3, <1>4, <1>5, <1>6, GatheredAreOfTheRun

-----------------------------------------------------------------------------
(* The shim.                                                               *)

(* The shim lets no command move the default branch, and refuses no push of the task's own. *)
LEMMA InvKeepsDefault == Inv => DefaultBranchStays
<1>1. CheckGitCommand(PushOfTaskBranch, MacPolicy)
  BY DEF CheckGitCommand, PushOfTaskBranch, MacPolicy, CheckPush, PermitsDirectory, PermitsOverride
<1> QED BY <1>1 DEF Inv, DefaultIsLeft, DefaultBranchStays

-----------------------------------------------------------------------------
(* The theorems.                                                           *)

(* The job, its requests and the control plane's records have their types whatever the agent
   does and whatever calls are lost. *)
THEOREM TypeCorrect == Spec => []TypeOK
<1>1. Inv => TypeOK
  BY DEF Inv, Typed
<1> QED BY <1>1, Invariance, PTL

(* Of all the commands the policy knows, with any options and in any order, those the shim
   lets through never move the default branch nor check it out (protocol/git-policy.ts). *)
THEOREM DefaultIsNeverTouched == Spec => []DefaultBranchStays
<1>1. Inv => DefaultBranchStays
  BY InvKeepsDefault
<1> QED BY <1>1, Invariance, PTL

(* Whatever the agent does in the worktree, whichever requests and replies are lost, repeated
   or served late, and whenever the stop arrives: what is published, and what is removed, is
   what Mac's own review of that very work recommended, and the default branch stays where it
   was (jobs/claude-code.ts, protocol/git-policy.ts). *)
THEOREM OnlyWarrantedDelivery == Spec => []DeliveryIsWarranted
<1>1. Inv => RemovedMeansPublished
  BY DEF Inv, ReviewIsOfTheWork, PublicationIsOfTheBranch, RemoveWorktree, RemovedMeansPublished
<1>2. Inv => PullRequestsAreWarranted
  BY DEF Inv, ReviewIsOfTheWork, PublicationIsOfTheBranch, PullRequestsAreWarranted
<1>3. Inv => DeliveryIsWarranted
  BY <1>1, <1>2, InvKeepsDefault DEF DeliveryIsWarranted
<1> QED BY <1>3, Invariance, PTL

(* However often a question arrives it has one answer, the one the agent is told, and one that
   the brief and the risk of the question allow, whatever is on record and however sure Mac is
   (services/supervision.ts). *)
THEOREM AnswersAreFinal == Spec => []AnswersStand
<1>1. Inv => AnswersStand
  BY WhatIsAnsweredIsSafe DEF Inv, AnswersStand, AnswersAreSafe
<1> QED BY <1>1, Invariance, PTL

(* Whatever is on record, and whatever an investigation finds or fails to find: an answer surer
   than a guess may be has a source, and no source is a note of another task, of another
   project, of another revision of the company's context, or what Mac answered in this very run
   (services/investigation.ts, domain/supervision.ts). *)
THEOREM AnswersAreOnRecord == Spec => []AnswersAreGrounded
<1>1. AnswersAreGrounded
  BY WhatIsAnsweredIsGrounded DEF AnswersAreGrounded
<1> QED BY <1>1, PTL
=============================================================================
