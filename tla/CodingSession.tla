--------------------------- MODULE CodingSession ---------------------------
(***************************************************************************)
(* The control plane's side of one coding run (services/supervision.ts,    *)
(* coding-runs.ts, coding-sessions.ts, reviews.ts): the questions of the   *)
(* coding agent and what was decided about them, the worktree, the refused *)
(* git operations, the self-review and the pull request.                   *)
(*                                                                         *)
(* Each operation handles one request of the worker in one transaction,    *)
(* and is served whatever became of the run, but for the self-review.      *)
(* What is asked, what is on record and what was changed is a choice; what *)
(* follows from it is worked out by Supervision, Confidence and Review.    *)
(***************************************************************************)
EXTENDS Supervision, Review

CONSTANTS
  Question,       \* the agent's questions, by questionId
  MaxQuestions,   \* settings.maxQuestionsPerRun
  MaxRows,        \* bound: rows of one kind a question or a refusal leaves
  Policies,       \* settings of the confidences, which may change during the run
  Confidences,    \* what the brief's confidence may be
  Subjects,       \* what a question may be about
  Stores,         \* what may be on record: sets of entries
  Runs,           \* whose run it may be: task, project, version of the brief, revision
  Changes, Briefs \* what the work may change, what the brief may say of that

ASSUME CodingSessionAssumption ==
  /\ IsFiniteSet(Question)
  /\ \A store \in Stores : IsFiniteSet(store) /\ store \subseteq AnswerSource
  /\ \A store \in Stores : \A e \in store : IsFiniteSet(e.terms)
  /\ \A q \in Subjects : IsFiniteSet(q.terms) /\ IsFiniteSet(q.context)
  /\ MaxQuestions \in Nat /\ MaxRows \in Nat \ {0}

VARIABLES
  run,            \* runs.status, from running on
  decided,        \* agent_questions.decision, or "none" for a question never asked
  consequences,   \* the run_blockers and run_assumptions rows, by question and kind
  worktreeRow,    \* worktrees.status, or "none"
  violationRows,  \* how many git_violations rows there are
  review,         \* run_reviews, or NoReview
  pullRequestRow  \* whether pull_requests has the run

sessionVars ==
  <<run, decided, consequences, worktreeRow, violationRows, review, pullRequestRow>>

DECISIONS == {"answered", "assumed", "blocked"}
VERDICTS == {"does_not_satisfy_brief", "unreviewable", "partially_satisfies_brief",
             "satisfies_brief"}
KINDS == {"blocker", "assumption"}

(* What the worker found: commits, files not committed, refused git operations, whether a
   test or build failed and whether the default branch is where it was. *)
Evidence ==
  [commits : Nat, dirty : BOOLEAN, prohibited : Nat, failed : BOOLEAN, unchanged : BOOLEAN]

NoReview == [verdict |-> "none", attention |-> TRUE, recommended |-> FALSE]
Review == [verdict : VERDICTS, attention : BOOLEAN, recommended : BOOLEAN]

TypeOKSession ==
  /\ run \in {"running", "self_review", "ended"}
  /\ decided \in [Question -> DECISIONS \cup {"none"}]
  /\ consequences \in [Question -> [KINDS -> 0..MaxRows]]
  /\ worktreeRow \in {"none", "active", "preserved", "removed"}
  /\ violationRows \in 0..MaxRows
  /\ review \in Review \cup {NoReview}
  /\ pullRequestRow \in BOOLEAN

InitSession ==
  /\ run = "running"
  /\ decided = [q \in Question |-> "none"]
  /\ consequences = [q \in Question |-> [k \in KINDS |-> 0]]
  /\ worktreeRow = "none"
  /\ violationRows = 0
  /\ review = NoReview
  /\ pullRequestRow = FALSE

-----------------------------------------------------------------------------
(* answerAgentQuestion.                                                    *)

Asked == {q \in Question : decided[q] # "none"}
Blocked == {q \in Question : decided[q] = "blocked"}
Rows(kind) == {q \in Question : consequences[q][kind] > 0}

(* What may be decided about a question within the limit. *)
Decisions ==
  {AnswerTo(subject, c, store, policy, failed).decision :
     subject \in Subjects, c \in Runs, store \in Stores, policy \in Policies, failed \in BOOLEAN}

(* insertBlocker, or the row of an assumption. *)
Leaves(q, kind) ==
  /\ consequences[q][kind] < MaxRows
  /\ consequences' = [consequences EXCEPT ![q][kind] = @ + 1]

FinaliseQuestion(q, decision) == decided' = [decided EXCEPT ![q] = decision]

Decides(q, decision) ==
  /\ FinaliseQuestion(q, decision)
  /\ \/ decision = "answered" /\ UNCHANGED consequences
     \/ decision = "assumed" /\ Leaves(q, "assumption")
     \/ decision = "blocked" /\ Leaves(q, "blocker")

DecidesAgain(q) ==  \* mutant: a question is decided each time it arrives
  /\ \E decision \in Decisions : Decides(q, decision)
  /\ UNCHANGED <<run, worktreeRow, violationRows, review, pullRequestRow>>

(* A question that was answered keeps its answer; one past the limit is blocked. *)
AnswerAgentQuestion(q) ==
  /\ IF decided[q] # "none" THEN UNCHANGED <<decided, consequences>>
     ELSE \E decision \in IF Cardinality(Asked) >= MaxQuestions THEN {"blocked"} ELSE Decisions :
            Decides(q, decision)
  /\ UNCHANGED <<run, worktreeRow, violationRows, review, pullRequestRow>>

-----------------------------------------------------------------------------
(* recordWorktree, recordGitViolation.                                     *)

RecordWorktree(status) ==
  /\ worktreeRow' = status
  /\ UNCHANGED <<run, decided, consequences, violationRows, review, pullRequestRow>>

RecordGitViolation ==
  /\ violationRows < MaxRows
  /\ violationRows' = violationRows + 1
  /\ UNCHANGED <<run, decided, consequences, worktreeRow, review, pullRequestRow>>

-----------------------------------------------------------------------------
(* submitReview.                                                           *)

(* "met": the criteria are visible in the work.  The runs that get this far, and whether Mac
   is sure enough of them when he reviews them. *)
Judgements == {Judgement(change, brief) : change \in Changes, brief \in Briefs}

Setup ==
  [codingAgentEnabled : BOOLEAN, repositoryApproved : BOOLEAN, sameProject : BOOLEAN,
   sameTask : BOOLEAN, stillApproved : BOOLEAN, acknowledged : BOOLEAN, notes : BOOLEAN,
   confidence : Confidences]

MayStart(s, created, approved) ==
  /\ CreateCodingRun(s, created)
  /\ CheckApprovalConfidence(s.confidence, approved, s.acknowledged, s.notes)
  /\ BuildCodingAssignment(s)

StartedRuns ==
  UNION {{[confidence |-> s.confidence, scopeKind |-> AdviseExecution(s.confidence, created).scopeKind] :
            s \in {s \in Setup : \E approved \in Policies : MayStart(s, created, approved)}} :
         created \in Policies}

SureOrNot == {SureEnough(r.confidence, r.scopeKind, policy) : r \in StartedRuns, policy \in Policies}

Verdict(e, met) ==
  CASE e.commits = 0 -> "does_not_satisfy_brief"
    [] e.commits > 0 /\ (~e.unchanged \/ e.prohibited > 0) -> "unreviewable"
    [] OTHER -> IF e.failed \/ Rows("blocker") # {} \/ ~met THEN "partially_satisfies_brief"
                ELSE "satisfies_brief"

AttentionToDecisions(e, met, notable) ==  \* mutant: what is not committed needs nobody
  Verdict(e, met) # "satisfies_brief" \/ notable \/ Rows("blocker") # {} \/ Blocked # {}
    \/ Rows("assumption") # {}

(* "notable": the change is risky, or larger than the brief. *)
HumanAttentionRequired(e, met, notable) ==
  \/ Verdict(e, met) # "satisfies_brief" \/ notable
  \/ Rows("blocker") # {} \/ Blocked # {} \/ Rows("assumption") # {}
  \/ e.dirty

UnlessReported(e, sure) ==  \* mutant: only refusals that were uploaded count
  violationRows = 0 /\ e.unchanged /\ e.commits > 0 /\ sure /\ ~e.failed /\ Blocked = {}

(* firstFailingPrCondition finds none. *)
PullRequestRecommended(e, sure) ==
  /\ violationRows = 0 /\ e.prohibited = 0
  /\ e.unchanged /\ e.commits > 0
  /\ sure
  /\ ~e.failed
  /\ Blocked = {}

ReviewOf(e, met, notable, sure) ==
  [verdict |-> Verdict(e, met), attention |-> HumanAttentionRequired(e, met, notable),
   recommended |-> PullRequestRecommended(e, sure)]

(* Only a running run enters self_review: a second submission is refused. *)
MayReview == run = "running"

SubmitReview(e) ==
  /\ MayReview
  /\ run' = "self_review"
  /\ \E j \in Judgements, sure \in SureOrNot : review' = ReviewOf(e, j.met, j.notable, sure)
  /\ UNCHANGED <<decided, consequences, worktreeRow, violationRows, pullRequestRow>>

-----------------------------------------------------------------------------
(* recordPullRequest asks for the review, not for the run.                 *)

MayRecordPullRequest == review.recommended

RecordPullRequest ==
  /\ MayRecordPullRequest
  /\ pullRequestRow' = TRUE
  /\ UNCHANGED <<run, decided, consequences, worktreeRow, violationRows, review>>

-----------------------------------------------------------------------------
(* The run ends without its worker: an administrator forces it, or its lease is swept. *)

RunEnds ==
  /\ run # "ended"
  /\ run' = "ended"
  /\ UNCHANGED <<decided, consequences, worktreeRow, violationRows, review,
                 pullRequestRow>>

-----------------------------------------------------------------------------
(* Properties of the answers, over all that may be asked and be on record. *)

Answers ==
  {[q |-> subject, c |-> c, store |-> store,
    a |-> AnswerTo(subject, c, store, policy, failed)] :
     subject \in Subjects, c \in Runs, store \in Stores, policy \in Policies, failed \in BOOLEAN}

Safe ==
  \A x \in Answers : x.a.decision # "blocked" =>
    /\ ~x.q.sensitive
    /\ ~\E e \in x.store :
         /\ e.kind = "outOfScope" /\ e.task = x.c.task /\ e.version = x.c.version
         /\ e.terms # {} /\ e.terms \subseteq x.q.terms
    /\ x.a.decision = "assumed" => ~x.q.irreversible

Grounded ==
  \A x \in Answers :
    /\ x.a.confidence > UNGROUNDED_CONFIDENCE_CEILING => x.a.evidence # {}
    /\ \A e \in x.a.evidence :
         /\ e.kind = "task" => e.task = x.c.task
         /\ e.kind \in {"project", "answer", "earlier"} => e.project = x.c.project
         /\ e.kind = "company" => e.revision = x.c.revision
         /\ e.kind = "answer" => e.run # x.c.run /\ e.decision # "assumed"

(* Where a question is answered at all: however sure Mac is, and whatever an investigation
   found, he neither answers nor assumes what is sensitive or what the brief the run was
   approved with excludes, and assumes nothing that cannot be undone (confidence.ts: risk is
   evaluated before confidence; services/supervision.ts: nothing here can make an unsafe
   decision safe). *)
AnswersAreSafe == Asked # {} => Safe

(* Where a question is answered at all: an answer sure enough to act on has something on
   record behind it, and nothing of what is behind it is a note of another task, knowledge of
   another project, another revision of the company's context, or an answer Mac gave in this
   very run (services/investigation.ts: a single guess may not bootstrap itself into a
   confident fact). *)
AnswersAreGrounded == Asked # {} => Grounded
=============================================================================
