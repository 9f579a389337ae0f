----------------------------- MODULE Confidence -----------------------------
(***************************************************************************)
(* What Mac may do at a given confidence (domain/confidence.ts), and what  *)
(* a coding run needs before it may start (services/coding-runs.ts).       *)
(* Confidences are compared as millionths, and one may be missing.         *)
(***************************************************************************)
EXTENDS Integers

HighAutonomy == 900000
Missing == -1   \* no confidence was recorded

(* settings: the floor nobody may lower, the autonomy threshold, the answering one. *)
Policy(floor, threshold, answerAt) ==
  [floor |-> floor, threshold |-> threshold, answerAt |-> answerAt]

ClassifyConfidence(confidence, policy) ==
  CASE confidence < policy.floor -> "below_floor"
    [] policy.floor <= confidence /\ confidence < policy.threshold -> "limited_scope"
    [] OTHER -> IF confidence < HighAutonomy THEN "autonomous" ELSE "high_autonomy"

AdviseExecution(confidence, policy) ==
  LET band == ClassifyConfidence(confidence, policy) IN
  [band |-> band,
   executionPermitted |-> confidence # Missing /\ band # "below_floor",
   scopeKind |-> IF band \in {"autonomous", "high_autonomy"} THEN "full" ELSE "limited"]

(* The floor is a prohibition; below the threshold a person says why, and says so. *)
CheckApprovalConfidence(confidence, policy, acknowledged, notes) ==
  LET band == ClassifyConfidence(confidence, policy) IN
  /\ confidence # Missing /\ band # "below_floor"
  /\ band = "limited_scope" => acknowledged /\ notes

(* The decision about a question in the middle of a run: risk comes before confidence, and
   low confidence is good for nothing but what is cheap to undo. *)
DecideAction(d, policy) ==
  CASE d.sensitive \/ d.risk = "high" \/ ~d.withinApprovedScope -> "blocked"
    [] ~(d.sensitive \/ d.risk = "high" \/ ~d.withinApprovedScope) ->
         IF d.confidence >= policy.answerAt THEN "answered"
         ELSE IF ~d.reversible \/ (d.confidence < policy.floor /\ d.risk # "low") THEN "blocked"
              ELSE "assumed"

-----------------------------------------------------------------------------
(* A coding run until it starts.                                           *)

(* createCodingRun: the repository is approved and of the task's project, the brief is the
   task's, and the brief is sure enough. *)
CreateCodingRun(s, policy) ==
  /\ s.codingAgentEnabled
  /\ s.repositoryApproved /\ s.sameProject /\ s.sameTask
  /\ AdviseExecution(s.confidence, policy).executionPermitted

(* buildCodingAssignment: the approval of the repository may have been withdrawn since. *)
BuildCodingAssignment(s) == s.stillApproved

(* What becomes of the confidence by the time of the review, which goes by the threshold of
   that moment, and by the scope the run was created with. *)
SureEnough(confidence, scopeKind, policy) ==
  /\ confidence # Missing
  /\ confidence < policy.threshold => scopeKind = "limited"
=============================================================================
