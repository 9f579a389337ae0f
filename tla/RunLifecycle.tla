---------------------------- MODULE RunLifecycle ----------------------------
(***************************************************************************)
(* The control plane's run lifecycle: the rows of the tables runs,         *)
(* approvals, tasks and workers, and the service functions of              *)
(* apps/server/src/services/runs.ts (with coding-runs.ts, reviews.ts and   *)
(* the night shift's startSelectedTask) that change them.                  *)
(*                                                                         *)
(* Every service function runs one PostgreSQL transaction that takes the   *)
(* run row FOR UPDATE, so a function is one action.  Two are not atomic    *)
(* and are split where the code is: completeRun reviews acceptance before  *)
(* it opens its transaction, and the cutoff sweeper stops, one by one, the *)
(* runs of a query it made earlier.                                        *)
(***************************************************************************)
EXTENDS Naturals, FiniteSets

CONSTANTS
  Run,            \* run rows: the ones that exist and the ones yet to be created
  Task,           \* task rows
  Worker,         \* registered workers
  TaskOf,         \* the task each run is created for
  Overnight,      \* the runs created with executionMode 'overnight'
  Coding,         \* the runs whose jobKind is 'claude_code'
  General,        \* the runs whose jobKind is 'general_task'
  NoWorker,       \* a NULL runs.worker_id
  NoRun,          \* a NULL workers.current_run_id
  MaxCompletions  \* bound: completion calls being served at one time

ASSUME ConstantsAssumption ==
  /\ TaskOf \in [Run -> Task]
  /\ Overnight \subseteq Run /\ Coding \subseteq Run /\ General \subseteq Run
  /\ Coding \cap General = {}
  /\ NoWorker \notin Worker /\ NoRun \notin Run
  /\ MaxCompletions \in Nat

VARIABLES
  status,           \* runs.status; "absent" while the row does not exist
  approvalState,    \* runs.approval_state
  decision,         \* the action of the run's latest row in approvals
  deadline,         \* runs.overnight_deadline_at against the clock
  workerId,         \* runs.worker_id
  cancelRequested,  \* runs.cancel_requested_at is not NULL
  stopReason,       \* runs.stop_reason
  attempt,          \* runs.attempt
  repoApproved,     \* repositories.is_approved of the one repository
  taskStatus,       \* tasks.status
  workerStatus,     \* workers.status
  currentRunId,     \* workers.current_run_id
  rejections,       \* audit rows run.transition_rejected of the control plane's own moves
  completions,      \* completion calls past their acceptance review
  cutoffSweep       \* runs the cutoff sweeper selected and has not stopped yet

runVars == <<status, approvalState, decision, deadline, workerId, cancelRequested,
             stopReason, attempt>>
workerVars == <<workerStatus, currentRunId>>
requestVars == <<rejections, completions, cutoffSweep>>
vars == <<runVars, repoApproved, taskStatus, workerVars, requestVars>>

-----------------------------------------------------------------------------
(* Enumerations and the transition table.                                  *)

TERMINAL == {"completed", "completed_with_gaps", "stopped_by_guardrail",
             "cancelled", "failed"}

RUN_STATUSES == {"draft", "discovery", "ready_for_approval", "approved", "queued",
                 "running", "blocked", "self_review", "ready_for_human_review"}
                \cup TERMINAL

RUN_TRANSITIONS ==
       ({"draft"} \X {"discovery", "ready_for_approval", "cancelled"})
  \cup ({"discovery"} \X {"ready_for_approval", "blocked", "draft", "cancelled"})
  \cup ({"ready_for_approval"} \X {"approved", "draft", "cancelled"})
  \cup ({"approved"} \X {"queued", "cancelled", "stopped_by_guardrail"})
  \cup ({"queued"} \X {"running", "cancelled", "stopped_by_guardrail"})
  \cup ({"running"} \X {"blocked", "self_review", "ready_for_human_review", "completed",
                        "completed_with_gaps", "failed", "cancelled",
                        "stopped_by_guardrail"})
  \cup ({"blocked"} \X {"running", "cancelled", "stopped_by_guardrail", "failed"})
  \cup ({"self_review"} \X {"ready_for_human_review", "running", "completed",
                            "completed_with_gaps", "failed", "cancelled"})
  \cup ({"ready_for_human_review"} \X {"completed", "completed_with_gaps", "running",
                                       "cancelled"})

AnyTransition(from, to) == from # "absent"  \* mutant: a move that skips assertTransition
CanTransition(from, to) == <<from, to>> \in RUN_TRANSITIONS

IMMEDIATELY_CANCELLABLE == {"draft", "discovery", "ready_for_approval", "approved",
                            "queued"}
ParkedOnly == {"blocked", "self_review"}  \* mutant: running left out of the list
REQUIRES_WORKER_CANCEL == {"running", "blocked", "self_review"}

TASK_STATUSES == {"draft", "ready", "in_progress", "blocked", "done", "cancelled"}
WORKER_STATUSES == {"registered", "idle", "busy", "offline", "disabled"}

(* The stop reasons a run can acquire; "null" is the column's initial NULL, and "failed"
   stands for the several reasons a worker gives with a failed outcome. *)
StopReasons == {"null", "completed", "failed", "cancelled_by_user",
                "force_cancelled_worker_unreachable", "overnight_cutoff",
                "repository_not_approved", "model_provider_required"}

(* What a worker reports: worker.ts always sends a stopReason with its outcome,
   and for 'cancelled' it is the reason the control envelope carried. *)
Outcomes == {"succeeded", "failed", "cancelled"}
Completion == [run : Run, outcome : Outcomes, gaps : BOOLEAN]

TypeOK ==
  /\ status \in [Run -> RUN_STATUSES \cup {"absent"}]
  /\ approvalState \in [Run -> {"pending", "approved", "rejected"}]
  /\ decision \in [Run -> {"none", "approve", "reject"}]
  /\ deadline \in [Run -> {"none", "ahead", "passed"}]
  /\ workerId \in [Run -> Worker \cup {NoWorker}]
  /\ cancelRequested \in [Run -> BOOLEAN]
  /\ stopReason \in [Run -> StopReasons]
  /\ attempt \in [Run -> Nat]
  /\ repoApproved \in BOOLEAN
  /\ taskStatus \in [Task -> TASK_STATUSES]
  /\ workerStatus \in [Worker -> WORKER_STATUSES]
  /\ currentRunId \in [Worker -> Run \cup {NoRun}]
  /\ rejections \subseteq Run \X (RUN_STATUSES \cup {"absent"}) \X RUN_STATUSES
  /\ completions \subseteq Completion
  /\ cutoffSweep \subseteq Run

Terminal(r) == status[r] \in TERMINAL

Init ==
  /\ status = [r \in Run |-> "absent"]
  /\ approvalState = [r \in Run |-> "pending"]
  /\ decision = [r \in Run |-> "none"]
  /\ deadline = [r \in Run |-> "none"]
  /\ workerId = [r \in Run |-> NoWorker]
  /\ cancelRequested = [r \in Run |-> FALSE]
  /\ stopReason = [r \in Run |-> "null"]
  /\ attempt = [r \in Run |-> 0]
  /\ repoApproved = TRUE
  /\ taskStatus = [t \in Task |-> "ready"]
  /\ workerStatus = [w \in Worker |-> "idle"]
  /\ currentRunId = [w \in Worker |-> NoRun]
  /\ rejections = {}
  /\ completions = {}
  /\ cutoffSweep = {}

-----------------------------------------------------------------------------
(* transition(): the choke point every status change goes through.         *)

Transition(r, to) ==
  /\ CanTransition(status[r], to)
  /\ status' = [status EXCEPT ![r] = to]

(* A move the table refuses: the transaction rolls back, the audit row written
   out of band survives. *)
RejectTransition(r, to) ==
  /\ ~CanTransition(status[r], to)
  /\ rejections' = rejections \cup {<<r, status[r], to>>}
  /\ UNCHANGED <<runVars, repoApproved, taskStatus, workerVars, cutoffSweep>>

-----------------------------------------------------------------------------
(* Creation and approval.                                                  *)

CreateRun(r) ==
  /\ status[r] = "absent"
  /\ r \in Coding => repoApproved
  /\ status' = [status EXCEPT ![r] = "draft"]
  /\ UNCHANGED <<approvalState, decision, deadline, workerId, cancelRequested, stopReason,
                 attempt, repoApproved, taskStatus, workerVars, requestVars>>

SubmitForApproval(r) ==
  /\ Transition(r, "ready_for_approval")
  /\ approvalState' = [approvalState EXCEPT ![r] = "pending"]
  /\ UNCHANGED <<decision, deadline, workerId, cancelRequested, stopReason, attempt,
                 repoApproved, taskStatus, workerVars, requestVars>>

(* Resolved once, at approval: nextCutoffAfter(now) for an overnight run. *)
NoDeadline(r) == "none"  \* mutant: the deadline is left for later
DeadlineAtApproval(r) == IF r \in Overnight THEN "ahead" ELSE "none"

(* Two transitions, approved and then queued, in one transaction.  The confidence
   and allowlist verdicts depend on data outside this model: either can refuse, and
   then nothing changes. *)
ApproveRun(r) ==
  /\ CanTransition(status[r], "approved")
  /\ CanTransition("approved", "queued")
  /\ status' = [status EXCEPT ![r] = "queued"]
  /\ approvalState' = [approvalState EXCEPT ![r] = "approved"]
  /\ decision' = [decision EXCEPT ![r] = "approve"]
  /\ deadline' = [deadline EXCEPT ![r] = DeadlineAtApproval(r)]
  /\ UNCHANGED <<workerId, cancelRequested, stopReason, attempt, repoApproved, taskStatus,
                 workerVars, requestVars>>

RejectRun(r) ==
  /\ Transition(r, "draft")
  /\ approvalState' = [approvalState EXCEPT ![r] = "rejected"]
  /\ decision' = [decision EXCEPT ![r] = "reject"]
  /\ UNCHANGED <<deadline, workerId, cancelRequested, stopReason, attempt, repoApproved,
                 taskStatus, workerVars, requestVars>>

(* The night shift creates, approves by policy and queues a run in one transaction. *)
StartSelectedTask(r) ==
  /\ status[r] = "absent"
  /\ r \in Overnight
  /\ r \in Coding => repoApproved
  /\ status' = [status EXCEPT ![r] = "queued"]
  /\ approvalState' = [approvalState EXCEPT ![r] = "approved"]
  /\ decision' = [decision EXCEPT ![r] = "approve"]
  /\ deadline' = [deadline EXCEPT ![r] = "ahead"]
  /\ UNCHANGED <<workerId, cancelRequested, stopReason, attempt, repoApproved, taskStatus,
                 workerVars, requestVars>>

-----------------------------------------------------------------------------
(* Dispatch.                                                               *)

(* The WHERE clause of leaseNextRun.  offersCoding: 'claude_code' is still in the
   capability set after the sandbox guardrail.  The query takes the oldest row of the
   highest priority and skips locked rows, so any dispatchable row can be the one. *)
Dispatchable(r, offersCoding) ==
  /\ status[r] = "queued"
  /\ approvalState[r] = "approved"
  /\ ~cancelRequested[r]
  /\ deadline[r] # "passed"
  /\ r \in Coding => offersCoding /\ repoApproved

(* How building the assignment or the job re-check refuses a candidate: the status and
   the stop reason the code then asks for. *)
DispatchRefusals(r) ==
       (IF r \in Coding THEN {<<"stopped_by_guardrail", "repository_not_approved">>} ELSE {})
  \cup (IF r \in General THEN {<<"stopped_by_guardrail", "model_provider_required">>,
                               <<"failed", "worker_error">>} ELSE {})
  \cup {<<"failed", "unsupported_job_kind">>}

LeaseNextRun(w, r, offersCoding) ==
  /\ Dispatchable(r, offersCoding)
  /\ Transition(r, "running")
  /\ workerId' = [workerId EXCEPT ![r] = w]
  /\ attempt' = [attempt EXCEPT ![r] = @ + 1]
  /\ workerStatus' = [workerStatus EXCEPT ![w] = "busy"]
  /\ currentRunId' = [currentRunId EXCEPT ![w] = r]
  /\ taskStatus' = [taskStatus EXCEPT ![TaskOf[r]] =
                      IF @ \in {"draft", "ready"} THEN "in_progress" ELSE @]
  /\ UNCHANGED <<approvalState, decision, deadline, cancelRequested, stopReason,
                 repoApproved, requestVars>>

(* The dispatch refused by a guardrail: the run is stopped where it stands. *)
StopAtDispatch(r, offersCoding) ==
  /\ Dispatchable(r, offersCoding)
  /\ \E refusal \in DispatchRefusals(r) :
        /\ Transition(r, refusal[1])
        /\ stopReason' = [stopReason EXCEPT ![r] = refusal[2]]
  /\ UNCHANGED <<approvalState, decision, deadline, workerId, cancelRequested, attempt,
                 repoApproved, taskStatus, workerVars, requestVars>>

(* The dispatch refused with a status the table does not allow: the lease call fails. *)
FailAtDispatch(r, offersCoding) ==
  /\ Dispatchable(r, offersCoding)
  /\ \E refusal \in DispatchRefusals(r) : RejectTransition(r, refusal[1])
  /\ UNCHANGED completions

(* Sprint 2: the worker's self-review is accepted while its run is running. *)
SubmitReview(r) ==
  /\ r \in Coding
  /\ Transition(r, "self_review")
  /\ UNCHANGED <<approvalState, decision, deadline, workerId, cancelRequested, stopReason,
                 attempt, repoApproved, taskStatus, workerVars, requestVars>>

-----------------------------------------------------------------------------
(* Completion: assertRunBelongsToWorker and the acceptance review run before the
   transaction, on a run that may change before it opens.                      *)

(* The owner's call arrives and acceptance is reviewed: gaps is the verdict.  Only a
   success is reviewed; a worker reports 'cancelled' only after it was told to stop;
   a client that timed out sends the same call again. *)
ReviewAcceptance(r, outcome, gaps) ==
  /\ workerId[r] # NoWorker
  /\ outcome # "succeeded" => ~gaps
  /\ outcome = "cancelled" => cancelRequested[r]
  /\ Cardinality(completions) < MaxCompletions
  /\ completions' = completions \cup {[run |-> r, outcome |-> outcome, gaps |-> gaps]}
  /\ UNCHANGED <<runVars, repoApproved, taskStatus, workerVars, rejections, cutoffSweep>>

NoGuardrailStop(c) == FALSE  \* mutant: the worker's word for why it stopped is taken
GuardrailStop(c) == /\ c.outcome = "cancelled"
                    /\ stopReason[c.run] \in {"overnight_cutoff", "budget_exhausted"}

OUTCOME_TO_STATUS ==
  [succeeded |-> "completed", failed |-> "failed", cancelled |-> "cancelled"]

OutcomeAsTarget(c) == c.outcome  \* mutant: the outcome is stored as the status
CompletionTarget(c) ==
  IF GuardrailStop(c) THEN "stopped_by_guardrail"
  ELSE IF c.gaps THEN "completed_with_gaps"
  ELSE OUTCOME_TO_STATUS[c.outcome]

WorkerReason ==
  [succeeded |-> "completed", failed |-> "failed", cancelled |-> "cancelled_by_user"]

(* mutant: the worker's reason outranks the control plane's *)
WorkerReasonFirst(c) == WorkerReason[c.outcome]

(* run.stopReason ?? input.stopReason ?? default: the worker always sends a reason, so
   the default, 'acceptance_gaps' included, is never reached. *)
CompletionStopReason(c) ==
  IF stopReason[c.run] # "null" THEN stopReason[c.run] ELSE WorkerReason[c.outcome]

TaskStatusFromOutcome(c) ==  \* mutant: the acceptance verdict is not consulted
  IF c.outcome = "succeeded" THEN "done" ELSE "blocked"
TaskStatusAfter(c) ==
  IF c.gaps THEN "ready" ELSE IF c.outcome = "succeeded" THEN "done" ELSE "blocked"

CompleteRun(c) ==
  /\ ~Terminal(c.run)
  /\ Transition(c.run, CompletionTarget(c))
  /\ stopReason' = [stopReason EXCEPT ![c.run] = CompletionStopReason(c)]
  /\ workerStatus' = [workerStatus EXCEPT ![workerId[c.run]] = "idle"]
  /\ currentRunId' = [currentRunId EXCEPT ![workerId[c.run]] = NoRun]
  /\ taskStatus' = [taskStatus EXCEPT ![TaskOf[c.run]] = TaskStatusAfter(c)]
  /\ completions' = completions \ {c}
  /\ UNCHANGED <<approvalState, decision, deadline, workerId, cancelRequested, attempt,
                 repoApproved, rejections, cutoffSweep>>

(* A retried completion of a finished run is answered with its status. *)
CompleteAgain(c) ==
  /\ Terminal(c.run)
  /\ completions' = completions \ {c}
  /\ UNCHANGED <<runVars, repoApproved, taskStatus, workerVars, rejections, cutoffSweep>>

(* The table refuses the completion: 409, which the worker does not retry. *)
CompleteRefused(c) ==
  /\ ~Terminal(c.run)
  /\ RejectTransition(c.run, CompletionTarget(c))
  /\ completions' = completions \ {c}

-----------------------------------------------------------------------------
(* Stop and cancel.                                                        *)

StopBeforeDispatch(r, reason) ==
  /\ status[r] \in IMMEDIATELY_CANCELLABLE
  /\ Transition(r, IF reason = "cancelled_by_user" THEN "cancelled"
                                                   ELSE "stopped_by_guardrail")
  /\ cancelRequested' = [cancelRequested EXCEPT ![r] = TRUE]
  /\ stopReason' = [stopReason EXCEPT ![r] = reason]

AskWhateverTheStatus(r, reason) ==  \* mutant: the status check is dropped
  /\ status[r] # "absent" /\ ~Terminal(r) /\ ~cancelRequested[r]
  /\ cancelRequested' = [cancelRequested EXCEPT ![r] = TRUE]
  /\ stopReason' = [stopReason EXCEPT ![r] = reason]
  /\ UNCHANGED status
AskWorkerToStop(r, reason) ==
  /\ status[r] \in REQUIRES_WORKER_CANCEL
  /\ ~cancelRequested[r]
  /\ cancelRequested' = [cancelRequested EXCEPT ![r] = TRUE]
  /\ stopReason' = [stopReason EXCEPT ![r] = reason]
  /\ UNCHANGED status

(* A finished run, a run no worker can be told about, and a second request change
   nothing. *)
RequestCancel(r, reason) ==
  /\ StopBeforeDispatch(r, reason) \/ AskWorkerToStop(r, reason)
  /\ UNCHANGED <<approvalState, decision, deadline, workerId, attempt, repoApproved,
                 taskStatus, workerVars, rejections, completions>>

OperatorCancel(r) == RequestCancel(r, "cancelled_by_user") /\ UNCHANGED cutoffSweep

(* Clears the owner's current run whichever run that is, and not its status. *)
ForceCancel(r) ==
  /\ ~Terminal(r)
  /\ Transition(r, "cancelled")
  /\ cancelRequested' = [cancelRequested EXCEPT ![r] = TRUE]
  /\ stopReason' = [stopReason EXCEPT ![r] = "force_cancelled_worker_unreachable"]
  /\ currentRunId' = IF workerId[r] = NoWorker THEN currentRunId
                     ELSE [currentRunId EXCEPT ![workerId[r]] = NoRun]
  /\ UNCHANGED <<approvalState, decision, deadline, workerId, attempt, repoApproved,
                 taskStatus, workerStatus, requestVars>>

OvernightInFlight(r) ==  \* mutant: the deadline is not compared
  status[r] \in {"queued", "running", "blocked"} /\ r \in Overnight /\ ~cancelRequested[r]
PastCutoff(r) ==
  /\ status[r] \in {"queued", "running", "blocked"}
  /\ r \in Overnight
  /\ deadline[r] = "passed"
  /\ ~cancelRequested[r]

(* stopRunsPastOvernightCutoff: the query, and then one requestCancel per row of it.
   A sweep that starts before the last one is done adds to it. *)
SelectPastCutoff ==
  /\ \E r \in Run : PastCutoff(r) /\ r \notin cutoffSweep
  /\ cutoffSweep' = cutoffSweep \cup {r \in Run : PastCutoff(r)}
  /\ UNCHANGED <<runVars, repoApproved, taskStatus, workerVars, rejections, completions>>

StopPastCutoff(r) ==
  /\ r \in cutoffSweep
  /\ RequestCancel(r, "overnight_cutoff")
  /\ cutoffSweep' = cutoffSweep \ {r}

(* The request changed nothing or failed, and the sweep swallows the error. *)
SkipPastCutoff(r) ==
  /\ r \in cutoffSweep
  /\ \/ status[r] \notin IMMEDIATELY_CANCELLABLE \cup REQUIRES_WORKER_CANCEL
     \/ cancelRequested[r]
  /\ cutoffSweep' = cutoffSweep \ {r}
  /\ UNCHANGED <<runVars, repoApproved, taskStatus, workerVars, rejections, completions>>

-----------------------------------------------------------------------------
(* The clock, the repository's approval and the human edits of a task.     *)

DeadlinePasses(r) ==
  /\ deadline[r] = "ahead"
  /\ deadline' = [deadline EXCEPT ![r] = "passed"]
  /\ UNCHANGED <<status, approvalState, decision, workerId, cancelRequested, stopReason,
                 attempt, repoApproved, taskStatus, workerVars, requestVars>>

SetRepositoryApproval ==
  /\ repoApproved' = ~repoApproved
  /\ UNCHANGED <<runVars, taskStatus, workerVars, requestVars>>

UpdateTask(t, s) ==
  /\ taskStatus' = [taskStatus EXCEPT ![t] = s]
  /\ UNCHANGED <<runVars, repoApproved, workerVars, requestVars>>

-----------------------------------------------------------------------------

Dispatch(r) ==
  \E offersCoding \in BOOLEAN :
    \/ \E w \in Worker : LeaseNextRun(w, r, offersCoding)
    \/ StopAtDispatch(r, offersCoding)
    \/ FailAtDispatch(r, offersCoding)

RunStep(r) ==
  \/ CreateRun(r)
  \/ SubmitForApproval(r)
  \/ ApproveRun(r)
  \/ RejectRun(r)
  \/ StartSelectedTask(r)
  \/ Dispatch(r)
  \/ SubmitReview(r)
  \/ \E outcome \in Outcomes, gaps \in BOOLEAN : ReviewAcceptance(r, outcome, gaps)
  \/ OperatorCancel(r)
  \/ ForceCancel(r)
  \/ StopPastCutoff(r)
  \/ SkipPastCutoff(r)
  \/ DeadlinePasses(r)

CompletionStep(c) == CompleteRun(c) \/ CompleteAgain(c) \/ CompleteRefused(c)

Next ==
  \/ \E r \in Run : RunStep(r)
  \/ \E c \in completions : CompletionStep(c)
  \/ SelectPastCutoff
  \/ SetRepositoryApproval
  \/ \E t \in Task, s \in TASK_STATUSES : UpdateTask(t, s)

Spec == Init /\ [][Next]_vars

(* The sweeper's interval timer keeps firing and its loop always reaches its next row;
   nothing a person or a worker does is assumed to happen. *)
SweeperFairness ==
  /\ WF_vars(SelectPastCutoff)
  /\ \A r \in Overnight : WF_vars(StopPastCutoff(r) \/ SkipPastCutoff(r))

FairSpec == Spec /\ SweeperFairness

-----------------------------------------------------------------------------
(* Properties.                                                             *)

(* Whatever was submitted, rejected and resubmitted before, a run that reached a worker
   has an approval as the latest decision in the approvals table, and a run with an
   overnight authority reached it with a deadline the cutoff sweeper can see. *)
ExecutionWasAuthorised ==
  \A r \in Run : attempt[r] > 0 =>
    /\ approvalState[r] = "approved"
    /\ decision[r] = "approve"
    /\ r \in Overnight => deadline[r] # "none"

(* A stop that waits for a worker is one the control envelope carries: the run has an
   owner and a status buildControlEnvelope selects for it.  No order of approval,
   dispatch, review, sweep and cancel leaves a requested stop on a run that no envelope
   of any worker could ever name. *)
OutstandingStopIsDeliverable ==
  \A r \in Run : cancelRequested[r] /\ ~Terminal(r) =>
    /\ status[r] \in REQUIRES_WORKER_CANCEL
    /\ workerId[r] # NoWorker

(* The status and the stop reason tell one story.  A guardrail's stop is never filed as
   a person's cancellation nor the reverse, work nobody executed never counts as
   delivered, and a reason is on the row exactly when a stop was requested or the run
   has ended. *)
EndIsExplained ==
  \A r \in Run :
    /\ status[r] = "stopped_by_guardrail" =>
         stopReason[r] \in {"overnight_cutoff", "repository_not_approved",
                            "model_provider_required"}
    /\ status[r] = "cancelled" =>
         stopReason[r] \in {"cancelled_by_user", "force_cancelled_worker_unreachable"}
    /\ status[r] \in {"completed", "completed_with_gaps", "failed"} => attempt[r] = 1
    /\ (stopReason[r] # "null") <=> (cancelRequested[r] \/ Terminal(r))

(* Together: the row of a run accounts for its approval, its stop and its end. *)
RunsAreAccounted ==
  ExecutionWasAuthorised /\ OutstandingStopIsDeliverable /\ EndIsExplained

(* A finished run stays finished: no late or repeated completion, sweep, cancel or force
   cancel changes how it ended or why. *)
EndedIsFinal ==
  [][\A r \in Run : Terminal(r) =>
       /\ status'[r] = status[r]
       /\ stopReason'[r] = stopReason[r]
       /\ workerId'[r] = workerId[r]]_vars

(* The first stop wins: once a person or the sweeper has asked for a stop, neither a
   second request nor what the worker reports replaces the reason; only an operator's
   force cancel does. *)
FirstStopReasonWins ==
  [][\A r \in Run : cancelRequested[r] /\ stopReason'[r] # stopReason[r] =>
       stopReason'[r] = "force_cancelled_worker_unreachable"]_vars

(* A sweep acts on what its query saw, which is stale by the time it acts: it still stops
   only runs that are overnight, past their deadline and not already stopping. *)
SweepStopsOnlyOverdueRuns ==
  [][\A r \in Run :
       stopReason'[r] = "overnight_cutoff" /\ stopReason[r] # "overnight_cutoff" =>
         r \in Overnight /\ deadline[r] = "passed" /\ ~cancelRequested[r] /\ ~Terminal(r)]_vars

(* The control plane marks a task done only in the step that completes one of its runs
   without a gap; only a person can say so otherwise. *)
DoneIsEarned ==
  [][\A t \in Task : taskStatus[t] # "done" /\ taskStatus'[t] = "done" =>
       \/ UpdateTask(t, "done")
       \/ \E r \in Run : TaskOf[r] = t /\ status[r] # "completed" /\ status'[r] = "completed"]_vars

(* Together: what a late, repeated or stale call may never do to the record. *)
RecordStands ==
  EndedIsFinal /\ FirstStopReasonWins /\ SweepStopsOnlyOverdueRuns /\ DoneIsEarned

(* The cutoff bites: an overnight run past its deadline that is queued or running is
   stopped, or its stop is asked for, or it has meanwhile reached its self-review, which
   the sweeper does not interrupt. *)
CutoffBites ==
  \A r \in Overnight : PastCutoff(r) ~>
    (Terminal(r) \/ cancelRequested[r] \/ status[r] = "self_review")

(* The abstract run: what RunContract promises, of these rows. *)
Phase(s) ==
  IF s = "absent" THEN "unborn"
  ELSE IF s \in {"draft", "discovery", "ready_for_approval"} THEN "proposed"
  ELSE IF s \in {"approved", "queued"} THEN "authorised"
  ELSE IF s \in TERMINAL THEN "ended" ELSE "executing"

Contract == INSTANCE RunContract WITH
  phase <- [r \in Run |-> Phase(status[r])],
  executor <- workerId,
  result <- [r \in Run |-> IF Terminal(r) THEN status[r] ELSE "none"]

(* The lifecycle implements the contract: executed only when authorised, by one worker,
   once; only executed work delivers; ended for good. *)
ImplementsRunContract == Contract!Spec
=============================================================================
