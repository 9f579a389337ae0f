------------------------ MODULE RunLifecycle_proofs ------------------------
(***************************************************************************)
(* Proofs about RunLifecycle, for every set of runs, tasks and workers:    *)
(* type correctness, the safety invariants the TLC runs check, the action  *)
(* properties that follow from them, and that the lifecycle implements     *)
(* RunContract.                                                            *)
(***************************************************************************)
EXTENDS RunLifecycle, TLAPS

-----------------------------------------------------------------------------
(* The inductive invariant, in named parts about one run.                  *)

BeforeDispatch == {"absent", "draft", "ready_for_approval", "queued"}
Executing == {"running", "self_review"}

(* Only the statuses some service function writes are ever on a row. *)
StatusReachable(r) == status[r] \in BeforeDispatch \cup Executing \cup TERMINAL

(* The attempt counter, the owner and the status agree about dispatch. *)
DispatchedOnce(r) ==
  /\ attempt[r] \in {0, 1}
  /\ (attempt[r] = 1) <=> (workerId[r] # NoWorker)
  /\ status[r] \in BeforeDispatch => attempt[r] = 0
  /\ status[r] \in Executing => attempt[r] = 1

(* Queued or executing, a run carries the approval that got it there. *)
Authorised(r) ==
  status[r] = "queued" \/ attempt[r] = 1 =>
    /\ approvalState[r] = "approved"
    /\ decision[r] = "approve"
    /\ r \in Overnight => deadline[r] # "none"

(* A requested stop and its reason appear together; before the end only an operator or
   the cutoff can have asked. *)
StopsAreExplained(r) ==
  /\ ~Terminal(r) =>
       /\ stopReason[r] \in {"null", "cancelled_by_user", "overnight_cutoff"}
       /\ cancelRequested[r] <=> stopReason[r] # "null"
       /\ cancelRequested[r] => status[r] \in Executing
  /\ Terminal(r) => stopReason[r] # "null"
  /\ status[r] = "stopped_by_guardrail" =>
       stopReason[r] \in {"overnight_cutoff", "repository_not_approved",
                          "model_provider_required"}
  /\ status[r] = "cancelled" =>
       stopReason[r] \in {"cancelled_by_user", "force_cancelled_worker_unreachable"}
  /\ status[r] \in {"completed", "completed_with_gaps", "failed"} => attempt[r] = 1

(* What a completion call in service knows about its run. *)
CompletionIsOwned(c) ==
  /\ workerId[c.run] # NoWorker
  /\ c.outcome = "cancelled" => cancelRequested[c.run]
  /\ c.gaps => c.outcome = "succeeded"

(* What the sweeper's stale selection still knows. *)
SweepIsOverdue(r) ==
  /\ r \in Overnight
  /\ deadline[r] = "passed"
  /\ status[r] \notin {"absent", "draft", "ready_for_approval"}

RunInv(r) ==
  StatusReachable(r) /\ DispatchedOnce(r) /\ Authorised(r) /\ StopsAreExplained(r)

Inv ==
  /\ TypeOK
  /\ \A r \in Run : RunInv(r)
  /\ \A c \in completions : CompletionIsOwned(c)
  /\ \A r \in cutoffSweep : SweepIsOverdue(r)

-----------------------------------------------------------------------------
(* What the transition table allows.                                       *)

(* A transition leaves a live status and lands on a status of the enumeration. *)
LEMMA TransitionStatuses ==
  ASSUME NEW from, NEW to, CanTransition(from, to)
  PROVE  from \in RUN_STATUSES \ TERMINAL /\ to \in RUN_STATUSES
BY DEF CanTransition, RUN_TRANSITIONS, RUN_STATUSES, TERMINAL

(* Where each status a service function writes can be reached from. *)
LEMMA TransitionSources ==
  ASSUME NEW from
  PROVE  /\ CanTransition(from, "draft") => from \in {"discovery", "ready_for_approval"}
         /\ CanTransition(from, "ready_for_approval") => from \in {"draft", "discovery"}
         /\ CanTransition(from, "approved") => from = "ready_for_approval"
         /\ CanTransition(from, "running") =>
              from \in {"queued", "blocked", "self_review", "ready_for_human_review"}
         /\ CanTransition(from, "self_review") => from = "running"
         /\ CanTransition(from, "stopped_by_guardrail") =>
              from \in {"approved", "queued", "running", "blocked"}
         /\ CanTransition(from, "completed") \/ CanTransition(from, "completed_with_gaps") =>
              from \in {"running", "self_review", "ready_for_human_review"}
         /\ CanTransition(from, "failed") => from \in {"running", "blocked", "self_review"}
BY DEF CanTransition, RUN_TRANSITIONS

(* Every target of a completion is a terminal status. *)
LEMMA CompletionTargets ==
  ASSUME NEW c \in Completion
  PROVE  /\ CompletionTarget(c) \in TERMINAL
         /\ CompletionTarget(c) = "stopped_by_guardrail" <=> GuardrailStop(c)
         /\ CompletionTarget(c) = "cancelled" => c.outcome = "cancelled" /\ ~GuardrailStop(c)
BY DEF CompletionTarget, OUTCOME_TO_STATUS, GuardrailStop, TERMINAL, Completion, Outcomes

(* The reason a completion records is the row's when there is one, and never NULL. *)
LEMMA CompletionReasons ==
  ASSUME TypeOK, NEW c \in Completion
  PROVE  /\ CompletionStopReason(c) \in StopReasons \ {"null"}
         /\ stopReason[c.run] # "null" => CompletionStopReason(c) = stopReason[c.run]
BY DEF CompletionStopReason, WorkerReason, TypeOK, StopReasons, Completion, Outcomes

-----------------------------------------------------------------------------
(* Type correctness.                                                       *)

LEMMA InitType == Init => TypeOK
BY ConstantsAssumption
   DEF Init, TypeOK, RUN_STATUSES, StopReasons, TASK_STATUSES, WORKER_STATUSES

(* Each operation on a run keeps every column in its type. *)
LEMMA RunStepType ==
  ASSUME TypeOK, NEW r \in Run, RunStep(r)
  PROVE  TypeOK'
<1>. USE ConstantsAssumption
<1>. TaskOf[r] \in Task
  BY DEF ConstantsAssumption
<1>1. CASE CreateRun(r)
  BY <1>1 DEF CreateRun, TypeOK, RUN_STATUSES, workerVars, requestVars
<1>2. CASE SubmitForApproval(r)
  BY <1>2 DEF SubmitForApproval, Transition, TypeOK, RUN_STATUSES, workerVars, requestVars
<1>3. CASE ApproveRun(r)
  BY <1>3 DEF ApproveRun, DeadlineAtApproval, TypeOK, RUN_STATUSES, workerVars, requestVars
<1>4. CASE RejectRun(r)
  BY <1>4 DEF RejectRun, Transition, TypeOK, RUN_STATUSES, workerVars, requestVars
<1>5. CASE StartSelectedTask(r)
  BY <1>5 DEF StartSelectedTask, TypeOK, RUN_STATUSES, workerVars, requestVars
<1>6. CASE Dispatch(r)
  <2>1. ASSUME NEW offersCoding \in BOOLEAN, NEW w \in Worker, LeaseNextRun(w, r, offersCoding)
        PROVE  TypeOK'
    BY <2>1 DEF LeaseNextRun, Transition, TypeOK, RUN_STATUSES, WORKER_STATUSES,
                TASK_STATUSES, requestVars
  <2>2. ASSUME NEW offersCoding \in BOOLEAN, StopAtDispatch(r, offersCoding)
        PROVE  TypeOK'
    <3>1. PICK refusal \in DispatchRefusals(r) :
            /\ Transition(r, refusal[1])
            /\ stopReason' = [stopReason EXCEPT ![r] = refusal[2]]
      BY <2>2 DEF StopAtDispatch
    <3>2. refusal[1] # "failed"
      BY <2>2, <3>1, TransitionSources DEF StopAtDispatch, Dispatchable, Transition
    <3>3. refusal[1] \in RUN_STATUSES /\ refusal[2] \in StopReasons
      BY <3>2 DEF DispatchRefusals, RUN_STATUSES, TERMINAL, StopReasons
    <3>. QED
      BY <2>2, <3>1, <3>3 DEF StopAtDispatch, Transition, TypeOK, workerVars, requestVars
  <2>3. ASSUME NEW offersCoding \in BOOLEAN, FailAtDispatch(r, offersCoding)
        PROVE  TypeOK'
    <3>1. PICK refusal \in DispatchRefusals(r) : RejectTransition(r, refusal[1])
      BY <2>3 DEF FailAtDispatch
    <3>2. refusal[1] \in RUN_STATUSES
      BY <3>1 DEF DispatchRefusals, RUN_STATUSES, TERMINAL
    <3>3. status[r] \in RUN_STATUSES
      BY <2>3 DEF FailAtDispatch, Dispatchable, RUN_STATUSES
    <3>. QED
      BY <2>3, <3>1, <3>2, <3>3 DEF FailAtDispatch, RejectTransition, TypeOK, runVars, workerVars
  <2>. QED
    BY <1>6, <2>1, <2>2, <2>3 DEF Dispatch
<1>7. CASE SubmitReview(r)
  BY <1>7 DEF SubmitReview, Transition, TypeOK, RUN_STATUSES, workerVars, requestVars
<1>8. ASSUME NEW outcome \in Outcomes, NEW gaps \in BOOLEAN, ReviewAcceptance(r, outcome, gaps)
      PROVE  TypeOK'
  BY <1>8 DEF ReviewAcceptance, Completion, TypeOK, runVars, workerVars
<1>9. ASSUME NEW reason \in {"cancelled_by_user", "overnight_cutoff"}, RequestCancel(r, reason),
             cutoffSweep' \subseteq cutoffSweep
      PROVE  TypeOK'
  <2>1. status' \in [Run -> RUN_STATUSES \cup {"absent"}]
    <3>1. CASE StopBeforeDispatch(r, reason)
      BY <3>1 DEF StopBeforeDispatch, Transition, TypeOK, RUN_STATUSES, TERMINAL
    <3>2. CASE AskWorkerToStop(r, reason)
      BY <3>2 DEF AskWorkerToStop, TypeOK
    <3>. QED
      BY <1>9, <3>1, <3>2 DEF RequestCancel
  <2>2. /\ cancelRequested' = [cancelRequested EXCEPT ![r] = TRUE]
        /\ stopReason' = [stopReason EXCEPT ![r] = reason]
    BY <1>9 DEF RequestCancel, StopBeforeDispatch, AskWorkerToStop
  <2>3. reason \in StopReasons
    BY <1>9 DEF StopReasons
  <2>. QED
    BY <1>9, <2>1, <2>2, <2>3 DEF RequestCancel, TypeOK, workerVars
<1>10. CASE ForceCancel(r)
  BY <1>10 DEF ForceCancel, Transition, TypeOK, RUN_STATUSES, TERMINAL, StopReasons, requestVars
<1>11. CASE SkipPastCutoff(r)
  BY <1>11 DEF SkipPastCutoff, TypeOK, runVars, workerVars
<1>12. CASE DeadlinePasses(r)
  BY <1>12 DEF DeadlinePasses, TypeOK, workerVars, requestVars
<1>13. CASE OperatorCancel(r)
  BY <1>9, <1>13 DEF OperatorCancel
<1>14. CASE StopPastCutoff(r)
  BY <1>9, <1>14 DEF StopPastCutoff
<1>. QED
  BY <1>1, <1>2, <1>3, <1>4, <1>5, <1>6, <1>7, <1>8, <1>10, <1>11, <1>12, <1>13, <1>14
     DEF RunStep

(* Serving a completion call keeps every column in its type. *)
LEMMA CompletionStepType ==
  ASSUME TypeOK, NEW c \in completions, CompletionStep(c)
  PROVE  TypeOK'
<1>. USE ConstantsAssumption
<1>1. c \in Completion /\ c.run \in Run
  BY DEF TypeOK, Completion
<1>2. TERMINAL \subseteq RUN_STATUSES
  BY DEF RUN_STATUSES
<1>3. CompletionTarget(c) \in RUN_STATUSES /\ CompletionStopReason(c) \in StopReasons
  BY <1>1, <1>2, CompletionTargets, CompletionReasons
<1>4. CASE CompleteRun(c)
  <2>1. TaskStatusAfter(c) \in TASK_STATUSES /\ TaskOf[c.run] \in Task
    BY <1>1 DEF TaskStatusAfter, TASK_STATUSES, ConstantsAssumption
  <2>. QED
    BY <1>1, <1>3, <1>4, <2>1 DEF CompleteRun, Transition, TypeOK, WORKER_STATUSES
<1>5. CASE CompleteAgain(c)
  BY <1>5 DEF CompleteAgain, TypeOK, runVars, workerVars
<1>6. CASE CompleteRefused(c)
  <2>1. status[c.run] \in RUN_STATUSES \cup {"absent"}
    BY <1>1 DEF TypeOK
  <2>. QED
    BY <1>1, <1>3, <1>6, <2>1 DEF CompleteRefused, RejectTransition, TypeOK, runVars, workerVars
<1>. QED
  BY <1>4, <1>5, <1>6 DEF CompletionStep

(* So does every step, stuttering included. *)
LEMMA NextType == TypeOK /\ [Next]_vars => TypeOK'
<1>. SUFFICES ASSUME TypeOK, [Next]_vars PROVE TypeOK'
  OBVIOUS
<1>1. ASSUME NEW r \in Run, RunStep(r) PROVE TypeOK'
  BY <1>1, RunStepType
<1>2. ASSUME NEW c \in completions, CompletionStep(c) PROVE TypeOK'
  BY <1>2, CompletionStepType
<1>3. CASE SelectPastCutoff
  BY <1>3 DEF SelectPastCutoff, TypeOK, runVars, workerVars
<1>4. CASE SetRepositoryApproval
  BY <1>4 DEF SetRepositoryApproval, TypeOK, runVars, workerVars, requestVars
<1>5. ASSUME NEW t \in Task, NEW s \in TASK_STATUSES, UpdateTask(t, s) PROVE TypeOK'
  BY <1>5 DEF UpdateTask, TypeOK, runVars, workerVars, requestVars
<1>6. CASE UNCHANGED vars
  BY <1>6 DEF vars, TypeOK, runVars, workerVars, requestVars
<1>. QED
  BY <1>1, <1>2, <1>3, <1>4, <1>5, <1>6 DEF Next

(* In every behaviour of the control plane every column holds a value of its type. *)
THEOREM TypeCorrect == Spec => []TypeOK
BY InitType, NextType, PTL DEF Spec

-----------------------------------------------------------------------------
(* What one step does to one run: the invariant's part about the run, and what a step
   may change of it.                                                                *)

Proposed == {"absent", "draft", "ready_for_approval"}

(* The owner and a stop request are never taken back, a run that left its proposal does
   not return to it and keeps a passed deadline, an ended run keeps its end, and only a
   force cancel replaces the reason of a requested stop. *)
RowProgress(r) ==
  /\ workerId[r] # NoWorker => workerId'[r] = workerId[r]
  /\ cancelRequested[r] => cancelRequested'[r]
  /\ status[r] \notin Proposed =>
       /\ status'[r] \notin Proposed
       /\ deadline[r] = "passed" => deadline'[r] = "passed"
  /\ Terminal(r) => /\ status'[r] = status[r] /\ stopReason'[r] = stopReason[r]
                    /\ workerId'[r] = workerId[r]
  /\ cancelRequested[r] /\ stopReason'[r] # stopReason[r] =>
       stopReason'[r] = "force_cancelled_worker_unreachable"

RowKept(r) ==
  /\ status'[r] = status[r] /\ approvalState'[r] = approvalState[r]
  /\ decision'[r] = decision[r] /\ deadline'[r] = deadline[r]
  /\ workerId'[r] = workerId[r] /\ cancelRequested'[r] = cancelRequested[r]
  /\ stopReason'[r] = stopReason[r] /\ attempt'[r] = attempt[r]

(* A run whose row a step leaves alone keeps its part of the invariant. *)
LEMMA KeptRow ==
  ASSUME NEW r \in Run, RunInv(r), RowKept(r)
  PROVE  RunInv(r)' /\ RowProgress(r)
BY DEF RowKept, RunInv, RowProgress, StatusReachable, DispatchedOnce, Authorised,
       StopsAreExplained, Terminal

(* An operation on run r touches no other run's row. *)
LEMMA OtherRowsKept ==
  ASSUME TypeOK, NEW r \in Run, RunStep(r), NEW q \in Run, q # r
  PROVE  RowKept(q)
<1>1. CASE CreateRun(r)
  BY <1>1 DEF CreateRun, TypeOK, RowKept
<1>2. CASE SubmitForApproval(r)
  BY <1>2 DEF SubmitForApproval, Transition, TypeOK, RowKept
<1>3. CASE ApproveRun(r)
  BY <1>3 DEF ApproveRun, TypeOK, RowKept
<1>4. CASE RejectRun(r)
  BY <1>4 DEF RejectRun, Transition, TypeOK, RowKept
<1>5. CASE StartSelectedTask(r)
  BY <1>5 DEF StartSelectedTask, TypeOK, RowKept
<1>6. CASE Dispatch(r)
  <2>1. ASSUME NEW offersCoding \in BOOLEAN, NEW w \in Worker, LeaseNextRun(w, r, offersCoding)
        PROVE  RowKept(q)
    BY <2>1 DEF LeaseNextRun, Transition, TypeOK, RowKept
  <2>2. ASSUME NEW offersCoding \in BOOLEAN, StopAtDispatch(r, offersCoding)
        PROVE  RowKept(q)
    <3>1. PICK refusal \in DispatchRefusals(r) :
            /\ Transition(r, refusal[1])
            /\ stopReason' = [stopReason EXCEPT ![r] = refusal[2]]
      BY <2>2 DEF StopAtDispatch
    <3>. QED
      BY <2>2, <3>1 DEF StopAtDispatch, Transition, TypeOK, RowKept
  <2>3. ASSUME NEW offersCoding \in BOOLEAN, FailAtDispatch(r, offersCoding)
        PROVE  RowKept(q)
    BY <2>3 DEF FailAtDispatch, RejectTransition, runVars, RowKept
  <2>. QED
    BY <1>6, <2>1, <2>2, <2>3 DEF Dispatch
<1>7. CASE SubmitReview(r)
  BY <1>7 DEF SubmitReview, Transition, TypeOK, RowKept
<1>8. ASSUME NEW outcome \in Outcomes, NEW gaps \in BOOLEAN, ReviewAcceptance(r, outcome, gaps)
      PROVE  RowKept(q)
  BY <1>8 DEF ReviewAcceptance, runVars, RowKept
<1>9. ASSUME NEW reason, RequestCancel(r, reason)
      PROVE  RowKept(q)
  BY <1>9 DEF RequestCancel, StopBeforeDispatch, AskWorkerToStop, Transition, TypeOK, RowKept
<1>10. CASE ForceCancel(r)
  BY <1>10 DEF ForceCancel, Transition, TypeOK, RowKept
<1>11. CASE SkipPastCutoff(r)
  BY <1>11 DEF SkipPastCutoff, runVars, RowKept
<1>12. CASE DeadlinePasses(r)
  BY <1>12 DEF DeadlinePasses, TypeOK, RowKept
<1>13. CASE OperatorCancel(r)
  BY <1>9, <1>13 DEF OperatorCancel
<1>14. CASE StopPastCutoff(r)
  BY <1>9, <1>14 DEF StopPastCutoff
<1>. QED
  BY <1>1, <1>2, <1>3, <1>4, <1>5, <1>6, <1>7, <1>8, <1>10, <1>11, <1>12, <1>13, <1>14
     DEF RunStep

(* What the rows of a live run say about its stop. *)
LEMMA LiveRun ==
  ASSUME NEW r \in Run, TypeOK, RunInv(r), ~Terminal(r)
  PROVE  /\ status[r] \in BeforeDispatch \cup Executing
         /\ status[r] \in BeforeDispatch => ~cancelRequested[r] /\ workerId[r] = NoWorker
         /\ status[r] \in Executing => workerId[r] # NoWorker
BY DEF RunInv, StatusReachable, DispatchedOnce, StopsAreExplained, Terminal, BeforeDispatch,
       Executing, TypeOK

(* A stop request on a run keeps the run's part of the invariant. *)
LEMMA RequestCancelRow ==
  ASSUME Inv, NEW r \in Run, NEW reason \in {"cancelled_by_user", "overnight_cutoff"},
         RequestCancel(r, reason)
  PROVE  RunInv(r)' /\ RowProgress(r)
<1>. USE DEF Inv
<1>. RunInv(r) /\ TypeOK
  OBVIOUS
<1>1. CASE StopBeforeDispatch(r, reason)
  <2>1. /\ status[r] \in {"draft", "ready_for_approval", "queued"}
        /\ ~cancelRequested[r] /\ attempt[r] = 0 /\ workerId[r] = NoWorker /\ ~Terminal(r)
    BY <1>1 DEF StopBeforeDispatch, IMMEDIATELY_CANCELLABLE, RunInv, StatusReachable,
       DispatchedOnce, StopsAreExplained, BeforeDispatch, Executing, TERMINAL, Terminal, TypeOK
  <2>2. /\ status'[r] \in {"cancelled", "stopped_by_guardrail"}
        /\ status'[r] = "cancelled" => reason = "cancelled_by_user"
        /\ status'[r] = "stopped_by_guardrail" => reason = "overnight_cutoff"
        /\ stopReason'[r] = reason /\ cancelRequested'[r]
    BY <1>1 DEF StopBeforeDispatch, Transition, TypeOK
  <2>3. /\ approvalState'[r] = approvalState[r] /\ decision'[r] = decision[r]
        /\ deadline'[r] = deadline[r] /\ workerId'[r] = workerId[r]
        /\ attempt'[r] = attempt[r]
    BY DEF RequestCancel
  <2>. QED
    BY <2>1, <2>2, <2>3 DEF RunInv, StatusReachable, DispatchedOnce, Authorised,
       StopsAreExplained, BeforeDispatch, Executing, TERMINAL, Terminal, RowProgress, Proposed
<1>2. CASE AskWorkerToStop(r, reason)
  BY <1>2 DEF AskWorkerToStop, REQUIRES_WORKER_CANCEL, RequestCancel, RunInv, StatusReachable,
     DispatchedOnce, Authorised, StopsAreExplained, BeforeDispatch, Executing, TERMINAL,
     Terminal, RowProgress, Proposed, TypeOK
<1>. QED
  BY <1>1, <1>2 DEF RequestCancel

(* Every operation on a run keeps the run's part of the invariant. *)
LEMMA OwnRow ==
  ASSUME Inv, NEW r \in Run, RunStep(r)
  PROVE  RunInv(r)' /\ RowProgress(r)
<1>. USE DEF Inv, RunInv, StatusReachable, DispatchedOnce, Authorised, StopsAreExplained,
             BeforeDispatch, Executing, TERMINAL, Terminal, RowProgress, Proposed
<1>. RunInv(r) /\ TypeOK
  OBVIOUS
<1>1. CASE CreateRun(r)
  BY <1>1 DEF CreateRun, TypeOK
<1>2. CASE SubmitForApproval(r)
  BY <1>2, TransitionSources DEF SubmitForApproval, Transition, TypeOK
<1>3. CASE ApproveRun(r)
  BY <1>3, TransitionSources DEF ApproveRun, DeadlineAtApproval, TypeOK
<1>4. CASE RejectRun(r)
  BY <1>4, TransitionSources DEF RejectRun, Transition, TypeOK
<1>5. CASE StartSelectedTask(r)
  BY <1>5 DEF StartSelectedTask, TypeOK
<1>6. CASE Dispatch(r)
  <2>1. ASSUME NEW offersCoding \in BOOLEAN, NEW w \in Worker, LeaseNextRun(w, r, offersCoding)
        PROVE  RunInv(r)' /\ RowProgress(r)
    BY <2>1, ConstantsAssumption
       DEF LeaseNextRun, Dispatchable, Transition, TypeOK, ConstantsAssumption
  <2>2. ASSUME NEW offersCoding \in BOOLEAN, StopAtDispatch(r, offersCoding)
        PROVE  RunInv(r)' /\ RowProgress(r)
    <3>1. PICK refusal \in DispatchRefusals(r) :
            /\ Transition(r, refusal[1])
            /\ stopReason' = [stopReason EXCEPT ![r] = refusal[2]]
      BY <2>2 DEF StopAtDispatch
    <3>2. status[r] = "queued" /\ ~cancelRequested[r]
      BY <2>2 DEF StopAtDispatch, Dispatchable
    <3>3. refusal[1] # "failed"
      BY <3>1, <3>2, TransitionSources DEF Transition
    <3>4. /\ status'[r] = "stopped_by_guardrail"
          /\ stopReason'[r] \in {"repository_not_approved", "model_provider_required"}
      BY <3>1, <3>3 DEF DispatchRefusals, Transition, TypeOK
    <3>. QED
      BY <2>2, <3>2, <3>4 DEF StopAtDispatch
  <2>3. ASSUME NEW offersCoding \in BOOLEAN, FailAtDispatch(r, offersCoding)
        PROVE  RunInv(r)' /\ RowProgress(r)
    <3>1. RowKept(r)
      BY <2>3 DEF FailAtDispatch, RejectTransition, runVars, RowKept
    <3>. QED
      BY <3>1, KeptRow
  <2>. QED
    BY <1>6, <2>1, <2>2, <2>3 DEF Dispatch
<1>7. CASE SubmitReview(r)
  BY <1>7, TransitionSources DEF SubmitReview, Transition, TypeOK
<1>8. ASSUME NEW outcome \in Outcomes, NEW gaps \in BOOLEAN, ReviewAcceptance(r, outcome, gaps)
      PROVE  RunInv(r)' /\ RowProgress(r)
  BY <1>8, KeptRow DEF ReviewAcceptance, runVars, RowKept
<1>9. CASE OperatorCancel(r)
  BY <1>9, RequestCancelRow DEF OperatorCancel
<1>10. CASE ForceCancel(r)
  BY <1>10, TransitionStatuses DEF ForceCancel, Transition, TypeOK
<1>11. CASE StopPastCutoff(r)
  BY <1>11, RequestCancelRow DEF StopPastCutoff
<1>12. CASE SkipPastCutoff(r)
  BY <1>12, KeptRow DEF SkipPastCutoff, runVars, RowKept
<1>13. CASE DeadlinePasses(r)
  BY <1>13 DEF DeadlinePasses, TypeOK
<1>. QED
  BY <1>1, <1>2, <1>3, <1>4, <1>5, <1>6, <1>7, <1>8, <1>9, <1>10, <1>11, <1>12, <1>13
     DEF RunStep

(* Serving a completion call: one row at most changes, and it keeps its part. *)
LEMMA CompletionRow ==
  ASSUME Inv, NEW c \in completions, CompletionStep(c), NEW q \in Run
  PROVE  RunInv(q)' /\ RowProgress(q)
<1>. TypeOK /\ RunInv(q) /\ RunInv(c.run) /\ CompletionIsOwned(c) /\ c \in Completion
  BY DEF Inv, TypeOK, Completion
<1>1. CASE CompleteRun(c) /\ q = c.run
  <2>1. /\ workerId[q] # NoWorker /\ ~Terminal(q) /\ status[q] \in Executing
        /\ attempt[q] = 1
    BY <1>1, LiveRun DEF CompletionIsOwned, CompleteRun, RunInv, DispatchedOnce
  <2>2. /\ status'[q] = CompletionTarget(c) /\ stopReason'[q] = CompletionStopReason(c)
        /\ approvalState'[q] = approvalState[q] /\ decision'[q] = decision[q]
        /\ deadline'[q] = deadline[q] /\ workerId'[q] = workerId[q]
        /\ cancelRequested'[q] = cancelRequested[q] /\ attempt'[q] = attempt[q]
    BY <1>1 DEF CompleteRun, Transition, TypeOK
  <2>3. /\ status'[q] \in TERMINAL /\ stopReason'[q] # "null"
        /\ stopReason[q] # "null" => stopReason'[q] = stopReason[q]
    BY <1>1, <2>2, CompletionTargets, CompletionReasons
  <2>4. status'[q] = "stopped_by_guardrail" => stopReason'[q] = "overnight_cutoff"
    BY <1>1, <2>1, <2>2, <2>3, CompletionTargets DEF GuardrailStop, RunInv, StopsAreExplained
  <2>5. status'[q] = "cancelled" => stopReason'[q] = "cancelled_by_user"
    BY <1>1, <2>1, <2>2, <2>3, CompletionTargets
       DEF GuardrailStop, CompletionIsOwned, RunInv, StopsAreExplained
  <2>. QED
    BY <2>1, <2>2, <2>3, <2>4, <2>5
       DEF RunInv, StatusReachable, DispatchedOnce, Authorised, StopsAreExplained, Terminal,
           BeforeDispatch, Executing, TERMINAL, RowProgress, Proposed
<1>2. CASE CompleteRun(c) /\ q # c.run
  BY <1>2, KeptRow DEF CompleteRun, Transition, TypeOK, RowKept
<1>3. CASE CompleteAgain(c)
  BY <1>3, KeptRow DEF CompleteAgain, runVars, RowKept
<1>4. CASE CompleteRefused(c)
  BY <1>4, KeptRow DEF CompleteRefused, RejectTransition, runVars, RowKept
<1>. QED
  BY <1>1, <1>2, <1>3, <1>4 DEF CompletionStep

(* Every step, of whatever kind, keeps every run's part of the invariant. *)
LEMMA EveryRow ==
  ASSUME Inv, [Next]_vars, NEW q \in Run
  PROVE  RunInv(q)' /\ RowProgress(q)
<1>. TypeOK /\ RunInv(q)
  BY DEF Inv
<1>1. ASSUME NEW r \in Run, RunStep(r) PROVE RunInv(q)' /\ RowProgress(q)
  BY <1>1, OwnRow, OtherRowsKept, KeptRow
<1>2. ASSUME NEW c \in completions, CompletionStep(c) PROVE RunInv(q)' /\ RowProgress(q)
  BY <1>2, CompletionRow
<1>3. CASE SelectPastCutoff
  BY <1>3, KeptRow DEF SelectPastCutoff, runVars, RowKept
<1>4. CASE SetRepositoryApproval
  BY <1>4, KeptRow DEF SetRepositoryApproval, runVars, RowKept
<1>5. ASSUME NEW t \in Task, NEW s \in TASK_STATUSES, UpdateTask(t, s)
      PROVE  RunInv(q)' /\ RowProgress(q)
  BY <1>5, KeptRow DEF UpdateTask, runVars, RowKept
<1>6. CASE UNCHANGED vars
  BY <1>6, KeptRow DEF vars, runVars, RowKept
<1>. QED
  BY <1>1, <1>2, <1>3, <1>4, <1>5, <1>6 DEF Next

-----------------------------------------------------------------------------
(* What the calls in service and the sweeper's selection still know.       *)

(* A step either leaves the two sets, shrinks them, or adds to one of them what the
   guard of that addition says. *)
LEMMA CallsAndSweep ==
  ASSUME Inv, [Next]_vars
  PROVE  /\ \A c \in completions' : c \in completions \/
               /\ c.run \in Run /\ workerId[c.run] # NoWorker
               /\ c.outcome = "cancelled" => cancelRequested[c.run]
               /\ c.gaps => c.outcome = "succeeded"
         /\ \A r \in cutoffSweep' : r \in cutoffSweep \/ PastCutoff(r)
<1>. TypeOK
  BY DEF Inv
<1>1. ASSUME NEW r \in Run, RunStep(r), ~StopPastCutoff(r), ~SkipPastCutoff(r),
             \A outcome \in Outcomes, gaps \in BOOLEAN : ~ReviewAcceptance(r, outcome, gaps)
      PROVE  completions' = completions /\ cutoffSweep' = cutoffSweep
  <2>1. CASE CreateRun(r) \/ SubmitForApproval(r) \/ ApproveRun(r) \/ RejectRun(r)
             \/ StartSelectedTask(r) \/ SubmitReview(r) \/ ForceCancel(r) \/ DeadlinePasses(r)
    BY <2>1 DEF CreateRun, SubmitForApproval, ApproveRun, RejectRun, StartSelectedTask,
                SubmitReview, ForceCancel, DeadlinePasses, requestVars
  <2>2. CASE Dispatch(r)
    BY <2>2 DEF Dispatch, LeaseNextRun, StopAtDispatch, FailAtDispatch, RejectTransition,
                requestVars
  <2>3. CASE OperatorCancel(r)
    BY <2>3 DEF OperatorCancel, RequestCancel
  <2>. QED
    BY <1>1, <2>1, <2>2, <2>3 DEF RunStep
<1>2. ASSUME NEW r \in Run, StopPastCutoff(r) \/ SkipPastCutoff(r)
      PROVE  completions' = completions /\ cutoffSweep' \subseteq cutoffSweep
  BY <1>2 DEF StopPastCutoff, SkipPastCutoff, RequestCancel
<1>3. ASSUME NEW r \in Run, NEW outcome \in Outcomes, NEW gaps \in BOOLEAN,
             ReviewAcceptance(r, outcome, gaps)
      PROVE  /\ cutoffSweep' = cutoffSweep
             /\ completions' = completions \cup {[run |-> r, outcome |-> outcome, gaps |-> gaps]}
             /\ workerId[r] # NoWorker
             /\ outcome = "cancelled" => cancelRequested[r]
             /\ gaps => outcome = "succeeded"
  BY <1>3 DEF ReviewAcceptance
<1>4. ASSUME NEW c \in completions, CompletionStep(c)
      PROVE  completions' \subseteq completions /\ cutoffSweep' = cutoffSweep
  BY <1>4 DEF CompletionStep, CompleteRun, CompleteAgain, CompleteRefused, RejectTransition
<1>5. CASE SelectPastCutoff
  BY <1>5 DEF SelectPastCutoff
<1>6. ASSUME \/ SetRepositoryApproval
             \/ \E t \in Task, s \in TASK_STATUSES : UpdateTask(t, s)
             \/ UNCHANGED vars
      PROVE  completions' = completions /\ cutoffSweep' = cutoffSweep
  BY <1>6 DEF SetRepositoryApproval, UpdateTask, vars, requestVars
<1>. QED
  BY <1>1, <1>2, <1>3, <1>4, <1>5, <1>6 DEF Next

-----------------------------------------------------------------------------
(* The invariant.                                                          *)

LEMMA InitInv == Init => Inv
<1>. SUFFICES ASSUME Init PROVE Inv
  OBVIOUS
<1>1. TypeOK
  BY InitType
<1>2. ASSUME NEW r \in Run PROVE RunInv(r)
  BY DEF Init, RunInv, StatusReachable, DispatchedOnce, Authorised, StopsAreExplained,
         BeforeDispatch, Executing, TERMINAL, Terminal
<1>. QED
  BY <1>1, <1>2 DEF Init, Inv

LEMMA NextInv == Inv /\ [Next]_vars => Inv'
<1>. SUFFICES ASSUME Inv, [Next]_vars PROVE Inv'
  OBVIOUS
<1>1. TypeOK /\ TypeOK'
  BY NextType DEF Inv
<1>2. ASSUME NEW r \in Run PROVE RunInv(r)' /\ RowProgress(r)
  BY <1>2, EveryRow
<1>3. ASSUME NEW c \in completions' PROVE CompletionIsOwned(c)'
  <2>1. /\ c.run \in Run /\ workerId[c.run] # NoWorker
        /\ c.outcome = "cancelled" => cancelRequested[c.run]
        /\ c.gaps => c.outcome = "succeeded"
    BY <1>1, CallsAndSweep DEF Inv, CompletionIsOwned, TypeOK, Completion
  <2>2. RowProgress(c.run)
    BY <1>2, <2>1
  <2>. QED
    BY <2>1, <2>2 DEF RowProgress, CompletionIsOwned
<1>4. ASSUME NEW r \in cutoffSweep' PROVE SweepIsOverdue(r)'
  <2>1. r \in Run
    BY <1>1 DEF TypeOK
  <2>2. SweepIsOverdue(r)
    BY CallsAndSweep DEF Inv, PastCutoff, SweepIsOverdue
  <2>. QED
    BY <1>2, <2>1, <2>2 DEF SweepIsOverdue, RowProgress, Proposed
<1>. QED
  BY <1>1, <1>2, <1>3, <1>4 DEF Inv

(* The invariant holds in every reachable state. *)
THEOREM InvHolds == Spec => []Inv
BY InitInv, NextInv, PTL DEF Spec

-----------------------------------------------------------------------------
(* The safety invariants the runs check.                                   *)

(* Whatever order of submissions, rejections, dispatches and stops: an executed run
   carries the approval of its latest decision and, overnight, a deadline. *)
THEOREM ExecutionIsAuthorised == Spec => []ExecutionWasAuthorised
<1>1. Inv => ExecutionWasAuthorised
  BY DEF Inv, TypeOK, RunInv, DispatchedOnce, Authorised, ExecutionWasAuthorised
<1>. QED
  BY <1>1, InvHolds, PTL

(* A requested stop never waits on a run no worker will be told about. *)
THEOREM OutstandingStopsAreDeliverable == Spec => []OutstandingStopIsDeliverable
<1>1. Inv => OutstandingStopIsDeliverable
  <2>. SUFFICES ASSUME Inv, NEW r \in Run, cancelRequested[r], ~Terminal(r)
                PROVE  status[r] \in REQUIRES_WORKER_CANCEL /\ workerId[r] # NoWorker
    BY DEF OutstandingStopIsDeliverable
  <2>. QED
    BY LiveRun DEF Inv, REQUIRES_WORKER_CANCEL, Executing
<1>. QED
  BY <1>1, InvHolds, PTL

(* How a run ended and why it did never contradict each other. *)
THEOREM EndsAreExplained == Spec => []EndIsExplained
<1>1. Inv => EndIsExplained
  BY DEF Inv, TypeOK, RunInv, StopsAreExplained, EndIsExplained
<1>. QED
  BY <1>1, InvHolds, PTL

-----------------------------------------------------------------------------
(* The action properties.                                                  *)

(* No call, however late or repeated, changes how a run ended. *)
THEOREM EndsAreFinal == Spec => EndedIsFinal
<1>1. Inv /\ [Next]_vars =>
        \A r \in Run : Terminal(r) =>
          /\ status'[r] = status[r]
          /\ stopReason'[r] = stopReason[r]
          /\ workerId'[r] = workerId[r]
  BY EveryRow DEF RowProgress
<1>. QED
  BY <1>1, InvHolds, PTL DEF Spec, EndedIsFinal

(* Neither a second stop nor the worker's report replaces the reason of the first. *)
THEOREM FirstStopReasonsWin == Spec => FirstStopReasonWins
<1>1. Inv /\ [Next]_vars =>
        \A r \in Run : cancelRequested[r] /\ stopReason'[r] # stopReason[r] =>
          stopReason'[r] = "force_cancelled_worker_unreachable"
  <2>. SUFFICES ASSUME Inv, [Next]_vars, NEW r \in Run, cancelRequested[r],
                       stopReason'[r] # stopReason[r]
                PROVE  stopReason'[r] = "force_cancelled_worker_unreachable"
    OBVIOUS
  <2>. QED
    BY EveryRow DEF RowProgress
<1>. QED
  BY <1>1, InvHolds, PTL DEF Spec, FirstStopReasonWins

(* The reason of the run whose row is kept is kept. *)
LEMMA ReasonChanges ==
  ASSUME Inv, [Next]_vars, NEW q \in Run, stopReason'[q] = "overnight_cutoff",
         stopReason[q] # "overnight_cutoff"
  PROVE  StopPastCutoff(q)
<1>. TypeOK
  BY DEF Inv
<1>1. ~RowKept(q)
  BY DEF RowKept
<1>2. ASSUME NEW r \in Run, RunStep(r) PROVE StopPastCutoff(q)
  <2>1. q = r
    BY <1>1, <1>2, OtherRowsKept
  <2>2. CASE CreateRun(r) \/ SubmitForApproval(r) \/ ApproveRun(r) \/ RejectRun(r)
             \/ StartSelectedTask(r) \/ SubmitReview(r) \/ DeadlinePasses(r)
    BY <2>1, <2>2 DEF CreateRun, SubmitForApproval, ApproveRun, RejectRun, StartSelectedTask,
       SubmitReview, DeadlinePasses
  <2>3. CASE Dispatch(r)
    <3>1. ASSUME NEW o \in BOOLEAN, NEW w \in Worker, LeaseNextRun(w, r, o)
          PROVE  stopReason' = stopReason
      BY <3>1 DEF LeaseNextRun
    <3>2. ASSUME NEW o \in BOOLEAN, StopAtDispatch(r, o)
          PROVE  stopReason'[q] # "overnight_cutoff"
      <4>1. PICK refusal \in DispatchRefusals(r) :
              stopReason' = [stopReason EXCEPT ![r] = refusal[2]]
        BY <3>2 DEF StopAtDispatch
      <4>. QED
        BY <2>1, <4>1 DEF DispatchRefusals, TypeOK
    <3>3. ASSUME NEW o \in BOOLEAN, FailAtDispatch(r, o)
          PROVE  stopReason' = stopReason
      BY <3>3 DEF FailAtDispatch, RejectTransition, runVars
    <3>. QED
      BY <2>3, <3>1, <3>2, <3>3 DEF Dispatch
  <2>4. ASSUME NEW outcome \in Outcomes, NEW gaps \in BOOLEAN, ReviewAcceptance(r, outcome, gaps)
        PROVE  FALSE
    BY <2>4 DEF ReviewAcceptance, runVars
  <2>5. CASE OperatorCancel(r)
    BY <2>1, <2>5 DEF OperatorCancel, RequestCancel, StopBeforeDispatch, AskWorkerToStop, TypeOK
  <2>6. CASE ForceCancel(r)
    BY <2>1, <2>6 DEF ForceCancel, TypeOK
  <2>7. CASE SkipPastCutoff(r)
    BY <2>7 DEF SkipPastCutoff, runVars
  <2>. QED
    BY <1>2, <2>1, <2>2, <2>3, <2>4, <2>5, <2>6, <2>7 DEF RunStep
<1>3. ASSUME NEW c \in completions, CompletionStep(c) PROVE FALSE
  <2>1. CASE CompleteRun(c)
    BY <2>1 DEF CompleteRun, CompletionStopReason, WorkerReason, TypeOK, Completion, Outcomes
  <2>2. CASE CompleteAgain(c) \/ CompleteRefused(c)
    BY <2>2 DEF CompleteAgain, CompleteRefused, RejectTransition, runVars
  <2>. QED
    BY <1>3, <2>1, <2>2 DEF CompletionStep
<1>4. ASSUME \/ SelectPastCutoff \/ SetRepositoryApproval \/ UNCHANGED vars
             \/ \E t \in Task, s \in TASK_STATUSES : UpdateTask(t, s)
      PROVE  FALSE
  BY <1>4 DEF SelectPastCutoff, SetRepositoryApproval, UpdateTask, vars, runVars
<1>. QED
  BY <1>2, <1>3, <1>4 DEF Next

(* The sweep's stale selection still stops only runs whose overnight deadline passed. *)
THEOREM SweepsStopOnlyOverdueRuns == Spec => SweepStopsOnlyOverdueRuns
<1>1. Inv /\ [Next]_vars =>
        \A r \in Run :
          stopReason'[r] = "overnight_cutoff" /\ stopReason[r] # "overnight_cutoff" =>
            r \in Overnight /\ deadline[r] = "passed" /\ ~cancelRequested[r] /\ ~Terminal(r)
  <2>. SUFFICES ASSUME Inv, [Next]_vars, NEW r \in Run, stopReason'[r] = "overnight_cutoff",
                       stopReason[r] # "overnight_cutoff"
                PROVE  /\ r \in Overnight /\ deadline[r] = "passed"
                       /\ ~cancelRequested[r] /\ ~Terminal(r)
    OBVIOUS
  <2>1. r \in cutoffSweep /\ RequestCancel(r, "overnight_cutoff")
    BY ReasonChanges DEF StopPastCutoff
  <2>2. SweepIsOverdue(r) /\ RunInv(r) /\ TypeOK
    BY <2>1 DEF Inv
  <2>3. CASE StopBeforeDispatch(r, "overnight_cutoff")
    BY <2>2, <2>3, LiveRun DEF StopBeforeDispatch, SweepIsOverdue, IMMEDIATELY_CANCELLABLE,
       Terminal, TERMINAL, BeforeDispatch, Executing
  <2>4. CASE AskWorkerToStop(r, "overnight_cutoff")
    BY <2>2, <2>4 DEF AskWorkerToStop, SweepIsOverdue, REQUIRES_WORKER_CANCEL, Terminal, TERMINAL
  <2>. QED
    BY <2>1, <2>3, <2>4 DEF RequestCancel
<1>. QED
  BY <1>1, InvHolds, PTL DEF Spec, SweepStopsOnlyOverdueRuns

(* The control plane calls a task done only when one of its runs completes. *)
THEOREM DoneIsAlwaysEarned == Spec => DoneIsEarned
<1>1. TypeOK /\ [Next]_vars =>
        \A t \in Task : taskStatus[t] # "done" /\ taskStatus'[t] = "done" =>
          \/ UpdateTask(t, "done")
          \/ \E r \in Run : TaskOf[r] = t /\ status[r] # "completed" /\ status'[r] = "completed"
  <2>. SUFFICES ASSUME TypeOK, [Next]_vars, NEW t \in Task, taskStatus[t] # "done",
                       taskStatus'[t] = "done"
                PROVE  \/ UpdateTask(t, "done")
                       \/ \E r \in Run : /\ TaskOf[r] = t /\ status[r] # "completed"
                                        /\ status'[r] = "completed"
    OBVIOUS
  <2>1. ASSUME NEW r \in Run, RunStep(r) PROVE FALSE
    <3>1. CASE Dispatch(r)
      <4>1. ASSUME NEW o \in BOOLEAN, NEW w \in Worker, LeaseNextRun(w, r, o) PROVE FALSE
        BY <4>1 DEF LeaseNextRun, TypeOK
      <4>. QED
        BY <3>1, <4>1 DEF Dispatch, StopAtDispatch, FailAtDispatch, RejectTransition
    <3>2. ASSUME ~Dispatch(r) PROVE taskStatus' = taskStatus
      BY <2>1, <3>2 DEF RunStep, CreateRun, SubmitForApproval, ApproveRun, RejectRun,
         StartSelectedTask, SubmitReview, ReviewAcceptance, OperatorCancel, ForceCancel,
         StopPastCutoff, SkipPastCutoff, DeadlinePasses, RequestCancel
    <3>. QED
      BY <3>1, <3>2
  <2>2. ASSUME NEW c \in completions, CompletionStep(c)
        PROVE  \E r \in Run : TaskOf[r] = t /\ status[r] # "completed" /\ status'[r] = "completed"
    <3>1. c \in Completion /\ c.run \in Run
      BY DEF TypeOK, Completion
    <3>2. CASE CompleteRun(c)
      <4>1. TaskOf[c.run] = t /\ TaskStatusAfter(c) = "done"
        BY <3>1, <3>2 DEF CompleteRun, TypeOK
      <4>2. CompletionTarget(c) = "completed"
        BY <3>1, <4>1 DEF TaskStatusAfter, CompletionTarget, GuardrailStop, OUTCOME_TO_STATUS,
           Completion, Outcomes
      <4>3. status[c.run] # "completed" /\ status'[c.run] = "completed"
        BY <3>1, <3>2, <4>2 DEF CompleteRun, Terminal, TERMINAL, Transition, TypeOK
      <4>. QED
        BY <3>1, <4>1, <4>3
    <3>3. CASE CompleteAgain(c) \/ CompleteRefused(c)
      BY <3>3 DEF CompleteAgain, CompleteRefused, RejectTransition
    <3>. QED
      BY <2>2, <3>2, <3>3 DEF CompletionStep
  <2>3. ASSUME NEW u \in Task, NEW s \in TASK_STATUSES, UpdateTask(u, s)
        PROVE  UpdateTask(t, "done")
    <3>1. u = t /\ s = "done"
      BY <2>3 DEF UpdateTask, TypeOK
    <3>. QED
      BY <2>3, <3>1
  <2>4. ASSUME SelectPastCutoff \/ SetRepositoryApproval \/ UNCHANGED vars
        PROVE  FALSE
    BY <2>4 DEF SelectPastCutoff, SetRepositoryApproval, vars
  <2>. QED
    BY <2>1, <2>2, <2>3, <2>4 DEF Next
<1>. QED
  BY <1>1, TypeCorrect, PTL DEF Spec, DoneIsEarned

-----------------------------------------------------------------------------
(* The lifecycle implements the contract.                                  *)

absPhase == [r \in Run |-> Phase(status[r])]
absResult == [r \in Run |-> IF Terminal(r) THEN status[r] ELSE "none"]

(* A move of one run's status moves its phase and its result, and no other's. *)
LEMMA AbstractMove ==
  ASSUME TypeOK, NEW r \in Run, NEW to, status' = [status EXCEPT ![r] = to]
  PROVE  /\ absPhase' = [absPhase EXCEPT ![r] = Phase(to)]
         /\ absResult' = [absResult EXCEPT ![r] = IF to \in TERMINAL THEN to ELSE "none"]
BY DEF absPhase, absResult, Terminal, TypeOK

(* A live run has no result, so a move to a live status leaves the results alone. *)
LEMMA LiveMove ==
  ASSUME TypeOK, NEW r \in Run, ~Terminal(r), NEW to, to \notin TERMINAL,
         status' = [status EXCEPT ![r] = to]
  PROVE  /\ absPhase' = [absPhase EXCEPT ![r] = Phase(to)]
         /\ absResult' = absResult
BY DEF absPhase, absResult, Terminal, TypeOK

LEMMA InitContract == Init => Contract!Init
BY DEF Init, Contract!Init, Phase, Terminal, TERMINAL

(* The contract's variables under the refinement mapping. *)
LEMMA Mapping ==
  /\ Contract!contractVars = <<absPhase, workerId, absResult>>
  /\ \A r : Contract!Propose(r) <=>
       /\ absPhase[r] \in {"unborn", "proposed"}
       /\ absPhase' = [absPhase EXCEPT ![r] = "proposed"]
       /\ UNCHANGED <<workerId, absResult>>
  /\ \A r : Contract!Authorise(r) <=>
       /\ absPhase[r] \in {"unborn", "proposed"}
       /\ absPhase' = [absPhase EXCEPT ![r] = "authorised"]
       /\ UNCHANGED <<workerId, absResult>>
  /\ \A r, w : Contract!Start(r, w) <=>
       /\ absPhase[r] = "authorised"
       /\ workerId[r] = NoWorker
       /\ absPhase' = [absPhase EXCEPT ![r] = "executing"]
       /\ workerId' = [workerId EXCEPT ![r] = w]
       /\ UNCHANGED absResult
  /\ \A r, res : Contract!Deliver(r, res) <=>
       /\ absPhase[r] = "executing"
       /\ absPhase' = [absPhase EXCEPT ![r] = "ended"]
       /\ absResult' = [absResult EXCEPT ![r] = res]
       /\ UNCHANGED workerId
  /\ \A r, res : Contract!Stop(r, res) <=>
       /\ absPhase[r] \in {"proposed", "authorised", "executing"}
       /\ absPhase' = [absPhase EXCEPT ![r] = "ended"]
       /\ absResult' = [absResult EXCEPT ![r] = res]
       /\ UNCHANGED workerId
BY DEF absPhase, absResult, Contract!contractVars, Contract!Propose, Contract!Authorise,
   Contract!Start, Contract!Deliver, Contract!Stop

AbstractStutter == UNCHANGED <<absPhase, workerId, absResult>>

(* A stop of a live run that was created is the contract's Stop. *)
LEMMA StopIsStop ==
  ASSUME TypeOK, NEW r \in Run, status[r] \notin TERMINAL \cup {"absent"},
         NEW to \in {"cancelled", "stopped_by_guardrail"},
         status' = [status EXCEPT ![r] = to], workerId' = workerId
  PROVE  Contract!Stop(r, to)
<1>1. /\ absPhase' = [absPhase EXCEPT ![r] = "ended"]
      /\ absResult' = [absResult EXCEPT ![r] = to]
  BY AbstractMove DEF Phase, TERMINAL
<1>2. absPhase[r] \in {"proposed", "authorised", "executing"}
  BY DEF absPhase, Phase
<1>. QED
  BY <1>1, <1>2, Mapping

(* The end of executed work is the contract's Deliver. *)
LEMMA DeliveryIsDeliver ==
  ASSUME TypeOK, NEW r \in Run, status[r] \in Executing,
         NEW to \in {"completed", "completed_with_gaps", "failed"},
         status' = [status EXCEPT ![r] = to], workerId' = workerId
  PROVE  Contract!Deliver(r, to)
<1>0. Phase(to) = "ended" /\ to \in TERMINAL
  BY DEF Phase, TERMINAL
<1>1. /\ absPhase' = [absPhase EXCEPT ![r] = "ended"]
      /\ absResult' = [absResult EXCEPT ![r] = to]
  BY <1>0, AbstractMove
<1>2. absPhase[r] = "executing"
  BY DEF absPhase, Phase, Executing, TERMINAL
<1>. QED
  BY <1>1, <1>2, Mapping

(* Each operation on a run is a step of the contract or does not show in it. *)
LEMMA RunStepContract ==
  ASSUME Inv, NEW r \in Run, RunStep(r)
  PROVE  Contract!Next \/ AbstractStutter
<1>. TypeOK /\ RunInv(r)
  BY DEF Inv
<1>. DEFINE Keeps == UNCHANGED <<status, workerId>>
<1>1. ASSUME Keeps PROVE AbstractStutter
  BY <1>1 DEF AbstractStutter, absPhase, absResult, Terminal
<1>2. CASE CreateRun(r) \/ SubmitForApproval(r) \/ RejectRun(r)
  <2>1. PICK to \in {"draft", "ready_for_approval"} : status' = [status EXCEPT ![r] = to]
    BY <1>2 DEF CreateRun, SubmitForApproval, RejectRun, Transition
  <2>2. status[r] \in {"absent", "draft", "ready_for_approval", "discovery"}
    BY <1>2, TransitionSources DEF CreateRun, SubmitForApproval, RejectRun, Transition
  <2>3. absPhase[r] \in {"unborn", "proposed"} /\ Phase(to) = "proposed"
    BY <2>2 DEF absPhase, Phase
  <2>4. ~Terminal(r) /\ to \notin TERMINAL
    BY <2>2 DEF Terminal, TERMINAL
  <2>5. absPhase' = [absPhase EXCEPT ![r] = "proposed"] /\ absResult' = absResult
    BY <2>1, <2>3, <2>4, LiveMove
  <2>6. workerId' = workerId
    BY <1>2 DEF CreateRun, SubmitForApproval, RejectRun
  <2>7. Contract!Propose(r)
    BY <2>3, <2>5, <2>6, Mapping
  <2>. QED
    BY <2>7 DEF Contract!Next
<1>3. CASE ApproveRun(r) \/ StartSelectedTask(r)
  <2>1. status[r] \in {"absent", "ready_for_approval"}
    BY <1>3, TransitionSources DEF ApproveRun, StartSelectedTask
  <2>2. absPhase[r] \in {"unborn", "proposed"} /\ Phase("queued") = "authorised"
    BY <2>1 DEF absPhase, Phase
  <2>3. ~Terminal(r) /\ "queued" \notin TERMINAL
    BY <2>1 DEF Terminal, TERMINAL
  <2>4. Contract!Authorise(r)
    BY <1>3, <2>2, <2>3, LiveMove, Mapping DEF ApproveRun, StartSelectedTask
  <2>. QED
    BY <2>4 DEF Contract!Next
<1>4. CASE Dispatch(r)
  <2>1. ASSUME NEW o \in BOOLEAN, NEW w \in Worker, LeaseNextRun(w, r, o)
        PROVE  Contract!Start(r, w)
    <3>1. status[r] = "queued" /\ workerId[r] = NoWorker /\ ~Terminal(r)
      BY <2>1, LiveRun DEF LeaseNextRun, Dispatchable, BeforeDispatch, Terminal, TERMINAL
    <3>2. absPhase[r] = "authorised" /\ Phase("running") = "executing"
      BY <3>1 DEF absPhase, Phase, TERMINAL
    <3>3. "running" \notin TERMINAL
      BY DEF TERMINAL
    <3>4. status' = [status EXCEPT ![r] = "running"] /\ workerId' = [workerId EXCEPT ![r] = w]
      BY <2>1 DEF LeaseNextRun, Transition
    <3>5. absPhase' = [absPhase EXCEPT ![r] = "executing"] /\ absResult' = absResult
      BY <3>1, <3>2, <3>3, <3>4, LiveMove
    <3>. QED
      BY <3>1, <3>2, <3>4, <3>5, Mapping
  <2>2. ASSUME NEW o \in BOOLEAN, StopAtDispatch(r, o)
        PROVE  Contract!Stop(r, "stopped_by_guardrail")
    <3>1. PICK refusal \in DispatchRefusals(r) : Transition(r, refusal[1])
      BY <2>2 DEF StopAtDispatch
    <3>2. status[r] = "queued"
      BY <2>2 DEF StopAtDispatch, Dispatchable
    <3>3. refusal[1] = "stopped_by_guardrail"
      BY <3>1, <3>2, TransitionSources DEF Transition, DispatchRefusals
    <3>. QED
      BY <2>2, <3>1, <3>2, <3>3, StopIsStop DEF StopAtDispatch, Transition, TERMINAL
  <2>3. ASSUME NEW o \in BOOLEAN, FailAtDispatch(r, o)
        PROVE  Keeps
    BY <2>3 DEF FailAtDispatch, RejectTransition, runVars
  <2>. QED
    BY <1>1, <1>4, <2>1, <2>2, <2>3 DEF Dispatch, Contract!Next, Contract!StopResults
<1>5. CASE SubmitReview(r)
  <2>1. status[r] = "running" /\ ~Terminal(r) /\ "self_review" \notin TERMINAL
    BY <1>5, TransitionSources DEF SubmitReview, Transition, Terminal, TERMINAL
  <2>2. absPhase[r] = "executing" /\ Phase("self_review") = "executing"
    BY <2>1 DEF absPhase, Phase, Terminal, TERMINAL
  <2>3. absPhase' = [absPhase EXCEPT ![r] = "executing"] /\ UNCHANGED <<workerId, absResult>>
    BY <1>5, <2>1, <2>2, LiveMove DEF SubmitReview, Transition
  <2>. QED
    BY <2>2, <2>3 DEF AbstractStutter, absPhase
<1>6. ASSUME NEW outcome \in Outcomes, NEW gaps \in BOOLEAN, ReviewAcceptance(r, outcome, gaps)
      PROVE  Keeps
  BY <1>6 DEF ReviewAcceptance, runVars
<1>7. ASSUME NEW reason \in {"cancelled_by_user", "overnight_cutoff"}, RequestCancel(r, reason)
      PROVE  Contract!Next \/ AbstractStutter
  <2>1. CASE StopBeforeDispatch(r, reason)
    <3>1. PICK to \in {"cancelled", "stopped_by_guardrail"} : Transition(r, to)
      BY <2>1 DEF StopBeforeDispatch
    <3>2. status[r] \notin TERMINAL \cup {"absent"} /\ workerId' = workerId
      BY <1>7, <2>1 DEF StopBeforeDispatch, IMMEDIATELY_CANCELLABLE, TERMINAL, RequestCancel
    <3>3. Contract!Stop(r, to)
      BY <3>1, <3>2, StopIsStop DEF Transition
    <3>. QED
      BY <3>3 DEF Contract!Next, Contract!StopResults
  <2>2. CASE AskWorkerToStop(r, reason)
    BY <1>1, <1>7, <2>2 DEF AskWorkerToStop, RequestCancel
  <2>. QED
    BY <1>7, <2>1, <2>2 DEF RequestCancel
<1>8. CASE ForceCancel(r)
  <2>1. status[r] \notin TERMINAL \cup {"absent"}
    BY <1>8, TransitionStatuses DEF ForceCancel, Transition, RUN_STATUSES, TERMINAL
  <2>2. Contract!Stop(r, "cancelled")
    BY <1>8, <2>1, StopIsStop DEF ForceCancel, Transition
  <2>. QED
    BY <2>2 DEF Contract!Next, Contract!StopResults
<1>9. CASE SkipPastCutoff(r) \/ DeadlinePasses(r)
  BY <1>1, <1>9 DEF SkipPastCutoff, DeadlinePasses, runVars
<1>10. CASE OperatorCancel(r)
  BY <1>7, <1>10 DEF OperatorCancel
<1>11. CASE StopPastCutoff(r)
  BY <1>7, <1>11 DEF StopPastCutoff
<1>. QED
  BY <1>1, <1>2, <1>3, <1>4, <1>5, <1>6, <1>8, <1>9, <1>10, <1>11 DEF RunStep

(* A completion delivers the result of executed work, acknowledges a stop, or does not
   show. *)
LEMMA CompletionStepContract ==
  ASSUME Inv, NEW c \in completions, CompletionStep(c)
  PROVE  Contract!Next \/ AbstractStutter
<1>. TypeOK /\ c \in Completion /\ c.run \in Run /\ RunInv(c.run) /\ CompletionIsOwned(c)
  BY DEF Inv, TypeOK, Completion
<1>1. CASE CompleteRun(c)
  <2>1. status[c.run] \in Executing /\ status[c.run] \notin TERMINAL \cup {"absent"}
    BY <1>1, LiveRun DEF CompletionIsOwned, CompleteRun, RunInv, DispatchedOnce, Executing,
       TERMINAL
  <2>2. PICK to \in TERMINAL : status' = [status EXCEPT ![c.run] = to]
    BY <1>1, CompletionTargets DEF CompleteRun, Transition
  <2>. workerId' = workerId
    BY <1>1 DEF CompleteRun
  <2>3. CASE to \in {"cancelled", "stopped_by_guardrail"}
    <3>1. Contract!Stop(c.run, to)
      BY <2>1, <2>2, <2>3, StopIsStop
    <3>. QED
      BY <2>3, <3>1 DEF Contract!Next, Contract!StopResults
  <2>4. CASE to \in {"completed", "completed_with_gaps", "failed"}
    <3>1. Contract!Deliver(c.run, to)
      BY <2>1, <2>2, <2>4, DeliveryIsDeliver
    <3>. QED
      BY <2>4, <3>1 DEF Contract!Next, Contract!WorkResults
  <2>. QED
    BY <2>2, <2>3, <2>4 DEF TERMINAL
<1>2. CASE CompleteAgain(c) \/ CompleteRefused(c)
  BY <1>2 DEF CompleteAgain, CompleteRefused, RejectTransition, runVars, AbstractStutter,
     absPhase, absResult, Terminal
<1>. QED
  BY <1>1, <1>2 DEF CompletionStep

LEMMA NextContract == Inv /\ [Next]_vars => [Contract!Next]_Contract!contractVars
<1>. SUFFICES ASSUME Inv, [Next]_vars PROVE Contract!Next \/ AbstractStutter
  BY Mapping DEF AbstractStutter, absPhase, absResult, Contract!contractVars
<1>1. ASSUME NEW r \in Run, RunStep(r) PROVE Contract!Next \/ AbstractStutter
  BY <1>1, RunStepContract
<1>2. ASSUME NEW c \in completions, CompletionStep(c) PROVE Contract!Next \/ AbstractStutter
  BY <1>2, CompletionStepContract
<1>3. ASSUME \/ SelectPastCutoff \/ SetRepositoryApproval \/ UNCHANGED vars
             \/ \E t \in Task, s \in TASK_STATUSES : UpdateTask(t, s)
      PROVE  AbstractStutter
  BY <1>3 DEF SelectPastCutoff, SetRepositoryApproval, UpdateTask, vars, runVars,
     AbstractStutter, absPhase, absResult, Terminal
<1>. QED
  BY <1>1, <1>2, <1>3 DEF Next

(* Every behaviour of the control plane's rows is a behaviour of RunContract: executed
   only when authorised, once and by one worker, delivered only when executed, ended for
   good. *)
THEOREM LifecycleImplementsContract == Spec => ImplementsRunContract
BY InitContract, InvHolds, NextContract, PTL DEF Spec, ImplementsRunContract, Contract!Spec

-----------------------------------------------------------------------------
(* The two properties a run of the model checker states as wholes.         *)

(* The row of a run accounts for its approval, for a stop somebody waits for, and for how it
   ended, for any sets of runs, tasks and workers. *)
THEOREM RunsAreAccountedFor == Spec => []RunsAreAccounted
<1>1. ExecutionWasAuthorised /\ OutstandingStopIsDeliverable /\ EndIsExplained
        => RunsAreAccounted
  BY DEF RunsAreAccounted
<1>. QED
  BY <1>1, ExecutionIsAuthorised, OutstandingStopsAreDeliverable, EndsAreExplained, PTL

(* No late, repeated or stale call rewrites the record: ends are final, the first stop
   names the reason, a sweep stops only overdue runs, and done is earned. *)
THEOREM RecordsAlwaysStand == Spec => RecordStands
BY EndsAreFinal, FirstStopReasonsWin, SweepsStopOnlyOverdueRuns, DoneIsAlwaysEarned
   DEF RecordStands
=============================================================================
