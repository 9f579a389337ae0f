----------------------------- MODULE RunContract -----------------------------
(***************************************************************************)
(* What the control plane promises about every run, whatever the requests, *)
(* sweeps and late answers: work is executed only after it was authorised, *)
(* once and by one worker; only executed work delivers or fails; and an    *)
(* ended run stays ended, with the result it ended with.                   *)
(*                                                                         *)
(* RunLifecycle implements this module, and WorkerAgent keeps to it.       *)
(***************************************************************************)
CONSTANTS Run, Worker, NoWorker

VARIABLES
  phase,     \* where the run stands
  executor,  \* the worker that was given the run, or NoWorker
  result     \* how the run ended, or "none"

contractVars == <<phase, executor, result>>

WorkResults == {"completed", "completed_with_gaps", "failed"}
StopResults == {"cancelled", "stopped_by_guardrail"}

Init ==
  /\ phase = [r \in Run |-> "unborn"]
  /\ executor = [r \in Run |-> NoWorker]
  /\ result = [r \in Run |-> "none"]

(* A run is created, or a person turns it down and it may be proposed again. *)
Propose(r) ==
  /\ phase[r] \in {"unborn", "proposed"}
  /\ phase' = [phase EXCEPT ![r] = "proposed"]
  /\ UNCHANGED <<executor, result>>

(* A person, or the night-shift policy, approves it. *)
Authorise(r) ==
  /\ phase[r] \in {"unborn", "proposed"}
  /\ phase' = [phase EXCEPT ![r] = "authorised"]
  /\ UNCHANGED <<executor, result>>

Start(r, w) ==
  /\ phase[r] = "authorised"
  /\ executor[r] = NoWorker
  /\ phase' = [phase EXCEPT ![r] = "executing"]
  /\ executor' = [executor EXCEPT ![r] = w]
  /\ UNCHANGED result

Deliver(r, res) ==
  /\ phase[r] = "executing"
  /\ phase' = [phase EXCEPT ![r] = "ended"]
  /\ result' = [result EXCEPT ![r] = res]
  /\ UNCHANGED executor

Stop(r, res) ==
  /\ phase[r] \in {"proposed", "authorised", "executing"}
  /\ phase' = [phase EXCEPT ![r] = "ended"]
  /\ result' = [result EXCEPT ![r] = res]
  /\ UNCHANGED executor

Next ==
  \E r \in Run :
    \/ Propose(r)
    \/ Authorise(r)
    \/ \E w \in Worker : Start(r, w)
    \/ \E res \in WorkResults : Deliver(r, res)
    \/ \E res \in StopResults : Stop(r, res)

Spec == Init /\ [][Next]_contractVars
=============================================================================
