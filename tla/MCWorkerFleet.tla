---------------------------- MODULE MCWorkerFleet ----------------------------
(* A small instance of WorkerFleet for TLC. *)
EXTENDS WorkerFleet

CONSTANTS r1

OneRun == {r1}
AllAttestations == Attestations
=============================================================================
