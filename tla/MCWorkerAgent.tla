---------------------------- MODULE MCWorkerAgent ----------------------------
(* Small instances of WorkerAgent for TLC. *)
EXTENDS WorkerAgent

CONSTANTS r1, r2

OneRun == {r1}
TwoRuns == {r1, r2}
=============================================================================
