--------------------------- MODULE MCRunLifecycle ---------------------------
(* Small instances of RunLifecycle for TLC. *)
EXTENDS RunLifecycle

CONSTANTS r1, r2, w1, w2, t1

(* Two runs of one task: a rerun can meet its original. *)
TwoRuns == {r1, r2}
OneRun == {r1}
OneTask == {t1}
SameTask == [r \in Run |-> t1]
=============================================================================
