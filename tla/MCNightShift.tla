---------------------------- MODULE MCNightShift ----------------------------
(* A small instance of NightShift for TLC. *)
EXTENDS NightShift

CONSTANTS direct, item, p1

TwoTasks == {direct, item}
OneProject == [t \in Task |-> p1]
Bands == [t \in Task |-> IF t = item THEN "autonomous" ELSE "scoped"]
Ranks == [t \in Task |-> 1]
NoLabels == [t \in Task |-> "none"]
Complexities == [t \in Task |-> IF t = item THEN 7 ELSE 3]
Times == [size \in {"small", "medium", "large"} |-> 1]

(* All is well, and what can be found wrong, one thing at a time. *)
Well == [approved |-> {p1}, boardOpen |-> TRUE, startable |-> {item}, open |-> Task,
         humanRuns |-> {}, idleWorker |-> TRUE, spend |-> 0, context |-> TRUE]
WellOrNot ==
  {Well, [Well EXCEPT !.approved = {}], [Well EXCEPT !.startable = {}],
   [Well EXCEPT !.humanRuns = {item}], [Well EXCEPT !.idleWorker = FALSE],
   [Well EXCEPT !.spend = 1], [Well EXCEPT !.context = FALSE]}
=============================================================================
