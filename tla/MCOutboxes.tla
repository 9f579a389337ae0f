----------------------------- MODULE MCOutboxes -----------------------------
(* A small instance of Outboxes for TLC. *)
EXTENDS Outboxes

(* The outboxes share nothing: a behaviour queues for one of them. *)
Quiet == [mail |-> 0, writes |-> <<>>, talk |-> 0, requests |-> 0, faults |-> 0]
Progress == <<"in_progress", "ready_for_review">>
OneOutbox ==
  {[Quiet EXCEPT !.mail = 1, !.faults = 1], [Quiet EXCEPT !.writes = Progress],
   [Quiet EXCEPT !.writes = <<"update">>, !.faults = 1], [Quiet EXCEPT !.talk = 1, !.faults = 1],
   [Quiet EXCEPT !.requests = 1]}
InOrder == {[Quiet EXCEPT !.writes = Progress]}
=============================================================================
