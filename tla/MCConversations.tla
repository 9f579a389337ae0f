-------------------------- MODULE MCConversations --------------------------
(* A small instance of Conversations for TLC. *)
EXTENDS Conversations, TLC

CONSTANTS c1, c2, work, words, verdict, t1, t2, r1, d1, d2, d3

Callers == {c1, c2}
AnyOrder == Permutations(Callers)

Weights == [d \in Dimension |-> IF d = d1 THEN 2 ELSE 1]

(* The opening message tells d1 or nothing: d2 is left to be found or asked for. *)
Reading == [m \in Said |-> IF m = work THEN {d1} ELSE {}]
Manners == [m \in Said |-> CASE m = work -> "work" [] m = words -> "words"
                             [] OTHER -> "verdict"]

SomeTerms == {[decidable |-> TRUE, expiry |-> "later"], [decidable |-> FALSE, expiry |-> "never"]}
OneTask == [r \in Run |-> t1]
=============================================================================
