------------------------------- MODULE Review -------------------------------
(***************************************************************************)
(* Mac's judgement of what a coding run left (domain/review.ts): pure      *)
(* functions of the evidence, which comes from the repository, and of the  *)
(* brief.                                                                  *)
(*                                                                         *)
(* A phrase, a path and a criterion are sets of keywords.                  *)
(***************************************************************************)
EXTENDS Integers, FiniteSets

(* A file is what a phrase of the brief names when they have a distinctive word in common. *)
PathMatchesPhrase(path, phrase) == path \cap phrase # {}

TouchesForbidden(change, brief) ==
  \E phrase \in brief.mustNotChange : \E path \in change.files : PathMatchesPhrase(path, phrase)

(* A change of what the brief forbids, of what it does not mention, or far larger than the
   components it lists. *)
LooksLikeUnexpectedScope(change, brief) ==
  /\ change.files # {}
  /\ \/ TouchesForbidden(change, brief)
     \/ change.migrations /\ "migration" \notin brief.mentions
     \/ change.dependencies /\ "dependency" \notin brief.mentions
     \/ LET expected == IF brief.components = 0 THEN 1 ELSE brief.components
        IN change.size > expected * 12 /\ change.size > 25

(* Half a criterion's distinctive words are to be seen in the work.  A brief without criteria
   is not met, but leaves none unmet either. *)
Unmet(change, brief) ==
  {criterion \in brief.criteria :
     Cardinality(criterion \cap change.words) * 2 < Cardinality(criterion)}

(* What makes the review say "high risk" or "unexpected scope", apart from the integrity of
   the repository and the blockers. *)
Notable(change, brief) == change.migrations \/ LooksLikeUnexpectedScope(change, brief)

Judgement(change, brief) ==
  [met |-> Unmet(change, brief) = {}, notable |-> Notable(change, brief)]
=============================================================================
