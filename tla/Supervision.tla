---------------------------- MODULE Supervision ----------------------------
(***************************************************************************)
(* How Mac answers a question of the coding agent (domain/supervision.ts,  *)
(* domain/investigation.ts, services/investigation.ts,                     *)
(* services/supervision.ts, protocol/evidence.ts, services/memory.ts): the *)
(* decision comes from the run's brief, its memory and its repository; an  *)
(* investigation of seven classes of source may find better words and      *)
(* evidence for it.                                                        *)
(*                                                                         *)
(* A text is the set of its keywords.  An entry is a text on record: what  *)
(* kind it is, whose it is, how sure it is (in hundredths).  Scores and    *)
(* confidences are in millionths.                                          *)
(***************************************************************************)
EXTENDS Confidence, FiniteSets, SequencesExt

INVESTIGATION_SOURCES ==
  <<"repository", "company_context", "project_memory", "task_memory", "previous_runs",
    "previous_briefs", "monday">>

(* Authority of a source, in hundredths, to supervision ... *)
BriefAuthority ==
  [userObjective |-> 100, desiredBehaviour |-> 100, currentBehaviour |-> 90,
   relevantArchitecture |-> 85, proposedScope |-> 95, constraints |-> 100,
   mustNotChange |-> 100, acceptanceCriteria |-> 100, testingExpectations |-> 95,
   implementationConsiderations |-> 80, outOfScope |-> 100, assumptions |-> 60,
   approvedScope |-> 100]
MemoryAuthority == [task |-> 90, project |-> 80, global |-> 70]
RepositoryAuthority == [tests |-> 70, scripts |-> 70, languages |-> 60, readme |-> 65]

Overlaid(f, g) == [k \in DOMAIN f \cup DOMAIN g |-> IF k \in DOMAIN f THEN f[k] ELSE g[k]]

SupervisionAuthority == Overlaid(BriefAuthority, Overlaid(MemoryAuthority, RepositoryAuthority))

(* ... and to the investigation, to which all memory of the project is one, and which reads
   the commits, the company's context, the earlier answers and briefs, and the board. *)
InvestigationAuthority ==
  Overlaid([commit |-> 45, company |-> 90, answer |-> 70, earlier |-> 85, item |-> 80,
            global |-> 80], SupervisionAuthority)

AnswerSource ==
  [kind : DOMAIN InvestigationAuthority, project : STRING, task : STRING, run : STRING,
   version : Nat, revision : STRING, sure : 0..100, grounded : BOOLEAN, decision : STRING,
   terms : SUBSET STRING]

ClassOf(e) ==
  CASE e.kind \in DOMAIN RepositoryAuthority \cup {"commit"} -> "repository"
    [] e.kind = "company" -> "company_context"
    [] e.kind \in {"project", "global"} -> "project_memory"
    [] e.kind = "task" -> "task_memory"
    [] e.kind = "answer" -> "previous_runs"
    [] e.kind = "item" -> "monday"
    [] OTHER -> "previous_briefs"

-----------------------------------------------------------------------------
(* What Mac may read for a run of a task.                                  *)

(* memoryForTask: everybody's, the project's, and this task's own. *)
MemoryForTask(e, c) ==
  \/ e.kind = "global"
  \/ e.kind = "project" /\ e.project = c.project
  \/ e.kind = "task" /\ e.task = c.task

IsBrief(e) == e.kind \in DOMAIN BriefAuthority

(* loadRunContext: the brief the run was approved with, the task's snapshot of the
   repository. *)
LoadRunContext(c, store) ==
  {e \in store : \/ IsBrief(e) /\ e.task = c.task /\ e.version = c.version
                 \/ e.kind \in DOMAIN RepositoryAuthority /\ e.task = c.task
                 \/ MemoryForTask(e, c)}

LatestVersion(c, store) ==
  LET versions == {e.version : e \in {d \in store : IsBrief(d) /\ d.task = c.task}}
  IN {v \in versions : \A w \in versions : w <= v}

IncludesThisRun(e, c) ==  \* mutant: the answers of the run itself are evidence
  e.kind = "answer" /\ e.project = c.project /\ e.decision = "answered"

(* An answer Mac gave in an earlier run of the project, but not one he assumed, and not in
   this run: it would be no evidence for itself. *)
PreviousAnswer(e, c) ==
  /\ e.kind = "answer" /\ e.project = c.project
  /\ e.decision = "answered" /\ e.run # c.run

(* What another task's brief says for good about the code base. *)
EarlierBrief(e, c) ==
  e.kind \in {"constraints", "mustNotChange"} /\ e.task # c.task /\ e.project = c.project

(* The context of the company as of the run's revision, not as of now, if that is valid. *)
CompanyContext(e, c) == e.kind = "company" /\ e.revision = c.revision

(* The item on the board and its updates, if there is one and the board answers. *)
MondayContext(e, c) == e.kind = "item" /\ e.task = c.task

GatherSources(c, store) ==
  {e \in store : \/ IsBrief(e) /\ e.task = c.task /\ e.version \in LatestVersion(c, store)
                 \/ e.kind \in DOMAIN RepositoryAuthority \cup {"commit"} /\ e.task = c.task
                 \/ MemoryForTask(e, c) \/ PreviousAnswer(e, c)
                 \/ CompanyContext(e, c) \/ MondayContext(e, c)}
  \cup {[e EXCEPT !.kind = "earlier"] : e \in {d \in store : EarlierBrief(d, c)}}

(* An answer that was an assumption is worth 40, however sure Mac was. *)
Sureness(e) == IF e.kind = "answer" /\ ~e.grounded THEN 40 ELSE e.sure

-----------------------------------------------------------------------------
(* Retrieval.                                                              *)

(* What two texts have in common: equal keywords, once both are stemmed, or one a prefix of
   the other. *)
Matched(terms, text) == terms \cap text

Smaller(m, n) == IF m <= n THEN m ELSE n

(* The share of what was asked that a source speaks to, by its authority. *)
Score(terms, e, authority) ==
  IF terms = {} THEN 0
  ELSE (Cardinality(Matched(terms, e.terms)) * authority[e.kind] * Sureness(e) * 100)
         \div Cardinality(terms)

Hits(terms, sources, authority) ==
  LET matching == {e \in sources : Score(terms, e, authority) > 0}
  IN {[entry |-> e, score |-> Score(terms, e, authority)] : e \in matching}

(* Best first. *)
Rankings(hits) ==
  {s \in SetToSeqs(hits) : \A i, j \in DOMAIN s : i < j => s[i].score >= s[j].score}

Ranked(terms, sources, authority) ==
  CHOOSE s \in Rankings(Hits(terms, sources, authority)) : TRUE

Top(ranked) == SubSeq(ranked, 1, Smaller(3, Len(ranked)))

Rounded(x) == ((x + 500) \div 1000) * 1000

(* The best score, and 15 % of the next two: never certainty. *)
ConfidenceOf(ranked) ==
  LET scores == [i \in 1..3 |-> IF i <= Len(ranked) THEN ranked[i].score ELSE 0]
  IN Smaller(950000, Rounded(scores[1] + ((scores[2] + scores[3]) * 15) \div 100))

-----------------------------------------------------------------------------
(* superviseQuestion.                                                      *)

(* classifyQuestionRisk: what the question and its context give away. *)
RiskOf(q) ==
  IF q.sensitive THEN "high" ELSE IF q.irreversible \/ q.architectural THEN "medium" ELSE "low"

(* The question is about what the brief excludes: three fifths of an entry's words. *)
IsOutOfScope(q, sources) ==
  \E e \in sources :
    /\ e.kind = "outOfScope" /\ e.terms # {}
    /\ Cardinality(Matched(e.terms, q.terms)) * 5 >= Cardinality(e.terms) * 3

SuperviseQuestion(q, c, store, policy) ==
  LET sources == LoadRunContext(c, store)
      confidence == ConfidenceOf(Ranked(q.terms \cup q.context, sources, SupervisionAuthority))
  IN [decision |-> DecideAction([confidence |-> confidence, risk |-> RiskOf(q),
                                 sensitive |-> q.sensitive, reversible |-> ~q.irreversible,
                                 withinApprovedScope |-> ~IsOutOfScope(q, sources)], policy),
      confidence |-> confidence]

-----------------------------------------------------------------------------
(* investigate, runInvestigation.                                          *)

UNGROUNDED_CONFIDENCE_CEILING == 590000

(* There is evidence, and all that an investigation finds counts as fact. *)
DeriveGroundedness(evidence) == IF evidence # {} THEN "established_fact" ELSE "assumption"

Uncapped(confidence, evidence) == confidence  \* mutant: nothing caps it

CapUngroundedConfidence(confidence, evidence) ==
  IF DeriveGroundedness(evidence) = "established_fact" THEN confidence
  ELSE Smaller(confidence, UNGROUNDED_CONFIDENCE_CEILING)

(* Every class is visited, though one before has answered. *)
Consulted(sources) ==
  {class \in ToSet(INVESTIGATION_SOURCES) : \E e \in sources : ClassOf(e) = class}

Investigate(q, c, store, policy) ==
  LET sources == GatherSources(c, store)
      ranked == Ranked(q.terms \cup q.context, sources, InvestigationAuthority)
      evidence == {hit.entry : hit \in ToSet(Top(ranked))}
      confidence == CapUngroundedConfidence(ConfidenceOf(ranked), evidence)
  IN [resolved |-> confidence >= policy.answerAt, confidence |-> confidence,
      evidence |-> evidence, consulted |-> Consulted(sources)]

(* One that failed. *)
NoInvestigation == [resolved |-> FALSE, confidence |-> 0, evidence |-> {}, consulted |-> {}]

-----------------------------------------------------------------------------
(* answerAgentQuestion, of a question within the limit.                    *)

InvestigationDecides(supervision, investigation) ==  \* mutant: what is found out is answered
  LET better == investigation.resolved
  IN [decision |-> IF better THEN "answered" ELSE supervision.decision,
      confidence |-> IF better THEN investigation.confidence ELSE supervision.confidence,
      evidence |-> investigation.evidence]

(* The investigation words the answer when it is surer; it decides nothing. *)
AnswerFrom(supervision, investigation) ==
  LET better == /\ supervision.decision # "blocked"
                /\ investigation.resolved
                /\ investigation.confidence > supervision.confidence
  IN [decision |-> supervision.decision,
      confidence |-> CapUngroundedConfidence(
                       IF better THEN investigation.confidence ELSE supervision.confidence,
                       investigation.evidence),
      evidence |-> investigation.evidence]

AnswerTo(q, c, store, policy, failed) ==
  AnswerFrom(SuperviseQuestion(q, c, store, policy),
             IF failed THEN NoInvestigation ELSE Investigate(q, c, store, policy))
=============================================================================
