----------------------------- MODULE Discovery -----------------------------
(***************************************************************************)
(* Discovery (services/discovery.ts, services/briefs.ts,                   *)
(* domain/gap-analysis.ts): a human talks, Mac records, derives a brief    *)
(* and asks for the one thing that is missing.                             *)
(*                                                                         *)
(* A session is read, something is awaited and the session is written:     *)
(* each function below is one or more steps of a caller, a request the     *)
(* control plane is serving.  What a caller still has to do is its to-do   *)
(* list; the modules that extend this one give callers longer lists.       *)
(***************************************************************************)
EXTENDS Naturals, Sequences, FiniteSets, SequencesExt

CONSTANTS
  Caller,      \* requests being served at once, sweeps included
  Task,        \* tasks
  Said,        \* what people say
  Dimension,   \* the completeness dimensions that apply to the work
  Weight,      \* DIMENSION_WEIGHTS, in hundredths
  Typed,       \* those of Said that are typed into the discovery page
  Fills,       \* the dimensions structureConversation reads out of what was said
  Findable,    \* the dimensions an investigation may resolve
  MaxInvestigated, \* gaps one brief may have investigated; four in the code
  MaxBriefs,   \* bound: versions of a task's brief
  MaxInputs,   \* bound: what people do, on a page or in the thread
  MaxFaults    \* bound: failed calls and restarts

ASSUME DiscoveryAssumption ==
  /\ Weight \in [Dimension -> 0..100]
  /\ Typed \subseteq Said
  /\ Fills \in [Said -> SUBSET Dimension]
  /\ Findable \subseteq Dimension /\ MaxInvestigated \in Nat
  /\ MaxBriefs \in Nat /\ MaxInputs \in Nat /\ MaxFaults \in Nat

VARIABLES
  session,   \* the discovery session of each task
  briefs,    \* the versions of each task's handoff brief
  calls,     \* what each caller is doing
  inputs,    \* counters of the bounds
  faults

discoveryVars == <<session, briefs>>
bounds == <<inputs, faults>>

NoOne == "none"

-----------------------------------------------------------------------------
(* Sessions, briefs and callers.                                           *)

Session == [status : {"none", "open", "brief_drafted", "ready"}, messages : SUBSET Said,
            question : Dimension \cup {NoOne}, brief : 0..MaxBriefs]
NoSession == [status |-> "none", messages |-> {}, question |-> NoOne, brief |-> 0]

Brief == [status : {"draft", "ready", "superseded"}, filled : SUBSET Dimension,
          found : SUBSET Dimension]

OPERATIONS == {"start", "add", "generate", "refresh", "link", "create", "append", "bind",
               "raise", "decide"}

(* The local variables of a call: what it is for and what it has read. *)
Call == [todo : Seq(OPERATIONS), step : {"start", "read", "answered", "gated"},
         task : Task \cup {NoOne}, says : Said \cup {NoOne}, kept : SUBSET Said,
         asks : Dimension \cup {NoOne}, brief : 0..MaxBriefs, found : SUBSET Dimension,
         subject : {"brief", "run"}, request : Nat, decision : {"approve", "reject"},
         ids : SUBSET Nat]
Idle == [todo |-> <<>>, step |-> "start", task |-> NoOne, says |-> NoOne, kept |-> {},
         asks |-> NoOne, brief |-> 0, found |-> {}, subject |-> "brief", request |-> 0,
         decision |-> "approve", ids |-> {}]

IsIdle(c) == calls[c] = Idle
At(c, op, step) ==
  /\ calls[c].todo # <<>>
  /\ Head(calls[c].todo) = op /\ calls[c].step = step

(* The next operation: what only this one needed is forgotten. *)
Advance(call) ==
  LET next == [call EXCEPT !.todo = Tail(@), !.step = "start", !.kept = {}, !.ids = {},
                           !.found = {}] IN
  IF next.todo = <<>> THEN Idle ELSE next

Goes(c, call) == calls' = [calls EXCEPT ![c] = call]
Done(c) == Goes(c, Advance(calls[c]))
Fails(c) == Goes(c, Idle)

(* Somebody does something. *)
Human == inputs < MaxInputs /\ inputs' = inputs + 1 /\ UNCHANGED faults

TypeOKDiscovery ==
  /\ session \in [Task -> Session]
  /\ \A t \in Task : /\ briefs[t] \in Seq(Brief) /\ Len(briefs[t]) <= MaxBriefs
                     /\ session[t].brief <= Len(briefs[t])
  /\ calls \in [Caller -> Call]
  /\ inputs \in 0..MaxInputs /\ faults \in 0..MaxFaults

InitDiscovery ==
  /\ session = [t \in Task |-> NoSession]
  /\ briefs = [t \in Task |-> <<>>]
  /\ calls = [c \in Caller |-> Idle]
  /\ inputs = 0 /\ faults = 0

-----------------------------------------------------------------------------
(* Gap analysis.                                                           *)

Outstanding(filled, found) == Dimension \ (filled \cup found)

(* analyseGaps: the heaviest of what nobody told and nothing resolves. *)
NextQuestion(filled, found) ==
  LET gaps == Outstanding(filled, found) IN
  IF gaps = {} THEN NoOne
  ELSE CHOOSE d \in gaps : \A e \in gaps : Weight[e] <= Weight[d]

(* investigateOutstandingGaps: the heaviest of them, up to a number, each by itself; an
   investigation that fails resolves nothing. *)
Investigated(filled) ==
  LET gaps == Outstanding(filled, {}) IN
  IF Cardinality(gaps) <= MaxInvestigated THEN gaps
  ELSE CHOOSE I \in SUBSET gaps :
         /\ Cardinality(I) = MaxInvestigated
         /\ \A d \in I, e \in gaps \ I : Weight[e] <= Weight[d]

Drafted(question) ==  \* mutant: the session is ready as soon as there is a brief
  "ready"
Status(question) == IF question = NoOne THEN "ready" ELSE "brief_drafted"

-----------------------------------------------------------------------------
(* startDiscovery: one transaction, after requireActiveRevision.           *)

StartDiscovery(c) ==
  /\ At(c, "start", "start")
  /\ session' = [session EXCEPT ![calls[c].task] = [NoSession EXCEPT !.status = "open"]]
  /\ Done(c)
  /\ UNCHANGED <<briefs, bounds>>

-----------------------------------------------------------------------------
(* addDiscoveryMessage: the row is read, an answer is folded into the      *)
(* brief in a transaction of its own, the row is written.                  *)

AddReads(c) ==
  /\ At(c, "add", "start")
  /\ LET s == session[calls[c].task] IN
     Goes(c, [calls[c] EXCEPT !.step = "read", !.kept = s.messages, !.asks = s.question,
                              !.brief = s.brief])
  /\ UNCHANGED <<discoveryVars, bounds>>

(* answerBriefQuestion, applyAnswerToDimension. *)
AddAnswers(c) ==
  /\ At(c, "add", "read")
  /\ LET t == calls[c].task  v == calls[c].brief IN
     briefs' = IF calls[c].asks # NoOne /\ v # 0
               THEN [briefs EXCEPT ![t][v].filled = @ \cup {calls[c].asks}]
               ELSE briefs
  /\ Goes(c, [calls[c] EXCEPT !.step = "answered"])
  /\ UNCHANGED <<session, bounds>>

AddWrites(c) ==
  /\ At(c, "add", "answered")
  /\ session' = [session EXCEPT ![calls[c].task].messages = calls[c].kept \cup {calls[c].says},
                                ![calls[c].task].question = NoOne]
  /\ Done(c)
  /\ UNCHANGED <<briefs, bounds>>

-----------------------------------------------------------------------------
(* generateBrief: read and structure, investigate, write.                  *)

GenerateReads(c) ==
  /\ At(c, "generate", "start")
  /\ LET s == session[calls[c].task] IN
     IF s.messages = {} THEN Fails(c)
     ELSE \E found \in SUBSET (Findable \cap Investigated(UNION {Fills[m] : m \in s.messages})) :
            Goes(c, [calls[c] EXCEPT !.step = "read", !.kept = s.messages, !.found = found])
  /\ UNCHANGED <<discoveryVars, bounds>>

(* createBrief: a new version, and the drafts before it are superseded. *)
CreateBrief(t, filled, found) ==
  briefs' = [briefs EXCEPT ![t] =
    Append([v \in DOMAIN @ |-> IF @[v].status = "draft"
                               THEN [@[v] EXCEPT !.status = "superseded"] ELSE @[v]],
           [status |-> "draft", filled |-> filled, found |-> found])]

GenerateWrites(c) ==
  /\ At(c, "generate", "read")
  /\ LET t == calls[c].task
         filled == UNION {Fills[m] : m \in calls[c].kept}
         next == NextQuestion(filled, calls[c].found)
         version == Len(briefs[t]) + 1
     IN /\ version <= MaxBriefs
        /\ CreateBrief(t, filled, calls[c].found)
        /\ session' = [session EXCEPT ![t] = [status |-> Status(next), messages |-> calls[c].kept,
                                              question |-> next, brief |-> version]]
        /\ Goes(c, Advance([calls[c] EXCEPT !.asks = next, !.brief = version]))
  /\ UNCHANGED bounds

-----------------------------------------------------------------------------
(* refreshPendingQuestion: the brief as it now stands, and nothing of what *)
(* the investigations resolved.                                            *)

RefreshReads(c) ==
  /\ At(c, "refresh", "start")
  /\ LET t == calls[c].task  s == session[t] IN
     IF s.brief = 0 THEN Goes(c, Advance([calls[c] EXCEPT !.brief = 0, !.asks = NoOne]))
     ELSE Goes(c, [calls[c] EXCEPT !.step = "read", !.kept = s.messages, !.brief = s.brief,
                                   !.asks = NextQuestion(briefs[t][s.brief].filled, {})])
  /\ UNCHANGED <<discoveryVars, bounds>>

RefreshWrites(c) ==
  /\ At(c, "refresh", "read")
  /\ session' = [session EXCEPT ![calls[c].task].status = Status(calls[c].asks),
                                ![calls[c].task].messages = calls[c].kept,
                                ![calls[c].task].question = calls[c].asks]
  /\ Done(c)
  /\ UNCHANGED <<briefs, bounds>>

-----------------------------------------------------------------------------
(* The discovery page.                                                     *)

(* POST /api/discovery/:id/messages and /brief; Forja does both in one request. *)
DiscoveryRequest(c, t, said, todo) ==
  /\ Human
  /\ IsIdle(c) /\ session[t].status # "none"
  /\ todo \in {<<"add">>, <<"generate">>, <<"add", "generate">>}
  /\ todo # <<"add">> => Len(briefs[t]) < MaxBriefs
  /\ todo = <<"generate">> => said = NoOne
  /\ Goes(c, [Idle EXCEPT !.todo = todo, !.task = t, !.says = said])
  /\ UNCHANGED discoveryVars

(* POST /api/briefs/:id/answer: the session that asks the question is not touched. *)
AnswerBriefQuestion(t, v, d) ==
  /\ Human
  /\ v \in DOMAIN briefs[t] /\ d \notin briefs[t][v].filled
  /\ briefs' = [briefs EXCEPT ![t][v].filled = @ \cup {d}]
  /\ UNCHANGED <<session, calls>>

(* updateBrief: an edit may also take something out. *)
UpdateBrief(t, v, d) ==
  /\ Human
  /\ v \in DOMAIN briefs[t] /\ briefs[t][v].status # "superseded"
  /\ d \in briefs[t][v].filled
  /\ briefs' = [briefs EXCEPT ![t][v].filled = @ \ {d}]
  /\ UNCHANGED <<session, calls>>

Closes(t) ==  \* mutant: the session enters the status its name promises
  /\ Human
  /\ session[t].status # "none"
  /\ session' = [session EXCEPT ![t].status = "closed", ![t].question = NoOne]
  /\ UNCHANGED <<briefs, calls>>

(* closeDiscovery leaves the session "ready"; nobody ever enters "closed". *)
CloseDiscovery(t) ==
  /\ Human
  /\ session[t].status # "none"
  /\ session' = [session EXCEPT ![t].status = "ready", ![t].question = NoOne]
  /\ briefs' = IF session[t].brief = 0 THEN briefs
               ELSE [briefs EXCEPT ![t][session[t].brief].status = "ready"]
  /\ UNCHANGED calls

DiscoveryStep(c) ==
  \/ StartDiscovery(c)
  \/ AddReads(c) \/ AddAnswers(c) \/ AddWrites(c)
  \/ GenerateReads(c) \/ GenerateWrites(c)
  \/ RefreshReads(c) \/ RefreshWrites(c)

PageStep ==
  \/ \E c \in Caller, t \in Task :
       \/ \E m \in Typed : DiscoveryRequest(c, t, m, <<"add">>)
                           \/ DiscoveryRequest(c, t, m, <<"add", "generate">>)
       \/ DiscoveryRequest(c, t, NoOne, <<"generate">>)
  \/ \E t \in Task, v \in 1..MaxBriefs, d \in Dimension :
       AnswerBriefQuestion(t, v, d) \/ UpdateBrief(t, v, d)
  \/ \E t \in Task : CloseDiscovery(t)
=============================================================================
