------------------------- MODULE Conversations_proofs -------------------------
(***************************************************************************)
(* Proofs about Conversations, for any callers, tasks, messages and runs,  *)
(* and any number of faults: type correctness, that a message is acted on  *)
(* once, that a request is decided once and then done, and that a session  *)
(* that is ready asks nothing.                                             *)
(***************************************************************************)
EXTENDS Conversations, SequenceTheorems, WellFoundedInduction, TLAPS

-----------------------------------------------------------------------------
(* The inductive invariant, in named parts.                                *)

SessionsAreTyped ==
  /\ session \in [Task -> Session] /\ briefs \in [Task -> Seq(Brief)]
  /\ \A t \in Task : Len(briefs[t]) <= MaxBriefs /\ session[t].brief <= Len(briefs[t])

Bounded == inputs \in 0..MaxInputs /\ faults \in 0..MaxFaults

ThreadIsTyped ==
  /\ linked \in Task \cup {NoOne} /\ messages \in Seq(Said)
  /\ origin \in [Task -> Said \cup {NoOne}]

(* What a caller may still have to do. *)
ToRecord == <<"append", "create", "start", "add", "generate", "link", "raise">>
ToCreate == <<"create", "start", "add", "generate", "link", "raise">>
ToDecide == {<<"append", "bind", "decide">>, <<"bind", "decide">>, <<"decide">>}
Unplaced == {<<>>, <<"append">>, ToRecord, ToCreate} \cup ToDecide
Speechless == {<<>>, <<"generate">>, <<"raise">>, <<"decide">>}
ToDo ==
  Unplaced \cup Speechless
    \cup {<<"start", "add", "generate", "link", "raise">>, <<"add", "generate", "link", "raise">>,
          <<"generate", "link", "raise">>, <<"link", "raise">>,
          <<"append", "add", "refresh", "raise">>, <<"add", "refresh", "raise">>,
          <<"refresh", "raise">>, <<"add">>, <<"add", "generate">>}

(* A call is for a task that exists, by a person who said something, about one of the requests,
   wherever it needs one. *)
Sound(call, ids) ==
  /\ call \in Call /\ call.todo \in ToDo
  /\ call.todo \notin Unplaced => call.task \in Task
  /\ call.todo \notin Speechless => call.says \in Said
  /\ call.todo \in ToDecide => call.request \in ids

CallsAreSound == calls \in [Caller -> Call] /\ \A c \in Caller : Sound(calls[c], Requests)

(* The message a call is about to create a task from is in the thread, of no task yet, and of
   no other call. *)
CreatesOnce ==
  \A c \in Caller : calls[c].todo = ToCreate =>
    /\ Seen(calls[c].says)
    /\ \A t \in Created : origin[t] # calls[c].says
    /\ \A d \in Caller : calls[d].todo = ToCreate /\ calls[d].says = calls[c].says => d = c

OriginsAreSeen == \A t \in Created : Seen(origin[t])

(* A call that has passed the gate has it open. *)
Passed(call) == call.todo # <<>> /\ Head(call.todo) = "decide" /\ call.step = "gated"
GatedIsApproved ==
  \A c \in Caller : Passed(calls[c]) =>
    LET run == requests[calls[c].request].run IN
    run # NoRun /\ calls[c].decision = "approve" => gate[run] = "approved"

(* What was decided is never pending again. *)
DecidedIsClosed == \A k \in DOMAIN decisions : requests[decisions[k][1]].state # "pending"

Inv ==
  /\ SessionsAreTyped
  /\ Bounded
  /\ ThreadIsTyped
  /\ TypeOKApprovals
  /\ CallsAreSound
  /\ CreatesOnce
  /\ OriginsAreSeen
  /\ GatedIsApproved
  /\ DecidedIsClosed
  /\ ActedOnOnce
  /\ DecidedOnceAndDone
  /\ ReadyAsksNothing

-----------------------------------------------------------------------------
(* Gap analysis.                                                           *)

(* Of the gaps that are left one is the heaviest: what a gap lacks of the whole is a natural
   number. *)
LEMMA HeaviestExists ==
  ASSUME NEW gaps, gaps \subseteq Dimension, gaps # {}
  PROVE  \E d \in gaps : \A e \in gaps : Weight[e] <= Weight[d]
<1> DEFINE Lack == {100 - Weight[d] : d \in gaps}
           Less == OpToRel(<, Nat)
<1>1. \A d \in gaps : Weight[d] \in 0..100
  BY DiscoveryAssumption
<1>2. Lack \subseteq Nat /\ Lack # {}
  BY <1>1
<1>3. PICK x \in Lack : \A y \in Lack : <<y, x>> \notin Less
  BY <1>2, WFMin, NatLessThanWellFounded
<1>4. \A y \in Lack : x <= y
  <2> SUFFICES ASSUME NEW y \in Lack, y < x PROVE FALSE
    <3> HIDE DEF Lack, Less
    <3> QED BY <1>2
  <2>1. <<y, x>> \in Less
    BY <1>2 DEF OpToRel
  <2> QED BY <1>3, <2>1
<1>5. PICK d \in gaps : x = 100 - Weight[d]
  OBVIOUS
<1>6. \A e \in gaps : 100 - Weight[d] <= 100 - Weight[e]
  BY <1>4, <1>5
<1> QED BY SMTT(30), <1>1, <1>6

LEMMA NextQuestionIs ==
  ASSUME NEW filled, NEW found
  PROVE  NextQuestion(filled, found) \in Dimension \cup {NoOne}
<1> DEFINE gaps == Outstanding(filled, found)
<1>1. gaps \subseteq Dimension
  BY DEF Outstanding
<1>2. CASE gaps = {}
  BY <1>2 DEF NextQuestion
<1>3. CASE gaps # {}
  <2>1. \E d \in gaps : \A e \in gaps : Weight[e] <= Weight[d]
    BY <1>1, <1>3, HeaviestExists
  <2>2. NextQuestion(filled, found) = CHOOSE d \in gaps : \A e \in gaps : Weight[e] <= Weight[d]
    BY <1>3 DEF NextQuestion
  <2> HIDE DEF gaps
  <2>3. NextQuestion(filled, found) \in gaps
    BY <2>1, <2>2
  <2> QED BY <1>1, <2>3
<1> QED BY <1>2, <1>3

-----------------------------------------------------------------------------
(* Callers.                                                                *)

(* What is left of a to-do list is one, and needs no more than the whole of it did: but for
   the task, which is created on the way. *)
LEMMA ToDoIs ==
  ASSUME NEW todo \in ToDo, todo # <<>>
  PROVE  /\ Tail(todo) \in ToDo
         /\ Head(todo) = "create" => todo = ToCreate
         /\ Tail(todo) = ToCreate => Head(todo) = "append"
         /\ Tail(todo) \notin Unplaced => todo \notin Unplaced \/ todo = ToCreate
         /\ Tail(todo) \notin Speechless => todo \notin Speechless
         /\ Tail(todo) \in ToDecide => todo \in ToDecide
         /\ Head(todo) \in {"start", "add", "generate", "refresh", "link", "raise"}
              => todo \notin Unplaced
         /\ Head(todo) \in {"append", "create", "add"} => todo \notin Speechless
         /\ Head(todo) \in {"bind", "decide"} => todo \in ToDecide
<1> USE DEF ToDo, ToRecord, ToCreate, ToDecide, Unplaced, Speechless
<1>1. CASE todo = <<"append">>
  BY <1>1
<1>2. CASE todo = <<"append", "create", "start", "add", "generate", "link", "raise">>
  BY <1>2
<1>3. CASE todo = <<"create", "start", "add", "generate", "link", "raise">>
  BY <1>3
<1>4. CASE todo = <<"append", "bind", "decide">>
  BY <1>4
<1>5. CASE todo = <<"bind", "decide">>
  BY <1>5
<1>6. CASE todo = <<"decide">>
  BY <1>6
<1>7. CASE todo = <<"generate">>
  BY <1>7
<1>8. CASE todo = <<"raise">>
  BY <1>8
<1>9. CASE todo = <<"start", "add", "generate", "link", "raise">>
  BY <1>9
<1>10. CASE todo = <<"add", "generate", "link", "raise">>
  BY <1>10
<1>11. CASE todo = <<"generate", "link", "raise">>
  BY <1>11
<1>12. CASE todo = <<"link", "raise">>
  BY <1>12
<1>13. CASE todo = <<"append", "add", "refresh", "raise">>
  BY <1>13
<1>14. CASE todo = <<"add", "refresh", "raise">>
  BY <1>14
<1>15. CASE todo = <<"refresh", "raise">>
  BY <1>15
<1>16. CASE todo = <<"add">>
  BY <1>16
<1>17. CASE todo = <<"add", "generate">>
  BY <1>17
<1> QED
  BY <1>1, <1>2, <1>3, <1>4, <1>5, <1>6, <1>7, <1>8, <1>9, <1>10, <1>11, <1>12, <1>13,
     <1>14, <1>15, <1>16, <1>17

LEMMA IdleIsSound ==
  ASSUME NEW ids
  PROVE  Sound(Idle, ids) /\ Idle.todo # ToCreate /\ Idle.step # "gated" /\ Idle.todo = <<>>
<1>1. Idle.todo = <<>> /\ <<>> \in Seq(OPERATIONS) /\ Idle.step = "start" /\ Idle.brief = 0
  BY EmptySeq DEF Idle
<1>2. 0 \in 0..MaxBriefs
  BY DiscoveryAssumption
<1>3. Idle \in Call
  BY <1>1, <1>2 DEF Idle, Call, NoOne
<1> QED BY <1>1, <1>3 DEF Sound, ToDo, Unplaced, Speechless, ToDecide, ToCreate

(* A sound call that has done its operation is sound. *)
LEMMA AdvanceIsSound ==
  ASSUME NEW ids, NEW call, Sound(call, ids), call.todo # <<>>,
         call.todo = ToCreate => call.task \in Task
  PROVE  /\ Sound(Advance(call), ids) /\ Advance(call).step # "gated"
         /\ Advance(call).todo = ToCreate =>
              Head(call.todo) = "append" /\ Advance(call).says = call.says
<1> DEFINE next == [call EXCEPT !.todo = Tail(@), !.step = "start", !.kept = {}, !.ids = {},
                                !.found = {}]
<1>1. /\ call \in Call /\ call.todo \in ToDo /\ Tail(call.todo) \in ToDo
      /\ Tail(call.todo) = ToCreate => Head(call.todo) = "append"
      /\ Tail(call.todo) \notin Unplaced => call.task \in Task
      /\ Tail(call.todo) \notin Speechless => call.says \in Said
      /\ Tail(call.todo) \in ToDecide => call.request \in ids
  BY ToDoIs DEF Sound
<1>2. Tail(call.todo) \in Seq(OPERATIONS)
  BY <1>1, HeadTailProperties DEF Call
<1>3. /\ next \in Call /\ next.todo = Tail(call.todo) /\ next.step = "start"
      /\ next.task = call.task /\ next.says = call.says /\ next.request = call.request
  BY <1>1, <1>2 DEF Call
<1>4. Advance(call) = IF next.todo = <<>> THEN Idle ELSE next
  BY DEF Advance
<1> HIDE DEF next
<1>5. Sound(next, ids)
  BY <1>1, <1>3 DEF Sound
<1> QED BY <1>1, <1>3, <1>4, <1>5, IdleIsSound

(* A request that is closed stays closed, of the run it is of, and the gate of a run that is
   open stays open. *)
Keeps ==
  /\ Requests \subseteq Requests'
  /\ \A i \in Requests : /\ requests'[i].run = requests[i].run
                         /\ requests[i].state # "pending" => requests'[i].state # "pending"
  /\ \A r \in Run : gate[r] = "approved" => gate'[r] = "approved"

LEMMA RequestIs ==
  ASSUME TypeOKApprovals, NEW i \in Requests
  PROVE  requests[i] \in Request /\ requests[i].run \in Run \cup {NoRun}
<1>1. requests[i] \in Request
  BY DEF TypeOKApprovals, Requests
<1> QED BY <1>1 DEF Request

(* One caller goes on, and leaves the thread and the tasks alone.  If it passes the gate it
   has it open. *)
LEMMA CallerGoes ==
  ASSUME Inv, NEW c \in Caller, NEW call, Sound(call, Requests), Goes(c, call),
         call.todo # ToCreate, UNCHANGED <<messages, origin>>, Keeps,
         LET run == requests'[call.request].run IN
         Passed(call) /\ run # NoRun /\ call.decision = "approve" => gate'[run] = "approved"
  PROVE  /\ CallsAreSound' /\ CreatesOnce' /\ OriginsAreSeen' /\ GatedIsApproved'
         /\ ActedOnOnce'
<1>1. /\ calls' \in [Caller -> Call] /\ calls'[c] = call
      /\ \A d \in Caller \ {c} : calls'[d] = calls[d]
  BY DEF Inv, CallsAreSound, Goes, Sound
<1>2. CallsAreSound'
  <2>1. \A d \in Caller : Sound(calls'[d], Requests)
    BY <1>1 DEF Inv, CallsAreSound
  <2>2. Requests \subseteq Requests'
    BY DEF Keeps
  <2> QED BY <1>1, <2>1, <2>2 DEF CallsAreSound, Sound
<1>3. CreatesOnce'
  BY <1>1 DEF Inv, CreatesOnce, Created, Seen, Messages
<1>4. OriginsAreSeen' /\ ActedOnOnce'
  BY DEF Inv, OriginsAreSeen, ActedOnOnce, Created, Seen, Messages
<1>5. GatedIsApproved'
  <2> SUFFICES ASSUME NEW d \in Caller, Passed(calls'[d]),
                      requests'[calls'[d].request].run # NoRun, calls'[d].decision = "approve"
               PROVE  gate'[requests'[calls'[d].request].run] = "approved"
    BY DEF GatedIsApproved
  <2> SUFFICES ASSUME d # c PROVE gate'[requests'[calls'[d].request].run] = "approved"
    BY <1>1
  <2>1. calls'[d] = calls[d]
    BY <1>1
  <2>2. calls[d].request \in Requests
    BY <2>1, ToDoIs DEF Inv, CallsAreSound, Sound, Passed
  <2>3. requests'[calls[d].request].run = requests[calls[d].request].run
    BY <2>2 DEF Keeps
  <2>4. requests[calls[d].request].run \in Run
    BY <2>1, <2>2, <2>3, RequestIs DEF Inv
  <2>5. gate[requests[calls[d].request].run] = "approved"
    BY <2>1, <2>3 DEF Inv, GatedIsApproved
  <2> QED BY <2>1, <2>3, <2>4, <2>5 DEF Keeps
<1> QED BY <1>2, <1>3, <1>4, <1>5

(* The same where no caller does anything. *)
LEMMA NobodyGoes ==
  ASSUME Inv, UNCHANGED <<calls, messages, origin>>, Keeps
  PROVE  /\ CallsAreSound' /\ CreatesOnce' /\ OriginsAreSeen' /\ GatedIsApproved'
         /\ ActedOnOnce'
<1>1. CallsAreSound'
  BY DEF Inv, CallsAreSound, Sound, Keeps
<1>2. CreatesOnce' /\ OriginsAreSeen' /\ ActedOnOnce'
  BY DEF Inv, CreatesOnce, OriginsAreSeen, ActedOnOnce, Created, Seen, Messages
<1>3. GatedIsApproved'
  <2> SUFFICES ASSUME NEW d \in Caller, Passed(calls[d]),
                      requests'[calls[d].request].run # NoRun, calls[d].decision = "approve"
               PROVE  gate'[requests'[calls[d].request].run] = "approved"
    BY DEF GatedIsApproved
  <2>1. calls[d].request \in Requests
    BY ToDoIs DEF Inv, CallsAreSound, Sound, Passed
  <2>2. requests'[calls[d].request].run = requests[calls[d].request].run
    BY <2>1 DEF Keeps
  <2>3. requests[calls[d].request].run \in Run
    BY <2>1, <2>2, RequestIs DEF Inv
  <2>4. gate[requests[calls[d].request].run] = "approved"
    BY <2>2 DEF Inv, GatedIsApproved
  <2> QED BY <2>2, <2>3, <2>4 DEF Keeps
<1> QED BY <1>1, <1>2, <1>3

(* What was decided stays decided. *)
LEMMA DecisionsStay ==
  ASSUME Inv, Keeps, decisions' = decisions
  PROVE  DecidedIsClosed' /\ DecidedOnceAndDone'
<1>1. \A k \in DOMAIN decisions : decisions[k][1] \in Requests
  BY DEF Inv, TypeOKApprovals
<1>2. DecidedIsClosed'
  BY <1>1 DEF Inv, DecidedIsClosed, Keeps
<1>3. \A j, k \in DOMAIN decisions' : decisions'[j][1] = decisions'[k][1] => j = k
  BY DEF Inv, DecidedOnceAndDone
<1>4. ASSUME NEW k \in DOMAIN decisions, requests'[decisions[k][1]].run # NoRun,
             decisions[k][2] = "approve"
      PROVE  gate'[requests'[decisions[k][1]].run] = "approved"
  <2>1. requests'[decisions[k][1]].run = requests[decisions[k][1]].run
    BY <1>1 DEF Keeps
  <2>2. requests[decisions[k][1]].run \in Run
    BY <1>1, <1>4, <2>1, RequestIs DEF Inv
  <2>3. gate[requests[decisions[k][1]].run] = "approved"
    BY <1>4, <2>1 DEF Inv, DecidedOnceAndDone
  <2> QED BY <2>1, <2>2, <2>3 DEF Keeps
<1> QED BY <1>2, <1>3, <1>4 DEF DecidedOnceAndDone


-----------------------------------------------------------------------------
(* What a caller does next.                                                *)

(* A call that neither creates a task nor has passed the gate. *)
Plain(call) == Sound(call, Requests) /\ call.todo # ToCreate /\ call.step # "gated"

(* What is known of a call that is at an operation. *)
LEMMA CallerIs ==
  ASSUME Inv, NEW c \in Caller, NEW op, NEW step, At(c, op, step)
  PROVE  /\ Sound(calls[c], Requests) /\ calls[c] \in Call
         /\ calls[c].todo # <<>> /\ Head(calls[c].todo) = op /\ calls[c].step = step
         /\ op = "create" <=> calls[c].todo = ToCreate
         /\ op \in {"start", "add", "generate", "refresh", "link", "raise"} => calls[c].task \in Task
         /\ op \in {"append", "create", "add"} => calls[c].says \in Said
         /\ op \in {"bind", "decide"} => calls[c].request \in Requests
<1>1. /\ Sound(calls[c], Requests) /\ calls[c].todo # <<>> /\ Head(calls[c].todo) = op
      /\ calls[c].step = step
  BY DEF Inv, CallsAreSound, At
<1>2. calls[c].todo \in ToDo /\ calls[c] \in Call
  BY <1>1 DEF Sound
<1>3. op = "create" => calls[c].todo = ToCreate
  BY <1>1, <1>2, ToDoIs
<1>4. Head(ToCreate) = "create"
  BY DEF ToCreate
<1>5. op \in {"start", "add", "generate", "refresh", "link", "raise"} => calls[c].todo \notin Unplaced
  BY <1>1, <1>2, ToDoIs
<1>6. op \in {"append", "create", "add"} => calls[c].todo \notin Speechless
  BY <1>1, <1>2, ToDoIs
<1>7. op \in {"bind", "decide"} => calls[c].todo \in ToDecide
  BY <1>1, <1>2, ToDoIs
<1> QED BY <1>1, <1>2, <1>3, <1>4, <1>5, <1>6, <1>7 DEF Sound

LEMMA IdleIsPlain == Plain(Idle)
BY IdleIsSound DEF Plain

(* It goes on with its errand. *)
LEMMA OnIsPlain ==
  ASSUME Inv, NEW c \in Caller, NEW op, NEW step, At(c, op, step), op # "create",
         NEW call \in Call, call.step # "gated", call.todo = calls[c].todo,
         call.task = calls[c].task, call.says = calls[c].says, call.request = calls[c].request
  PROVE  Plain(call)
BY CallerIs DEF Plain, Sound

(* It is done with an operation. *)
LEMMA AdvanceIsPlain ==
  ASSUME Inv, NEW c \in Caller, NEW op, NEW step, At(c, op, step), op \notin {"create", "append"},
         NEW call \in Call, call.todo = calls[c].todo,
         call.task = calls[c].task, call.says = calls[c].says, call.request = calls[c].request
  PROVE  Plain(Advance(call))
<1>1. /\ Sound(call, Requests) /\ call.todo # <<>> /\ call.todo # ToCreate
      /\ Head(call.todo) # "append"
  BY CallerIs DEF Sound
<1>2. /\ Sound(Advance(call), Requests) /\ Advance(call).step # "gated"
      /\ Advance(call).todo = ToCreate => Head(call.todo) = "append"
  BY <1>1, AdvanceIsSound
<1> QED BY <1>1, <1>2 DEF Plain

LEMMA DoneIsPlain ==
  ASSUME Inv, NEW c \in Caller, NEW op, NEW step, At(c, op, step), op \notin {"create", "append"}
  PROVE  Plain(Advance(calls[c]))
<1>1. calls[c] \in Call
  BY CallerIs
<1> QED BY <1>1, AdvanceIsPlain

-----------------------------------------------------------------------------
(* What a step leaves alone.                                               *)

LEMMA HumanIsBounded == Inv /\ Human => Bounded'
BY DiscoveryAssumption DEF Inv, Bounded, Human

LEMMA BoundsStay == Inv /\ UNCHANGED bounds => Bounded'
BY DEF Inv, Bounded, bounds

LEMMA SessionsStay ==
  ASSUME Inv, UNCHANGED discoveryVars
  PROVE  SessionsAreTyped' /\ ReadyAsksNothing'
BY DEF Inv, SessionsAreTyped, ReadyAsksNothing, discoveryVars

LEMMA ApprovalsStay ==
  ASSUME Inv, UNCHANGED approvalVars
  PROVE  TypeOKApprovals' /\ Keeps /\ DecidedIsClosed' /\ DecidedOnceAndDone'
<1>1. TypeOKApprovals' /\ decisions' = decisions
  BY DEF Inv, TypeOKApprovals, Requests, approvalVars
<1>2. Keeps
  BY DEF Keeps, Requests, approvalVars
<1> QED BY <1>1, <1>2, DecisionsStay

LEMMA ThreadStays ==
  ASSUME Inv, UNCHANGED conversationVars
  PROVE  ThreadIsTyped' /\ UNCHANGED <<messages, origin>>
BY DEF Inv, ThreadIsTyped, conversationVars

(* A step of a caller that leaves the thread and the requests alone. *)
LEMMA CallerWorks ==
  ASSUME Inv, NEW c \in Caller, NEW call, Plain(call), Goes(c, call),
         UNCHANGED <<conversationVars, approvalVars>>,
         SessionsAreTyped', ReadyAsksNothing', Bounded'
  PROVE  Inv'
<1>1. TypeOKApprovals' /\ Keeps /\ DecidedIsClosed' /\ DecidedOnceAndDone'
  BY ApprovalsStay
<1>2. ThreadIsTyped' /\ UNCHANGED <<messages, origin>>
  BY ThreadStays
<1>3. CallsAreSound' /\ CreatesOnce' /\ OriginsAreSeen' /\ GatedIsApproved' /\ ActedOnOnce'
  BY <1>1, <1>2, CallerGoes DEF Plain, Passed
<1> QED BY <1>1, <1>2, <1>3 DEF Inv

(* One that leaves the sessions alone too. *)
LEMMA CallerMoves ==
  ASSUME Inv, NEW c \in Caller, NEW call, Plain(call), Goes(c, call), Bounded',
         UNCHANGED <<conversationVars, approvalVars, discoveryVars>>
  PROVE  Inv'
BY SessionsStay, CallerWorks

(* A page that writes sessions and briefs, and nothing else. *)
LEMMA PageWrites ==
  ASSUME Inv, UNCHANGED <<conversationVars, approvalVars, calls>>,
         SessionsAreTyped', ReadyAsksNothing', Bounded'
  PROVE  Inv'
<1>1. TypeOKApprovals' /\ Keeps /\ DecidedIsClosed' /\ DecidedOnceAndDone'
  BY ApprovalsStay
<1>2. ThreadIsTyped' /\ UNCHANGED <<messages, origin>>
  BY ThreadStays
<1>3. CallsAreSound' /\ CreatesOnce' /\ OriginsAreSeen' /\ GatedIsApproved' /\ ActedOnOnce'
  BY <1>1, <1>2, NobodyGoes
<1> QED BY <1>1, <1>2, <1>3 DEF Inv

-----------------------------------------------------------------------------
(* Writing a session and its briefs.                                       *)

(* A sequence of which some elements are replaced by others of their kind. *)
LEMMA RewrittenIsSeq ==
  ASSUME NEW S, NEW seq \in Seq(S), NEW f \in [DOMAIN seq -> S]
  PROVE  f \in Seq(S) /\ Len(f) = Len(seq) /\ DOMAIN f = DOMAIN seq
<1>1. DOMAIN seq = 1..Len(seq) /\ Len(seq) \in Nat
  BY LenProperties
<1>2. f \in Seq(S)
  BY <1>1, SeqDef
<1> QED BY <1>1, <1>2, LenProperties

LEMMA TaskIsWritten ==
  ASSUME Inv, NEW t \in Task, NEW s \in Session, NEW b \in Seq(Brief),
         Len(b) <= MaxBriefs, s.brief <= Len(b), s.status = "ready" => s.question = NoOne,
         session' = [session EXCEPT ![t] = s], briefs' = [briefs EXCEPT ![t] = b]
  PROVE  SessionsAreTyped' /\ ReadyAsksNothing'
<1>1. /\ session \in [Task -> Session] /\ briefs \in [Task -> Seq(Brief)]
      /\ \A u \in Task : Len(briefs[u]) <= MaxBriefs /\ session[u].brief <= Len(briefs[u])
      /\ \A u \in Task : session[u].status = "ready" => session[u].question = NoOne
  BY DEF Inv, SessionsAreTyped, ReadyAsksNothing
<1>2. session' \in [Task -> Session] /\ briefs' \in [Task -> Seq(Brief)]
  BY <1>1
<1>3. /\ session'[t] = s /\ briefs'[t] = b
      /\ \A u \in Task \ {t} : session'[u] = session[u] /\ briefs'[u] = briefs[u]
  BY <1>1
<1> QED BY <1>1, <1>2, <1>3 DEF SessionsAreTyped, ReadyAsksNothing

(* What is known of a task. *)
LEMMA TaskIs ==
  ASSUME Inv, NEW t \in Task
  PROVE  /\ session[t] \in Session /\ briefs[t] \in Seq(Brief)
         /\ Len(briefs[t]) \in 0..MaxBriefs /\ session[t].brief \in 0..Len(briefs[t])
         /\ session[t].status = "ready" => session[t].question = NoOne
         /\ session = [session EXCEPT ![t] = session[t]]
         /\ briefs = [briefs EXCEPT ![t] = briefs[t]]
<1>1. /\ session \in [Task -> Session] /\ briefs \in [Task -> Seq(Brief)]
      /\ Len(briefs[t]) <= MaxBriefs /\ session[t].brief <= Len(briefs[t])
      /\ session[t].status = "ready" => session[t].question = NoOne
  BY DEF Inv, SessionsAreTyped, ReadyAsksNothing
<1>2. session[t] \in Session /\ briefs[t] \in Seq(Brief)
  BY <1>1
<1>3. session[t].brief \in 0..MaxBriefs /\ Len(briefs[t]) \in Nat
  BY <1>2, LenProperties DEF Session
<1>4. Len(briefs[t]) \in 0..MaxBriefs /\ session[t].brief \in 0..Len(briefs[t])
  BY <1>1, <1>3, DiscoveryAssumption
<1> QED BY <1>1, <1>2, <1>4

LEMMA SessionIsWritten ==
  ASSUME Inv, NEW t \in Task, NEW s \in Session, s.brief <= Len(briefs[t]),
         s.status = "ready" => s.question = NoOne,
         session' = [session EXCEPT ![t] = s], UNCHANGED briefs
  PROVE  SessionsAreTyped' /\ ReadyAsksNothing'
<1>1. /\ briefs[t] \in Seq(Brief) /\ Len(briefs[t]) <= MaxBriefs
      /\ briefs' = [briefs EXCEPT ![t] = briefs[t]]
  BY TaskIs, DiscoveryAssumption
<1> QED BY <1>1, TaskIsWritten

LEMMA BriefsAreWritten ==
  ASSUME Inv, NEW t \in Task, NEW b \in Seq(Brief), Len(b) = Len(briefs[t]),
         briefs' = [briefs EXCEPT ![t] = b], UNCHANGED session
  PROVE  SessionsAreTyped' /\ ReadyAsksNothing'
<1>1. /\ session[t] \in Session /\ session[t].brief <= Len(b) /\ Len(b) <= MaxBriefs
      /\ session[t].status = "ready" => session[t].question = NoOne
      /\ session' = [session EXCEPT ![t] = session[t]]
  BY TaskIs, DiscoveryAssumption
<1> QED BY <1>1, TaskIsWritten

(* One brief of a task is written. *)
LEMMA BriefIsWritten ==
  ASSUME Inv, NEW t \in Task, NEW v \in DOMAIN briefs[t], NEW one \in Brief,
         briefs' = [briefs EXCEPT ![t] = [briefs[t] EXCEPT ![v] = one]], UNCHANGED session
  PROVE  SessionsAreTyped' /\ ReadyAsksNothing'
<1> DEFINE b == [briefs[t] EXCEPT ![v] = one]
<1>1. briefs[t] \in Seq(Brief)
  BY TaskIs
<1>2. b \in Seq(Brief) /\ Len(b) = Len(briefs[t])
  BY <1>1, ExceptSeq
<1> QED BY <1>2, BriefsAreWritten

(* What a brief says of the dimensions is written, if there is such a brief. *)
LEMMA FilledIsWritten ==
  ASSUME Inv, NEW t \in Task, NEW v, NEW F, v \in DOMAIN briefs[t] => F \in SUBSET Dimension,
         briefs' = [briefs EXCEPT ![t] =
                      [briefs[t] EXCEPT ![v] = [briefs[t][v] EXCEPT !.filled = F]]],
         UNCHANGED session
  PROVE  SessionsAreTyped' /\ ReadyAsksNothing'
<1> DEFINE one == [briefs[t][v] EXCEPT !.filled = F]
<1>1. briefs[t] \in Seq(Brief)
  BY TaskIs
<1>2. CASE v \in DOMAIN briefs[t]
  <2>1. briefs[t][v] \in Brief
    BY <1>1, <1>2
  <2>2. one \in Brief
    BY <1>2, <2>1 DEF Brief
  <2> QED BY <1>2, <2>2, BriefIsWritten
<1>3. CASE v \notin DOMAIN briefs[t]
  <2>1. [briefs[t] EXCEPT ![v] = one] = briefs[t]
    <3> HIDE DEF one
    <3> QED BY <1>1, <1>3
  <2>2. briefs' = [briefs EXCEPT ![t] = briefs[t]]
    BY <2>1
  <2> HIDE DEF one
  <2>3. Len(briefs[t]) = Len(briefs[t])
    OBVIOUS
  <2> QED BY <1>1, <2>2, <2>3, BriefsAreWritten
<1> QED BY <1>2, <1>3

-----------------------------------------------------------------------------
(* Discovery.                                                              *)

LEMMA StatusIs ==
  ASSUME NEW question \in Dimension \cup {NoOne}
  PROVE  /\ Status(question) \in {"brief_drafted", "ready"}
         /\ Status(question) = "ready" => question = NoOne
BY DEF Status

LEMMA StartKeepsInv ==
  ASSUME Inv, NEW c \in Caller, StartDiscovery(c), UNCHANGED <<conversationVars, approvalVars>>
  PROVE  Inv'
<1> DEFINE t == calls[c].task
           s == [NoSession EXCEPT !.status = "open"]
<1>1. At(c, "start", "start") /\ t \in Task
  BY CallerIs DEF StartDiscovery
<1>2. s \in Session /\ s.brief = 0 /\ s.status = "open"
  BY DiscoveryAssumption DEF NoSession, Session, NoOne
<1>3. session' = [session EXCEPT ![t] = s] /\ Done(c) /\ UNCHANGED briefs /\ UNCHANGED bounds
  BY DEF StartDiscovery
<1> HIDE DEF s
<1>4. s.brief <= Len(briefs[t])
  BY <1>1, <1>2, TaskIs, DiscoveryAssumption
<1>5. SessionsAreTyped' /\ ReadyAsksNothing'
  BY <1>1, <1>2, <1>3, <1>4, SessionIsWritten
<1>6. Plain(Advance(calls[c])) /\ Goes(c, Advance(calls[c]))
  BY <1>1, <1>3, DoneIsPlain DEF Done
<1> QED BY <1>3, <1>5, <1>6, BoundsStay, CallerWorks

LEMMA AddReadsKeepsInv ==
  ASSUME Inv, NEW c \in Caller, AddReads(c), UNCHANGED <<conversationVars, approvalVars>>
  PROVE  Inv'
<1> DEFINE s == session[calls[c].task]
           call == [calls[c] EXCEPT !.step = "read", !.kept = s.messages, !.asks = s.question,
                                    !.brief = s.brief]
<1>1. At(c, "add", "start") /\ Goes(c, call) /\ UNCHANGED <<discoveryVars, bounds>>
  BY DEF AddReads
<1>2. calls[c].task \in Task /\ calls[c] \in Call
  BY <1>1, CallerIs
<1>3. s.messages \in SUBSET Said /\ s.question \in Dimension \cup {NoOne} /\ s.brief \in 0..MaxBriefs
  BY <1>2, TaskIs DEF Session
<1> HIDE DEF s
<1>4. /\ call \in Call /\ call.step = "read" /\ call.todo = calls[c].todo
      /\ call.task = calls[c].task /\ call.says = calls[c].says
      /\ call.request = calls[c].request
  BY <1>2, <1>3 DEF Call
<1> HIDE DEF call
<1>5. Plain(call)
  BY <1>1, <1>4, OnIsPlain
<1> QED BY <1>1, <1>5, BoundsStay, CallerMoves

LEMMA AddAnswersKeepsInv ==
  ASSUME Inv, NEW c \in Caller, AddAnswers(c), UNCHANGED <<conversationVars, approvalVars>>
  PROVE  Inv'
<1> DEFINE t == calls[c].task
           v == calls[c].brief
           call == [calls[c] EXCEPT !.step = "answered"]
<1>1. At(c, "add", "read") /\ Goes(c, call) /\ UNCHANGED session /\ UNCHANGED bounds
  BY DEF AddAnswers
<1>2. t \in Task /\ calls[c] \in Call
  BY <1>1, CallerIs
<1>3. /\ call \in Call /\ call.step = "answered" /\ call.todo = calls[c].todo
      /\ call.task = calls[c].task /\ call.says = calls[c].says
      /\ call.request = calls[c].request
  BY <1>2 DEF Call
<1>4. calls[c].asks \in Dimension \cup {NoOne}
  BY <1>2 DEF Call
<1> HIDE DEF call
<1>5. Plain(call)
  BY <1>1, <1>3, OnIsPlain
<1>6. SessionsAreTyped' /\ ReadyAsksNothing'
  <2>1. CASE ~(calls[c].asks # NoOne /\ v # 0)
    <3>1. UNCHANGED discoveryVars
      BY <1>1, <2>1 DEF AddAnswers, discoveryVars
    <3> QED BY <3>1, SessionsStay
  <2>2. CASE calls[c].asks # NoOne /\ v # 0
    <3>1. briefs' = [briefs EXCEPT ![t][v].filled = @ \cup {calls[c].asks}]
      BY <2>2 DEF AddAnswers
    <3>2. briefs' = [briefs EXCEPT ![t] = [briefs[t] EXCEPT ![v] =
                       [briefs[t][v] EXCEPT !.filled = briefs[t][v].filled \cup {calls[c].asks}]]]
      BY <3>1
    <3>3. ASSUME v \in DOMAIN briefs[t]
          PROVE  briefs[t][v].filled \cup {calls[c].asks} \in SUBSET Dimension
      <4>1. briefs[t][v] \in Brief
        BY <1>2, <3>3, TaskIs
      <4> QED BY <1>4, <2>2, <4>1 DEF Brief
    <3> QED BY <1>1, <1>2, <3>2, <3>3, FilledIsWritten
  <2> QED BY <2>1, <2>2
<1> QED BY <1>1, <1>5, <1>6, BoundsStay, CallerWorks

LEMMA AddWritesKeepsInv ==
  ASSUME Inv, NEW c \in Caller, AddWrites(c), UNCHANGED <<conversationVars, approvalVars>>
  PROVE  Inv'
<1> DEFINE t == calls[c].task
           kept == calls[c].kept \cup {calls[c].says}
           s == [session[t] EXCEPT !.messages = kept, !.question = NoOne]
<1>1. /\ At(c, "add", "answered") /\ Done(c) /\ UNCHANGED briefs /\ UNCHANGED bounds
      /\ session' = [session EXCEPT ![t].messages = kept, ![t].question = NoOne]
  BY DEF AddWrites
<1>2. t \in Task /\ calls[c] \in Call /\ calls[c].says \in Said
  BY <1>1, CallerIs
<1>3. session' = [session EXCEPT ![t] = s]
  BY <1>1, <1>2, TaskIs
<1>4. kept \in SUBSET Said /\ session[t] \in Session
  BY <1>2, TaskIs DEF Call
<1> HIDE DEF kept
<1>5. s \in Session /\ s.brief = session[t].brief /\ s.question = NoOne
  BY <1>4 DEF Session
<1> HIDE DEF s
<1>6. s.brief <= Len(briefs[t])
  BY <1>2, <1>5, TaskIs
<1>7. SessionsAreTyped' /\ ReadyAsksNothing'
  BY <1>1, <1>2, <1>3, <1>5, <1>6, SessionIsWritten
<1>8. Plain(Advance(calls[c])) /\ Goes(c, Advance(calls[c]))
  BY <1>1, DoneIsPlain DEF Done
<1> QED BY <1>1, <1>7, <1>8, BoundsStay, CallerWorks

LEMMA GenerateReadsKeepsInv ==
  ASSUME Inv, NEW c \in Caller, GenerateReads(c), UNCHANGED <<conversationVars, approvalVars>>
  PROVE  Inv'
<1> DEFINE s == session[calls[c].task]
<1>1. At(c, "generate", "start") /\ UNCHANGED <<discoveryVars, bounds>>
  BY DEF GenerateReads
<1>2. calls[c].task \in Task /\ calls[c] \in Call
  BY <1>1, CallerIs
<1>3. s.messages \in SUBSET Said
  BY <1>2, TaskIs DEF Session
<1>4. CASE Fails(c)
  BY <1>1, <1>4, IdleIsPlain, BoundsStay, CallerMoves DEF Fails
<1>5. CASE ~Fails(c)
  <2>1. PICK found \in SUBSET (Findable \cap Investigated(UNION {Fills[m] : m \in s.messages})) :
          Goes(c, [calls[c] EXCEPT !.step = "read", !.kept = s.messages, !.found = found])
    BY <1>5 DEF GenerateReads
  <2> DEFINE call == [calls[c] EXCEPT !.step = "read", !.kept = s.messages, !.found = found]
  <2>2. found \in SUBSET Dimension
    BY DiscoveryAssumption
  <2> HIDE DEF s
  <2>3. /\ call \in Call /\ call.step = "read" /\ call.todo = calls[c].todo
        /\ call.task = calls[c].task /\ call.says = calls[c].says
        /\ call.request = calls[c].request
    BY <1>2, <1>3, <2>2 DEF Call
  <2>4. Goes(c, call)
    BY <2>1
  <2> HIDE DEF call
  <2>5. Plain(call)
    BY <1>1, <2>3, OnIsPlain
  <2> QED BY <1>1, <2>4, <2>5, BoundsStay, CallerMoves
<1> QED BY <1>4, <1>5

LEMMA GenerateWritesKeepsInv ==
  ASSUME Inv, NEW c \in Caller, GenerateWrites(c), UNCHANGED <<conversationVars, approvalVars>>
  PROVE  Inv'
<1> DEFINE t == calls[c].task
           filled == UNION {Fills[m] : m \in calls[c].kept}
           next == NextQuestion(filled, calls[c].found)
           version == Len(briefs[t]) + 1
           s == [status |-> Status(next), messages |-> calls[c].kept, question |-> next,
                 brief |-> version]
           closed == [v \in DOMAIN briefs[t] |->
                        IF briefs[t][v].status = "draft"
                        THEN [briefs[t][v] EXCEPT !.status = "superseded"] ELSE briefs[t][v]]
           last == [status |-> "draft", filled |-> filled, found |-> calls[c].found]
           call == [calls[c] EXCEPT !.asks = next, !.brief = version]
<1>1. /\ At(c, "generate", "read") /\ UNCHANGED bounds /\ version <= MaxBriefs
      /\ CreateBrief(t, filled, calls[c].found) /\ session' = [session EXCEPT ![t] = s]
      /\ Goes(c, Advance(call))
  BY DEF GenerateWrites
<1>2. t \in Task /\ calls[c] \in Call
  BY <1>1, CallerIs
<1>3. calls[c].kept \in SUBSET Said /\ calls[c].found \in SUBSET Dimension
  BY <1>2 DEF Call
<1>4. filled \in SUBSET Dimension
  BY <1>3, DiscoveryAssumption
<1>5. next \in Dimension \cup {NoOne}
  BY NextQuestionIs
<1>6. briefs[t] \in Seq(Brief) /\ Len(briefs[t]) \in Nat
  BY <1>2, TaskIs, DiscoveryAssumption
<1>7. version \in 0..MaxBriefs
  BY <1>1, <1>6, DiscoveryAssumption
<1>8. closed \in Seq(Brief) /\ Len(closed) = Len(briefs[t])
  <2>1. ASSUME NEW v \in DOMAIN briefs[t] PROVE closed[v] \in Brief
    <3>1. briefs[t][v] \in Brief
      BY <1>6
    <3>2. [briefs[t][v] EXCEPT !.status = "superseded"] \in Brief
      BY <3>1 DEF Brief
    <3> QED BY <3>1, <3>2
  <2>2. closed \in [DOMAIN briefs[t] -> Brief]
    BY <2>1
  <2> HIDE DEF closed
  <2> QED BY <1>6, <2>2, RewrittenIsSeq
<1>9. last \in Brief
  BY <1>3, <1>4 DEF Brief
<1>10. briefs' = [briefs EXCEPT ![t] = Append(closed, last)]
  BY <1>1, <1>2, TaskIs DEF CreateBrief
<1> HIDE DEF closed, last, filled, next, version
<1>11. Append(closed, last) \in Seq(Brief) /\ Len(Append(closed, last)) = version
  BY <1>8, <1>9, AppendProperties DEF version
<1>12. s \in Session /\ s.brief = version /\ (s.status = "ready" => s.question = NoOne)
  BY <1>3, <1>5, <1>7, StatusIs DEF Session
<1>13. /\ call \in Call /\ call.todo = calls[c].todo /\ call.task = calls[c].task
       /\ call.says = calls[c].says /\ call.request = calls[c].request
  BY <1>2, <1>5, <1>7 DEF Call
<1> HIDE DEF s, call
<1>14. SessionsAreTyped' /\ ReadyAsksNothing'
  <2>1. s.brief <= Len(Append(closed, last)) /\ Len(Append(closed, last)) <= MaxBriefs
    BY <1>1, <1>7, <1>11, <1>12
  <2> QED BY <1>1, <1>2, <1>10, <1>11, <1>12, <2>1, TaskIsWritten
<1>15. Plain(Advance(call))
  BY <1>1, <1>13, AdvanceIsPlain
<1> QED BY <1>1, <1>14, <1>15, BoundsStay, CallerWorks

LEMMA RefreshReadsKeepsInv ==
  ASSUME Inv, NEW c \in Caller, RefreshReads(c), UNCHANGED <<conversationVars, approvalVars>>
  PROVE  Inv'
<1> DEFINE t == calls[c].task
           s == session[t]
<1>1. At(c, "refresh", "start") /\ UNCHANGED <<discoveryVars, bounds>>
  BY DEF RefreshReads
<1>2. t \in Task /\ calls[c] \in Call
  BY <1>1, CallerIs
<1>3. s.messages \in SUBSET Said /\ s.brief \in 0..MaxBriefs
  BY <1>2, TaskIs DEF Session
<1>4. CASE s.brief = 0
  <2> DEFINE call == [calls[c] EXCEPT !.brief = 0, !.asks = NoOne]
  <2>1. Goes(c, Advance(call))
    BY <1>4 DEF RefreshReads
  <2>2. /\ call \in Call /\ call.todo = calls[c].todo /\ call.task = calls[c].task
        /\ call.says = calls[c].says /\ call.request = calls[c].request
    BY <1>2, <1>3, <1>4 DEF Call
  <2> HIDE DEF call
  <2>3. Plain(Advance(call))
    BY <1>1, <2>2, AdvanceIsPlain
  <2> QED BY <1>1, <2>1, <2>3, BoundsStay, CallerMoves
<1>5. CASE s.brief # 0
  <2> DEFINE next == NextQuestion(briefs[t][s.brief].filled, {})
             call == [calls[c] EXCEPT !.step = "read", !.kept = s.messages, !.brief = s.brief,
                                      !.asks = next]
  <2>1. Goes(c, call)
    BY <1>5 DEF RefreshReads
  <2>2. next \in Dimension \cup {NoOne}
    BY NextQuestionIs
  <2> HIDE DEF next, s
  <2>3. /\ call \in Call /\ call.step = "read" /\ call.todo = calls[c].todo
        /\ call.task = calls[c].task /\ call.says = calls[c].says
        /\ call.request = calls[c].request
    BY <1>2, <1>3, <2>2 DEF Call
  <2> HIDE DEF call
  <2>4. Plain(call)
    BY <1>1, <2>3, OnIsPlain
  <2> QED BY <1>1, <2>1, <2>4, BoundsStay, CallerMoves
<1> QED BY <1>4, <1>5

LEMMA RefreshWritesKeepsInv ==
  ASSUME Inv, NEW c \in Caller, RefreshWrites(c), UNCHANGED <<conversationVars, approvalVars>>
  PROVE  Inv'
<1> DEFINE t == calls[c].task
           asks == calls[c].asks
           s == [session[t] EXCEPT !.status = Status(asks), !.messages = calls[c].kept,
                                   !.question = asks]
<1>1. /\ At(c, "refresh", "read") /\ Done(c) /\ UNCHANGED briefs /\ UNCHANGED bounds
      /\ session' = [session EXCEPT ![t].status = Status(asks), ![t].messages = calls[c].kept,
                                    ![t].question = asks]
  BY DEF RefreshWrites
<1>2. t \in Task /\ calls[c] \in Call
  BY <1>1, CallerIs
<1>3. session' = [session EXCEPT ![t] = s]
  BY <1>1, <1>2, TaskIs
<1>4. /\ calls[c].kept \in SUBSET Said /\ asks \in Dimension \cup {NoOne}
      /\ session[t] \in Session
  BY <1>2, TaskIs DEF Call
<1> HIDE DEF asks
<1>5. /\ s \in Session /\ s.brief = session[t].brief /\ s.status = Status(asks)
      /\ s.question = asks
  BY <1>4, StatusIs DEF Session
<1> HIDE DEF s
<1>6. s.brief <= Len(briefs[t]) /\ (s.status = "ready" => s.question = NoOne)
  BY <1>2, <1>4, <1>5, TaskIs, StatusIs
<1>7. SessionsAreTyped' /\ ReadyAsksNothing'
  BY <1>1, <1>2, <1>3, <1>5, <1>6, SessionIsWritten
<1>8. Plain(Advance(calls[c])) /\ Goes(c, Advance(calls[c]))
  BY <1>1, DoneIsPlain DEF Done
<1> QED BY <1>1, <1>7, <1>8, BoundsStay, CallerWorks

LEMMA DiscoveryRequestKeepsInv ==
  ASSUME Inv, NEW c \in Caller, NEW t \in Task, NEW said, NEW todo,
         DiscoveryRequest(c, t, said, todo), todo # <<"generate">> => said \in Typed,
         UNCHANGED <<conversationVars, approvalVars>>
  PROVE  Inv'
<1> DEFINE call == [Idle EXCEPT !.todo = todo, !.task = t, !.says = said]
<1>1. /\ todo \in {<<"add">>, <<"generate">>, <<"add", "generate">>} /\ Human
      /\ todo = <<"generate">> => said = NoOne
      /\ Goes(c, call) /\ UNCHANGED discoveryVars
  BY DEF DiscoveryRequest
<1>2. said \in Said \cup {NoOne} /\ (todo \notin Speechless => said \in Said)
  BY <1>1, DiscoveryAssumption DEF Speechless
<1>3. todo \in Seq(OPERATIONS)
  <2>1. "add" \in OPERATIONS /\ "generate" \in OPERATIONS
    BY DEF OPERATIONS
  <2>2. CASE todo = <<"add">>
    BY <2>1, <2>2
  <2>3. CASE todo = <<"generate">>
    BY <2>1, <2>3
  <2>4. CASE todo = <<"add", "generate">>
    BY <2>1, <2>4
  <2> QED BY <1>1, <2>2, <2>3, <2>4
<1>4. todo \in ToDo /\ todo # ToCreate /\ todo \notin ToDecide
  <2>1. \A e \in {<<"add">>, <<"generate">>, <<"add", "generate">>} :
          e \in ToDo /\ e # ToCreate /\ e \notin ToDecide
    <3>1. <<"add">> \in ToDo /\ <<"add">> # ToCreate /\ <<"add">> \notin ToDecide
      BY DEF ToDo, ToCreate, ToDecide
    <3>2. <<"generate">> \in ToDo /\ <<"generate">> # ToCreate /\ <<"generate">> \notin ToDecide
      BY DEF ToDo, Speechless, ToCreate, ToDecide
    <3>3. /\ <<"add", "generate">> \in ToDo /\ <<"add", "generate">> # ToCreate
          /\ <<"add", "generate">> \notin ToDecide
      BY DEF ToDo, ToCreate, ToDecide
    <3> QED BY <3>1, <3>2, <3>3
  <2> QED BY <1>1, <2>1
<1>5. Idle \in Call /\ Idle.step = "start"
  BY IdleIsSound DEF Sound, Idle
<1>6. /\ call \in Call /\ call.todo = todo /\ call.task = t /\ call.says = said
      /\ call.step = "start"
  BY <1>2, <1>3, <1>5 DEF Call
<1> HIDE DEF call
<1>7. Plain(call)
  BY <1>2, <1>4, <1>6 DEF Plain, Sound
<1> QED BY <1>1, <1>7, HumanIsBounded, CallerMoves

LEMMA AnswerKeepsInv ==
  ASSUME Inv, NEW t \in Task, NEW v, NEW d \in Dimension, AnswerBriefQuestion(t, v, d),
         UNCHANGED <<conversationVars, approvalVars>>
  PROVE  Inv'
<1> DEFINE F == briefs[t][v].filled \cup {d}
<1>1. /\ Human /\ v \in DOMAIN briefs[t] /\ UNCHANGED session /\ UNCHANGED calls
      /\ briefs' = [briefs EXCEPT ![t][v].filled = @ \cup {d}]
  BY DEF AnswerBriefQuestion
<1>2. briefs' = [briefs EXCEPT ![t] =
                   [briefs[t] EXCEPT ![v] = [briefs[t][v] EXCEPT !.filled = F]]]
  BY <1>1
<1>3. F \in SUBSET Dimension
  <2>1. briefs[t][v] \in Brief
    BY <1>1, TaskIs
  <2> QED BY <2>1 DEF Brief
<1> HIDE DEF F
<1>4. SessionsAreTyped' /\ ReadyAsksNothing'
  BY <1>1, <1>2, <1>3, FilledIsWritten
<1> QED BY <1>1, <1>4, HumanIsBounded, PageWrites

LEMMA UpdateKeepsInv ==
  ASSUME Inv, NEW t \in Task, NEW v, NEW d \in Dimension, UpdateBrief(t, v, d),
         UNCHANGED <<conversationVars, approvalVars>>
  PROVE  Inv'
<1> DEFINE F == briefs[t][v].filled \ {d}
<1>1. /\ Human /\ v \in DOMAIN briefs[t] /\ UNCHANGED session /\ UNCHANGED calls
      /\ briefs' = [briefs EXCEPT ![t][v].filled = @ \ {d}]
  BY DEF UpdateBrief
<1>2. briefs' = [briefs EXCEPT ![t] =
                   [briefs[t] EXCEPT ![v] = [briefs[t][v] EXCEPT !.filled = F]]]
  BY <1>1
<1>3. F \in SUBSET Dimension
  <2>1. briefs[t][v] \in Brief
    BY <1>1, TaskIs
  <2> QED BY <2>1 DEF Brief
<1> HIDE DEF F
<1>4. SessionsAreTyped' /\ ReadyAsksNothing'
  BY <1>1, <1>2, <1>3, FilledIsWritten
<1> QED BY <1>1, <1>4, HumanIsBounded, PageWrites

LEMMA CloseKeepsInv ==
  ASSUME Inv, NEW t \in Task, CloseDiscovery(t), UNCHANGED <<conversationVars, approvalVars>>
  PROVE  Inv'
<1> DEFINE v == session[t].brief
           s == [session[t] EXCEPT !.status = "ready", !.question = NoOne]
           b == [briefs[t] EXCEPT ![v] = [briefs[t][v] EXCEPT !.status = "ready"]]
<1>1. Human /\ UNCHANGED calls
  BY DEF CloseDiscovery
<1>2. session' = [session EXCEPT ![t] = s]
  BY DEF CloseDiscovery
<1>3. session[t] \in Session /\ briefs[t] \in Seq(Brief) /\ Len(briefs[t]) \in 0..MaxBriefs
      /\ v \in 0..Len(briefs[t])
  BY TaskIs
<1>4. s \in Session /\ s.brief = v /\ s.question = NoOne
  BY <1>3 DEF Session
<1>5. CASE v = 0
  <2>1. UNCHANGED briefs
    BY <1>5 DEF CloseDiscovery
  <2> HIDE DEF s
  <2>2. s.brief <= Len(briefs[t])
    BY <1>3, <1>4, <1>5, DiscoveryAssumption
  <2>3. SessionsAreTyped' /\ ReadyAsksNothing'
    BY <1>2, <1>4, <2>1, <2>2, SessionIsWritten
  <2> QED BY <1>1, <2>3, HumanIsBounded, PageWrites
<1>6. CASE v # 0
  <2>1. briefs' = [briefs EXCEPT ![t][v].status = "ready"]
    BY <1>6 DEF CloseDiscovery
  <2>2. briefs' = [briefs EXCEPT ![t] = b]
    BY <2>1
  <2>3. v \in DOMAIN briefs[t]
    BY <1>3, <1>6
  <2>4. briefs[t][v] \in Brief
    BY <1>3, <2>3
  <2>5. [briefs[t][v] EXCEPT !.status = "ready"] \in Brief
    BY <2>4 DEF Brief
  <2>6. b \in Seq(Brief) /\ Len(b) = Len(briefs[t])
    BY <1>3, <2>3, <2>5, ExceptSeq
  <2> HIDE DEF s, b
  <2>7. Len(b) <= MaxBriefs /\ s.brief <= Len(b)
    BY <1>3, <1>4, <2>6, DiscoveryAssumption
  <2>8. SessionsAreTyped' /\ ReadyAsksNothing'
    BY <1>2, <1>4, <2>2, <2>6, <2>7, TaskIsWritten
  <2> QED BY <1>1, <2>8, HumanIsBounded, PageWrites
<1> QED BY <1>5, <1>6

-----------------------------------------------------------------------------
(* Approval requests.                                                      *)

LEMMA RequestsAreTyped ==
  ASSUME Inv, requests' \in Seq(Request), Len(requests') <= MaxRequests, Keeps,
         gate' \in [Run -> {"draft", "awaiting_approval", "approved"}], UNCHANGED decisions
  PROVE  TypeOKApprovals'
<1>1. decisions \in Seq(Requests \X {"approve", "reject"})
  BY DEF Inv, TypeOKApprovals
<1>2. Requests \X {"approve", "reject"} \subseteq Requests' \X {"approve", "reject"}
  BY DEF Keeps
<1> HIDE DEF Requests
<1>3. decisions \in Seq(Requests' \X {"approve", "reject"})
  BY <1>1, <1>2, SeqMonotonic
<1> QED BY <1>3 DEF TypeOKApprovals

(* Requests that are rewritten, and none is opened again. *)
Rewrites(f) ==
  /\ f \in [Requests -> Request]
  /\ \A i \in Requests : /\ f[i].run = requests[i].run
                         /\ requests[i].state # "pending" => f[i].state # "pending"

LEMMA RewritesKeep ==
  ASSUME Inv, NEW f, Rewrites(f), requests' = f, UNCHANGED gate
  PROVE  /\ requests' \in Seq(Request) /\ Len(requests') <= MaxRequests
         /\ Requests' = Requests /\ Keeps
<1>1. requests \in Seq(Request) /\ Len(requests) <= MaxRequests
  BY DEF Inv, TypeOKApprovals
<1>2. /\ f \in Seq(Request) /\ Len(f) = Len(requests)
      /\ DOMAIN f = DOMAIN requests
  BY <1>1, RewrittenIsSeq DEF Requests, Rewrites
<1> QED BY <1>1, <1>2 DEF Keeps, Requests, Rewrites

LEMMA RequestsAreRewritten ==
  ASSUME Inv, NEW f, Rewrites(f), requests' = f, UNCHANGED <<gate, decisions>>
  PROVE  TypeOKApprovals' /\ Keeps
<1>1. gate' \in [Run -> {"draft", "awaiting_approval", "approved"}]
  BY DEF Inv, TypeOKApprovals
<1> QED BY <1>1, RewritesKeep, RequestsAreTyped

LEMMA OneIsRewritten ==
  ASSUME Inv, NEW i \in Requests, NEW new \in Request, new.run = requests[i].run,
         requests[i].state # "pending" => new.state # "pending"
  PROVE  Rewrites([requests EXCEPT ![i] = new])
<1> DEFINE f == [requests EXCEPT ![i] = new]
<1>1. \A j \in Requests : f[j] = IF j = i THEN new ELSE requests[j]
  BY DEF Requests
<1>2. \A j \in Requests : requests[j] \in Request
  BY RequestIs DEF Inv
<1>3. f \in [Requests -> Request]
  BY <1>1, <1>2 DEF Requests
<1> HIDE DEF f
<1>4. Rewrites(f)
  BY <1>1, <1>3 DEF Rewrites
<1> QED BY <1>4 DEF f

(* A step of a caller on the requests that decides nothing. *)
LEMMA CallerAsks ==
  ASSUME Inv, NEW c \in Caller, NEW call, Plain(call), Goes(c, call),
         TypeOKApprovals', Keeps, UNCHANGED decisions,
         UNCHANGED <<conversationVars, discoveryVars, bounds>>
  PROVE  Inv'
<1>1. /\ SessionsAreTyped' /\ ReadyAsksNothing' /\ Bounded'
      /\ ThreadIsTyped' /\ UNCHANGED <<messages, origin>>
  BY SessionsStay, BoundsStay, ThreadStays
<1>2. DecidedIsClosed' /\ DecidedOnceAndDone'
  BY DecisionsStay
<1>3. CallsAreSound' /\ CreatesOnce' /\ OriginsAreSeen' /\ GatedIsApproved' /\ ActedOnOnce'
  BY <1>1, CallerGoes DEF Plain, Passed
<1> QED BY <1>1, <1>2, <1>3 DEF Inv

(* A step on the requests or the gate that no caller takes. *)
LEMMA PageAsks ==
  ASSUME Inv, TypeOKApprovals', Keeps, Bounded',
         UNCHANGED <<conversationVars, discoveryVars, calls, decisions>>
  PROVE  Inv'
<1>1. /\ SessionsAreTyped' /\ ReadyAsksNothing'
      /\ ThreadIsTyped' /\ UNCHANGED <<messages, origin>>
  BY SessionsStay, ThreadStays
<1>2. DecidedIsClosed' /\ DecidedOnceAndDone'
  BY DecisionsStay
<1>3. CallsAreSound' /\ CreatesOnce' /\ OriginsAreSeen' /\ GatedIsApproved' /\ ActedOnOnce'
  BY <1>1, NobodyGoes
<1> QED BY <1>1, <1>2, <1>3 DEF Inv

LEMMA RaiseRequestKeepsInv ==
  ASSUME Inv, NEW c \in Caller, NEW t \in Task, NEW subject \in {"brief", "run"},
         RaiseRequest(c, t, subject), UNCHANGED conversationVars
  PROVE  Inv'
<1> DEFINE brief == session[t].brief
           todo == <<"raise">>
           call == [Idle EXCEPT !.todo = todo, !.task = t, !.subject = subject,
                                !.brief = brief]
<1>1. Human /\ Goes(c, call) /\ UNCHANGED <<approvalVars, discoveryVars>>
  BY DEF RaiseRequest
<1>2. brief \in 0..MaxBriefs
  BY TaskIs DEF Session
<1>3. /\ todo \in Seq(OPERATIONS) /\ todo \in ToDo /\ todo # ToCreate /\ todo \notin ToDecide
      /\ todo \in Speechless
  <2>1. "raise" \in OPERATIONS
    BY DEF OPERATIONS
  <2> QED BY <2>1 DEF ToDo, Speechless, ToCreate, ToDecide
<1>4. Idle \in Call /\ Idle.step = "start"
  BY IdleIsSound DEF Sound, Idle
<1> HIDE DEF brief, todo
<1>5. call \in Call /\ call.todo = todo /\ call.task = t /\ call.step = "start"
  BY <1>2, <1>3, <1>4 DEF Call
<1> HIDE DEF call
<1>6. Plain(call)
  BY <1>3, <1>5 DEF Plain, Sound
<1> QED BY <1>1, <1>6, HumanIsBounded, CallerMoves

LEMMA RaiseSkipsKeepsInv ==
  ASSUME Inv, NEW c \in Caller, RaiseSkips(c), UNCHANGED conversationVars
  PROVE  Inv'
<1>1. At(c, "raise", "start") /\ Done(c) /\ UNCHANGED <<approvalVars, discoveryVars, bounds>>
  BY DEF RaiseSkips
<1>2. Plain(Advance(calls[c])) /\ Goes(c, Advance(calls[c]))
  BY <1>1, DoneIsPlain DEF Done
<1> QED BY <1>1, <1>2, BoundsStay, CallerMoves

LEMMA RaiseReadsKeepsInv ==
  ASSUME Inv, NEW c \in Caller, RaiseReads(c), UNCHANGED conversationVars
  PROVE  Inv'
<1> DEFINE ids == PendingFor(calls[c].task, calls[c].subject)
           call == [calls[c] EXCEPT !.step = "read", !.ids = ids]
<1>1. At(c, "raise", "start") /\ Goes(c, call) /\ UNCHANGED <<approvalVars, discoveryVars, bounds>>
  BY DEF RaiseReads
<1>2. calls[c] \in Call
  BY <1>1, CallerIs
<1>3. ids \in SUBSET Nat
  <2>1. Requests \subseteq Nat
    BY LenProperties DEF Inv, TypeOKApprovals, Requests
  <2> QED BY <2>1 DEF PendingFor
<1> HIDE DEF ids
<1>4. /\ call \in Call /\ call.step = "read" /\ call.todo = calls[c].todo
      /\ call.task = calls[c].task /\ call.says = calls[c].says
      /\ call.request = calls[c].request
  BY <1>2, <1>3 DEF Call
<1> HIDE DEF call
<1>5. Plain(call)
  BY <1>1, <1>4, OnIsPlain
<1> QED BY <1>1, <1>5, BoundsStay, CallerMoves

LEMMA SupersededIs ==
  ASSUME Inv, NEW ids
  PROVE  Rewrites(SupersededBy(ids))
<1>1. ASSUME NEW i \in Requests
      PROVE  /\ SupersededBy(ids)[i] \in Request
             /\ SupersededBy(ids)[i].run = requests[i].run
             /\ requests[i].state # "pending" => SupersededBy(ids)[i].state # "pending"
  <2> DEFINE new == [requests[i] EXCEPT !.state = "superseded"]
  <2>1. requests[i] \in Request
    BY RequestIs DEF Inv
  <2>2. new \in Request /\ new.run = requests[i].run /\ new.state = "superseded"
    BY <2>1 DEF Request, STATES
  <2>3. SupersededBy(ids)[i] = IF i \in ids THEN new ELSE requests[i]
    BY DEF SupersededBy
  <2> HIDE DEF new
  <2> QED BY <2>1, <2>2, <2>3
<1>2. SupersededBy(ids) \in [Requests -> Request]
  BY <1>1 DEF SupersededBy
<1> QED BY <1>1, <1>2 DEF Rewrites

LEMMA RaiseCommitsKeepsInv ==
  ASSUME Inv, NEW c \in Caller, RaiseCommits(c), UNCHANGED conversationVars
  PROVE  Inv'
<1> DEFINE old == SupersededBy(calls[c].ids)
<1>1. /\ At(c, "raise", "read") /\ Len(requests) < MaxRequests /\ Done(c)
      /\ UNCHANGED <<gate, decisions, discoveryVars, bounds>>
  BY DEF RaiseCommits
<1>2. calls[c] \in Call /\ calls[c].task \in Task
  BY <1>1, CallerIs
<1>3. calls[c].brief \in 0..MaxBriefs /\ calls[c].subject \in {"brief", "run"}
  BY <1>2 DEF Call
<1>4. PICK run \in Run \cup {NoRun}, terms \in IF InTurn(c) THEN {InTurnTerms} ELSE Terms :
        requests' = Append(old, [task |-> calls[c].task, subject |-> calls[c].subject,
                                 version |-> calls[c].brief, run |-> run, state |-> "pending",
                                 decidable |-> terms.decidable, expiry |-> terms.expiry])
  BY DEF RaiseCommits
<1> DEFINE new == [task |-> calls[c].task, subject |-> calls[c].subject,
                   version |-> calls[c].brief, run |-> run, state |-> "pending",
                   decidable |-> terms.decidable, expiry |-> terms.expiry]
<1>5. terms.decidable \in BOOLEAN /\ terms.expiry \in {"never", "later", "past"}
  <2>1. InTurnTerms.decidable \in BOOLEAN /\ InTurnTerms.expiry \in {"never", "later", "past"}
    BY DEF InTurnTerms
  <2>2. ASSUME NEW e \in Terms
        PROVE  e.decidable \in BOOLEAN /\ e.expiry \in {"never", "later", "past"}
    BY ApprovalsAssumption
  <2> QED BY <2>1, <2>2
<1>6. new \in Request
  BY <1>2, <1>3, <1>5 DEF Request, STATES
<1>7. requests' = Append(old, new)
  BY <1>4
<1>8. /\ requests \in Seq(Request) /\ gate \in [Run -> {"draft", "awaiting_approval", "approved"}]
      /\ Len(requests) \in Nat
  BY LenProperties DEF Inv, TypeOKApprovals
<1>9. Rewrites(old)
  BY SupersededIs
<1>10. /\ old \in [Requests -> Request]
       /\ \A i \in Requests : /\ old[i].run = requests[i].run
                              /\ requests[i].state # "pending" => old[i].state # "pending"
  BY <1>9 DEF Rewrites
<1> HIDE DEF old, new
<1>11. old \in Seq(Request) /\ Len(old) = Len(requests) /\ DOMAIN old = Requests
  BY <1>8, <1>10, RewrittenIsSeq DEF Requests
<1>12. /\ requests' \in Seq(Request) /\ Len(requests') = Len(requests) + 1
       /\ \A i \in 1..Len(requests) : requests'[i] = old[i]
  BY <1>6, <1>7, <1>11, AppendProperties
<1>13. Requests = 1..Len(requests) /\ Requests' = 1..Len(requests) + 1
  BY <1>8, <1>12, LenProperties DEF Requests
<1>14. Keeps
  BY <1>1, <1>8, <1>10, <1>12, <1>13 DEF Keeps
<1>15. TypeOKApprovals'
  <2>1. Len(requests') <= MaxRequests
    BY <1>1, <1>8, <1>12, ApprovalsAssumption
  <2> QED BY <1>1, <1>8, <1>12, <1>14, <2>1, RequestsAreTyped
<1>16. Plain(Advance(calls[c])) /\ Goes(c, Advance(calls[c]))
  BY <1>1, DoneIsPlain DEF Done
<1> QED BY <1>1, <1>14, <1>15, <1>16, CallerAsks

LEMMA DecisionRequestKeepsInv ==
  ASSUME Inv, NEW c \in Caller, NEW i \in Requests, NEW decision \in {"approve", "reject"},
         DecisionRequest(c, i, decision), UNCHANGED conversationVars
  PROVE  Inv'
<1> DEFINE todo == <<"decide">>
           call == [Idle EXCEPT !.todo = todo, !.request = i, !.decision = decision]
<1>1. Human /\ Goes(c, call) /\ UNCHANGED <<approvalVars, discoveryVars>>
  BY DEF DecisionRequest
<1>2. /\ todo \in Seq(OPERATIONS) /\ todo \in ToDo /\ todo # ToCreate
      /\ todo \in Unplaced /\ todo \in Speechless
  <2>1. "decide" \in OPERATIONS
    BY DEF OPERATIONS
  <2> QED BY <2>1 DEF ToDo, Unplaced, Speechless, ToCreate, ToDecide
<1>3. i \in Nat
  BY LenProperties DEF Inv, TypeOKApprovals, Requests
<1>4. Idle \in Call /\ Idle.step = "start"
  BY IdleIsSound DEF Sound, Idle
<1> HIDE DEF todo
<1>5. call \in Call /\ call.todo = todo /\ call.request = i /\ call.step = "start"
  BY <1>2, <1>3, <1>4 DEF Call
<1> HIDE DEF call
<1>6. Plain(call)
  BY <1>2, <1>5 DEF Plain, Sound
<1> QED BY <1>1, <1>6, HumanIsBounded, CallerMoves

LEMMA DecideReadsKeepsInv ==
  ASSUME Inv, NEW c \in Caller, DecideReads(c), UNCHANGED conversationVars
  PROVE  Inv'
<1> DEFINE i == calls[c].request
           call == [calls[c] EXCEPT !.step = "read"]
           expired == [requests[i] EXCEPT !.state = "expired"]
<1>1. At(c, "decide", "start") /\ UNCHANGED <<gate, decisions, discoveryVars, bounds>>
  BY DEF DecideReads
<1>2. i \in Requests /\ calls[c] \in Call
  BY <1>1, CallerIs
<1>3. Fails(c) \/ Goes(c, call)
  BY DEF DecideReads
<1>4. requests' = requests \/ requests' = [requests EXCEPT ![i] = expired]
  BY DEF DecideReads
<1>5. requests[i] \in Request
  BY <1>2, RequestIs DEF Inv
<1>6. expired \in Request /\ expired.run = requests[i].run /\ expired.state = "expired"
  BY <1>5 DEF Request, STATES
<1>7. /\ call \in Call /\ call.step = "read" /\ call.todo = calls[c].todo
      /\ call.task = calls[c].task /\ call.says = calls[c].says
      /\ call.request = calls[c].request
  BY <1>2 DEF Call
<1> HIDE DEF call, expired
<1>8. Plain(call)
  BY <1>1, <1>7, OnIsPlain
<1>9. PICK next : Plain(next) /\ Goes(c, next)
  BY <1>3, <1>8, IdleIsPlain DEF Fails
<1>10. CASE requests' = requests
  <2>1. UNCHANGED approvalVars
    BY <1>1, <1>10 DEF approvalVars
  <2> QED BY <1>1, <1>9, <2>1, ApprovalsStay, CallerAsks
<1>11. CASE requests' = [requests EXCEPT ![i] = expired]
  <2>1. Rewrites([requests EXCEPT ![i] = expired])
    BY <1>2, <1>6, OneIsRewritten
  <2>2. TypeOKApprovals' /\ Keeps
    BY <1>1, <1>11, <2>1, RequestsAreRewritten
  <2> QED BY <1>1, <1>9, <2>2, CallerAsks
<1> QED BY <1>4, <1>10, <1>11

(* Passing the gate: a run that is approved is approved from then on. *)
LEMMA GateMoves ==
  ASSUME Inv, NEW r \in Run, gate[r] # "approved",
         NEW to \in {"draft", "awaiting_approval", "approved"},
         gate' = [gate EXCEPT ![r] = to], UNCHANGED <<requests, decisions>>
  PROVE  TypeOKApprovals' /\ Keeps /\ gate'[r] = to
<1>1. gate \in [Run -> {"draft", "awaiting_approval", "approved"}]
  BY DEF Inv, TypeOKApprovals
<1>2. /\ gate' \in [Run -> {"draft", "awaiting_approval", "approved"}] /\ gate'[r] = to
      /\ \A q \in Run : gate[q] = "approved" => gate'[q] = "approved"
  BY <1>1
<1>3. Keeps
  BY <1>2 DEF Keeps, Requests
<1> QED BY <1>2, <1>3 DEF Inv, TypeOKApprovals, Requests

LEMMA DecideGatesKeepsInv ==
  ASSUME Inv, NEW c \in Caller, DecideGates(c), UNCHANGED conversationVars
  PROVE  Inv'
<1> DEFINE i == calls[c].request
           run == requests[i].run
           to == IF calls[c].decision = "approve" THEN "approved" ELSE "draft"
           call == [calls[c] EXCEPT !.step = "gated"]
<1>1. At(c, "decide", "read") /\ UNCHANGED <<requests, decisions, discoveryVars, bounds>>
  BY DEF DecideGates
<1>2. /\ i \in Requests /\ calls[c] \in Call /\ Sound(calls[c], Requests)
      /\ calls[c].todo # ToCreate
  BY <1>1, CallerIs
<1>3. run \in Run \cup {NoRun}
  BY <1>2, RequestIs DEF Inv
<1>4. CASE Fails(c) /\ UNCHANGED gate
  <2>1. UNCHANGED approvalVars
    BY <1>1, <1>4 DEF approvalVars
  <2> QED BY <1>1, <1>4, <2>1, IdleIsPlain, BoundsStay, CallerMoves DEF Fails
<1>5. ASSUME Goes(c, call), TypeOKApprovals', Keeps,
             run # NoRun /\ calls[c].decision = "approve" => gate'[run] = "approved"
      PROVE  Inv'
  <2>1. /\ SessionsAreTyped' /\ ReadyAsksNothing' /\ Bounded'
        /\ ThreadIsTyped' /\ UNCHANGED <<messages, origin>>
    BY <1>1, SessionsStay, BoundsStay, ThreadStays
  <2>2. DecidedIsClosed' /\ DecidedOnceAndDone'
    BY <1>1, <1>5, DecisionsStay
  <2>3. /\ call \in Call /\ call.todo = calls[c].todo /\ call.task = calls[c].task
        /\ call.says = calls[c].says /\ call.request = i /\ call.decision = calls[c].decision
    BY <1>2 DEF Call
  <2> HIDE DEF call
  <2>4. Sound(call, Requests) /\ call.todo # ToCreate
    BY <1>2, <2>3 DEF Sound
  <2>5. requests'[call.request].run = run
    BY <1>1, <2>3
  <2>6. CallsAreSound' /\ CreatesOnce' /\ OriginsAreSeen' /\ GatedIsApproved' /\ ActedOnOnce'
    BY <1>5, <2>1, <2>3, <2>4, <2>5, CallerGoes
  <2> QED BY <1>5, <2>1, <2>2, <2>6 DEF Inv
<1>6. CASE run = NoRun /\ Goes(c, call) /\ UNCHANGED gate
  <2>1. UNCHANGED approvalVars
    BY <1>1, <1>6 DEF approvalVars
  <2>2. TypeOKApprovals' /\ Keeps
    BY <2>1, ApprovalsStay
  <2> QED BY <1>5, <1>6, <2>2
<1>7. CASE /\ run # NoRun /\ gate[run] = "awaiting_approval" /\ Goes(c, call)
           /\ gate' = [gate EXCEPT ![run] = to]
  <2>1. run \in Run /\ to \in {"draft", "awaiting_approval", "approved"}
    BY <1>3, <1>7
  <2>2. TypeOKApprovals' /\ Keeps /\ gate'[run] = to
    BY <1>1, <1>7, <2>1, GateMoves
  <2> QED BY <1>5, <1>7, <2>2
<1> QED BY <1>4, <1>6, <1>7 DEF DecideGates

(* The decision is recorded of a request that is still pending, which no decision was about. *)
LEMMA DecideRecordsKeepsInv ==
  ASSUME Inv, NEW c \in Caller, DecideRecords(c), UNCHANGED conversationVars
  PROVE  Inv'
<1> DEFINE i == calls[c].request
           decision == calls[c].decision
           to == IF decision = "approve" THEN "approved" ELSE "rejected"
           new == [requests[i] EXCEPT !.state = to]
<1>1. At(c, "decide", "gated") /\ UNCHANGED <<gate, discoveryVars, bounds>>
  BY DEF DecideRecords
<1>2. /\ i \in Requests /\ calls[c] \in Call /\ calls[c].step = "gated"
      /\ calls[c].todo # <<>> /\ Head(calls[c].todo) = "decide"
  BY <1>1, CallerIs
<1>3. CASE ~StillPending(i)
  <2>1. Fails(c) /\ UNCHANGED approvalVars
    BY <1>1, <1>3 DEF DecideRecords, approvalVars
  <2> QED BY <1>1, <2>1, IdleIsPlain, BoundsStay, CallerMoves DEF Fails
<1>4. CASE StillPending(i)
  <2>1. /\ requests' = [requests EXCEPT ![i].state = to]
        /\ decisions' = Append(decisions, <<i, decision>>) /\ Done(c)
    BY <1>4 DEF DecideRecords
  <2>2. requests[i] \in Request /\ requests[i].state = "pending"
    BY <1>2, <1>4, RequestIs DEF Inv, StillPending
  <2>3. new \in Request /\ new.run = requests[i].run /\ new.state # "pending"
    BY <2>2 DEF Request, STATES
  <2>4. requests' = [requests EXCEPT ![i] = new]
    BY <2>1
  <2> HIDE DEF new
  <2>5. Rewrites([requests EXCEPT ![i] = new])
    BY <1>2, <2>2, <2>3, OneIsRewritten
  <2>6. /\ requests' \in Seq(Request) /\ Len(requests') <= MaxRequests
        /\ Requests' = Requests /\ Keeps
    BY <1>1, <2>4, <2>5, RewritesKeep
  <2>7. requests'[i] = new /\ requests'[i].run = requests[i].run
    BY <1>2, <2>3, <2>4 DEF Requests
  <2>8. decision \in {"approve", "reject"}
    BY <1>2 DEF Call
  <2>9. decisions \in Seq(Requests \X {"approve", "reject"})
    BY DEF Inv, TypeOKApprovals
  <2>10. <<i, decision>> \in Requests \X {"approve", "reject"}
    BY <1>2, <2>8
  <2> DEFINE n == Len(decisions) + 1
             D == Requests \X {"approve", "reject"}
  <2>11. /\ decisions' \in Seq(D) /\ DOMAIN decisions' = DOMAIN decisions \cup {n}
         /\ n \notin DOMAIN decisions
         /\ \A k \in DOMAIN decisions : decisions'[k] = decisions[k] /\ decisions[k] \in D
         /\ decisions'[n] = <<i, decision>>
    <3> HIDE DEF D
    <3>1. /\ decisions' \in Seq(D) /\ Len(decisions') = Len(decisions) + 1
          /\ \A k \in 1..Len(decisions) : decisions'[k] = decisions[k]
          /\ decisions'[n] = <<i, decision>>
      BY <2>1, <2>9, <2>10, AppendProperties DEF D
    <3>2. DOMAIN decisions = 1..Len(decisions) /\ DOMAIN decisions' = 1..Len(decisions')
          /\ Len(decisions) \in Nat
      BY <2>9, <3>1, LenProperties
    <3>3. \A k \in DOMAIN decisions : decisions[k] \in D
      BY <2>9 DEF D
    <3> QED BY <3>1, <3>2, <3>3
  <2> HIDE DEF n
  <2>12. TypeOKApprovals'
    <3>1. gate' \in [Run -> {"draft", "awaiting_approval", "approved"}]
      BY <1>1 DEF Inv, TypeOKApprovals
    <3> QED BY <2>6, <2>11, <3>1 DEF TypeOKApprovals
  <2>13. \A k \in DOMAIN decisions : decisions[k][1] \in Requests /\ decisions[k][1] # i
    BY <2>2, <2>11 DEF Inv, DecidedIsClosed
  <2>14. DecidedIsClosed'
    <3>1. ASSUME NEW k \in DOMAIN decisions PROVE requests'[decisions'[k][1]].state # "pending"
      BY <2>6, <2>11, <2>13 DEF Inv, DecidedIsClosed, Keeps
    <3>2. requests'[decisions'[n][1]].state # "pending"
      BY <2>3, <2>7, <2>11
    <3> QED BY <2>11, <3>1, <3>2 DEF DecidedIsClosed
  <2>15. DecidedOnceAndDone'
    <3>1. ASSUME NEW j \in DOMAIN decisions', NEW k \in DOMAIN decisions',
                 decisions'[j][1] = decisions'[k][1]
          PROVE  j = k
      <4>1. ASSUME NEW a \in DOMAIN decisions, NEW b \in DOMAIN decisions,
                   decisions[a][1] = decisions[b][1]
            PROVE  a = b
        BY <4>1 DEF Inv, DecidedOnceAndDone
      <4> QED BY <2>11, <2>13, <3>1, <4>1
    <3>2. ASSUME NEW k \in DOMAIN decisions, requests'[decisions'[k][1]].run # NoRun,
                 decisions'[k][2] = "approve"
          PROVE  gate'[requests'[decisions'[k][1]].run] = "approved"
      <4>1. /\ decisions'[k] = decisions[k]
            /\ requests'[decisions[k][1]].run = requests[decisions[k][1]].run
        BY <2>6, <2>11, <2>13 DEF Keeps
      <4> QED BY <1>1, <3>2, <4>1 DEF Inv, DecidedOnceAndDone
    <3>3. ASSUME requests'[decisions'[n][1]].run # NoRun, decisions'[n][2] = "approve"
          PROVE  gate'[requests'[decisions'[n][1]].run] = "approved"
      <4>1. Passed(calls[c]) /\ decisions'[n] = <<i, decision>>
        BY <1>2, <2>11 DEF Passed
      <4>2. requests[i].run # NoRun /\ decision = "approve"
        BY <2>7, <3>3, <4>1
      <4>3. gate[requests[i].run] = "approved"
        BY <4>1, <4>2 DEF Inv, GatedIsApproved
      <4> QED BY <1>1, <2>7, <4>1, <4>3
    <3> QED BY <2>11, <3>1, <3>2, <3>3 DEF DecidedOnceAndDone
  <2>16. /\ SessionsAreTyped' /\ ReadyAsksNothing' /\ Bounded'
         /\ ThreadIsTyped' /\ UNCHANGED <<messages, origin>>
    BY <1>1, SessionsStay, BoundsStay, ThreadStays
  <2>17. Plain(Advance(calls[c])) /\ Goes(c, Advance(calls[c]))
    BY <1>1, <2>1, DoneIsPlain DEF Done
  <2>18. CallsAreSound' /\ CreatesOnce' /\ OriginsAreSeen' /\ GatedIsApproved' /\ ActedOnOnce'
    BY <2>6, <2>16, <2>17, CallerGoes DEF Plain, Passed
  <2> QED BY <2>12, <2>14, <2>15, <2>16, <2>18 DEF Inv
<1> QED BY <1>3, <1>4

LEMMA ExpiresKeepsInv ==
  ASSUME Inv, NEW i \in Requests, RequestExpires(i), UNCHANGED conversationVars
  PROVE  Inv'
<1> DEFINE new == [requests[i] EXCEPT !.expiry = "past"]
<1>1. /\ UNCHANGED <<gate, decisions, discoveryVars, calls, bounds>>
      /\ requests' = [requests EXCEPT ![i] = new]
  BY DEF RequestExpires
<1>2. requests[i] \in Request
  BY RequestIs DEF Inv
<1>3. new \in Request /\ new.run = requests[i].run /\ new.state = requests[i].state
  BY <1>2 DEF Request
<1> HIDE DEF new
<1>4. Rewrites([requests EXCEPT ![i] = new])
  BY <1>3, OneIsRewritten
<1>5. TypeOKApprovals' /\ Keeps
  BY <1>1, <1>4, RequestsAreRewritten
<1> QED BY <1>1, <1>5, BoundsStay, PageAsks

LEMMA ExpireKeepsInv ==
  ASSUME Inv, ExpireStaleRequests, UNCHANGED conversationVars
  PROVE  Inv'
<1> DEFINE stale == {i \in Requests : requests[i].state = "pending" /\ requests[i].expiry = "past"}
           f == [i \in Requests |-> IF i \in stale THEN [requests[i] EXCEPT !.state = "expired"]
                                    ELSE requests[i]]
<1>1. UNCHANGED <<gate, decisions, discoveryVars, calls, bounds>> /\ requests' = f
  BY DEF ExpireStaleRequests
<1>2. ASSUME NEW i \in Requests
      PROVE  /\ f[i] \in Request /\ f[i].run = requests[i].run
             /\ requests[i].state # "pending" => f[i].state # "pending"
  <2> DEFINE new == [requests[i] EXCEPT !.state = "expired"]
  <2>1. requests[i] \in Request
    BY RequestIs DEF Inv
  <2>2. new \in Request /\ new.run = requests[i].run /\ new.state = "expired"
    BY <2>1 DEF Request, STATES
  <2>3. f[i] = IF i \in stale THEN new ELSE requests[i]
    OBVIOUS
  <2> HIDE DEF new, f, stale
  <2> QED BY <2>1, <2>2, <2>3
<1>3. f \in [Requests -> Request]
  BY <1>2
<1> HIDE DEF f
<1>4. Rewrites(f)
  BY <1>2, <1>3 DEF Rewrites
<1>5. TypeOKApprovals' /\ Keeps
  BY <1>1, <1>4, RequestsAreRewritten
<1> QED BY <1>1, <1>5, BoundsStay, PageAsks

LEMMA RunPageKeepsInv ==
  ASSUME Inv, NEW r \in Run, NEW to \in {"approved", "awaiting_approval"}, RunPage(r, to),
         UNCHANGED conversationVars
  PROVE  Inv'
<1>1. /\ Human /\ gate[r] # "approved" /\ gate' = [gate EXCEPT ![r] = to]
      /\ UNCHANGED <<requests, decisions, discoveryVars, calls>>
  BY DEF RunPage
<1>2. TypeOKApprovals' /\ Keeps
  BY <1>1, GateMoves
<1> QED BY <1>1, <1>2, HumanIsBounded, PageAsks

-----------------------------------------------------------------------------
(* The thread.                                                             *)

LEMMA RouteIs ==
  ASSUME ThreadIsTyped, NEW m \in Said, NEW todo \in Route(m)
  PROVE  /\ todo \in {<<"append">>, ToRecord, <<"append", "bind", "decide">>,
                      <<"append", "add", "refresh", "raise">>}
         /\ todo = <<"append", "add", "refresh", "raise">> =>
              HasPendingQuestion /\ Manner[m] = "words"
         /\ todo = <<"append", "bind", "decide">> => Manner[m] = "verdict"
<1>1. CASE todo = <<"append">>
  BY <1>1
<1>2. CASE todo # <<"append">> /\ Manner[m] = "work"
  BY <1>2 DEF Route, ToRecord
<1>3. CASE todo # <<"append">> /\ Manner[m] = "verdict"
  BY <1>3 DEF Route
<1>4. CASE todo # <<"append">> /\ Manner[m] \notin {"work", "verdict"}
  BY <1>4 DEF Route
<1> QED BY <1>1, <1>2, <1>3, <1>4

LEMMA SpokenIsPlain ==
  ASSUME Inv, NEW todo, NEW call \in Call, call.todo = todo, call.step = "start",
         todo \in {<<"append">>, ToRecord, <<"append", "bind", "decide">>,
                   <<"append", "add", "refresh", "raise">>},
         call.says \in Said,
         todo = <<"append", "add", "refresh", "raise">> => call.task \in Task,
         todo = <<"append", "bind", "decide">> => call.request \in Requests
  PROVE  Plain(call)
<1>1. CASE todo = <<"append">>
  BY <1>1 DEF Plain, Sound, ToDo, Unplaced, ToDecide, ToCreate
<1>2. CASE todo = ToRecord
  BY <1>2 DEF Plain, Sound, ToDo, Unplaced, ToDecide, ToCreate, ToRecord
<1>3. CASE todo = <<"append", "bind", "decide">>
  BY <1>3 DEF Plain, Sound, ToDo, Unplaced, ToDecide, ToCreate
<1>4. CASE todo = <<"append", "add", "refresh", "raise">>
  BY <1>4 DEF Plain, Sound, ToDo, Unplaced, ToDecide, ToCreate
<1> QED BY <1>1, <1>2, <1>3, <1>4

LEMMA ActivityKeepsInv ==
  ASSUME Inv, NEW c \in Caller, NEW m \in Said, Activity(c, m)
  PROVE  Inv'
<1>1. Human /\ UNCHANGED <<conversationVars, approvalVars, discoveryVars>>
  BY DEF Activity, conversationVars
<1>2. PICK todo \in Route(m) :
        IF Manner[m] = "verdict"
        THEN \E i \in Requests, d \in {"approve", "reject"} :
               Goes(c, [Idle EXCEPT !.todo = todo, !.says = m, !.request = i, !.decision = d])
        ELSE Goes(c, [Idle EXCEPT !.todo = todo, !.says = m,
                                  !.task = IF HasPendingQuestion THEN linked ELSE NoOne])
  BY DEF Activity
<1>3. ThreadIsTyped /\ Idle \in Call /\ Idle.step = "start"
  BY IdleIsSound DEF Inv, Sound, Idle
<1>4. /\ todo \in {<<"append">>, ToRecord, <<"append", "bind", "decide">>,
                   <<"append", "add", "refresh", "raise">>}
      /\ todo = <<"append", "add", "refresh", "raise">> =>
           HasPendingQuestion /\ Manner[m] = "words"
      /\ todo = <<"append", "bind", "decide">> => Manner[m] = "verdict"
  BY <1>3, RouteIs
<1>5. todo \in Seq(OPERATIONS)
  <2>1. {"append", "create", "start", "add", "generate", "link", "raise", "bind", "decide",
         "refresh"} \subseteq OPERATIONS
    BY DEF OPERATIONS
  <2>2. CASE todo = <<"append">>
    BY <2>1, <2>2
  <2>3. CASE todo = ToRecord
    BY <2>1, <2>3 DEF ToRecord
  <2>4. CASE todo = <<"append", "bind", "decide">>
    BY <2>1, <2>4
  <2>5. CASE todo = <<"append", "add", "refresh", "raise">>
    BY <2>1, <2>5
  <2> QED BY <1>4, <2>2, <2>3, <2>4, <2>5
<1> USE <1>1, <1>3, <1>4, <1>5
<1>6. CASE Manner[m] = "verdict"
  <2>1. PICK i \in Requests, d \in {"approve", "reject"} :
          Goes(c, [Idle EXCEPT !.todo = todo, !.says = m, !.request = i, !.decision = d])
    BY <1>2, <1>6
  <2> DEFINE call == [Idle EXCEPT !.todo = todo, !.says = m, !.request = i, !.decision = d]
  <2>2. i \in Nat
    BY LenProperties DEF Inv, TypeOKApprovals, Requests
  <2>3. /\ call \in Call /\ call.todo = todo /\ call.step = "start" /\ call.says = m
        /\ call.request = i
    BY <2>2 DEF Call
  <2>4. Goes(c, call)
    BY <2>1
  <2>5. todo # <<"append", "add", "refresh", "raise">>
    BY <1>6
  <2> HIDE DEF call
  <2>6. Plain(call)
    BY <2>3, <2>5, SpokenIsPlain
  <2> QED BY <2>4, <2>6, HumanIsBounded, CallerMoves
<1>7. CASE Manner[m] # "verdict"
  <2> DEFINE task == IF HasPendingQuestion THEN linked ELSE NoOne
             call == [Idle EXCEPT !.todo = todo, !.says = m, !.task = task]
  <2>1. Goes(c, call)
    BY <1>2, <1>7
  <2>2. task \in Task \cup {NoOne} /\ (HasPendingQuestion => task \in Task)
    BY DEF ThreadIsTyped, HasPendingQuestion
  <2> HIDE DEF task
  <2>3. /\ call \in Call /\ call.todo = todo /\ call.step = "start" /\ call.says = m
        /\ call.task = task
    BY <2>2 DEF Call
  <2> HIDE DEF call
  <2>4. Plain(call)
    BY <1>7, <2>2, <2>3, SpokenIsPlain
  <2> QED BY <2>1, <2>4, HumanIsBounded, CallerMoves
<1> QED BY <1>6, <1>7

(* A message that nobody has seen is recorded: no task was created from it, and no other call
   is about to create one. *)
LEMMA AppendKeepsInv ==
  ASSUME Inv, NEW c \in Caller, AppendMessage(c)
  PROVE  Inv'
<1> DEFINE m == calls[c].says
           next == Advance(calls[c])
<1>1. /\ At(c, "append", "start")
      /\ UNCHANGED <<linked, origin, approvalVars, discoveryVars, bounds>>
  BY DEF AppendMessage
<1>2. /\ m \in Said /\ Sound(calls[c], Requests) /\ calls[c].todo # <<>>
      /\ calls[c].todo # ToCreate /\ Head(calls[c].todo) = "append"
  BY <1>1, CallerIs
<1>3. CASE Seen(m)
  <2>1. Fails(c) /\ UNCHANGED conversationVars
    BY <1>1, <1>3 DEF AppendMessage, conversationVars
  <2> QED BY <1>1, <2>1, IdleIsPlain, BoundsStay, CallerMoves DEF Fails
<1>4. CASE ~Seen(m)
  <2>1. messages' = Append(messages, m) /\ Goes(c, next)
    BY <1>4 DEF AppendMessage, Done
  <2>2. /\ Sound(next, Requests) /\ next.step # "gated" /\ (next.todo = ToCreate => next.says = m)
    BY <1>2, AdvanceIsSound
  <2> HIDE DEF next
  <2>3. /\ SessionsAreTyped' /\ ReadyAsksNothing' /\ Bounded'
        /\ TypeOKApprovals' /\ Keeps /\ DecidedIsClosed' /\ DecidedOnceAndDone'
    BY <1>1, SessionsStay, BoundsStay, ApprovalsStay
  <2>4. /\ messages \in Seq(Said) /\ linked \in Task \cup {NoOne}
        /\ origin \in [Task -> Said \cup {NoOne}]
    BY DEF Inv, ThreadIsTyped
  <2> DEFINE n == Len(messages) + 1
  <2>5. /\ messages' \in Seq(Said) /\ Messages' = Messages \cup {n} /\ n \notin Messages
        /\ \A i \in Messages : messages'[i] = messages[i]
        /\ messages'[n] = m
    <3>1. /\ messages' \in Seq(Said) /\ Len(messages') = Len(messages) + 1
          /\ \A i \in 1..Len(messages) : messages'[i] = messages[i]
          /\ messages'[n] = m
      BY <1>2, <2>1, <2>4, AppendProperties
    <3>2. /\ Messages = 1..Len(messages) /\ Messages' = 1..Len(messages')
          /\ Len(messages) \in Nat
      BY <2>4, <3>1, LenProperties DEF Messages
    <3> QED BY <3>1, <3>2
  <2> HIDE DEF n
  <2> DEFINE SeenNext(s) == \E i \in Messages' : messages'[i] = s
  <2>6. SeenNext(m) /\ (\A s : Seen(s) => SeenNext(s)) /\ Created' = Created
    <3>1. m = messages'[n] /\ n \in Messages'
      BY <2>5
    <3>2. ASSUME NEW s, Seen(s) PROVE SeenNext(s)
      BY <2>5, <3>2 DEF Seen
    <3>3. Created' = Created
      BY <1>1 DEF Created
    <3> QED BY <3>1, <3>2, <3>3
  <2>7. ThreadIsTyped'
    BY <1>1, <2>4, <2>5 DEF ThreadIsTyped
  <2>8. /\ calls' \in [Caller -> Call] /\ calls'[c] = next
        /\ \A d \in Caller \ {c} : calls'[d] = calls[d]
    BY <2>1, <2>2 DEF Inv, CallsAreSound, Goes, Sound
  <2>9. Requests' = Requests
    BY <1>1 DEF approvalVars, Requests
  <2>10. CallsAreSound'
    BY <2>2, <2>8, <2>9 DEF Inv, CallsAreSound
  <2>11. CreatesOnce'
    <3>1. ASSUME NEW d \in Caller, d # c, calls[d].todo = ToCreate
          PROVE  /\ Seen(calls[d].says) /\ calls[d].says # m
                 /\ \A t \in Created : origin[t] # calls[d].says
                 /\ \A e \in Caller :
                      calls[e].todo = ToCreate /\ calls[e].says = calls[d].says => e = d
      BY <1>4, <3>1 DEF Inv, CreatesOnce
    <3>2. \A t \in Created : origin[t] # m
      BY <1>4 DEF Inv, OriginsAreSeen
    <3> SUFFICES ASSUME NEW d \in Caller, calls'[d].todo = ToCreate
                 PROVE  /\ SeenNext(calls'[d].says)
                        /\ \A t \in Created' : origin'[t] # calls'[d].says
                        /\ \A e \in Caller :
                             calls'[e].todo = ToCreate /\ calls'[e].says = calls'[d].says => e = d
      BY DEF CreatesOnce, Seen
    <3> HIDE DEF SeenNext
    <3>3. CASE d = c
      <4>1. calls'[d].says = m
        BY <2>2, <2>8, <3>3
      <4> QED BY <1>1, <2>2, <2>6, <2>8, <3>1, <3>2, <3>3, <4>1
    <3>4. CASE d # c
      <4>1. calls'[d] = calls[d]
        BY <2>8, <3>4
      <4> QED BY <1>1, <2>2, <2>6, <2>8, <3>1, <3>4, <4>1
    <3> QED BY <3>3, <3>4
  <2>12. OriginsAreSeen'
    BY <1>1, <2>6 DEF Inv, OriginsAreSeen, Seen
  <2>13. ActedOnOnce'
    <3>1. \A i, j \in Messages : messages[i] = messages[j] => i = j
      BY DEF Inv, ActedOnOnce, IsInjective, Messages
    <3>2. \A i \in Messages : messages[i] # m
      BY <1>4 DEF Seen
    <3>3. \A i, j \in Messages' : messages'[i] = messages'[j] => i = j
      BY <2>5, <3>1, <3>2
    <3>4. \A t, u \in Created' : origin'[t] = origin'[u] => t = u
      BY <1>1, <2>6 DEF Inv, ActedOnOnce
    <3> QED BY <3>3, <3>4 DEF ActedOnOnce, IsInjective, Messages
  <2>14. GatedIsApproved'
    <3> SUFFICES ASSUME NEW d \in Caller, Passed(calls'[d]),
                        requests'[calls'[d].request].run # NoRun, calls'[d].decision = "approve"
                 PROVE  gate'[requests'[calls'[d].request].run] = "approved"
      BY DEF GatedIsApproved
    <3>1. d # c
      BY <2>2, <2>8 DEF Passed
    <3>2. calls'[d] = calls[d] /\ requests' = requests /\ gate' = gate
      BY <1>1, <2>8, <3>1 DEF approvalVars
    <3> QED BY <3>2 DEF Inv, GatedIsApproved
  <2> QED BY <2>3, <2>7, <2>10, <2>11, <2>12, <2>13, <2>14 DEF Inv
<1> QED BY <1>3, <1>4

(* A task is created from a message that no task and no other call is of. *)
LEMMA CreateKeepsInv ==
  ASSUME Inv, NEW c \in Caller, CreateTask(c)
  PROVE  Inv'
<1> DEFINE m == calls[c].says
<1>1. /\ At(c, "create", "start")
      /\ UNCHANGED <<linked, messages, approvalVars, discoveryVars, bounds>>
  BY DEF CreateTask
<1>2. PICK t \in Task \ Created :
        /\ origin' = [origin EXCEPT ![t] = m]
        /\ Goes(c, Advance([calls[c] EXCEPT !.task = t]))
  BY DEF CreateTask
<1> DEFINE call == [calls[c] EXCEPT !.task = t]
           next == Advance(call)
<1>3. /\ m \in Said /\ Sound(calls[c], Requests) /\ calls[c] \in Call
      /\ calls[c].todo = ToCreate /\ calls[c].todo # <<>> /\ Head(calls[c].todo) = "create"
  BY <1>1, CallerIs
<1>4. /\ call \in Call /\ call.todo = calls[c].todo /\ call.task = t /\ call.says = m
      /\ call.request = calls[c].request
  BY <1>3 DEF Call
<1> HIDE DEF call
<1>5. Sound(call, Requests)
  BY <1>3, <1>4 DEF Sound
<1>6. Sound(next, Requests) /\ next.step # "gated" /\ next.todo # ToCreate
  BY <1>3, <1>4, <1>5, AdvanceIsSound
<1>7. Goes(c, next)
  BY <1>2 DEF call
<1> HIDE DEF next
<1>8. /\ SessionsAreTyped' /\ ReadyAsksNothing' /\ Bounded'
      /\ TypeOKApprovals' /\ Keeps /\ DecidedIsClosed' /\ DecidedOnceAndDone'
  BY <1>1, SessionsStay, BoundsStay, ApprovalsStay
<1>9. /\ messages \in Seq(Said) /\ linked \in Task \cup {NoOne}
      /\ origin \in [Task -> Said \cup {NoOne}]
  BY DEF Inv, ThreadIsTyped
<1>10. /\ origin' \in [Task -> Said \cup {NoOne}] /\ origin'[t] = m
       /\ \A u \in Task \ {t} : origin'[u] = origin[u]
  BY <1>2, <1>3, <1>9
<1>11. ThreadIsTyped'
  BY <1>1, <1>9, <1>10 DEF ThreadIsTyped
<1>12. /\ calls' \in [Caller -> Call] /\ calls'[c] = next
       /\ \A d \in Caller \ {c} : calls'[d] = calls[d]
  BY <1>6, <1>7 DEF Inv, CallsAreSound, Goes, Sound
<1>13. \A u \in Created' : u = t \/ (u \in Created /\ origin'[u] = origin[u])
  BY <1>10 DEF Created
<1>14. /\ Seen(m) /\ \A u \in Created : origin[u] # m
       /\ \A d \in Caller : calls[d].todo = ToCreate /\ calls[d].says = m => d = c
  BY <1>3 DEF Inv, CreatesOnce
<1>15. CallsAreSound'
  <2>1. Requests' = Requests
    BY <1>1 DEF approvalVars, Requests
  <2> QED BY <1>6, <1>12, <2>1 DEF Inv, CallsAreSound
<1>16. CreatesOnce'
  <2> SUFFICES ASSUME NEW d \in Caller, calls'[d].todo = ToCreate
               PROVE  /\ \E i \in Messages : messages[i] = calls'[d].says
                      /\ \A u \in Created' : origin'[u] # calls'[d].says
                      /\ \A e \in Caller :
                           calls'[e].todo = ToCreate /\ calls'[e].says = calls'[d].says => e = d
    BY <1>1 DEF CreatesOnce, Seen, Messages
  <2>1. d # c /\ calls'[d] = calls[d]
    BY <1>6, <1>12
  <2>2. /\ Seen(calls[d].says) /\ calls[d].says # m
        /\ \A u \in Created : origin[u] # calls[d].says
        /\ \A e \in Caller : calls[e].todo = ToCreate /\ calls[e].says = calls[d].says => e = d
    BY <1>14, <2>1 DEF Inv, CreatesOnce
  <2> QED BY <1>6, <1>10, <1>12, <1>13, <2>1, <2>2 DEF Seen
<1>17. OriginsAreSeen'
  <2> SUFFICES ASSUME NEW u \in Created' PROVE \E i \in Messages : messages[i] = origin'[u]
    BY <1>1 DEF OriginsAreSeen, Seen, Messages
  <2> QED BY <1>10, <1>13, <1>14 DEF Inv, OriginsAreSeen, Seen
<1>18. ActedOnOnce'
  <2>1. \A u, v \in Created' : origin'[u] = origin'[v] => u = v
    BY <1>10, <1>13, <1>14 DEF Inv, ActedOnOnce
  <2> QED BY <1>1, <2>1 DEF Inv, ActedOnOnce
<1>19. GatedIsApproved'
  <2> SUFFICES ASSUME NEW d \in Caller, Passed(calls'[d]),
                      requests'[calls'[d].request].run # NoRun, calls'[d].decision = "approve"
               PROVE  gate'[requests'[calls'[d].request].run] = "approved"
    BY DEF GatedIsApproved
  <2>1. d # c
    BY <1>6, <1>12 DEF Passed
  <2>2. calls'[d] = calls[d] /\ requests' = requests /\ gate' = gate
    BY <1>1, <1>12, <2>1 DEF approvalVars
  <2> QED BY <2>2 DEF Inv, GatedIsApproved
<1> QED BY <1>8, <1>11, <1>15, <1>16, <1>17, <1>18, <1>19 DEF Inv

LEMMA LinkKeepsInv ==
  ASSUME Inv, NEW c \in Caller, LinkConversation(c)
  PROVE  Inv'
<1>1. /\ At(c, "link", "start") /\ Done(c)
      /\ linked' = IF linked = NoOne THEN calls[c].task ELSE linked
      /\ UNCHANGED <<messages, origin, approvalVars, discoveryVars, bounds>>
  BY DEF LinkConversation
<1>2. calls[c].task \in Task
  BY <1>1, CallerIs
<1>3. ThreadIsTyped'
  BY <1>1, <1>2 DEF Inv, ThreadIsTyped
<1>4. /\ SessionsAreTyped' /\ ReadyAsksNothing' /\ Bounded'
      /\ TypeOKApprovals' /\ Keeps /\ DecidedIsClosed' /\ DecidedOnceAndDone'
  BY <1>1, SessionsStay, BoundsStay, ApprovalsStay
<1>5. Plain(Advance(calls[c])) /\ Goes(c, Advance(calls[c]))
  BY <1>1, DoneIsPlain DEF Done
<1>6. CallsAreSound' /\ CreatesOnce' /\ OriginsAreSeen' /\ GatedIsApproved' /\ ActedOnOnce'
  BY <1>1, <1>4, <1>5, CallerGoes DEF Plain, Passed
<1> QED BY <1>3, <1>4, <1>6 DEF Inv

LEMMA BindKeepsInv ==
  ASSUME Inv, NEW c \in Caller, BindMessage(c)
  PROVE  Inv'
<1>1. /\ At(c, "bind", "start") /\ (Done(c) \/ Fails(c))
      /\ UNCHANGED <<conversationVars, approvalVars, discoveryVars, bounds>>
  BY DEF BindMessage
<1>2. PICK next : Plain(next) /\ Goes(c, next)
  BY <1>1, DoneIsPlain, IdleIsPlain DEF Done, Fails
<1> QED BY <1>1, <1>2, BoundsStay, CallerMoves

LEMMA FailsKeepsInv ==
  ASSUME Inv, NEW c \in Caller, CallFails(c)
  PROVE  Inv'
<1>1. /\ Fails(c) /\ faults < MaxFaults /\ faults' = faults + 1 /\ UNCHANGED inputs
      /\ UNCHANGED <<conversationVars, approvalVars, discoveryVars>>
  BY DEF CallFails
<1>2. Bounded'
  BY <1>1, DiscoveryAssumption DEF Inv, Bounded
<1> QED BY <1>1, <1>2, IdleIsPlain, CallerMoves DEF Fails

-----------------------------------------------------------------------------
(* The invariant.                                                          *)

LEMMA InitInv == Init => Inv
<1> SUFFICES ASSUME Init PROVE Inv
  OBVIOUS
<1>1. /\ session = [t \in Task |-> NoSession] /\ briefs = [t \in Task |-> <<>>]
      /\ calls = [c \in Caller |-> Idle] /\ inputs = 0 /\ faults = 0
      /\ requests = <<>> /\ gate = [r \in Run |-> "awaiting_approval"] /\ decisions = <<>>
      /\ linked = NoOne /\ messages = <<>> /\ origin = [t \in Task |-> NoOne]
  BY DEF Init, InitDiscovery, InitApprovals
<1>2. SessionsAreTyped /\ ReadyAsksNothing
  <2>1. NoSession \in Session /\ NoSession.brief = 0 /\ NoSession.question = NoOne
    BY DiscoveryAssumption DEF NoSession, Session
  <2>2. <<>> \in Seq(Brief) /\ Len(<<>>) = 0
    BY EmptySeq
  <2> HIDE DEF NoSession
  <2> QED BY <1>1, <2>1, <2>2, DiscoveryAssumption DEF SessionsAreTyped, ReadyAsksNothing
<1>3. Bounded
  BY <1>1, DiscoveryAssumption DEF Bounded
<1>4. ThreadIsTyped
  BY <1>1, EmptySeq DEF ThreadIsTyped
<1>5. TypeOKApprovals
  <2>1. <<>> \in Seq(Request) /\ <<>> \in Seq(Requests \X {"approve", "reject"}) /\ Len(<<>>) = 0
    BY EmptySeq
  <2> QED BY <1>1, <2>1, ApprovalsAssumption DEF TypeOKApprovals
<1>6. \A c \in Caller : Sound(calls[c], Requests) /\ calls[c].todo = <<>>
  BY <1>1, IdleIsSound
<1>7. CallsAreSound
  BY <1>1, <1>6, IdleIsSound DEF CallsAreSound, Sound
<1>8. CreatesOnce /\ GatedIsApproved
  <2>1. <<>> # ToCreate
    BY DEF ToCreate
  <2>2. \A c \in Caller : calls[c].todo # ToCreate /\ ~Passed(calls[c])
    BY <1>6, <2>1 DEF Passed
  <2> QED BY <2>2 DEF CreatesOnce, GatedIsApproved
<1>9. OriginsAreSeen /\ ActedOnOnce
  <2>1. Created = {}
    BY <1>1 DEF Created
  <2> QED BY <1>1, <2>1 DEF OriginsAreSeen, ActedOnOnce, IsInjective
<1>10. DecidedIsClosed /\ DecidedOnceAndDone
  BY <1>1 DEF DecidedIsClosed, DecidedOnceAndDone
<1> QED BY <1>2, <1>3, <1>4, <1>5, <1>7, <1>8, <1>9, <1>10 DEF Inv

LEMMA StutterKeepsInv == Inv /\ UNCHANGED vars => Inv'
<1> SUFFICES ASSUME Inv, UNCHANGED vars PROVE Inv'
  OBVIOUS
<1>1. /\ UNCHANGED <<conversationVars, approvalVars, discoveryVars, bounds>> /\ UNCHANGED calls
  BY DEF vars
<1>2. SessionsAreTyped' /\ ReadyAsksNothing' /\ Bounded'
  BY <1>1, SessionsStay, BoundsStay
<1> QED BY <1>1, <1>2, PageWrites

LEMMA NextInv == Inv /\ [Next]_vars => Inv'
<1> SUFFICES ASSUME Inv, [Next]_vars PROVE Inv'
  OBVIOUS
<1>1. ASSUME NEW c \in Caller, NEW m \in Said, Activity(c, m) PROVE Inv'
  BY <1>1, ActivityKeepsInv
<1>2. ASSUME NEW c \in Caller, TurnStep(c) PROVE Inv'
  BY <1>2, AppendKeepsInv, CreateKeepsInv, LinkKeepsInv, BindKeepsInv DEF TurnStep
<1>3. ASSUME NEW c \in Caller, DiscoveryStep(c), UNCHANGED <<conversationVars, approvalVars>>
      PROVE  Inv'
  BY <1>3, StartKeepsInv, AddReadsKeepsInv, AddAnswersKeepsInv, AddWritesKeepsInv,
     GenerateReadsKeepsInv, GenerateWritesKeepsInv, RefreshReadsKeepsInv, RefreshWritesKeepsInv
     DEF DiscoveryStep
<1>4. ASSUME NEW c \in Caller, ApprovalStep(c), UNCHANGED conversationVars PROVE Inv'
  BY <1>4, RaiseSkipsKeepsInv, RaiseReadsKeepsInv, RaiseCommitsKeepsInv, DecideReadsKeepsInv,
     DecideGatesKeepsInv, DecideRecordsKeepsInv DEF ApprovalStep
<1>5. ASSUME NEW c \in Caller, CallFails(c) PROVE Inv'
  BY <1>5, FailsKeepsInv
<1>6. ASSUME PageStep, UNCHANGED <<conversationVars, approvalVars>> PROVE Inv'
  <2>1. ASSUME NEW c \in Caller, NEW t \in Task, NEW m \in Typed,
               \/ DiscoveryRequest(c, t, m, <<"add">>)
               \/ DiscoveryRequest(c, t, m, <<"add", "generate">>)
        PROVE  Inv'
    BY <1>6, <2>1, DiscoveryRequestKeepsInv
  <2>2. ASSUME NEW c \in Caller, NEW t \in Task, DiscoveryRequest(c, t, NoOne, <<"generate">>)
        PROVE  Inv'
    BY <1>6, <2>2, DiscoveryRequestKeepsInv
  <2>3. ASSUME NEW t \in Task, NEW v \in 1..MaxBriefs, NEW d \in Dimension,
               AnswerBriefQuestion(t, v, d) \/ UpdateBrief(t, v, d)
        PROVE  Inv'
    BY <1>6, <2>3, AnswerKeepsInv, UpdateKeepsInv
  <2>4. ASSUME NEW t \in Task, CloseDiscovery(t) PROVE Inv'
    BY <1>6, <2>4, CloseKeepsInv
  <2> QED BY <1>6, <2>1, <2>2, <2>3, <2>4 DEF PageStep
<1>7. ASSUME ApprovalPage, UNCHANGED conversationVars PROVE Inv'
  <2>1. ASSUME NEW c \in Caller, NEW t \in Task, NEW subject \in {"brief", "run"},
               RaiseRequest(c, t, subject)
        PROVE  Inv'
    BY <1>7, <2>1, RaiseRequestKeepsInv
  <2>2. ASSUME NEW c \in Caller, NEW i \in Requests, NEW d \in {"approve", "reject"},
               DecisionRequest(c, i, d)
        PROVE  Inv'
    BY <1>7, <2>2, DecisionRequestKeepsInv
  <2>3. ASSUME NEW i \in Requests, RequestExpires(i) PROVE Inv'
    BY <1>7, <2>3, ExpiresKeepsInv
  <2>4. ASSUME NEW r \in Run, NEW to \in {"approved", "awaiting_approval"}, RunPage(r, to)
        PROVE  Inv'
    BY <1>7, <2>4, RunPageKeepsInv
  <2> QED BY <1>7, <2>1, <2>2, <2>3, <2>4, ExpireKeepsInv DEF ApprovalPage
<1> QED BY <1>1, <1>2, <1>3, <1>4, <1>5, <1>6, <1>7, StutterKeepsInv DEF Next, CallStep

LEMMA Invariance == Spec => []Inv
BY InitInv, NextInv, PTL DEF Spec

-----------------------------------------------------------------------------
(* The theorems.                                                           *)

(* The state of the conversations, the briefs and the approval requests is always of its
   type, whatever the callers interleave. *)
THEOREM TypeCorrect == Spec => []TypeOK
<1>1. Inv => TypeOK
  <2> SUFFICES ASSUME Inv PROVE TypeOK
    OBVIOUS
  <2>1. TypeOKDiscovery
    BY DEF Inv, SessionsAreTyped, CallsAreSound, Bounded, TypeOKDiscovery
  <2> QED BY <2>1 DEF Inv, ThreadIsTyped, TypeOK
<1> QED BY <1>1, Invariance, PTL

(* However often and to however many callers a message is delivered, it is in the thread once
   and one task at most comes of it. *)
THEOREM MessagesAreActedOnOnce == Spec => []ActedOnOnce
<1>1. Inv => ActedOnOnce
  BY DEF Inv
<1> QED BY <1>1, Invariance, PTL

(* Of those who decide a request one is recorded, and by then the gate of the run is open if
   they approved. *)
THEOREM DecisionsAreDone == Spec => []DecidedOnceAndDone
<1>1. Inv => DecidedOnceAndDone
  BY DEF Inv
<1> QED BY <1>1, Invariance, PTL

(* None of the writers of a session leaves it ready with a question. *)
THEOREM ReadyIsDone == Spec => []ReadyAsksNothing
<1>1. Inv => ReadyAsksNothing
  BY DEF Inv
<1> QED BY <1>1, Invariance, PTL
=============================================================================
