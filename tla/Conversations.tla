--------------------------- MODULE Conversations ---------------------------
(***************************************************************************)
(* Conversations (services/conversations.ts, conversation-turns.ts,        *)
(* teams/inbound.ts, domain/message-intent.ts): a Teams                    *)
(* thread in which people give Mac work, answer his questions and decide   *)
(* his approval requests, and in which he is answered at most once.        *)
(*                                                                         *)
(* A turn records a message and then carries it out through discovery and  *)
(* the approval requests, one transaction after the other.  Teams is       *)
(* external: it redelivers what it thinks was lost.                        *)
(***************************************************************************)
EXTENDS Approvals

CONSTANTS
  Manner,       \* what each message is: work, words, verdict or other
  Authorised    \* the messages of authorised identities

ASSUME ConversationsAssumption ==
  /\ Manner \in [Said -> {"work", "words", "verdict", "other"}]
  /\ Authorised \subseteq Said

VARIABLES
  linked,      \* conversations.task_id
  messages,    \* the inbound conversation_messages, by seq
  origin       \* the message each task was created from

conversationVars == <<linked, messages, origin>>
vars == <<conversationVars, approvalVars, discoveryVars, calls, bounds>>

Messages == DOMAIN messages
Created == {t \in Task : origin[t] # NoOne}

TypeOK ==
  /\ TypeOKDiscovery /\ TypeOKApprovals
  /\ linked \in Task \cup {NoOne}
  /\ messages \in Seq(Said)
  /\ origin \in [Task -> Said \cup {NoOne}]

Init ==
  /\ InitDiscovery /\ InitApprovals
  /\ linked = NoOne /\ messages = <<>>
  /\ origin = [t \in Task |-> NoOne]

-----------------------------------------------------------------------------
(* A turn: read the context, classify, record, route.                      *)

(* pendingForConversation: the task's, or everybody's in a thread without a task. *)
PendingHere ==
  {i \in Requests : requests[i].state = "pending"
                    /\ (linked # NoOne => requests[i].task = linked)}

HasPendingQuestion == linked # NoOne /\ session[linked].question # NoOne

(* classifyMessageIntent and route: what a message makes the turn do once it is recorded. *)
Route(m) ==
  LET consequential == Manner[m] \in {"work", "verdict"}
                       \/ (Manner[m] = "words" /\ HasPendingQuestion)
  IN IF consequential /\ m \notin Authorised THEN {<<"append">>}
     ELSE CASE Manner[m] = "work" ->
                 {<<"append">>,
                  <<"append", "create", "start", "add", "generate", "link", "raise">>}
            [] Manner[m] = "verdict" -> {<<"append", "bind", "decide">>}
            [] Manner[m] = "words" /\ HasPendingQuestion ->
                 {<<"append", "add", "refresh", "raise">>}
            [] OTHER -> {<<"append">>}

(* handleTeamsActivity and handleInboundTurn, up to the append.  The route is chosen from
   what is read here; a person names a request that exists. *)
Activity(c, m) ==
  /\ Human
  /\ IsIdle(c)
  /\ \E todo \in Route(m) :
       IF Manner[m] = "verdict"
       THEN \E i \in Requests, d \in {"approve", "reject"} :
              Goes(c, [Idle EXCEPT !.todo = todo, !.says = m, !.request = i, !.decision = d])
       ELSE Goes(c, [Idle EXCEPT !.todo = todo, !.says = m,
                                 !.task = IF HasPendingQuestion THEN linked ELSE NoOne])
  /\ UNCHANGED <<linked, messages, origin, approvalVars, discoveryVars>>

NeverSeen(m) ==  \* mutant: no unique index on (channel, external_message_id)
  FALSE
Seen(m) == \E i \in Messages : messages[i] = m

(* appendMessage: a message seen before ends the turn. *)
AppendMessage(c) ==
  /\ At(c, "append", "start")
  /\ LET m == calls[c].says IN
     IF Seen(m) THEN Fails(c) /\ UNCHANGED messages
     ELSE messages' = Append(messages, m) /\ Done(c)
  /\ UNCHANGED <<linked, origin, approvalVars, discoveryVars, bounds>>

(* createTask. *)
CreateTask(c) ==
  /\ At(c, "create", "start")
  /\ \E t \in Task \ Created :
       /\ origin' = [origin EXCEPT ![t] = calls[c].says]
       /\ Goes(c, Advance([calls[c] EXCEPT !.task = t]))
  /\ UNCHANGED <<linked, messages, approvalVars, discoveryVars, bounds>>

(* linkConversationToTask, of the row as it was read: a thread is linked once. *)
LinkConversation(c) ==
  /\ At(c, "link", "start")
  /\ linked' = IF linked = NoOne THEN calls[c].task ELSE linked
  /\ Done(c)
  /\ UNCHANGED <<messages, origin, approvalVars, discoveryVars, bounds>>

(* bindMessageToApproval: a code or a card, never a bare word. *)
BindMessage(c) ==
  /\ At(c, "bind", "start")
  /\ IF calls[c].request \in PendingHere THEN Done(c) ELSE Fails(c)
  /\ UNCHANGED <<conversationVars, approvalVars, discoveryVars, bounds>>

-----------------------------------------------------------------------------
(* Failures.                                                               *)

(* A call throws or its process dies between two steps; a transaction leaves nothing. *)
CallFails(c) ==
  /\ ~IsIdle(c)
  /\ faults < MaxFaults /\ faults' = faults + 1 /\ UNCHANGED inputs
  /\ Fails(c)
  /\ UNCHANGED <<conversationVars, approvalVars, discoveryVars>>

-----------------------------------------------------------------------------

TurnStep(c) ==
  \/ AppendMessage(c) \/ CreateTask(c) \/ LinkConversation(c) \/ BindMessage(c)

CallStep(c) ==
  \/ TurnStep(c)
  \/ DiscoveryStep(c) /\ UNCHANGED <<conversationVars, approvalVars>>
  \/ ApprovalStep(c) /\ UNCHANGED conversationVars

Next ==
  \/ \E c \in Caller, m \in Said : Activity(c, m)
  \/ \E c \in Caller : CallStep(c) \/ CallFails(c)
  \/ PageStep /\ UNCHANGED <<conversationVars, approvalVars>>
  \/ ApprovalPage /\ UNCHANGED conversationVars

Spec == Init /\ [][Next]_vars

-----------------------------------------------------------------------------
(* Properties.                                                             *)

(* However often Teams delivers a message, and whoever is serving it at the time, it is in
   the thread once and at most one task comes of it (appendMessage's unique index). *)
ActedOnOnce ==
  /\ IsInjective(messages)
  /\ \A t, u \in Created : origin[t] = origin[u] => t = u

(* A request is decided once, by one of those who try, and what was decided about a run
   has been done to the run by then: nobody is told of an approval the gate did not give
   (decideApprovalRequest passes the gate first and then asks whether it is still pending). *)
DecidedOnceAndDone ==
  /\ \A j, k \in DOMAIN decisions : decisions[j][1] = decisions[k][1] => j = k
  /\ \A k \in DOMAIN decisions :
       LET r == requests[decisions[k][1]] IN
       r.run # NoRun /\ decisions[k][2] = "approve" => gate[r.run] = "approved"

(* A session that is ready asks nothing, whoever wrote it last: the page's brief, the
   answer in the thread or the human who closed it (three writers of one row, none of
   which looks at it again before writing). *)
ReadyAsksNothing ==
  \A t \in Task : session[t].status = "ready" => session[t].question = NoOne
=============================================================================
