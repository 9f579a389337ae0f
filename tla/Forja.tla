------------------------------- MODULE Forja -------------------------------
(***************************************************************************)
(* The Forja plane and the event log (services/forja.ts, services/         *)
(* events.ts, http/routes/forja.ts, protocol/forja.ts): an orchestration   *)
(* platform writes on behalf of people, and follows what happens in Mac by *)
(* a cursor over a table whose sequence numbers are handed out before the  *)
(* transactions that write them commit.                                    *)
(*                                                                         *)
(* A change and its event are one transaction, of four statements: the     *)
(* change, the event with its number, the deliveries it is queued for, the *)
(* commit.  What a change does beyond that, and the projections Forja may  *)
(* read, are left to the modules of what is changed.  Forja itself is      *)
(* external: it polls, handles what it gets, and stores its cursor.        *)
(***************************************************************************)
EXTENDS Naturals, Sequences, FiniteSets, FiniteSetsExt

CONSTANTS
  Client,      \* Forja clients
  Grants,      \* the sets of scopes a client may be created with
  Hooked,      \* the clients created with a webhook
  Wants,       \* the types each asks for when it polls
  Web,         \* sessions of Mac's own pages and sweeps
  WebTypes,    \* the types of their changes
  Person,      \* users
  Approval,    \* approval requests
  Nobody,      \* no person, no approval
  Limit,       \* events of one page
  MaxEvents,   \* bound: sequence numbers
  MaxLost      \* bound: replies to polls that are lost

SCOPES == {"read", "write", "approve", "events"}
TYPES == {"task_created", "discovery_started", "conversation_message", "approval_required",
          "approval_decided"}

ASSUME ForjaAssumption ==
  /\ Grants \subseteq SUBSET SCOPES /\ Hooked \subseteq Client
  /\ Wants \in [Client -> SUBSET TYPES] /\ WebTypes \subseteq TYPES
  /\ Client \cap Web = {} /\ Nobody \notin Person \cup Approval
  /\ Limit \in Nat \ {0} /\ MaxEvents \in Nat /\ MaxLost \in Nat

VARIABLES
  enabled,     \* settings.forjaEnabled
  clients,     \* forja_clients: state, scopes, and the last sequence number at creation
  active,      \* users.is_active
  approvals,   \* approval_requests.state
  done,        \* committed changes of each type
  log,         \* mac_events, committed
  seq,         \* last value of mac_events_seq
  deliveries,  \* event_deliveries: <<client, seq>>
  calls,       \* the write each client has under way
  open,        \* the transaction each client's write, or web session, has open
  polls,       \* the poll each client has under way
  cursor,      \* Forja's stored cursor
  received,    \* what Forja has handled
  shown,       \* history: highest number the server has answered a client with
  lost         \* replies to polls that were lost

planeVars == <<enabled, clients, active>>
dataVars == <<approvals, done, log, seq, deliveries>>
consumerVars == <<polls, cursor, received, shown, lost>>
forjaVars == <<planeVars, dataVars, calls, open, consumerVars>>

Party == Client \cup Web

Event ==
  [seq : 1..MaxEvents, type : TYPES, about : Approval \cup {Nobody}, by : Person \cup {Nobody},
   via : Party, late : SUBSET Client]

Operation == {"tasks", "messages", "approvals", "decision"}

NoCall == [by |-> Nobody, about |-> Nobody, todo |-> <<>>]
NoChange == [step |-> "none", type |-> "task_created", about |-> Nobody, by |-> Nobody, seq |-> 0,
             queued |-> {}]
NoPoll == [step |-> "none", events |-> {}]

TypeOKForja ==
  /\ enabled \in BOOLEAN
  /\ clients \in [Client -> [state : {"none", "active", "revoked"}, scopes : SUBSET SCOPES,
                         since : 0..MaxEvents]]
  /\ active \in [Person -> BOOLEAN]
  /\ approvals \in [Approval -> {"none", "pending", "decided"}]
  /\ done \in [TYPES -> 0..MaxEvents]
  /\ log \subseteq Event /\ seq \in 0..MaxEvents
  /\ deliveries \subseteq Client \X (1..MaxEvents)
  /\ \A c \in Client :
       /\ calls[c].by \in Person \cup {Nobody} /\ calls[c].about \in Approval \cup {Nobody}
       /\ calls[c].todo \in Seq(TYPES)
       /\ polls[c].step \in {"none", "waiting", "replied", "handled"}
       /\ polls[c].events \subseteq log /\ Cardinality(polls[c].events) <= Limit
  /\ open \in [Party -> [step : {"none", "changed", "emitted", "queued"}, type : TYPES,
                         about : Approval \cup {Nobody}, by : Person \cup {Nobody},
                         seq : 0..MaxEvents, queued : SUBSET Client]]
  /\ cursor \in [Client -> 0..MaxEvents] /\ shown \in [Client -> 0..MaxEvents]
  /\ received \in [Client -> SUBSET (1..MaxEvents)]
  /\ lost \in 0..MaxLost

InitForja ==
  /\ enabled = FALSE
  /\ clients = [c \in Client |-> [state |-> "none", scopes |-> {}, since |-> 0]]
  /\ active = [p \in Person |-> TRUE]
  /\ approvals = [a \in Approval |-> "none"]
  /\ done = [type \in TYPES |-> 0] /\ log = {} /\ seq = 0 /\ deliveries = {}
  /\ calls = [c \in Client |-> NoCall]
  /\ open = [p \in Party |-> NoChange]
  /\ polls = [c \in Client |-> NoPoll]
  /\ cursor = [c \in Client |-> 0] /\ received = [c \in Client |-> {}]
  /\ shown = [c \in Client |-> 0] /\ lost = 0

-----------------------------------------------------------------------------
(* Administration.                                                         *)

SetEnabled ==
  /\ enabled' = ~enabled
  /\ UNCHANGED <<clients, active, dataVars, calls, open, consumerVars>>

CreateForjaClient(c, scopes) ==
  /\ clients[c].state = "none"
  /\ clients' = [clients EXCEPT ![c] = [state |-> "active", scopes |-> scopes, since |-> seq]]
  /\ UNCHANGED <<enabled, active, dataVars, calls, open, consumerVars>>

RevokeForjaClient(c) ==
  /\ clients[c].state = "active"
  /\ clients' = [clients EXCEPT ![c].state = "revoked"]
  /\ UNCHANGED <<enabled, active, dataVars, calls, open, consumerVars>>

SetActive(p) ==
  /\ active' = [active EXCEPT ![p] = ~@]
  /\ UNCHANGED <<enabled, clients, dataVars, calls, open, consumerVars>>

-----------------------------------------------------------------------------
(* A write of Forja's.                                                     *)

ScopeFor(op) == IF op = "decision" THEN "approve" ELSE "write"

(* The hook of the plane, and the scope: read once, when the request comes in. *)
AuthenticateForja(c) == enabled /\ clients[c].state = "active"

RequireScope(c, op) == ScopeFor(op) \in clients[c].scopes

(* The transactions an operation makes, one after another. *)
Todo(op) ==
  CASE op = "tasks" -> {<<"task_created">>, <<"task_created", "discovery_started">>}
    [] op = "messages" -> {<<"conversation_message">>}
    [] op = "approvals" -> {<<"approval_required">>}
    [] op = "decision" -> {<<"approval_decided">>}

(* The person named has to be an active user; nothing is written on the way there. *)
ResolveOnBehalfOf(person) == active[person]

Write(c, op, person, about) ==
  /\ calls[c] = NoCall
  /\ AuthenticateForja(c) /\ RequireScope(c, op) /\ ResolveOnBehalfOf(person)
  /\ (about # Nobody) = (op \in {"approvals", "decision"})
  /\ \E todo \in Todo(op) : calls' = [calls EXCEPT ![c] = [by |-> person, about |-> about, todo |-> todo]]
  /\ UNCHANGED <<planeVars, dataVars, open, consumerVars>>

-----------------------------------------------------------------------------
(* A change and its event.                                                 *)

(* An update waits for the row another transaction has changed. *)
Locked(about) == about # Nobody /\ \E p \in Party : open[p].step # "none" /\ open[p].about = about

(* decideApprovalRequest asks for the state again in the update. *)
Applies(type, about) ==
  CASE type = "approval_required" -> approvals[about] = "none"
    [] type = "approval_decided" -> approvals[about] = "pending"
    [] OTHER -> TRUE

Opens(p, type, about, by) ==
  /\ open[p].step = "none" /\ ~Locked(about)
  /\ seq < MaxEvents
  /\ open' = [open EXCEPT ![p] = [step |-> "changed", type |-> type, about |-> about, by |-> by,
                                  seq |-> 0, queued |-> {}]]
  /\ UNCHANGED <<planeVars, dataVars, calls, consumerVars>>

ForjaChanges(c) ==
  /\ calls[c].todo # <<>>
  /\ LET type == Head(calls[c].todo) IN
     Applies(type, calls[c].about) /\ Opens(c, type, calls[c].about, calls[c].by)

(* The same services, from Mac's pages or by Mac himself. *)
WebChanges(w, type, about) ==
  /\ (about # Nobody) = (type \in {"approval_required", "approval_decided"})
  /\ Applies(type, about)
  /\ Opens(w, type, about, Nobody)

(* The service refuses: what the write has done so far stays. *)
Refuses(c) ==
  /\ calls[c].todo # <<>> /\ open[c].step = "none"
  /\ calls' = [calls EXCEPT ![c] = NoCall]
  /\ UNCHANGED <<planeVars, dataVars, open, consumerVars>>

EventOf(p, n) ==
  [seq |-> n, type |-> open[p].type, about |-> open[p].about, by |-> open[p].by, via |-> p,
   late |-> {c \in Client : shown[c] >= n}]

EmitStandalone(p) ==  \* mutant: the event is written on a connection of its own
  /\ open[p].step = "changed" /\ seq < MaxEvents
  /\ seq' = seq + 1
  /\ open' = [open EXCEPT ![p].step = "emitted", ![p].seq = seq + 1]
  /\ log' = log \cup {EventOf(p, seq + 1)}
  /\ UNCHANGED <<planeVars, approvals, done, deliveries, calls, consumerVars>>

(* A sequence is not part of the transaction: its number is taken for good. *)
Emit(p) ==
  /\ open[p].step = "changed" /\ seq < MaxEvents
  /\ seq' = seq + 1
  /\ open' = [open EXCEPT ![p].step = "emitted", ![p].seq = seq + 1]
  /\ UNCHANGED <<planeVars, approvals, done, log, deliveries, calls, consumerVars>>

Subscribers == {c \in Hooked : clients[c].state = "active"}

Queue(p) ==
  /\ open[p].step = "emitted"
  /\ open' = [open EXCEPT ![p].step = "queued", ![p].queued = Subscribers]
  /\ UNCHANGED <<planeVars, dataVars, calls, consumerVars>>

Commit(p) ==
  /\ open[p].step = "queued"
  /\ LET change == open[p] IN
     /\ done' = [done EXCEPT ![change.type] = @ + 1]
     /\ approvals' = CASE change.type = "approval_required" -> [approvals EXCEPT ![change.about] = "pending"]
                       [] change.type = "approval_decided" -> [approvals EXCEPT ![change.about] = "decided"]
                       [] OTHER -> approvals
     /\ log' = log \cup {EventOf(p, change.seq)}
     /\ deliveries' = deliveries \cup (change.queued \X {change.seq})
  /\ open' = [open EXCEPT ![p] = NoChange]
  /\ LET call == calls[p] IN
     calls' = IF p \notin Client THEN calls
              ELSE [calls EXCEPT ![p] = IF Len(call.todo) = 1 THEN NoCall
                                        ELSE [call EXCEPT !.todo = Tail(@)]]
  /\ UNCHANGED <<planeVars, seq, consumerVars>>

(* An error, or the end of the process. *)
RollBack(p) ==
  /\ open[p].step # "none"
  /\ open' = [open EXCEPT ![p] = NoChange]
  /\ calls' = IF p \in Client THEN [calls EXCEPT ![p] = NoCall] ELSE calls
  /\ UNCHANGED <<planeVars, dataVars, consumerVars>>

-----------------------------------------------------------------------------
(* Following the log.                                                      *)

PollStarts(c) ==
  /\ polls[c].step = "none"
  /\ AuthenticateForja(c) /\ "events" \in clients[c].scopes
  /\ polls' = [polls EXCEPT ![c].step = "waiting"]
  /\ UNCHANGED <<planeVars, dataVars, calls, open, cursor, received, shown, lost>>

After(c) == {e \in log : e.seq > cursor[c] /\ e.type \in Wants[c]}

Unlimited(c) ==  \* mutant: the page has no limit
  After(c)

Unordered(c) ==  \* mutant: the page is not of the first events
  {e \in After(c) : Cardinality({f \in After(c) : f.seq > e.seq}) < Limit}

ReadEvents(c) == {e \in After(c) : Cardinality({f \in After(c) : f.seq < e.seq}) < Limit}

Numbers(events) == {e.seq : e \in events}

(* Nothing within the wait is an empty page. *)
WaitForEvents(c) ==
  /\ polls[c].step = "waiting"
  /\ polls' = [polls EXCEPT ![c] = [step |-> "replied", events |-> ReadEvents(c)]]
  /\ shown' = [shown EXCEPT ![c] = Max({@} \cup Numbers(ReadEvents(c)))]
  /\ UNCHANGED <<planeVars, dataVars, calls, open, cursor, received, lost>>

Handles(c) ==
  /\ polls[c].step = "replied"
  /\ received' = [received EXCEPT ![c] = @ \cup Numbers(polls[c].events)]
  /\ polls' = [polls EXCEPT ![c].step = "handled"]
  /\ UNCHANGED <<planeVars, dataVars, calls, open, cursor, shown, lost>>

StaysWhereItWas(c) ==  \* mutant: the page answers with the cursor it was asked with
  cursor[c]

NextCursor(c) == Max({cursor[c]} \cup Numbers(polls[c].events))

StoresCursor(c) ==
  /\ polls[c].step = "handled"
  /\ cursor' = [cursor EXCEPT ![c] = NextCursor(c)]
  /\ polls' = [polls EXCEPT ![c] = NoPoll]
  /\ UNCHANGED <<planeVars, dataVars, calls, open, received, shown, lost>>

(* The reply is lost, or Forja fails before it stores its cursor. *)
LosesPoll(c) ==
  /\ polls[c].step # "none" /\ lost < MaxLost
  /\ polls' = [polls EXCEPT ![c] = NoPoll]
  /\ lost' = lost + 1
  /\ UNCHANGED <<planeVars, dataVars, calls, open, cursor, received, shown>>

(* A new consumer starts at the head, and wants nothing of what is before it. *)
LatestEventSeq == Max({0} \cup Numbers(log))

StartsAtHead(c) ==
  /\ polls[c].step = "none" /\ cursor[c] = 0 /\ received[c] = {}
  /\ AuthenticateForja(c) /\ "events" \in clients[c].scopes
  /\ cursor' = [cursor EXCEPT ![c] = LatestEventSeq]
  /\ shown' = [shown EXCEPT ![c] = LatestEventSeq]
  /\ received' = [received EXCEPT ![c] = Numbers(log)]
  /\ UNCHANGED <<planeVars, dataVars, calls, open, polls, lost>>

-----------------------------------------------------------------------------
Follows(c) == PollStarts(c) \/ WaitForEvents(c) \/ Handles(c) \/ StoresCursor(c)

NextForja ==
  \/ SetEnabled
  \/ \E p \in Person : SetActive(p)
  \/ \E c \in Client :
       \/ \E scopes \in Grants : CreateForjaClient(c, scopes)
       \/ RevokeForjaClient(c)
       \/ \E op \in Operation, person \in Person, about \in Approval \cup {Nobody} :
            Write(c, op, person, about)
       \/ ForjaChanges(c) \/ Refuses(c)
       \/ Follows(c) \/ LosesPoll(c) \/ StartsAtHead(c)
  \/ \E w \in Web, type \in WebTypes, about \in Approval \cup {Nobody} : WebChanges(w, type, about)
  \/ \E p \in Party : Emit(p) \/ Queue(p) \/ Commit(p) \/ RollBack(p)

(* Forja keeps polling, and handles and stores what it gets. *)
Fairness ==
  \A c \in Client : WF_forjaVars(PollStarts(c)) /\ WF_forjaVars(WaitForEvents(c)) /\ WF_forjaVars(Handles(c))
                    /\ WF_forjaVars(StoresCursor(c))

SpecForja == InitForja /\ [][NextForja]_forjaVars /\ Fairness

-----------------------------------------------------------------------------
(* Properties.                                                             *)

(* Whatever transactions overlap, fail or are refused: there is one event for each change that
   committed and none for any other, however many try to decide the same request it is decided
   at most once, a write of Forja's names a person and is within its client's scopes, and an
   event is queued for every client with a webhook that was there before it and still is
   (events.ts, emit: "commits with the state change it announces, or rolls back with it"). *)
EventsTellTheTruth ==
  /\ \A type \in TYPES : Cardinality({e \in log : e.type = type}) = done[type]
  /\ \A a \in Approval :
       Cardinality({e \in log : e.type = "approval_decided" /\ e.about = a}) =
         (IF approvals[a] = "decided" THEN 1 ELSE 0)
  /\ \A e \in log : e.via \in Client =>
       /\ e.by \in Person
       /\ (IF e.type = "approval_decided" THEN "approve" ELSE "write") \in clients[e.via].scopes
  /\ \A d \in deliveries : d[2] \in Numbers(log)
  /\ \A c \in Hooked, e \in log :
       clients[c].state = "active" /\ e.seq > clients[c].since => <<c, e.seq>> \in deliveries

Wanted(c, e) == e.type \in Wants[c]

(* What Forja's cursor has passed it has handled, through lost replies and failures between
   handling and storing, but for events that committed after a later one had been read. *)
SkipsOnlyLate ==
  \A c \in Client : \A e \in log :
    Wanted(c, e) /\ e.seq <= cursor[c] /\ e.seq \notin received[c] => c \in e.late

(* Together: the log says what happened, and what Forja has passed it has seen. *)
FeedIsFaithful == EventsTellTheTruth /\ SkipsOnlyLate

(* An event that is in the log is handled, or passed, by every client that goes on polling. *)
NoEventIsForgotten ==
  \A c \in Client : \A n \in 1..MaxEvents :
    (\E e \in log : e.seq = n /\ Wanted(c, e) /\ "events" \in clients[c].scopes)
      ~> \/ n \in received[c] \/ n <= cursor[c]
         \/ ~AuthenticateForja(c)
=============================================================================
