------------------------------ MODULE Outboxes ------------------------------
(***************************************************************************)
(* The three outboxes (services/mail/delivery.ts, monday/outbox.ts,        *)
(* notifications.ts): rows that say what is to be sent, drained by a       *)
(* timer's sweep and by whoever else delivers.  A sweep reads a batch and  *)
(* then works through it, so what it acts on may be old.                   *)
(*                                                                         *)
(* Mail is claimed by compare-and-swap, a write to a monday.com board by   *)
(* an update of whatever is there, a Teams message not at all.  The        *)
(* provider is external: it accepts, refuses, or accepts and is not heard. *)
(* Backoff is how long a failed row waits; here it waits as long as it     *)
(* likes.                                                                  *)
(***************************************************************************)
EXTENDS Naturals, Sequences, FiniteSets

(* The writes to a board, and those that set one of its columns. *)
KINDS == {"in_progress", "update", "ready_for_review"}
ColumnKinds == KINDS \ {"update"}

CONSTANTS
  Sender,        \* processes that deliver
  Traffic,       \* how many rows of each outbox a behaviour may queue, and
                 \* how many of its senders may die half way
  MaxAttempts,   \* EMAIL_MAX_ATTEMPTS, MAX_ATTEMPTS, MAX_DELIVERY_ATTEMPTS
  MaxRetries,    \* bound: operator retries of one email
  MaxRows,       \* bound: rows of an outbox
  MaxToggles     \* bound: approvals and revocations of the board

ASSUME OutboxesAssumption ==
  /\ Traffic \subseteq [mail : Nat, writes : Seq(KINDS), talk : Nat, requests : Nat, faults : Nat]
  /\ IsFiniteSet(Sender) /\ MaxAttempts \in Nat \ {0}
  /\ MaxRetries \in Nat /\ MaxRows \in Nat /\ MaxToggles \in Nat

VARIABLES
  mail,       \* email_deliveries, and what the provider made of them
  writes,     \* monday_writes, by created_at
  board,      \* the board: its approval, and the status its item shows
  messages,   \* the outbound conversation_messages, by seq
  requests,   \* the approval requests of the thread's task
  sender,     \* what each sender is doing
  traffic,    \* what may still be queued, and how many senders may still die
  toggles     \* counter of the bound

rowVars == <<mail, writes, board, messages, requests>>
outboxVars == <<rowVars, sender, traffic, toggles>>

-----------------------------------------------------------------------------
(* Rows and senders.                                                       *)

Outcomes == {"accepted", "unheard", "retryable", "permanent", "refused"}

MailRow == [status : {"pending", "sending", "sent", "failed", "dead"}, attempts : 0..MaxAttempts,
            to : BOOLEAN, copies : Nat, unheard : Nat, retries : 0..MaxRetries]
WriteRow == [kind : KINDS,
             status : {"pending", "sending", "delivered", "failed", "refused", "dead"},
             attempts : 0..MaxAttempts]
MessageRow == [state : {"pending", "sent", "failed", "dead"}, attempts : Nat, request : Nat]
RequestRow == [pending : BOOLEAN, told : BOOLEAN]

(* One row of a batch, as it was read. *)
Read == [row : Nat, attempts : Nat, approved : BOOLEAN]
Senders == [outbox : {"none", "mail", "writes", "messages", "approval"}, batch : SUBSET Read,
            step : {"start", "claimed", "answered", "told"}, outcome : Outcomes, request : Nat]
Resting == [outbox |-> "none", batch |-> {}, step |-> "start", outcome |-> "accepted",
            request |-> 0]

TypeOKOutboxes ==
  /\ mail \in Seq(MailRow) /\ writes \in Seq(WriteRow)
  /\ board \in [approved : BOOLEAN, shows : {"none", "in_progress", "ready_for_review"}]
  /\ messages \in Seq(MessageRow) /\ requests \in Seq(RequestRow)
  /\ sender \in [Sender -> Senders]
  /\ traffic \in [mail : Nat, writes : Seq(KINDS), talk : Nat, requests : Nat, faults : Nat]
  /\ toggles \in 0..MaxToggles

InitOutboxes ==
  /\ mail = <<>> /\ writes = <<>> /\ messages = <<>> /\ requests = <<>>
  /\ board = [approved |-> TRUE, shows |-> "none"]
  /\ sender = [s \in Sender |-> Resting]
  /\ traffic \in Traffic
  /\ toggles = 0

(* The row a sender works on: the oldest it has left. *)
Oldest(batch) == CHOOSE r \in batch : \A q \in batch : r.row <= q.row
Row(s) == Oldest(sender[s].batch)
At(s, outbox, step) ==
  sender[s].outbox = outbox /\ sender[s].step = step /\ sender[s].batch # {}

Becomes(s, state) == sender' = [sender EXCEPT ![s] = state]
Moves(s, step, outcome) ==
  Becomes(s, [sender[s] EXCEPT !.step = step, !.outcome = outcome])

(* On to the next row of the batch. *)
NextRow(s) ==
  Becomes(s, IF sender[s].batch = {Row(s)} THEN Resting
             ELSE [sender[s] EXCEPT !.batch = @ \ {Row(s)}, !.step = "start", !.outcome = "accepted"])

(* The rows a sweep finds, as it finds them. *)
Batch(rows, due, approved) ==
  {[row |-> i, attempts |-> rows[i].attempts, approved |-> approved] : i \in due}

Begins(s, outbox, batch) ==
  /\ sender[s] = Resting /\ batch # {}
  /\ Becomes(s, [Resting EXCEPT !.outbox = outbox, !.batch = batch])

(* The status a failed attempt leaves. *)
Failed(outcome, attempts) ==
  IF outcome = "permanent" \/ attempts >= MaxAttempts THEN "dead" ELSE "failed"

Quota(kind) == traffic[kind] > 0 /\ traffic' = [traffic EXCEPT ![kind] = @ - 1]

-----------------------------------------------------------------------------
(* Mail.                                                                   *)

mailOnly == <<writes, board, messages, requests, toggles>>

(* queueEmail: the unique key lets one row of a shift in. *)
QueueEmail(to) ==
  /\ Quota("mail")
  /\ mail' = Append(mail, [status |-> IF to THEN "pending" ELSE "dead", attempts |-> 0, to |-> to,
                           copies |-> 0, unheard |-> 0, retries |-> 0])
  /\ UNCHANGED <<mailOnly, sender>>

MailDue(i) == mail[i].status \in {"pending", "failed"} /\ mail[i].attempts < MaxAttempts

DeliverPendingEmails(s) ==
  /\ Begins(s, "mail", Batch(mail, {i \in DOMAIN mail : MailDue(i)}, TRUE))
  /\ UNCHANGED <<mail, mailOnly, traffic>>

ClaimsAnyway(read) ==  \* mutant: the claim does not compare
  TRUE
StillAsRead(read) ==
  mail[read.row].status \in {"pending", "failed"} /\ mail[read.row].attempts = read.attempts

ClaimEmail(s) ==
  /\ At(s, "mail", "start")
  /\ LET read == Row(s)  i == read.row IN
     IF ~StillAsRead(read) THEN NextRow(s) /\ UNCHANGED mail
     ELSE /\ mail' = [mail EXCEPT ![i].status = IF @ \in {"pending", "failed"} /\ mail[i].to
                                                THEN "sending" ELSE "dead",
                                  ![i].attempts = read.attempts + 1]
          /\ IF mail[i].to THEN Moves(s, "claimed", "accepted") ELSE NextRow(s)
  /\ UNCHANGED <<mailOnly, traffic>>

SendEmail(s, outcome) ==
  /\ At(s, "mail", "claimed") /\ outcome # "refused"
  /\ mail' = [mail EXCEPT ![Row(s).row].copies = IF outcome \in {"accepted", "unheard"}
                                                 THEN @ + 1 ELSE @,
                          ![Row(s).row].unheard = IF outcome = "unheard" THEN @ + 1 ELSE @]
  /\ Moves(s, "answered", outcome)
  /\ UNCHANGED <<mailOnly, traffic>>

RecordEmail(s) ==
  /\ At(s, "mail", "answered")
  /\ mail' = [mail EXCEPT ![Row(s).row].status =
                IF sender[s].outcome = "accepted" THEN "sent"
                ELSE Failed(sender[s].outcome, Row(s).attempts + 1)]
  /\ NextRow(s)
  /\ UNCHANGED <<mailOnly, traffic>>

RetryKeepsAttempts(i, to) ==  \* mutant: the attempts are not reset, but counted on
  /\ mail[i].status # "sent" /\ mail[i].retries < MaxRetries
  /\ mail' = [mail EXCEPT ![i].status = IF to THEN "pending" ELSE "dead", ![i].to = to,
                          ![i].attempts = @ + 1, ![i].retries = @ + 1]
  /\ UNCHANGED <<mailOnly, sender, traffic>>

(* retryEmailDelivery: anything but a sent one, one being sent included. *)
RetryEmailDelivery(i, to) ==
  /\ mail[i].status # "sent" /\ mail[i].retries < MaxRetries
  /\ mail' = [mail EXCEPT ![i].status = IF to THEN "pending" ELSE "dead", ![i].to = to,
                          ![i].attempts = 0, ![i].retries = @ + 1]
  /\ UNCHANGED <<mailOnly, sender, traffic>>

-----------------------------------------------------------------------------
(* Writes to monday.com.                                                   *)

writesOnly == <<mail, messages, requests>>

(* enqueueMondayWrite: nothing is queued for a board that is not approved. *)
EnqueueMondayWrite ==
  /\ traffic.writes # <<>>
  /\ writes' = IF board.approved
               THEN Append(writes, [kind |-> Head(traffic.writes), status |-> "pending",
                                    attempts |-> 0])
               ELSE writes
  /\ traffic' = [traffic EXCEPT !.writes = Tail(@)]
  /\ UNCHANGED <<writesOnly, board, sender, toggles>>

(* approveMondayBoard, both ways. *)
ApproveMondayBoard(approve) ==
  /\ writes # <<>> /\ board.approved # approve
  /\ toggles < MaxToggles /\ toggles' = toggles + 1
  /\ board' = [board EXCEPT !.approved = approve]
  /\ UNCHANGED <<writesOnly, writes, sender, traffic>>

OnlyPendingWrite(i) ==  \* mutant: a failed write is not picked up again
  writes[i].status = "pending"
WriteDue(i) == writes[i].status \in {"pending", "failed"} /\ writes[i].attempts < MaxAttempts

DeliverPendingMondayWrites(s) ==
  /\ Begins(s, "writes", Batch(writes, {i \in DOMAIN writes : WriteDue(i)}, board.approved))
  /\ UNCHANGED <<writesOnly, writes, board, traffic, toggles>>

ClaimWrite(s) ==
  /\ At(s, "writes", "start")
  /\ writes' = [writes EXCEPT ![Row(s).row].status = "sending",
                              ![Row(s).row].attempts = Row(s).attempts + 1]
  /\ Moves(s, "claimed", "accepted")
  /\ UNCHANGED <<writesOnly, board, traffic, toggles>>

(* performWrite: the guard is for columns, and looks at the board as it was read. *)
PerformWrite(s, outcome) ==
  /\ At(s, "writes", "claimed")
  /\ LET kind == writes[Row(s).row].kind IN
     /\ (outcome = "refused") = (kind \in ColumnKinds /\ ~Row(s).approved)
     /\ board' = IF outcome \in {"accepted", "unheard"} /\ kind \in ColumnKinds
                 THEN [board EXCEPT !.shows = kind] ELSE board
  /\ Moves(s, "answered", outcome)
  /\ UNCHANGED <<writesOnly, writes, traffic, toggles>>

RecordWrite(s) ==
  /\ At(s, "writes", "answered")
  /\ writes' = [writes EXCEPT ![Row(s).row].status =
                  CASE sender[s].outcome = "accepted" -> "delivered"
                    [] sender[s].outcome = "refused" -> "refused"
                    [] OTHER -> Failed(sender[s].outcome, Row(s).attempts + 1)]
  /\ NextRow(s)
  /\ UNCHANGED <<writesOnly, board, traffic, toggles>>

-----------------------------------------------------------------------------
(* Teams messages.                                                         *)

teamsOnly == <<mail, writes, board, toggles>>
NewMessage(i) == [state |-> "pending", attempts |-> 0, request |-> i]

(* say: the reply of a turn, which the turn goes on to deliver itself. *)
Say(s) ==
  /\ sender[s] = Resting /\ Quota("talk")
  /\ messages' = Append(messages, NewMessage(0))
  /\ Becomes(s, [Resting EXCEPT !.outbox = "messages",
       !.batch = {[row |-> Len(messages) + 1, attempts |-> 0, approved |-> TRUE]}])
  /\ UNCHANGED <<teamsOnly, requests>>

MessageDue(i) == messages[i].state \in {"pending", "failed"} /\ messages[i].attempts < MaxAttempts

DeliverPendingMessages(s) ==
  /\ Begins(s, "messages", Batch(messages, {i \in DOMAIN messages : MessageDue(i)}, TRUE))
  /\ UNCHANGED <<teamsOnly, messages, requests, traffic>>

(* recordDelivery: whatever the state is by now. *)
RecordDelivery(i, outcome) ==
  messages' = [messages EXCEPT ![i].attempts = @ + 1,
                 ![i].state = CASE outcome = "accepted" -> "sent"
                                [] outcome = "permanent" -> "dead"
                                [] OTHER -> "failed"]

(* deliverToTeams: nothing is claimed, so sending and recording are two steps. *)
SendMessage(s) ==
  /\ At(s, "messages", "start")
  /\ Moves(s, "claimed", "accepted")
  /\ UNCHANGED <<teamsOnly, messages, requests, traffic>>

RecordMessage(s, outcome) ==
  /\ At(s, "messages", "claimed") /\ outcome # "refused"
  /\ RecordDelivery(Row(s).row, outcome)
  /\ NextRow(s)
  /\ UNCHANGED <<teamsOnly, requests, traffic>>

(* The end of deliverPendingMessages: what is past the ceiling is dead. *)
Deaden ==
  LET spent == {i \in DOMAIN messages :
                  messages[i].state = "failed" /\ messages[i].attempts >= MaxAttempts} IN
  /\ spent # {}
  /\ messages' = [i \in DOMAIN messages |->
                    IF i \in spent THEN [messages[i] EXCEPT !.state = "dead"] ELSE messages[i]]
  /\ UNCHANGED <<teamsOnly, requests, sender, traffic>>

-----------------------------------------------------------------------------
(* Approval requests are put to the thread of their task.                  *)

RaiseInline ==  \* mutant: telling is left to the call that raises, and nothing is swept
  /\ Quota("requests")
  /\ requests' = Append(requests, [pending |-> TRUE, told |-> TRUE])
  /\ UNCHANGED <<teamsOnly, messages, sender>>

(* createApprovalRequest; decideApprovalRequest and whatever else ends one. *)
RaiseRequest ==
  /\ Quota("requests")
  /\ requests' = Append(requests, [pending |-> TRUE, told |-> FALSE])
  /\ UNCHANGED <<teamsOnly, messages, sender>>

EndRequest(i) ==
  /\ requests[i].pending
  /\ requests' = [requests EXCEPT ![i].pending = FALSE]
  /\ UNCHANGED <<teamsOnly, messages, sender, traffic>>

Untold(i) == requests[i].pending /\ ~requests[i].told

(* deliverUndeliveredApprovals, deliverApprovalRequest, notify: the text. *)
TellRequest(s) ==
  /\ sender[s] = Resting
  /\ \E i \in DOMAIN requests :
       /\ Untold(i)
       /\ messages' = Append(messages, NewMessage(i))
       /\ Becomes(s, [Resting EXCEPT !.outbox = "approval", !.request = i,
            !.batch = {[row |-> Len(messages) + 1, attempts |-> 0, approved |-> TRUE]}])
  /\ UNCHANGED <<teamsOnly, requests, traffic>>

SendText(s, outcome) ==
  /\ At(s, "approval", "start") /\ outcome # "refused"
  /\ RecordDelivery(Row(s).row, outcome)
  /\ Moves(s, "claimed", outcome)
  /\ UNCHANGED <<teamsOnly, requests, traffic>>

(* noteDelivered, whatever became of the text. *)
NoteDelivered(s) ==
  /\ At(s, "approval", "claimed")
  /\ requests' = [requests EXCEPT ![sender[s].request].told = TRUE]
  /\ Moves(s, "told", "accepted")
  /\ UNCHANGED <<teamsOnly, messages, traffic>>

(* attachCard: the same message again, with the card. *)
AttachCard(s, outcome) ==
  /\ At(s, "approval", "told") /\ outcome # "refused"
  /\ RecordDelivery(Row(s).row, outcome)
  /\ NextRow(s)
  /\ UNCHANGED <<teamsOnly, requests, traffic>>

-----------------------------------------------------------------------------
(* Failures and the next-state relation.                                   *)

(* The process dies, or a write to the database throws: the batch is abandoned. *)
SenderFails(s) ==
  /\ sender[s] # Resting
  /\ Quota("faults")
  /\ Becomes(s, Resting)
  /\ UNCHANGED <<rowVars, toggles>>

(* A row is under way: a claim, an answer that is not recorded, a text, a card. *)
Works(s) ==
  \/ ClaimEmail(s) \/ RecordEmail(s)
  \/ ClaimWrite(s) \/ RecordWrite(s)
  \/ SendMessage(s) \/ NoteDelivered(s)
  \/ \E outcome \in Outcomes :
       \/ SendEmail(s, outcome) \/ PerformWrite(s, outcome)
       \/ RecordMessage(s, outcome) \/ SendText(s, outcome) \/ AttachCard(s, outcome)

Sweeps(s) ==
  DeliverPendingEmails(s) \/ DeliverPendingMondayWrites(s) \/ DeliverPendingMessages(s)

NextOutboxes ==
  \/ \E to \in BOOLEAN : QueueEmail(to)
  \/ \E i \in DOMAIN mail, to \in BOOLEAN : RetryEmailDelivery(i, to)
  \/ EnqueueMondayWrite
  \/ \E approve \in BOOLEAN : ApproveMondayBoard(approve)
  \/ RaiseRequest
  \/ \E i \in DOMAIN requests : EndRequest(i)
  \/ Deaden
  \/ \E s \in Sender : Say(s) \/ Sweeps(s) \/ TellRequest(s) \/ Works(s) \/ SenderFails(s)

SpecOutboxes == InitOutboxes /\ [][NextOutboxes]_outboxVars

(* Every outbox has a timer, and a sender that has begun goes on until it dies. *)
FairSpecOutboxes ==
  /\ SpecOutboxes
  /\ \A s \in Sender : WF_outboxVars(Works(s)) /\ WF_outboxVars(Sweeps(s)) /\ WF_outboxVars(TellRequest(s))
  /\ WF_outboxVars(Deaden)
-----------------------------------------------------------------------------
(* Properties.                                                             *)

(* A report goes out once, and once more at most for every answer of the provider that was
   not heard and every retry of an operator, however many sweeps meet the row at once
   (the compare-and-swap of deliverPendingEmails, the unique key of queueEmail). *)
MailCopiesAccounted ==
  \A i \in DOMAIN mail : mail[i].copies <= 1 + mail[i].unheard + mail[i].retries

(* No sender has this row of an outbox before it. *)
Held(outbox, i) ==
  \E s \in Sender : sender[s].outbox = outbox
                    /\ \E r \in sender[s].batch : r.row = i

(* Whatever an outbox holds is in the end delivered, refused or visibly dead.  What is left
   half way was claimed by a process that died ("sending" for ever), or overtaken: an
   operator's retry or a second sweep lets a row reach the last attempt while an earlier
   attempt still has its "failed" to record. *)
MailSettled(i) ==
  /\ i \in DOMAIN mail /\ ~Held("mail", i)
  /\ \/ mail[i].status \in {"sending", "sent", "dead"}
     \/ mail[i].status = "failed" /\ mail[i].attempts = MaxAttempts /\ mail[i].retries > 0
WriteSettled(i) ==
  /\ i \in DOMAIN writes /\ ~Held("writes", i)
  /\ \/ writes[i].status \in {"sending", "delivered", "refused", "dead"}
     \/ writes[i].status = "failed" /\ writes[i].attempts = MaxAttempts
MessageSettled(i) ==
  i \in DOMAIN messages /\ messages[i].state \in {"sent", "dead"}
RowsSettle ==
  \A i \in 1..MaxRows :
    /\ (i \in DOMAIN mail /\ MailDue(i)) ~> MailSettled(i)
    /\ (i \in DOMAIN writes /\ WriteDue(i)) ~> WriteSettled(i)
    /\ (i \in DOMAIN messages /\ messages[i].state \in {"pending", "failed"}) ~> MessageSettled(i)

(* A request that stays pending comes to have a message in its thread, though the process
   that was telling it died (deliverUndeliveredApprovals sweeps what is stored). *)
ApprovalsAreTold ==
  \A i \in 1..MaxRows :
    (i \in DOMAIN requests /\ requests[i].pending)
      ~> (\/ i \in DOMAIN requests /\ ~requests[i].pending
          \/ \E m \in DOMAIN messages : messages[m].request = i)

(* Together: nothing that was to be sent is forgotten. *)
NothingIsForgotten == RowsSettle /\ ApprovalsAreTold
=============================================================================
