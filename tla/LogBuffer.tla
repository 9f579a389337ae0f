------------------------------ MODULE LogBuffer ------------------------------
(***************************************************************************)
(* The worker's log buffer (apps/worker/src/log-buffer.ts), the flushes    *)
(* worker.ts starts on it every second and before it reports a run, and    *)
(* the server's idempotent append (services/logs.ts).                      *)
(*                                                                         *)
(* The interval starts a flush whether or not the one before has returned. *)
(* A flush awaits the upload of the batch it copied; while it waits, lines *)
(* are appended, evicted, copied and removed by everybody else.            *)
(***************************************************************************)
EXTENDS Integers, Sequences, Functions

CONSTANTS
  Flush,        \* flushes that may be under way at a time
  None,         \* no flush
  Capacity,     \* lines the buffer keeps
  BatchSize,    \* lines of one upload
  MaxSeq,       \* bound: the job writes lines until this sequence number
  MaxFailures   \* bound: uploads that fail for good

ASSUME ConstantsAssumption ==
  /\ None \notin Flush
  /\ Capacity \in Nat \ {0} /\ BatchSize \in Nat \ {0}
  /\ MaxSeq \in Nat /\ MaxFailures \in Nat

VARIABLES
  pending,    \* the buffer
  nextSeq,    \* the next sequence number
  dropped,    \* droppedSinceMarker
  batch,      \* the batch each flush is uploading; empty: the flush is not under way
  delivered,  \* flushes whose batch the server has stored
  stored,     \* run_logs, which is unique on the sequence number
  phase,      \* where executeAssignment is
  closer,     \* the flush executeAssignment awaits before it reports
  evicted,    \* history: entries the buffer dropped because it was full
  overlapped, \* history: a flush has begun while another was under way
  failures    \* counter of the bound

bufferVars == <<pending, nextSeq, dropped>>
jobVars == <<phase, closer>>
vars == <<bufferVars, batch, delivered, stored, jobVars, evicted, overlapped, failures>>

-----------------------------------------------------------------------------

(* A line, or the marker that stands for a number of dropped ones. *)
Line(n) == [seq |-> n, drops |-> 0]
Marker(n, k) == [seq |-> n, drops |-> k]
Entry == [seq : Nat, drops : Nat]

Entries(s) == Range(s)
Min2(m, n) == IF m <= n THEN m ELSE n

TypeOK ==
  /\ pending \in Seq(Entry)
  /\ nextSeq \in Nat /\ dropped \in Nat
  /\ batch \in [Flush -> Seq(Entry)]
  /\ delivered \subseteq {f \in Flush : batch[f] # <<>>}
  /\ stored \subseteq Entry /\ evicted \subseteq Entry
  /\ phase \in {"working", "closing", "reported"}
  /\ closer \in Flush \cup {None}
  /\ phase = "working" <=> closer = None
  /\ overlapped \in BOOLEAN /\ failures \in 0..MaxFailures

Init ==
  /\ pending = <<>> /\ nextSeq = 0 /\ dropped = 0
  /\ batch = [f \in Flush |-> <<>>] /\ delivered = {}
  /\ stored = {} /\ evicted = {}
  /\ phase = "working" /\ closer = None /\ overlapped = FALSE /\ failures = 0

-----------------------------------------------------------------------------

Idle(f) == batch[f] = <<>>

Beside(f) == \E g \in Flush \ {f} : ~Idle(g)

(* push: the oldest entries make room.  Once the job has returned, only a stop noticed by
   the last flush is still logged. *)
Log ==
  LET full == Append(pending, Line(nextSeq))
      excess == IF Len(full) > Capacity THEN Len(full) - Capacity ELSE 0
  IN /\ nextSeq < MaxSeq
     /\ phase = "working" \/ (phase = "closing" /\ ~Idle(closer))
     /\ pending' = SubSeq(full, excess + 1, Len(full))
     /\ evicted' = evicted \cup Entries(SubSeq(full, 1, excess))
     /\ dropped' = dropped + excess
     /\ nextSeq' = nextSeq + 1
     /\ UNCHANGED <<batch, delivered, stored, jobVars, overlapped, failures>>

(* peekBatch: the marker goes to the front, past the capacity check, and the batch is a
   copy. *)
MarkedIfRoom(p) ==  \* mutant: the marker respects the capacity
  IF dropped = 0 \/ Len(p) >= Capacity THEN p ELSE <<Marker(nextSeq, dropped)>> \o p
Marked(p) == IF dropped = 0 THEN p ELSE <<Marker(nextSeq, dropped)>> \o p

PeekBatch(f, p) ==
  /\ pending' = Marked(p)
  /\ nextSeq' = IF dropped = 0 THEN nextSeq ELSE nextSeq + 1
  /\ dropped' = 0
  /\ batch' = [batch EXCEPT ![f] = SubSeq(pending', 1, Min2(BatchSize, Len(pending')))]

(* The head of flush's loop. *)
SendRest(f, p) ==
  IF p = <<>> THEN /\ pending' = p /\ batch' = [batch EXCEPT ![f] = <<>>]
                   /\ UNCHANGED <<nextSeq, dropped>>
              ELSE PeekBatch(f, p)

FullBatch == Len(pending) >= BatchSize  \* mutant: waits for a full batch
SomethingToSend == pending # <<>>

(* The interval. *)
StartFlush(f) ==
  /\ phase = "working" /\ Idle(f) /\ SomethingToSend
  /\ PeekBatch(f, pending)
  /\ overlapped' = (overlapped \/ Beside(f))
  /\ UNCHANGED <<delivered, stored, jobVars, evicted, failures>>

(* The server stores the batch, once per sequence number; its answer is still to come. *)
Deliver(f) ==
  /\ ~Idle(f) /\ f \notin delivered
  /\ stored' = stored \cup Entries(batch[f])
  /\ delivered' = delivered \cup {f}
  /\ UNCHANGED <<bufferVars, batch, jobVars, evicted, overlapped, failures>>

(* confirm removes as many entries from the front as the batch had, whatever is there by
   now. *)
ConfirmsOnSend(f) == ~Idle(f)  \* mutant: the upload is not awaited
Confirms(f) == f \in delivered
Unconfirmed(f) == SubSeq(pending, Len(batch[f]) + 1, Len(pending))

Confirm(f) ==
  /\ Confirms(f)
  /\ delivered' = delivered \ {f}
  /\ SendRest(f, Unconfirmed(f))
  /\ UNCHANGED <<stored, jobVars, evicted, overlapped, failures>>

ForgetsNothing(f) == delivered  \* mutant: a failed upload leaves its answer behind
Forgets(f) == delivered \ {f}

(* The client has used up its attempts: the lines stay in the buffer.  The server may have
   stored them all the same. *)
UploadFails(f) ==
  /\ ~Idle(f) /\ failures < MaxFailures
  /\ failures' = failures + 1
  /\ batch' = [batch EXCEPT ![f] = <<>>]
  /\ delivered' = Forgets(f)
  /\ UNCHANGED <<bufferVars, stored, jobVars, evicted, overlapped>>

(* The job has returned: the interval is cleared and one more flush is awaited. *)
EndJob(f) ==
  /\ phase = "working" /\ Idle(f)
  /\ phase' = "closing" /\ closer' = f
  /\ SendRest(f, pending)
  /\ overlapped' = (overlapped \/ Beside(f))
  /\ UNCHANGED <<delivered, stored, evicted, failures>>

ReportNow == phase = "closing"  \* mutant: the last flush is not awaited
LastFlushReturned == phase = "closing" /\ Idle(closer)

(* The completion is sent, and what is left is flushed once more. *)
Report ==
  /\ LastFlushReturned
  /\ phase' = "reported"
  /\ SendRest(closer, pending)
  /\ overlapped' = (overlapped \/ Beside(closer))
  /\ UNCHANGED <<delivered, stored, closer, evicted, failures>>

-----------------------------------------------------------------------------

Next ==
  \/ Log \/ Report
  \/ \E f \in Flush : StartFlush(f) \/ Deliver(f) \/ Confirm(f) \/ UploadFails(f) \/ EndJob(f)

Spec == Init /\ [][Next]_vars

(* The interval keeps firing while the job runs, and an upload returns. *)
FlushFairness ==
  \A f \in Flush : WF_vars(StartFlush(f)) /\ WF_vars(Deliver(f)) /\ WF_vars(Confirm(f))

FairSpec == Spec /\ FlushFairness

-----------------------------------------------------------------------------
(* Properties.                                                             *)

InBuffer == Entries(pending)
Written == 0..(nextSeq - 1)
Seqs(S) == {e.seq : e \in S}

(* While the buffer has had room and no two flushes overlapped, whatever was written is in
   the buffer or stored.  (Two that overlap copy the same lines, and the second to return
   removes lines nobody has sent.) *)
Roomy == evicted = {} /\ ~overlapped
KeptWhileThereIsRoom == Roomy => Written \subseteq Seqs(InBuffer \cup stored)

(* Under the same condition the stored log has no holes: when a line is there, so is every
   line written before it. *)
LogHasNoHoles ==
  Roomy => \A n \in Seqs(stored) : \A k \in Written : k < n => k \in Seqs(stored)

(* Truncation is visible: while a line is missing from the log because it was dropped, the
   drop is counted, announced in the buffer or announced in the log; only flushes that
   overlap can lose the announcement. *)
TruncationIsVisible ==
  \/ evicted \subseteq stored \/ overlapped
  \/ dropped > 0 \/ \E e \in InBuffer \cup stored : e.drops > 0

(* However flushes overlap, fail and are repeated, a sequence number stands for one entry:
   what the server has under it, or a batch or the buffer may still send, agree, so that the
   append that ignores what it has ignores no line. *)
OneEntryPerNumber ==
  LET sent == InBuffer \cup stored \cup UNION {Entries(batch[f]) : f \in Flush}
  IN  \A d, e \in sent : d.seq = e.seq => d = e

(* When nothing was dropped, no upload failed and no two flushes overlapped, the log is
   complete by the time the completion is sent. *)
CompleteWhenReported ==
  phase = "reported" /\ failures = 0 /\ Roomy => Written \subseteq Seqs(stored)

(* Together: no line is lost, and no line is missing, without somebody knowing. *)
LogIsAccounted ==
  /\ KeptWhileThereIsRoom /\ LogHasNoHoles /\ OneEntryPerNumber
  /\ TruncationIsVisible /\ CompleteWhenReported

(* What a job that keeps running has logged arrives, unless the buffer overflows or flushes
   overlap. *)
LinesArrive ==
  \A n \in 0..MaxSeq : n \in Written ~> (n \in Seqs(stored) \/ ~Roomy \/ phase # "working")
=============================================================================
