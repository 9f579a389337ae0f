--------------------------- MODULE Delivery_proofs ---------------------------
(***************************************************************************)
(* Proofs about what has to arrive: the worker's log lines (LogBuffer),    *)
(* the server's mail, writes and messages (Outboxes), and the events Forja *)
(* follows (Forja), for any number of flushes, senders, rows, clients and  *)
(* failures, and any bounds.                                               *)
(***************************************************************************)
EXTENDS LogBuffer, Outboxes, Forja, SequenceTheorems, FiniteSetTheorems,
        WellFoundedInduction, NaturalsInduction, TLAPS

(* First: that no log line is lost or missing without somebody knowing.    *)

-----------------------------------------------------------------------------
(* The inductive invariant, in named parts.                                *)

(* Every number in use is below the next one, and stands for one entry. *)
Sent == InBuffer \cup stored \cup UNION {Entries(batch[f]) : f \in Flush}
Numbered ==
  /\ \A e \in Sent : e.seq < nextSeq
  /\ \A d, e \in Sent : d.seq = e.seq => d = e

(* What the server has answered for, it has. *)
DeliveredIsStored == \A f \in delivered : Entries(batch[f]) \subseteq stored

OneFlush == ~overlapped => \A f, g \in Flush : ~Idle(f) /\ ~Idle(g) => f = g

(* The buffer holds the last lines written, in their order. *)
First == nextSeq - Len(pending)
InOrder ==
  /\ dropped = 0 /\ First \in Nat
  /\ \A i \in 1..Len(pending) : pending[i] = Line(First + i - 1)

(* A batch is what the buffer begins with. *)
IsPrefix(b) == Len(b) <= Len(pending) /\ \A i \in 1..Len(b) : b[i] = pending[i]
BatchesArePrefixes == \A f \in Flush : IsPrefix(batch[f])

(* The log holds everything older than the buffer, and no line before an older one. *)
LogIsPrefix ==
  /\ \A n \in 0..(First - 1) : n \in Seqs(stored)
  /\ \A n \in Seqs(stored) : \A k \in 0..(n - 1) : k \in Seqs(stored)

(* After the job the last flush empties the buffer. *)
LastFlushEmpties ==
  /\ phase = "closing" => ~Idle(closer) \/ pending = <<>>
  /\ phase = "reported" => pending = <<>>

WhileRoomy ==
  Roomy => /\ InOrder /\ BatchesArePrefixes /\ LogIsPrefix
           /\ failures = 0 => LastFlushEmpties

(* The marker that announces dropped lines is at the head of the buffer, and of the batch
   under way, until it is stored. *)
MarkerAhead ==
  /\ pending # <<>> /\ pending[1].drops > 0
  /\ \A f \in Flush : ~Idle(f) => batch[f][1] = pending[1]
Announced ==
  ~overlapped => evicted = {} \/ dropped > 0 \/ MarkerAhead \/ \E e \in stored : e.drops > 0

Inv ==
  /\ TypeOK
  /\ Numbered
  /\ DeliveredIsStored
  /\ OneFlush
  /\ WhileRoomy
  /\ Announced

-----------------------------------------------------------------------------
(* Facts about sequences.                                                  *)

(* What is left of a sequence when its first elements are removed. *)
LEMMA Rest ==
  ASSUME NEW S, NEW s \in Seq(S), NEW n \in 0..Len(s)
  PROVE  /\ SubSeq(s, n + 1, Len(s)) \in Seq(S)
         /\ Len(SubSeq(s, n + 1, Len(s))) = Len(s) - n
         /\ \A i \in 1..(Len(s) - n) : SubSeq(s, n + 1, Len(s))[i] = s[n + i]
         /\ Range(SubSeq(s, n + 1, Len(s))) \subseteq Range(s)
<1>1. /\ SubSeq(s, n + 1, Len(s)) \in Seq(S)
      /\ Len(SubSeq(s, n + 1, Len(s))) = Len(s) - n
      /\ \A i \in 1..(Len(s) - n) : SubSeq(s, n + 1, Len(s))[i] = s[n + i]
  OBVIOUS
<1>2. \A i \in 1..(Len(s) - n) : n + i \in 1..Len(s)
  OBVIOUS
<1>3. Range(SubSeq(s, n + 1, Len(s))) \subseteq Range(s)
  BY <1>1, <1>2 DEF Range
<1> QED BY <1>1, <1>3

(* The first elements of a sequence. *)
LEMMA Prefix ==
  ASSUME NEW S, NEW s \in Seq(S), NEW n \in 0..Len(s)
  PROVE  /\ SubSeq(s, 1, n) \in Seq(S)
         /\ Len(SubSeq(s, 1, n)) = n
         /\ \A i \in 1..n : SubSeq(s, 1, n)[i] = s[i]
         /\ Range(SubSeq(s, 1, n)) \subseteq Range(s)
<1>1. /\ SubSeq(s, 1, n) \in Seq(S)
      /\ Len(SubSeq(s, 1, n)) = n
      /\ \A i \in 1..n : SubSeq(s, 1, n)[i] = s[i]
  OBVIOUS
<1>2. Range(SubSeq(s, 1, n)) \subseteq Range(s)
  BY <1>1 DEF Range
<1> QED BY <1>1, <1>2

(* The entries of a sequence of entries. *)
LEMMA EntriesOf ==
  ASSUME NEW s \in Seq(Entry)
  PROVE  /\ Entries(s) \subseteq Entry
         /\ \A i \in 1..Len(s) : s[i] \in Entries(s)
         /\ \A e \in Entries(s) : \E i \in 1..Len(s) : e = s[i]
         /\ Entries(s) = {} => s = <<>>
<1>1. DOMAIN s = 1..Len(s) /\ \A i \in 1..Len(s) : s[i] \in Entry
  OBVIOUS
<1>2. s # <<>> => 1 \in 1..Len(s)
  OBVIOUS
<1> QED BY <1>1, <1>2 DEF Entries, Range

-----------------------------------------------------------------------------
(* What the head of flush's loop does.                                     *)

(* The flush f goes on with the entries p of the buffer: it is done when there are none, and
   copies the first of them, behind a marker of what was dropped, when there are some. *)
GoesOn(f, p) ==
  /\ pending' \in Seq(Entry) /\ dropped' \in Nat /\ batch' \in [Flush -> Seq(Entry)]
  /\ nextSeq' \in Nat /\ nextSeq <= nextSeq'
  /\ \A g \in Flush \ {f} : batch'[g] = batch[g]
  /\ Len(batch'[f]) <= Len(pending')
  /\ \A i \in 1..Len(batch'[f]) : batch'[f][i] = pending'[i]
  /\ batch'[f] = <<>> <=> p = <<>>
  /\ pending' = <<>> <=> p = <<>>
  /\ dropped = 0 => pending' = p /\ nextSeq' = nextSeq /\ dropped' = 0
  /\ dropped > 0 => (pending' = p /\ dropped' = dropped) \/ (pending' # <<>> /\ pending'[1].drops > 0)
  /\ \/ Entries(pending') \subseteq Entries(p)
     \/ Entries(pending') \subseteq Entries(p) \cup {Marker(nextSeq, dropped)} /\ nextSeq' = nextSeq + 1
  /\ Entries(batch'[f]) \subseteq Entries(pending')

LEMMA MarkedFacts ==
  ASSUME NEW p \in Seq(Entry), nextSeq \in Nat, dropped \in Nat
  PROVE  /\ Marked(p) \in Seq(Entry)
         /\ dropped = 0 => Marked(p) = p
         /\ dropped > 0 => Marked(p) # <<>> /\ Marked(p)[1] = Marker(nextSeq, dropped)
         /\ Entries(Marked(p)) \subseteq Entries(p) \cup (IF dropped = 0 THEN {} ELSE {Marker(nextSeq, dropped)})
<1>1. CASE dropped = 0
  BY <1>1 DEF Marked
<1>2. CASE dropped > 0
  <2> DEFINE m == Marker(nextSeq, dropped)
  <2>1. m \in Entry
    BY DEF Marker, Entry
  <2> HIDE DEF m
  <2>2. /\ <<m>> \o p \in Seq(Entry) /\ Len(<<m>> \o p) = Len(p) + 1
        /\ (<<m>> \o p)[1] = m
        /\ \A i \in 2..(Len(p) + 1) : (<<m>> \o p)[i] = p[i - 1]
    BY <2>1
  <2>3. Entries(<<m>> \o p) \subseteq Entries(p) \cup {m}
    <3> SUFFICES ASSUME NEW e \in Entries(<<m>> \o p) PROVE e \in Entries(p) \cup {m}
      OBVIOUS
    <3>1. PICK i \in 1..(Len(p) + 1) : e = (<<m>> \o p)[i]
      BY <2>2 DEF Entries, Range
    <3>2. CASE i = 1
      BY <2>2, <3>1, <3>2
    <3>3. CASE i # 1
      <4>1. i - 1 \in 1..Len(p) /\ e = p[i - 1]
        BY <2>2, <3>1, <3>3
      <4> QED BY <4>1, EntriesOf
    <3> QED BY <3>2, <3>3
  <2>4. <<m>> \o p # <<>>
    BY <2>2
  <2> QED BY <1>2, <2>2, <2>3, <2>4 DEF Marked, m
<1> QED BY <1>1, <1>2

LEMMA PeekGoesOn ==
  ASSUME TypeOK, NEW f \in Flush, NEW p \in Seq(Entry), p # <<>>, PeekBatch(f, p)
  PROVE  GoesOn(f, p)
<1>1. /\ pending' = Marked(p) /\ pending' \in Seq(Entry)
      /\ dropped = 0 => pending' = p
      /\ dropped > 0 => pending' # <<>> /\ pending'[1] = Marker(nextSeq, dropped)
      /\ Entries(pending') \subseteq Entries(p) \cup (IF dropped = 0 THEN {} ELSE {Marker(nextSeq, dropped)})
  BY MarkedFacts DEF PeekBatch, TypeOK
<1>2. pending' # <<>>
  BY <1>1 DEF TypeOK
<1> DEFINE n == Min2(BatchSize, Len(pending'))
<1>3. n \in 1..Len(pending')
  BY <1>1, <1>2, ConstantsAssumption DEF Min2
<1>4. batch' = [batch EXCEPT ![f] = SubSeq(pending', 1, n)]
  BY DEF PeekBatch
<1> HIDE DEF n
<1>5. /\ SubSeq(pending', 1, n) \in Seq(Entry) /\ Len(SubSeq(pending', 1, n)) = n
      /\ \A i \in 1..n : SubSeq(pending', 1, n)[i] = pending'[i]
      /\ Entries(SubSeq(pending', 1, n)) \subseteq Entries(pending')
  BY <1>1, <1>3, Prefix DEF Entries
<1>6. /\ batch' \in [Flush -> Seq(Entry)] /\ batch'[f] = SubSeq(pending', 1, n)
      /\ \A g \in Flush \ {f} : batch'[g] = batch[g]
  BY <1>4, <1>5 DEF TypeOK
<1>7. batch'[f] # <<>>
  BY <1>3, <1>5, <1>6
<1>8. /\ nextSeq' \in Nat /\ nextSeq <= nextSeq' /\ dropped' = 0
      /\ nextSeq' = IF dropped = 0 THEN nextSeq ELSE nextSeq + 1
  BY DEF PeekBatch, TypeOK
<1>9. dropped > 0 => pending'[1].drops > 0
  BY <1>1 DEF Marker
<1>10. /\ Len(batch'[f]) <= Len(pending')
       /\ \A i \in 1..Len(batch'[f]) : batch'[f][i] = pending'[i]
       /\ Entries(batch'[f]) \subseteq Entries(pending')
  BY <1>1, <1>3, <1>5, <1>6
<1>11. \/ Entries(pending') \subseteq Entries(p)
       \/ Entries(pending') \subseteq Entries(p) \cup {Marker(nextSeq, dropped)} /\ nextSeq' = nextSeq + 1
  BY <1>1, <1>8
<1>12. dropped = 0 => pending' = p /\ nextSeq' = nextSeq /\ dropped' = 0
  BY <1>1, <1>8
<1>13. dropped \in Nat /\ dropped' \in Nat
  BY <1>8 DEF TypeOK
<1> QED BY <1>1, <1>2, <1>6, <1>7, <1>8, <1>9, <1>10, <1>11, <1>12, <1>13 DEF GoesOn

LEMMA SendRestGoesOn ==
  ASSUME TypeOK, NEW f \in Flush, NEW p \in Seq(Entry), SendRest(f, p)
  PROVE  GoesOn(f, p)
<1>1. CASE p = <<>>
  <2>1. /\ pending' = p /\ UNCHANGED <<nextSeq, dropped>>
        /\ batch' = [batch EXCEPT ![f] = <<>>]
    BY <1>1 DEF SendRest
  <2>2. /\ batch' \in [Flush -> Seq(Entry)] /\ batch'[f] = <<>>
        /\ \A g \in Flush \ {f} : batch'[g] = batch[g]
    BY <2>1 DEF TypeOK
  <2>3. Entries(<<>>) = {}
    BY DEF Entries, Range
  <2> QED BY <1>1, <2>1, <2>2, <2>3 DEF GoesOn, TypeOK
<1>2. CASE p # <<>>
  BY <1>2, PeekGoesOn DEF SendRest
<1> QED BY <1>1, <1>2

-----------------------------------------------------------------------------
(* What the invariant gives.                                               *)

LEMMA InvAccounts == Inv => LogIsAccounted
<1> SUFFICES ASSUME Inv PROVE LogIsAccounted
  OBVIOUS
<1> USE DEF Inv
<1>1. pending \in Seq(Entry) /\ nextSeq \in Nat
  BY DEF TypeOK
<1>2. ASSUME Roomy, NEW n \in Written
      PROVE  n \in Seqs(stored) \/ n \in Seqs(InBuffer)
  <2>1. InOrder /\ LogIsPrefix
    BY <1>2 DEF WhileRoomy
  <2>2. n \in Nat /\ n < nextSeq
    BY <1>1 DEF Written
  <2>3. CASE n < First
    <3>1. n \in 0..(First - 1)
      BY <2>1, <2>2, <2>3 DEF InOrder
    <3> QED BY <2>1, <3>1 DEF LogIsPrefix
  <2>4. CASE ~(n < First)
    <3>1. n - First + 1 \in 1..Len(pending)
      BY <1>1, <2>1, <2>2, <2>4 DEF InOrder, First
    <3>2. pending[n - First + 1] = Line(First + (n - First + 1) - 1)
      BY <2>1, <3>1 DEF InOrder
    <3>3. pending[n - First + 1].seq = n
      BY <1>1, <2>1, <2>2, <3>2 DEF Line, InOrder
    <3>4. pending[n - First + 1] \in InBuffer
      BY <1>1, <3>1, EntriesOf DEF InBuffer
    <3> QED BY <3>3, <3>4 DEF Seqs
  <2> QED BY <2>3, <2>4
<1>3. KeptWhileThereIsRoom
  BY <1>2 DEF KeptWhileThereIsRoom, Seqs
<1>4. LogHasNoHoles
  <2> SUFFICES ASSUME Roomy, NEW n \in Seqs(stored), NEW k \in Written, k < n
               PROVE  k \in Seqs(stored)
    BY DEF LogHasNoHoles
  <2>1. n \in Nat
    BY DEF Seqs, TypeOK, Entry
  <2>2. k \in 0..(n - 1)
    BY <1>1, <2>1 DEF Written
  <2> QED BY <2>2 DEF WhileRoomy, LogIsPrefix
<1>5. OneEntryPerNumber
  BY DEF Numbered, Sent, OneEntryPerNumber
<1>6. TruncationIsVisible
  <2>1. CASE MarkerAhead
    <3>1. 1 \in 1..Len(pending)
      BY <1>1, <2>1 DEF MarkerAhead
    <3>2. pending[1] \in InBuffer
      BY <1>1, <3>1, EntriesOf DEF InBuffer
    <3> QED BY <2>1, <3>2 DEF MarkerAhead, TruncationIsVisible
  <2> QED BY <2>1 DEF Announced, TruncationIsVisible
<1>7. CompleteWhenReported
  <2> SUFFICES ASSUME phase = "reported", failures = 0, Roomy, NEW n \in Written
               PROVE  n \in Seqs(stored)
    BY DEF CompleteWhenReported
  <2>1. pending = <<>>
    BY DEF WhileRoomy, LastFlushEmpties
  <2>2. InBuffer = {}
    BY <2>1 DEF InBuffer, Entries, Range
  <2> QED BY <1>2, <2>2 DEF Seqs
<1> QED BY <1>3, <1>4, <1>5, <1>6, <1>7 DEF LogIsAccounted

LEMMA InitInv == Init => Inv
<1> SUFFICES ASSUME Init PROVE Inv
  OBVIOUS
<1> USE ConstantsAssumption DEF Init
<1>1. Entries(<<>>) = {} /\ <<>> \in Seq(Entry) /\ Len(<<>>) = 0
  BY EmptySeq DEF Entries, Range
<1>2. TypeOK
  <2>1. batch \in [Flush -> Seq(Entry)] /\ pending \in Seq(Entry) /\ failures \in 0..MaxFailures
    BY <1>1
  <2> QED BY <2>1 DEF TypeOK
<1>3. Sent = {}
  BY <1>1 DEF Sent, InBuffer
<1>4. Numbered /\ DeliveredIsStored /\ OneFlush /\ Announced
  BY <1>3 DEF Numbered, DeliveredIsStored, OneFlush, Announced, Idle
<1>5. First = 0
  <2>1. Len(pending) = 0 /\ nextSeq = 0
    BY <1>1
  <2> HIDE DEF Init
  <2> QED BY <2>1 DEF First
<1>6. WhileRoomy
  BY <1>1, <1>5 DEF WhileRoomy, InOrder, BatchesArePrefixes, IsPrefix, LogIsPrefix, LastFlushEmpties, Seqs
<1> QED BY <1>2, <1>4, <1>6 DEF Inv

LEMMA Stutter == Inv /\ UNCHANGED vars => Inv'
BY DEF Inv, TypeOK, Numbered, Sent, InBuffer, DeliveredIsStored, OneFlush, Idle, WhileRoomy, Roomy,
       InOrder, First, BatchesArePrefixes, IsPrefix, LogIsPrefix, LastFlushEmpties, Announced,
       MarkerAhead, vars, bufferVars, jobVars

-----------------------------------------------------------------------------
(* A flush begins, or the last one goes on.                                *)

(* Only the marker is a new number. *)
LEMMA GoingOnNumbers ==
  ASSUME TypeOK, Numbered, NEW f \in Flush, NEW p \in Seq(Entry), GoesOn(f, p),
         Entries(p) \subseteq InBuffer, stored' = stored
  PROVE  Numbered'
<1>1. Sent \subseteq Entry
  BY EntriesOf DEF Sent, InBuffer, TypeOK
<1>2. Entries(pending') \cup UNION {Entries(batch'[g]) : g \in Flush} \subseteq Entries(pending') \cup Sent
  <2>1. \A g \in Flush : Entries(batch'[g]) \subseteq Entries(pending') \cup Entries(batch[g])
    BY DEF GoesOn
  <2> QED BY <2>1 DEF Sent
<1>3. Sent' \subseteq Entries(pending') \cup Sent
  BY <1>2 DEF Sent, InBuffer
<1>4. CASE Entries(pending') \subseteq Entries(p)
  <2>1. Sent' \subseteq Sent
    BY <1>3, <1>4 DEF Sent
  <2>2. \A e \in Sent : e.seq < nextSeq'
    BY <1>1 DEF Numbered, GoesOn, TypeOK, Entry
  <2> QED BY <2>1, <2>2 DEF Numbered
<1>5. CASE /\ Entries(pending') \subseteq Entries(p) \cup {Marker(nextSeq, dropped)}
           /\ nextSeq' = nextSeq + 1
  <2>1. Sent' \subseteq Sent \cup {Marker(nextSeq, dropped)}
    BY <1>3, <1>5 DEF Sent
  <2>2. \A e \in Sent : e.seq \in Nat /\ e.seq < nextSeq /\ e.seq < nextSeq'
    BY <1>1, <1>5 DEF Numbered, TypeOK, Entry
  <2>3. Marker(nextSeq, dropped).seq = nextSeq /\ nextSeq < nextSeq'
    BY <1>5 DEF Marker, TypeOK
  <2>4. nextSeq \in Nat
    BY DEF TypeOK
  <2> QED BY <2>1, <2>2, <2>3, <2>4 DEF Numbered
<1> QED BY <1>4, <1>5 DEF GoesOn

(* The interval, the end of the job and the last flush begin one with all that is pending. *)
BeginsFlush(f) ==
  /\ Idle(f) /\ GoesOn(f, pending)
  /\ overlapped' = (overlapped \/ Beside(f))
  /\ UNCHANGED <<delivered, stored, evicted, failures>>
  /\ \/ phase = "working" /\ UNCHANGED jobVars
     \/ phase = "working" /\ phase' = "closing" /\ closer' = f
     \/ phase = "closing" /\ phase' = "reported" /\ closer = f /\ closer' = f

(* A flush that begins beside another shows in overlapped; otherwise its batch is the only one. *)
LEMMA BeginInv ==
  ASSUME Inv, NEW f \in Flush, BeginsFlush(f)
  PROVE  Inv'
<1> USE DEF Inv
<1>1. /\ Idle(f) /\ GoesOn(f, pending) /\ overlapped' = (overlapped \/ Beside(f))
      /\ delivered' = delivered /\ stored' = stored /\ evicted' = evicted /\ failures' = failures
      /\ f \notin delivered
  BY DEF BeginsFlush, Idle, TypeOK
<1>2. pending \in Seq(Entry) /\ nextSeq \in Nat /\ dropped \in Nat
  BY DEF TypeOK
<1>3. ~overlapped' => ~overlapped /\ \A g \in Flush \ {f} : Idle(g) /\ batch'[g] = batch[g]
  BY <1>1 DEF Beside, GoesOn
<1>4. TypeOK'
  <2>1. delivered' \subseteq {g \in Flush : batch'[g] # <<>>}
    BY <1>1 DEF GoesOn, TypeOK
  <2>2. /\ phase' \in {"working", "closing", "reported"} /\ closer' \in Flush \cup {None}
        /\ phase' = "working" <=> closer' = None
    BY ConstantsAssumption DEF BeginsFlush, jobVars, TypeOK
  <2>3. overlapped' \in BOOLEAN
    BY <1>1 DEF TypeOK, Beside
  <2> QED BY <1>1, <2>1, <2>2, <2>3 DEF GoesOn, TypeOK
<1>5. Numbered'
  BY <1>1, <1>2, GoingOnNumbers DEF InBuffer
<1>6. DeliveredIsStored'
  BY <1>1 DEF DeliveredIsStored, GoesOn, TypeOK
<1>7. OneFlush'
  BY <1>3 DEF OneFlush, Idle
<1>8. WhileRoomy'
  <2> SUFFICES ASSUME Roomy'
               PROVE  /\ InOrder' /\ BatchesArePrefixes' /\ LogIsPrefix'
                      /\ failures' = 0 => LastFlushEmpties'
    BY DEF WhileRoomy
  <2>1. Roomy /\ \A g \in Flush \ {f} : Idle(g) /\ batch'[g] = batch[g]
    BY <1>1, <1>3 DEF Roomy
  <2>2. InOrder /\ LogIsPrefix /\ (failures = 0 => LastFlushEmpties)
    BY <2>1 DEF WhileRoomy
  <2>3. pending' = pending /\ nextSeq' = nextSeq /\ dropped' = 0
    BY <1>1, <2>2 DEF InOrder, GoesOn
  <2>4. InOrder'
    BY <2>2, <2>3 DEF InOrder, First
  <2>5. BatchesArePrefixes'
    <3>1. IsPrefix(batch[f])' /\ Len(pending') \in Nat
      BY <1>1, <1>2, <2>3 DEF IsPrefix, GoesOn
    <3>2. ASSUME NEW g \in Flush \ {f} PROVE IsPrefix(batch[g])'
      <4>1. batch'[g] = <<>> /\ Len(<<>>) = 0
        BY <2>1, EmptySeq DEF Idle
      <4> QED BY <3>1, <4>1 DEF IsPrefix
    <3> QED BY <3>1, <3>2 DEF BatchesArePrefixes
  <2>6. LogIsPrefix'
    BY <1>1, <2>2, <2>3 DEF LogIsPrefix, First, Seqs
  <2>7. ASSUME failures' = 0 PROVE LastFlushEmpties'
    <3>1. LastFlushEmpties
      BY <1>1, <2>2, <2>7
    <3> QED BY <1>1, <2>3, <3>1 DEF LastFlushEmpties, BeginsFlush, jobVars, Idle, GoesOn
  <2> QED BY <2>4, <2>5, <2>6, <2>7
<1>9. Announced'
  <2> SUFFICES ASSUME ~overlapped', evicted' # {}, dropped' = 0, ~\E e \in stored' : e.drops > 0
               PROVE  MarkerAhead'
    BY <1>4 DEF Announced, TypeOK
  <2>1. \A g \in Flush \ {f} : batch'[g] = <<>>
    BY <1>3 DEF Idle
  <2>2. pending' # <<>> /\ pending'[1].drops > 0
    BY <1>1, <1>2, <1>3 DEF Announced, MarkerAhead, GoesOn
  <2>3. batch'[f] # <<>> => batch'[f][1] = pending'[1]
    <3>1. batch'[f] \in Seq(Entry)
      BY <1>1 DEF GoesOn
    <3>2. batch'[f] # <<>> => 1 \in 1..Len(batch'[f])
      BY <3>1
    <3> QED BY <1>1, <3>2 DEF GoesOn
  <2> QED BY <2>1, <2>2, <2>3 DEF MarkerAhead, Idle
<1> QED BY <1>4, <1>5, <1>6, <1>7, <1>8, <1>9

-----------------------------------------------------------------------------
(* An upload is answered.                                                  *)

(* Whatever is in the buffer by then, what is confirmed leaves it and the rest stays. *)
LEMMA UnconfirmedFacts ==
  ASSUME TypeOK, NEW f \in Flush
  PROVE  /\ Unconfirmed(f) \in Seq(Entry)
         /\ Entries(Unconfirmed(f)) \subseteq InBuffer
         /\ Len(batch[f]) \in Nat
         /\ Len(batch[f]) <= Len(pending) =>
              /\ Len(Unconfirmed(f)) = Len(pending) - Len(batch[f])
              /\ \A i \in 1..Len(Unconfirmed(f)) : Unconfirmed(f)[i] = pending[Len(batch[f]) + i]
<1>1. pending \in Seq(Entry) /\ batch[f] \in Seq(Entry)
  BY DEF TypeOK
<1> DEFINE n == Len(batch[f])
<1>2. n \in Nat /\ Len(pending) \in Nat
  BY <1>1
<1> HIDE DEF n
<1>3. CASE n <= Len(pending)
  <2>1. n \in 0..Len(pending)
    BY <1>2, <1>3
  <2>2. /\ SubSeq(pending, n + 1, Len(pending)) \in Seq(Entry)
        /\ Len(SubSeq(pending, n + 1, Len(pending))) = Len(pending) - n
        /\ \A i \in 1..(Len(pending) - n) : SubSeq(pending, n + 1, Len(pending))[i] = pending[n + i]
        /\ Range(SubSeq(pending, n + 1, Len(pending))) \subseteq Range(pending)
    BY <1>1, <2>1, Rest
  <2>3. Unconfirmed(f) = SubSeq(pending, n + 1, Len(pending))
    BY DEF Unconfirmed, n
  <2> QED BY <1>2, <2>2, <2>3 DEF Entries, InBuffer, n
<1>4. CASE n > Len(pending)
  <2>1. Unconfirmed(f) = <<>>
    <3>1. n + 1 \in Int /\ Len(pending) \in Int /\ Len(pending) < n + 1
      BY <1>2, <1>4
    <3>2. SubSeq(pending, n + 1, Len(pending)) = <<>>
      BY <3>1, SubSeqEmpty
    <3> QED BY <3>2 DEF Unconfirmed, n
  <2>2. Entries(<<>>) = {} /\ <<>> \in Seq(Entry)
    BY EmptySeq DEF Entries, Range
  <2> QED BY <1>2, <1>4, <2>1, <2>2 DEF n
<1> QED BY <1>2, <1>3, <1>4

(* The batch that was stored leaves the buffer, and with it the marker it began with. *)
LEMMA ConfirmInv ==
  ASSUME Inv, NEW f \in Flush, Confirm(f)
  PROVE  Inv'
<1> USE DEF Inv
<1> DEFINE p == Unconfirmed(f)
           n == Len(batch[f])
<1>1. /\ p \in Seq(Entry) /\ Entries(p) \subseteq InBuffer /\ n \in Nat
      /\ n <= Len(pending) => /\ Len(p) = Len(pending) - n
                              /\ \A i \in 1..Len(p) : p[i] = pending[n + i]
  BY UnconfirmedFacts
<1>2. /\ f \in delivered /\ delivered' = delivered \ {f} /\ SendRest(f, p)
      /\ UNCHANGED <<stored, phase, closer, evicted, overlapped, failures>>
  BY DEF Confirm, Confirms, jobVars
<1> HIDE DEF p
<1>3. GoesOn(f, p)
  BY <1>1, <1>2, SendRestGoesOn
<1>4. /\ pending \in Seq(Entry) /\ batch[f] \in Seq(Entry) /\ batch[f] # <<>>
      /\ nextSeq \in Nat /\ dropped \in Nat /\ n >= 1 /\ Len(pending) \in Nat
  BY <1>2 DEF TypeOK
<1>5. Entries(batch[f]) \subseteq stored
  BY <1>2 DEF DeliveredIsStored
<1> HIDE DEF n
<1>6. ~overlapped => \A g \in Flush \ {f} : batch[g] = <<>> /\ batch'[g] = <<>>
  BY <1>3, <1>4 DEF OneFlush, Idle, GoesOn
<1>7. TypeOK'
  <2>1. delivered' \subseteq {g \in Flush : batch'[g] # <<>>}
    BY <1>2, <1>3 DEF GoesOn, TypeOK
  <2> QED BY <1>2, <1>3, <2>1 DEF GoesOn, TypeOK
<1>8. Numbered'
  BY <1>1, <1>2, <1>3, GoingOnNumbers
<1>9. DeliveredIsStored'
  BY <1>2, <1>3 DEF DeliveredIsStored, GoesOn, TypeOK
<1>10. OneFlush'
  BY <1>2, <1>6 DEF OneFlush, Idle
<1>11. WhileRoomy'
  <2> SUFFICES ASSUME Roomy'
               PROVE  /\ InOrder' /\ BatchesArePrefixes' /\ LogIsPrefix'
                      /\ failures' = 0 => LastFlushEmpties'
    BY DEF WhileRoomy
  <2>1. Roomy /\ \A g \in Flush \ {f} : batch[g] = <<>> /\ batch'[g] = <<>>
    BY <1>2, <1>6 DEF Roomy
  <2>2. InOrder /\ LogIsPrefix /\ BatchesArePrefixes /\ (failures = 0 => LastFlushEmpties)
    BY <2>1 DEF WhileRoomy
  <2>3. /\ n <= Len(pending)
        /\ \A i \in 1..n : batch[f][i] = pending[i]
    BY <2>2 DEF BatchesArePrefixes, IsPrefix, n
  <2>4. pending' = p /\ nextSeq' = nextSeq /\ dropped' = 0
    BY <1>3, <2>2 DEF InOrder, GoesOn
  <2>5. First \in Nat /\ First' = First + n
    <3>1. Len(pending') = Len(pending) - n /\ nextSeq' = nextSeq
      BY <1>1, <2>3, <2>4
    <3>2. nextSeq - (Len(pending) - n) = (nextSeq - Len(pending)) + n
      BY <1>1, <1>4
    <3> QED BY <2>2, <3>1, <3>2 DEF InOrder, First
  <2>6. ASSUME NEW i \in 1..Len(p) PROVE p[i] = Line((First + n) + i - 1)
    <3>1. n + i \in 1..Len(pending)
      BY <1>1, <1>4, <2>3
    <3>2. pending[n + i] = Line(First + (n + i) - 1)
      BY <2>2, <3>1 DEF InOrder
    <3>3. First + (n + i) - 1 = (First + n) + i - 1
      BY <1>1, <2>5
    <3> QED BY <1>1, <2>3, <3>2, <3>3
  <2>7. InOrder'
    BY <1>1, <2>4, <2>5, <2>6 DEF InOrder
  <2>8. BatchesArePrefixes'
    <3>1. IsPrefix(batch[f])' /\ Len(pending') \in Nat
      BY <1>1, <1>3, <2>4 DEF IsPrefix, GoesOn
    <3>2. ASSUME NEW g \in Flush \ {f} PROVE IsPrefix(batch[g])'
      <4>1. batch'[g] = <<>> /\ Len(<<>>) = 0
        BY <2>1, EmptySeq
      <4> QED BY <3>1, <4>1 DEF IsPrefix
    <3> QED BY <3>1, <3>2 DEF BatchesArePrefixes
  <2>9. LogIsPrefix'
    <3>1. ASSUME NEW k \in 0..(First + n - 1), ~(k < First) PROVE k \in Seqs(stored)
      <4>1. k - First + 1 \in 1..n /\ k - First + 1 \in 1..Len(pending)
        BY <1>1, <1>4, <2>3, <2>5, <3>1
      <4>2. pending[k - First + 1] = Line(First + (k - First + 1) - 1)
        BY <2>2, <4>1 DEF InOrder
      <4>3. batch[f][k - First + 1].seq = k
        BY <2>3, <2>5, <4>1, <4>2 DEF Line
      <4>4. batch[f][k - First + 1] \in stored
        BY <1>4, <1>5, <4>1, EntriesOf DEF n
      <4> QED BY <4>3, <4>4 DEF Seqs
    <3>2. \A k \in 0..(First + n - 1) : k \in Seqs(stored)
      BY <2>2, <2>5, <3>1 DEF LogIsPrefix
    <3>3. Seqs(stored') = Seqs(stored)
      BY <1>2 DEF Seqs
    <3>4. \A k \in 0..(First' - 1) : k \in Seqs(stored')
      <4>1. 0..(First' - 1) = 0..(First + n - 1)
        BY <1>1, <2>5
      <4> QED BY <3>2, <3>3, <4>1
    <3> QED BY <2>2, <3>3, <3>4 DEF LogIsPrefix
  <2>10. ASSUME failures' = 0 PROVE LastFlushEmpties'
    <3>1. LastFlushEmpties
      BY <1>2, <2>2, <2>10
    <3>2. pending # <<>>
      <4>1. Len(pending) # 0 /\ Len(<<>>) = 0
        BY <1>1, <1>4, <2>3, EmptySeq
      <4> QED BY <4>1
    <3>3. phase = "closing" => closer = f
      BY <2>1, <3>1, <3>2 DEF LastFlushEmpties, Idle, TypeOK
    <3> QED BY <1>2, <1>3, <3>1, <3>2, <3>3 DEF LastFlushEmpties, Idle, GoesOn
  <2> QED BY <2>7, <2>8, <2>9, <2>10
<1>12. Announced'
  <2> SUFFICES ASSUME ~overlapped', evicted' # {}, dropped' = 0, ~\E e \in stored' : e.drops > 0
               PROVE  MarkerAhead'
    BY <1>7 DEF Announced, TypeOK
  <2>1. ~MarkerAhead
    <3>1. 1 \in 1..Len(batch[f])
      BY <1>4 DEF n
    <3>2. batch[f][1] \in stored
      BY <1>4, <1>5, <3>1, EntriesOf
    <3> QED BY <1>2, <1>4, <3>2 DEF MarkerAhead, Idle
  <2>2. pending' # <<>> /\ pending'[1].drops > 0
    BY <1>2, <1>3, <1>4, <2>1 DEF Announced, GoesOn
  <2>3. batch'[f] # <<>> => batch'[f][1] = pending'[1]
    <3>1. batch'[f] \in Seq(Entry)
      BY <1>3 DEF GoesOn
    <3>2. batch'[f] # <<>> => 1 \in 1..Len(batch'[f])
      BY <3>1
    <3> QED BY <1>3, <3>2 DEF GoesOn
  <2> QED BY <1>2, <1>6, <2>2, <2>3 DEF MarkerAhead, Idle
<1> QED BY <1>7, <1>8, <1>9, <1>10, <1>11, <1>12

(* The server stores a batch: it begins where the log ends, or before. *)
LEMMA DeliverInv ==
  ASSUME Inv, NEW f \in Flush, Deliver(f)
  PROVE  Inv'
<1> USE DEF Inv
<1>1. /\ stored' = stored \cup Entries(batch[f]) /\ delivered' = delivered \cup {f}
      /\ UNCHANGED <<pending, nextSeq, dropped, batch, phase, closer, evicted, overlapped, failures>>
      /\ batch[f] # <<>> /\ batch[f] \in Seq(Entry)
  BY DEF Deliver, bufferVars, jobVars, Idle, TypeOK
<1>2. TypeOK'
  BY <1>1, EntriesOf DEF TypeOK
<1>3. Sent' = Sent
  BY <1>1 DEF Sent, InBuffer
<1>4. Numbered' /\ DeliveredIsStored' /\ OneFlush'
  BY <1>1, <1>3 DEF Numbered, DeliveredIsStored, OneFlush, Idle
<1>5. WhileRoomy'
  <2> SUFFICES ASSUME Roomy'
               PROVE  /\ InOrder' /\ BatchesArePrefixes' /\ LogIsPrefix'
                      /\ failures' = 0 => LastFlushEmpties'
    BY DEF WhileRoomy
  <2>1. InOrder /\ LogIsPrefix /\ BatchesArePrefixes /\ (failures = 0 => LastFlushEmpties)
    BY <1>1 DEF WhileRoomy, Roomy
  <2>2. First \in Nat /\ Len(pending) \in Nat /\ Len(batch[f]) \in Nat
    BY <1>1, <2>1 DEF InOrder, TypeOK
  <2>3. ASSUME NEW i \in 1..Len(batch[f]) PROVE batch[f][i].seq = First + i - 1
    <3>1. i \in 1..Len(pending) /\ batch[f][i] = pending[i]
      BY <2>1, <2>2 DEF BatchesArePrefixes, IsPrefix
    <3>2. pending[i] = Line(First + i - 1)
      BY <2>1, <3>1 DEF InOrder
    <3> QED BY <3>1, <3>2 DEF Line
  <2>4. ASSUME NEW m \in Seqs(stored'), NEW k \in 0..(m - 1) PROVE k \in Seqs(stored')
    <3>1. CASE m \in Seqs(stored)
      BY <1>1, <2>1, <3>1 DEF LogIsPrefix, Seqs
    <3>2. CASE m \notin Seqs(stored)
      <4>1. PICK i \in 1..Len(batch[f]) : m = batch[f][i].seq
        BY <1>1, <3>2, EntriesOf DEF Seqs
      <4>2. m = First + i - 1
        BY <2>3, <4>1
      <4>3. CASE k < First
        BY <1>1, <2>1, <2>2, <4>3 DEF LogIsPrefix, Seqs
      <4>4. CASE ~(k < First)
        <5>1. k - First + 1 \in 1..Len(batch[f])
          BY <2>2, <4>2, <4>4
        <5>2. batch[f][k - First + 1].seq = First + (k - First + 1) - 1
          BY <2>3, <5>1
        <5>3. batch[f][k - First + 1].seq = k
          BY <2>2, <5>2
        <5>4. batch[f][k - First + 1] \in stored'
          BY <1>1, <5>1, EntriesOf
        <5> QED BY <5>3, <5>4 DEF Seqs
      <4> QED BY <4>3, <4>4
    <3> QED BY <3>1, <3>2
  <2>5. LogIsPrefix'
    BY <1>1, <2>1, <2>4 DEF LogIsPrefix, Seqs, First
  <2> QED BY <1>1, <2>1, <2>5 DEF InOrder, First, BatchesArePrefixes, IsPrefix, LastFlushEmpties, Idle
<1>6. Announced'
  BY <1>1 DEF Announced, MarkerAhead, Idle
<1> QED BY <1>2, <1>4, <1>5, <1>6

(* An upload that fails leaves the buffer as it is. *)
LEMMA FailInv ==
  ASSUME Inv, NEW f \in Flush, UploadFails(f)
  PROVE  Inv'
<1> USE DEF Inv
<1>1. /\ failures' = failures + 1 /\ batch' = [batch EXCEPT ![f] = <<>>] /\ delivered' = delivered \ {f}
      /\ UNCHANGED <<pending, nextSeq, dropped, stored, phase, closer, evicted, overlapped>>
  BY DEF UploadFails, Forgets, bufferVars, jobVars
<1>2. /\ <<>> \in Seq(Entry) /\ Len(<<>>) = 0 /\ Entries(<<>>) = {}
  BY EmptySeq DEF Entries, Range
<1>3. /\ batch' \in [Flush -> Seq(Entry)] /\ batch'[f] = <<>>
      /\ \A g \in Flush \ {f} : batch'[g] = batch[g]
  BY <1>1, <1>2 DEF TypeOK
<1>4. TypeOK'
  <2>1. failures' \in 0..MaxFailures
    BY <1>1, ConstantsAssumption DEF UploadFails, TypeOK
  <2>2. delivered' \subseteq {g \in Flush : batch'[g] # <<>>}
    BY <1>1, <1>3 DEF TypeOK
  <2> QED BY <1>1, <1>3, <2>1, <2>2 DEF TypeOK
<1>5. Numbered'
  <2>1. Sent' \subseteq Sent
    BY <1>1, <1>2, <1>3 DEF Sent, InBuffer
  <2> QED BY <1>1, <2>1 DEF Numbered
<1>6. DeliveredIsStored'
  BY <1>1, <1>3 DEF DeliveredIsStored, TypeOK
<1>7. OneFlush'
  BY <1>1, <1>3 DEF OneFlush, Idle
<1>8. WhileRoomy'
  <2>1. failures' # 0
    BY <1>1 DEF TypeOK
  <2>2. Len(pending) \in Nat
    BY DEF TypeOK
  <2>3. BatchesArePrefixes => BatchesArePrefixes'
    BY <1>1, <1>2, <1>3, <2>2 DEF BatchesArePrefixes, IsPrefix
  <2> QED BY <1>1, <2>1, <2>3 DEF WhileRoomy, Roomy, InOrder, First, LogIsPrefix, Seqs
<1>9. Announced'
  BY <1>1, <1>3 DEF Announced, MarkerAhead, Idle
<1> QED BY <1>4, <1>5, <1>6, <1>7, <1>8, <1>9

-----------------------------------------------------------------------------
(* A line is written.                                                      *)

(* While nothing was dropped a line is the next in order; one that drops others counts them. *)
LEMMA LogInv ==
  ASSUME Inv, Log
  PROVE  Inv'
<1> USE DEF Inv
<1> DEFINE full == Append(pending, Line(nextSeq))
           excess == IF Len(full) > Capacity THEN Len(full) - Capacity ELSE 0
<1>1. /\ pending \in Seq(Entry) /\ nextSeq \in Nat /\ dropped \in Nat /\ Len(pending) \in Nat
      /\ Line(nextSeq) \in Entry
  BY DEF TypeOK, Line, Entry
<1>2. /\ full \in Seq(Entry) /\ Len(full) = Len(pending) + 1
      /\ full[Len(pending) + 1] = Line(nextSeq)
      /\ \A i \in 1..Len(pending) : full[i] = pending[i]
  BY <1>1
<1>3. excess \in 0..Len(full)
  BY <1>1, <1>2, ConstantsAssumption
<1>4. /\ pending' = SubSeq(full, excess + 1, Len(full))
      /\ evicted' = evicted \cup Entries(SubSeq(full, 1, excess))
      /\ dropped' = dropped + excess /\ nextSeq' = nextSeq + 1
      /\ phase = "working" \/ (phase = "closing" /\ ~Idle(closer))
      /\ UNCHANGED <<batch, delivered, stored, phase, closer, overlapped, failures>>
  BY DEF Log, jobVars
<1> HIDE DEF full, excess
<1>5. /\ pending' \in Seq(Entry) /\ Len(pending') = Len(full) - excess
      /\ \A i \in 1..(Len(full) - excess) : pending'[i] = full[excess + i]
      /\ Entries(pending') \subseteq Entries(full)
  BY <1>2, <1>3, <1>4, Rest DEF Entries
<1>6. /\ SubSeq(full, 1, excess) \in Seq(Entry) /\ Len(SubSeq(full, 1, excess)) = excess
      /\ Entries(SubSeq(full, 1, excess)) \subseteq Entries(full)
  BY <1>2, <1>3, Prefix DEF Entries
<1>7. Entries(full) \subseteq InBuffer \cup {Line(nextSeq)}
  <2> SUFFICES ASSUME NEW e \in Entries(full) PROVE e \in InBuffer \cup {Line(nextSeq)}
    OBVIOUS
  <2>1. PICK i \in 1..Len(full) : e = full[i]
    BY <1>2, EntriesOf
  <2>2. CASE i = Len(pending) + 1
    BY <1>2, <2>1, <2>2
  <2>3. CASE i # Len(pending) + 1
    <3>1. i \in 1..Len(pending)
      BY <1>1, <1>2, <2>1, <2>3
    <3>2. pending[i] \in InBuffer
      BY <1>1, <3>1, EntriesOf DEF InBuffer
    <3> QED BY <1>2, <2>1, <3>1, <3>2
  <2> QED BY <2>2, <2>3
<1>8. dropped' \in Nat /\ nextSeq' \in Nat /\ (excess > 0 => dropped' > 0)
  BY <1>1, <1>2, <1>3, <1>4
<1>9. excess = 0 =>
         /\ pending' # <<>> /\ Len(pending') = Len(pending) + 1
         /\ \A i \in 1..(Len(pending) + 1) : pending'[i] = full[i]
         /\ dropped' = dropped /\ evicted' = evicted
  <2> SUFFICES ASSUME excess = 0
               PROVE  /\ pending' # <<>> /\ Len(pending') = Len(pending) + 1
                      /\ \A i \in 1..(Len(pending) + 1) : pending'[i] = full[i]
                      /\ dropped' = dropped /\ evicted' = evicted
    OBVIOUS
  <2>1. Len(pending') = Len(pending) + 1 /\ dropped' = dropped
    BY <1>1, <1>2, <1>4, <1>5
  <2>2. \A i \in 1..(Len(pending) + 1) : pending'[i] = full[i]
    BY <1>1, <1>2, <1>5
  <2>3. pending' # <<>>
    <3>1. Len(pending') # 0 /\ Len(<<>>) = 0
      BY <1>1, <2>1, EmptySeq
    <3> QED BY <3>1
  <2>4. SubSeq(full, 1, excess) = <<>>
    BY SubSeqEmpty
  <2>5. Entries(<<>>) = {}
    BY DEF Entries, Range
  <2> QED BY <1>4, <2>1, <2>2, <2>3, <2>4, <2>5
<1>10. excess > 0 => evicted' # {}
  <2> SUFFICES ASSUME excess > 0 PROVE evicted' # {}
    OBVIOUS
  <2>1. SubSeq(full, 1, excess) # <<>>
    <3>1. Len(SubSeq(full, 1, excess)) # 0 /\ Len(<<>>) = 0
      BY <1>3, <1>6, EmptySeq
    <3> QED BY <3>1
  <2> QED BY <1>4, <1>6, <2>1, EntriesOf
<1>11. excess = 0 \/ excess > 0
  BY <1>2, <1>3
<1>12. TypeOK'
  <2>1. evicted' \subseteq Entry
    BY <1>4, <1>6, EntriesOf DEF TypeOK
  <2> QED BY <1>4, <1>5, <1>8, <2>1 DEF TypeOK
<1>13. Numbered'
  <2>1. Sent' \subseteq Sent \cup {Line(nextSeq)}
    BY <1>4, <1>5, <1>7 DEF Sent, InBuffer
  <2>2. Sent \subseteq Entry
    BY EntriesOf DEF Sent, InBuffer, TypeOK
  <2>3. \A e \in Sent : e.seq \in Nat /\ e.seq < nextSeq /\ e.seq < nextSeq'
    BY <1>1, <1>4, <2>2 DEF Numbered, Entry
  <2>4. Line(nextSeq).seq = nextSeq /\ nextSeq < nextSeq'
    BY <1>1, <1>4 DEF Line
  <2> QED BY <1>1, <2>1, <2>3, <2>4 DEF Numbered
<1>14. DeliveredIsStored' /\ OneFlush'
  BY <1>4 DEF DeliveredIsStored, OneFlush, Idle
<1>15. WhileRoomy'
  <2> SUFFICES ASSUME Roomy'
               PROVE  /\ InOrder' /\ BatchesArePrefixes' /\ LogIsPrefix'
                      /\ failures' = 0 => LastFlushEmpties'
    BY DEF WhileRoomy
  <2>1. excess = 0 /\ Roomy
    BY <1>4, <1>9, <1>10, <1>11 DEF Roomy
  <2>2. InOrder /\ LogIsPrefix /\ BatchesArePrefixes
    BY <2>1 DEF WhileRoomy
  <2>3. First \in Nat /\ First' = First
    <3>1. (nextSeq + 1) - (Len(pending) + 1) = nextSeq - Len(pending)
      BY <1>1
    <3> QED BY <1>4, <1>9, <2>1, <2>2, <3>1 DEF InOrder, First
  <2>4. ASSUME NEW i \in 1..Len(pending') PROVE pending'[i] = Line(First + i - 1)
    <3>1. CASE i = Len(pending) + 1
      <4>1. First + i - 1 = nextSeq
        BY <1>1, <3>1 DEF First
      <4>2. pending'[i] = Line(nextSeq)
        BY <1>1, <1>2, <1>9, <2>1, <3>1
      <4> QED BY <4>1, <4>2
    <3>2. CASE i # Len(pending) + 1
      <4>1. i \in 1..Len(pending) /\ i \in 1..(Len(pending) + 1)
        BY <1>1, <1>9, <2>1, <3>2
      <4>2. pending'[i] = pending[i]
        BY <1>2, <1>9, <2>1, <4>1
      <4> QED BY <2>2, <4>1, <4>2 DEF InOrder
    <3> QED BY <3>1, <3>2
  <2>5. InOrder'
    BY <1>9, <2>1, <2>2, <2>3, <2>4 DEF InOrder
  <2>6. BatchesArePrefixes'
    <3> SUFFICES ASSUME NEW f \in Flush PROVE IsPrefix(batch[f])'
      BY DEF BatchesArePrefixes
    <3>1. IsPrefix(batch[f]) /\ Len(batch[f]) \in Nat
      BY <2>2 DEF BatchesArePrefixes, TypeOK
    <3>2. Len(batch[f]) <= Len(pending')
      BY <1>1, <1>9, <2>1, <3>1 DEF IsPrefix
    <3>3. ASSUME NEW i \in 1..Len(batch[f]) PROVE batch[f][i] = pending'[i]
      <4>1. i \in 1..Len(pending) /\ i \in 1..(Len(pending) + 1) /\ batch[f][i] = pending[i]
        BY <1>1, <3>1 DEF IsPrefix
      <4> QED BY <1>2, <1>9, <2>1, <4>1
    <3> QED BY <1>4, <3>2, <3>3 DEF IsPrefix
  <2>7. LogIsPrefix'
    BY <1>4, <2>2, <2>3 DEF LogIsPrefix, Seqs
  <2>8. LastFlushEmpties'
    BY <1>4 DEF LastFlushEmpties, Idle
  <2> QED BY <2>5, <2>6, <2>7, <2>8
<1>16. Announced'
  <2> SUFFICES ASSUME ~overlapped, evicted' # {}, dropped' = 0, ~\E e \in stored : e.drops > 0
               PROVE  MarkerAhead'
    BY <1>4, <1>8 DEF Announced
  <2>1. excess = 0
    BY <1>8, <1>11
  <2>2. MarkerAhead
    BY <1>9, <2>1 DEF Announced
  <2>3. pending'[1] = pending[1]
    <3>1. 1 \in 1..Len(pending) /\ 1 \in 1..(Len(pending) + 1)
      BY <1>1, <2>2 DEF MarkerAhead
    <3> QED BY <1>2, <1>9, <2>1, <3>1
  <2> QED BY <1>4, <1>9, <2>1, <2>2, <2>3 DEF MarkerAhead, Idle
<1> QED BY <1>12, <1>13, <1>14, <1>15, <1>16

-----------------------------------------------------------------------------
(* The theorems.                                                           *)

(* Every step preserves the invariant. *)
LEMMA NextInv == Inv /\ [Next]_vars => Inv'
<1> SUFFICES ASSUME Inv, [Next]_vars PROVE Inv'
  OBVIOUS
<1>1. pending \in Seq(Entry) /\ TypeOK
  BY DEF Inv, TypeOK
<1>2. CASE Log
  BY <1>2, LogInv
<1>3. ASSUME NEW f \in Flush, StartFlush(f) PROVE Inv'
  <2>1. GoesOn(f, pending)
    BY <1>1, <1>3, PeekGoesOn DEF StartFlush, SomethingToSend
  <2>2. BeginsFlush(f)
    BY <1>3, <2>1 DEF StartFlush, BeginsFlush
  <2> QED BY <2>2, BeginInv
<1>4. ASSUME NEW f \in Flush, EndJob(f) PROVE Inv'
  <2>1. GoesOn(f, pending)
    BY <1>1, <1>4, SendRestGoesOn DEF EndJob
  <2>2. BeginsFlush(f)
    BY <1>4, <2>1 DEF EndJob, BeginsFlush
  <2> QED BY <2>2, BeginInv
<1>5. CASE Report
  <2>1. closer \in Flush
    BY <1>1, <1>5 DEF Report, LastFlushReturned, TypeOK
  <2>2. GoesOn(closer, pending)
    BY <1>1, <1>5, <2>1, SendRestGoesOn DEF Report
  <2>3. BeginsFlush(closer)
    BY <1>5, <2>2 DEF Report, LastFlushReturned, BeginsFlush
  <2> QED BY <2>1, <2>3, BeginInv
<1>6. ASSUME NEW f \in Flush, Deliver(f) \/ Confirm(f) \/ UploadFails(f) PROVE Inv'
  BY <1>6, DeliverInv, ConfirmInv, FailInv
<1>7. CASE UNCHANGED vars
  BY <1>7, Stutter
<1> QED BY <1>2, <1>3, <1>4, <1>5, <1>6, <1>7 DEF Next

LEMMA Invariance == Spec => []Inv
BY InitInv, NextInv, PTL DEF Spec

(* In every reachable state the buffer, the batches and the log are what TypeOK says, and
   only a flush under way has been answered. *)
THEOREM BufferTypeCorrect == Spec => []TypeOK
<1>1. Inv => TypeOK
  BY DEF Inv
<1> QED BY <1>1, Invariance, PTL

(* No line is lost, and no line is missing, without somebody knowing: for any number of
   flushes, failures, lines and any sizes (apps/worker/src/log-buffer.ts flush, and
   appendLogs of services/logs.ts). *)
THEOREM LogsAreAccounted == Spec => []LogIsAccounted
BY Invariance, InvAccounts, PTL
-----------------------------------------------------------------------------
(* The outboxes: type correctness, and that no copy of an email goes out unaccounted for.  *)

(* The invariant of the outboxes. *)

(* What a sender has before it is there, and was not at its last attempt when it was read. *)
ReadIsSound(s) ==
  /\ \A r \in sender[s].batch :
       /\ sender[s].outbox = "mail" => r.row \in DOMAIN mail /\ r.attempts < MaxAttempts
       /\ sender[s].outbox = "writes" => r.row \in DOMAIN writes /\ r.attempts < MaxAttempts
       /\ sender[s].outbox \in {"messages", "approval"} => r.row \in DOMAIN messages
  /\ sender[s].outbox = "approval" => sender[s].request \in DOMAIN requests
ReadsAreSound == \A s \in Sender : ReadIsSound(s)

(* The senders that may still send the email of row i, or make its row due again. *)
MaySend(s, i) ==
  /\ sender[s].outbox = "mail" /\ sender[s].batch # {} /\ Row(s).row = i
  /\ \/ sender[s].step = "claimed"
     \/ sender[s].step = "answered" /\ sender[s].outcome \notin {"accepted", "permanent"}
Owing(i) == {s \in Sender : MaySend(s, i)}

(* A copy is owed once by a row that is due, and once by each of those senders. *)
CopiesOwed(i) ==
  mail[i].copies + Cardinality(Owing(i)) + (IF mail[i].status \in {"pending", "failed"} THEN 1 ELSE 0)
    <= 1 + mail[i].unheard + mail[i].retries
CopiesAreOwed == \A i \in DOMAIN mail : CopiesOwed(i)

InvOutboxes == TypeOKOutboxes /\ ReadsAreSound /\ CopiesAreOwed

-----------------------------------------------------------------------------
(* Sequences and batches.                                                  *)

LEMMA RowIsNumbered ==
  ASSUME NEW S, NEW rows \in Seq(S), NEW i \in DOMAIN rows
  PROVE  i \in Nat /\ rows[i] \in S
OBVIOUS

(* A row of an outbox is written. *)
LEMMA RowIsWritten ==
  ASSUME NEW S, NEW rows \in Seq(S), NEW i \in DOMAIN rows, NEW x \in S
  PROVE  /\ [rows EXCEPT ![i] = x] \in Seq(S)
         /\ DOMAIN [rows EXCEPT ![i] = x] = DOMAIN rows
         /\ [rows EXCEPT ![i] = x][i] = x
         /\ \A j \in DOMAIN rows : j # i => [rows EXCEPT ![i] = x][j] = rows[j]
OBVIOUS

(* A row is added. *)
LEMMA RowIsAdded ==
  ASSUME NEW S, NEW rows \in Seq(S), NEW x \in S
  PROVE  /\ Append(rows, x) \in Seq(S)
         /\ DOMAIN rows \subseteq DOMAIN Append(rows, x)
         /\ Len(rows) + 1 \in DOMAIN Append(rows, x) /\ Len(rows) + 1 \in Nat
         /\ Append(rows, x)[Len(rows) + 1] = x
         /\ \A j \in DOMAIN rows : Append(rows, x)[j] = rows[j]
         /\ \A j \in DOMAIN Append(rows, x) : j \in DOMAIN rows \/ j = Len(rows) + 1
         /\ Len(rows) + 1 \notin DOMAIN rows
OBVIOUS

(* Some rows are rewritten. *)
LEMMA RowsAreRewritten ==
  ASSUME NEW S, NEW rows \in Seq(S), NEW f \in [DOMAIN rows -> S]
  PROVE  f \in Seq(S) /\ DOMAIN f = DOMAIN rows
<1>1. DOMAIN rows = 1..Len(rows) /\ Len(rows) \in Nat
  BY LenProperties
<1>2. f \in Seq(S)
  BY <1>1, SeqDef
<1> QED BY <1>1, <1>2, LenProperties

LEMMA OldestIs ==
  ASSUME NEW b \in SUBSET Read, b # {}
  PROVE  Oldest(b) \in b
<1> DEFINE Indices == {r.row : r \in b}
           Less == OpToRel(<, Nat)
<1>1. Indices \subseteq Nat /\ Indices # {}
  BY DEF Read
<1>2. PICK x \in Indices : \A y \in Indices : <<y, x>> \notin Less
  BY <1>1, WFMin, NatLessThanWellFounded
<1>3. \A y \in Indices : x <= y
  <2> SUFFICES ASSUME NEW y \in Indices, y < x PROVE FALSE
    <3> HIDE DEF Indices, Less
    <3> QED BY <1>1
  <2>1. <<y, x>> \in Less
    BY <1>1 DEF OpToRel
  <2> QED BY <1>2, <2>1
<1>4. PICK r \in b : r.row = x
  OBVIOUS
<1>5. \A q \in b : r.row <= q.row
  BY <1>3, <1>4
<1> HIDE DEF Indices, Less
<1> QED BY <1>5 DEF Oldest

(* The row a sender works on is one of its batch. *)
LEMMA RowIs ==
  ASSUME TypeOKOutboxes, NEW s \in Sender, sender[s].batch # {}
  PROVE  Row(s) \in sender[s].batch /\ Row(s) \in Read
<1>1. sender[s].batch \in SUBSET Read
  BY DEF TypeOKOutboxes, Senders
<1> QED BY <1>1, OldestIs DEF Row

(* What the move to the next row leaves a sender with. *)
LEMMA NextRowIs ==
  ASSUME TypeOKOutboxes, NEW s \in Sender, NextRow(s)
  PROVE  /\ sender' \in [Sender -> Senders]
         /\ \A t \in Sender : t # s => sender'[t] = sender[t]
         /\ sender'[s].batch \subseteq sender[s].batch
         /\ sender'[s].step = "start"
         /\ \/ sender'[s].outbox = "none"
            \/ sender'[s].outbox = sender[s].outbox /\ sender'[s].request = sender[s].request
<1> DEFINE next == [sender[s] EXCEPT !.batch = @ \ {Row(s)}, !.step = "start",
                                     !.outcome = "accepted"]
           x == IF sender[s].batch = {Row(s)} THEN Resting ELSE next
<1>1. sender \in [Sender -> Senders]
  BY DEF TypeOKOutboxes
<1>2. /\ Resting \in Senders /\ Resting.batch = {} /\ Resting.step = "start"
      /\ Resting.outbox = "none"
  BY DEF Resting, Senders, Outcomes
<1>3. /\ next \in Senders /\ next.batch \subseteq sender[s].batch /\ next.step = "start"
      /\ next.outbox = sender[s].outbox /\ next.request = sender[s].request
  BY <1>1 DEF Senders, Outcomes
<1>4. sender' = [sender EXCEPT ![s] = x]
  BY DEF NextRow, Becomes
<1>5. x = Resting \/ x = next
  OBVIOUS
<1> QED BY <1>1, <1>2, <1>3, <1>4, <1>5

LEMMA SenderMoves ==
  ASSUME TypeOKOutboxes, NEW s \in Sender, NEW x \in Senders, Becomes(s, x)
  PROVE  /\ sender' \in [Sender -> Senders] /\ sender'[s] = x
         /\ \A t \in Sender : t # s => sender'[t] = sender[t]
BY DEF TypeOKOutboxes, Becomes

(* A sender that goes on with the same row. *)
LEMMA SameRow ==
  ASSUME TypeOKOutboxes, NEW s \in Sender,
         NEW step \in {"claimed", "answered", "told"}, NEW outcome \in Outcomes,
         Moves(s, step, outcome)
  PROVE  /\ sender' \in [Sender -> Senders]
         /\ \A t \in Sender : t # s => sender'[t] = sender[t]
         /\ sender'[s].batch = sender[s].batch /\ sender'[s].outbox = sender[s].outbox
         /\ sender'[s].request = sender[s].request
         /\ sender'[s].step = step /\ sender'[s].outcome = outcome
<1> DEFINE x == [sender[s] EXCEPT !.step = step, !.outcome = outcome]
<1>1. sender[s] \in Senders
  BY DEF TypeOKOutboxes
<1>2. /\ x \in Senders /\ x.batch = sender[s].batch /\ x.outbox = sender[s].outbox
      /\ x.request = sender[s].request /\ x.step = step /\ x.outcome = outcome
  BY <1>1 DEF Senders
<1>3. Becomes(s, x)
  BY DEF Moves
<1> HIDE DEF x
<1> QED BY <1>2, <1>3, SenderMoves

(* Rows stay where they are, and a sender reads no others than it had. *)
LEMMA ReadsStay ==
  ASSUME ReadsAreSound, NEW s \in Sender,
         \A t \in Sender : t # s => sender'[t] = sender[t],
         DOMAIN mail \subseteq DOMAIN mail', DOMAIN writes \subseteq DOMAIN writes',
         DOMAIN messages \subseteq DOMAIN messages', DOMAIN requests \subseteq DOMAIN requests',
         sender'[s].batch \subseteq sender[s].batch,
         \/ sender'[s].outbox = "none"
         \/ sender'[s].outbox = sender[s].outbox /\ sender'[s].request = sender[s].request
  PROVE  ReadsAreSound'
<1> SUFFICES ASSUME NEW t \in Sender PROVE ReadIsSound(t)'
  BY DEF ReadsAreSound
<1>1. ReadIsSound(t)
  BY DEF ReadsAreSound
<1>2. CASE t # s
  BY <1>1, <1>2 DEF ReadIsSound
<1>3. CASE t = s
  BY <1>1, <1>3 DEF ReadIsSound
<1> QED BY <1>2, <1>3

(* ... and it starts on a batch of rows that are there. *)
LEMMA ReadsBegin ==
  ASSUME ReadsAreSound, NEW s \in Sender,
         \A t \in Sender : t # s => sender'[t] = sender[t],
         DOMAIN mail \subseteq DOMAIN mail', DOMAIN writes \subseteq DOMAIN writes',
         DOMAIN messages \subseteq DOMAIN messages', DOMAIN requests \subseteq DOMAIN requests',
         ReadIsSound(s)'
  PROVE  ReadsAreSound'
<1> SUFFICES ASSUME NEW t \in Sender PROVE ReadIsSound(t)'
  BY DEF ReadsAreSound
<1>1. ReadIsSound(t)
  BY DEF ReadsAreSound
<1>2. CASE t # s
  BY <1>1, <1>2 DEF ReadIsSound
<1>3. CASE t = s
  BY <1>3
<1> QED BY <1>2, <1>3

-----------------------------------------------------------------------------
(* Copies.                                                                 *)

LEMMA OwingIsFinite ==
  ASSUME NEW i
  PROVE  IsFiniteSet(Owing(i)) /\ Cardinality(Owing(i)) \in Nat
<1>1. Owing(i) \in SUBSET Sender
  BY DEF Owing
<1>2. IsFiniteSet(Owing(i))
  BY <1>1, OutboxesAssumption, FS_Subset
<1> QED BY <1>2, FS_CardinalityType

LEMMA MailRowCounts ==
  ASSUME NEW row \in MailRow
  PROVE  /\ row.copies \in Nat /\ row.unheard \in Nat /\ row.retries \in Nat
         /\ row.attempts \in Nat
BY OutboxesAssumption DEF MailRow

LEMMA WriteRowCounts ==
  ASSUME NEW row \in WriteRow
  PROVE  row.attempts \in Nat
BY OutboxesAssumption DEF WriteRow

LEMMA MessageRowCounts ==
  ASSUME NEW row \in MessageRow
  PROVE  row.attempts \in Nat
BY DEF MessageRow

(* The email of a row that stays as it is: only sender s moves, and not into debt. *)
LEMMA DebtsStay ==
  ASSUME TypeOKOutboxes, CopiesAreOwed, NEW s \in Sender, UNCHANGED mail,
         \A t \in Sender : t # s => sender'[t] = sender[t],
         \/ sender'[s] = sender[s]
         \/ sender'[s].outbox # "mail" \/ sender'[s].batch = {} \/ sender'[s].step = "start"
  PROVE  CopiesAreOwed'
<1> SUFFICES ASSUME NEW i \in DOMAIN mail PROVE CopiesOwed(i)'
  BY DEF CopiesAreOwed
<1>1. \A t \in Sender : MaySend(t, i)' => MaySend(t, i)
  BY DEF MaySend, Row
<1>2. Owing(i)' \in SUBSET Owing(i)
  BY <1>1 DEF Owing
<1>3. /\ Cardinality(Owing(i)') <= Cardinality(Owing(i)) /\ Cardinality(Owing(i)) \in Nat
      /\ Cardinality(Owing(i)') \in Nat
  BY <1>2, OwingIsFinite, FS_Subset, FS_CardinalityType
<1>4. mail[i].copies \in Nat /\ mail[i].unheard \in Nat /\ mail[i].retries \in Nat
  <2>1. mail[i] \in MailRow
    BY DEF TypeOKOutboxes
  <2> QED BY <2>1, MailRowCounts
<1>5. CopiesOwed(i)
  BY DEF CopiesAreOwed
<1> QED BY <1>3, <1>4, <1>5 DEF CopiesOwed

(* One sender more or less is one copy more or less. *)
LEMMA OneSenderMoves ==
  ASSUME NEW s \in Sender, NEW i, \A t \in Sender : t # s => sender'[t] = sender[t]
  PROVE  \E n \in Nat : /\ Cardinality(Owing(i)) = n + (IF MaySend(s, i) THEN 1 ELSE 0)
                        /\ Cardinality(Owing(i))' = n + (IF MaySend(s, i)' THEN 1 ELSE 0)
<1> DEFINE others == Owing(i) \ {s}
           n == Cardinality(others)
<1>1. \A t \in Sender : t # s => (MaySend(t, i)' <=> MaySend(t, i))
  BY DEF MaySend, Row
<1>2. Owing(i)' \ {s} = others
  BY <1>1 DEF Owing
<1>3. IsFiniteSet(others) /\ n \in Nat
  BY OwingIsFinite, FS_RemoveElement, FS_CardinalityType
<1>4. Owing(i) = IF MaySend(s, i) THEN others \cup {s} ELSE others
  BY DEF Owing
<1>5. Owing(i)' = IF MaySend(s, i)' THEN others \cup {s} ELSE others
  BY <1>2 DEF Owing
<1>6. Cardinality(others \cup {s}) = n + 1
  BY <1>3, FS_AddElement
<1> HIDE DEF n, others
<1>7. Cardinality(Owing(i)) = n + (IF MaySend(s, i) THEN 1 ELSE 0)
  <2>1. CASE MaySend(s, i)
    BY <1>4, <1>6, <2>1
  <2>2. CASE ~MaySend(s, i)
    BY <1>3, <1>4, <2>2 DEF n
  <2> QED BY <2>1, <2>2
<1>8. Cardinality(Owing(i)') = n + (IF MaySend(s, i)' THEN 1 ELSE 0)
  <2>1. CASE MaySend(s, i)'
    BY <1>5, <1>6, <2>1
  <2>2. CASE ~MaySend(s, i)'
    BY <1>3, <1>5, <2>2 DEF n
  <2> QED BY <2>1, <2>2
<1> QED BY <1>3, <1>7, <1>8

(* A sender works on row j: the others are as before. *)
LEMMA OtherRows ==
  ASSUME TypeOKOutboxes, NEW s \in Sender, sender[s].batch # {},
         \A t \in Sender : t # s => sender'[t] = sender[t],
         \/ sender'[s].batch = sender[s].batch
         \/ sender'[s].step = "start" \/ sender'[s].batch = {},
         NEW i, i # Row(s).row, CopiesOwed(i), mail'[i] = mail[i], mail[i] \in MailRow
  PROVE  CopiesOwed(i)'
<1>1. ~MaySend(s, i) /\ ~MaySend(s, i)'
  BY DEF MaySend, Row
<1>2. PICK n \in Nat : /\ Cardinality(Owing(i)) = n + (IF MaySend(s, i) THEN 1 ELSE 0)
                       /\ Cardinality(Owing(i))' = n + (IF MaySend(s, i)' THEN 1 ELSE 0)
  BY OneSenderMoves
<1>3. Cardinality(Owing(i))' = Cardinality(Owing(i))
  BY <1>1, <1>2
<1> QED BY <1>3 DEF CopiesOwed

-----------------------------------------------------------------------------
(* The initial states.                                                     *)

LEMMA InitOutboxesInv == InitOutboxes => InvOutboxes
<1> SUFFICES ASSUME InitOutboxes PROVE InvOutboxes
  OBVIOUS
<1>1. Resting \in Senders
  BY DEF Resting, Senders, Outcomes
<1>2. \A S : <<>> \in Seq(S)
  OBVIOUS
<1>3. TypeOKOutboxes
  BY <1>1, <1>2, OutboxesAssumption DEF InitOutboxes, TypeOKOutboxes
<1>4. ReadsAreSound
  BY DEF InitOutboxes, ReadsAreSound, ReadIsSound, Resting
<1>5. CopiesAreOwed
  BY DEF InitOutboxes, CopiesAreOwed
<1> QED BY <1>3, <1>4, <1>5 DEF InvOutboxes

LEMMA StutterOutboxes == InvOutboxes /\ UNCHANGED outboxVars => InvOutboxes'
<1> SUFFICES ASSUME InvOutboxes, UNCHANGED outboxVars PROVE InvOutboxes'
  OBVIOUS
<1>1. UNCHANGED <<mail, writes, board, messages, requests, sender, traffic, toggles>>
  BY DEF outboxVars, rowVars
<1>2. TypeOKOutboxes'
  BY <1>1 DEF InvOutboxes, TypeOKOutboxes
<1>3. ReadsAreSound'
  BY <1>1 DEF InvOutboxes, ReadsAreSound, ReadIsSound
<1>4. CopiesAreOwed'
  BY <1>1 DEF InvOutboxes, CopiesAreOwed, CopiesOwed, Owing, MaySend, Row
<1> QED BY <1>2, <1>3, <1>4 DEF InvOutboxes

-----------------------------------------------------------------------------
(* Mail.                                                                   *)

LEMMA QuotaIs ==
  ASSUME TypeOKOutboxes, NEW kind \in {"mail", "talk", "requests", "faults"}, Quota(kind)
  PROVE  traffic' \in [mail : Nat, writes : Seq(KINDS), talk : Nat, requests : Nat, faults : Nat]
<1>1. traffic \in [mail : Nat, writes : Seq(KINDS), talk : Nat, requests : Nat, faults : Nat]
  BY DEF TypeOKOutboxes
<1> QED BY <1>1 DEF Quota

LEMMA OneRetryMore ==
  ASSUME NEW a \in Nat, NEW b \in Nat, NEW c \in Nat, NEW d \in Nat, NEW n \in {0, 1},
         a + b <= 1 + c + d
  PROVE  a + b + n <= 1 + c + (d + 1)
OBVIOUS

(* The rows of the mail outbox change, and no sender moves. *)
LEMMA NobodyMoves ==
  ASSUME InvOutboxes, UNCHANGED <<sender, writes, messages, requests>>,
         mail' \in Seq(MailRow), DOMAIN mail \subseteq DOMAIN mail',
         \A i \in DOMAIN mail' :
           \/ i \in DOMAIN mail /\ mail'[i] = mail[i]
           \/ /\ i \in DOMAIN mail /\ mail[i].status # "sent"
              /\ mail'[i].copies = mail[i].copies /\ mail'[i].unheard = mail[i].unheard
              /\ mail'[i].retries = mail[i].retries + 1
           \/ /\ i \notin DOMAIN mail
              /\ mail'[i].copies = 0 /\ mail'[i].unheard = 0 /\ mail'[i].retries = 0
  PROVE  ReadsAreSound' /\ CopiesAreOwed'
<1>1. ReadsAreSound'
  BY DEF InvOutboxes, ReadsAreSound, ReadIsSound
<1>2. CopiesAreOwed'
  <2> SUFFICES ASSUME NEW i \in DOMAIN mail' PROVE CopiesOwed(i)'
    BY DEF CopiesAreOwed
  <2>1. Owing(i)' = Owing(i)
    BY DEF Owing, MaySend, Row
  <2>2. mail'[i] \in MailRow
    OBVIOUS
  <2>3. CASE i \in DOMAIN mail
    <3>1. mail[i] \in MailRow /\ CopiesOwed(i) /\ Cardinality(Owing(i)) \in Nat
      BY <2>3, OwingIsFinite DEF InvOutboxes, TypeOKOutboxes, CopiesAreOwed
    <3>2. /\ mail[i].copies \in Nat /\ mail[i].unheard \in Nat /\ mail[i].retries \in Nat
      BY <3>1, MailRowCounts
    <3>3. Cardinality(Owing(i)') = Cardinality(Owing(i))
      BY <2>1
    <3>4. CASE mail'[i] = mail[i]
      BY <3>1, <3>3, <3>4 DEF CopiesOwed
    <3>5. CASE /\ mail'[i].copies = mail[i].copies /\ mail'[i].unheard = mail[i].unheard
               /\ mail'[i].retries = mail[i].retries + 1
      <4>1. mail[i].copies + Cardinality(Owing(i)) <= 1 + mail[i].unheard + mail[i].retries
        BY SMTT(30), <3>1, <3>2 DEF CopiesOwed
      <4> DEFINE due == IF mail'[i].status \in {"pending", "failed"} THEN 1 ELSE 0
      <4>3. due \in {0, 1}
        OBVIOUS
      <4>4. CopiesOwed(i)' <=> mail'[i].copies + Cardinality(Owing(i)') + due
                                 <= 1 + mail'[i].unheard + mail'[i].retries
        BY DEF CopiesOwed
      <4> HIDE DEF due
      <4>5. Cardinality(Owing(i)) \in Nat
        BY <3>1
      <4>6. mail[i].copies + Cardinality(Owing(i)) + due
              <= 1 + mail[i].unheard + (mail[i].retries + 1)
        BY ONLY <3>2, <4>1, <4>3, <4>5, OneRetryMore
      <4> QED BY <3>3, <3>5, <4>4, <4>6
    <3> QED BY <2>3, <3>4, <3>5
  <2>4. CASE i \notin DOMAIN mail
    <3>1. \A s \in Sender : ~MaySend(s, i)
      <4> SUFFICES ASSUME NEW s \in Sender, MaySend(s, i) PROVE FALSE
        OBVIOUS
      <4>1. Row(s) \in sender[s].batch /\ sender[s].outbox = "mail"
        BY RowIs DEF MaySend, InvOutboxes
      <4>2. Row(s).row \in DOMAIN mail
        BY <4>1 DEF InvOutboxes, ReadsAreSound, ReadIsSound
      <4> QED BY <2>4, <4>2 DEF MaySend
    <3>2. Cardinality(Owing(i)) = 0
      BY <3>1, FS_EmptySet DEF Owing
    <3> QED BY <2>1, <2>4, <3>2 DEF CopiesOwed
  <2> QED BY <2>3, <2>4
<1> QED BY <1>1, <1>2

LEMMA QueueEmailInv ==
  ASSUME InvOutboxes, NEW to \in BOOLEAN, QueueEmail(to)
  PROVE  InvOutboxes'
<1> DEFINE x == [status |-> IF to THEN "pending" ELSE "dead", attempts |-> 0, to |-> to,
                 copies |-> 0, unheard |-> 0, retries |-> 0]
<1>1. x \in MailRow /\ mail \in Seq(MailRow)
  BY OutboxesAssumption DEF MailRow, InvOutboxes, TypeOKOutboxes
<1>2. mail' = Append(mail, x) /\ UNCHANGED <<writes, board, messages, requests, toggles, sender>>
  BY DEF QueueEmail, mailOnly
<1>3. x.copies = 0 /\ x.unheard = 0 /\ x.retries = 0
  OBVIOUS
<1>4. TypeOKOutboxes'
  <2>1. traffic' \in [mail : Nat, writes : Seq(KINDS), talk : Nat, requests : Nat, faults : Nat]
    BY QuotaIs DEF QueueEmail, InvOutboxes
  <2>2. mail' \in Seq(MailRow)
    BY <1>1, <1>2, RowIsAdded
  <2> QED BY <1>2, <2>1, <2>2 DEF InvOutboxes, TypeOKOutboxes
<1> HIDE DEF x
<1>5. /\ DOMAIN mail \subseteq DOMAIN mail' /\ mail' \in Seq(MailRow)
      /\ \A j \in DOMAIN mail : mail'[j] = mail[j]
      /\ \A j \in DOMAIN mail' : j \in DOMAIN mail \/ (j \notin DOMAIN mail /\ mail'[j] = x)
  BY <1>1, <1>2, RowIsAdded
<1>6. ReadsAreSound' /\ CopiesAreOwed'
  BY <1>2, <1>3, <1>5, NobodyMoves
<1> QED BY <1>4, <1>6 DEF InvOutboxes

LEMMA RetryEmailInv ==
  ASSUME InvOutboxes, NEW i \in DOMAIN mail, NEW to \in BOOLEAN, RetryEmailDelivery(i, to)
  PROVE  InvOutboxes'
<1> DEFINE x == [mail[i] EXCEPT !.status = IF to THEN "pending" ELSE "dead", !.to = to,
                                !.attempts = 0, !.retries = @ + 1]
<1>1. mail \in Seq(MailRow) /\ mail[i] \in MailRow
  BY DEF InvOutboxes, TypeOKOutboxes
<1>2. /\ x \in MailRow /\ x.copies = mail[i].copies /\ x.unheard = mail[i].unheard
      /\ x.retries = mail[i].retries + 1
  <2>1. /\ mail[i].retries \in 0..MaxRetries /\ mail[i].retries < MaxRetries /\ MaxRetries \in Nat
        /\ 0 \in 0..MaxAttempts
    BY <1>1, OutboxesAssumption DEF RetryEmailDelivery, MailRow
  <2>2. mail[i].retries + 1 \in 0..MaxRetries
    BY <2>1
  <2> QED BY <1>1, <2>1, <2>2 DEF MailRow
<1>3. /\ mail' = [mail EXCEPT ![i] = x] /\ mail[i].status # "sent"
      /\ UNCHANGED <<writes, board, messages, requests, toggles, sender, traffic>>
  BY DEF RetryEmailDelivery, mailOnly
<1> HIDE DEF x
<1>4. /\ mail' \in Seq(MailRow) /\ DOMAIN mail' = DOMAIN mail /\ mail'[i] = x
      /\ \A j \in DOMAIN mail : j # i => mail'[j] = mail[j]
  BY <1>1, <1>2, <1>3, RowIsWritten
<1>5. TypeOKOutboxes'
  BY <1>3, <1>4 DEF InvOutboxes, TypeOKOutboxes
<1>6. ReadsAreSound' /\ CopiesAreOwed'
  BY <1>2, <1>3, <1>4, NobodyMoves
<1> QED BY <1>5, <1>6 DEF InvOutboxes

(* Whether one more copy is owed: by row x, by sender s. *)
OwedByRow(x) == IF x.status \in {"pending", "failed"} THEN 1 ELSE 0
OwedBy(s, i) == IF MaySend(s, i) THEN 1 ELSE 0

LEMMA OneRowMoves ==
  ASSUME NEW a \in Nat, NEW b \in Nat, NEW u \in Nat, NEW v \in Nat, NEW r \in Nat, NEW n \in Nat,
         NEW o \in {0, 1}, NEW p \in {0, 1}, NEW d \in {0, 1}, NEW e \in {0, 1},
         a + (n + o) + d <= 1 + u + r,
         b + p + e + u <= a + o + d + v
  PROVE  b + (n + p) + e <= 1 + v + r
OBVIOUS

(* The row a sender of emails works on is there, and was not at its last attempt. *)
LEMMA RowIsThere ==
  ASSUME InvOutboxes, NEW s \in Sender, sender[s].batch # {}
  PROVE  /\ Row(s) \in Read
         /\ sender[s].outbox = "mail" => Row(s).row \in DOMAIN mail /\ Row(s).attempts < MaxAttempts
         /\ sender[s].outbox = "writes" =>
              Row(s).row \in DOMAIN writes /\ Row(s).attempts < MaxAttempts
         /\ sender[s].outbox \in {"messages", "approval"} => Row(s).row \in DOMAIN messages
BY RowIs DEF InvOutboxes, ReadsAreSound, ReadIsSound

(* A sender writes the row it works on, and spends what it or the row owed. *)
LEMMA SenderWrites ==
  ASSUME InvOutboxes, NEW s \in Sender, sender[s].batch # {}, sender[s].outbox = "mail",
         NEW i, i = Row(s).row, NEW x \in MailRow, mail' = [mail EXCEPT ![i] = x],
         \A t \in Sender : t # s => sender'[t] = sender[t],
         \/ sender'[s].batch = sender[s].batch
         \/ sender'[s].step = "start" \/ sender'[s].batch = {},
         x.retries = mail[i].retries,
         x.copies + OwedBy(s, i)' + OwedByRow(x) + mail[i].unheard
           <= mail[i].copies + OwedBy(s, i) + OwedByRow(mail[i]) + x.unheard
  PROVE  mail' \in Seq(MailRow) /\ DOMAIN mail' = DOMAIN mail /\ CopiesAreOwed'
<1>1. i \in DOMAIN mail /\ mail \in Seq(MailRow) /\ mail[i] \in MailRow
  BY RowIsThere DEF InvOutboxes, TypeOKOutboxes
<1>2. /\ mail' \in Seq(MailRow) /\ DOMAIN mail' = DOMAIN mail /\ mail'[i] = x
      /\ \A j \in DOMAIN mail : j # i => mail'[j] = mail[j]
  BY <1>1, RowIsWritten
<1>3. ASSUME NEW j \in DOMAIN mail, j # i PROVE CopiesOwed(j)'
  <2>1. CopiesOwed(j) /\ mail[j] \in MailRow /\ mail'[j] = mail[j]
    BY <1>1, <1>2, <1>3 DEF InvOutboxes, CopiesAreOwed
  <2> QED BY <1>3, <2>1, OtherRows DEF InvOutboxes
<1>4. CopiesOwed(i)'
  <2>1. PICK n \in Nat : /\ Cardinality(Owing(i)) = n + OwedBy(s, i)
                         /\ Cardinality(Owing(i))' = n + OwedBy(s, i)'
    BY OneSenderMoves DEF OwedBy
  <2>2. /\ mail[i].copies \in Nat /\ mail[i].unheard \in Nat /\ mail[i].retries \in Nat
        /\ x.copies \in Nat /\ x.unheard \in Nat
    BY <1>1, MailRowCounts
  <2>3. /\ OwedBy(s, i) \in {0, 1} /\ OwedBy(s, i)' \in {0, 1}
        /\ OwedByRow(mail[i]) \in {0, 1} /\ OwedByRow(x) \in {0, 1}
    BY DEF OwedBy, OwedByRow
  <2>4. CopiesOwed(i)
    BY <1>1 DEF InvOutboxes, CopiesAreOwed
  <2>5. mail[i].copies + (n + OwedBy(s, i)) + OwedByRow(mail[i])
          <= 1 + mail[i].unheard + mail[i].retries
    BY <2>1, <2>4 DEF CopiesOwed, OwedByRow
  <2>6. x.copies + (n + OwedBy(s, i)') + OwedByRow(x) <= 1 + x.unheard + mail[i].retries
    BY <2>2, <2>3, <2>5, OneRowMoves
  <2> QED BY <1>2, <2>1, <2>6 DEF CopiesOwed, OwedByRow
<1> QED BY <1>2, <1>3, <1>4 DEF CopiesAreOwed

LEMMA ClaimEmailInv ==
  ASSUME InvOutboxes, NEW s \in Sender, ClaimEmail(s)
  PROVE  InvOutboxes'
<1>0. PICK i : i = Row(s).row
  OBVIOUS
<1> DEFINE read == Row(s)
           x == [mail[i] EXCEPT !.status = IF @ \in {"pending", "failed"} /\ mail[i].to
                                           THEN "sending" ELSE "dead",
                                !.attempts = read.attempts + 1]
<1>1. /\ sender[s].outbox = "mail" /\ sender[s].step = "start" /\ sender[s].batch # {}
      /\ UNCHANGED <<writes, board, messages, requests, toggles, traffic>>
  BY DEF ClaimEmail, At, mailOnly
<1>2. /\ i \in DOMAIN mail /\ read \in Read /\ read.attempts < MaxAttempts
      /\ mail[i] \in MailRow
  BY <1>0, <1>1, RowIsThere DEF InvOutboxes, TypeOKOutboxes
<1>3. CASE ~StillAsRead(read)
  <2>1. NextRow(s) /\ UNCHANGED mail
    BY <1>3 DEF ClaimEmail
  <2>2. TypeOKOutboxes'
    BY <1>1, <2>1, NextRowIs DEF InvOutboxes, TypeOKOutboxes
  <2>3. ReadsAreSound'
    BY <1>1, <2>1, NextRowIs, ReadsStay DEF InvOutboxes
  <2>4. CopiesAreOwed'
    BY <2>1, NextRowIs, DebtsStay DEF InvOutboxes
  <2> QED BY <2>2, <2>3, <2>4 DEF InvOutboxes
<1>4. CASE StillAsRead(read)
  <2>1. /\ mail' = [mail EXCEPT ![i] = x]
        /\ IF mail[i].to THEN Moves(s, "claimed", "accepted") ELSE NextRow(s)
    BY <1>0, <1>4 DEF ClaimEmail
  <2>2. /\ x \in MailRow /\ x.copies = mail[i].copies /\ x.unheard = mail[i].unheard
        /\ x.retries = mail[i].retries /\ x.status \in {"sending", "dead"}
    <3>1. read.attempts + 1 \in 0..MaxAttempts
      BY <1>2, OutboxesAssumption DEF Read
    <3> QED BY <1>2, <3>1 DEF MailRow
  <2>3. /\ sender' \in [Sender -> Senders]
        /\ \A t \in Sender : t # s => sender'[t] = sender[t]
        /\ sender'[s].batch \subseteq sender[s].batch
        /\ sender'[s].batch = sender[s].batch \/ sender'[s].step = "start"
        /\ \/ sender'[s].outbox = "none"
           \/ sender'[s].outbox = sender[s].outbox /\ sender'[s].request = sender[s].request
    <3>1. CASE mail[i].to
      BY <2>1, <3>1, SameRow DEF InvOutboxes, Outcomes
    <3>2. CASE ~mail[i].to
      BY <2>1, <3>2, NextRowIs DEF InvOutboxes
    <3> QED BY <3>1, <3>2
  <2>4. OwedByRow(x) = 0 /\ OwedByRow(mail[i]) = 1
    BY <1>0, <1>4, <2>2 DEF OwedByRow, StillAsRead
  <2> HIDE DEF x, read
  <2>5. OwedBy(s, i) = 0 /\ OwedBy(s, i)' \in {0, 1}
    BY <1>1 DEF OwedBy, MaySend
  <2>6. mail[i].copies \in Nat /\ mail[i].unheard \in Nat
    BY <1>2, MailRowCounts
  <2>7. x.copies + OwedBy(s, i)' + OwedByRow(x) + mail[i].unheard
          <= mail[i].copies + OwedBy(s, i) + OwedByRow(mail[i]) + x.unheard
    BY <2>2, <2>4, <2>5, <2>6
  <2>8. mail' \in Seq(MailRow) /\ DOMAIN mail' = DOMAIN mail /\ CopiesAreOwed'
    BY <1>0, <1>1, <2>1, <2>2, <2>3, <2>7, SenderWrites
  <2>9. ReadsAreSound'
    BY <1>1, <2>3, <2>8, ReadsStay DEF InvOutboxes
  <2>10. TypeOKOutboxes'
    BY <1>1, <2>3, <2>8 DEF InvOutboxes, TypeOKOutboxes
  <2> QED BY <2>8, <2>9, <2>10 DEF InvOutboxes
<1> QED BY <1>3, <1>4

LEMMA SendEmailInv ==
  ASSUME InvOutboxes, NEW s \in Sender, NEW outcome \in Outcomes, SendEmail(s, outcome)
  PROVE  InvOutboxes'
<1>0. PICK i : i = Row(s).row
  OBVIOUS
<1> DEFINE copies == IF outcome \in {"accepted", "unheard"} THEN mail[i].copies + 1
                     ELSE mail[i].copies
           unheard == IF outcome = "unheard" THEN mail[i].unheard + 1 ELSE mail[i].unheard
           x == [mail[i] EXCEPT !.copies = copies, !.unheard = unheard]
<1>1. /\ sender[s].outbox = "mail" /\ sender[s].step = "claimed" /\ sender[s].batch # {}
      /\ UNCHANGED <<writes, board, messages, requests, toggles, traffic>>
      /\ mail' = [mail EXCEPT ![i] = x] /\ Moves(s, "answered", outcome)
  BY <1>0 DEF SendEmail, At, mailOnly
<1>2. i \in DOMAIN mail /\ mail[i] \in MailRow
  BY <1>0, <1>1, RowIsThere DEF InvOutboxes, TypeOKOutboxes
<1>3. mail[i].copies \in Nat /\ mail[i].unheard \in Nat
  BY <1>2, MailRowCounts
<1>4. /\ x \in MailRow /\ x.retries = mail[i].retries /\ x.status = mail[i].status
      /\ x.copies = copies /\ x.unheard = unheard
  <2>1. copies \in Nat /\ unheard \in Nat
    BY <1>3
  <2> HIDE DEF copies, unheard
  <2> QED BY <1>2, <2>1 DEF MailRow
<1>5. /\ sender' \in [Sender -> Senders]
      /\ \A t \in Sender : t # s => sender'[t] = sender[t]
      /\ sender'[s].batch = sender[s].batch /\ sender'[s].outbox = sender[s].outbox
      /\ sender'[s].request = sender[s].request
      /\ sender'[s].step = "answered" /\ sender'[s].outcome = outcome
  BY <1>1, SameRow DEF InvOutboxes
<1>6. OwedBy(s, i) = 1
  BY <1>0, <1>1 DEF OwedBy, MaySend
<1>7. OwedBy(s, i)' = IF outcome \in {"accepted", "permanent"} THEN 0 ELSE 1
  BY <1>0, <1>1, <1>5 DEF OwedBy, MaySend, Row
<1>8. OwedByRow(x) = OwedByRow(mail[i]) /\ OwedByRow(x) \in {0, 1}
  BY <1>4 DEF OwedByRow
<1> HIDE DEF x
<1>9. x.copies + OwedBy(s, i)' + OwedByRow(x) + mail[i].unheard
        <= mail[i].copies + OwedBy(s, i) + OwedByRow(mail[i]) + x.unheard
  <2>1. CASE outcome = "accepted"
    BY <1>3, <1>4, <1>6, <1>7, <1>8, <2>1
  <2>2. CASE outcome = "unheard"
    BY <1>3, <1>4, <1>6, <1>7, <1>8, <2>2
  <2>3. CASE outcome \notin {"accepted", "unheard"}
    BY <1>3, <1>4, <1>6, <1>7, <1>8, <2>3
  <2> QED BY <2>1, <2>2, <2>3
<1>10. mail' \in Seq(MailRow) /\ DOMAIN mail' = DOMAIN mail /\ CopiesAreOwed'
  BY <1>0, <1>1, <1>4, <1>5, <1>9, SenderWrites
<1>11. ReadsAreSound'
  BY <1>1, <1>5, <1>10, ReadsStay DEF InvOutboxes
<1>12. TypeOKOutboxes'
  BY <1>1, <1>5, <1>10 DEF InvOutboxes, TypeOKOutboxes
<1> QED BY <1>10, <1>11, <1>12 DEF InvOutboxes

LEMMA RecordEmailInv ==
  ASSUME InvOutboxes, NEW s \in Sender, RecordEmail(s)
  PROVE  InvOutboxes'
<1>0. PICK i : i = Row(s).row
  OBVIOUS
<1> DEFINE status == IF sender[s].outcome = "accepted" THEN "sent"
                     ELSE Failed(sender[s].outcome, Row(s).attempts + 1)
           x == [mail[i] EXCEPT !.status = status]
<1>1. /\ sender[s].outbox = "mail" /\ sender[s].step = "answered" /\ sender[s].batch # {}
      /\ UNCHANGED <<writes, board, messages, requests, toggles, traffic>>
      /\ mail' = [mail EXCEPT ![i] = x] /\ NextRow(s)
  BY <1>0 DEF RecordEmail, At, mailOnly
<1>2. i \in DOMAIN mail /\ mail[i] \in MailRow
  BY <1>0, <1>1, RowIsThere DEF InvOutboxes, TypeOKOutboxes
<1>3. mail[i].copies \in Nat /\ mail[i].unheard \in Nat
  BY <1>2, MailRowCounts
<1>4. /\ status \in {"sent", "failed", "dead"}
      /\ status = "failed" => sender[s].outcome \notin {"accepted", "permanent"}
  BY DEF Failed
<1> HIDE DEF status
<1>5. /\ x \in MailRow /\ x.retries = mail[i].retries /\ x.status = status
      /\ x.copies = mail[i].copies /\ x.unheard = mail[i].unheard
  BY <1>2, <1>4 DEF MailRow
<1>6. OwedBy(s, i)' = 0
  BY <1>1, NextRowIs DEF OwedBy, MaySend, InvOutboxes
<1>7. OwedByRow(x) <= OwedBy(s, i)
  BY <1>0, <1>1, <1>4, <1>5 DEF OwedByRow, OwedBy, MaySend
<1>8. OwedByRow(x) \in {0, 1} /\ OwedByRow(mail[i]) \in {0, 1} /\ OwedBy(s, i) \in {0, 1}
  BY DEF OwedByRow, OwedBy
<1> HIDE DEF x
<1>9. x.copies + OwedBy(s, i)' + OwedByRow(x) + mail[i].unheard
        <= mail[i].copies + OwedBy(s, i) + OwedByRow(mail[i]) + x.unheard
  BY <1>3, <1>5, <1>6, <1>7, <1>8
<1>10. mail' \in Seq(MailRow) /\ DOMAIN mail' = DOMAIN mail /\ CopiesAreOwed'
  BY <1>0, <1>1, <1>5, <1>9, NextRowIs, SenderWrites DEF InvOutboxes
<1>11. ReadsAreSound'
  BY <1>1, <1>10, NextRowIs, ReadsStay DEF InvOutboxes
<1>12. TypeOKOutboxes'
  BY <1>1, <1>10, NextRowIs DEF InvOutboxes, TypeOKOutboxes
<1> QED BY <1>10, <1>11, <1>12 DEF InvOutboxes

-----------------------------------------------------------------------------
(* Senders, whatever they send.                                            *)

(* A sender that begins on rows of an outbox that are there, and due where it counts. *)
LEMMA BeginsInv ==
  ASSUME InvOutboxes, NEW s \in Sender, NEW outbox \in {"mail", "writes", "messages"},
         NEW rows, NEW due \in SUBSET DOMAIN rows, NEW approved \in BOOLEAN,
         outbox = "mail" => rows = mail, outbox = "writes" => rows = writes,
         outbox = "messages" => rows = messages,
         outbox \in {"mail", "writes"} => \A i \in due : rows[i].attempts < MaxAttempts,
         Begins(s, outbox, Batch(rows, due, approved)),
         UNCHANGED <<rowVars, traffic, toggles>>
  PROVE  InvOutboxes'
<1> DEFINE reads == Batch(rows, due, approved)
           x == [Resting EXCEPT !.outbox = outbox, !.batch = reads]
<1>1. UNCHANGED <<mail, writes, board, messages, requests, traffic, toggles>>
  BY DEF rowVars
<1>2. reads \in SUBSET Read
  <2> SUFFICES ASSUME NEW i \in due
               PROVE  [row |-> i, attempts |-> rows[i].attempts, approved |-> approved] \in Read
    BY DEF Batch
  <2>1. CASE outbox = "mail"
    <3>1. mail \in Seq(MailRow) /\ i \in DOMAIN mail
      BY <2>1 DEF InvOutboxes, TypeOKOutboxes
    <3>2. i \in Nat /\ mail[i].attempts \in Nat
      BY <3>1, RowIsNumbered, MailRowCounts
    <3> QED BY <2>1, <3>2 DEF Read
  <2>2. CASE outbox = "writes"
    <3>1. writes \in Seq(WriteRow) /\ i \in DOMAIN writes
      BY <2>2 DEF InvOutboxes, TypeOKOutboxes
    <3>2. i \in Nat /\ writes[i].attempts \in Nat
      BY <3>1, RowIsNumbered, WriteRowCounts
    <3> QED BY <2>2, <3>2 DEF Read
  <2>3. CASE outbox = "messages"
    <3>1. messages \in Seq(MessageRow) /\ i \in DOMAIN messages
      BY <2>3 DEF InvOutboxes, TypeOKOutboxes
    <3>2. i \in Nat /\ messages[i].attempts \in Nat
      BY <3>1, RowIsNumbered, MessageRowCounts
    <3> QED BY <2>3, <3>2 DEF Read
  <2> QED BY <2>1, <2>2, <2>3
<1>3. \A r \in reads : r.row \in due /\ r.attempts = rows[r.row].attempts
  BY DEF Batch
<1> HIDE DEF reads
<1>4. /\ x \in Senders /\ x.batch = reads /\ x.outbox = outbox /\ x.step = "start"
  BY <1>2 DEF Resting, Senders, Outcomes
<1>5. Becomes(s, x)
  BY DEF Begins, reads
<1> HIDE DEF x
<1>6. /\ sender' \in [Sender -> Senders] /\ sender'[s] = x
      /\ \A t \in Sender : t # s => sender'[t] = sender[t]
  BY <1>4, <1>5, SenderMoves DEF InvOutboxes
<1>7. TypeOKOutboxes'
  BY <1>1, <1>6 DEF InvOutboxes, TypeOKOutboxes
<1>8. ReadIsSound(s)'
  BY <1>1, <1>3, <1>4, <1>6 DEF ReadIsSound
<1>9. ReadsAreSound'
  BY <1>1, <1>6, <1>8, ReadsBegin DEF InvOutboxes
<1>10. CopiesAreOwed'
  BY <1>1, <1>4, <1>6, DebtsStay DEF InvOutboxes
<1> QED BY <1>7, <1>9, <1>10 DEF InvOutboxes

LEMMA SweepsInv ==
  ASSUME InvOutboxes, NEW s \in Sender, Sweeps(s)
  PROVE  InvOutboxes'
<1>1. CASE DeliverPendingEmails(s)
  <2> DEFINE due == {i \in DOMAIN mail : MailDue(i)}
  <2>1. \A i \in due : mail[i].attempts < MaxAttempts
    BY DEF MailDue
  <2>2. Begins(s, "mail", Batch(mail, due, TRUE)) /\ UNCHANGED <<rowVars, traffic, toggles>>
    BY <1>1 DEF DeliverPendingEmails, mailOnly, rowVars
  <2>3. due \in SUBSET DOMAIN mail
    OBVIOUS
  <2> HIDE DEF due
  <2> QED BY <2>1, <2>2, <2>3, BeginsInv
<1>2. CASE DeliverPendingMondayWrites(s)
  <2> DEFINE due == {i \in DOMAIN writes : WriteDue(i)}
  <2>1. \A i \in due : writes[i].attempts < MaxAttempts
    BY DEF WriteDue
  <2>2. /\ Begins(s, "writes", Batch(writes, due, board.approved))
        /\ UNCHANGED <<rowVars, traffic, toggles>>
    BY <1>2 DEF DeliverPendingMondayWrites, writesOnly, rowVars
  <2>3. due \in SUBSET DOMAIN writes /\ board.approved \in BOOLEAN
    BY DEF InvOutboxes, TypeOKOutboxes
  <2> HIDE DEF due
  <2> QED BY <2>1, <2>2, <2>3, BeginsInv
<1>3. CASE DeliverPendingMessages(s)
  <2> DEFINE due == {i \in DOMAIN messages : MessageDue(i)}
  <2>1. Begins(s, "messages", Batch(messages, due, TRUE)) /\ UNCHANGED <<rowVars, traffic, toggles>>
    BY <1>3 DEF DeliverPendingMessages, teamsOnly, rowVars
  <2>2. due \in SUBSET DOMAIN messages
    OBVIOUS
  <2> HIDE DEF due
  <2> QED BY <2>1, <2>2, BeginsInv
<1> QED BY <1>1, <1>2, <1>3 DEF Sweeps

(* A sender that goes on, in an outbox other than the mail's, or stops. *)
LEMMA SenderGoesOn ==
  ASSUME InvOutboxes, NEW s \in Sender, TypeOKOutboxes', UNCHANGED mail,
         \A t \in Sender : t # s => sender'[t] = sender[t],
         DOMAIN writes \subseteq DOMAIN writes',
         DOMAIN messages \subseteq DOMAIN messages', DOMAIN requests \subseteq DOMAIN requests',
         sender'[s].batch \subseteq sender[s].batch, sender'[s].outbox # "mail",
         \/ sender'[s].outbox = "none"
         \/ sender'[s].outbox = sender[s].outbox /\ sender'[s].request = sender[s].request
  PROVE  InvOutboxes'
BY ReadsStay, DebtsStay DEF InvOutboxes

LEMMA SenderFailsInv ==
  ASSUME InvOutboxes, NEW s \in Sender, SenderFails(s)
  PROVE  InvOutboxes'
<1>1. Resting \in Senders /\ Resting.batch = {} /\ Resting.outbox = "none"
  BY DEF Resting, Senders, Outcomes
<1>2. Becomes(s, Resting) /\ UNCHANGED <<mail, writes, board, messages, requests, toggles>>
  BY DEF SenderFails, rowVars
<1>3. /\ sender' \in [Sender -> Senders] /\ sender'[s] = Resting
      /\ \A t \in Sender : t # s => sender'[t] = sender[t]
  BY <1>1, <1>2, SenderMoves DEF InvOutboxes
<1>4. TypeOKOutboxes'
  <2>1. traffic' \in [mail : Nat, writes : Seq(KINDS), talk : Nat, requests : Nat, faults : Nat]
    BY QuotaIs DEF SenderFails, InvOutboxes
  <2> QED BY <1>2, <1>3, <2>1 DEF InvOutboxes, TypeOKOutboxes
<1> QED BY <1>1, <1>2, <1>3, <1>4, SenderGoesOn

-----------------------------------------------------------------------------
(* Writes to monday.com.                                                   *)

LEMMA EnqueueWriteInv ==
  ASSUME InvOutboxes, EnqueueMondayWrite
  PROVE  InvOutboxes'
<1> DEFINE x == [kind |-> Head(traffic.writes), status |-> "pending", attempts |-> 0]
<1>1. /\ traffic.writes \in Seq(KINDS) /\ traffic.writes # <<>>
      /\ traffic \in [mail : Nat, writes : Seq(KINDS), talk : Nat, requests : Nat, faults : Nat]
      /\ writes \in Seq(WriteRow)
  BY DEF EnqueueMondayWrite, InvOutboxes, TypeOKOutboxes
<1>2. x \in WriteRow
  <2>1. Head(traffic.writes) \in KINDS /\ 0 \in 0..MaxAttempts
    BY <1>1, OutboxesAssumption
  <2> QED BY <2>1 DEF WriteRow
<1>3. /\ UNCHANGED <<mail, messages, requests, board, sender, toggles>>
      /\ writes' = Append(writes, x) \/ writes' = writes
      /\ traffic' = [traffic EXCEPT !.writes = Tail(@)]
  BY DEF EnqueueMondayWrite, writesOnly
<1> HIDE DEF x
<1>4. writes' \in Seq(WriteRow) /\ DOMAIN writes \subseteq DOMAIN writes'
  <2>1. CASE writes' = writes
    BY <1>1, <2>1
  <2>2. CASE writes' = Append(writes, x)
    BY <1>1, <1>2, <2>2, RowIsAdded
  <2> QED BY <1>3, <2>1, <2>2
<1>5. traffic' \in [mail : Nat, writes : Seq(KINDS), talk : Nat, requests : Nat, faults : Nat]
  <2>1. Tail(traffic.writes) \in Seq(KINDS)
    BY <1>1
  <2> QED BY <1>1, <1>3, <2>1
<1>6. TypeOKOutboxes'
  BY <1>3, <1>4, <1>5 DEF InvOutboxes, TypeOKOutboxes
<1>7. ReadsAreSound'
  BY <1>3, <1>4 DEF InvOutboxes, ReadsAreSound, ReadIsSound
<1>8. CopiesAreOwed'
  BY <1>3 DEF InvOutboxes, CopiesAreOwed, CopiesOwed, Owing, MaySend, Row
<1> QED BY <1>6, <1>7, <1>8 DEF InvOutboxes

LEMMA ApproveBoardInv ==
  ASSUME InvOutboxes, NEW approve \in BOOLEAN, ApproveMondayBoard(approve)
  PROVE  InvOutboxes'
<1>1. UNCHANGED <<mail, writes, messages, requests, sender, traffic>>
  BY DEF ApproveMondayBoard, writesOnly
<1>2. /\ toggles' \in 0..MaxToggles
      /\ board' \in [approved : BOOLEAN, shows : {"none", "in_progress", "ready_for_review"}]
  <2>1. toggles' \in 0..MaxToggles
    BY OutboxesAssumption DEF ApproveMondayBoard, InvOutboxes, TypeOKOutboxes
  <2>2. board' \in [approved : BOOLEAN, shows : {"none", "in_progress", "ready_for_review"}]
    BY DEF ApproveMondayBoard, InvOutboxes, TypeOKOutboxes
  <2> QED BY <2>1, <2>2
<1>3. TypeOKOutboxes'
  BY <1>1, <1>2 DEF InvOutboxes, TypeOKOutboxes
<1>4. ReadsAreSound' /\ CopiesAreOwed'
  BY <1>1 DEF InvOutboxes, ReadsAreSound, ReadIsSound, CopiesAreOwed, CopiesOwed, Owing, MaySend, Row
<1> QED BY <1>3, <1>4 DEF InvOutboxes

LEMMA ClaimWriteInv ==
  ASSUME InvOutboxes, NEW s \in Sender, ClaimWrite(s)
  PROVE  InvOutboxes'
<1>0. PICK i : i = Row(s).row
  OBVIOUS
<1> DEFINE x == [writes[i] EXCEPT !.status = "sending", !.attempts = Row(s).attempts + 1]
<1>1. /\ sender[s].outbox = "writes" /\ sender[s].batch # {}
      /\ UNCHANGED <<mail, board, messages, requests, toggles, traffic>>
      /\ writes' = [writes EXCEPT ![i] = x] /\ Moves(s, "claimed", "accepted")
  BY <1>0 DEF ClaimWrite, At, writesOnly
<1>2. /\ i \in DOMAIN writes /\ writes[i] \in WriteRow /\ Row(s).attempts + 1 \in 0..MaxAttempts
      /\ writes \in Seq(WriteRow)
  <2>1. /\ i \in DOMAIN writes /\ Row(s) \in Read /\ Row(s).attempts < MaxAttempts
    BY <1>0, <1>1, RowIsThere
  <2>2. Row(s).attempts \in Nat
    BY <2>1 DEF Read
  <2> QED BY <2>1, <2>2, OutboxesAssumption DEF InvOutboxes, TypeOKOutboxes
<1>3. x \in WriteRow
  BY <1>2 DEF WriteRow
<1> HIDE DEF x
<1>4. writes' \in Seq(WriteRow) /\ DOMAIN writes' = DOMAIN writes
  BY <1>1, <1>2, <1>3, RowIsWritten
<1>5. /\ sender' \in [Sender -> Senders]
      /\ \A t \in Sender : t # s => sender'[t] = sender[t]
      /\ sender'[s].batch = sender[s].batch /\ sender'[s].outbox = sender[s].outbox
      /\ sender'[s].request = sender[s].request
  BY <1>1, SameRow DEF InvOutboxes, Outcomes
<1>6. TypeOKOutboxes'
  BY <1>1, <1>4, <1>5 DEF InvOutboxes, TypeOKOutboxes
<1> QED BY <1>1, <1>4, <1>5, <1>6, SenderGoesOn

LEMMA PerformWriteInv ==
  ASSUME InvOutboxes, NEW s \in Sender, NEW outcome \in Outcomes, PerformWrite(s, outcome)
  PROVE  InvOutboxes'
<1> DEFINE kind == writes[Row(s).row].kind
<1>1. /\ sender[s].outbox = "writes" /\ sender[s].batch # {}
      /\ UNCHANGED <<mail, writes, messages, requests, toggles, traffic>>
      /\ board' = IF outcome \in {"accepted", "unheard"} /\ kind \in ColumnKinds
                  THEN [board EXCEPT !.shows = kind] ELSE board
      /\ Moves(s, "answered", outcome)
  BY DEF PerformWrite, At, writesOnly
<1> HIDE DEF kind
<1>2. board' \in [approved : BOOLEAN, shows : {"none", "in_progress", "ready_for_review"}]
  <2>1. board \in [approved : BOOLEAN, shows : {"none", "in_progress", "ready_for_review"}]
    BY DEF InvOutboxes, TypeOKOutboxes
  <2>2. kind \in ColumnKinds => kind \in {"in_progress", "ready_for_review"}
    BY DEF ColumnKinds, KINDS
  <2> QED BY <1>1, <2>1, <2>2
<1>3. /\ sender' \in [Sender -> Senders]
      /\ \A t \in Sender : t # s => sender'[t] = sender[t]
      /\ sender'[s].batch = sender[s].batch /\ sender'[s].outbox = sender[s].outbox
      /\ sender'[s].request = sender[s].request
  BY <1>1, SameRow DEF InvOutboxes
<1>4. TypeOKOutboxes'
  BY <1>1, <1>2, <1>3 DEF InvOutboxes, TypeOKOutboxes
<1> QED BY <1>1, <1>3, <1>4, SenderGoesOn

LEMMA RecordWriteInv ==
  ASSUME InvOutboxes, NEW s \in Sender, RecordWrite(s)
  PROVE  InvOutboxes'
<1>0. PICK i : i = Row(s).row
  OBVIOUS
<1> DEFINE status == CASE sender[s].outcome = "accepted" -> "delivered"
                       [] sender[s].outcome = "refused" -> "refused"
                       [] OTHER -> Failed(sender[s].outcome, Row(s).attempts + 1)
           x == [writes[i] EXCEPT !.status = status]
<1>1. /\ sender[s].outbox = "writes" /\ sender[s].batch # {}
      /\ UNCHANGED <<mail, board, messages, requests, toggles, traffic>>
      /\ writes' = [writes EXCEPT ![i] = x] /\ NextRow(s)
  BY <1>0 DEF RecordWrite, At, writesOnly
<1>2. i \in DOMAIN writes /\ writes[i] \in WriteRow /\ writes \in Seq(WriteRow)
  BY <1>0, <1>1, RowIsThere DEF InvOutboxes, TypeOKOutboxes
<1>3. status \in {"delivered", "refused", "failed", "dead"}
  BY DEF Failed
<1> HIDE DEF status
<1>4. x \in WriteRow
  BY <1>2, <1>3 DEF WriteRow
<1> HIDE DEF x
<1>5. writes' \in Seq(WriteRow) /\ DOMAIN writes' = DOMAIN writes
  BY <1>1, <1>2, <1>4, RowIsWritten
<1>6. TypeOKOutboxes'
  BY <1>1, <1>5, NextRowIs DEF InvOutboxes, TypeOKOutboxes
<1>7. sender'[s].outbox # "mail"
  BY <1>1, NextRowIs DEF InvOutboxes
<1> QED BY <1>1, <1>5, <1>6, <1>7, NextRowIs, SenderGoesOn DEF InvOutboxes

-----------------------------------------------------------------------------
(* Teams messages and the requests that are told in them.                  *)

LEMMA NewMessageIs ==
  ASSUME NEW i \in Nat
  PROVE  NewMessage(i) \in MessageRow
BY DEF NewMessage, MessageRow

(* The row of a message that is being added, as its sender has it before it. *)
NewRead == [row |-> Len(messages) + 1, attempts |-> 0, approved |-> TRUE]

LEMMA NewReadIs == InvOutboxes => NewRead \in Read
<1> SUFFICES ASSUME InvOutboxes PROVE NewRead \in Read
  OBVIOUS
<1>1. Len(messages) + 1 \in Nat
  BY NewMessageIs, RowIsAdded DEF InvOutboxes, TypeOKOutboxes
<1> QED BY <1>1 DEF NewRead, Read

(* A message is added, and its sender has it before it. *)
LEMMA SpeaksInv ==
  ASSUME InvOutboxes, NEW s \in Sender, NEW about \in Nat, NEW x \in Senders,
         x.outbox \in {"messages", "approval"}, x.batch = {NewRead},
         x.outbox = "approval" => x.request \in DOMAIN requests,
         messages' = Append(messages, NewMessage(about)), Becomes(s, x),
         UNCHANGED <<mail, writes, board, requests, toggles>>,
         traffic' \in [mail : Nat, writes : Seq(KINDS), talk : Nat, requests : Nat, faults : Nat]
  PROVE  InvOutboxes'
<1>1. messages \in Seq(MessageRow)
  BY DEF InvOutboxes, TypeOKOutboxes
<1>2. /\ messages' \in Seq(MessageRow) /\ DOMAIN messages \subseteq DOMAIN messages'
      /\ NewRead.row \in DOMAIN messages'
  BY <1>1, NewMessageIs, RowIsAdded DEF NewRead
<1>3. /\ sender' \in [Sender -> Senders] /\ sender'[s] = x
      /\ \A t \in Sender : t # s => sender'[t] = sender[t]
  BY SenderMoves DEF InvOutboxes
<1>4. TypeOKOutboxes'
  BY <1>2, <1>3 DEF InvOutboxes, TypeOKOutboxes
<1>5. ReadIsSound(s)'
  BY <1>2, <1>3 DEF ReadIsSound
<1>6. ReadsAreSound'
  BY <1>2, <1>3, <1>5, ReadsBegin DEF InvOutboxes
<1>7. CopiesAreOwed'
  BY <1>3, DebtsStay DEF InvOutboxes
<1> QED BY <1>4, <1>6, <1>7 DEF InvOutboxes

LEMMA SayInv ==
  ASSUME InvOutboxes, NEW s \in Sender, Say(s)
  PROVE  InvOutboxes'
<1> DEFINE x == [Resting EXCEPT !.outbox = "messages", !.batch = {NewRead}]
<1>1. traffic' \in [mail : Nat, writes : Seq(KINDS), talk : Nat, requests : Nat, faults : Nat]
  BY QuotaIs DEF Say, InvOutboxes
<1>2. x \in Senders /\ x.outbox = "messages" /\ x.batch = {NewRead}
  BY NewReadIs DEF Resting, Senders, Outcomes
<1>3. /\ messages' = Append(messages, NewMessage(0)) /\ Becomes(s, x)
      /\ UNCHANGED <<mail, writes, board, requests, toggles>>
  BY DEF Say, teamsOnly, NewRead
<1> HIDE DEF x
<1> QED BY <1>1, <1>2, <1>3, SpeaksInv

LEMMA TellRequestInv ==
  ASSUME InvOutboxes, NEW s \in Sender, TellRequest(s)
  PROVE  InvOutboxes'
<1>1. PICK i \in DOMAIN requests :
        /\ messages' = Append(messages, NewMessage(i))
        /\ Becomes(s, [Resting EXCEPT !.outbox = "approval", !.request = i, !.batch = {NewRead}])
  BY DEF TellRequest, NewRead
<1> DEFINE x == [Resting EXCEPT !.outbox = "approval", !.request = i, !.batch = {NewRead}]
<1>2. /\ UNCHANGED <<mail, writes, board, requests, toggles>>
      /\ traffic' \in [mail : Nat, writes : Seq(KINDS), talk : Nat, requests : Nat, faults : Nat]
  BY DEF TellRequest, teamsOnly, InvOutboxes, TypeOKOutboxes
<1>3. i \in Nat
  BY RowIsNumbered DEF InvOutboxes, TypeOKOutboxes
<1>4. x \in Senders /\ x.outbox = "approval" /\ x.batch = {NewRead} /\ x.request = i
  BY <1>3, NewReadIs DEF Resting, Senders, Outcomes
<1>5. Becomes(s, x)
  BY <1>1
<1> HIDE DEF x
<1> QED BY <1>1, <1>2, <1>3, <1>4, <1>5, SpeaksInv

(* What is recorded of a message leaves it one. *)
LEMMA DeliveryIsRecorded ==
  ASSUME InvOutboxes, NEW i \in DOMAIN messages, NEW outcome, RecordDelivery(i, outcome)
  PROVE  messages' \in Seq(MessageRow) /\ DOMAIN messages' = DOMAIN messages
<1> DEFINE state == CASE outcome = "accepted" -> "sent"
                      [] outcome = "permanent" -> "dead"
                      [] OTHER -> "failed"
           x == [messages[i] EXCEPT !.attempts = @ + 1, !.state = state]
<1>1. messages \in Seq(MessageRow) /\ messages[i] \in MessageRow
  BY DEF InvOutboxes, TypeOKOutboxes
<1>2. state \in {"sent", "dead", "failed"}
  OBVIOUS
<1>3. messages' = [messages EXCEPT ![i] = x]
  BY DEF RecordDelivery
<1> HIDE DEF state
<1>4. x \in MessageRow
  <2>1. messages[i].attempts + 1 \in Nat
    BY <1>1, MessageRowCounts
  <2> QED BY <1>1, <1>2, <2>1 DEF MessageRow
<1> HIDE DEF x
<1> QED BY <1>1, <1>3, <1>4, RowIsWritten

LEMMA SendMessageInv ==
  ASSUME InvOutboxes, NEW s \in Sender, SendMessage(s)
  PROVE  InvOutboxes'
<1>1. /\ sender[s].outbox = "messages" /\ Moves(s, "claimed", "accepted")
      /\ UNCHANGED <<mail, writes, board, messages, requests, toggles, traffic>>
  BY DEF SendMessage, At, teamsOnly
<1>2. /\ sender' \in [Sender -> Senders]
      /\ \A t \in Sender : t # s => sender'[t] = sender[t]
      /\ sender'[s].batch = sender[s].batch /\ sender'[s].outbox = sender[s].outbox
      /\ sender'[s].request = sender[s].request
  BY <1>1, SameRow DEF InvOutboxes, Outcomes
<1>3. TypeOKOutboxes'
  BY <1>1, <1>2 DEF InvOutboxes, TypeOKOutboxes
<1> QED BY <1>1, <1>2, <1>3, SenderGoesOn

LEMMA RecordMessageInv ==
  ASSUME InvOutboxes, NEW s \in Sender, NEW outcome \in Outcomes,
         RecordMessage(s, outcome) \/ AttachCard(s, outcome)
  PROVE  InvOutboxes'
<1>1. /\ sender[s].outbox \in {"messages", "approval"} /\ sender[s].batch # {}
      /\ UNCHANGED <<mail, writes, board, requests, toggles, traffic>>
      /\ RecordDelivery(Row(s).row, outcome) /\ NextRow(s)
  BY DEF RecordMessage, AttachCard, At, teamsOnly
<1>2. Row(s).row \in DOMAIN messages
  BY <1>1, RowIsThere
<1>3. messages' \in Seq(MessageRow) /\ DOMAIN messages' = DOMAIN messages
  BY <1>1, <1>2, DeliveryIsRecorded
<1>4. TypeOKOutboxes'
  BY <1>1, <1>3, NextRowIs DEF InvOutboxes, TypeOKOutboxes
<1>5. sender'[s].outbox # "mail"
  BY <1>1, NextRowIs DEF InvOutboxes
<1> QED BY <1>1, <1>3, <1>4, <1>5, NextRowIs, SenderGoesOn DEF InvOutboxes

LEMMA SendTextInv ==
  ASSUME InvOutboxes, NEW s \in Sender, NEW outcome \in Outcomes, SendText(s, outcome)
  PROVE  InvOutboxes'
<1>1. /\ sender[s].outbox = "approval" /\ sender[s].batch # {}
      /\ UNCHANGED <<mail, writes, board, requests, toggles, traffic>>
      /\ RecordDelivery(Row(s).row, outcome) /\ Moves(s, "claimed", outcome)
  BY DEF SendText, At, teamsOnly
<1>2. Row(s).row \in DOMAIN messages
  BY <1>1, RowIsThere
<1>3. messages' \in Seq(MessageRow) /\ DOMAIN messages' = DOMAIN messages
  BY <1>1, <1>2, DeliveryIsRecorded
<1>4. /\ sender' \in [Sender -> Senders]
      /\ \A t \in Sender : t # s => sender'[t] = sender[t]
      /\ sender'[s].batch = sender[s].batch /\ sender'[s].outbox = sender[s].outbox
      /\ sender'[s].request = sender[s].request
  BY <1>1, SameRow DEF InvOutboxes
<1>5. TypeOKOutboxes'
  BY <1>1, <1>3, <1>4 DEF InvOutboxes, TypeOKOutboxes
<1> QED BY <1>1, <1>3, <1>4, <1>5, SenderGoesOn

LEMMA NoteDeliveredInv ==
  ASSUME InvOutboxes, NEW s \in Sender, NoteDelivered(s)
  PROVE  InvOutboxes'
<1> DEFINE i == sender[s].request
           x == [requests[i] EXCEPT !.told = TRUE]
<1>1. /\ sender[s].outbox = "approval" /\ sender[s].batch # {}
      /\ UNCHANGED <<mail, writes, board, messages, toggles, traffic>>
      /\ requests' = [requests EXCEPT ![i] = x] /\ Moves(s, "told", "accepted")
  BY DEF NoteDelivered, At, teamsOnly
<1>2. i \in DOMAIN requests /\ requests \in Seq(RequestRow) /\ requests[i] \in RequestRow
  BY <1>1 DEF InvOutboxes, ReadsAreSound, ReadIsSound, TypeOKOutboxes
<1> HIDE DEF i
<1>3. x \in RequestRow
  BY <1>2 DEF RequestRow
<1> HIDE DEF x
<1>4. requests' \in Seq(RequestRow) /\ DOMAIN requests' = DOMAIN requests
  BY <1>1, <1>2, <1>3, RowIsWritten
<1>5. /\ sender' \in [Sender -> Senders]
      /\ \A t \in Sender : t # s => sender'[t] = sender[t]
      /\ sender'[s].batch = sender[s].batch /\ sender'[s].outbox = sender[s].outbox
      /\ sender'[s].request = sender[s].request
  BY <1>1, SameRow DEF InvOutboxes, Outcomes
<1>6. TypeOKOutboxes'
  BY <1>1, <1>4, <1>5 DEF InvOutboxes, TypeOKOutboxes
<1> QED BY <1>1, <1>4, <1>5, <1>6, SenderGoesOn

(* Nobody sends: a request is raised or ended, a message is given up. *)
LEMMA NobodySends ==
  ASSUME InvOutboxes, UNCHANGED <<mail, writes, board, sender, toggles>>,
         messages' \in Seq(MessageRow), DOMAIN messages' = DOMAIN messages,
         requests' \in Seq(RequestRow), DOMAIN requests \subseteq DOMAIN requests',
         traffic' \in [mail : Nat, writes : Seq(KINDS), talk : Nat, requests : Nat, faults : Nat]
  PROVE  InvOutboxes'
<1>1. TypeOKOutboxes'
  BY DEF InvOutboxes, TypeOKOutboxes
<1>2. ReadsAreSound' /\ CopiesAreOwed'
  BY DEF InvOutboxes, ReadsAreSound, ReadIsSound, CopiesAreOwed, CopiesOwed, Owing, MaySend, Row
<1> QED BY <1>1, <1>2 DEF InvOutboxes

LEMMA RaiseRequestInv ==
  ASSUME InvOutboxes, RaiseRequest
  PROVE  InvOutboxes'
<1> DEFINE x == [pending |-> TRUE, told |-> FALSE]
<1>1. x \in RequestRow /\ requests \in Seq(RequestRow) /\ messages \in Seq(MessageRow)
  BY DEF RequestRow, InvOutboxes, TypeOKOutboxes
<1>2. requests' = Append(requests, x) /\ UNCHANGED <<mail, writes, board, messages, sender, toggles>>
  BY DEF RaiseRequest, teamsOnly
<1> HIDE DEF x
<1>3. requests' \in Seq(RequestRow) /\ DOMAIN requests \subseteq DOMAIN requests'
  BY <1>1, <1>2, RowIsAdded
<1>4. traffic' \in [mail : Nat, writes : Seq(KINDS), talk : Nat, requests : Nat, faults : Nat]
  BY QuotaIs DEF RaiseRequest, InvOutboxes
<1> QED BY <1>1, <1>2, <1>3, <1>4, NobodySends

LEMMA EndRequestInv ==
  ASSUME InvOutboxes, NEW i \in DOMAIN requests, EndRequest(i)
  PROVE  InvOutboxes'
<1> DEFINE x == [requests[i] EXCEPT !.pending = FALSE]
<1>1. /\ requests \in Seq(RequestRow) /\ requests[i] \in RequestRow /\ messages \in Seq(MessageRow)
      /\ traffic \in [mail : Nat, writes : Seq(KINDS), talk : Nat, requests : Nat, faults : Nat]
  BY DEF InvOutboxes, TypeOKOutboxes
<1>2. x \in RequestRow
  BY <1>1 DEF RequestRow
<1>3. /\ requests' = [requests EXCEPT ![i] = x]
      /\ UNCHANGED <<mail, writes, board, messages, sender, toggles, traffic>>
  BY DEF EndRequest, teamsOnly
<1> HIDE DEF x
<1>4. requests' \in Seq(RequestRow) /\ DOMAIN requests' = DOMAIN requests
  BY <1>1, <1>2, <1>3, RowIsWritten
<1> QED BY <1>1, <1>3, <1>4, NobodySends

LEMMA DeadenInv ==
  ASSUME InvOutboxes, Deaden
  PROVE  InvOutboxes'
<1>1. /\ requests \in Seq(RequestRow) /\ messages \in Seq(MessageRow)
      /\ traffic \in [mail : Nat, writes : Seq(KINDS), talk : Nat, requests : Nat, faults : Nat]
  BY DEF InvOutboxes, TypeOKOutboxes
<1>2. UNCHANGED <<mail, writes, board, requests, sender, toggles, traffic>>
  BY DEF Deaden, teamsOnly
<1>3. messages' \in [DOMAIN messages -> MessageRow]
  <2>1. ASSUME NEW i \in DOMAIN messages
        PROVE  messages[i] \in MessageRow /\ [messages[i] EXCEPT !.state = "dead"] \in MessageRow
    <3>1. messages[i] \in MessageRow
      BY <1>1
    <3> QED BY <3>1 DEF MessageRow
  <2> QED BY <2>1 DEF Deaden
<1>4. messages' \in Seq(MessageRow) /\ DOMAIN messages' = DOMAIN messages
  BY <1>1, <1>3, RowsAreRewritten
<1> QED BY <1>1, <1>2, <1>4, NobodySends

-----------------------------------------------------------------------------
(* The invariant, and the theorems.                                        *)

LEMMA NextOutboxesInv == InvOutboxes /\ [NextOutboxes]_outboxVars => InvOutboxes'
<1> SUFFICES ASSUME InvOutboxes, [NextOutboxes]_outboxVars PROVE InvOutboxes'
  OBVIOUS
<1>1. ASSUME NEW to \in BOOLEAN, QueueEmail(to) PROVE InvOutboxes'
  BY <1>1, QueueEmailInv
<1>2. ASSUME NEW i \in DOMAIN mail, NEW to \in BOOLEAN, RetryEmailDelivery(i, to) PROVE InvOutboxes'
  BY <1>2, RetryEmailInv
<1>3. CASE EnqueueMondayWrite
  BY <1>3, EnqueueWriteInv
<1>4. ASSUME NEW approve \in BOOLEAN, ApproveMondayBoard(approve) PROVE InvOutboxes'
  BY <1>4, ApproveBoardInv
<1>5. CASE RaiseRequest
  BY <1>5, RaiseRequestInv
<1>6. ASSUME NEW i \in DOMAIN requests, EndRequest(i) PROVE InvOutboxes'
  BY <1>6, EndRequestInv
<1>7. CASE Deaden
  BY <1>7, DeadenInv
<1>8. ASSUME NEW s \in Sender, Say(s) \/ Sweeps(s) \/ TellRequest(s) \/ SenderFails(s)
      PROVE  InvOutboxes'
  BY <1>8, SayInv, SweepsInv, TellRequestInv, SenderFailsInv
<1>9. ASSUME NEW s \in Sender, Works(s) PROVE InvOutboxes'
  <2>1. CASE ClaimEmail(s) \/ RecordEmail(s)
    BY <2>1, ClaimEmailInv, RecordEmailInv
  <2>2. CASE ClaimWrite(s) \/ RecordWrite(s)
    BY <2>2, ClaimWriteInv, RecordWriteInv
  <2>3. CASE SendMessage(s) \/ NoteDelivered(s)
    BY <2>3, SendMessageInv, NoteDeliveredInv
  <2>4. ASSUME NEW outcome \in Outcomes,
               \/ SendEmail(s, outcome) \/ PerformWrite(s, outcome)
               \/ RecordMessage(s, outcome) \/ SendText(s, outcome) \/ AttachCard(s, outcome)
        PROVE  InvOutboxes'
    BY <2>4, SendEmailInv, PerformWriteInv, RecordMessageInv, SendTextInv
  <2> QED BY <1>9, <2>1, <2>2, <2>3, <2>4 DEF Works
<1>10. CASE UNCHANGED outboxVars
  BY <1>10, StutterOutboxes
<1> QED BY <1>1, <1>2, <1>3, <1>4, <1>5, <1>6, <1>7, <1>8, <1>9, <1>10 DEF NextOutboxes

LEMMA OutboxesInvariance == SpecOutboxes => []InvOutboxes
BY InitOutboxesInv, NextOutboxesInv, PTL DEF SpecOutboxes

(* Every row, batch and counter has its type: no attempt is counted past the ceiling, and no
   sender works on a row that is not there. *)
THEOREM OutboxesTypeCorrect == SpecOutboxes => []TypeOKOutboxes
<1>1. InvOutboxes => TypeOKOutboxes
  BY DEF InvOutboxes
<1> QED BY <1>1, OutboxesInvariance, PTL

(* However many sweeps meet an email, whichever of them die, and whenever an operator retries
   it: every copy beyond the first is one the provider was not heard to accept, or one the
   operator asked for (mail/delivery.ts). *)
THEOREM CopiesAreAccounted == SpecOutboxes => []MailCopiesAccounted
<1>1. InvOutboxes => MailCopiesAccounted
  <2> SUFFICES ASSUME InvOutboxes, NEW i \in DOMAIN mail
               PROVE  mail[i].copies <= 1 + mail[i].unheard + mail[i].retries
    BY DEF MailCopiesAccounted
  <2>1. CopiesOwed(i) /\ mail[i] \in MailRow
    BY DEF InvOutboxes, CopiesAreOwed, TypeOKOutboxes
  <2>2. mail[i].copies \in Nat /\ mail[i].unheard \in Nat /\ mail[i].retries \in Nat
    BY <2>1, MailRowCounts
  <2>3. Cardinality(Owing(i)) \in Nat
    BY OwingIsFinite
  <2> QED BY <2>1, <2>2, <2>3 DEF CopiesOwed
<1> QED BY <1>1, OutboxesInvariance, PTL
-----------------------------------------------------------------------------
(* Forja: type correctness, and that the log tells the truth and a cursor skips nothing.  *)

(* The invariant of the plane. *)

(* A call lists what its write has left to do, a poll has the events of its page. *)
HeldByForja ==
  /\ calls \in [Client -> [by : Person \cup {Nobody}, about : Approval \cup {Nobody},
                         todo : Seq(TYPES)]]
  /\ polls \in [Client -> [step : {"none", "waiting", "replied", "handled"}, events : SUBSET Event]]

(* A number that was handed out belongs to one event of the log, or to one open transaction. *)
HasNumber(p) == open[p].step \in {"emitted", "queued"}
NumberIsOwn(p) ==
  /\ open[p].seq \in 1..seq
  /\ \A e \in log : e.seq # open[p].seq
  /\ \A q \in Party : HasNumber(q) /\ open[q].seq = open[p].seq => q = p
NumbersAreOwn ==
  /\ \A e \in log : e.seq <= seq
  /\ \A d, e \in log : d.seq = e.seq => d = e
  /\ \A p \in Party : HasNumber(p) => NumberIsOwn(p)

(* What is changed is still as it was when its transaction began: nobody else has its row. *)
ConcernsRequest(type, about) ==
  (about # Nobody) = (type \in {"approval_required", "approval_decided"})
ChangeIsSound(p) ==
  /\ ConcernsRequest(open[p].type, open[p].about) /\ Applies(open[p].type, open[p].about)
  /\ \A q \in Party :
       open[q].step # "none" /\ open[q].about = open[p].about /\ open[p].about # Nobody => q = p
ChangesAreSound == \A p \in Party : open[p].step # "none" => ChangeIsSound(p)

(* The scope of a client, once it is created, is the one it was created with. *)
Covers(c, type) ==
  /\ clients[c].state # "none"
  /\ (IF type = "approval_decided" THEN "approve" ELSE "write") \in clients[c].scopes
CallIsWarranted(c) ==
  /\ calls[c].by \in Person
  /\ \A i \in DOMAIN calls[c].todo :
       Covers(c, calls[c].todo[i]) /\ ConcernsRequest(calls[c].todo[i], calls[c].about)
WritesAreWarranted ==
  /\ \A c \in Client : calls[c].todo # <<>> => CallIsWarranted(c)
  /\ \A c \in Client : open[c].step # "none" =>
       calls[c].todo # <<>> /\ open[c].by \in Person /\ Covers(c, open[c].type)
  /\ \A e \in log : e.via \in Client => e.by \in Person /\ Covers(e.via, e.type)

(* A transaction that has queued its event has done so for every client it is due to. *)
QueuesAreWhole ==
  \A p \in Party : open[p].step = "queued" =>
    \A c \in Hooked :
      clients[c].state = "active" /\ open[p].seq > clients[c].since => c \in open[p].queued

(* A page begins where the cursor is, and leaves out only what committed behind it. *)
PageIsSound(c) ==
  /\ \A f \in polls[c].events : f.seq <= shown[c]
  /\ \A e \in log : \A f \in polls[c].events :
       Wanted(c, e) /\ e.seq > cursor[c] /\ e.seq <= f.seq => e \in polls[c].events \/ c \in e.late
  /\ polls[c].step = "handled" => Numbers(polls[c].events) \subseteq received[c]
PagesAreSound ==
  \A c \in Client :
    /\ cursor[c] <= shown[c]
    /\ polls[c].step \in {"replied", "handled"} => PageIsSound(c)

InvForja ==
  /\ TypeOKForja
  /\ HeldByForja
  /\ NumbersAreOwn
  /\ ChangesAreSound
  /\ WritesAreWarranted
  /\ QueuesAreWhole
  /\ PagesAreSound
  /\ FeedIsFaithful
-----------------------------------------------------------------------------
(* Numbers, and the sets they count.                                       *)

(* The greatest of some of the numbers up to N. *)
LEMMA GreatestIs ==
  ASSUME NEW N \in Nat, NEW S \in SUBSET (0..N), S # {}
  PROVE  Max(S) \in S /\ \A y \in S : y <= Max(S)
<1> DEFINE Gaps == {N - x : x \in S}
           Less == OpToRel(<, Nat)
<1>1. Gaps \subseteq Nat /\ Gaps # {}
  <2>1. \A x \in S : x \in Nat /\ x <= N /\ N - x \in Nat
    OBVIOUS
  <2> QED BY <2>1
<1>2. PICK g \in Gaps : \A h \in Gaps : <<h, g>> \notin Less
  BY <1>1, WFMin, NatLessThanWellFounded
<1>3. \A h \in Gaps : g <= h
  <2> SUFFICES ASSUME NEW h \in Gaps, h < g PROVE FALSE
    <3> HIDE DEF Gaps, Less
    <3> QED BY <1>1
  <2>1. <<h, g>> \in Less
    BY <1>1 DEF OpToRel
  <2> QED BY <1>2, <2>1
<1>4. PICK x \in S : N - x = g
  OBVIOUS
<1>5. \A y \in S : x >= y
  BY <1>3, <1>4
<1> HIDE DEF Gaps, Less
<1>6. Max(S) \in S /\ \A y \in S : Max(S) >= y
  BY <1>5 DEF Max
<1>7. \A y \in S : y \in 0..N
  OBVIOUS
<1> HIDE DEF Max
<1> QED BY <1>6, <1>7

LEMMA EventHas ==
  ASSUME NEW e \in Event
  PROVE  /\ e.seq \in 1..MaxEvents /\ e.seq \in Nat /\ e.seq # 0
         /\ e.type \in TYPES /\ e.about \in Approval \cup {Nobody} /\ e.by \in Person \cup {Nobody}
         /\ e.via \in Party /\ e.late \in SUBSET Client
BY ForjaAssumption DEF Event

(* Events that all have numbers of their own are no more than there are numbers. *)
LEMMA NumberedIsFinite ==
  ASSUME NEW S \in SUBSET Event, \A d, e \in S : d.seq = e.seq => d = e
  PROVE  IsFiniteSet(S) /\ Cardinality(S) \in Nat /\ Cardinality(S) <= MaxEvents
<1> DEFINE number == [e \in S |-> e.seq]
<1>1. \A e \in S : e.seq \in 1..MaxEvents
  BY EventHas
<1>2. number \in Injection(S, 1..MaxEvents)
  BY <1>1 DEF Injection, IsInjective
<1>3. IsFiniteSet(1..MaxEvents) /\ Cardinality(1..MaxEvents) = MaxEvents
  BY FS_Interval, ForjaAssumption
<1> HIDE DEF number
<1>4. IsFiniteSet(S) /\ Cardinality(S) <= MaxEvents
  BY <1>2, <1>3, FS_Injection
<1> QED BY <1>4, FS_CardinalityType

LEMMA LogIsFinite ==
  ASSUME InvForja, NEW S \in SUBSET log
  PROVE  IsFiniteSet(S) /\ Cardinality(S) \in Nat
<1>1. S \in SUBSET Event /\ \A d, e \in S : d.seq = e.seq => d = e
  BY DEF InvForja, TypeOKForja, NumbersAreOwn
<1> QED BY <1>1, NumberedIsFinite

(* What there is of one kind is one more when an event of that kind is added, and the same
   when one of another is. *)
LEMMA OneMoreEvent ==
  ASSUME InvForja, NEW S \in SUBSET log, NEW e, e \notin log
  PROVE  Cardinality(S \cup {e}) = Cardinality(S) + 1
<1>1. IsFiniteSet(S) /\ e \notin S
  BY LogIsFinite
<1> QED BY <1>1, FS_AddElement

-----------------------------------------------------------------------------
(* What stays.                                                             *)

(* Nothing about the log and what it tells depends on what is under way. *)
LEMMA TruthStays ==
  ASSUME EventsTellTheTruth, UNCHANGED dataVars, UNCHANGED clients
  PROVE  EventsTellTheTruth'
BY DEF EventsTellTheTruth, dataVars

LEMMA FeedStays ==
  ASSUME FeedIsFaithful, UNCHANGED dataVars, UNCHANGED clients, UNCHANGED <<cursor, received>>
  PROVE  FeedIsFaithful'
BY TruthStays DEF FeedIsFaithful, SkipsOnlyLate, dataVars, Wanted

LEMMA PagesStay ==
  ASSUME PagesAreSound, UNCHANGED log, UNCHANGED consumerVars
  PROVE  PagesAreSound'
BY DEF PagesAreSound, PageIsSound, consumerVars, Wanted, Numbers

LEMMA NumbersStay ==
  ASSUME NumbersAreOwn, UNCHANGED <<log, seq, open>>
  PROVE  NumbersAreOwn'
BY DEF NumbersAreOwn, NumberIsOwn, HasNumber

LEMMA ChangesStay ==
  ASSUME ChangesAreSound, UNCHANGED <<approvals, open>>
  PROVE  ChangesAreSound'
BY DEF ChangesAreSound, ChangeIsSound, ConcernsRequest, Applies

LEMMA WritesStay ==
  ASSUME WritesAreWarranted, UNCHANGED <<clients, calls, open, log>>
  PROVE  WritesAreWarranted'
BY DEF WritesAreWarranted, CallIsWarranted, Covers, ConcernsRequest

LEMMA QueuesStay ==
  ASSUME QueuesAreWhole, UNCHANGED <<clients, open>>
  PROVE  QueuesAreWhole'
BY DEF QueuesAreWhole

-----------------------------------------------------------------------------
(* Administration, and the calls.                                          *)

LEMMA AdministrationInv ==
  ASSUME InvForja, SetEnabled \/ \E p \in Person : SetActive(p)
  PROVE  InvForja'
<1>1. UNCHANGED <<clients, dataVars, calls, open, consumerVars>>
  BY DEF SetEnabled, SetActive
<1>2. UNCHANGED <<approvals, done, log, seq, deliveries, polls, cursor, received, shown, lost>>
  BY <1>1 DEF dataVars, consumerVars
<1>3. enabled' \in BOOLEAN /\ active' \in [Person -> BOOLEAN]
  BY DEF SetEnabled, SetActive, InvForja, TypeOKForja
<1>4. TypeOKForja' /\ HeldByForja'
  BY <1>1, <1>2, <1>3 DEF InvForja, TypeOKForja, HeldByForja
<1> QED BY <1>1, <1>2, <1>4, FeedStays, PagesStay, NumbersStay, ChangesStay, WritesStay, QueuesStay
        DEF InvForja

(* What was covered stays covered: a client is created once. *)
LEMMA ClientsMove ==
  ASSUME InvForja, NEW c \in Client,
         (\E scopes \in Grants : CreateForjaClient(c, scopes)) \/ RevokeForjaClient(c)
  PROVE  /\ clients' \in [Client -> [state : {"none", "active", "revoked"}, scopes : SUBSET SCOPES,
                                     since : 0..MaxEvents]]
         /\ \A d \in Client : clients[d].state # "none" =>
              /\ clients'[d].state # "none"
              /\ clients'[d].scopes = clients[d].scopes /\ clients'[d].since = clients[d].since
         /\ \A d \in Client : clients'[d].state = "active" =>
              clients[d].state = "active" \/ clients'[d].since = seq
<1>1. CASE \E scopes \in Grants : CreateForjaClient(c, scopes)
  <2>1. PICK scopes \in Grants : CreateForjaClient(c, scopes)
    BY <1>1
  <2>2. scopes \in SUBSET SCOPES
    BY ForjaAssumption
  <2> QED BY <2>1, <2>2 DEF CreateForjaClient, InvForja, TypeOKForja
<1>2. CASE RevokeForjaClient(c)
  BY <1>2 DEF RevokeForjaClient, InvForja, TypeOKForja
<1> QED BY <1>1, <1>2

LEMMA ClientsInv ==
  ASSUME InvForja, NEW c \in Client,
         (\E scopes \in Grants : CreateForjaClient(c, scopes)) \/ RevokeForjaClient(c)
  PROVE  InvForja'
<1>1. UNCHANGED <<enabled, active, dataVars, calls, open, consumerVars>>
  BY DEF CreateForjaClient, RevokeForjaClient
<1>2. UNCHANGED <<approvals, done, log, seq, deliveries, polls, cursor, received, shown, lost>>
  BY <1>1 DEF dataVars, consumerVars
<1>3. TypeOKForja' /\ HeldByForja'
  BY <1>1, <1>2, ClientsMove DEF InvForja, TypeOKForja, HeldByForja
<1>4. \A d \in Client, type \in TYPES : Covers(d, type) => Covers(d, type)'
  BY ClientsMove DEF Covers
<1>5. \A d \in Client : Covers(d, open[d].type) => Covers(d, open[d].type)'
  BY <1>1, ClientsMove DEF Covers
<1>6. WritesAreWarranted'
  <2>1. ASSUME NEW d \in Client, CallIsWarranted(d)
        PROVE  CallIsWarranted(d)'
    BY <1>1, <2>1, ClientsMove DEF CallIsWarranted, Covers, ConcernsRequest
  <2>2. ASSUME NEW e \in log, e.via \in Client, Covers(e.via, e.type)
        PROVE  Covers(e.via, e.type)'
    BY <2>2, ClientsMove DEF Covers
  <2> QED BY <1>1, <1>2, <1>5, <2>1, <2>2 DEF InvForja, WritesAreWarranted
<1>7. \A p \in Party : HasNumber(p) => open[p].seq <= seq
  BY DEF InvForja, NumbersAreOwn, NumberIsOwn
<1>8. \A d \in Client : clients'[d].state = "active" =>
        \/ clients[d].state = "active" /\ clients'[d].since = clients[d].since
        \/ clients'[d].since = seq
  BY ClientsMove
<1>9. QueuesAreWhole'
  <2> SUFFICES ASSUME NEW p \in Party, open[p].step = "queued",
                      NEW d \in Hooked, clients'[d].state = "active", open[p].seq > clients'[d].since
               PROVE  d \in open[p].queued
    BY <1>1 DEF QueuesAreWhole
  <2>1. d \in Client /\ seq \in Nat /\ open[p].seq \in Nat /\ open[p].seq <= seq
    BY <1>7, ForjaAssumption DEF InvForja, TypeOKForja, HasNumber
  <2>2. clients'[d].since # seq
    BY <2>1
  <2> QED BY <1>8, <2>1, <2>2 DEF InvForja, QueuesAreWhole
<1>10. EventsTellTheTruth'
  <2>1. ASSUME NEW e \in log, e.via \in Client
        PROVE  /\ e.by \in Person
               /\ (IF e.type = "approval_decided" THEN "approve" ELSE "write")
                    \in clients'[e.via].scopes
    <3>1. e.by \in Person /\ Covers(e.via, e.type)
      BY <2>1 DEF InvForja, WritesAreWarranted
    <3> QED BY <2>1, <3>1, ClientsMove DEF Covers
  <2>2. ASSUME NEW d \in Hooked, NEW e \in log,
               clients'[d].state = "active", e.seq > clients'[d].since
        PROVE  <<d, e.seq>> \in deliveries
    <3>1. d \in Client /\ seq \in Nat /\ e.seq \in Nat /\ e.seq <= seq
      BY EventHas, ForjaAssumption DEF InvForja, TypeOKForja, NumbersAreOwn
    <3>2. clients'[d].since # seq
      BY <2>2, <3>1
    <3> QED BY <1>8, <2>2, <3>1, <3>2 DEF InvForja, FeedIsFaithful, EventsTellTheTruth
  <2> QED BY <1>2, <2>1, <2>2 DEF InvForja, FeedIsFaithful, EventsTellTheTruth, Numbers
<1>11. FeedIsFaithful'
  BY <1>2, <1>10 DEF InvForja, FeedIsFaithful, SkipsOnlyLate, Wanted
<1> QED BY <1>1, <1>2, <1>3, <1>6, <1>9, <1>11, PagesStay, NumbersStay, ChangesStay DEF InvForja

(* What a write has to do is what its operation's scope covers. *)
LEMMA TodoIs ==
  ASSUME NEW op \in Operation, NEW about, NEW todo \in Todo(op),
         (about # Nobody) = (op \in {"approvals", "decision"})
  PROVE  /\ todo \in Seq(TYPES)
         /\ \A i \in DOMAIN todo :
              /\ ConcernsRequest(todo[i], about)
              /\ ScopeFor(op) = (IF todo[i] = "approval_decided" THEN "approve" ELSE "write")
<1>1. CASE op = "tasks"
  <2>1. todo = <<"task_created">> \/ todo = <<"task_created", "discovery_started">>
    BY <1>1 DEF Todo
  <2>2. todo \in Seq(TYPES)
    <3>1. "task_created" \in TYPES /\ "discovery_started" \in TYPES
      BY DEF TYPES
    <3>2. <<"task_created">> \in Seq(TYPES) /\ <<"task_created", "discovery_started">> \in Seq(TYPES)
      BY <3>1
    <3> QED BY <2>1, <3>2
  <2>3. \A i \in DOMAIN todo : todo[i] \in {"task_created", "discovery_started"}
    BY <2>1
  <2> QED BY <1>1, <2>2, <2>3 DEF ConcernsRequest, ScopeFor
<1>2. CASE op = "messages"
  <2>1. todo = <<"conversation_message">>
    BY <1>2 DEF Todo
  <2>2. todo \in Seq(TYPES) /\ \A i \in DOMAIN todo : todo[i] = "conversation_message"
    BY <2>1 DEF TYPES
  <2> QED BY <1>2, <2>2 DEF ConcernsRequest, ScopeFor
<1>3. CASE op = "approvals"
  <2>1. todo = <<"approval_required">>
    BY <1>3 DEF Todo
  <2>2. todo \in Seq(TYPES) /\ \A i \in DOMAIN todo : todo[i] = "approval_required"
    BY <2>1 DEF TYPES
  <2> QED BY <1>3, <2>2 DEF ConcernsRequest, ScopeFor
<1>4. CASE op = "decision"
  <2>1. todo = <<"approval_decided">>
    BY <1>4 DEF Todo
  <2>2. todo \in Seq(TYPES) /\ \A i \in DOMAIN todo : todo[i] = "approval_decided"
    BY <2>1 DEF TYPES
  <2> QED BY <1>4, <2>2 DEF ConcernsRequest, ScopeFor
<1> QED BY <1>1, <1>2, <1>3, <1>4 DEF Operation

LEMMA WriteInv ==
  ASSUME InvForja, NEW c \in Client, NEW op \in Operation, NEW person \in Person,
         NEW about \in Approval \cup {Nobody}, Write(c, op, person, about)
  PROVE  InvForja'
<1>1. UNCHANGED <<planeVars, dataVars, open, consumerVars>>
  BY DEF Write
<1>2. UNCHANGED <<enabled, clients, active, approvals, done, log, seq, deliveries, polls, cursor,
                  received, shown, lost>>
  BY <1>1 DEF planeVars, dataVars, consumerVars
<1>3. PICK todo \in Todo(op) :
        calls' = [calls EXCEPT ![c] = [by |-> person, about |-> about, todo |-> todo]]
  BY DEF Write
<1>4. todo \in Seq(TYPES) /\ \A i \in DOMAIN todo :
        /\ ConcernsRequest(todo[i], about)
        /\ ScopeFor(op) = (IF todo[i] = "approval_decided" THEN "approve" ELSE "write")
  BY TodoIs DEF Write
<1>5. calls'[c] = [by |-> person, about |-> about, todo |-> todo]
      /\ \A d \in Client : d # c => calls'[d] = calls[d]
  BY <1>3 DEF InvForja, HeldByForja
<1>6. TypeOKForja' /\ HeldByForja'
  <2>1. HeldByForja'
    BY <1>2, <1>3, <1>4 DEF InvForja, HeldByForja
  <2>2. TypeOKForja'
    BY <1>1, <1>2, <2>1 DEF InvForja, TypeOKForja, HeldByForja
  <2> QED BY <2>1, <2>2
<1>7. clients[c].state = "active" /\ ScopeFor(op) \in clients[c].scopes
  BY DEF Write, AuthenticateForja, RequireScope
<1>8. CallIsWarranted(c)'
  BY <1>2, <1>4, <1>5, <1>7 DEF CallIsWarranted, Covers, ConcernsRequest
<1>9. calls[c].todo = <<>>
  BY DEF Write, NoCall
<1>10. WritesAreWarranted'
  <2>1. \A d \in Client : calls'[d].todo # <<>> => CallIsWarranted(d)'
    <3> SUFFICES ASSUME NEW d \in Client, calls'[d].todo # <<>>, d # c
                 PROVE  CallIsWarranted(d)'
      BY <1>8
    <3> QED BY <1>2, <1>5 DEF InvForja, WritesAreWarranted, CallIsWarranted, Covers, ConcernsRequest
  <2>2. \A d \in Client : open[d].step # "none" => d # c
    BY <1>9 DEF InvForja, WritesAreWarranted
  <2> QED BY <1>1, <1>2, <1>5, <2>1, <2>2 DEF InvForja, WritesAreWarranted, Covers
<1> QED BY <1>1, <1>2, <1>6, <1>10, FeedStays, PagesStay, NumbersStay, ChangesStay, QueuesStay
        DEF InvForja

LEMMA RefusesInv ==
  ASSUME InvForja, NEW c \in Client, Refuses(c)
  PROVE  InvForja'
<1>1. UNCHANGED <<planeVars, dataVars, open, consumerVars>> /\ open[c].step = "none"
      /\ calls' = [calls EXCEPT ![c] = NoCall]
  BY DEF Refuses
<1>2. UNCHANGED <<enabled, clients, active, approvals, done, log, seq, deliveries, polls, cursor,
                  received, shown, lost>>
  BY <1>1 DEF planeVars, dataVars, consumerVars
<1>3. HeldByForja'
  BY <1>1, <1>2 DEF InvForja, HeldByForja, NoCall
<1>4. TypeOKForja'
  BY <1>1, <1>2, <1>3 DEF InvForja, TypeOKForja, HeldByForja
<1>5. WritesAreWarranted'
  <2>1. calls'[c].todo = <<>> /\ \A d \in Client : d # c => calls'[d] = calls[d]
    BY <1>1 DEF InvForja, HeldByForja, NoCall
  <2>2. \A d \in Client : calls'[d].todo # <<>> => CallIsWarranted(d)'
    BY <1>2, <2>1 DEF InvForja, WritesAreWarranted, CallIsWarranted, Covers, ConcernsRequest
  <2> QED BY <1>1, <1>2, <2>1, <2>2 DEF InvForja, WritesAreWarranted, Covers
<1> QED BY <1>1, <1>2, <1>3, <1>4, <1>5, FeedStays, PagesStay, NumbersStay, ChangesStay, QueuesStay
        DEF InvForja

-----------------------------------------------------------------------------
(* A change and its event.                                                 *)

(* One transaction moves, or one is opened or ends; no other is touched. *)
Touches(p) ==
  /\ open' \in [Party -> [step : {"none", "changed", "emitted", "queued"}, type : TYPES,
                          about : Approval \cup {Nobody}, by : Person \cup {Nobody},
                          seq : 0..MaxEvents, queued : SUBSET Client]]
  /\ \A q \in Party : q # p => open'[q] = open[q]

LEMMA OpensInv ==
  ASSUME InvForja, NEW p \in Party, NEW type \in TYPES, NEW about \in Approval \cup {Nobody},
         NEW by \in Person \cup {Nobody}, Opens(p, type, about, by), Applies(type, about),
         ConcernsRequest(type, about),
         p \in Client => calls[p].todo # <<>> /\ by \in Person /\ Covers(p, type)
  PROVE  InvForja'
<1>1. UNCHANGED <<planeVars, dataVars, calls, consumerVars>>
  BY DEF Opens
<1>2. UNCHANGED <<enabled, clients, active, approvals, done, log, seq, deliveries, polls, cursor,
                  received, shown, lost>>
  BY <1>1 DEF planeVars, dataVars, consumerVars
<1>3. Touches(p) /\ open'[p] = [step |-> "changed", type |-> type, about |-> about, by |-> by,
                               seq |-> 0, queued |-> {}]
  BY ForjaAssumption DEF Opens, Touches, InvForja, TypeOKForja
<1>4. TypeOKForja' /\ HeldByForja'
  BY <1>1, <1>2, <1>3 DEF InvForja, TypeOKForja, HeldByForja, Touches
<1>5. NumbersAreOwn'
  BY <1>2, <1>3 DEF InvForja, NumbersAreOwn, NumberIsOwn, HasNumber, Touches
<1>6. \A q \in Party : q # p /\ open[q].step # "none" /\ open[q].about = about => about = Nobody
  BY DEF Opens, Locked
<1>7. ChangesAreSound'
  <2>1. ChangeIsSound(p)'
    BY <1>2, <1>3, <1>6 DEF ChangeIsSound, Touches, Applies, ConcernsRequest
  <2>2. ASSUME NEW q \in Party, q # p, ChangeIsSound(q), open[q].step # "none"
        PROVE  ChangeIsSound(q)'
    BY <1>2, <1>3, <1>6, <2>2 DEF ChangeIsSound, Touches, Applies, ConcernsRequest
  <2> QED BY <1>3, <2>1, <2>2 DEF InvForja, ChangesAreSound, Touches
<1>8. WritesAreWarranted'
  <2>1. ASSUME NEW c \in Client, open'[c].step # "none"
        PROVE  calls[c].todo # <<>> /\ open'[c].by \in Person /\ Covers(c, open'[c].type)
    <3>1. CASE c = p
      BY <1>3, <3>1
    <3>2. CASE c # p
      BY <1>3, <2>1, <3>2 DEF InvForja, WritesAreWarranted, Touches, Party
    <3> QED BY <3>1, <3>2
  <2> QED BY <1>1, <1>2, <2>1
      DEF InvForja, WritesAreWarranted, CallIsWarranted, Covers, ConcernsRequest
<1>9. QueuesAreWhole'
  BY <1>2, <1>3 DEF InvForja, QueuesAreWhole, Touches
<1> QED BY <1>1, <1>2, <1>4, <1>5, <1>7, <1>8, <1>9, FeedStays, PagesStay DEF InvForja

LEMMA ForjaChangesInv ==
  ASSUME InvForja, NEW c \in Client, ForjaChanges(c)
  PROVE  InvForja'
<1> DEFINE type == Head(calls[c].todo)
<1>1. calls[c].todo # <<>> /\ Applies(type, calls[c].about)
      /\ Opens(c, type, calls[c].about, calls[c].by)
  BY DEF ForjaChanges
<1>2. calls[c].todo \in Seq(TYPES) /\ calls[c].about \in Approval \cup {Nobody}
  BY DEF InvForja, HeldByForja
<1>3. 1 \in DOMAIN calls[c].todo /\ type = calls[c].todo[1] /\ type \in TYPES
  BY <1>1, <1>2
<1>4. calls[c].by \in Person /\ Covers(c, type) /\ ConcernsRequest(type, calls[c].about)
  BY <1>1, <1>3 DEF InvForja, WritesAreWarranted, CallIsWarranted
<1> HIDE DEF type
<1> QED BY <1>1, <1>2, <1>3, <1>4, OpensInv DEF Party

LEMMA WebChangesInv ==
  ASSUME InvForja, NEW w \in Web, NEW type \in WebTypes, NEW about \in Approval \cup {Nobody},
         WebChanges(w, type, about)
  PROVE  InvForja'
<1>1. w \in Party /\ w \notin Client /\ type \in TYPES
  BY ForjaAssumption DEF Party
<1>2. Opens(w, type, about, Nobody) /\ Applies(type, about) /\ ConcernsRequest(type, about)
  BY DEF WebChanges, ConcernsRequest
<1> QED BY <1>1, <1>2, OpensInv

LEMMA EmitInv ==
  ASSUME InvForja, NEW p \in Party, Emit(p)
  PROVE  InvForja'
<1>1. UNCHANGED <<planeVars, approvals, done, log, deliveries, calls, consumerVars>>
      /\ seq' = seq + 1 /\ seq < MaxEvents /\ open[p].step = "changed"
  BY DEF Emit
<1>2. UNCHANGED <<enabled, clients, active, polls, cursor, received, shown, lost>>
  BY <1>1 DEF planeVars, consumerVars
<1>3. seq \in Nat /\ seq + 1 \in 1..MaxEvents /\ seq' \in 0..MaxEvents
  BY <1>1, ForjaAssumption DEF InvForja, TypeOKForja
<1>4. Touches(p) /\ open'[p].step = "emitted" /\ open'[p].seq = seq + 1 /\ open'[p].type = open[p].type
      /\ open'[p].about = open[p].about /\ open'[p].by = open[p].by
  BY ZenonT(60), <1>3 DEF Emit, Touches, InvForja, TypeOKForja
<1>5. TypeOKForja' /\ HeldByForja'
  BY <1>1, <1>2, <1>3, <1>4 DEF InvForja, TypeOKForja, HeldByForja, Touches
<1>6. \A e \in log : e.seq \in Nat /\ e.seq <= seq
  BY EventHas DEF InvForja, TypeOKForja, NumbersAreOwn
<1>7. NumbersAreOwn'
  <2>1. \A q \in Party : q # p /\ HasNumber(q) => open[q].seq \in 1..seq
    BY DEF InvForja, NumbersAreOwn, NumberIsOwn
  <2>2. NumberIsOwn(p)'
    BY <1>1, <1>3, <1>4, <1>6, <2>1 DEF NumberIsOwn, HasNumber, Touches
  <2>3. ASSUME NEW q \in Party, q # p, HasNumber(q)
        PROVE  NumberIsOwn(q)'
    BY <1>1, <1>3, <1>4, <2>1, <2>3 DEF InvForja, NumbersAreOwn, NumberIsOwn, HasNumber, Touches
  <2>4. \A e \in log : e.seq <= seq'
    BY <1>1, <1>3, <1>6
  <2> QED BY <1>1, <1>4, <2>2, <2>3, <2>4 DEF InvForja, NumbersAreOwn, HasNumber, Touches
<1>8. ChangesAreSound'
  BY <1>1, <1>4 DEF InvForja, ChangesAreSound, ChangeIsSound, Touches, Applies, ConcernsRequest
<1>9. WritesAreWarranted'
  BY <1>1, <1>2, <1>4
  DEF InvForja, WritesAreWarranted, CallIsWarranted, Covers, ConcernsRequest, Touches, Party
<1>10. QueuesAreWhole'
  BY <1>2, <1>4 DEF InvForja, QueuesAreWhole, Touches
<1>11. FeedIsFaithful'
  BY <1>1, <1>2 DEF InvForja, FeedIsFaithful, EventsTellTheTruth, SkipsOnlyLate, Wanted, Numbers
<1> QED BY <1>1, <1>2, <1>5, <1>7, <1>8, <1>9, <1>10, <1>11, PagesStay DEF InvForja

LEMMA QueueInv ==
  ASSUME InvForja, NEW p \in Party, Queue(p)
  PROVE  InvForja'
<1>1. UNCHANGED <<planeVars, dataVars, calls, consumerVars>> /\ open[p].step = "emitted"
  BY DEF Queue
<1>2. UNCHANGED <<enabled, clients, active, approvals, done, log, seq, deliveries, polls, cursor,
                  received, shown, lost>>
  BY <1>1 DEF planeVars, dataVars, consumerVars
<1>3. Subscribers \in SUBSET Client
  BY ForjaAssumption DEF Subscribers
<1>4. Touches(p) /\ open'[p].step = "queued" /\ open'[p].queued = Subscribers
      /\ open'[p].seq = open[p].seq /\ open'[p].type = open[p].type
      /\ open'[p].about = open[p].about /\ open'[p].by = open[p].by
  BY <1>3 DEF Queue, Touches, InvForja, TypeOKForja
<1>5. TypeOKForja' /\ HeldByForja'
  BY <1>1, <1>2, <1>4 DEF InvForja, TypeOKForja, HeldByForja, Touches
<1>6. NumbersAreOwn'
  BY <1>1, <1>2, <1>4 DEF InvForja, NumbersAreOwn, NumberIsOwn, HasNumber, Touches
<1>7. ChangesAreSound'
  BY <1>1, <1>2, <1>4 DEF InvForja, ChangesAreSound, ChangeIsSound, Touches, Applies, ConcernsRequest
<1>8. WritesAreWarranted'
  BY <1>1, <1>2, <1>4
  DEF InvForja, WritesAreWarranted, CallIsWarranted, Covers, ConcernsRequest, Touches, Party
<1>9. QueuesAreWhole'
  BY <1>2, <1>4 DEF InvForja, QueuesAreWhole, Subscribers, Touches
<1> QED BY <1>1, <1>2, <1>5, <1>6, <1>7, <1>8, <1>9, FeedStays, PagesStay DEF InvForja

LEMMA RollBackInv ==
  ASSUME InvForja, NEW p \in Party, RollBack(p)
  PROVE  InvForja'
<1>1. UNCHANGED <<planeVars, dataVars, consumerVars>>
  BY DEF RollBack
<1>2. UNCHANGED <<enabled, clients, active, approvals, done, log, seq, deliveries, polls, cursor,
                  received, shown, lost>>
  BY <1>1 DEF planeVars, dataVars, consumerVars
<1>3. Touches(p) /\ open'[p].step = "none"
  BY ForjaAssumption DEF RollBack, NoChange, Touches, InvForja, TypeOKForja, TYPES
<1>4. /\ \A c \in Client : c # p => calls'[c] = calls[c]
      /\ p \in Client => calls'[p].todo = <<>>
      /\ HeldByForja'
  BY <1>2 DEF RollBack, NoCall, InvForja, HeldByForja
<1>5. TypeOKForja'
  BY <1>2, <1>3, <1>4 DEF InvForja, TypeOKForja, HeldByForja, Touches
<1>6. NumbersAreOwn'
  BY <1>2, <1>3 DEF InvForja, NumbersAreOwn, NumberIsOwn, HasNumber, Touches
<1>7. ChangesAreSound'
  BY <1>2, <1>3 DEF InvForja, ChangesAreSound, ChangeIsSound, Touches, Applies, ConcernsRequest
<1>8. WritesAreWarranted'
  BY <1>2, <1>3, <1>4
  DEF InvForja, WritesAreWarranted, CallIsWarranted, Covers, ConcernsRequest, Touches, Party
<1>9. QueuesAreWhole'
  BY <1>2, <1>3 DEF InvForja, QueuesAreWhole, Touches
<1> QED BY <1>1, <1>2, <1>4, <1>5, <1>6, <1>7, <1>8, <1>9, FeedStays, PagesStay DEF InvForja

(* The event a transaction commits: new, and of its own number. *)
LEMMA EventIsNew ==
  ASSUME InvForja, NEW p \in Party, HasNumber(p), NEW event, event = EventOf(p, open[p].seq)
  PROVE  /\ event \in Event /\ event \notin log
         /\ event.seq = open[p].seq /\ event.type = open[p].type /\ event.about = open[p].about
         /\ event.by = open[p].by /\ event.via = p
         /\ \A c \in Client : shown[c] >= event.seq => c \in event.late
         /\ event.seq \in 1..seq /\ \A e \in log : e.seq # event.seq
<1>1. open[p].seq \in 1..seq /\ \A e \in log : e.seq # open[p].seq
  BY DEF InvForja, NumbersAreOwn, NumberIsOwn
<1>2. /\ open[p].type \in TYPES /\ open[p].about \in Approval \cup {Nobody}
      /\ open[p].by \in Person \cup {Nobody} /\ seq \in 0..MaxEvents
  BY DEF InvForja, TypeOKForja
<1>3. open[p].seq \in 1..MaxEvents
  BY <1>1, <1>2, ForjaAssumption
<1>4. event \in Event
  BY <1>2, <1>3 DEF EventOf, Event
<1> QED BY <1>1, <1>4 DEF EventOf

(* The numbers stay each other's after it. *)
LEMMA CommitNumbers ==
  ASSUME InvForja, NEW p \in Party, HasNumber(p), NEW event, event = EventOf(p, open[p].seq),
         log' = log \cup {event}, seq' = seq, Touches(p), open'[p].step = "none"
  PROVE  NumbersAreOwn'
<1>1. event.seq = open[p].seq /\ event.seq \in 1..seq /\ \A e \in log : e.seq # event.seq
  BY EventIsNew
<1>2. \A e \in log' : e.seq <= seq
  BY <1>1 DEF InvForja, NumbersAreOwn
<1>3. \A d, e \in log' : d.seq = e.seq => d = e
  BY <1>1 DEF InvForja, NumbersAreOwn
<1>4. ASSUME NEW q \in Party, HasNumber(q)'
      PROVE  NumberIsOwn(q)'
  <2>1. q # p /\ open'[q] = open[q] /\ HasNumber(q)
    BY <1>4 DEF Touches, HasNumber
  <2>2. NumberIsOwn(q)
    BY <2>1 DEF InvForja, NumbersAreOwn
  <2>3. open[q].seq # event.seq
    BY <1>1, <2>1, <2>2 DEF NumberIsOwn
  <2> QED BY <2>1, <2>2, <2>3 DEF NumberIsOwn, Touches, HasNumber
<1> QED BY <1>2, <1>3, <1>4 DEF NumbersAreOwn

(* A call that has made its last transaction is over; another goes on with the next. *)
LEMMA CommitCalls ==
  ASSUME InvForja, NEW p \in Party, open[p].step # "none",
         calls' = IF p \notin Client THEN calls
                  ELSE [calls EXCEPT ![p] = IF Len(calls[p].todo) = 1 THEN NoCall
                                            ELSE [calls[p] EXCEPT !.todo = Tail(@)]]
  PROVE  /\ calls' \in [Client -> [by : Person \cup {Nobody}, about : Approval \cup {Nobody},
                                   todo : Seq(TYPES)]]
         /\ \A c \in Client : c # p => calls'[c] = calls[c]
         /\ p \in Client => \/ calls'[p].todo = <<>>
                            \/ /\ calls'[p].by = calls[p].by /\ calls'[p].about = calls[p].about
                               /\ calls'[p].todo = Tail(calls[p].todo)
<1>1. CASE p \notin Client
  BY <1>1 DEF InvForja, HeldByForja
<1>2. CASE p \in Client
  <2>1. calls[p].todo \in Seq(TYPES) /\ calls[p].todo # <<>>
    BY <1>2 DEF InvForja, HeldByForja, WritesAreWarranted
  <2>2. Tail(calls[p].todo) \in Seq(TYPES)
    BY <2>1
  <2>3. CASE Len(calls[p].todo) = 1
    BY <1>2, <2>3 DEF InvForja, HeldByForja, NoCall
  <2>4. CASE Len(calls[p].todo) # 1
    <3>1. calls \in [Client -> [by : Person \cup {Nobody}, about : Approval \cup {Nobody},
                              todo : Seq(TYPES)]]
      BY DEF InvForja, HeldByForja
    <3>2. calls' = [calls EXCEPT ![p] = [calls[p] EXCEPT !.todo = Tail(calls[p].todo)]]
      BY <1>2, <2>4
    <3> QED BY <1>2, <2>2, <3>1, <3>2
  <2> QED BY <2>3, <2>4
<1> QED BY <1>1, <1>2

LEMMA TailHas ==
  ASSUME NEW S, NEW s \in Seq(S), s # <<>>
  PROVE  \A i \in DOMAIN Tail(s) : i + 1 \in DOMAIN s /\ Tail(s)[i] = s[i + 1]
OBVIOUS

LEMMA CommitWrites ==
  ASSUME InvForja, NEW p \in Party, HasNumber(p), NEW event, event = EventOf(p, open[p].seq),
         log' = log \cup {event}, UNCHANGED clients, Touches(p), open'[p].step = "none",
         calls' = IF p \notin Client THEN calls
                  ELSE [calls EXCEPT ![p] = IF Len(calls[p].todo) = 1 THEN NoCall
                                            ELSE [calls[p] EXCEPT !.todo = Tail(@)]]
  PROVE  WritesAreWarranted'
<1>1. open[p].step # "none"
  BY DEF HasNumber
<1>2. /\ \A c \in Client : c # p => calls'[c] = calls[c]
      /\ p \in Client => \/ calls'[p].todo = <<>>
                         \/ /\ calls'[p].by = calls[p].by /\ calls'[p].about = calls[p].about
                            /\ calls'[p].todo = Tail(calls[p].todo)
  BY <1>1, CommitCalls
<1>3. event.via = p /\ event.by = open[p].by /\ event.type = open[p].type
  BY EventIsNew
<1>4. ASSUME NEW c \in Client, calls'[c].todo # <<>>
      PROVE  CallIsWarranted(c)'
  <2>1. CASE c # p
    BY <1>4, <1>2, <2>1
    DEF InvForja, WritesAreWarranted, CallIsWarranted, Covers, ConcernsRequest
  <2>2. CASE c = p
    <3>1. /\ calls'[p].by = calls[p].by /\ calls'[p].about = calls[p].about
          /\ calls'[p].todo = Tail(calls[p].todo)
      BY <1>4, <1>2, <2>2
    <3>2. calls[p].todo \in Seq(TYPES) /\ calls[p].todo # <<>> /\ CallIsWarranted(p)
      BY <1>1, <2>2 DEF InvForja, HeldByForja, WritesAreWarranted
    <3>3. \A i \in DOMAIN Tail(calls[p].todo) :
            i + 1 \in DOMAIN calls[p].todo /\ Tail(calls[p].todo)[i] = calls[p].todo[i + 1]
      BY <3>2, TailHas
    <3>4. ASSUME NEW i \in DOMAIN calls'[p].todo
          PROVE  Covers(p, calls[p].todo[i])' /\ ConcernsRequest(calls[p].todo[i], calls[p].about)'
      <4>1. Covers(p, calls[p].todo[i + 1]) /\ ConcernsRequest(calls[p].todo[i + 1], calls[p].about)
        BY <3>1, <3>2, <3>3, <3>4 DEF CallIsWarranted
      <4>2. calls'[p].todo[i] = calls[p].todo[i + 1]
        BY <3>1, <3>3, <3>4
      <4> QED BY <3>1, <4>1, <4>2 DEF Covers, ConcernsRequest
    <3>5. calls'[p].by \in Person
      BY <3>1, <3>2 DEF CallIsWarranted
    <3> QED BY <2>2, <3>4, <3>5 DEF CallIsWarranted
  <2> QED BY <2>1, <2>2
<1>5. ASSUME NEW c \in Client, open'[c].step # "none"
      PROVE  calls'[c].todo # <<>> /\ open'[c].by \in Person /\ Covers(c, open[c].type)'
  <2>1. c # p /\ c \in Party /\ open'[c] = open[c]
    BY <1>5 DEF Touches, Party
  <2>2. calls'[c] = calls[c]
    BY <1>5, <1>2, <2>1
  <2> QED BY <1>5, <2>1, <2>2 DEF InvForja, WritesAreWarranted, Covers
<1>6. ASSUME NEW e \in log', e.via \in Client
      PROVE  e.by \in Person /\ Covers(e.via, e.type)'
  <2>1. CASE e \in log
    BY <1>6, <2>1 DEF InvForja, WritesAreWarranted, Covers
  <2>2. CASE e = event
    <3>1. e.via = p /\ e.by = open[p].by /\ e.type = open[p].type
      BY <1>3, <2>2
    <3> QED BY <1>1, <1>6, <3>1 DEF InvForja, WritesAreWarranted, Covers
  <2> QED BY <2>1, <2>2
<1> QED BY <1>4, <1>5, <1>6 DEF WritesAreWarranted, Covers

(* What is committed behind a page, or behind the cursor, is late for its client. *)
LEMMA CommitFeed ==
  ASSUME InvForja, NEW p \in Party, HasNumber(p), NEW event, event = EventOf(p, open[p].seq),
         log' = log \cup {event}, UNCHANGED consumerVars
  PROVE  PagesAreSound' /\ SkipsOnlyLate'
<1>1. UNCHANGED <<polls, cursor, received, shown>>
  BY DEF consumerVars
<1>2. \A c \in Client : shown[c] >= event.seq => c \in event.late
  BY EventIsNew
<1>3. event.seq \in Nat
  BY EventIsNew, ForjaAssumption DEF InvForja, TypeOKForja
<1>4. ASSUME NEW c \in Client, PageIsSound(c), polls[c].events \in SUBSET log
      PROVE  PageIsSound(c)'
  <2>1. \A f \in polls[c].events : f.seq \in Nat /\ f.seq <= shown[c] /\ shown[c] \in Nat
    BY <1>4, EventHas, ForjaAssumption DEF PageIsSound, InvForja, TypeOKForja
  <2>2. \A f \in polls[c].events : event.seq <= f.seq => c \in event.late
    BY <1>2, <1>3, <2>1
  <2> QED BY <1>1, <1>4, <2>2 DEF PageIsSound, Wanted, Numbers
<1>5. PagesAreSound'
  BY <1>1, <1>4 DEF InvForja, TypeOKForja, PagesAreSound
<1>6. \A c \in Client : event.seq <= cursor[c] => c \in event.late
  <2> SUFFICES ASSUME NEW c \in Client, event.seq <= cursor[c]
               PROVE  shown[c] >= event.seq
    BY <1>2
  <2>1. cursor[c] <= shown[c] /\ cursor[c] \in Nat /\ shown[c] \in Nat
    BY ForjaAssumption DEF InvForja, PagesAreSound, TypeOKForja
  <2> QED BY <1>3, <2>1
<1>7. SkipsOnlyLate'
  BY <1>1, <1>6 DEF InvForja, FeedIsFaithful, SkipsOnlyLate, Wanted
<1> QED BY <1>5, <1>7

(* What a commit does to the log, the counts, the requests and the deliveries. *)
Commits(p, event) ==
  /\ open[p].step = "queued" /\ event = EventOf(p, open[p].seq)
  /\ log' = log \cup {event}
  /\ done' = [done EXCEPT ![open[p].type] = @ + 1]
  /\ approvals' = CASE open[p].type = "approval_required" ->
                         [approvals EXCEPT ![open[p].about] = "pending"]
                    [] open[p].type = "approval_decided" ->
                         [approvals EXCEPT ![open[p].about] = "decided"]
                    [] OTHER -> approvals
  /\ deliveries' = deliveries \cup (open[p].queued \X {open[p].seq})
  /\ UNCHANGED clients

LEMMA CommitCounts ==
  ASSUME InvForja, NEW p \in Party, NEW event, Commits(p, event), NumbersAreOwn'
  PROVE  /\ \A type \in TYPES : Cardinality({e \in log' : e.type = type}) = done'[type]
         /\ done' \in [TYPES -> 0..MaxEvents]
<1>1. /\ HasNumber(p) /\ event = EventOf(p, open[p].seq) /\ log' = log \cup {event}
      /\ done' = [done EXCEPT ![open[p].type] = @ + 1]
  BY DEF Commits, HasNumber
<1>2. event \in Event /\ event \notin log /\ event.type = open[p].type
  BY <1>1, EventIsNew
<1>3. open[p].type \in TYPES /\ done \in [TYPES -> 0..MaxEvents] /\ log \in SUBSET Event
  BY DEF InvForja, TypeOKForja
<1>4. ASSUME NEW type \in TYPES
      PROVE  Cardinality({e \in log' : e.type = type}) = done'[type]
  <2> DEFINE before == {e \in log : e.type = type}
  <2>1. Cardinality(before) = done[type] /\ done[type] \in Nat
    BY <1>3, ForjaAssumption DEF InvForja, FeedIsFaithful, EventsTellTheTruth
  <2>2. CASE type = open[p].type
    <3>1. {e \in log' : e.type = type} = before \cup {event}
      BY <1>1, <1>2, <2>2
    <3>2. Cardinality(before \cup {event}) = Cardinality(before) + 1
      BY <1>2, OneMoreEvent
    <3>3. done'[type] = done[type] + 1
      BY <1>1, <1>3, <2>2
    <3> HIDE DEF before
    <3> QED BY <2>1, <3>1, <3>2, <3>3
  <2>3. CASE type # open[p].type
    <3>1. {e \in log' : e.type = type} = before
      BY <1>1, <1>2, <2>3
    <3>2. done'[type] = done[type]
      BY <1>1, <1>3, <2>3
    <3> QED BY <2>1, <3>1, <3>2
  <2> QED BY <2>2, <2>3
<1>5. ASSUME NEW type \in TYPES
      PROVE  done'[type] \in 0..MaxEvents
  <2> DEFINE after == {e \in log' : e.type = type}
  <2>1. after \in SUBSET Event /\ \A d, e \in after : d.seq = e.seq => d = e
    BY <1>1, <1>2, <1>3 DEF NumbersAreOwn
  <2>2. Cardinality(after) \in Nat /\ Cardinality(after) <= MaxEvents
    BY <2>1, NumberedIsFinite
  <2>3. Cardinality(after) = done'[type]
    BY <1>4
  <2> HIDE DEF after
  <2> QED BY <2>2, <2>3, ForjaAssumption
<1>6. done' = [type \in TYPES |-> done'[type]]
  BY <1>1, <1>3
<1> QED BY <1>4, <1>5, <1>6

LEMMA CommitDecides ==
  ASSUME InvForja, NEW p \in Party, NEW event, Commits(p, event)
  PROVE  /\ approvals' \in [Approval -> {"none", "pending", "decided"}]
         /\ \A a \in Approval :
              Cardinality({e \in log' : e.type = "approval_decided" /\ e.about = a}) =
                (IF approvals'[a] = "decided" THEN 1 ELSE 0)
<1>1. HasNumber(p) /\ event = EventOf(p, open[p].seq) /\ log' = log \cup {event}
  BY DEF Commits, HasNumber
<1>2. event \notin log /\ event.type = open[p].type /\ event.about = open[p].about
  BY <1>1, EventIsNew
<1>3. /\ ConcernsRequest(open[p].type, open[p].about) /\ Applies(open[p].type, open[p].about)
      /\ open[p].about \in Approval \cup {Nobody}
      /\ approvals \in [Approval -> {"none", "pending", "decided"}]
  BY <1>1 DEF HasNumber, InvForja, ChangesAreSound, ChangeIsSound, TypeOKForja
<1>4. CASE open[p].type = "approval_required"
  <2>1. open[p].about \in Approval /\ approvals[open[p].about] = "none"
    BY <1>3, <1>4 DEF ConcernsRequest, Applies
  <2>2. approvals' = [approvals EXCEPT ![open[p].about] = "pending"]
    BY <1>4 DEF Commits
  <2>3. \A a \in Approval : {e \in log' : e.type = "approval_decided" /\ e.about = a} =
                              {e \in log : e.type = "approval_decided" /\ e.about = a}
    BY <1>1, <1>2, <1>4
  <2>4. \A a \in Approval : approvals'[a] = "decided" <=> approvals[a] = "decided"
    BY <1>3, <2>1, <2>2
  <2>5. approvals' \in [Approval -> {"none", "pending", "decided"}]
    BY <1>3, <2>1, <2>2
  <2> QED BY <2>3, <2>4, <2>5 DEF InvForja, FeedIsFaithful, EventsTellTheTruth
<1>5. CASE open[p].type = "approval_decided"
  <2>1. open[p].about \in Approval /\ approvals[open[p].about] = "pending"
    BY <1>3, <1>5 DEF ConcernsRequest, Applies
  <2>2. approvals' = [approvals EXCEPT ![open[p].about] = "decided"]
    BY <1>5 DEF Commits
  <2>3. approvals' \in [Approval -> {"none", "pending", "decided"}]
    BY <1>3, <2>1, <2>2
  <2>4. ASSUME NEW a \in Approval
        PROVE  Cardinality({e \in log' : e.type = "approval_decided" /\ e.about = a}) =
                 (IF approvals'[a] = "decided" THEN 1 ELSE 0)
    <3> DEFINE before == {e \in log : e.type = "approval_decided" /\ e.about = a}
    <3>1. Cardinality(before) = (IF approvals[a] = "decided" THEN 1 ELSE 0)
      BY DEF InvForja, FeedIsFaithful, EventsTellTheTruth
    <3>2. CASE a = open[p].about
      <4>1. {e \in log' : e.type = "approval_decided" /\ e.about = a} = before \cup {event}
        BY <1>1, <1>2, <1>5, <3>2
      <4>2. Cardinality(before \cup {event}) = Cardinality(before) + 1
        BY <1>2, OneMoreEvent
      <4>3. approvals'[a] = "decided" /\ approvals[a] = "pending"
        BY <1>3, <2>1, <2>2, <3>2
      <4> HIDE DEF before
      <4> QED BY <3>1, <4>1, <4>2, <4>3
    <3>3. CASE a # open[p].about
      <4>1. {e \in log' : e.type = "approval_decided" /\ e.about = a} = before
        BY <1>1, <1>2, <3>3
      <4>2. approvals'[a] = approvals[a]
        BY <1>3, <2>2, <3>3
      <4> QED BY <3>1, <4>1, <4>2
    <3> QED BY <3>2, <3>3
  <2> QED BY <2>3, <2>4
<1>6. CASE open[p].type \notin {"approval_required", "approval_decided"}
  <2>1. approvals' = approvals
    BY <1>6 DEF Commits
  <2>2. \A a \in Approval : {e \in log' : e.type = "approval_decided" /\ e.about = a} =
                              {e \in log : e.type = "approval_decided" /\ e.about = a}
    BY <1>1, <1>2, <1>6
  <2> QED BY <1>3, <2>1, <2>2 DEF InvForja, FeedIsFaithful, EventsTellTheTruth
<1> QED BY <1>4, <1>5, <1>6

LEMMA CommitDelivers ==
  ASSUME InvForja, NEW p \in Party, NEW event, Commits(p, event)
  PROVE  /\ deliveries' \subseteq Client \X (1..MaxEvents)
         /\ \A d \in deliveries' : d[2] \in Numbers(log)'
         /\ \A c \in Hooked, e \in log' :
              clients'[c].state = "active" /\ e.seq > clients'[c].since
                => <<c, e.seq>> \in deliveries'
<1>1. /\ HasNumber(p) /\ event = EventOf(p, open[p].seq) /\ log' = log \cup {event}
      /\ deliveries' = deliveries \cup (open[p].queued \X {open[p].seq})
      /\ clients' = clients /\ open[p].step = "queued"
  BY DEF Commits, HasNumber
<1>2. event \in Event /\ event.seq = open[p].seq
  BY <1>1, EventIsNew
<1>3. event.seq \in 1..MaxEvents
  BY <1>2, EventHas
<1>4. open[p].queued \in SUBSET Client /\ deliveries \subseteq Client \X (1..MaxEvents)
  BY DEF InvForja, TypeOKForja
<1>5. deliveries' \subseteq Client \X (1..MaxEvents)
  BY <1>1, <1>2, <1>3, <1>4
<1>6. ASSUME NEW d \in deliveries'
      PROVE  d[2] \in Numbers(log)'
  <2>1. CASE d \in deliveries
    <3>1. d[2] \in Numbers(log)
      BY <2>1 DEF InvForja, FeedIsFaithful, EventsTellTheTruth
    <3> QED BY <1>1, <3>1 DEF Numbers
  <2>2. CASE d \in open[p].queued \X {open[p].seq}
    <3>1. d[2] = event.seq /\ event \in log'
      BY <1>1, <1>2, <2>2
    <3> QED BY <3>1 DEF Numbers
  <2> QED BY <1>1, <2>1, <2>2
<1>7. ASSUME NEW c \in Hooked, NEW e \in log',
             clients'[c].state = "active", e.seq > clients'[c].since
      PROVE  <<c, e.seq>> \in deliveries'
  <2>1. CASE e \in log
    BY <1>1, <1>7, <2>1 DEF InvForja, FeedIsFaithful, EventsTellTheTruth
  <2>2. CASE e = event
    <3>1. c \in open[p].queued
      BY <1>1, <1>2, <1>7, <2>2 DEF InvForja, QueuesAreWhole
    <3> QED BY <1>1, <1>2, <2>2, <3>1
  <2> QED BY <1>1, <2>1, <2>2
<1> QED BY <1>5, <1>6, <1>7

LEMMA CommitInv ==
  ASSUME InvForja, NEW p \in Party, Commit(p)
  PROVE  InvForja'
<1> DEFINE event == EventOf(p, open[p].seq)
<1>1. /\ UNCHANGED <<planeVars, seq, consumerVars>> /\ open[p].step = "queued"
      /\ log' = log \cup {event}
      /\ calls' = IF p \notin Client THEN calls
                  ELSE [calls EXCEPT ![p] = IF Len(calls[p].todo) = 1 THEN NoCall
                                            ELSE [calls[p] EXCEPT !.todo = Tail(@)]]
  BY DEF Commit
<1>2. UNCHANGED <<enabled, clients, active, seq, polls, cursor, received, shown, lost>>
  BY <1>1 DEF planeVars, consumerVars
<1>3. Touches(p) /\ open'[p].step = "none"
  BY ForjaAssumption DEF Commit, NoChange, Touches, InvForja, TypeOKForja, TYPES
<1>4. Commits(p, event)
  BY <1>2 DEF Commit, Commits
<1>5. HasNumber(p)
  BY <1>1 DEF HasNumber
<1>6. event \in Event
  BY <1>5, EventIsNew
<1> HIDE DEF event
<1>7. event = EventOf(p, open[p].seq)
  BY DEF event
<1>8. NumbersAreOwn'
  BY <1>1, <1>2, <1>3, <1>5, <1>7, CommitNumbers
<1>9. PagesAreSound' /\ SkipsOnlyLate'
  BY <1>1, <1>5, <1>7, CommitFeed
<1>10. WritesAreWarranted'
  BY <1>1, <1>2, <1>3, <1>5, <1>7, CommitWrites
<1>11. HeldByForja'
  BY <1>1, <1>2, CommitCalls DEF InvForja, HeldByForja
<1>12. TypeOKForja'
  BY <1>1, <1>2, <1>3, <1>4, <1>6, <1>8, <1>11, CommitCounts, CommitDecides, CommitDelivers
  DEF InvForja, TypeOKForja, HeldByForja, Touches
<1>13. EventsTellTheTruth'
  <2>1. \A e \in log' : e.via \in Client =>
          /\ e.by \in Person
          /\ (IF e.type = "approval_decided" THEN "approve" ELSE "write") \in clients'[e.via].scopes
    BY <1>10 DEF WritesAreWarranted, Covers
  <2> QED BY <1>4, <1>8, <2>1, CommitCounts, CommitDecides, CommitDelivers DEF EventsTellTheTruth
<1>14. \A q \in Party : open'[q].step # "none" =>
         /\ q # p /\ open'[q] = open[q]
         /\ open[q].about # Nobody => open[q].about # open[p].about
  BY <1>1, <1>3 DEF InvForja, ChangesAreSound, ChangeIsSound, Touches
<1>15. ChangesAreSound'
  <2> SUFFICES ASSUME NEW q \in Party, open'[q].step # "none"
               PROVE  ChangeIsSound(q)'
    BY DEF ChangesAreSound
  <2>1. ChangeIsSound(q) /\ q # p /\ open'[q] = open[q]
    BY <1>14 DEF InvForja, ChangesAreSound
  <2>2. open[q].about \in Approval => approvals'[open[q].about] = approvals[open[q].about]
    <3> SUFFICES ASSUME open[q].about \in Approval
                 PROVE  approvals'[open[q].about] = approvals[open[q].about]
      OBVIOUS
    <3>1. open[q].about # open[p].about
      BY <1>14, ForjaAssumption
    <3> QED BY <1>4, <3>1 DEF Commits, InvForja, TypeOKForja
  <2>3. Applies(open[q].type, open[q].about)'
    <3>1. open[q].about \in Approval \cup {Nobody}
      BY DEF InvForja, TypeOKForja
    <3> QED BY <2>1, <2>2, <3>1 DEF ChangeIsSound, Applies, ConcernsRequest
  <2> QED BY <1>14, <2>1, <2>3 DEF ChangeIsSound, ConcernsRequest
<1>16. QueuesAreWhole'
  BY <1>2, <1>3 DEF InvForja, QueuesAreWhole, Touches
<1> QED BY <1>8, <1>9, <1>10, <1>11, <1>12, <1>13, <1>15, <1>16 DEF InvForja, FeedIsFaithful

-----------------------------------------------------------------------------
(* Following the log.                                                      *)

(* A page has no more events than its limit: it is what comes before its last, and that. *)
LEMMA ReadIsPage ==
  ASSUME InvForja, NEW c \in Client
  PROVE  /\ ReadEvents(c) \subseteq log /\ Cardinality(ReadEvents(c)) <= Limit
         /\ \A e \in log : \A f \in ReadEvents(c) :
              Wanted(c, e) /\ e.seq > cursor[c] /\ e.seq <= f.seq => e \in ReadEvents(c)
<1> DEFINE page == ReadEvents(c)
           Before(e) == {f \in After(c) : f.seq < e.seq}
<1>1. page \in SUBSET log /\ After(c) \in SUBSET log /\ Limit \in Nat /\ Limit >= 1
  BY ForjaAssumption DEF ReadEvents, After
<1>2. \A e \in log : e.seq \in Nat /\ e.seq <= MaxEvents
  BY EventHas, ForjaAssumption DEF InvForja, TypeOKForja
<1>3. \A e \in page : Before(e) \in SUBSET log /\ Cardinality(Before(e)) < Limit
  BY <1>1 DEF ReadEvents
<1>4. Cardinality(page) <= Limit
  <2>1. CASE page = {}
    BY <1>1, <2>1, FS_EmptySet
  <2>2. CASE page # {}
    <3>1. Numbers(page) \in SUBSET (0..MaxEvents) /\ Numbers(page) # {}
      BY <1>1, <1>2, <2>2, ForjaAssumption DEF Numbers
    <3>2. PICK last \in page : \A e \in page : e.seq <= last.seq
      <4> DEFINE top == Max(Numbers(page))
      <4>1. top \in Numbers(page) /\ \A n \in Numbers(page) : n <= top
        BY <3>1, GreatestIs, ForjaAssumption
      <4>2. \A e \in page : e.seq \in Numbers(page)
        BY DEF Numbers
      <4> HIDE DEF top, page
      <4>3. PICK last \in page : last.seq = top
        BY <4>1 DEF Numbers
      <4> QED BY <4>1, <4>2, <4>3
    <3>3. last \in log /\ IsFiniteSet(page) /\ Cardinality(page) \in Nat
      BY <1>1, LogIsFinite
    <3>4. page \ {last} \subseteq Before(last)
      <4> SUFFICES ASSUME NEW e \in page, e # last
                   PROVE  e \in After(c) /\ e.seq < last.seq
        OBVIOUS
      <4>1. e \in log /\ e.seq \in Nat /\ last.seq \in Nat /\ e.seq <= last.seq
        BY <1>1, <1>2, <3>2, <3>3
      <4>2. e.seq # last.seq
        BY <3>3, <4>1 DEF InvForja, NumbersAreOwn
      <4> QED BY <4>1, <4>2 DEF ReadEvents
    <3>5. IsFiniteSet(Before(last)) /\ Cardinality(Before(last)) \in Nat
      BY <1>3, LogIsFinite
    <3>6. Cardinality(page \ {last}) <= Cardinality(Before(last))
      BY <3>4, <3>5, FS_Subset
    <3>7. Cardinality(page \ {last}) = Cardinality(page) - 1
      BY <3>2, <3>3, FS_RemoveElement
    <3>8. Cardinality(Before(last)) < Limit
      BY <1>3, <3>2
    <3> HIDE DEF page, Before
    <3> QED BY <1>1, <3>3, <3>5, <3>6, <3>7, <3>8
  <2> QED BY <2>1, <2>2
<1>5. ASSUME NEW e \in log, NEW f \in page, Wanted(c, e), e.seq > cursor[c], e.seq <= f.seq
      PROVE  e \in page
  <2>1. e \in After(c)
    BY <1>5 DEF After, Wanted
  <2>2. f \in log /\ e.seq \in Nat /\ f.seq \in Nat
    BY <1>1, <1>2
  <2>3. Before(e) \subseteq Before(f)
    BY <1>1, <1>2, <1>5, <2>2
  <2>4. IsFiniteSet(Before(f)) /\ Cardinality(Before(f)) \in Nat /\ Cardinality(Before(e)) \in Nat
    BY <1>1, LogIsFinite
  <2>5. Cardinality(Before(e)) <= Cardinality(Before(f))
    BY <2>3, <2>4, FS_Subset
  <2>6. Cardinality(Before(f)) < Limit
    BY <1>3
  <2>7. Cardinality(Before(e)) < Limit
    <3> HIDE DEF Before
    <3> QED BY <1>1, <2>4, <2>5, <2>6
  <2> QED BY <2>1, <2>7 DEF ReadEvents
<1> QED BY <1>1, <1>4, <1>5

(* What is answered with: a number no smaller than any the page has. *)
LEMMA MaxOf ==
  ASSUME NEW n \in 0..MaxEvents, NEW events \in SUBSET Event
  PROVE  /\ Max({n} \cup Numbers(events)) \in 0..MaxEvents
         /\ Max({n} \cup Numbers(events)) \in {n} \cup Numbers(events)
         /\ n <= Max({n} \cup Numbers(events))
         /\ \A e \in events : e.seq <= Max({n} \cup Numbers(events))
<1>1. \A e \in events : e.seq \in 0..MaxEvents
  BY EventHas, ForjaAssumption
<1>2. ({n} \cup Numbers(events)) \in SUBSET (0..MaxEvents)
  BY <1>1 DEF Numbers
<1>3. /\ Max({n} \cup Numbers(events)) \in {n} \cup Numbers(events)
      /\ \A y \in {n} \cup Numbers(events) : y <= Max({n} \cup Numbers(events))
  BY <1>2, GreatestIs, ForjaAssumption
<1>4. \A e \in events : e.seq \in {n} \cup Numbers(events)
  BY DEF Numbers
<1> HIDE DEF Max
<1> QED BY <1>2, <1>3, <1>4

(* The polls of one client move; nothing else does but what that client is told. *)
PollMoves(c) ==
  /\ UNCHANGED <<planeVars, dataVars, calls, open>>
  /\ polls' \in [Client -> [step : {"none", "waiting", "replied", "handled"}, events : SUBSET Event]]
  /\ polls'[c].events \subseteq log /\ Cardinality(polls'[c].events) <= Limit
  /\ cursor' \in [Client -> 0..MaxEvents] /\ shown' \in [Client -> 0..MaxEvents]
  /\ received' \in [Client -> SUBSET (1..MaxEvents)] /\ lost' \in 0..MaxLost
  /\ \A d \in Client : d # c =>
       /\ polls'[d] = polls[d] /\ cursor'[d] = cursor[d] /\ shown'[d] = shown[d]
       /\ received'[d] = received[d]

LEMMA PollMovesInv ==
  ASSUME InvForja, NEW c \in Client, PollMoves(c),
         cursor'[c] <= shown'[c],
         polls'[c].step \in {"replied", "handled"} => PageIsSound(c)',
         \A e \in log :
           Wanted(c, e) /\ e.seq <= cursor'[c] /\ e.seq \notin received'[c] => c \in e.late
  PROVE  InvForja'
<1>1. UNCHANGED <<enabled, clients, active, approvals, done, log, seq, deliveries, calls, open>>
  BY DEF PollMoves, planeVars, dataVars
<1>2. HeldByForja'
  BY <1>1 DEF InvForja, HeldByForja, PollMoves
<1>3. TypeOKForja'
  <2>1. \A d \in Client :
          /\ polls'[d].step \in {"none", "waiting", "replied", "handled"}
          /\ polls'[d].events \subseteq log /\ Cardinality(polls'[d].events) <= Limit
    BY DEF PollMoves, InvForja, TypeOKForja
  <2> QED BY <1>1, <2>1 DEF InvForja, TypeOKForja, PollMoves
<1>4. PagesAreSound'
  <2> SUFFICES ASSUME NEW d \in Client, d # c
               PROVE  /\ cursor'[d] <= shown'[d]
                      /\ polls'[d].step \in {"replied", "handled"} => PageIsSound(d)'
    BY DEF PagesAreSound
  <2> QED BY <1>1 DEF InvForja, PagesAreSound, PageIsSound, PollMoves, Wanted, Numbers
<1>5. SkipsOnlyLate'
  <2> SUFFICES ASSUME NEW d \in Client, d # c, NEW e \in log, Wanted(d, e),
                      e.seq <= cursor'[d], e.seq \notin received'[d]
               PROVE  d \in e.late
    BY <1>1 DEF SkipsOnlyLate, Wanted
  <2> QED BY <1>1 DEF InvForja, FeedIsFaithful, SkipsOnlyLate, PollMoves
<1>6. FeedIsFaithful'
  BY <1>1, <1>5, TruthStays DEF InvForja, FeedIsFaithful, dataVars
<1> QED BY <1>1, <1>2, <1>3, <1>4, <1>6, NumbersStay, ChangesStay, WritesStay, QueuesStay DEF InvForja

LEMMA FollowTypes ==
  ASSUME InvForja
  PROVE  /\ polls \in [Client -> [step : {"none", "waiting", "replied", "handled"},
                                  events : SUBSET Event]]
         /\ log \in SUBSET Event
         /\ cursor \in [Client -> 0..MaxEvents] /\ shown \in [Client -> 0..MaxEvents]
         /\ received \in [Client -> SUBSET (1..MaxEvents)] /\ lost \in 0..MaxLost
         /\ \A c \in Client :
              /\ cursor[c] <= shown[c]
              /\ polls[c].events \subseteq log /\ Cardinality(polls[c].events) <= Limit
BY DEF InvForja, HeldByForja, TypeOKForja, PagesAreSound

LEMMA NoPollIs ==
  /\ NoPoll \in [step : {"none", "waiting", "replied", "handled"}, events : SUBSET Event]
  /\ NoPoll.step = "none" /\ NoPoll.events = {} /\ Cardinality({}) <= Limit
BY FS_EmptySet, ForjaAssumption DEF NoPoll

LEMMA SkippedIsLate ==
  ASSUME InvForja, NEW c \in Client, NEW e \in log, Wanted(c, e), e.seq <= cursor[c],
         e.seq \notin received[c]
  PROVE  c \in e.late
BY DEF InvForja, FeedIsFaithful, SkipsOnlyLate

LEMMA PollEndsInv ==
  ASSUME InvForja, NEW c \in Client, PollStarts(c) \/ LosesPoll(c)
  PROVE  InvForja'
<1>1. UNCHANGED <<planeVars, dataVars, calls, open, cursor, received, shown>>
  BY DEF PollStarts, LosesPoll
<1>2. PollMoves(c) /\ polls'[c].step \in {"none", "waiting"}
  <2>1. CASE PollStarts(c)
    BY <1>1, <2>1, FollowTypes DEF PollStarts, PollMoves
  <2>2. CASE LosesPoll(c)
    <3>1. lost' \in 0..MaxLost
      BY <2>2, FollowTypes, ForjaAssumption DEF LosesPoll
    <3> QED BY <1>1, <2>2, <3>1, FollowTypes, NoPollIs DEF LosesPoll, PollMoves
  <2> QED BY <2>1, <2>2
<1>3. cursor'[c] <= shown'[c]
  BY <1>1, FollowTypes
<1> QED BY <1>1, <1>2, <1>3, SkippedIsLate, PollMovesInv

LEMMA WaitForEventsInv ==
  ASSUME InvForja, NEW c \in Client, WaitForEvents(c)
  PROVE  InvForja'
<1> DEFINE page == ReadEvents(c)
           top == Max({shown[c]} \cup Numbers(page))
<1>1. /\ UNCHANGED <<planeVars, dataVars, calls, open, cursor, received, lost>>
      /\ polls' = [polls EXCEPT ![c] = [step |-> "replied", events |-> page]]
      /\ shown' = [shown EXCEPT ![c] = top]
  BY DEF WaitForEvents
<1>2. /\ page \in SUBSET log /\ page \in SUBSET Event /\ Cardinality(page) <= Limit
      /\ \A e \in log : \A f \in page :
           Wanted(c, e) /\ e.seq > cursor[c] /\ e.seq <= f.seq => e \in page
  BY ReadIsPage, FollowTypes
<1>3. shown[c] \in 0..MaxEvents /\ cursor[c] \in 0..MaxEvents /\ cursor[c] <= shown[c]
  BY FollowTypes
<1>4. top \in 0..MaxEvents /\ shown[c] <= top /\ \A e \in page : e.seq <= top
  BY <1>2, <1>3, MaxOf
<1> HIDE DEF page, top
<1>5. PollMoves(c)
  BY <1>1, <1>2, <1>4, FollowTypes DEF PollMoves
<1>6. /\ polls'[c] = [step |-> "replied", events |-> page] /\ shown'[c] = top
      /\ cursor' = cursor /\ received' = received /\ log' = log
  BY <1>1, FollowTypes DEF dataVars
<1>7. PageIsSound(c)'
  BY <1>2, <1>4, <1>6 DEF PageIsSound, Wanted
<1>8. cursor'[c] <= shown'[c]
  BY <1>3, <1>4, <1>6, ForjaAssumption
<1> QED BY <1>5, <1>6, <1>7, <1>8, SkippedIsLate, PollMovesInv

LEMMA HandlesInv ==
  ASSUME InvForja, NEW c \in Client, Handles(c)
  PROVE  InvForja'
<1>1. /\ UNCHANGED <<planeVars, dataVars, calls, open, cursor, shown, lost>>
      /\ polls[c].step = "replied" /\ polls' = [polls EXCEPT ![c].step = "handled"]
      /\ received' = [received EXCEPT ![c] = @ \cup Numbers(polls[c].events)]
  BY DEF Handles
<1>2. Numbers(polls[c].events) \in SUBSET (1..MaxEvents)
  <2>1. \A e \in polls[c].events : e.seq \in 1..MaxEvents
    BY FollowTypes, EventHas
  <2> QED BY <2>1 DEF Numbers
<1>3. /\ polls'[c].step = "handled" /\ polls'[c].events = polls[c].events
      /\ received'[c] = received[c] \cup Numbers(polls[c].events)
      /\ cursor' = cursor /\ shown' = shown /\ log' = log
  BY <1>1, FollowTypes DEF dataVars
<1>4. PollMoves(c)
  BY <1>1, <1>2, <1>3, FollowTypes DEF PollMoves
<1>5. PageIsSound(c)
  BY <1>1 DEF InvForja, PagesAreSound
<1>6. PageIsSound(c)'
  BY <1>3, <1>5 DEF PageIsSound, Wanted, Numbers
<1>7. cursor'[c] <= shown'[c]
  BY <1>3, FollowTypes
<1> QED BY <1>3, <1>4, <1>6, <1>7, SkippedIsLate, PollMovesInv

LEMMA StoresCursorInv ==
  ASSUME InvForja, NEW c \in Client, StoresCursor(c)
  PROVE  InvForja'
<1> DEFINE events == polls[c].events
           next == Max({cursor[c]} \cup Numbers(events))
<1>1. /\ UNCHANGED <<planeVars, dataVars, calls, open, received, shown, lost>>
      /\ polls[c].step = "handled" /\ polls' = [polls EXCEPT ![c] = NoPoll]
      /\ cursor' = [cursor EXCEPT ![c] = next]
  BY DEF StoresCursor, NextCursor
<1>2. PageIsSound(c)
  BY <1>1 DEF InvForja, PagesAreSound
<1>3. events \in SUBSET Event /\ cursor[c] \in 0..MaxEvents /\ cursor[c] <= shown[c]
      /\ shown[c] \in 0..MaxEvents
  BY FollowTypes
<1>4. next \in 0..MaxEvents /\ next \in {cursor[c]} \cup Numbers(events)
  BY <1>3, MaxOf
<1> HIDE DEF next
<1>5. PollMoves(c)
  BY <1>1, <1>4, FollowTypes, NoPollIs DEF PollMoves
<1>6. cursor'[c] = next /\ shown' = shown /\ received' = received /\ polls'[c].step = "none"
  BY <1>1, FollowTypes, NoPollIs
<1>7. next <= shown[c]
  BY <1>2, <1>3, <1>4 DEF PageIsSound, Numbers
<1>8. ASSUME NEW e \in log, Wanted(c, e), e.seq <= next, e.seq \notin received[c]
      PROVE  c \in e.late
  <2>1. CASE e.seq <= cursor[c]
    BY <1>8, <2>1, SkippedIsLate
  <2>2. CASE ~(e.seq <= cursor[c])
    <3>1. e.seq \in Nat /\ cursor[c] \in Nat /\ e.seq > cursor[c] /\ next # cursor[c]
      BY <1>3, <1>8, <2>2, EventHas, FollowTypes, ForjaAssumption
    <3>2. PICK f \in events : f.seq = next
      BY <1>4, <3>1 DEF Numbers
    <3>3. e \in events \/ c \in e.late
      BY <1>2, <1>8, <3>1, <3>2 DEF PageIsSound
    <3>4. e \notin events
      BY <1>1, <1>2, <1>8 DEF PageIsSound, Numbers
    <3> QED BY <3>3, <3>4
  <2> QED BY <2>1, <2>2
<1> QED BY <1>5, <1>6, <1>7, <1>8, PollMovesInv

LEMMA StartsAtHeadInv ==
  ASSUME InvForja, NEW c \in Client, StartsAtHead(c)
  PROVE  InvForja'
<1> DEFINE head == LatestEventSeq
<1>1. /\ UNCHANGED <<planeVars, dataVars, calls, open, polls, lost>> /\ polls[c].step = "none"
      /\ cursor' = [cursor EXCEPT ![c] = head] /\ shown' = [shown EXCEPT ![c] = head]
      /\ received' = [received EXCEPT ![c] = Numbers(log)]
  BY DEF StartsAtHead
<1>2. head \in 0..MaxEvents
  <2>1. 0 \in 0..MaxEvents /\ log \in SUBSET Event
    BY FollowTypes, ForjaAssumption
  <2>2. Max({0} \cup Numbers(log)) \in 0..MaxEvents
    BY <2>1, MaxOf
  <2> QED BY <2>2 DEF LatestEventSeq
<1>3. Numbers(log) \in SUBSET (1..MaxEvents)
  <2>1. \A e \in log : e.seq \in 1..MaxEvents
    BY FollowTypes, EventHas
  <2> QED BY <2>1 DEF Numbers
<1> HIDE DEF head
<1>4. PollMoves(c)
  BY <1>1, <1>2, <1>3, FollowTypes DEF PollMoves
<1>5. cursor'[c] = head /\ shown'[c] = head /\ received'[c] = Numbers(log) /\ polls' = polls
  BY <1>1, FollowTypes
<1>6. \A e \in log : e.seq \in received'[c]
  BY <1>5 DEF Numbers
<1> QED BY <1>1, <1>2, <1>4, <1>5, <1>6, PollMovesInv, ForjaAssumption

-----------------------------------------------------------------------------
(* The invariant holds.                                                    *)

LEMMA InitForjaInv == InitForja => InvForja
<1> SUFFICES ASSUME InitForja PROVE InvForja
  OBVIOUS
<1> USE ForjaAssumption DEF InitForja
<1>1. /\ \A type : Cardinality({e \in {} : e.type = type}) = 0
      /\ \A a : Cardinality({e \in {} : e.type = "approval_decided" /\ e.about = a}) = 0
  <2>1. /\ \A type : {e \in {} : e.type = type} = {}
        /\ \A a : {e \in {} : e.type = "approval_decided" /\ e.about = a} = {}
    OBVIOUS
  <2> QED BY <2>1, FS_EmptySet
<1>2. \A p \in Party : open[p].step = "none"
  BY DEF NoChange
<1>3. \A c \in Client : calls[c].todo = <<>> /\ polls[c].step = "none"
  BY DEF NoCall, NoPoll
<1>4. HeldByForja
  <2>1. NoCall \in [by : Person \cup {Nobody}, about : Approval \cup {Nobody}, todo : Seq(TYPES)]
    BY DEF NoCall
  <2> QED BY <2>1, NoPollIs DEF HeldByForja
<1>5. TypeOKForja
  <2>1. NoChange \in [step : {"none", "changed", "emitted", "queued"}, type : TYPES,
                      about : Approval \cup {Nobody}, by : Person \cup {Nobody},
                      seq : 0..MaxEvents, queued : SUBSET Client]
    BY DEF NoChange, TYPES
  <2>2. \A c \in Client :
          /\ polls[c].step \in {"none", "waiting", "replied", "handled"}
          /\ polls[c].events \subseteq log /\ Cardinality(polls[c].events) <= Limit
    BY NoPollIs
  <2>3. \A c \in Client :
          /\ calls[c].by \in Person \cup {Nobody} /\ calls[c].about \in Approval \cup {Nobody}
          /\ calls[c].todo \in Seq(TYPES)
    BY <1>4 DEF HeldByForja
  <2>4. /\ enabled \in BOOLEAN /\ active \in [Person -> BOOLEAN]
        /\ approvals \in [Approval -> {"none", "pending", "decided"}]
    OBVIOUS
  <2>5. clients \in [Client -> [state : {"none", "active", "revoked"}, scopes : SUBSET SCOPES,
                                since : 0..MaxEvents]]
    <3>1. [state |-> "none", scopes |-> {}, since |-> 0]
            \in [state : {"none", "active", "revoked"}, scopes : SUBSET SCOPES, since : 0..MaxEvents]
      OBVIOUS
    <3> QED BY <3>1
  <2>6. /\ done \in [TYPES -> 0..MaxEvents] /\ log \subseteq Event /\ seq \in 0..MaxEvents
        /\ deliveries \subseteq Client \X (1..MaxEvents)
    OBVIOUS
  <2>7. /\ cursor \in [Client -> 0..MaxEvents] /\ shown \in [Client -> 0..MaxEvents]
        /\ received \in [Client -> SUBSET (1..MaxEvents)] /\ lost \in 0..MaxLost
    OBVIOUS
  <2> QED BY <2>1, <2>2, <2>3, <2>4, <2>5, <2>6, <2>7 DEF TypeOKForja
<1>6. NumbersAreOwn /\ ChangesAreSound /\ WritesAreWarranted /\ QueuesAreWhole
  BY <1>2, <1>3
  DEF NumbersAreOwn, HasNumber, ChangesAreSound, WritesAreWarranted, QueuesAreWhole, Party
<1>7. PagesAreSound
  BY <1>3 DEF PagesAreSound
<1>8. FeedIsFaithful
  BY <1>1 DEF FeedIsFaithful, EventsTellTheTruth, SkipsOnlyLate
<1> QED BY <1>4, <1>5, <1>6, <1>7, <1>8 DEF InvForja

LEMMA ClientNextInv ==
  ASSUME InvForja, NEW c \in Client,
         \/ \E scopes \in Grants : CreateForjaClient(c, scopes)
         \/ RevokeForjaClient(c)
         \/ \E op \in Operation, person \in Person, about \in Approval \cup {Nobody} :
              Write(c, op, person, about)
         \/ ForjaChanges(c) \/ Refuses(c)
         \/ Follows(c) \/ LosesPoll(c) \/ StartsAtHead(c)
  PROVE  InvForja'
<1>1. CASE (\E scopes \in Grants : CreateForjaClient(c, scopes)) \/ RevokeForjaClient(c)
  BY <1>1, ClientsInv
<1>2. CASE \E op \in Operation, person \in Person, about \in Approval \cup {Nobody} :
             Write(c, op, person, about)
  BY <1>2, WriteInv
<1>3. CASE ForjaChanges(c)
  BY <1>3, ForjaChangesInv
<1>4. CASE Refuses(c)
  BY <1>4, RefusesInv
<1>5. CASE PollStarts(c) \/ LosesPoll(c)
  BY <1>5, PollEndsInv
<1>6. CASE WaitForEvents(c)
  BY <1>6, WaitForEventsInv
<1>7. CASE Handles(c)
  BY <1>7, HandlesInv
<1>8. CASE StoresCursor(c)
  BY <1>8, StoresCursorInv
<1>9. CASE StartsAtHead(c)
  BY <1>9, StartsAtHeadInv
<1> QED BY <1>1, <1>2, <1>3, <1>4, <1>5, <1>6, <1>7, <1>8, <1>9 DEF Follows

LEMMA StutterForja ==
  ASSUME InvForja, UNCHANGED forjaVars
  PROVE  InvForja'
<1>1. UNCHANGED <<planeVars, dataVars, calls, open, consumerVars>>
  BY DEF forjaVars
<1>2. UNCHANGED <<enabled, clients, active, approvals, done, log, seq, deliveries, polls, cursor,
                  received, shown, lost>>
  BY <1>1 DEF planeVars, dataVars, consumerVars
<1>3. TypeOKForja' /\ HeldByForja'
  BY <1>1, <1>2 DEF InvForja, TypeOKForja, HeldByForja
<1> QED BY <1>1, <1>2, <1>3, FeedStays, PagesStay, NumbersStay, ChangesStay, WritesStay, QueuesStay
        DEF InvForja

LEMMA NextForjaInv == InvForja /\ [NextForja]_forjaVars => InvForja'
<1> SUFFICES ASSUME InvForja, [NextForja]_forjaVars PROVE InvForja'
  OBVIOUS
<1>1. CASE SetEnabled \/ \E p \in Person : SetActive(p)
  BY <1>1, AdministrationInv
<1>2. CASE \E c \in Client :
             \/ \E scopes \in Grants : CreateForjaClient(c, scopes)
             \/ RevokeForjaClient(c)
             \/ \E op \in Operation, person \in Person, about \in Approval \cup {Nobody} :
                  Write(c, op, person, about)
             \/ ForjaChanges(c) \/ Refuses(c)
             \/ Follows(c) \/ LosesPoll(c) \/ StartsAtHead(c)
  BY <1>2, ClientNextInv
<1>3. CASE \E w \in Web, type \in WebTypes, about \in Approval \cup {Nobody} :
             WebChanges(w, type, about)
  BY <1>3, WebChangesInv
<1>4. CASE \E p \in Party : Emit(p) \/ Queue(p) \/ Commit(p) \/ RollBack(p)
  BY <1>4, EmitInv, QueueInv, CommitInv, RollBackInv
<1>5. CASE UNCHANGED forjaVars
  BY <1>5, StutterForja
<1> QED BY <1>1, <1>2, <1>3, <1>4, <1>5 DEF NextForja

LEMMA ForjaInvariance == SpecForja => []InvForja
BY InitForjaInv, NextForjaInv, PTL DEF SpecForja

(* Every transaction, call, poll and number has its type, a page has no more events than the
   limit and only committed ones, and no more changes of a kind are counted than there are
   numbers (events.ts, emit and readEvents; forja.ts). *)
THEOREM ForjaTypeCorrect == SpecForja => []TypeOKForja
<1>1. InvForja => TypeOKForja
  BY DEF InvForja
<1> QED BY <1>1, ForjaInvariance, PTL

(* Whatever transactions overlap, fail, are refused or are rolled back, however many clients,
   sessions and approvals there are: the log has one event for each change that committed and
   none for any other, a request is decided at most once, a write is within the scopes of its
   client, no delivery is missing, and a cursor passes only what was handled or came late
   (events.ts, emit and readEvents). *)
THEOREM TheFeedIsFaithful == SpecForja => []FeedIsFaithful
<1>1. InvForja => FeedIsFaithful
  BY DEF InvForja
<1> QED BY <1>1, ForjaInvariance, PTL

=============================================================================
