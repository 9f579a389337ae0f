-------------------------- MODULE WorkerAgent_proofs --------------------------
(***************************************************************************)
(* Proofs about WorkerAgent, for every set of runs and any number of       *)
(* attempts, lost calls and restarts: type correctness and the safety      *)
(* invariants the TLC run checks.                                          *)
(***************************************************************************)
EXTENDS WorkerAgent, TLAPS

-----------------------------------------------------------------------------
(* The inductive invariant, in named parts.                                *)

(* The agent listens for at most one answer of each kind. *)
OneCallPerKind ==
  /\ \A p, q \in requests : p.waiting /\ q.waiting /\ p.kind = q.kind => p = q
  /\ \A q \in requests, a \in answers : q.waiting => q.kind # a.kind
  /\ \A a, b \in answers : a.kind = b.kind => a = b

(* A lease is awaited while the agent polls, a completion while it reports. *)
CallsMatchPhase ==
  /\ \A q \in requests : q.waiting /\ q.kind = "lease" => phase = "polling"
  /\ \A q \in requests : q.waiting /\ q.kind = "complete" => phase = "reporting" /\ q.run = job
  /\ \A a \in answers : a.kind = "lease" => phase = "polling"
  /\ \A a \in answers : a.kind = "complete" =>
       phase = "reporting" /\ a.run = job /\ status[job] \in TERMINAL

(* Whoever sent it, and whether or not it is still awaited, a completion reports work that
   was taken. *)
CompletionsAreOfWork ==
  /\ phase \in {"flushing", "reporting"} => outcome \in Outcomes
  /\ \A q \in requests : q.kind = "complete" =>
       q.run \in Run /\ q.outcome \in Outcomes /\ taken[q.run] = 1

Leased(r) == \E a \in answers : a.kind = "lease" /\ a.run = r

(* A run moves from the queue to a lease answer to the agent, once. *)
RowInv(r) ==
  /\ taken[r] <= 1
  /\ status[r] = "queued" => taken[r] = 0
  /\ Leased(r) => taken[r] = 0 /\ status[r] # "queued"
  /\ job = r => taken[r] = 1
  /\ status[r] \in {"completed", "failed"} => taken[r] = 1
  /\ status[r] = "running" => job = r \/ Leased(r) \/ r \in abandoned

(* A stop the agent has been told of, or is about to be told of, was asked for. *)
StopsAreTrue ==
  /\ \A a \in answers : a.control # NoRun => cancelRequested[a.control]
  /\ aborted => job # NoRun /\ cancelRequested[job]

Inv ==
  /\ TypeOK
  /\ OneCallPerKind
  /\ CallsMatchPhase
  /\ CompletionsAreOfWork
  /\ \A r \in Run : RowInv(r)
  /\ StopsAreTrue

-----------------------------------------------------------------------------
(* Type correctness.                                                       *)

LEMMA InitType == Init => TypeOK
<1> SUFFICES ASSUME Init PROVE TypeOK
  OBVIOUS
<1>1. status \in [Run -> {"queued", "running"} \cup TERMINAL]
  BY DEF Init
<1>2. /\ cancelRequested \in [Run -> BOOLEAN] /\ taken \in [Run -> Nat]
      /\ requests \subseteq Request /\ answers \subseteq Answer
  BY DEF Init
<1>3. /\ phase \in {"polling", "working", "flushing", "reporting"}
      /\ job \in Run \cup {NoRun}
      /\ phase = "polling" <=> job = NoRun
      /\ outcome \in Outcomes \cup {"none"}
  BY DEF Init
<1>4. /\ logged \in BOOLEAN /\ aborted \in BOOLEAN
      /\ abandoned \subseteq Run
  BY DEF Init
<1>5. tries \in 0..Attempts /\ lost \in 0..MaxLost /\ crashes \in 0..MaxCrashes
  BY ConstantsAssumption DEF Init
<1> QED BY <1>1, <1>2, <1>3, <1>4, <1>5 DEF TypeOK

(* Every answer a route sends is typed. *)
LEMMA ReplyType ==
  ASSUME TypeOK, NEW q \in requests, NEW r \in Run \cup {NoRun}, NEW ok \in BOOLEAN,
         NEW pending \in SUBSET Run, Reply(q, r, ok, pending)
  PROVE  requests' \subseteq Request /\ answers' \subseteq Answer
<1>1. requests' \subseteq Request
  BY DEF TypeOK, Reply
<1>2. CASE q.waiting
  <2>1. PICK control \in Run \cup {NoRun} :
          answers' = answers \cup {[kind |-> q.kind, run |-> r, control |-> control, ok |-> ok]}
    BY <1>2 DEF Reply
  <2>2. q.kind \in Kinds
    BY DEF TypeOK, Request
  <2> QED BY <2>1, <2>2, <1>1 DEF TypeOK, Answer
<1>3. CASE ~q.waiting
  BY <1>1, <1>3 DEF Reply, TypeOK
<1> QED BY <1>2, <1>3

LEMMA ServeType ==
  ASSUME TypeOK, CompletionsAreOfWork, NEW q \in requests, ServeLease(q) \/ ServeReport(q) \/ ServeComplete(q)
  PROVE  TypeOK'
<1>q. q \in Request /\ StopsPending \in SUBSET Run
  BY DEF TypeOK, StopsPending
<1>1. CASE ServeLease(q)
  <2>1. CASE \E r \in Run : /\ Leasable(r)
                            /\ status' = [status EXCEPT ![r] = "running"]
                            /\ Reply(q, r, TRUE, StopsPending)
                            /\ abandoned' = IF q.waiting THEN abandoned ELSE abandoned \cup {r}
    <3>1. PICK r \in Run : /\ status' = [status EXCEPT ![r] = "running"]
                           /\ Reply(q, r, TRUE, StopsPending)
                           /\ abandoned' = IF q.waiting THEN abandoned ELSE abandoned \cup {r}
      BY <2>1
    <3>2. requests' \subseteq Request /\ answers' \subseteq Answer
      BY <3>1, <1>q, ReplyType
    <3> QED BY <1>1, <3>1, <3>2 DEF TypeOK, ServeLease, jobVars, vars
  <2>2. CASE Reply(q, NoRun, TRUE, StopsPending) /\ UNCHANGED <<status, abandoned>>
    <3>1. requests' \subseteq Request /\ answers' \subseteq Answer
      BY <2>2, <1>q, ReplyType
    <3> QED BY <1>1, <2>2, <3>1 DEF TypeOK, ServeLease, jobVars, vars
  <2> QED BY <1>1, <2>1, <2>2 DEF ServeLease
<1>2. CASE ServeReport(q)
  <2>1. requests' \subseteq Request /\ answers' \subseteq Answer
    BY <1>2, <1>q, ReplyType DEF ServeReport, Request
  <2> QED BY <1>2, <2>1 DEF TypeOK, ServeReport, serverVars, jobVars, historyVars
<1>3. CASE ServeComplete(q)
  <2>1. requests' \subseteq Request /\ answers' \subseteq Answer
    <3>1. StopsPending \ {q.run} \in SUBSET Run /\ q.run \in Run \cup {NoRun}
      BY <1>q DEF Request
    <3> QED BY ZenonT(60), <1>3, <3>1, ReplyType DEF ServeComplete
  <2>2. status' \in [Run -> {"queued", "running"} \cup TERMINAL]
    <3>1. q.outcome \in Outcomes
      BY <1>3 DEF ServeComplete, CompletionsAreOfWork
    <3>2. OUTCOME_TO_STATUS[q.outcome] \in TERMINAL
      BY <3>1 DEF OUTCOME_TO_STATUS, Outcomes, TERMINAL
    <3> QED BY <3>2, <1>3 DEF ServeComplete, TypeOK
  <2> QED BY <1>3, <2>1, <2>2 DEF TypeOK, ServeComplete, jobVars, historyVars
<1> QED BY <1>1, <1>2, <1>3

LEMMA SendType ==
  ASSUME TypeOK, Calls
  PROVE  TypeOK'
<1>1. ASSUME NEW kind \in Kinds, NEW r \in Run \cup {NoRun},
             NEW out \in Outcomes \cup {"none"}, Send(kind, r, out)
      PROVE  requests' \subseteq Request
  <2>1. [kind |-> kind, run |-> r, outcome |-> out, waiting |-> TRUE] \in Request
    BY DEF Request
  <2> QED BY <1>1, <2>1 DEF Send, TypeOK
<1>2. {"lease", "progress", "logs", "heartbeat", "complete"} \subseteq Kinds
  BY DEF Kinds
<1>3. CASE SendLease
  BY <1>1, <1>2, <1>3 DEF SendLease, TypeOK, serverVars, jobVars, historyVars
<1>4. CASE SendProgress
  <2>1. requests' \subseteq Request
    BY <1>1, <1>2, <1>4 DEF SendProgress, TypeOK
  <2> QED BY <2>1, <1>4 DEF SendProgress, TypeOK, serverVars, jobVars, historyVars
<1>5. CASE SendLogs
  <2>1. requests' \subseteq Request
    BY <1>1, <1>2, <1>5 DEF SendLogs, TypeOK
  <2> QED BY <2>1, <1>5 DEF SendLogs, TypeOK, serverVars, jobVars, historyVars
<1>6. CASE SendHeartbeat
  BY <1>1, <1>2, <1>6 DEF SendHeartbeat, TypeOK, serverVars, jobVars, historyVars
<1>7. CASE SendComplete
  <2>1. requests' \subseteq Request
    BY <1>1, <1>2, <1>7 DEF SendComplete, TypeOK
  <2>2. tries' \in 0..Attempts
    BY <1>7, ConstantsAssumption DEF SendComplete, TypeOK
  <2> QED BY <2>1, <2>2, <1>7 DEF SendComplete, TypeOK, serverVars, historyVars
<1> QED BY <1>3, <1>4, <1>5, <1>6, <1>7 DEF Calls

LEMMA GhostsType ==
  ASSUME NEW calls \in SUBSET Request
  PROVE  Ghosts(calls) \subseteq Request
BY DEF Ghosts, Request

LEMMA LeasedByType ==
  ASSUME NEW unheard \in SUBSET Answer
  PROVE  LeasedBy(unheard) \subseteq Run
BY DEF LeasedBy, Answer

LEMMA TimeOutType ==
  ASSUME TypeOK, NEW kind \in Kinds, TimeOut(kind)
  PROVE  TypeOK'
<1>1. lost' \in 0..MaxLost
  BY ConstantsAssumption DEF TimeOut, TypeOK
<1>2. /\ phase' \in {"polling", "working", "flushing", "reporting"}
      /\ phase' = "polling" <=> phase = "polling"
  BY DEF TimeOut, TypeOK
<1>3. requests' \subseteq Request /\ answers' \subseteq Answer /\ abandoned' \subseteq Run
  <2>1. CASE \E q \in requests : /\ requests' \in {requests \ {q}, (requests \ {q}) \cup Ghosts({q})}
                                 /\ UNCHANGED <<answers, abandoned>>
    BY <2>1, GhostsType DEF TypeOK
  <2>2. CASE \E a \in answers : /\ answers' = answers \ {a}
                                /\ abandoned' = abandoned \cup LeasedBy({a})
                                /\ UNCHANGED requests
    BY <2>2, LeasedByType DEF TypeOK
  <2> QED BY <2>1, <2>2 DEF TimeOut
<1> QED BY <1>1, <1>2, <1>3 DEF TimeOut, TypeOK, serverVars

LEMMA ReceiveType ==
  ASSUME TypeOK, NEW a \in answers, ReceiveLease(a) \/ ReceiveReport(a) \/ ReceiveComplete(a)
  PROVE  TypeOK'
<1>1. a \in Answer /\ answers \ {a} \subseteq Answer
  BY DEF TypeOK
<1>2. CASE ReceiveLease(a)
  <2>1. CASE a.run = NoRun
    BY <2>1, <1>1, <1>2 DEF ReceiveLease, Take, TypeOK, serverVars, jobVars
  <2>2. CASE a.run # NoRun
    <3>1. a.run \in Run
      BY <1>1, <2>2 DEF Answer
    <3>2. taken' \in [Run -> Nat]
      BY <1>2, <2>2, <3>1 DEF ReceiveLease, TypeOK
    <3>3. tries' \in 0..Attempts
      BY <1>2, <2>2, ConstantsAssumption DEF ReceiveLease
    <3> QED BY <1>1, <1>2, <2>2, <3>1, <3>2, <3>3, ConstantsAssumption
            DEF ReceiveLease, Take, TypeOK, serverVars
  <2> QED BY <2>1, <2>2
<1>3. CASE ReceiveReport(a)
  BY <1>1, <1>3 DEF ReceiveReport, Take, TypeOK, serverVars, NoticesStop, StopIsMine
<1>4. CASE ReceiveComplete(a)
  <2>1. tries' \in 0..Attempts
    BY <1>4, ConstantsAssumption DEF ReceiveComplete, LeaveJob
  <2> QED BY <1>1, <1>4, <2>1 DEF ReceiveComplete, LeaveJob, Take, TypeOK, serverVars
<1> QED BY <1>2, <1>3, <1>4

LEMMA ExecuteType ==
  ASSUME TypeOK, Execute
  PROVE  TypeOK'
<1>1. CASE Log
  BY <1>1 DEF Log, TypeOK, serverVars, networkVars, historyVars
<1>2. CASE FinishJob
  <2>1. outcome' \in Outcomes
    BY <1>2 DEF FinishJob, Outcome, Outcomes
  <2> QED BY <1>2, <2>1 DEF FinishJob, TypeOK, serverVars, networkVars
<1>3. CASE GiveUp
  <2>1. tries' \in 0..Attempts
    BY <1>3, ConstantsAssumption DEF GiveUp, LeaveJob
  <2>2. abandoned' \subseteq Run
    BY <1>3 DEF GiveUp, TypeOK
  <2> QED BY <1>3, <2>1, <2>2 DEF GiveUp, LeaveJob, TypeOK, serverVars, networkVars
<1> QED BY <1>1, <1>2, <1>3 DEF Execute

LEMMA OperatorType ==
  ASSUME TypeOK, NEW r \in Run, RequestCancel(r) \/ ForceCancel(r)
  PROVE  TypeOK'
<1>1. CASE RequestCancel(r)
  BY <1>1 DEF RequestCancel, TypeOK, TERMINAL, networkVars, jobVars, historyVars
<1>2. CASE ForceCancel(r)
  BY <1>2 DEF ForceCancel, TypeOK, TERMINAL, networkVars, jobVars, historyVars
<1> QED BY <1>1, <1>2

LEMMA CrashType ==
  ASSUME TypeOK, Crash
  PROVE  TypeOK'
<1>1. requests' \subseteq Request
  BY GhostsType DEF Crash, TypeOK
<1>2. abandoned' \subseteq Run
  BY LeasedByType DEF Crash, TypeOK
<1>3. tries' \in 0..Attempts /\ crashes' \in 0..MaxCrashes
  BY ConstantsAssumption DEF Crash, LeaveJob, TypeOK
<1> QED BY <1>1, <1>2, <1>3 DEF Crash, LeaveJob, TypeOK, serverVars

-----------------------------------------------------------------------------
(* The routes preserve the invariant.                                      *)

(* What a reply leaves behind: the request is gone, and its caller, if it still listens,
   has an answer whose envelope names a pending stop or none. *)
LEMMA ReplyCases ==
  ASSUME NEW q \in requests, NEW r, NEW ok, NEW pending \in SUBSET Run, Reply(q, r, ok, pending)
  PROVE  /\ requests' = requests \ {q}
         /\ \/ ~q.waiting /\ answers' = answers
            \/ /\ q.waiting
               /\ \E control \in pending \cup {NoRun} :
                    answers' = answers \cup {[kind |-> q.kind, run |-> r, control |-> control,
                                              ok |-> ok]}
BY DEF Reply, EnvelopeOf

(* The same, without the envelope. *)
LEMMA ReplyEffect ==
  ASSUME NEW q \in requests, NEW r, NEW ok, NEW pending \in SUBSET Run, Reply(q, r, ok, pending)
  PROVE  /\ requests' \subseteq requests
         /\ answers \subseteq answers'
         /\ \A a \in answers' : a \in answers \/ (q.waiting /\ a.kind = q.kind /\ a.run = r)
         /\ q.waiting => \E a \in answers' : a.kind = q.kind /\ a.run = r
<1>1. CASE ~q.waiting /\ answers' = answers
  BY <1>1, ReplyCases
<1>2. CASE q.waiting
  <2>1. PICK control : answers' = answers \cup {[kind |-> q.kind, run |-> r, control |-> control,
                                                ok |-> ok]}
    BY <1>2, ReplyCases
  <2>2. requests' \subseteq requests
    BY ReplyCases
  <2>3. /\ answers \subseteq answers'
        /\ \A a \in answers' : a \in answers \/ (a.kind = q.kind /\ a.run = r)
    BY <2>1
  <2>4. \E a \in answers' : a.kind = q.kind /\ a.run = r
    <3>1. [kind |-> q.kind, run |-> r, control |-> control, ok |-> ok] \in answers'
      BY <2>1
    <3> QED BY <3>1
  <2> QED BY <1>2, <2>2, <2>3, <2>4
<1> QED BY <1>1, <1>2, ReplyCases

LEMMA ReplyOneCall ==
  ASSUME OneCallPerKind, NEW q \in requests, NEW r, NEW ok, NEW pending \in SUBSET Run,
         Reply(q, r, ok, pending)
  PROVE  OneCallPerKind'
<1>1. CASE ~q.waiting /\ answers' = answers
  BY <1>1, ReplyCases DEF OneCallPerKind
<1>2. CASE q.waiting
  <2>1. PICK control : answers' = answers \cup {[kind |-> q.kind, run |-> r, control |-> control,
                                                ok |-> ok]}
    BY <1>2, ReplyCases
  <2>2. \A a \in answers' : a \in answers \/ a.kind = q.kind
    BY <2>1
  <2>3. \A a, b \in answers' : a.kind = b.kind => a = b
    BY <1>2, <2>1, <2>2 DEF OneCallPerKind
  <2>4. \A p \in requests', a \in answers' : p.waiting => p.kind # a.kind
    BY <1>2, <2>2, ReplyCases DEF OneCallPerKind
  <2> QED BY <2>3, <2>4, ReplyCases DEF OneCallPerKind
<1> QED BY <1>1, <1>2, ReplyCases

(* An envelope names a run whose stop was asked for. *)
LEMMA ReplyStops ==
  ASSUME StopsAreTrue, NEW q \in requests, NEW r, NEW ok, NEW pending \in SUBSET StopsPending,
         Reply(q, r, ok, pending), UNCHANGED <<cancelRequested, job, aborted>>
  PROVE  StopsAreTrue'
<1>1. pending \in SUBSET Run /\ \A p \in pending : cancelRequested[p]
  BY DEF StopsPending
<1>2. ASSUME NEW a \in answers', a.control # NoRun PROVE cancelRequested[a.control]
  BY <1>1, <1>2, ReplyCases DEF StopsAreTrue
<1> QED BY <1>2 DEF StopsAreTrue

LEMMA ServeLeaseInv ==
  ASSUME Inv, NEW q \in requests, ServeLease(q)
  PROVE  Inv'
<1> USE DEF Inv
<1>t. TypeOK'
  BY ServeType
<1>p. StopsPending \in SUBSET Run
  BY DEF StopsPending
<1>1. CASE Reply(q, NoRun, TRUE, StopsPending) /\ UNCHANGED <<status, abandoned>>
  <2>1. UNCHANGED <<status, cancelRequested, abandoned, phase, job, aborted, outcome, taken>>
    BY <1>1 DEF ServeLease, jobVars
  <2>2. OneCallPerKind' /\ StopsAreTrue'
    BY <1>1, <1>p, <2>1, ReplyOneCall, ReplyStops
  <2>3. /\ requests' \subseteq requests
        /\ \A a \in answers' : a \in answers \/ (q.waiting /\ a.kind = "lease" /\ a.run = NoRun)
        /\ answers \subseteq answers'
    BY <1>1, <1>p, ReplyEffect DEF ServeLease
  <2>4. q.waiting => phase = "polling"
    BY DEF ServeLease, CallsMatchPhase
  <2>5. CallsMatchPhase'
    BY <2>1, <2>3, <2>4 DEF CallsMatchPhase
  <2>6. CompletionsAreOfWork'
    BY <2>1, <2>3 DEF CompletionsAreOfWork
  <2>7. \A r \in Run : Leased(r)' <=> Leased(r)
    BY <2>3, ConstantsAssumption DEF Leased
  <2>8. (\A r \in Run : RowInv(r))'
    BY <2>1, <2>7 DEF RowInv
  <2> QED BY <1>t, <2>2, <2>5, <2>6, <2>8
<1>2. CASE \E r \in Run : /\ Leasable(r)
                          /\ status' = [status EXCEPT ![r] = "running"]
                          /\ Reply(q, r, TRUE, StopsPending)
                          /\ abandoned' = IF q.waiting THEN abandoned ELSE abandoned \cup {r}
  <2>0. PICK r \in Run : /\ Leasable(r)
                         /\ status' = [status EXCEPT ![r] = "running"]
                         /\ Reply(q, r, TRUE, StopsPending)
                         /\ abandoned' = IF q.waiting THEN abandoned ELSE abandoned \cup {r}
    BY <1>2
  <2>1. UNCHANGED <<cancelRequested, phase, job, aborted, outcome, taken>>
    BY <1>2 DEF ServeLease, jobVars
  <2>2. OneCallPerKind' /\ StopsAreTrue'
    BY <2>0, <1>p, <2>1, ReplyOneCall, ReplyStops
  <2>3. /\ requests' \subseteq requests
        /\ \A a \in answers' : a \in answers \/ (q.waiting /\ a.kind = "lease" /\ a.run = r)
        /\ answers \subseteq answers'
        /\ q.waiting => \E a \in answers' : a.kind = "lease" /\ a.run = r
    <3>1. q.kind = "lease"
      BY DEF ServeLease
    <3>2. Reply(q, r, TRUE, StopsPending)
      BY <2>0
    <3>3. /\ requests' \subseteq requests
          /\ answers \subseteq answers'
          /\ \A a \in answers' : a \in answers \/ (q.waiting /\ a.kind = q.kind /\ a.run = r)
          /\ q.waiting => \E a \in answers' : a.kind = q.kind /\ a.run = r
      BY <3>2, <1>p, ReplyEffect
    <3> QED BY <3>1, <3>3
  <2>4. q.waiting => phase = "polling"
    BY DEF ServeLease, CallsMatchPhase
  <2>r. /\ status[r] = "queued" /\ status'[r] = "running" /\ taken[r] = 0 /\ ~Leased(r)
        /\ \A s \in Run \ {r} : status'[s] = status[s]
    BY <2>0 DEF Leasable, RowInv, TypeOK
  <2>5. CallsMatchPhase'
    <3>1. ASSUME NEW a \in answers', a.kind = "complete"
          PROVE  phase = "reporting" /\ a.run = job /\ status'[job] \in TERMINAL
      <4>1. a \in answers /\ phase = "reporting" /\ a.run = job /\ status[job] \in TERMINAL
        BY <3>1, <2>3 DEF CallsMatchPhase
      <4>2. job \in Run \ {r}
        BY <4>1, <2>r DEF TypeOK, TERMINAL
      <4> QED BY <4>1, <4>2, <2>r
    <3> QED BY <2>1, <2>3, <2>4, <3>1 DEF CallsMatchPhase
  <2>6. CompletionsAreOfWork'
    BY <2>1, <2>3 DEF CompletionsAreOfWork
  <2>7. /\ \A s \in Run \ {r} : Leased(s)' <=> Leased(s)
        /\ q.waiting => Leased(r)'
    BY <2>3 DEF Leased
  <2>8. ASSUME NEW s \in Run PROVE RowInv(s)'
    <3>1. CASE s = r
      <4>1. job # r
        BY <2>r DEF RowInv
      <4>2. Leased(r)' \/ r \in abandoned'
        BY <2>0, <2>7
      <4> QED BY <3>1, <2>1, <2>r, <4>1, <4>2 DEF RowInv
    <3>2. CASE s # r
      <4>1. s \in abandoned => s \in abandoned'
        BY <2>0
      <4> QED BY <3>2, <4>1, <2>1, <2>r, <2>7 DEF RowInv
    <3> QED BY <3>1, <3>2
  <2> QED BY <1>t, <2>2, <2>5, <2>6, <2>8
<1> QED BY <1>1, <1>2 DEF ServeLease

LEMMA ServeReportInv ==
  ASSUME Inv, NEW q \in requests, ServeReport(q)
  PROVE  Inv'
<1> USE DEF Inv
<1>t. TypeOK'
  BY ServeType
<1>p. StopsPending \in SUBSET Run
  BY DEF StopsPending
<1>1. UNCHANGED <<status, cancelRequested, abandoned, phase, job, aborted, outcome, taken>>
  BY DEF ServeReport, serverVars, jobVars, historyVars
<1>2. OneCallPerKind' /\ StopsAreTrue'
  BY <1>1, <1>p, ReplyOneCall, ReplyStops DEF ServeReport
<1>3. /\ requests' \subseteq requests
      /\ \A a \in answers' : a \in answers \/ a.kind = q.kind
      /\ answers \subseteq answers'
      /\ q.kind \in {"progress", "logs", "heartbeat"}
  BY <1>p, ReplyEffect DEF ServeReport
<1>4. \A a \in answers' : a.kind \in {"lease", "complete"} => a \in answers
  BY <1>3
<1>5. CallsMatchPhase'
  BY <1>1, <1>3, <1>4 DEF CallsMatchPhase
<1>6. CompletionsAreOfWork'
  BY <1>1, <1>3 DEF CompletionsAreOfWork
<1>7. \A r \in Run : Leased(r)' <=> Leased(r)
  BY <1>3, <1>4 DEF Leased
<1>8. (\A r \in Run : RowInv(r))'
  BY <1>1, <1>7 DEF RowInv
<1> QED BY <1>t, <1>2, <1>5, <1>6, <1>8

LEMMA ServeCompleteInv ==
  ASSUME Inv, NEW q \in requests, ServeComplete(q)
  PROVE  Inv'
<1> USE DEF Inv
<1>t. TypeOK'
  BY ServeType
<1>p. StopsPending \ {q.run} \in SUBSET StopsPending /\ StopsPending \in SUBSET Run
  BY DEF StopsPending
<1>q. q.run \in Run /\ q.outcome \in Outcomes /\ taken[q.run] = 1
  BY DEF ServeComplete, CompletionsAreOfWork
<1>1. UNCHANGED <<cancelRequested, abandoned, phase, job, aborted, outcome, taken>>
  BY DEF ServeComplete, jobVars, historyVars
<1>2. OneCallPerKind' /\ StopsAreTrue'
  BY <1>1, <1>p, ReplyOneCall, ReplyStops DEF ServeComplete
<1>3. /\ requests' \subseteq requests
      /\ \A a \in answers' : a \in answers \/ (q.waiting /\ a.kind = "complete" /\ a.run = q.run)
      /\ answers \subseteq answers'
  <2>1. StopsPending \ {q.run} \in SUBSET Run
    BY <1>p
  <2> QED BY <2>1, ReplyEffect DEF ServeComplete
<1>s. /\ status'[q.run] \in TERMINAL
      /\ \A s \in Run \ {q.run} : status'[s] = status[s]
      /\ \A s \in Run : status[s] \in TERMINAL => status'[s] = status[s]
  <2>1. OUTCOME_TO_STATUS[q.outcome] \in TERMINAL
    BY <1>q DEF OUTCOME_TO_STATUS, Outcomes, TERMINAL
  <2> QED BY <1>q, <2>1 DEF ServeComplete, TypeOK
<1>5. CallsMatchPhase'
  <2>1. ASSUME NEW a \in answers', a.kind = "complete"
        PROVE  phase = "reporting" /\ a.run = job /\ status'[job] \in TERMINAL
    <3>1. CASE a \in answers
      <4>1. phase = "reporting" /\ a.run = job /\ status[job] \in TERMINAL /\ job \in Run
        BY <2>1, <3>1 DEF CallsMatchPhase, TypeOK
      <4> QED BY <4>1, <1>s
    <3>2. CASE a \notin answers
      <4>1. q.waiting /\ q.kind = "complete" /\ a.run = q.run
        BY <1>3, <3>2 DEF ServeComplete
      <4>2. phase = "reporting" /\ q.run = job
        BY <4>1 DEF CallsMatchPhase
      <4> QED BY <4>1, <4>2, <1>s
    <3> QED BY <3>1, <3>2
  <2>2. \A a \in answers' : a.kind = "lease" => a \in answers
    BY <1>3
  <2> QED BY <1>1, <1>3, <2>1, <2>2 DEF CallsMatchPhase
<1>6. CompletionsAreOfWork'
  BY <1>1, <1>3 DEF CompletionsAreOfWork
<1>7. \A r \in Run : Leased(r)' <=> Leased(r)
  BY <1>3 DEF Leased
<1>8. ASSUME NEW s \in Run PROVE RowInv(s)'
  <2>1. CASE s = q.run
    BY <2>1, <1>1, <1>q, <1>s, <1>7 DEF RowInv, TERMINAL
  <2>2. CASE s # q.run
    BY <2>2, <1>1, <1>s, <1>7 DEF RowInv
  <2> QED BY <2>1, <2>2
<1> QED BY <1>t, <1>2, <1>5, <1>6, <1>8

-----------------------------------------------------------------------------
(* The client preserves the invariant.                                     *)

(* A call is sent only when no other of its kind is awaited; nothing else changes. *)
LEMMA SendKeeps ==
  ASSUME Inv, TypeOK', NEW kind \in Kinds, NEW r, NEW out, Send(kind, r, out),
         UNCHANGED <<status, cancelRequested, answers, phase, job, aborted, outcome, taken, abandoned>>,
         kind = "lease" => phase = "polling",
         kind = "complete" => /\ phase = "reporting" /\ r = job
                              /\ r \in Run /\ out \in Outcomes /\ taken[r] = 1
  PROVE  Inv'
<1> USE DEF Inv
<1> DEFINE call == [kind |-> kind, run |-> r, outcome |-> out, waiting |-> TRUE]
<1>1. requests' = requests \cup {call}
  BY DEF Send
<1>2. /\ \A p \in requests : p.waiting => p.kind # kind
      /\ \A a \in answers : a.kind # kind
  BY DEF Send, Waiting
<1>3. call.kind = kind /\ call.run = r /\ call.outcome = out /\ call.waiting
  OBVIOUS
<1> HIDE DEF call
<1>4. OneCallPerKind'
  BY <1>1, <1>2, <1>3 DEF OneCallPerKind
<1>5. CallsMatchPhase'
  BY <1>1, <1>3 DEF CallsMatchPhase
<1>6. CompletionsAreOfWork'
  BY <1>1, <1>3 DEF CompletionsAreOfWork
<1>7. (\A s \in Run : RowInv(s))' /\ StopsAreTrue'
  BY DEF RowInv, Leased, StopsAreTrue
<1> QED BY <1>4, <1>5, <1>6, <1>7

LEMMA SendInv ==
  ASSUME Inv, Calls
  PROVE  Inv'
<1>t. TypeOK'
  BY SendType DEF Inv
<1>k. {"lease", "progress", "logs", "heartbeat", "complete"} \subseteq Kinds
  BY DEF Kinds
<1>1. CASE SendLease
  BY <1>1, <1>t, <1>k, SendKeeps DEF SendLease, serverVars, jobVars, historyVars
<1>2. CASE SendProgress
  BY <1>2, <1>t, <1>k, SendKeeps DEF SendProgress, serverVars, jobVars, historyVars
<1>3. CASE SendLogs
  BY <1>3, <1>t, <1>k, SendKeeps DEF SendLogs, serverVars, jobVars, historyVars
<1>4. CASE SendHeartbeat
  BY <1>4, <1>t, <1>k, SendKeeps DEF SendHeartbeat, serverVars, jobVars, historyVars
<1>5. CASE SendComplete
  <2>1. phase = "reporting" /\ job \in Run /\ outcome \in Outcomes /\ taken[job] = 1
    BY <1>5 DEF SendComplete, Inv, TypeOK, CompletionsAreOfWork, RowInv
  <2> QED BY <1>5, <1>t, <1>k, <2>1, SendKeeps DEF SendComplete, serverVars, historyVars
<1> QED BY <1>1, <1>2, <1>3, <1>4, <1>5 DEF Calls

(* A call nobody waits for any more is the call it was, except that nobody waits. *)
LEMMA GhostsAreOfCalls ==
  ASSUME NEW calls \in SUBSET Request
  PROVE  \A g \in Ghosts(calls) : /\ ~g.waiting
                                  /\ \E q \in calls : q.kind = g.kind /\ q.run = g.run
                                                     /\ q.outcome = g.outcome
BY DEF Ghosts, Request

(* A call the client stops listening for leaves at most its ghost, and a lease answer it does
   not hear a run it lost. *)
LEMMA TimeOutLeaves ==
  ASSUME TypeOK, NEW kind \in Kinds, TimeOut(kind)
  PROVE  /\ \A q \in requests' : q.waiting => q \in requests
         /\ \A q \in requests' : \E c \in requests : c.kind = q.kind /\ c.run = q.run
                                                    /\ c.outcome = q.outcome
         /\ answers' \subseteq answers
         /\ abandoned \subseteq abandoned'
         /\ \A r \in abandoned' \ abandoned : Leased(r)
         /\ \A a \in answers \ answers' : a.kind = "lease" /\ a.run # NoRun => a.run \in abandoned'
<1>1. CASE \E q \in requests : /\ requests' \in {requests \ {q}, (requests \ {q}) \cup Ghosts({q})}
                               /\ UNCHANGED <<answers, abandoned>>
  <2>1. PICK q \in requests : /\ requests' \in {requests \ {q}, (requests \ {q}) \cup Ghosts({q})}
                              /\ UNCHANGED <<answers, abandoned>>
    BY <1>1
  <2>2. {q} \in SUBSET Request
    BY DEF TypeOK
  <2>3. \A g \in Ghosts({q}) : ~g.waiting /\ q.kind = g.kind /\ q.run = g.run
                              /\ q.outcome = g.outcome
    BY <2>2, GhostsAreOfCalls
  <2> QED BY <2>1, <2>3
<1>2. CASE \E a \in answers : /\ answers' = answers \ {a}
                              /\ abandoned' = abandoned \cup LeasedBy({a})
                              /\ UNCHANGED requests
  BY <1>2 DEF LeasedBy, Leased
<1> QED BY <1>1, <1>2 DEF TimeOut

LEMMA TimeOutInv ==
  ASSUME Inv, NEW kind \in Kinds, TimeOut(kind)
  PROVE  Inv'
<1> USE DEF Inv
<1>t. TypeOK'
  BY TimeOutType
<1>u. UNCHANGED <<status, cancelRequested, job, aborted, outcome, taken>>
  BY DEF TimeOut, serverVars
<1>p. /\ phase' = phase \/ (phase = "flushing" /\ phase' = "reporting")
      /\ phase \in {"polling", "reporting"} => phase' = phase
  BY DEF TimeOut
<1>1. /\ \A q \in requests' : q.waiting => q \in requests
      /\ \A q \in requests' : \E c \in requests : c.kind = q.kind /\ c.run = q.run
                                                 /\ c.outcome = q.outcome
      /\ answers' \subseteq answers
      /\ abandoned \subseteq abandoned'
      /\ \A a \in answers \ answers' : a.kind = "lease" /\ a.run # NoRun => a.run \in abandoned'
  BY TimeOutLeaves
<1>2. OneCallPerKind'
  BY <1>1 DEF OneCallPerKind
<1>3. CallsMatchPhase'
  BY <1>1, <1>u, <1>p DEF CallsMatchPhase
<1>4. CompletionsAreOfWork'
  BY <1>1, <1>u, <1>p DEF CompletionsAreOfWork
<1>5. ASSUME NEW r \in Run PROVE RowInv(r)'
  <2>1. Leased(r)' => Leased(r)
    BY <1>1 DEF Leased
  <2>2. Leased(r) => Leased(r)' \/ r \in abandoned'
    BY <1>1, ConstantsAssumption DEF Leased
  <2> QED BY <2>1, <2>2, <1>1, <1>u DEF RowInv
<1>6. StopsAreTrue'
  BY <1>1, <1>u DEF StopsAreTrue
<1> QED BY <1>t, <1>2, <1>3, <1>4, <1>5, <1>6

-----------------------------------------------------------------------------
(* The agent preserves the invariant.                                      *)

LEMMA ReceiveLeaseInv ==
  ASSUME Inv, NEW a \in answers, ReceiveLease(a)
  PROVE  Inv'
<1> USE DEF Inv
<1>t. TypeOK'
  BY ReceiveType
<1>u. /\ UNCHANGED <<status, cancelRequested, requests, abandoned>>
      /\ answers' = answers \ {a} /\ a.kind = "lease"
  BY DEF ReceiveLease, Take, serverVars
<1>1. OneCallPerKind'
  BY <1>u DEF OneCallPerKind
<1>2. CASE a.run = NoRun
  <2>1. UNCHANGED <<phase, job, aborted, outcome, taken>>
    BY <1>2 DEF ReceiveLease, jobVars
  <2>2. CallsMatchPhase' /\ CompletionsAreOfWork' /\ StopsAreTrue'
    BY <1>u, <2>1 DEF CallsMatchPhase, CompletionsAreOfWork, StopsAreTrue
  <2>3. \A r \in Run : Leased(r)' <=> Leased(r)
    BY <1>u, <1>2, ConstantsAssumption DEF Leased
  <2>4. (\A r \in Run : RowInv(r))'
    BY <1>u, <2>1, <2>3 DEF RowInv
  <2> QED BY <1>t, <1>1, <2>2, <2>4
<1>3. CASE a.run # NoRun
  <2>1. /\ a.run \in Run /\ phase' = "working" /\ job' = a.run /\ ~aborted'
        /\ taken' = [taken EXCEPT ![a.run] = @ + 1]
    BY <1>3 DEF ReceiveLease, TypeOK, Answer
  <2>2. phase = "polling" /\ job = NoRun
    BY <1>u DEF CallsMatchPhase, TypeOK
  <2>3. taken[a.run] = 0 /\ status[a.run] # "queued"
    BY <1>u, <2>1 DEF RowInv, Leased
  <2>4. taken'[a.run] = 1 /\ \A r \in Run \ {a.run} : taken'[r] = taken[r]
    BY <2>1, <2>3 DEF TypeOK
  <2>5. /\ \A q \in requests : q.waiting => q.kind \notin {"lease", "complete"}
        /\ \A b \in answers' : b.kind \notin {"lease", "complete"}
    BY <1>u, <2>2 DEF OneCallPerKind, CallsMatchPhase
  <2>6. CallsMatchPhase'
    BY <1>u, <2>5 DEF CallsMatchPhase
  <2>7. CompletionsAreOfWork'
    <3>1. ASSUME NEW q \in requests', q.kind = "complete"
          PROVE  q.run \in Run /\ q.outcome \in Outcomes /\ taken'[q.run] = 1
      BY <1>u, <2>3, <2>4, <3>1 DEF CompletionsAreOfWork
    <3> QED BY <2>1, <3>1 DEF CompletionsAreOfWork
  <2>8. ASSUME NEW r \in Run PROVE RowInv(r)'
    <3>1. ~Leased(r)'
      BY <2>5 DEF Leased
    <3>2. CASE r = a.run
      BY <3>1, <3>2, <1>u, <2>1, <2>3, <2>4 DEF RowInv
    <3>3. CASE r # a.run
      <4>1. ~Leased(r)
        BY <3>3, <1>u DEF Leased, OneCallPerKind
      <4>2. job # r
        BY <2>2, ConstantsAssumption
      <4> QED BY <3>1, <3>3, <4>1, <4>2, <1>u, <2>1, <2>4 DEF RowInv
    <3> QED BY <3>2, <3>3
  <2>9. StopsAreTrue'
    BY <1>u, <2>1 DEF StopsAreTrue
  <2> QED BY <1>t, <1>1, <2>6, <2>7, <2>8, <2>9
<1> QED BY <1>2, <1>3

LEMMA ReceiveReportInv ==
  ASSUME Inv, NEW a \in answers, ReceiveReport(a)
  PROVE  Inv'
<1> USE DEF Inv
<1>t. TypeOK'
  BY ReceiveType
<1>u. /\ UNCHANGED <<status, cancelRequested, requests, abandoned, job, outcome, taken>>
      /\ answers' = answers \ {a} /\ a.kind \in {"progress", "logs", "heartbeat"}
      /\ phase' = phase \/ (phase = "flushing" /\ phase' = "reporting")
  BY DEF ReceiveReport, Take, serverVars
<1>1. OneCallPerKind'
  BY <1>u DEF OneCallPerKind
<1>2. CallsMatchPhase' /\ CompletionsAreOfWork'
  BY <1>u DEF CallsMatchPhase, CompletionsAreOfWork
<1>3. \A r \in Run : Leased(r)' <=> Leased(r)
  BY <1>u DEF Leased
<1>4. (\A r \in Run : RowInv(r))'
  BY <1>u, <1>3 DEF RowInv
<1>5. aborted' => aborted \/ (a.control # NoRun /\ a.control = job)
  BY DEF ReceiveReport, NoticesStop, StopIsMine
<1>6. StopsAreTrue'
  BY <1>u, <1>5 DEF StopsAreTrue
<1> QED BY <1>t, <1>1, <1>2, <1>4, <1>6

LEMMA ReceiveCompleteInv ==
  ASSUME Inv, NEW a \in answers, ReceiveComplete(a)
  PROVE  Inv'
<1> USE DEF Inv
<1>t. TypeOK'
  BY ReceiveType
<1>u. /\ UNCHANGED <<status, cancelRequested, requests, abandoned, taken>>
      /\ answers' = answers \ {a} /\ a.kind = "complete"
      /\ phase' = "polling" /\ job' = NoRun /\ ~aborted'
  BY DEF ReceiveComplete, Take, LeaveJob, serverVars
<1>r. phase = "reporting" /\ status[job] \in TERMINAL
  BY <1>u DEF CallsMatchPhase
<1>1. OneCallPerKind'
  BY <1>u DEF OneCallPerKind
<1>2. /\ \A q \in requests : q.waiting => q.kind # "complete"
      /\ \A b \in answers' : b.kind # "complete"
  BY <1>u DEF OneCallPerKind
<1>3. CallsMatchPhase'
  BY <1>u, <1>2 DEF CallsMatchPhase
<1>4. CompletionsAreOfWork' /\ StopsAreTrue'
  BY <1>u DEF CompletionsAreOfWork, StopsAreTrue
<1>5. \A r \in Run : Leased(r)' <=> Leased(r)
  BY <1>u DEF Leased
<1>6. ASSUME NEW r \in Run PROVE RowInv(r)'
  <2>1. job' # r
    BY <1>u, ConstantsAssumption
  <2>2. status[r] = "running" => job # r
    BY <1>r DEF TERMINAL
  <2> QED BY <1>u, <1>5, <2>1, <2>2 DEF RowInv
<1> QED BY <1>t, <1>1, <1>3, <1>4, <1>6

LEMMA ExecuteInv ==
  ASSUME Inv, Execute
  PROVE  Inv'
<1> USE DEF Inv
<1>t. TypeOK'
  BY ExecuteType
<1>1. CASE Log
  BY <1>1, <1>t DEF Log, OneCallPerKind, CallsMatchPhase, CompletionsAreOfWork, RowInv, Leased,
     StopsAreTrue, serverVars, networkVars, historyVars
<1>2. CASE FinishJob
  <2>1. /\ UNCHANGED <<status, cancelRequested, requests, answers, abandoned, job, aborted, taken>>
        /\ phase = "working" /\ phase' = "flushing" /\ outcome' \in Outcomes
    BY <1>2 DEF FinishJob, Outcome, Outcomes, serverVars, networkVars
  <2>2. OneCallPerKind' /\ CallsMatchPhase' /\ CompletionsAreOfWork' /\ StopsAreTrue'
    BY <2>1 DEF OneCallPerKind, CallsMatchPhase, CompletionsAreOfWork, StopsAreTrue
  <2>3. (\A r \in Run : RowInv(r))'
    BY <2>1 DEF RowInv, Leased
  <2> QED BY <1>t, <2>2, <2>3
<1>3. CASE GiveUp
  <2>1. /\ UNCHANGED <<status, cancelRequested, requests, answers, taken>>
        /\ phase = "reporting" /\ phase' = "polling" /\ job' = NoRun /\ ~aborted'
        /\ abandoned' = abandoned \cup {job}
        /\ ~Waiting("complete")
    BY <1>3 DEF GiveUp, LeaveJob, serverVars, networkVars
  <2>2. OneCallPerKind' /\ CompletionsAreOfWork' /\ StopsAreTrue'
    BY <2>1 DEF OneCallPerKind, CompletionsAreOfWork, StopsAreTrue
  <2>3. CallsMatchPhase'
    BY <2>1 DEF CallsMatchPhase, Waiting
  <2>4. ASSUME NEW r \in Run PROVE RowInv(r)'
    <3>1. job' # r
      BY <2>1, ConstantsAssumption
    <3> QED BY <2>1, <3>1 DEF RowInv, Leased
  <2> QED BY <1>t, <2>2, <2>3, <2>4
<1> QED BY <1>1, <1>2, <1>3 DEF Execute

(* The process loses the job, and every call it was waiting for. *)
LEMMA CrashInv ==
  ASSUME Inv, Crash
  PROVE  Inv'
<1> USE DEF Inv
<1>t. TypeOK'
  BY CrashType
<1>u. /\ UNCHANGED <<status, cancelRequested, taken>>
      /\ phase' = "polling" /\ job' = NoRun /\ ~aborted' /\ answers' = {}
      /\ abandoned' = abandoned \cup ({job} \ {NoRun}) \cup LeasedBy(answers)
  BY DEF Crash, LeaveJob, serverVars
<1>1. /\ \A q \in requests' : ~q.waiting
      /\ \A q \in requests' : \E c \in requests : c.kind = q.kind /\ c.run = q.run
                                                 /\ c.outcome = q.outcome
  BY GhostsAreOfCalls DEF Crash, TypeOK
<1>2. OneCallPerKind' /\ CallsMatchPhase' /\ StopsAreTrue'
  BY <1>u, <1>1 DEF OneCallPerKind, CallsMatchPhase, StopsAreTrue
<1>3. CompletionsAreOfWork'
  BY <1>u, <1>1 DEF CompletionsAreOfWork
<1>4. ASSUME NEW r \in Run PROVE RowInv(r)'
  <2>1. ~Leased(r)' /\ job' # r
    BY <1>u, ConstantsAssumption DEF Leased
  <2>2. Leased(r) => r \in abandoned'
    BY <1>u, ConstantsAssumption DEF Leased, LeasedBy
  <2>3. job = r => r \in abandoned'
    BY <1>u, ConstantsAssumption
  <2> QED BY <1>u, <2>1, <2>2, <2>3 DEF RowInv
<1> QED BY <1>t, <1>2, <1>3, <1>4

(* An operator may cancel a run at any time; that is no execution of it. *)
LEMMA OperatorInv ==
  ASSUME Inv, NEW s \in Run, RequestCancel(s) \/ ForceCancel(s)
  PROVE  Inv'
<1> USE DEF Inv
<1>t. TypeOK'
  BY OperatorType
<1>u. UNCHANGED <<requests, answers, abandoned, phase, job, aborted, outcome, taken>>
  BY DEF RequestCancel, ForceCancel, networkVars, jobVars, historyVars
<1>1. /\ status' = [status EXCEPT ![s] = "cancelled"] \/ status' = status
      /\ cancelRequested' = [cancelRequested EXCEPT ![s] = TRUE]
  BY DEF RequestCancel, ForceCancel
<1>2. /\ \A r \in Run : status'[r] = status[r] \/ status'[r] = "cancelled"
      /\ \A r \in Run : cancelRequested[r] => cancelRequested'[r]
  BY <1>1 DEF TypeOK
<1>3. OneCallPerKind' /\ CompletionsAreOfWork'
  BY <1>u DEF OneCallPerKind, CompletionsAreOfWork
<1>4. CallsMatchPhase'
  <2>1. ASSUME NEW a \in answers, a.kind = "complete" PROVE status'[job] \in TERMINAL
    BY <2>1, <1>2 DEF CallsMatchPhase, TypeOK, TERMINAL
  <2> QED BY <1>u, <2>1 DEF CallsMatchPhase
<1>5. (\A r \in Run : RowInv(r))'
  BY <1>u, <1>2 DEF RowInv, Leased
<1>6. StopsAreTrue'
  <2>1. ASSUME NEW a \in answers, a.control # NoRun PROVE cancelRequested'[a.control]
    BY <2>1, <1>2 DEF StopsAreTrue, TypeOK, Answer
  <2>2. aborted => job # NoRun /\ cancelRequested'[job]
    BY <1>2 DEF StopsAreTrue, TypeOK
  <2> QED BY <1>u, <2>1, <2>2 DEF StopsAreTrue
<1> QED BY <1>t, <1>3, <1>4, <1>5, <1>6

-----------------------------------------------------------------------------
(* The invariant holds.                                                    *)

LEMMA InitInv == Init => Inv
<1> SUFFICES ASSUME Init PROVE Inv
  OBVIOUS
<1>1. TypeOK
  BY InitType
<1>2. OneCallPerKind /\ CallsMatchPhase /\ CompletionsAreOfWork /\ StopsAreTrue
  BY DEF Init, OneCallPerKind, CallsMatchPhase, CompletionsAreOfWork, StopsAreTrue
<1>3. \A r \in Run : RowInv(r)
  BY ConstantsAssumption DEF Init, RowInv, Leased
<1> QED BY <1>1, <1>2, <1>3 DEF Inv

LEMMA NextInv == Inv /\ [Next]_vars => Inv'
<1> SUFFICES ASSUME Inv, [Next]_vars PROVE Inv'
  OBVIOUS
<1>1. CASE Next
  BY <1>1, ServeLeaseInv, ServeReportInv, ServeCompleteInv, SendInv, TimeOutInv, ReceiveLeaseInv,
     ReceiveReportInv, ReceiveCompleteInv, ExecuteInv, OperatorInv, CrashInv
     DEF Next, Serve, Receive, Operator
<1>2. CASE UNCHANGED vars
  BY <1>2 DEF vars, serverVars, networkVars, jobVars, historyVars, Inv, TypeOK, OneCallPerKind,
     CallsMatchPhase, CompletionsAreOfWork, RowInv, Leased, StopsAreTrue
<1> QED BY <1>1, <1>2

LEMMA InvHolds == Spec => []Inv
BY InitInv, NextInv, PTL DEF Spec

(* Every state of the agent, the network and the rows is typed. *)
THEOREM TypeCorrect == Spec => []TypeOK
<1>1. Inv => TypeOK
  BY DEF Inv
<1> QED BY <1>1, InvHolds, PTL

(* A run is executed at most once, whatever becomes of the calls, and only executed work is
   on record as completed or failed: leaseNextRun hands out queued rows only, and a
   completion reports a run its sender took. *)
THEOREM EachRunIsDoneOnce == Spec => []WorkIsDoneOnce
<1>1. Inv => WorkIsDoneOnce
  BY DEF Inv, RowInv, WorkIsDoneOnce
<1> QED BY <1>1, InvHolds, PTL

(* An aborted job is one whose own run was asked to stop: an envelope names a stop of this
   worker's, and the agent compares it with the run it works on. *)
THEOREM OnlyStoppedRunsAreAborted == Spec => []AbortsAreWarranted
<1>1. Inv => AbortsAreWarranted
  BY DEF Inv, StopsAreTrue, AbortsAreWarranted
<1> QED BY <1>1, InvHolds, PTL

(* A running run nobody works on was lost with a lease answer, with the process or with its
   last completion: a lost call of another kind never orphans a run. *)
THEOREM NoOtherOrphans == Spec => []OrphansAreAccounted
<1>1. Inv => OrphansAreAccounted
  BY DEF Inv, RowInv, Leased, OrphansAreAccounted
<1> QED BY <1>1, InvHolds, PTL

(* What the agent did to a run is what the run's row says: executed at most once, aborted
   only when asked, and orphaned only by a loss of three kinds. *)
THEOREM AgentsAreAccountable == Spec => []AgentIsAccountable
<1>1. WorkIsDoneOnce /\ AbortsAreWarranted /\ OrphansAreAccounted => AgentIsAccountable
  BY DEF AgentIsAccountable
<1> QED BY <1>1, EachRunIsDoneOnce, OnlyStoppedRunsAreAborted, NoOtherOrphans, PTL

-----------------------------------------------------------------------------
(* The conversation keeps the contract of the runs.                        *)

(* A run the agent lost was handed out to it: it is not queued any more. *)
LostWereGiven == \A r \in abandoned : status[r] # "queued"

InvGiven == Inv /\ LostWereGiven

(* What a step does to the rows: nothing, the lease of a queued run, or the end of one, by a
   report on an executing run or because it was cancelled. *)
RowsRest == UNCHANGED status /\ \A r \in Run : Given(r)' = Given(r)
RunIsLeased(r) ==
  /\ status[r] = "queued" /\ status' = [status EXCEPT ![r] = "running"]
  /\ ~Given(r) /\ Given(r)'
  /\ \A s \in Run \ {r} : Given(s)' = Given(s)
RunEndsWith(r, how) ==
  /\ status' = [status EXCEPT ![r] = how]
  /\ \/ how \in {"completed", "failed"} /\ status[r] = "running"
     \/ how = "cancelled" /\ status[r] \in {"queued", "running"}
  /\ \A s \in Run : Given(s)' = Given(s)

RowStep ==
  \/ RowsRest
  \/ \E r \in Run : RunIsLeased(r)
  \/ \E r \in Run : \E how \in TERMINAL : RunEndsWith(r, how)

LEMMA QueuedAreNotGiven ==
  ASSUME InvGiven, NEW r \in Run, status[r] = "queued"
  PROVE  ~Given(r)
BY DEF InvGiven, Inv, RowInv, LostWereGiven, Leased, Given

(* An answer that is no lease, or that names no run, gives nothing. *)
LEMMA OtherAnswersGiveNothing ==
  ASSUME UNCHANGED <<taken, abandoned>>,
         \A a \in answers \cup answers' :
           a.kind = "lease" /\ a.run # NoRun => a \in answers /\ a \in answers',
         NEW r \in Run
  PROVE  Given(r)' = Given(r)
BY ConstantsAssumption DEF Given

LEMMA ServeRows ==
  ASSUME InvGiven, NEW q \in requests, ServeLease(q) \/ ServeReport(q) \/ ServeComplete(q)
  PROVE  RowStep
<1>q. /\ q \in Request /\ StopsPending \in SUBSET Run
      /\ status \in [Run -> {"queued", "running"} \cup TERMINAL]
  BY DEF InvGiven, Inv, TypeOK, StopsPending
<1>1. CASE ServeLease(q)
  <2>1. ASSUME NEW r \in Run, Leasable(r), status' = [status EXCEPT ![r] = "running"],
               Reply(q, r, TRUE, StopsPending),
               abandoned' = IF q.waiting THEN abandoned ELSE abandoned \cup {r}
        PROVE  RunIsLeased(r)
    <3>1. taken' = taken /\ q.kind = "lease"
      BY <1>1 DEF ServeLease
    <3>2. /\ answers \subseteq answers'
          /\ \A a \in answers' : a \in answers \/ (q.waiting /\ a.kind = q.kind /\ a.run = r)
          /\ q.waiting => \E a \in answers' : a.kind = q.kind /\ a.run = r
      BY <1>q, <2>1, ReplyEffect
    <3>3. status[r] = "queued" /\ ~Given(r)
      BY <2>1, QueuedAreNotGiven DEF Leasable
    <3>4. Given(r)'
      BY <2>1, <3>1, <3>2 DEF Given
    <3>5. \A s \in Run \ {r} : Given(s)' = Given(s)
      BY <2>1, <3>1, <3>2 DEF Given
    <3> QED BY <2>1, <3>3, <3>4, <3>5 DEF RunIsLeased
  <2>2. CASE Reply(q, NoRun, TRUE, StopsPending) /\ UNCHANGED <<status, abandoned>>
    <3>1. taken' = taken
      BY <1>1 DEF ServeLease
    <3>2. /\ answers \subseteq answers'
          /\ \A a \in answers' : a \in answers \/ a.run = NoRun
      BY <1>q, <2>2, ReplyEffect
    <3>3. \A r \in Run : Given(r)' = Given(r)
      BY <2>2, <3>1, <3>2, OtherAnswersGiveNothing
    <3> QED BY <2>2, <3>3 DEF RowStep, RowsRest
  <2> QED BY <1>1, <2>1, <2>2 DEF ServeLease, RowStep
<1>2. CASE ServeReport(q)
  <2>1. /\ UNCHANGED <<status, taken, abandoned>> /\ q.kind # "lease"
        /\ answers \subseteq answers'
        /\ \A a \in answers' : a \in answers \/ a.kind = q.kind
    BY <1>2, <1>q, ReplyEffect DEF ServeReport, serverVars, historyVars
  <2>2. \A r \in Run : Given(r)' = Given(r)
    BY <2>1, OtherAnswersGiveNothing
  <2> QED BY <2>1, <2>2 DEF RowStep, RowsRest
<1>3. CASE ServeComplete(q)
  <2>p. StopsPending \ {q.run} \in SUBSET Run
    BY <1>q
  <2>1. /\ UNCHANGED <<taken, abandoned>> /\ q.kind = "complete"
        /\ answers \subseteq answers'
        /\ \A a \in answers' : a \in answers \/ a.kind = q.kind
    BY <1>3, <2>p, ReplyEffect DEF ServeComplete, historyVars
  <2>2. \A r \in Run : Given(r)' = Given(r)
    BY <2>1, OtherAnswersGiveNothing
  <2>3. q.run \in Run /\ q.outcome \in Outcomes /\ status[q.run] # "queued"
    BY <2>1 DEF InvGiven, Inv, CompletionsAreOfWork, RowInv
  <2>4. CASE status[q.run] \in TERMINAL
    BY <1>3, <2>2, <2>4 DEF ServeComplete, RowStep, RowsRest
  <2>5. CASE status[q.run] \notin TERMINAL
    <3>1. status[q.run] = "running"
      BY <1>q, <2>3, <2>5
    <3>2. OUTCOME_TO_STATUS[q.outcome] \in TERMINAL
      BY <2>3 DEF OUTCOME_TO_STATUS, Outcomes, TERMINAL
    <3>3. status' = [status EXCEPT ![q.run] = OUTCOME_TO_STATUS[q.outcome]]
      BY <1>3, <2>5 DEF ServeComplete
    <3>4. RunEndsWith(q.run, OUTCOME_TO_STATUS[q.outcome])
      BY <2>2, <3>1, <3>2, <3>3 DEF RunEndsWith, TERMINAL
    <3> QED BY <2>3, <3>2, <3>4 DEF RowStep
  <2> QED BY <2>4, <2>5
<1> QED BY <1>1, <1>2, <1>3

LEMMA ReceiveRows ==
  ASSUME InvGiven, NEW a \in answers, ReceiveLease(a) \/ ReceiveReport(a) \/ ReceiveComplete(a)
  PROVE  RowStep
<1>1. CASE ReceiveLease(a)
  <2>1. /\ UNCHANGED <<status, abandoned>> /\ answers' = answers \ {a} /\ a.kind = "lease"
        /\ taken \in [Run -> Nat] /\ a.run \in Run \cup {NoRun}
        /\ \A b \in answers : b.kind = "lease" => b = a
    BY <1>1 DEF ReceiveLease, Take, serverVars, InvGiven, Inv, TypeOK, Answer, OneCallPerKind
  <2>2. CASE a.run = NoRun
    <3>1. taken' = taken
      BY <1>1, <2>2 DEF ReceiveLease
    <3>2. \A r \in Run : Given(r)' = Given(r)
      BY <2>1, <2>2, <3>1, OtherAnswersGiveNothing
    <3> QED BY <2>1, <3>2 DEF RowStep, RowsRest
  <2>3. CASE a.run # NoRun
    <3>1. a.run \in Run /\ taken' = [taken EXCEPT ![a.run] = @ + 1]
      BY <1>1, <2>1, <2>3 DEF ReceiveLease
    <3>2. Given(a.run) /\ Given(a.run)'
      BY <2>1, <3>1 DEF Given
    <3>3. \A r \in Run \ {a.run} : Given(r)' = Given(r)
      BY <2>1, <3>1 DEF Given
    <3>4. \A r \in Run : Given(r)' = Given(r)
      <4>1. ASSUME NEW r \in Run PROVE Given(r)' <=> Given(r)
        BY <3>2, <3>3
      <4>2. \A r \in Run : Given(r) \in BOOLEAN /\ Given(r)' \in BOOLEAN
        BY DEF Given
      <4> QED BY <4>1, <4>2
    <3> QED BY <2>1, <3>4 DEF RowStep, RowsRest
  <2> QED BY <2>2, <2>3
<1>2. CASE ReceiveReport(a) \/ ReceiveComplete(a)
  <2>1. /\ UNCHANGED <<status, taken, abandoned>> /\ answers' = answers \ {a} /\ a.kind # "lease"
    BY <1>2 DEF ReceiveReport, ReceiveComplete, Take, serverVars
  <2>2. \A r \in Run : Given(r)' = Given(r)
    BY <2>1, OtherAnswersGiveNothing
  <2> QED BY <2>1, <2>2 DEF RowStep, RowsRest
<1> QED BY <1>1, <1>2

(* What the agent gives up was given to it before. *)
LEMMA LosingKeepsGiven ==
  ASSUME UNCHANGED taken, answers' \subseteq answers, abandoned \subseteq abandoned',
         \A r \in abandoned' \ abandoned : Given(r),
         \A a \in answers \ answers' : a.kind = "lease" /\ a.run # NoRun => a.run \in abandoned',
         NEW r \in Run
  PROVE  Given(r)' = Given(r)
BY ConstantsAssumption DEF Given

LEMMA LossRows ==
  ASSUME InvGiven, Crash \/ GiveUp \/ \E kind \in Kinds : TimeOut(kind)
  PROVE  RowStep
<1>t. TypeOK /\ (job # NoRun => job \in Run /\ taken[job] = 1)
  BY DEF InvGiven, Inv, TypeOK, RowInv
<1>1. CASE Crash
  <2>1. /\ UNCHANGED <<status, taken>> /\ answers' = {}
        /\ abandoned' = abandoned \cup ({job} \ {NoRun}) \cup LeasedBy(answers)
    BY <1>1 DEF Crash, serverVars
  <2>2. \A r \in abandoned' \ abandoned : Given(r)
    BY <1>t, <2>1 DEF LeasedBy, Given
  <2>3. \A a \in answers : a.kind = "lease" /\ a.run # NoRun => a.run \in abandoned'
    BY <2>1 DEF LeasedBy
  <2>4. \A r \in Run : Given(r)' = Given(r)
    BY <2>1, <2>2, <2>3, LosingKeepsGiven
  <2> QED BY <2>1, <2>4 DEF RowStep, RowsRest
<1>2. CASE GiveUp
  <2>1. UNCHANGED <<status, taken, answers>> /\ abandoned' = abandoned \cup {job} /\ job # NoRun
    BY <1>2, <1>t DEF GiveUp, serverVars, networkVars, TypeOK
  <2>2. \A r \in abandoned' \ abandoned : Given(r)
    BY <1>t, <2>1 DEF Given
  <2>3. \A r \in Run : Given(r)' = Given(r)
    BY <2>1, <2>2, LosingKeepsGiven
  <2> QED BY <2>1, <2>3 DEF RowStep, RowsRest
<1>3. ASSUME NEW kind \in Kinds, TimeOut(kind) PROVE RowStep
  <2>1. UNCHANGED <<status, taken>>
    BY <1>3 DEF TimeOut, serverVars
  <2>2. \A r \in abandoned' \ abandoned : Given(r)
    BY <1>3, <1>t, TimeOutLeaves DEF Leased, Given
  <2>3. \A r \in Run : Given(r)' = Given(r)
    BY <1>3, <1>t, <2>1, <2>2, TimeOutLeaves, LosingKeepsGiven
  <2> QED BY <2>1, <2>3 DEF RowStep, RowsRest
<1> QED BY <1>1, <1>2, <1>3

LEMMA OperatorRows ==
  ASSUME InvGiven, NEW r \in Run, RequestCancel(r) \/ ForceCancel(r)
  PROVE  RowStep
<1>1. /\ UNCHANGED <<answers, taken, abandoned>>
      /\ status[r] \in {"queued", "running"} \cup TERMINAL
  BY DEF RequestCancel, ForceCancel, networkVars, historyVars, InvGiven, Inv, TypeOK
<1>2. \A s \in Run : Given(s)' = Given(s)
  BY <1>1 DEF Given
<1>3. CASE UNCHANGED status
  BY <1>2, <1>3 DEF RowStep, RowsRest
<1>4. CASE status' = [status EXCEPT ![r] = "cancelled"] /\ status[r] \notin TERMINAL
  BY <1>1, <1>2, <1>4 DEF RowStep, RunEndsWith, TERMINAL
<1> QED BY <1>3, <1>4 DEF RequestCancel, ForceCancel, TERMINAL

LEMMA OtherRows ==
  ASSUME InvGiven, Calls \/ Log \/ FinishJob \/ UNCHANGED vars
  PROVE  RowStep
<1>1. UNCHANGED <<status, answers, taken, abandoned>>
  BY DEF Calls, SendLease, SendProgress, SendLogs, SendHeartbeat, SendComplete, Log, FinishJob,
     vars, serverVars, networkVars, historyVars
<1>2. \A r \in Run : Given(r)' = Given(r)
  BY <1>1 DEF Given
<1> QED BY <1>1, <1>2 DEF RowStep, RowsRest

LEMMA StepRows ==
  ASSUME InvGiven, [Next]_vars
  PROVE  RowStep
BY ServeRows, ReceiveRows, LossRows, OperatorRows, OtherRows
   DEF Next, Serve, Receive, Execute, Operator

(* No run is queued again, and what is given is not queued. *)
LEMMA NextGiven == InvGiven /\ [Next]_vars => InvGiven'
<1> SUFFICES ASSUME InvGiven, [Next]_vars PROVE InvGiven'
  OBVIOUS
<1>1. Inv'
  BY NextInv DEF InvGiven
<1>2. RowStep /\ status \in [Run -> {"queued", "running"} \cup TERMINAL] /\ abandoned' \subseteq Run
  BY <1>1, StepRows DEF InvGiven, Inv, TypeOK
<1>3. ASSUME NEW r \in abandoned' PROVE status'[r] # "queued"
  <2>1. r \in Run /\ Given(r)'
    BY <1>2, <1>3 DEF Given
  <2>2. Given(r) => status[r] # "queued"
    BY <2>1, QueuedAreNotGiven
  <2>3. status[r] # "queued" => status'[r] # "queued"
    BY <1>2, <2>1 DEF RowStep, RowsRest, RunIsLeased, RunEndsWith, TERMINAL
  <2>4. ~Given(r) => status'[r] = "running"
    BY <1>2, <2>1 DEF RowStep, RowsRest, RunIsLeased, RunEndsWith
  <2> QED BY <2>2, <2>3, <2>4
<1> QED BY <1>1, <1>3 DEF InvGiven, LostWereGiven

LEMMA GivenHolds == Spec => []InvGiven
<1>1. Init => InvGiven
  BY InitInv DEF Init, InvGiven, LostWereGiven
<1> QED BY <1>1, NextGiven, PTL DEF Spec

(* The contract's variables under the mapping. *)
absPhase == [r \in Run |-> IF status[r] = "queued" THEN "authorised"
                           ELSE IF status[r] = "running" THEN "executing" ELSE "ended"]
absExecutor == [r \in Run |-> IF Given(r) THEN "agent" ELSE "nobody"]
absResult == [r \in Run |-> IF status[r] \in TERMINAL THEN status[r] ELSE "none"]

LEMMA Mapping ==
  /\ Contract!contractVars = <<absPhase, absExecutor, absResult>>
  /\ \A r : Contract!Start(r, "agent") <=>
       /\ absPhase[r] = "authorised"
       /\ absExecutor[r] = "nobody"
       /\ absPhase' = [absPhase EXCEPT ![r] = "executing"]
       /\ absExecutor' = [absExecutor EXCEPT ![r] = "agent"]
       /\ UNCHANGED absResult
  /\ \A r, res : Contract!Deliver(r, res) <=>
       /\ absPhase[r] = "executing"
       /\ absPhase' = [absPhase EXCEPT ![r] = "ended"]
       /\ absResult' = [absResult EXCEPT ![r] = res]
       /\ UNCHANGED absExecutor
  /\ \A r, res : Contract!Stop(r, res) <=>
       /\ absPhase[r] \in {"proposed", "authorised", "executing"}
       /\ absPhase' = [absPhase EXCEPT ![r] = "ended"]
       /\ absResult' = [absResult EXCEPT ![r] = res]
       /\ UNCHANGED absExecutor
BY DEF absPhase, absExecutor, absResult, Contract!contractVars, Contract!Start,
   Contract!Deliver, Contract!Stop

(* A lease starts the run. *)
LEMMA LeaseIsStart ==
  ASSUME InvGiven, NEW r \in Run, RunIsLeased(r)
  PROVE  Contract!Start(r, "agent")
<1>1. status \in [Run -> {"queued", "running"} \cup TERMINAL]
  BY DEF InvGiven, Inv, TypeOK
<1>2. status[r] = "queued" /\ status' = [status EXCEPT ![r] = "running"]
  BY DEF RunIsLeased
<1>3. absPhase[r] = "authorised" /\ absExecutor[r] = "nobody"
  BY DEF RunIsLeased, absPhase, absExecutor
<1>4. absPhase' = [absPhase EXCEPT ![r] = "executing"]
  BY <1>1, <1>2 DEF absPhase
<1>5. absResult' = absResult
  BY <1>1, <1>2 DEF absResult, TERMINAL
<1>6. absExecutor' = [absExecutor EXCEPT ![r] = "agent"]
  <2>1. \A s \in Run : absExecutor'[s] = IF s = r THEN "agent" ELSE absExecutor[s]
    BY DEF RunIsLeased, absExecutor
  <2> QED BY <2>1 DEF absExecutor
<1> QED BY <1>3, <1>4, <1>5, <1>6, Mapping

(* A report on an executing run delivers; a person's cancellation, or a cancelled job's
   report, stops. *)
LEMMA EndIsEnd ==
  ASSUME InvGiven, NEW r \in Run, NEW how \in TERMINAL, RunEndsWith(r, how)
  PROVE  \/ how \in {"completed", "failed"} /\ Contract!Deliver(r, how)
         \/ how = "cancelled" /\ Contract!Stop(r, how)
<1>1. status \in [Run -> {"queued", "running"} \cup TERMINAL]
  BY DEF InvGiven, Inv, TypeOK
<1>2. status' = [status EXCEPT ![r] = how] /\ how \notin {"queued", "running"}
  BY DEF RunEndsWith, TERMINAL
<1>3. absPhase' = [absPhase EXCEPT ![r] = "ended"]
  BY <1>1, <1>2 DEF absPhase
<1>4. absResult' = [absResult EXCEPT ![r] = how]
  BY <1>1, <1>2 DEF absResult
<1>5. absExecutor' = absExecutor
  BY DEF RunEndsWith, absExecutor
<1>6. CASE how \in {"completed", "failed"} /\ status[r] = "running"
  <2>1. absPhase[r] = "executing"
    BY <1>6 DEF absPhase
  <2> QED BY <1>3, <1>4, <1>5, <1>6, <2>1, Mapping
<1>7. CASE how = "cancelled" /\ status[r] \in {"queued", "running"}
  <2>1. absPhase[r] \in {"authorised", "executing"}
    BY <1>7 DEF absPhase
  <2> QED BY <1>3, <1>4, <1>5, <1>7, <2>1, Mapping
<1> QED BY <1>6, <1>7 DEF RunEndsWith

(* The agent, its network and the operators keep the contract of the runs: a lease is handed
   out once, to an authorised run (leaseNextRun); what is reported twice, late or by a ghost
   leaves an ended run as it is (completeRun); and a person may end a run at any time.
   RunLifecycle implements the same contract, so the two agree on every row. *)
THEOREM AgentKeepsContract == Spec => KeepsRunContract
<1>1. ASSUME InvGiven, [Next]_vars PROVE [Contract!Next]_(Contract!contractVars)
  <2>1. CASE RowsRest
    <3>1. UNCHANGED <<absPhase, absExecutor, absResult>>
      BY <2>1 DEF RowsRest, absPhase, absExecutor, absResult
    <3>2. UNCHANGED Contract!contractVars
      BY <3>1 DEF Contract!contractVars, absPhase, absExecutor, absResult
    <3> QED BY <3>2
  <2>2. ASSUME NEW r \in Run, RunIsLeased(r) PROVE Contract!Next
    BY <1>1, <2>2, LeaseIsStart DEF Contract!Next
  <2>3. ASSUME NEW r \in Run, NEW how \in TERMINAL, RunEndsWith(r, how) PROVE Contract!Next
    BY <1>1, <2>3, EndIsEnd DEF Contract!Next, Contract!WorkResults, Contract!StopResults
  <2> QED BY <1>1, <2>1, <2>2, <2>3, StepRows DEF RowStep
<1> QED BY <1>1, GivenHolds, PTL DEF Spec, KeepsRunContract
=============================================================================
