-------------------------- MODULE WorkerFleet_proofs --------------------------
(***************************************************************************)
(* Proofs about WorkerFleet, for every set of runs and any number of       *)
(* orders and stops: type correctness, the last word of the administrator, *)
(* and one offline report for each silence.                                *)
(***************************************************************************)
EXTENDS WorkerFleet, FiniteSetTheorems, TLAPS

-----------------------------------------------------------------------------
(* The inductive invariant, in named parts.                                *)

Typed ==
  /\ workerStatus \in {"absent", "registered", "idle", "busy", "offline", "disabled"}
  /\ currentRun \in Run \cup {NoRun} /\ job \in Run \cup {NoRun}
  /\ sandboxReady \in BOOLEAN /\ heard \in BOOLEAN /\ registering \in BOOLEAN
  /\ listed \in BOOLEAN /\ up \in BOOLEAN /\ enrolled \in BOOLEAN
  /\ barred \in BOOLEAN /\ overruled \in BOOLEAN
  /\ silence \in {"short", "long"}
  /\ invitation \in {"none", "open", "used", "expired"}
  /\ requests \subseteq Request
  /\ runStatus \in [Run -> {"queued", "running", "ended"}]
  /\ attests \in Attestations
  /\ late \subseteq Writers
  /\ orders \in 0..MaxOrders /\ stops \in 0..MaxStops

(* The worker has one request of a kind under way. *)
OnePerKind == \A p, q \in requests : p.kind = q.kind => p = q

(* The answer of a lease is awaited by a process that has no run. *)
LeasesAreAwaited == \A q \in requests : q.kind = "lease" /\ q.answered => up /\ job = NoRun

(* While a registration is under way no process has an identity to start with. *)
RegistersWhileDown == registering => ~up /\ ~enrolled

(* What may still write the row of a disabled worker was under way when it was disabled. *)
WritersAreLate ==
  barred /\ ~overruled =>
    /\ workerStatus = "disabled"
    /\ \A q \in requests : q.kind \in late
    /\ listed => "sweep" \in late
    /\ registering => "registration" \in late

(* A worker reported offline is not listed again before it is heard of. *)
ToldWhileOffline ==
  /\ reported \in {0, 1}
  /\ reported = 1 => workerStatus \in {"offline", "disabled"} /\ ~listed

Inv ==
  /\ Typed
  /\ OnePerKind
  /\ LeasesAreAwaited
  /\ RegistersWhileDown
  /\ WritersAreLate
  /\ ToldWhileOffline

-----------------------------------------------------------------------------
(* Facts about requests.                                                   *)

(* A request is of one of three kinds. *)
LEMMA KindsOfRequest ==
  ASSUME NEW q \in Request
  PROVE  /\ q.kind \in {"heartbeat", "lease", "complete"}
         /\ q.kind \in Writers
         /\ q.kind = "heartbeat" => q \in [kind : {"heartbeat"}, run : Run \cup {NoRun}, says : Attestations]
         /\ q.kind = "lease" => q \in [kind : {"lease"}, ready : BOOLEAN, answered : BOOLEAN]
         /\ q.kind = "complete" => q \in [kind : {"complete"}, run : Run, answered : BOOLEAN]
BY DEF Request, Writers

(* A heartbeat whose sandbox is recorded is still a heartbeat. *)
LEMMA BeatWithoutItsAttestation ==
  ASSUME NEW q \in Request, q.kind = "heartbeat"
  PROVE  /\ [q EXCEPT !.says = "nothing"] \in Request
         /\ [q EXCEPT !.says = "nothing"].kind = "heartbeat"
<1>1. q \in [kind : {"heartbeat"}, run : Run \cup {NoRun}, says : Attestations]
  BY KindsOfRequest
<1>2. [q EXCEPT !.says = "nothing"] \in [kind : {"heartbeat"}, run : Run \cup {NoRun}, says : Attestations]
  BY <1>1 DEF Attestations
<1> QED BY <1>2 DEF Request

(* What is left of a request when its sender stops. *)
Unheeded(q) == IF q.kind = "heartbeat" THEN q ELSE [q EXCEPT !.answered = FALSE]

LEMMA UnheededRequest ==
  ASSUME NEW q \in Request
  PROVE  /\ Unheeded(q) \in Request
         /\ Unheeded(q).kind = q.kind
         /\ q.kind = "lease" => ~Unheeded(q).answered
<1>1. CASE q.kind = "heartbeat"
  BY <1>1 DEF Unheeded
<1>2. CASE q.kind = "lease"
  <2>1. q \in [kind : {"lease"}, ready : BOOLEAN, answered : BOOLEAN]
    BY <1>2, KindsOfRequest
  <2>2. /\ [q EXCEPT !.answered = FALSE] \in [kind : {"lease"}, ready : BOOLEAN, answered : BOOLEAN]
        /\ ~[q EXCEPT !.answered = FALSE].answered
    BY <2>1
  <2> QED BY <1>2, <2>2 DEF Unheeded, Request
<1>3. CASE q.kind = "complete"
  <2>1. q \in [kind : {"complete"}, run : Run, answered : BOOLEAN]
    BY <1>3, KindsOfRequest
  <2>2. [q EXCEPT !.answered = FALSE] \in [kind : {"complete"}, run : Run, answered : BOOLEAN]
    BY <2>1
  <2> QED BY <1>3, <2>2 DEF Unheeded, Request
<1> QED BY <1>1, <1>2, <1>3, KindsOfRequest

(* One request of each kind, counted. *)
LEMMA AtMostOneUnderWay ==
  ASSUME OnePerKind, NEW kind
  PROVE  Cardinality(UnderWay(kind)) <= 1
<1>1. CASE UnderWay(kind) = {}
  <2>1. Cardinality({}) = 0
    BY FS_EmptySet
  <2> QED BY <1>1, <2>1
<1>2. CASE UnderWay(kind) # {}
  <2>1. PICK q \in UnderWay(kind) : TRUE
    BY <1>2
  <2>2. UnderWay(kind) = {q}
    BY <2>1 DEF UnderWay, OnePerKind
  <2>3. Cardinality({q}) = 1
    BY FS_Singleton
  <2> QED BY <2>2, <2>3
<1> QED BY <1>1, <1>2

(* The parts of the invariant that type the state give the type invariant. *)
LEMMA InvType == Inv => TypeOK
<1> SUFFICES ASSUME Inv PROVE TypeOK
  OBVIOUS
<1> USE DEF Inv
<1>1. {sandboxReady, heard, registering, listed, up, enrolled, barred, overruled} \subseteq BOOLEAN
  BY DEF Typed
<1>2. \A kind \in Writers : Cardinality(UnderWay(kind)) <= 1
  BY AtMostOneUnderWay
<1>3. \A q \in UnderWay("lease") : q.answered => up /\ job = NoRun
  BY DEF UnderWay, LeasesAreAwaited
<1>4. reported \in Nat
  BY DEF ToldWhileOffline
<1> QED BY <1>1, <1>2, <1>3, <1>4 DEF Typed, TypeOK

LEMMA InvObeys == Inv => RowObeys
BY DEF Inv, WritersAreLate, ToldWhileOffline, RowObeys, AdministratorHasLastWord, SilenceToldOnce

-----------------------------------------------------------------------------
(* The initial state, and the steps that leave the row alone.              *)

LEMMA InitInv == Init => Inv
<1> SUFFICES ASSUME Init PROVE Inv
  OBVIOUS
<1>1. runStatus \in [Run -> {"queued", "running", "ended"}]
  BY DEF Init
<1>2. orders \in 0..MaxOrders /\ stops \in 0..MaxStops
  BY ConstantsAssumption DEF Init
<1>3. Typed
  BY <1>1, <1>2 DEF Init, Typed, Attestations
<1> QED BY <1>3 DEF Init, Inv, OnePerKind, LeasesAreAwaited, RegistersWhileDown, WritersAreLate,
             ToldWhileOffline

LEMMA Stutter == Inv /\ UNCHANGED vars => Inv'
BY DEF Inv, Typed, OnePerKind, LeasesAreAwaited, RegistersWhileDown, WritersAreLate,
       ToldWhileOffline, vars, rowVars, agentVars, wordVars, bounds

-----------------------------------------------------------------------------
(* The administrator's steps.                                              *)

(* Of an invitation the row does not speak. *)
LEMMA InvitationInv ==
  ASSUME Inv, CreateEnrollmentToken \/ EnrollmentTokenExpires
  PROVE  Inv'
<1> USE DEF Inv, CreateEnrollmentToken, EnrollmentTokenExpires, rowVars, agentVars, wordVars, bounds
<1>1. Typed'
  <2>1. orders' \in 0..MaxOrders /\ stops' \in 0..MaxStops
    BY ConstantsAssumption DEF Typed
  <2> QED BY <2>1 DEF Typed
<1>2. OnePerKind'
  BY DEF OnePerKind
<1>3. LeasesAreAwaited'
  BY DEF LeasesAreAwaited
<1>4. RegistersWhileDown'
  BY DEF RegistersWhileDown
<1>5. WritersAreLate'
  BY DEF WritersAreLate
<1>6. ToldWhileOffline'
  BY DEF ToldWhileOffline
<1> QED BY <1>1, <1>2, <1>3, <1>4, <1>5, <1>6

(* A disabling notes everything that is under way. *)
LEMMA OrderInv ==
  ASSUME Inv, NEW enabled \in BOOLEAN, SetWorkerEnabled(enabled)
  PROVE  Inv'
<1> USE DEF Inv, SetWorkerEnabled, rowVars, agentVars, wordVars, bounds
<1>1. Typed'
  <2>1. late' \subseteq Writers
    BY KindsOfRequest DEF Typed, Writers
  <2>2. orders' \in 0..MaxOrders
    BY ConstantsAssumption DEF Typed
  <2> QED BY ZenonT(60), <2>1, <2>2 DEF Typed
<1>2. OnePerKind'
  BY DEF OnePerKind
<1>3. LeasesAreAwaited'
  BY DEF LeasesAreAwaited
<1>4. RegistersWhileDown'
  BY DEF RegistersWhileDown
<1>5. WritersAreLate'
  BY DEF WritersAreLate
<1>6. ToldWhileOffline'
  BY DEF ToldWhileOffline
<1> QED BY <1>1, <1>2, <1>3, <1>4, <1>5, <1>6

(* A forced end clears the row's run and nothing else. *)
LEMMA CancelInv ==
  ASSUME Inv, NEW r \in Run, ForceCancel(r)
  PROVE  Inv'
<1> USE DEF Inv, ForceCancel, rowVars, agentVars, wordVars, bounds
<1>1. Typed'
  BY DEF Typed
<1>2. OnePerKind'
  BY DEF OnePerKind
<1>3. LeasesAreAwaited'
  BY DEF LeasesAreAwaited
<1>4. RegistersWhileDown'
  BY DEF RegistersWhileDown
<1>5. WritersAreLate'
  BY DEF WritersAreLate
<1>6. ToldWhileOffline'
  BY DEF ToldWhileOffline
<1> QED BY <1>1, <1>2, <1>3, <1>4, <1>5, <1>6

-----------------------------------------------------------------------------
(* Registration and the process.                                           *)

(* A disabled worker is not read by a registration. *)
LEMMA CheckInv ==
  ASSUME Inv, CheckRegistration
  PROVE  Inv'
<1> USE DEF Inv, CheckRegistration, MayRegister, rowVars, agentVars, wordVars, bounds
<1>1. Typed'
  BY ConstantsAssumption DEF Typed
<1>2. OnePerKind'
  BY DEF OnePerKind
<1>3. LeasesAreAwaited'
  BY DEF LeasesAreAwaited
<1>4. RegistersWhileDown'
  BY DEF RegistersWhileDown
<1>5. WritersAreLate'
  BY DEF WritersAreLate
<1>6. ToldWhileOffline'
  BY DEF ToldWhileOffline
<1> QED BY <1>1, <1>2, <1>3, <1>4, <1>5, <1>6

(* A registration that finishes after a disabling is one that began before it. *)
LEMMA RegisterInv ==
  ASSUME Inv, NEW answered \in BOOLEAN, RegisterWorker(answered)
  PROVE  Inv'
<1> USE DEF Inv, RegisterWorker, Wrote, rowVars, agentVars, wordVars, bounds
<1>1. Typed'
  <2>1. orders' \in 0..MaxOrders /\ stops' \in 0..MaxStops
    BY ConstantsAssumption DEF Typed
  <2> QED BY <2>1 DEF Typed
<1>2. OnePerKind'
  BY DEF OnePerKind
<1>3. LeasesAreAwaited'
  BY DEF LeasesAreAwaited, RegistersWhileDown
<1>4. RegistersWhileDown'
  BY DEF RegistersWhileDown
<1>5. WritersAreLate'
  BY DEF WritersAreLate
<1>6. ToldWhileOffline'
  BY DEF ToldWhileOffline
<1> QED BY <1>1, <1>2, <1>3, <1>4, <1>5, <1>6

(* A process that starts has no lease it waits for. *)
LEMMA StartInv ==
  ASSUME Inv, StartWorker
  PROVE  Inv'
<1> USE DEF Inv, StartWorker, rowVars, agentVars, wordVars, bounds
<1>1. Typed'
  BY ConstantsAssumption DEF Typed
<1>2. OnePerKind'
  BY DEF OnePerKind
<1>3. LeasesAreAwaited'
  BY DEF LeasesAreAwaited
<1>4. RegistersWhileDown'
  BY DEF RegistersWhileDown
<1>5. WritersAreLate'
  BY DEF WritersAreLate
<1>6. ToldWhileOffline'
  BY DEF ToldWhileOffline
<1> QED BY <1>1, <1>2, <1>3, <1>4, <1>5, <1>6

(* A process that stops leaves its requests under way, and nobody waits for them. *)
LEMMA StopInv ==
  ASSUME Inv, NEW rebuilt \in BOOLEAN, StopWorker(rebuilt)
  PROVE  Inv'
<1> USE DEF Inv, StopWorker, rowVars, agentVars, wordVars, bounds
<1>a. requests' = {Unheeded(q) : q \in requests}
  BY DEF Unheeded
<1>b. \A q \in requests : q \in Request
  BY DEF Typed
<1>c. \A q \in requests : /\ Unheeded(q) \in Request
                          /\ Unheeded(q).kind = q.kind
                          /\ q.kind = "lease" => ~Unheeded(q).answered
  BY <1>b, UnheededRequest
<1>1. Typed'
  <2>1. orders' \in 0..MaxOrders /\ stops' \in 0..MaxStops
    BY ConstantsAssumption DEF Typed
  <2>2. requests' \subseteq Request
    BY <1>a, <1>c
  <2>3. enrolled' \in BOOLEAN /\ job' \in Run \cup {NoRun}
    OBVIOUS
  <2> HIDE DEF StopWorker
  <2>4. UNCHANGED <<rowVars, invitation, registering, listed, runStatus, attests, wordVars>> /\ up' = FALSE
    BY DEF StopWorker
  <2> QED BY ZenonT(60), <2>1, <2>2, <2>3, <2>4 DEF Typed
<1>2. OnePerKind'
  BY <1>a, <1>c DEF OnePerKind
<1>3. LeasesAreAwaited'
  BY <1>a, <1>c DEF LeasesAreAwaited
<1>4. RegistersWhileDown'
  BY <1>a, <1>c DEF RegistersWhileDown
<1>5. WritersAreLate'
  BY <1>a, <1>c DEF WritersAreLate
<1>6. ToldWhileOffline'
  BY <1>a, <1>c DEF ToldWhileOffline
<1> QED BY <1>1, <1>2, <1>3, <1>4, <1>5, <1>6

-----------------------------------------------------------------------------
(* The worker's requests.                                                  *)

(* A request is sent when none of its kind is under way, and never by a disabled worker. *)
LEMMA SendInv ==
  ASSUME Inv, NEW q \in Request, q.kind = "lease" => job = NoRun, Send(q)
  PROVE  Inv'
<1> USE DEF Inv, Send, Authenticated, UnderWay, rowVars, agentVars, wordVars, bounds
<1>1. Typed'
  BY DEF Typed
<1>2. OnePerKind'
  BY DEF OnePerKind
<1>3. LeasesAreAwaited'
  BY DEF LeasesAreAwaited
<1>4. RegistersWhileDown'
  BY DEF RegistersWhileDown
<1>5. WritersAreLate'
  BY DEF WritersAreLate
<1>6. ToldWhileOffline'
  BY DEF ToldWhileOffline
<1> QED BY <1>1, <1>2, <1>3, <1>4, <1>5, <1>6

(* A refused completion is given up, and awaits nothing. *)
LEMMA RefusedInv ==
  ASSUME Inv, CompleteRefused
  PROVE  Inv'
<1> USE DEF Inv, CompleteRefused, rowVars, agentVars, wordVars, bounds
<1>1. Typed'
  BY DEF Typed
<1>2. OnePerKind'
  BY DEF OnePerKind
<1>3. LeasesAreAwaited'
  BY DEF LeasesAreAwaited
<1>4. RegistersWhileDown'
  BY DEF RegistersWhileDown
<1>5. WritersAreLate'
  BY DEF WritersAreLate
<1>6. ToldWhileOffline'
  BY DEF ToldWhileOffline
<1> QED BY <1>1, <1>2, <1>3, <1>4, <1>5, <1>6

(* A recorded attestation leaves the heartbeat under way. *)
LEMMA AttestationInv ==
  ASSUME Inv, NEW q \in requests, RecordSandboxAttestation(q)
  PROVE  Inv'
<1> USE DEF Inv, RecordSandboxAttestation, rowVars, agentVars, wordVars, bounds
<1>a. q \in Request
  BY DEF Typed
<1>b. [q EXCEPT !.says = "nothing"] \in Request /\ [q EXCEPT !.says = "nothing"].kind = "heartbeat"
  BY <1>a, BeatWithoutItsAttestation
<1>1. Typed'
  BY <1>b DEF Typed
<1>2. OnePerKind'
  BY <1>b DEF OnePerKind
<1>3. LeasesAreAwaited'
  BY <1>b DEF LeasesAreAwaited
<1>4. RegistersWhileDown'
  BY <1>b DEF RegistersWhileDown
<1>5. WritersAreLate'
  BY <1>b DEF WritersAreLate
<1>6. ToldWhileOffline'
  BY <1>b DEF ToldWhileOffline
<1> QED BY <1>1, <1>2, <1>3, <1>4, <1>5, <1>6

(* A heartbeat that writes a disabled row was under way when it was disabled. *)
LEMMA BeatInv ==
  ASSUME Inv, NEW q \in requests, RecordHeartbeat(q)
  PROVE  Inv'
<1> USE DEF Inv, RecordHeartbeat, RunOf, Wrote, rowVars, agentVars, wordVars, bounds
<1>a. q \in [kind : {"heartbeat"}, run : Run \cup {NoRun}, says : Attestations]
  BY KindsOfRequest DEF Typed
<1>1. Typed'
  BY <1>a DEF Typed
<1>2. OnePerKind'
  BY <1>a DEF OnePerKind
<1>3. LeasesAreAwaited'
  BY <1>a DEF LeasesAreAwaited
<1>4. RegistersWhileDown'
  BY <1>a DEF RegistersWhileDown
<1>5. WritersAreLate'
  BY <1>a DEF WritersAreLate
<1>6. ToldWhileOffline'
  BY <1>a DEF ToldWhileOffline
<1> QED BY <1>1, <1>2, <1>3, <1>4, <1>5, <1>6

(* A lease that takes a run was the only one under way. *)
LEMMA LeaseInv ==
  ASSUME Inv, NEW q \in requests, NEW r \in Run, LeaseNextRun(q, r)
  PROVE  Inv'
<1> USE DEF Inv, LeaseNextRun, Wrote, rowVars, agentVars, wordVars, bounds
<1>a. q \in [kind : {"lease"}, ready : BOOLEAN, answered : BOOLEAN]
  BY KindsOfRequest DEF Typed
<1>b. \A p \in requests' : p.kind # "lease"
  BY DEF OnePerKind
<1>1. Typed'
  BY <1>a, <1>b DEF Typed
<1>2. OnePerKind'
  BY <1>a, <1>b DEF OnePerKind
<1>3. LeasesAreAwaited'
  BY <1>a, <1>b DEF LeasesAreAwaited
<1>4. RegistersWhileDown'
  BY <1>a, <1>b DEF RegistersWhileDown
<1>5. WritersAreLate'
  BY <1>a, <1>b DEF WritersAreLate
<1>6. ToldWhileOffline'
  BY <1>a, <1>b DEF ToldWhileOffline
<1> QED BY <1>1, <1>2, <1>3, <1>4, <1>5, <1>6

(* A lease that takes nothing writes nothing. *)
LEMMA NoLeaseInv ==
  ASSUME Inv, NEW q \in requests, LeaseNothing(q)
  PROVE  Inv'
<1> USE DEF Inv, LeaseNothing, Ended, rowVars, agentVars, wordVars, bounds
<1>1. Typed'
  BY DEF Typed
<1>2. OnePerKind'
  BY DEF OnePerKind
<1>3. LeasesAreAwaited'
  BY DEF LeasesAreAwaited
<1>4. RegistersWhileDown'
  BY DEF RegistersWhileDown
<1>5. WritersAreLate'
  <2>1. \A p \in requests' : p.kind # "lease"
    BY DEF OnePerKind
  <2> QED BY <2>1 DEF WritersAreLate
<1>6. ToldWhileOffline'
  BY DEF ToldWhileOffline
<1> QED BY <1>1, <1>2, <1>3, <1>4, <1>5, <1>6

(* A completion writes the row of a run that is running. *)
LEMMA CompleteInv ==
  ASSUME Inv, NEW q \in requests, CompleteRun(q)
  PROVE  Inv'
<1> USE DEF Inv, CompleteRun, Wrote, Ended, rowVars, agentVars, wordVars, bounds
<1>a. q \in [kind : {"complete"}, run : Run, answered : BOOLEAN]
  BY KindsOfRequest DEF Typed
<1>1. Typed'
  BY <1>a DEF Typed
<1>2. OnePerKind'
  BY <1>a DEF OnePerKind
<1>3. LeasesAreAwaited'
  BY <1>a DEF LeasesAreAwaited
<1>4. RegistersWhileDown'
  BY <1>a DEF RegistersWhileDown
<1>5. WritersAreLate'
  <2>1. \A p \in requests' : p.kind # "complete"
    BY DEF OnePerKind
  <2> QED BY <2>1 DEF WritersAreLate
<1>6. ToldWhileOffline'
  BY <1>a DEF ToldWhileOffline
<1> QED BY <1>1, <1>2, <1>3, <1>4, <1>5, <1>6

-----------------------------------------------------------------------------
(* The sweeper.                                                            *)

(* The passing of time writes nothing. *)
LEMMA GraceInv ==
  ASSUME Inv, GracePasses
  PROVE  Inv'
<1> USE DEF Inv, GracePasses, rowVars, agentVars, wordVars, bounds
<1>1. Typed'
  BY DEF Typed
<1>2. OnePerKind'
  BY DEF OnePerKind
<1>3. LeasesAreAwaited'
  BY DEF LeasesAreAwaited
<1>4. RegistersWhileDown'
  BY DEF RegistersWhileDown
<1>5. WritersAreLate'
  BY DEF WritersAreLate
<1>6. ToldWhileOffline'
  BY DEF ToldWhileOffline
<1> QED BY <1>1, <1>2, <1>3, <1>4, <1>5, <1>6

(* A worker reported offline is not stale. *)
LEMMA ListInv ==
  ASSUME Inv, ListStaleWorkers
  PROVE  Inv'
<1> USE DEF Inv, ListStaleWorkers, Stale, rowVars, agentVars, wordVars, bounds
<1>1. Typed'
  BY DEF Typed
<1>2. OnePerKind'
  BY DEF OnePerKind
<1>3. LeasesAreAwaited'
  BY DEF LeasesAreAwaited
<1>4. RegistersWhileDown'
  BY DEF RegistersWhileDown
<1>5. WritersAreLate'
  BY DEF WritersAreLate
<1>6. ToldWhileOffline'
  BY DEF ToldWhileOffline
<1> QED BY <1>1, <1>2, <1>3, <1>4, <1>5, <1>6

(* A listed worker is reported once. *)
LEMMA OfflineInv ==
  ASSUME Inv, MarkOffline
  PROVE  Inv'
<1> USE DEF Inv, MarkOffline, Wrote, rowVars, agentVars, wordVars, bounds
<1>1. Typed'
  BY DEF Typed
<1>2. OnePerKind'
  BY DEF OnePerKind
<1>3. LeasesAreAwaited'
  BY DEF LeasesAreAwaited
<1>4. RegistersWhileDown'
  BY DEF RegistersWhileDown
<1>5. WritersAreLate'
  BY DEF WritersAreLate
<1>6. ToldWhileOffline'
  BY DEF ToldWhileOffline
<1> QED BY <1>1, <1>2, <1>3, <1>4, <1>5, <1>6

-----------------------------------------------------------------------------
(* The theorems.                                                           *)

(* Every step preserves the invariant. *)
LEMMA NextInv == Inv /\ [Next]_vars => Inv'
<1> SUFFICES ASSUME Inv, [Next]_vars PROVE Inv'
  OBVIOUS
<1>1. CASE CreateEnrollmentToken \/ EnrollmentTokenExpires
  BY <1>1, InvitationInv
<1>2. CASE \E enabled \in BOOLEAN : SetWorkerEnabled(enabled)
  BY <1>2, OrderInv
<1>3. CASE \E r \in Run : ForceCancel(r)
  BY <1>3, CancelInv
<1>4. CASE Register
  BY <1>4, CheckInv, RegisterInv DEF Register
<1>5. CASE StartWorker
  BY <1>5, StartInv
<1>6. CASE \E rebuilt \in BOOLEAN : StopWorker(rebuilt)
  BY <1>6, StopInv
<1>7. CASE Heartbeat
  <2>1. [kind |-> "heartbeat", run |-> job, says |-> attests] \in Request
    BY DEF Inv, Typed, Request
  <2> QED BY <1>7, <2>1, SendInv DEF Heartbeat
<1>8. CASE Lease
  <2>1. [kind |-> "lease", ready |-> sandboxReady, answered |-> TRUE] \in Request
    BY DEF Inv, Typed, Request
  <2> QED BY <1>8, <2>1, SendInv DEF Lease
<1>9. CASE Complete
  <2>1. [kind |-> "complete", run |-> job, answered |-> TRUE] \in Request
    BY <1>9 DEF Inv, Typed, Request, Complete
  <2> QED BY <1>9, <2>1, SendInv DEF Complete
<1>10. CASE CompleteRefused
  BY <1>10, RefusedInv
<1>11. CASE Beat
  BY <1>11, AttestationInv, BeatInv DEF Beat
<1>12. CASE \E q \in requests :
              LeaseNothing(q) \/ CompleteRun(q) \/ \E r \in Run : LeaseNextRun(q, r)
  BY <1>12, NoLeaseInv, CompleteInv, LeaseInv
<1>13. CASE GracePasses
  BY <1>13, GraceInv
<1>14. CASE Sweep
  BY <1>14, ListInv, OfflineInv DEF Sweep
<1>15. CASE UNCHANGED vars
  BY <1>15, Stutter
<1> QED BY <1>1, <1>2, <1>3, <1>4, <1>5, <1>6, <1>7, <1>8, <1>9, <1>10, <1>11, <1>12, <1>13, <1>14,
           <1>15 DEF Next

LEMMA Invariance == Spec => []Inv
BY InitInv, NextInv, PTL DEF Spec

(* In every reachable state the row, the requests and the process are what TypeOK says: a
   worker has one request of a kind under way, and a lease that is awaited is awaited by a
   process without a run. *)
THEOREM FleetTypeCorrect == Spec => []TypeOK
BY Invariance, InvType, PTL

(* Nothing that begins after the administrator disabled a worker lets it back in, and a
   silence of a worker is reported once, whatever the late requests, registrations and sweeps
   (services/workers.ts, setWorkerEnabled and markStaleWorkersOffline). *)
THEOREM RowsObey == Spec => []RowObeys
BY Invariance, InvObeys, PTL
=============================================================================
