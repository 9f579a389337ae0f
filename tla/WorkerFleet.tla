----------------------------- MODULE WorkerFleet -----------------------------
(***************************************************************************)
(* The row of a worker, and who writes it: its registration by invitation, *)
(* its heartbeats, leases and completions, the sweeper that marks silent   *)
(* workers offline, and the administrator who disables and enables it      *)
(* (services/workers.ts, http/worker-auth.ts, http/routes/worker.ts).      *)
(*                                                                         *)
(* A request is authenticated once, against the row as it was then, and    *)
(* writes the row later without looking at it again; a lease waits up to   *)
(* 25 seconds in between.                                                  *)
(***************************************************************************)
EXTENDS Naturals, FiniteSets

CONSTANTS
  Run, NoRun,
  Coding,      \* the runs whose job needs a sandbox
  Attests,     \* what a starting worker may say of its sandbox, within Attestations
  MaxOrders,   \* bound: the administrator's invitations, disablings and enablings
  MaxStops     \* bound: stops of the worker's process, and lost registrations

Attestations == {"contained", "bare", "nothing"}

ASSUME ConstantsAssumption ==
  /\ NoRun \notin Run /\ Coding \subseteq Run
  /\ Attests \subseteq Attestations /\ Attests # {}
  /\ MaxOrders \in Nat /\ MaxStops \in Nat

VARIABLES
  workerStatus,  \* workers.status, or "absent"
  currentRun,    \* workers.current_run_id
  sandboxReady,  \* workers.sandbox_ready
  heard,         \* workers.last_heartbeat_at is not NULL
  silence,       \* "long" when the last heartbeat, or the registration, is past the grace
  invitation,    \* the enrolment token: "none", "open", "used" or "expired"
  registering,   \* a registration has locked the token and read the worker's row
  listed,        \* the sweeper has read the row as stale and not written it yet
  requests,      \* the worker's requests authenticated and not carried out
  runStatus,     \* of each run: "queued", "running" or "ended"
  up, enrolled,  \* the worker's process runs; its state file exists
  job,           \* the run the process executes
  attests,       \* what the process measured of its sandbox when it started
  barred,        \* history: the administrator's last word was to disable
  late,          \* history: what was under way when he said so
  overruled,     \* history: some of that has written the row since
  reported,      \* history: offline reports since the worker was last heard of
  orders, stops  \* counters of the bounds

rowVars == <<workerStatus, currentRun, sandboxReady, heard, silence>>
agentVars == <<up, enrolled, job, attests>>
wordVars == <<barred, late, overruled>>
bounds == <<orders, stops>>
vars == <<rowVars, invitation, registering, listed, requests, runStatus, agentVars, wordVars,
          reported, bounds>>

Writers == {"heartbeat", "lease", "complete", "sweep", "registration"}

Request ==
  [kind : {"heartbeat"}, run : Run \cup {NoRun}, says : Attestations]
  \cup [kind : {"lease"}, ready : BOOLEAN, answered : BOOLEAN]
  \cup [kind : {"complete"}, run : Run, answered : BOOLEAN]

UnderWay(kind) == {q \in requests : q.kind = kind}

TypeOK ==
  /\ workerStatus \in {"absent", "registered", "idle", "busy", "offline", "disabled"}
  /\ currentRun \in Run \cup {NoRun} /\ job \in Run \cup {NoRun}
  /\ {sandboxReady, heard, registering, listed, up, enrolled, barred, overruled} \subseteq BOOLEAN
  /\ silence \in {"short", "long"}
  /\ invitation \in {"none", "open", "used", "expired"}
  /\ requests \subseteq Request
  /\ \A kind \in Writers : Cardinality(UnderWay(kind)) <= 1
  /\ \A q \in UnderWay("lease") : q.answered => up /\ job = NoRun
  /\ runStatus \in [Run -> {"queued", "running", "ended"}]
  /\ attests \in Attestations
  /\ late \subseteq Writers /\ reported \in Nat
  /\ orders \in 0..MaxOrders /\ stops \in 0..MaxStops

Init ==
  /\ workerStatus = "absent" /\ currentRun = NoRun /\ sandboxReady = FALSE
  /\ heard = FALSE /\ silence = "short"
  /\ invitation = "none" /\ registering = FALSE /\ listed = FALSE /\ requests = {}
  /\ runStatus = [r \in Run |-> "queued"]
  /\ up = FALSE /\ enrolled = FALSE /\ job = NoRun /\ attests = "nothing"
  /\ barred = FALSE /\ late = {} /\ overruled = FALSE /\ reported = 0
  /\ orders = 0 /\ stops = 0

(* One of the writers has written the row, or has given up. *)
Wrote(writer) ==
  /\ overruled' = (overruled \/ (barred /\ writer \in late))
  /\ late' = late \ {writer}
  /\ UNCHANGED barred
Ended(writer) == late' = late \ {writer} /\ UNCHANGED <<barred, overruled>>

-----------------------------------------------------------------------------
(* The administrator.                                                      *)

CreateEnrollmentToken ==
  /\ invitation # "open" /\ ~registering
  /\ orders < MaxOrders /\ orders' = orders + 1
  /\ invitation' = "open"
  /\ UNCHANGED <<rowVars, registering, listed, requests, runStatus, agentVars, wordVars,
                 reported, stops>>

EnrollmentTokenExpires ==
  /\ invitation = "open" /\ ~registering
  /\ invitation' = "expired"
  /\ UNCHANGED <<rowVars, registering, listed, requests, runStatus, agentVars, wordVars,
                 reported, bounds>>

SetWorkerEnabled(enabled) ==
  /\ workerStatus # "absent" /\ barred = enabled
  /\ orders < MaxOrders /\ orders' = orders + 1
  /\ workerStatus' = IF enabled THEN "offline" ELSE "disabled"
  /\ barred' = ~enabled /\ overruled' = FALSE
  /\ late' = IF enabled THEN {}
             ELSE {q.kind : q \in requests} \cup {w \in {"sweep"} : listed}
                  \cup {w \in {"registration"} : registering}
  /\ UNCHANGED <<currentRun, sandboxReady, heard, silence, invitation, registering, listed,
                 requests, runStatus, agentVars, reported, stops>>

(* forceCancel: the run ends whatever its worker does. *)
ForceCancel(r) ==
  /\ runStatus[r] = "running"
  /\ runStatus' = [runStatus EXCEPT ![r] = "ended"]
  /\ currentRun' = NoRun
  /\ UNCHANGED <<workerStatus, sandboxReady, heard, silence, invitation, registering, listed,
                 requests, agentVars, wordVars, reported, bounds>>

-----------------------------------------------------------------------------
(* Registration.                                                           *)

Unbarred == invitation = "open"  \* mutant: a disabled worker may register again
MayRegister == invitation = "open" /\ workerStatus # "disabled"

(* The token's row is locked and checked, then the worker's row is read. *)
CheckRegistration ==
  /\ ~up /\ ~enrolled /\ ~registering /\ MayRegister
  /\ registering' = TRUE
  /\ \E said \in Attests : attests' = said
  /\ UNCHANGED <<rowVars, invitation, listed, requests, runStatus, up, enrolled, job, wordVars,
                 reported, bounds>>

(* The rest of the transaction: the row, the token that replaces every active one, and the
   invitation marked as used.  Its answer may be lost, and the process then cannot start. *)
RegisterWorker(answered) ==
  /\ registering /\ registering' = FALSE
  /\ workerStatus' = "registered" /\ currentRun' = NoRun
  /\ sandboxReady' = (attests = "contained")
  /\ silence' = IF heard THEN silence ELSE "short"
  /\ invitation' = "used"
  /\ up' = answered /\ enrolled' = answered
  /\ answered \/ stops < MaxStops
  /\ stops' = IF answered THEN stops ELSE stops + 1
  /\ Wrote("registration") /\ reported' = 0
  /\ UNCHANGED <<heard, listed, requests, runStatus, job, attests, orders>>

(* The process starts again with the identity of its state file. *)
StartWorker ==
  /\ ~up /\ enrolled
  /\ up' = TRUE
  /\ \E said \in Attests : attests' = said
  /\ UNCHANGED <<rowVars, invitation, registering, listed, requests, runStatus, enrolled, job,
                 wordVars, reported, bounds>>

(* It stops, perhaps with its machine; nobody hears its requests' answers. *)
StopWorker(rebuilt) ==
  /\ up /\ up' = FALSE
  /\ stops < MaxStops /\ stops' = stops + 1
  /\ enrolled' = ~rebuilt /\ job' = NoRun
  /\ requests' = {IF q.kind = "heartbeat" THEN q ELSE [q EXCEPT !.answered = FALSE] : q \in requests}
  /\ UNCHANGED <<rowVars, invitation, registering, listed, runStatus, attests, wordVars,
                 reported, orders>>

-----------------------------------------------------------------------------
(* The worker's requests.                                                  *)

AnyToken == workerStatus # "absent"  \* mutant: the row of the token's worker is not looked at
(* requireWorkerAuth: resolvePresentedToken refuses a disabled worker's tokens. *)
Authenticated == workerStatus \notin {"absent", "disabled"}

Send(q) ==
  /\ up /\ Authenticated /\ UnderWay(q.kind) = {}
  /\ requests' = requests \cup {q}
  /\ late' = late \ {q.kind}
  /\ UNCHANGED <<rowVars, invitation, registering, listed, runStatus, agentVars, barred,
                 overruled, reported, bounds>>

Heartbeat == Send([kind |-> "heartbeat", run |-> job, says |-> attests])
LeaseAhead ==  \* mutant: a worker that has a run asks for the next one
  Send([kind |-> "lease", ready |-> sandboxReady, answered |-> TRUE])
Lease == job = NoRun /\ Send([kind |-> "lease", ready |-> sandboxReady, answered |-> TRUE])
Complete == job # NoRun /\ Send([kind |-> "complete", run |-> job, answered |-> TRUE])

(* A completion refused with a 401 is given up, and the run stays as it is. *)
CompleteRefused ==
  /\ up /\ job # NoRun /\ ~Authenticated
  /\ job' = NoRun
  /\ UNCHANGED <<rowVars, invitation, registering, listed, requests, runStatus, up, enrolled,
                 attests, wordVars, reported, bounds>>

NeverSaid(q) ==  \* mutant: only a sandbox that works is recorded
  /\ q.kind = "heartbeat" /\ q.says # "nothing"
  /\ sandboxReady' = (sandboxReady \/ q.says = "contained")
  /\ requests' = (requests \ {q}) \cup {[q EXCEPT !.says = "nothing"]}
  /\ UNCHANGED <<workerStatus, currentRun, heard, silence, invitation, registering, listed,
                 runStatus, agentVars, wordVars, reported, bounds>>

(* A transaction of its own before the heartbeat's. *)
RecordSandboxAttestation(q) ==
  /\ q.kind = "heartbeat" /\ q.says # "nothing"
  /\ sandboxReady' = (q.says = "contained")
  /\ requests' = (requests \ {q}) \cup {[q EXCEPT !.says = "nothing"]}
  /\ UNCHANGED <<workerStatus, currentRun, heard, silence, invitation, registering, listed,
                 runStatus, agentVars, wordVars, reported, bounds>>

OwnWord(q) == IF q.run = NoRun THEN currentRun ELSE q.run  \* mutant: an idle beat clears nothing
RunOf(q) == q.run

RecordHeartbeat(q) ==
  /\ q.kind = "heartbeat" /\ q.says = "nothing"
  /\ workerStatus' = IF q.run # NoRun THEN "busy" ELSE "idle"
  /\ currentRun' = RunOf(q)
  /\ heard' = TRUE /\ silence' = "short"
  /\ requests' = requests \ {q}
  /\ Wrote("heartbeat") /\ reported' = 0
  /\ UNCHANGED <<sandboxReady, invitation, registering, listed, runStatus, agentVars, bounds>>

(* leaseNextRun finds a run within the wait; the sandbox is the one of the row the lease
   was authenticated with. *)
LeaseNextRun(q, r) ==
  /\ q.kind = "lease" /\ runStatus[r] = "queued"
  /\ r \in Coding => q.ready
  /\ runStatus' = [runStatus EXCEPT ![r] = "running"]
  /\ workerStatus' = "busy" /\ currentRun' = r
  /\ requests' = requests \ {q}
  /\ job' = IF q.answered THEN r ELSE job
  /\ Wrote("lease") /\ reported' = 0
  /\ UNCHANGED <<sandboxReady, heard, silence, invitation, registering, listed, up, enrolled,
                 attests, bounds>>

LeaseNothing(q) ==
  /\ q.kind = "lease"
  /\ requests' = requests \ {q}
  /\ Ended("lease")
  /\ UNCHANGED <<rowVars, invitation, registering, listed, runStatus, agentVars, reported, bounds>>

(* completeRun; of a run that has ended already it changes nothing. *)
CompleteRun(q) ==
  /\ q.kind = "complete"
  /\ requests' = requests \ {q}
  /\ job' = IF q.answered THEN NoRun ELSE job
  /\ IF runStatus[q.run] = "running"
     THEN /\ runStatus' = [runStatus EXCEPT ![q.run] = "ended"]
          /\ workerStatus' = "idle" /\ currentRun' = NoRun
          /\ Wrote("complete") /\ reported' = 0
     ELSE Ended("complete") /\ UNCHANGED <<runStatus, workerStatus, currentRun, reported>>
  /\ UNCHANGED <<sandboxReady, heard, silence, invitation, registering, listed, up, enrolled,
                 attests, bounds>>

-----------------------------------------------------------------------------
(* The sweeper.                                                            *)

GracePasses ==
  /\ silence = "short" /\ workerStatus # "absent"
  /\ silence' = "long"
  /\ UNCHANGED <<workerStatus, currentRun, sandboxReady, heard, invitation, registering, listed,
                 requests, runStatus, agentVars, wordVars, reported, bounds>>

Ungrouped ==  \* mutant: the OR of the query is not in parentheses
  \/ workerStatus \notin {"absent", "offline", "disabled"} /\ ~heard /\ silence = "long"
  \/ workerStatus # "absent" /\ heard /\ silence = "long"
OnlyHeard ==  \* mutant: a worker that never sent a heartbeat is not looked at
  workerStatus \notin {"absent", "offline", "disabled"} /\ heard /\ silence = "long"
Stale == workerStatus \notin {"absent", "offline", "disabled"} /\ silence = "long"

ListStaleWorkers ==
  /\ Stale /\ ~listed
  /\ listed' = TRUE
  /\ late' = late \ {"sweep"}
  /\ UNCHANGED <<rowVars, invitation, registering, requests, runStatus, agentVars, barred,
                 overruled, reported, bounds>>

MarkOffline ==
  /\ listed /\ listed' = FALSE
  /\ workerStatus' = "offline"
  /\ reported' = reported + 1
  /\ Wrote("sweep")
  /\ UNCHANGED <<currentRun, sandboxReady, heard, silence, invitation, registering, requests,
                 runStatus, agentVars, bounds>>

-----------------------------------------------------------------------------

Register == CheckRegistration \/ \E answered \in BOOLEAN : RegisterWorker(answered)
Beat == \E q \in requests : RecordSandboxAttestation(q) \/ RecordHeartbeat(q)
Sweep == ListStaleWorkers \/ MarkOffline

Next ==
  \/ CreateEnrollmentToken \/ EnrollmentTokenExpires
  \/ \E enabled \in BOOLEAN : SetWorkerEnabled(enabled)
  \/ \E r \in Run : ForceCancel(r)
  \/ Register \/ StartWorker
  \/ \E rebuilt \in BOOLEAN : StopWorker(rebuilt)
  \/ Heartbeat \/ Lease \/ Complete \/ CompleteRefused
  \/ Beat
  \/ \E q \in requests :
       LeaseNothing(q) \/ CompleteRun(q) \/ \E r \in Run : LeaseNextRun(q, r)
  \/ GracePasses \/ Sweep

Spec == Init /\ [][Next]_vars

(* The heartbeat has a timer of its own, the server carries out what it accepts, and the
   sweeper runs on its interval. *)
FairSpec == Spec /\ WF_vars(Heartbeat) /\ WF_vars(Beat) /\ WF_vars(Sweep)

-----------------------------------------------------------------------------
(* Properties.                                                             *)

(* A worker the administrator disabled stays disabled until he enables it, unless something
   that was already under way when he disabled it writes the row afterwards: nothing that
   begins later lets it back in. *)
AdministratorHasLastWord == barred /\ workerStatus # "disabled" => overruled

(* However often the sweeper runs, and whatever it races with, one silence of a worker is
   reported once. *)
SilenceToldOnce == reported <= 1

(* Whatever late request or registration wrote it, the row of a worker that keeps beating
   comes to say what the worker says: that it is idle, and whether its sandbox works. *)
Unheard == ~up \/ workerStatus = "disabled"
RowCatchesUp ==
  /\ (up /\ job = NoRun) ~> (currentRun = NoRun \/ job # NoRun \/ Unheard)
  /\ (up /\ attests = "bare") ~> (~sandboxReady \/ Unheard)
  /\ (up /\ attests = "contained") ~> (sandboxReady \/ Unheard)

(* A worker that has gone silent, or that registered and never sent a heartbeat, is marked
   offline if it is not heard of again. *)
SilenceIsNoticed ==
  (silence = "long") ~> (silence = "short" \/ workerStatus \in {"offline", "disabled"})

(* Together: what no interleaving of late requests does to the row ... *)
RowObeys == AdministratorHasLastWord /\ SilenceToldOnce

(* ... and what the row comes to say. *)
RowComesTrue == RowCatchesUp /\ SilenceIsNoticed
=============================================================================
