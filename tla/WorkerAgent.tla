----------------------------- MODULE WorkerAgent -----------------------------
(***************************************************************************)
(* One worker agent (apps/worker: worker.ts, client.ts, jobs) against the  *)
(* control plane's worker routes, over a network that loses requests and   *)
(* answers and delivers requests after their caller gave up.               *)
(*                                                                         *)
(* The agent has three calls in flight at a time, each on a timer or loop  *)
(* of its own: the main loop's (lease, progress, complete), the log flush, *)
(* and the heartbeat.  It learns of a cancellation only from the control   *)
(* envelope of an answer.  The run rows are those of RunLifecycle, reduced *)
(* to the statuses this conversation can tell apart.                       *)
(***************************************************************************)
EXTENDS Naturals, FiniteSets

CONSTANTS
  Run,        \* runs approved and queued for this worker
  NoRun,      \* no run: a null assignment, a null cancelRunId
  Silent,     \* runs whose job neither logs nor reports progress while it works
  Attempts,   \* how often the client sends a completion before it gives up
  MaxLost,    \* bound: calls that time out
  MaxCrashes  \* bound: restarts of the agent's process

ASSUME ConstantsAssumption ==
  /\ NoRun \notin Run
  /\ Silent \subseteq Run
  /\ Attempts \in Nat \ {0} /\ MaxLost \in Nat /\ MaxCrashes \in Nat

VARIABLES
  status,           \* runs.status
  cancelRequested,  \* runs.cancel_requested_at is not NULL
  requests,         \* calls sent and not served yet
  answers,          \* answers sent and not received yet
  phase,            \* what the agent's main loop is doing
  job,              \* the run executeAssignment is working on, or NoRun
  logged,           \* the log buffer holds lines
  aborted,          \* the job's AbortController has been aborted
  outcome,          \* the outcome to report, once the job has returned
  tries,            \* completions sent for this run
  taken,            \* how often each run was taken for execution
  abandoned,        \* runs the agent lost: lease answer, process or completion
  lost, crashes     \* counters of the bounds

serverVars == <<status, cancelRequested>>
networkVars == <<requests, answers, lost>>
jobVars == <<phase, job, logged, aborted, outcome, tries>>
historyVars == <<taken, abandoned>>
vars == <<serverVars, networkVars, jobVars, historyVars, crashes>>

-----------------------------------------------------------------------------

Kinds == {"lease", "progress", "logs", "heartbeat", "complete"}
Outcomes == {"succeeded", "failed", "cancelled"}
TERMINAL == {"completed", "failed", "cancelled"}
OUTCOME_TO_STATUS ==
  [succeeded |-> "completed", failed |-> "failed", cancelled |-> "cancelled"]

(* waiting: the caller still listens for the answer.  An answer that carries an error
   (409, or a refused progress update) has no control envelope: ok is FALSE. *)
Request == [kind : Kinds, run : Run \cup {NoRun}, outcome : Outcomes \cup {"none"},
            waiting : BOOLEAN]
Answer == [kind : Kinds, run : Run \cup {NoRun}, control : Run \cup {NoRun}, ok : BOOLEAN]

TypeOK ==
  /\ status \in [Run -> {"queued", "running"} \cup TERMINAL]
  /\ cancelRequested \in [Run -> BOOLEAN]
  /\ requests \subseteq Request
  /\ answers \subseteq Answer
  /\ phase \in {"polling", "working", "flushing", "reporting"}
  /\ job \in Run \cup {NoRun}
  /\ phase = "polling" <=> job = NoRun
  /\ logged \in BOOLEAN /\ aborted \in BOOLEAN
  /\ outcome \in Outcomes \cup {"none"}
  /\ tries \in 0..Attempts
  /\ abandoned \subseteq Run
  /\ taken \in [Run -> Nat]
  /\ lost \in 0..MaxLost /\ crashes \in 0..MaxCrashes

Init ==
  /\ status = [r \in Run |-> "queued"]
  /\ cancelRequested = [r \in Run |-> FALSE]
  /\ requests = {} /\ answers = {} /\ lost = 0 /\ crashes = 0
  /\ phase = "polling" /\ job = NoRun /\ logged = FALSE /\ aborted = FALSE
  /\ outcome = "none" /\ tries = 0
  /\ abandoned = {}
  /\ taken = [r \in Run |-> 0]

-----------------------------------------------------------------------------
(* The client.                                                             *)

Waiting(kind) == (\E q \in requests : q.kind = kind /\ q.waiting)
                 \/ (\E a \in answers : a.kind = kind)

Send(kind, r, out) ==
  /\ ~Waiting(kind)
  /\ requests' = requests \cup {[kind |-> kind, run |-> r, outcome |-> out, waiting |-> TRUE]}

SendLease ==
  /\ phase = "polling"
  /\ Send("lease", NoRun, "none")
  /\ UNCHANGED <<serverVars, answers, lost, jobVars, historyVars, crashes>>

SendProgress ==
  /\ phase = "working" /\ job \notin Silent
  /\ Send("progress", job, "none")
  /\ UNCHANGED <<serverVars, answers, lost, jobVars, historyVars, crashes>>

(* The flush timer, and the flush before the completion: nothing is sent when the buffer
   is empty. *)
SendLogs ==
  /\ phase \in {"working", "flushing"} /\ logged
  /\ Send("logs", job, "none")
  /\ UNCHANGED <<serverVars, answers, lost, jobVars, historyVars, crashes>>

SendHeartbeat ==
  /\ Send("heartbeat", NoRun, "none")
  /\ UNCHANGED <<serverVars, answers, lost, jobVars, historyVars, crashes>>

SendComplete ==
  /\ phase = "reporting" /\ tries < Attempts
  /\ Send("complete", job, outcome)
  /\ tries' = tries + 1
  /\ UNCHANGED <<serverVars, answers, lost, phase, job, logged, aborted, outcome,
                 historyVars, crashes>>

(* What a call nobody listens for any more can still do: only a lease and a completion
   change the run rows. *)
Ghosts(calls) == {[q EXCEPT !.waiting = FALSE] : q \in {c \in calls :
                                                       c.kind \in {"lease", "complete"}}}

(* A lease answer nobody receives is a run nobody takes. *)
LeasedBy(unheard) == {a.run : a \in {u \in unheard : u.kind = "lease"}} \ {NoRun}

(* The client stops listening: the request was lost, or is still to be served, or its
   answer was lost.  After the last attempt of the flush that precedes it, the completion is
   sent all the same. *)
TimeOut(kind) ==
  /\ lost < MaxLost /\ lost' = lost + 1
  /\ \/ \E q \in requests :
          /\ q.kind = kind /\ q.waiting
          /\ requests' \in {requests \ {q}, (requests \ {q}) \cup Ghosts({q})}
          /\ UNCHANGED <<answers, abandoned>>
     \/ \E a \in answers :
          /\ a.kind = kind
          /\ answers' = answers \ {a}
          /\ abandoned' = abandoned \cup LeasedBy({a})
          /\ UNCHANGED requests
  /\ phase' \in IF kind = "logs" /\ phase = "flushing" THEN {"flushing", "reporting"}
                ELSE {phase}
  /\ UNCHANGED <<serverVars, job, logged, aborted, outcome, tries, taken, crashes>>

-----------------------------------------------------------------------------
(* The control plane's routes.                                             *)

(* buildControlEnvelope: some run of this worker with a stop requested; the query has a
   limit of one and no order. *)
StopsPending == {r \in Run : cancelRequested[r] /\ status[r] = "running"}
EnvelopeOf(pending, control) == control \in (IF pending = {} THEN {NoRun} ELSE pending)

(* The answer to q, with ok and the run it names; a caller that hung up gets none. *)
Reply(q, r, ok, pending) ==
  /\ requests' = requests \ {q}
  /\ IF q.waiting
     THEN \E control \in Run \cup {NoRun} :
            /\ IF ok THEN EnvelopeOf(pending, control) ELSE control = NoRun
            /\ answers' = answers \cup {[kind |-> q.kind, run |-> r, control |-> control,
                                         ok |-> ok]}
     ELSE answers' = answers

LeaseAnyRun(r) == status[r] \in {"queued", "running"} /\ ~cancelRequested[r]  \* mutant: no status predicate
Leasable(r) == status[r] = "queued" /\ ~cancelRequested[r]

(* leaseNextRun inside the long poll.  The poll looks at the socket only after a round
   without a run, so a caller that hung up can still be given one. *)
ServeLease(q) ==
  /\ q.kind = "lease"
  /\ \/ \E r \in Run :
          /\ Leasable(r)
          /\ status' = [status EXCEPT ![r] = "running"]
          /\ Reply(q, r, TRUE, StopsPending)
          /\ abandoned' = IF q.waiting THEN abandoned ELSE abandoned \cup {r}
     \/ /\ Reply(q, NoRun, TRUE, StopsPending)
        /\ UNCHANGED <<status, abandoned>>
  /\ UNCHANGED <<cancelRequested, lost, jobVars, taken, crashes>>

(* recordProgress refuses a run that is not running; a log batch and a heartbeat are
   always accepted. *)
ServeReport(q) ==
  /\ q.kind \in {"progress", "logs", "heartbeat"}
  /\ Reply(q, q.run, q.kind = "progress" => status[q.run] = "running", StopsPending)
  /\ UNCHANGED <<serverVars, lost, jobVars, historyVars, crashes>>

(* completeRun: a finished run is answered with its status. *)
ServeComplete(q) ==
  /\ q.kind = "complete"
  /\ status' = IF status[q.run] \in TERMINAL THEN status
               ELSE [status EXCEPT ![q.run] = OUTCOME_TO_STATUS[q.outcome]]
  /\ Reply(q, q.run, TRUE, StopsPending \ {q.run})
  /\ UNCHANGED <<cancelRequested, lost, jobVars, historyVars, crashes>>

RequestCancel(r) ==
  /\ \/ status[r] = "queued" /\ status' = [status EXCEPT ![r] = "cancelled"]
     \/ status[r] = "running" /\ UNCHANGED status
  /\ ~cancelRequested[r]
  /\ cancelRequested' = [cancelRequested EXCEPT ![r] = TRUE]
  /\ UNCHANGED <<networkVars, jobVars, historyVars, crashes>>

ForceCancel(r) ==
  /\ status[r] \notin TERMINAL
  /\ status' = [status EXCEPT ![r] = "cancelled"]
  /\ cancelRequested' = [cancelRequested EXCEPT ![r] = TRUE]
  /\ UNCHANGED <<networkVars, jobVars, historyVars, crashes>>

-----------------------------------------------------------------------------
(* The agent.                                                              *)

AnyStopIsMine(a) == a.control # NoRun  \* mutant: cancelRunId is not compared
NothingNoticed(a) == FALSE  \* mutant: the flush does not look at the envelope
StopIsMine(a) == a.control # NoRun /\ a.control = job

(* noticeCancellation, which only the log flush and the progress update call. *)
NoticesStop(a) == a.kind \in {"logs", "progress"} /\ phase \in {"working", "flushing"} /\ StopIsMine(a)

Take(a) == answers' = answers \ {a}

(* The loop takes what it leased; executeAssignment logs its first lines. *)
ReceiveLease(a) ==
  /\ a.kind = "lease"
  /\ Take(a)
  /\ IF a.run = NoRun
     THEN UNCHANGED <<jobVars, taken>>
     ELSE /\ phase' = "working" /\ job' = a.run /\ logged' = TRUE
          /\ aborted' = FALSE /\ outcome' = "none" /\ tries' = 0
          /\ taken' = [taken EXCEPT ![a.run] = @ + 1]
  /\ UNCHANGED <<serverVars, requests, lost, abandoned, crashes>>

FlushOnce(a) ==  \* mutant: the flush is not told that its lines have arrived
  /\ a.kind \in {"progress", "logs", "heartbeat"}
  /\ Take(a)
  /\ aborted' = (aborted \/ NoticesStop(a))
  /\ logged' = IF a.kind = "logs" THEN FALSE ELSE logged
  /\ UNCHANGED <<serverVars, requests, lost, phase, job, outcome, tries, taken,
                 abandoned, crashes>>

ReceiveReport(a) ==
  /\ a.kind \in {"progress", "logs", "heartbeat"}
  /\ Take(a)
  /\ aborted' = (aborted \/ NoticesStop(a))
  /\ logged' = IF a.kind = "logs" THEN FALSE ELSE logged
  /\ phase' = IF a.kind = "logs" /\ phase = "flushing" THEN "reporting" ELSE phase
  /\ UNCHANGED <<serverVars, requests, lost, job, outcome, tries, taken,
                 abandoned, crashes>>

Log ==
  /\ phase = "working" /\ job \notin Silent /\ ~logged
  /\ logged' = TRUE
  /\ UNCHANGED <<serverVars, networkVars, phase, job, aborted, outcome, tries, historyVars,
                 crashes>>

(* executeAssignment returns to the loop. *)
ForgetToClear == phase' = "polling" /\ UNCHANGED <<job, logged, aborted, outcome, tries>>  \* mutant: currentRunId is kept
LeaveJob ==
  /\ phase' = "polling" /\ job' = NoRun
  /\ logged' = FALSE /\ aborted' = FALSE /\ outcome' = "none" /\ tries' = 0

(* What the job makes of an abort.  A handler throws JobCancelledError where it checks its
   signal; past its last check it returns, and runCodingJob, which preserves the worktree
   of a cancelled session, returns after any abort: executeAssignment reads a return as
   success. *)
Outcome(result) ==
  IF aborted THEN result \in {"succeeded", "cancelled"} ELSE result \in {"succeeded", "failed"}

FinishSilently ==  \* mutant: an aborted job is left without a completion
  /\ phase = "working" /\ ~Waiting("progress")
  /\ IF aborted THEN LeaveJob
     ELSE /\ Outcome(outcome') /\ phase' = "flushing" /\ logged' = TRUE
          /\ UNCHANGED <<job, aborted, tries>>
  /\ UNCHANGED <<serverVars, networkVars, historyVars, crashes>>

FinishJob ==
  /\ phase = "working" /\ ~Waiting("progress")
  /\ Outcome(outcome')
  /\ phase' = "flushing"
  /\ logged' = TRUE
  /\ UNCHANGED <<serverVars, networkVars, job, aborted, tries, taken, abandoned, crashes>>

ReceiveComplete(a) ==
  /\ a.kind = "complete"
  /\ Take(a)
  /\ LeaveJob
  /\ UNCHANGED <<serverVars, requests, lost, taken, abandoned, crashes>>

TriesExhausted == tries = Attempts
GiveUp ==
  /\ phase = "reporting" /\ TriesExhausted /\ ~Waiting("complete")
  /\ LeaveJob
  /\ abandoned' = abandoned \cup {job}
  /\ UNCHANGED <<serverVars, networkVars, taken, crashes>>

(* The process dies, or is stopped while it polls, and is started again: the job, its
   buffer and everything it was waiting for are gone. *)
Crash ==
  /\ crashes < MaxCrashes /\ crashes' = crashes + 1
  /\ LeaveJob
  /\ requests' = {q \in requests : ~q.waiting} \cup Ghosts(requests)
  /\ answers' = {}
  /\ abandoned' = abandoned \cup ({job} \ {NoRun}) \cup LeasedBy(answers)
  /\ UNCHANGED <<serverVars, lost, taken>>

-----------------------------------------------------------------------------

Serve == \E q \in requests : ServeLease(q) \/ ServeReport(q) \/ ServeComplete(q)
Receive == \E a \in answers : ReceiveLease(a) \/ ReceiveReport(a) \/ ReceiveComplete(a)
Calls == SendLease \/ SendProgress \/ SendLogs \/ SendHeartbeat \/ SendComplete
Execute == Log \/ FinishJob \/ GiveUp
Operator == \E r \in Run : RequestCancel(r) \/ ForceCancel(r)

Next == Serve \/ Receive \/ Calls \/ Execute \/ Operator \/ Crash
        \/ \E kind \in Kinds : TimeOut(kind)

Spec == Init /\ [][Next]_vars

(* The server answers what reaches it, the agent's timers and loops keep going, and a job
   that talks logs again.  How long a job works, what an operator does and when the worker
   polls for another run are left open. *)
AgentFairness ==
  /\ \A kind \in Kinds :
       /\ WF_vars(\E q \in requests : q.kind = kind /\ (ServeLease(q) \/ ServeReport(q)
                                                                    \/ ServeComplete(q)))
       /\ WF_vars(\E a \in answers : a.kind = kind /\ (ReceiveLease(a) \/ ReceiveReport(a)
                                                                    \/ ReceiveComplete(a)))
  /\ WF_vars(SendLogs) /\ WF_vars(SendHeartbeat) /\ WF_vars(SendComplete)
  /\ WF_vars(Log) /\ WF_vars(GiveUp)

FairSpec == Spec /\ AgentFairness

-----------------------------------------------------------------------------
(* Properties.                                                             *)

(* However often polls are abandoned, answers lost and completions repeated, a run is
   executed at most once, and only executed work is on record as completed or failed. *)
WorkIsDoneOnce ==
  \A r \in Run : /\ taken[r] <= 1
                 /\ status[r] \in {"completed", "failed"} => taken[r] = 1

(* A job is aborted only for a stop of its own run: not for one meant for a run the agent
   lost earlier, nor because of an envelope that was built before the job began. *)
AbortsAreWarranted == aborted => cancelRequested[job]

(* A run that is running and that the agent is neither working on nor about to receive is
   one the agent lost in one of three ways: its lease answer, its process, or every
   attempt to report it. *)
OrphansAreAccounted ==
  \A r \in Run : status[r] = "running" =>
    \/ job = r
    \/ \E a \in answers : a.kind = "lease" /\ a.run = r
    \/ r \in abandoned

(* Together: what the agent did to a run is what the run's row says, or is accounted for. *)
AgentIsAccountable == WorkIsDoneOnce /\ AbortsAreWarranted /\ OrphansAreAccounted

(* The rows as RunContract sees them.  A run is the agent's from the moment a lease hands it
   out: it was taken, or its lease answer is under way, or it was lost. *)
Given(r) ==
  taken[r] > 0 \/ r \in abandoned \/ \E a \in answers : a.kind = "lease" /\ a.run = r

Contract == INSTANCE RunContract WITH
  Worker <- {"agent"}, NoWorker <- "nobody",
  phase <- [r \in Run |-> IF status[r] = "queued" THEN "authorised"
                          ELSE IF status[r] = "running" THEN "executing" ELSE "ended"],
  executor <- [r \in Run |-> IF Given(r) THEN "agent" ELSE "nobody"],
  result <- [r \in Run |-> IF status[r] \in TERMINAL THEN status[r] ELSE "none"]

(* Lost calls, ghosts and restarts included, every step of the conversation is one the
   contract allows its runs, or none of its business: the contract RunLifecycle implements. *)
KeepsRunContract == [][Contract!Next]_(Contract!contractVars)

(* A finished job is on record as finished, as is every one before it, as long as fewer
   calls are lost than the client makes attempts at one and the process is never killed. *)
ReportsLand ==
  phase = "flushing"
    ~> \/ phase # "flushing" /\ \A r \in Run : taken[r] = 1 => job = r \/ status[r] \in TERMINAL
       \/ lost >= Attempts \/ crashes > 0

(* A stop reaches the job while it works, unless the stop of a run the worker has lost
   takes its place in the one control envelope. *)
Heeds(r) ==
  (status[r] = "running" /\ cancelRequested[r] /\ job = r /\ phase = "working")
    ~> (StopsPending # {r} \/ aborted \/ job # r \/ phase # "working")

(* A job that writes to its log, or reports progress, is aborted once its run is asked to
   stop. *)
TalkingJobsHeedStops == \A r \in Run \ Silent : Heeds(r)

(* Together: what the job has to say reaches the server, and what the server has to say the
   job. *)
AgentResponds == ReportsLand /\ TalkingJobsHeedStops
=============================================================================
