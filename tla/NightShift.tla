----------------------------- MODULE NightShift -----------------------------
(***************************************************************************)
(* The night shift (services/night-shift.ts, domain/night-scheduler.ts,    *)
(* domain/eligibility.ts, domain/effort.ts, monday/boards.ts and sync.ts,  *)
(* overnight-report.ts): a scheduler that takes one task after the other   *)
(* until the cutoff, without asking anybody.                               *)
(*                                                                         *)
(* A tick reads the shift and the run it works on, then collects the       *)
(* candidates and records its decision, then carries the decision out:     *)
(* three separate transactions, between which people, workers and the      *)
(* other sweepers act.  The runs are those of RunLifecycle, reduced to     *)
(* what the scheduler reads of them; monday.com is external.               *)
(***************************************************************************)
EXTENDS Naturals, Sequences, FiniteSets, FiniteSetsExt

CONSTANTS
  Task,          \* tasks that could be worked on
  Project,       \* projects
  ProjectOf,     \* the project of each task
  OnBoard,       \* the tasks that have a monday.com item; the others are direct
  Coding,        \* the tasks that need a repository
  Repositories,  \* the projects that have an approved repository
  Permitted,     \* the tasks whose kind their project permits
  Band,          \* the confidence of each task's handoff brief, or "none"
  ScopeApproved, \* the tasks a person approved a narrower scope for
  Rank,          \* priority, due date and board order, folded into one number
  SizeLabel,     \* the size the board gives each task, or "none"
  Complexity,    \* what a task's brief adds up to (estimateEffort's score)
  Migrations,    \* the tasks whose brief mentions a migration or schema change
  SizeTime,      \* time for each size class, the safety factor included
  WrapUp,        \* settings.nightShiftWrapUpMinutes
  StopSpend,     \* the enforceable nightly limit: budget times budgetStopPct
  Readings,      \* the facts a tick may find (see Facts)
  Night,         \* bound: the length of a night
  MinStart,      \* settings.nightShiftMinStartMinutes, in the units of Night
  LargeMin,      \* settings.nightShiftLargeTaskMinMinutes
  Ticker,        \* who calls nightShiftTick: the sweeper, the manual route
  NoRun,         \* no run id
  MaxShifts,     \* bound: night shifts
  MaxRuns,       \* bound: runs started
  MaxFaults      \* bound: failed ticks, failed reports and restarts

SIZES == {"small", "medium", "large"}

(* What a tick reads that people, workers and other services change at will between two
   reads: every reading may find any of Readings. *)
Facts ==
  [approved   : SUBSET Project,   \* projects.night_shift_approved and active
   boardOpen  : BOOLEAN,          \* the board is approved and marked eligible
   startable  : SUBSET OnBoard,   \* flagged, unassigned, startable in the item cache
   open       : SUBSET Task,      \* direct tasks that are draft or ready
   humanRuns  : SUBSET Task,      \* tasks a run of a person is in flight for
   idleWorker : BOOLEAN,          \* a live worker with a sandbox, not busy
   spend      : Nat,              \* exact spend recorded tonight
   context    : BOOLEAN]          \* the company context is readable

ASSUME ConstantsAssumption ==
  /\ Readings \subseteq Facts
  /\ ProjectOf \in [Task -> Project]
  /\ Coding \cup OnBoard \cup Permitted \cup ScopeApproved \subseteq Task
  /\ Repositories \subseteq Project
  /\ Band \in [Task -> {"none", "below_floor", "scoped", "autonomous"}]
  /\ Rank \in [Task -> Nat]
  /\ SizeLabel \in [Task -> {"none"} \cup SIZES] /\ Complexity \in [Task -> Nat]
  /\ Migrations \subseteq Task /\ SizeTime \in [SIZES -> Nat]
  /\ WrapUp \in Nat /\ StopSpend \in Nat \ {0}
  /\ Night \in Nat /\ MinStart \in Nat /\ LargeMin \in Nat
  /\ MaxShifts \in Nat /\ MaxRuns \in Nat /\ MaxFaults \in Nat
  /\ NoRun \notin Nat

VARIABLES
  shifts,        \* night_shifts, in the order they were started
  remaining,     \* time left until the running shift's cutoff
  runs,          \* runs with a night_shift_id, in the order they were created
  decisions,     \* night_decisions that name a run or a task
  reported,      \* <<run, event>> of night_shift.task_switched and blocker_recorded
  writes,        \* <<run, kind>> of the monday_writes queued
  tick,          \* what each ticker is doing
  ended,         \* shifts ended by a call that has not queued the report yet
  reports,       \* shifts whose overnight email is queued
  faults         \* counter of the bound

shiftVars == <<shifts, reported, writes, decisions>>
reportVars == <<ended, reports>>
nightVars == <<shiftVars, remaining, runs, tick, reportVars, faults>>

-----------------------------------------------------------------------------

TERMINAL == {"completed", "completed_with_gaps", "failed", "cancelled",
             "stopped_by_guardrail"}
STOP_REASONS == {"stopped_by_user", "cutoff_reached", "budget_exhausted"}
Runs == DOMAIN runs
InFlight(r) == runs[r].status \notin TERMINAL

NightShiftRow ==
  [status : {"running", "completed", "stopped"}, stopReason : STOP_REASONS \cup {"null"},
   attempted : Nat, completed : Nat, blocked : Nat]
Run == [task : Task, shift : 1..MaxShifts, late : BOOLEAN,
        status : TERMINAL \cup {"queued", "running"}, blockers : BOOLEAN,
        summary : BOOLEAN]
Decision == [shift : 1..MaxShifts, action : {"finalise", "record_blocker", "start"},
             run : Nat \cup {NoRun}, task : Task \cup {"null"}]
Chosen == [action : {"finalise", "record_blocker", "start", "stop", "wait"},
           run : Nat \cup {NoRun}, task : Task \cup {"null"},
           reason : STOP_REASONS \cup {"null"}]
Wait == [action |-> "wait", run |-> NoRun, task |-> "null", reason |-> "null"]
IdleTick == [step |-> "idle", shift |-> 0, attempted |-> 0, does |-> Wait]

TypeOKNightShift ==
  /\ shifts \in Seq(NightShiftRow) /\ Len(shifts) <= MaxShifts
  /\ remaining \in 0..Night
  /\ runs \in Seq(Run)
  /\ decisions \subseteq Decision
  /\ reported \subseteq Runs \X {"task_switched", "blocker_recorded"}
  /\ writes \subseteq Runs \X {"in_progress", "ready_for_review", "blocked", "update"}
  /\ tick \in [Ticker -> [step : {"idle", "gathered", "decided"}, shift : 0..MaxShifts,
                          attempted : Nat, does : Chosen]]
  /\ ended \subseteq DOMAIN shifts /\ reports \subseteq DOMAIN shifts
  /\ faults \in 0..MaxFaults

InitNightShift ==
  /\ shifts = <<>> /\ remaining = 0 /\ runs = <<>> /\ decisions = {}
  /\ reported = {} /\ writes = {} /\ ended = {} /\ reports = {}
  /\ tick = [k \in Ticker |-> IdleTick]
  /\ faults = 0

-----------------------------------------------------------------------------
(* Pure policy.                                                            *)

AnyShift == DOMAIN shifts  \* mutant: the status of the row is not looked at
Active == {s \in DOMAIN shifts : shifts[s].status = "running"}

(* estimateEffort: the board's label, or what the brief adds up to. *)
SizeClass(t) ==
  IF SizeLabel[t] # "none" THEN SizeLabel[t]
  ELSE IF Band[t] = "none" THEN "large"
  ELSE IF Complexity[t] <= 4 THEN "small"
  ELSE IF Complexity[t] <= 10 THEN "medium" ELSE "large"

(* safeToStart: enough time, or a partial result that is useful and can be kept. *)
SafeToStart(t) ==
  /\ remaining > 0
  /\ remaining >= MinStart
  /\ SizeClass(t) = "large" => remaining >= LargeMin
  /\ \/ remaining >= SizeTime[SizeClass(t)] + WrapUp
     \/ SizeClass(t) # "large" /\ t \notin Migrations

(* classifyBudget: nothing but exact money stops the night, and no percentage is ever
   observed (loadUsageState). *)
OverBudget(f) == f.spend >= StopSpend

HasActiveRun(t, f) == t \in f.humanRuns \/ \E r \in Runs : runs[r].task = t /\ InFlight(r)
AttemptInFlight(t, s) ==  \* mutant: a finished attempt is forgotten
  \E r \in Runs : runs[r].task = t /\ runs[r].shift = s /\ InFlight(r)
AttemptedThisShift(t, s) == \E r \in Runs : runs[r].task = t /\ runs[r].shift = s
BlockedEarlierTonight(t, s) ==
  \E r \in Runs : runs[r].task = t /\ runs[r].shift = s /\ runs[r].blockers

(* The board's checks, of an item; a direct task has none of them. *)
BoardAllows(t, f) == t \in OnBoard => f.boardOpen /\ t \in f.startable

(* 60-79 %: only with a narrower scope a person approved. *)
PermitsAutonomy(t) ==
  \/ Band[t] = "autonomous"
  \/ Band[t] = "scoped" /\ t \in ScopeApproved

(* evaluateTaskRequirements, of what the other checks leave over: company context and an
   approved repository for the steps of coding work. *)
RequirementsMet(t, f) ==
  /\ f.context
  /\ t \in Coding => ProjectOf[t] \in Repositories

(* shiftCapabilities: a worker that can do this kind of work is live and idle. *)
WorkerIdle == \A r \in Runs : runs[r].status # "running"
CapabilityAvailable(f) == f.idleWorker /\ WorkerIdle

(* evaluateEligibility. *)
Eligible(t, s, f) ==
  /\ ProjectOf[t] \in f.approved
  /\ BoardAllows(t, f)
  /\ t \in Permitted
  /\ PermitsAutonomy(t)
  /\ CapabilityAvailable(f)
  /\ RequirementsMet(t, f)
  /\ ~HasActiveRun(t, f)
  /\ ~AttemptedThisShift(t, s)
  /\ ~BlockedEarlierTonight(t, s)

(* The two collectors. *)
DirectCandidates(f) == f.open \ OnBoard
MondayCandidates(f) == IF f.boardOpen THEN OnBoard ELSE {}
Candidates(f) == DirectCandidates(f) \cup MondayCandidates(f)

(* Every candidate carries its verdict from the facts of one reading. *)
EligibleCandidates(s, f) == {t \in Candidates(f) : Eligible(t, s, f)}

(* orderCandidates: the project Mac is in, then rank, then direct work; TLC's task order
   stands for the comparison of ids. *)
LastProject(s) ==
  LET mine == {r \in Runs : runs[r].shift = s} IN
  IF mine = {} THEN "null" ELSE ProjectOf[runs[Max(mine)].task]

Before(a, b, s) ==
  LET elsewhere(t) == IF LastProject(s) \in {"null", ProjectOf[t]} THEN 0 ELSE 1
      board(t) == IF t \in OnBoard THEN 1 ELSE 0
  IN \/ elsewhere(a) < elsewhere(b)
     \/ elsewhere(a) = elsewhere(b) /\ Rank[a] < Rank[b]
     \/ elsewhere(a) = elsewhere(b) /\ Rank[a] = Rank[b] /\ board(a) < board(b)

(* The first in order that is safe to start; a tie leaves either. *)
Selectable(s, f) ==
  LET safe == {t \in EligibleCandidates(s, f) : SafeToStart(t)} IN
  {t \in safe : \A u \in safe : ~Before(u, t, s)}

(* hasLiveIdleWorker. *)
WorkerAvailable(f) == f.idleWorker /\ WorkerIdle

-----------------------------------------------------------------------------
(* loadCurrentWork: the latest run of the shift, unless it is dealt with.  *)

Decided(r, action) ==
  \E d \in decisions : d.run = r /\ d.action = action

(* The query lists the statuses it wants, and completed_with_gaps is not among them. *)
Listed(s) == {r \in Runs : runs[r].shift = s /\ runs[r].status # "completed_with_gaps"}

Reconsider(s) ==  \* mutant: the decision record is not consulted
  LET r == Max(Listed(s)) IN
  IF Listed(s) = {} THEN Wait
  ELSE IF InFlight(r) THEN [Wait EXCEPT !.run = r]
  ELSE IF runs[r].status = "cancelled" /\ ~runs[r].summary THEN Wait
  ELSE [Wait EXCEPT !.action = IF runs[r].blockers THEN "record_blocker" ELSE "finalise",
                    !.run = r]

IgnoreBlockers(s) ==  \* mutant: a finished run is finished, blockers or not
  LET r == Max(Listed(s)) IN
  IF Listed(s) = {} THEN Wait
  ELSE IF InFlight(r) THEN [Wait EXCEPT !.run = r]
  ELSE IF Decided(r, "finalise") \/ (runs[r].status = "cancelled" /\ ~runs[r].summary) THEN Wait
  ELSE [Wait EXCEPT !.action = "finalise", !.run = r]

LoadCurrentWork(s) ==
  LET r == Max(Listed(s))
      action == IF runs[r].blockers THEN "record_blocker" ELSE "finalise"
  IN IF Listed(s) = {} THEN Wait
     ELSE IF InFlight(r) THEN [Wait EXCEPT !.run = r]
     ELSE IF runs[r].status = "cancelled" /\ ~runs[r].summary THEN Wait
     ELSE IF Decided(r, action) THEN Wait
     ELSE [Wait EXCEPT !.action = action, !.run = r]

-----------------------------------------------------------------------------
(* The shift.                                                              *)

StartNightShift ==
  /\ Active = {}
  /\ Len(shifts) < MaxShifts
  /\ shifts' = Append(shifts, [status |-> "running", stopReason |-> "null",
                               attempted |-> 0, completed |-> 0, blocked |-> 0])
  /\ remaining' = Night
  /\ UNCHANGED <<reported, writes, decisions, runs, tick, reportVars,
                 faults>>

EndUnreported(s, reason) ==  \* mutant: the report is left to the person who stops the shift
  /\ shifts' = [shifts EXCEPT ![s].status = "stopped", ![s].stopReason = reason]
  /\ ended' = IF reason = "stopped_by_user" THEN ended \cup {s} ELSE ended

(* The transaction of stopNightShift.  The report is queued after it commits. *)
EndShift(s, reason) ==
  /\ shifts' = [shifts EXCEPT ![s].status =
                                IF reason = "cutoff_reached" THEN "completed" ELSE "stopped",
                              ![s].stopReason = reason]
  /\ ended' = ended \cup {s}

StopNightShift ==
  \E s \in Active :
    /\ EndShift(s, "stopped_by_user")
    /\ UNCHANGED <<reported, writes, decisions, remaining, runs, tick,
                   reports, faults>>

(* deliverOvernightReport: one email per shift, whatever the number of calls. *)
DeliverOvernightReport(s) ==
  /\ s \in ended
  /\ ended' = ended \ {s}
  /\ reports' = reports \cup {s}
  /\ UNCHANGED <<shiftVars, remaining, runs, tick, faults>>

(* The caller swallows what the report builder throws. *)
ReportFails(s) ==
  /\ s \in ended /\ faults < MaxFaults
  /\ ended' = ended \ {s} /\ faults' = faults + 1
  /\ UNCHANGED <<shiftVars, remaining, runs, tick, reports>>

-----------------------------------------------------------------------------
(* The tick.                                                               *)

(* getActiveShift, syncAllApprovedBoards (which may fail and leave the cache as it was)
   and loadCurrentWork. *)
TickGathers(k) ==
  /\ tick[k].step = "idle"
  /\ \E s \in Active :
       tick' = [tick EXCEPT ![k] = [step |-> "gathered", shift |-> s,
                                    attempted |-> shifts[s].attempted,
                                    does |-> LoadCurrentWork(s)]]
  /\ UNCHANGED <<shiftVars, remaining, runs, reportVars, faults>>

StopFirst(now, s, f) ==  \* mutant: the cutoff is looked at before the current work
  IF remaining = 0 THEN {[Wait EXCEPT !.action = "stop", !.reason = "cutoff_reached"]}
  ELSE IF now.run # NoRun THEN {now}
  ELSE IF ~WorkerAvailable(f) THEN {Wait}
  ELSE {[Wait EXCEPT !.action = "start", !.task = t] : t \in Selectable(s, f)}

IdleFirst(now, s, f) ==  \* mutant: with nothing to start, the stop conditions are not reached
  IF now.run # NoRun THEN {now}
  ELSE IF Selectable(s, f) = {} THEN {Wait}
  ELSE IF remaining = 0 THEN {[Wait EXCEPT !.action = "stop", !.reason = "cutoff_reached"]}
  ELSE {[Wait EXCEPT !.action = "start", !.task = t] : t \in Selectable(s, f)}

(* decideNextAction: the current work first, then the stop conditions, then a start. *)
DecideNextAction(now, s, f) ==
  IF now.run # NoRun THEN {now}
  ELSE IF remaining = 0 THEN {[Wait EXCEPT !.action = "stop", !.reason = "cutoff_reached"]}
  ELSE IF OverBudget(f) THEN {[Wait EXCEPT !.action = "stop", !.reason = "budget_exhausted"]}
  ELSE IF Len(runs) = MaxRuns THEN {Wait}
  ELSE IF ~WorkerAvailable(f) \/ Selectable(s, f) = {} THEN {Wait}
  ELSE {[Wait EXCEPT !.action = "start", !.task = t] : t \in Selectable(s, f)}

(* recordDecision.  It looks the chosen task up by monday item, which is null for every
   direct candidate, so the row names the first direct candidate collected. *)
RecordedTask(t) == IF t \in OnBoard THEN {t} ELSE Task \ OnBoard

RecordDecision(s, d) ==
  IF d.action \in {"wait", "stop"} THEN decisions' = decisions
  ELSE \E named \in IF d.action = "start" THEN RecordedTask(d.task) ELSE {"null"} :
         decisions' = decisions \cup {[shift |-> s, action |-> d.action, run |-> d.run,
                                         task |-> named]}

(* collectCandidates, decideNextAction and recordDecision. *)
TickDecides(k) ==
  /\ tick[k].step = "gathered"
  /\ \E d \in UNION {DecideNextAction(tick[k].does, tick[k].shift, f) : f \in Readings} :
       /\ RecordDecision(tick[k].shift, d)
       /\ tick' = [tick EXCEPT ![k] = IF d.action = "wait" THEN IdleTick
                                      ELSE [@ EXCEPT !.step = "decided", !.does = d]]
  /\ UNCHANGED <<shifts, reported, writes, remaining, runs, reportVars,
                 faults>>

(* The other carry-outs end here: the ticker is free again. *)
Carry(k, action) ==
  /\ tick[k].step = "decided" /\ tick[k].does.action = action
  /\ tick' = [tick EXCEPT ![k] = IdleTick]

(* enqueueMondayWrite: nothing for a direct task.  (A board whose approval was withdrawn
   meanwhile gets nothing either: fewer writes, and never others.) *)
Queue(r, t, kinds) ==
  writes' = IF t \in OnBoard THEN writes \cup ({r} \X kinds) ELSE writes

RunForTask(t, s) ==
  [task |-> t, shift |-> s, status |-> "queued", late |-> shifts[s].status # "running",
   blockers |-> FALSE, summary |-> FALSE]

(* startSelectedTask: one transaction.  It does not look at the shift, the approvals or
   the task's other runs again, and adds to the counter the tick read at its start. *)
StartSelectedTask(k) ==
  /\ Carry(k, "start")
  /\ LET s == tick[k].shift  t == tick[k].does.task IN
     /\ runs' = Append(runs, RunForTask(t, s))
     /\ shifts' = [shifts EXCEPT ![s].attempted = tick[k].attempted + 1]
     /\ Queue(Len(runs) + 1, t, {"in_progress", "update"})
  /\ UNCHANGED <<reported, decisions, remaining, reportVars, faults>>

FinaliseRun(k) ==
  /\ Carry(k, "finalise")
  /\ LET r == tick[k].does.run
         done == runs[r].status = "completed"
         s == tick[k].shift
     IN /\ shifts' = [shifts EXCEPT ![s].completed = @ + (IF done THEN 1 ELSE 0)]
        /\ Queue(r, runs[r].task, IF done THEN {"ready_for_review", "update"} ELSE {"update"})
        /\ reported' = reported \cup {<<r, "task_switched">>}
  /\ UNCHANGED <<decisions, remaining, runs, reportVars, faults>>

RecordRunBlocked(k) ==
  /\ Carry(k, "record_blocker")
  /\ LET r == tick[k].does.run IN
     /\ shifts' = [shifts EXCEPT ![tick[k].shift].blocked = @ + 1]
     /\ Queue(r, runs[r].task, {"blocked", "update"})
     /\ reported' = reported \cup {<<r, "blocker_recorded">>}
  /\ UNCHANGED <<decisions, remaining, runs, reportVars, faults>>

(* stopNightShift looks the running shift up again: whichever it is by now. *)
TickStops(k) ==
  /\ Carry(k, "stop")
  /\ \/ \E s \in Active : EndShift(s, tick[k].does.reason)
     \/ Active = {} /\ UNCHANGED <<shifts, ended>>
  /\ UNCHANGED <<reported, writes, decisions, remaining, runs, reports,
                 faults>>

(* requireActiveRevision throws, or a transaction fails: the decision stays recorded. *)
TickFails(k) ==
  /\ tick[k].step = "decided"
  /\ faults < MaxFaults /\ faults' = faults + 1
  /\ tick' = [tick EXCEPT ![k] = IdleTick]
  /\ UNCHANGED <<shiftVars, remaining, runs, reportVars>>

(* The control plane restarts: ticks and reports under way are gone. *)
RestartNightShift ==
  /\ faults < MaxFaults /\ faults' = faults + 1
  /\ \E k \in Ticker : tick[k].step = "decided" \/ ended # {}
  /\ tick' = [k \in Ticker |-> IdleTick] /\ ended' = {}
  /\ UNCHANGED <<shiftVars, remaining, runs, reports>>

-----------------------------------------------------------------------------
(* The runs, as RunLifecycle moves them.                                   *)

RunsOnly == UNCHANGED <<shiftVars, remaining, tick, reportVars, faults>>

Lease(r) ==
  /\ runs[r].status = "queued" /\ WorkerIdle
  /\ runs' = [runs EXCEPT ![r].status = "running"]
  /\ RunsOnly

(* insertBlocker: a question Mac may not answer for anybody. *)
RaiseBlocker(r) ==
  /\ runs[r].status = "running"
  /\ ~runs[r].blockers
  /\ runs' = [runs EXCEPT ![r].blockers = TRUE]
  /\ RunsOnly

(* completeRun: the worker reports, with a summary.  A stop by a guardrail is to the
   scheduler what a failure is. *)
CompleteRun(r, how) ==
  /\ runs[r].status = "running"
  /\ runs' = [runs EXCEPT ![r].status = how, ![r].summary = TRUE]
  /\ RunsOnly

(* Stopped before dispatch, or force-cancelled: no summary. *)
EndWithoutWorker(r, how) ==
  /\ how = "stopped_by_guardrail" => runs[r].status = "queued" /\ remaining = 0
  /\ how = "cancelled" => InFlight(r)
  /\ runs[r].status \in {"queued", "running"}
  /\ runs' = [runs EXCEPT ![r].status = how]
  /\ RunsOnly

-----------------------------------------------------------------------------
TimeGoesNegative ==  \* mutant: the time left is not clamped at zero
  /\ Active # {} /\ remaining' = IF remaining = 0 THEN Night + 1 ELSE remaining - 1
  /\ UNCHANGED <<shiftVars, runs, tick, reportVars, faults>>
TimePasses ==
  /\ remaining > 0
  /\ remaining' = remaining - 1
  /\ UNCHANGED <<shiftVars, runs, tick, reportVars, faults>>

-----------------------------------------------------------------------------

TickStep(k) ==
  \/ TickGathers(k)
  \/ TickDecides(k)
  \/ StartSelectedTask(k)
  \/ FinaliseRun(k)
  \/ RecordRunBlocked(k)
  \/ TickStops(k)

RunStep(r) ==
  \/ Lease(r)
  \/ RaiseBlocker(r)
  \/ \E how \in TERMINAL \ {"stopped_by_guardrail"} : CompleteRun(r, how)
  \/ \E how \in {"cancelled", "stopped_by_guardrail"} : EndWithoutWorker(r, how)

NextNightShift ==
  \/ StartNightShift
  \/ StopNightShift
  \/ \E s \in DOMAIN shifts : DeliverOvernightReport(s) \/ ReportFails(s)
  \/ \E k \in Ticker : TickStep(k) \/ TickFails(k)
  \/ RestartNightShift
  \/ \E r \in Runs : RunStep(r)
  \/ TimePasses

SpecNightShift == InitNightShift /\ [][NextNightShift]_nightVars

(* The timer keeps firing, a tick under way goes on, and so does the call that ended a
   shift.  Nothing is assumed of workers and people. *)
TickFairness ==
  /\ \A k \in Ticker : WF_nightVars(TickStep(k))
  /\ \A s \in 1..MaxShifts : WF_nightVars(s \in DOMAIN shifts /\ DeliverOvernightReport(s))

FairSpecNightShift == SpecNightShift /\ TickFairness

-----------------------------------------------------------------------------
(* Properties.                                                             *)

OfShift(s) == {r \in Runs : runs[r].shift = s}
Told(r) == \E event \in {"task_switched", "blocker_recorded"} : <<r, event>> \in reported

(* No piece of work is done twice in a night, and the night works on one thing at a time,
   whatever the board still says and however long a tick takes. *)
EachTaskOnceAndInTurn ==
  \A s \in DOMAIN shifts : \A a, b \in OfShift(s) : a < b =>
    /\ runs[a].task # runs[b].task
    /\ ~InFlight(a)

(* The counters of the morning view add up: every attempt is a run, every completion and
   every blocker one report of its own, and no run counts as both. *)
NightAddsUp ==
  \A s \in DOMAIN shifts :
    LET completed == {r \in OfShift(s) : <<r, "task_switched">> \in reported
                                          /\ runs[r].status = "completed"}
        blocked == {r \in OfShift(s) : <<r, "blocker_recorded">> \in reported}
    IN /\ shifts[s].attempted = Cardinality(OfShift(s))
       /\ shifts[s].completed = Cardinality(completed)
       /\ shifts[s].blocked = Cardinality(blocked)
       /\ completed \cap blocked = {}

(* Ready for Review is set for finished work only: a run that completed around a blocker
   is shown to the board as blocked. *)
ReadyMeansFinished ==
  \A r \in Runs : <<r, "ready_for_review">> \in writes =>
    runs[r].status = "completed" /\ ~runs[r].blockers

(* When the scheduler itself ends a night, nothing it started is still in flight and all
   of it was told to the board, but for what the code is known to leave out: work that
   completed with gaps, a run cancelled without a summary, and a run whose decision was
   recorded by a tick that died before it carried the decision out. *)
NightEndsTidy ==
  \A s \in DOMAIN shifts :
    shifts[s].stopReason \in {"cutoff_reached", "budget_exhausted"} =>
      \A r \in OfShift(s) : ~runs[r].late =>
        /\ ~InFlight(r)
        /\ \/ Told(r)
           \/ runs[r].status = "completed_with_gaps"
           \/ runs[r].status = "cancelled" /\ ~runs[r].summary
           \/ faults > 0 /\ (Decided(r, "finalise") \/ Decided(r, "record_blocker"))

(* A person's stop is obeyed but for the one task a tick had already chosen. *)
StopIsObeyed ==
  \A s \in DOMAIN shifts : Cardinality({r \in OfShift(s) : runs[r].late}) <= 1

(* Together: the night as the morning view may show it. *)
NightIsAccounted ==
  EachTaskOnceAndInTurn /\ NightAddsUp /\ ReadyMeansFinished /\ NightEndsTidy /\ StopIsObeyed

(* The night ends: once the cutoff is reached, no shift stays active unless a run of it is
   in flight, and the scheduler leaves that alone for as long as it takes. *)
CutoffEndsShift ==
  (remaining = 0 /\ Active # {})
    ~> (Active = {} \/ \E r \in Runs : InFlight(r) /\ runs[r].shift \in Active)

Unreported ==
  {s \in DOMAIN shifts : shifts[s].stopReason \in {"cutoff_reached", "budget_exhausted"}} \ reports

(* Every night the scheduler ended is reported, unless the report or the process fails:
   nobody tries again. *)
EndedNightIsReported == Unreported # {} ~> (Unreported = {} \/ faults > 0)

(* Together: every night comes to its end, and to its report. *)
NightCloses == CutoffEndsShift /\ EndedNightIsReported
=============================================================================
