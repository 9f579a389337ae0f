--------------------------- MODULE Unattended_proofs ---------------------------
(***************************************************************************)
(* Proofs about what Mac does with nobody watching: that work is bound only *)
(* to company context that validated (CompanyContext), that a night of it  *)
(* is accounted for (NightShift), and that a general run says truly what it *)
(* delivered, on what ground and at what cost (Research).                  *)
(***************************************************************************)
EXTENDS CompanyContext, NightShift, Research, SequenceTheorems, FiniteSetTheorems,
        WellFoundedInduction, NaturalsInduction, TLAPS

(* First: that work is bound only to commits that were found sound.        *)

-----------------------------------------------------------------------------
(* The inductive invariant, in named parts.                                *)

(* A row says "valid" of nothing that did not validate. *)
RowsAreHonest == \A c \in Commit : validation[c] = "valid" => c \in Sound

(* What a caller carries from one transaction to the next, past a row that another caller
   may rewrite in between: what it loaded, what it found unchanged, and what it remembers as
   valid. *)
Honest(c) ==
  /\ c.at = "loading" => c.head # NoCommit
  /\ c.at = "loaded" => c.head \in Sound
  /\ c.at = "unchanged" => c.previous \in Sound
  /\ c.wasValid => c.previous \in Sound

CallersAreHonest == \A k \in Caller : Honest(call[k])

Inv ==
  /\ TypeOK
  /\ RowsAreHonest
  /\ CallersAreHonest
  /\ WorkIsGrounded

-----------------------------------------------------------------------------
(* What the actions have in common.                                        *)

Calls == [Caller -> [at : Steps, purpose : {"startup", "refresh", "work"},
                     previous : Revision, head : Revision, wasValid : BOOLEAN]]

(* One caller has moved, to where it still knows what it claims. *)
Moved(k) ==
  /\ call' \in Calls
  /\ \A l \in Caller \ {k} : call'[l] = call[l]
  /\ Honest(call'[k])

LEMMA MovedIsHonest ==
  ASSUME Inv, NEW k \in Caller, Moved(k)
  PROVE  CallersAreHonest'
BY DEF Inv, Moved, CallersAreHonest

LEMMA CallsAreTyped ==
  ASSUME call' \in Calls, CallersAreHonest'
  PROVE  /\ call' \in [Caller -> [at : Steps, purpose : {"startup", "refresh", "work"},
                                 previous : Revision, head : Revision, wasValid : BOOLEAN]]
         /\ \A k \in Caller : call'[k].at \in {"loading", "loaded"} => call'[k].head # NoCommit
BY ContextAssumption DEF Calls, CallersAreHonest, Honest, NoCommit

(* A commit a row calls valid is one that validated. *)
LEMMA ValidIsSound ==
  ASSUME Inv, NEW c \in Revision, Valid(c)
  PROVE  c \in Sound /\ c \in Commit
BY DEF Inv, Valid, Revision, RowsAreHonest

(* The process starts with every caller idle but the one that refreshes. *)
LEMMA BootingIsHonest ==
  ASSUME NEW calls \in Booting
  PROVE  /\ calls \in Calls
         /\ \A k \in Caller : calls[k].at \in {"idle", "starting"} /\ Honest(calls[k])
<1> USE DEF Calls, Idle, Steps, Revision, Honest
<1>1. PICK o \in Operator :
        calls = [l \in Caller |-> IF l = o THEN [Idle EXCEPT !.at = "starting", !.purpose = "startup"]
                                  ELSE Idle]
  BY DEF Booting
<1> QED BY <1>1

(* Whoever is answered is answered with a commit that validated, if with any. *)
LEMMA AnswerIsGrounded ==
  ASSUME Inv, NEW k \in Caller, NEW c, NEW valid \in BOOLEAN, Answer(k, c, valid),
         valid => c \in Sound /\ c \in Commit
  PROVE  bound' \subseteq Commit /\ bound' \subseteq Sound /\ Moved(k)
<1>1. bound' \subseteq Commit /\ bound' \subseteq Sound
  BY DEF Inv, TypeOK, WorkIsGrounded, Answer
<1>2. Moved(k)
  BY DEF Inv, TypeOK, Answer, Finishes, Moved, Honest, Calls, Idle, Steps, Revision
<1> QED BY <1>1, <1>2

(* A caller moves on, with what it had ... *)
LEMMA GoesIs ==
  ASSUME TypeOK, NEW k \in Caller, NEW step \in Steps, Goes(k, step)
  PROVE  /\ call' \in Calls
         /\ call'[k] = [call[k] EXCEPT !.at = step]
         /\ call'[k].at = step /\ call'[k].previous = call[k].previous
         /\ call'[k].head = call[k].head /\ call'[k].wasValid = call[k].wasValid
         /\ \A l \in Caller \ {k} : call'[l] = call[l]
BY DEF TypeOK, Goes, Calls

(* ... or with what it has just read. *)
LEMMA GoesWithIs ==
  ASSUME TypeOK, NEW k \in Caller, NEW step \in Steps, NEW previous \in Revision,
         NEW head \in Revision, NEW wasValid \in BOOLEAN,
         GoesWith(k, step, previous, head, wasValid)
  PROVE  /\ call' \in Calls
         /\ call'[k].at = step /\ call'[k].previous = previous
         /\ call'[k].head = head /\ call'[k].wasValid = wasValid
         /\ \A l \in Caller \ {k} : call'[l] = call[l]
<1>1. call[k].purpose \in {"startup", "refresh", "work"}
  BY DEF TypeOK
<1> DEFINE new == [Idle EXCEPT !.at = step, !.purpose = call[k].purpose, !.previous = previous,
                               !.head = head, !.wasValid = wasValid]
<1>2. /\ new \in [at : Steps, purpose : {"startup", "refresh", "work"},
                   previous : Revision, head : Revision, wasValid : BOOLEAN]
      /\ new.at = step /\ new.previous = previous /\ new.head = head /\ new.wasValid = wasValid
  BY <1>1 DEF Idle
<1>3. call' = [call EXCEPT ![k] = new]
  BY DEF GoesWith
<1> HIDE DEF new
<1> QED BY <1>2, <1>3 DEF TypeOK, Calls

-----------------------------------------------------------------------------
(* The invariant holds at first, and every step keeps it.                  *)

LEMMA InitInv == Init => Inv
<1> SUFFICES ASSUME Init PROVE Inv
  OBVIOUS
<1> USE ContextAssumption DEF Init
<1>1. call \in Booting
  OBVIOUS
<1>2. TypeOK
  <2>1. remote \in Revision /\ mirror \in Revision /\ active \in Revision
    BY DEF Revision, Commit, NoCommit
  <2>2. validation \in [Commit -> {"none", "valid", "invalid"}]
    OBVIOUS
  <2>3. /\ call \in Calls
        /\ \A k \in Caller : call[k].at \in {"loading", "loaded"} => call[k].head # NoCommit
    BY <1>1, BootingIsHonest
  <2> QED BY <2>1, <2>2, <2>3 DEF TypeOK, STATUSES, Calls
<1>3. RowsAreHonest /\ WorkIsGrounded
  BY DEF RowsAreHonest, WorkIsGrounded
<1>4. CallersAreHonest
  BY <1>1, BootingIsHonest DEF CallersAreHonest
<1> QED BY <1>2, <1>3, <1>4 DEF Inv

LEMMA Stutter == Inv /\ UNCHANGED vars => Inv'
BY DEF Inv, TypeOK, RowsAreHonest, CallersAreHonest, Honest, WorkIsGrounded, Valid, vars, worldVars,
       rowVars, processVars

-----------------------------------------------------------------------------
(* The callers.                                                            *)

(* A caller begins to want a revision, or to refresh. *)
LEMMA StartWorkInv ==
  ASSUME Inv, NEW k \in Caller, StartWork(k) \/ RefreshByHand(k)
  PROVE  Inv'
<1> USE DEF Inv, StartWork, RefreshByHand, Goes, worldVars, rowVars, processVars
<1>5. Moved(k)
  BY DEF TypeOK, CallersAreHonest, Honest, Moved, Calls, Steps
<1>6. CallersAreHonest'
  BY <1>5, MovedIsHonest
<1>7. TypeOK'
  BY <1>5, <1>6, CallsAreTyped DEF Moved, TypeOK, STATUSES, Revision
<1>8. RowsAreHonest' /\ WorkIsGrounded'
  BY <1>5 DEF TypeOK, RowsAreHonest, WorkIsGrounded
<1> QED BY <1>6, <1>7, <1>8

(* Within the quiet window the active revision is reused, and it is valid. *)
LEMMA EnsureInv ==
  ASSUME Inv, NEW k \in Caller, Ensure(k)
  PROVE  Inv'
<1> USE DEF Inv, Ensure, worldVars, rowVars, processVars
<1>1. MayReuse => active \in Sound /\ active \in Commit
  BY ValidIsSound DEF MayReuse, TypeOK
<1>5. Moved(k) /\ bound' \subseteq Commit /\ bound' \subseteq Sound
  <2>1. CASE ~enabled
    BY <2>1, AnswerIsGrounded
  <2>2. CASE enabled /\ MayReuse
    BY <1>1, <2>2, AnswerIsGrounded
  <2>3. CASE enabled /\ ~MayReuse
    BY <2>3, GoesIs DEF TypeOK, Steps, WorkIsGrounded, CallersAreHonest, Honest, Moved
  <2> QED BY <2>1, <2>2, <2>3
<1>6. CallersAreHonest'
  BY <1>5, MovedIsHonest
<1>7. TypeOK'
  BY <1>5, <1>6, CallsAreTyped DEF Moved, TypeOK, STATUSES, Revision
<1>8. RowsAreHonest' /\ WorkIsGrounded'
  BY <1>5 DEF TypeOK, RowsAreHonest, WorkIsGrounded
<1> QED BY <1>6, <1>7, <1>8

(* A refresh remembers which revision was active, and claims nothing of it. *)
LEMMA StartRefreshInv ==
  ASSUME Inv, NEW k \in Caller, StartRefresh(k)
  PROVE  Inv'
<1> USE DEF Inv, StartRefresh, worldVars, rowVars, processVars
<1>5. Moved(k) /\ bound' \subseteq Commit /\ bound' \subseteq Sound
  <2>1. CASE enabled
    BY <2>1, GoesWithIs DEF TypeOK, Steps, Revision, WorkIsGrounded, Honest, Moved
  <2>2. CASE ~enabled
    BY <2>2, AnswerIsGrounded
  <2> QED BY <2>1, <2>2
<1>6. CallersAreHonest'
  BY <1>5, MovedIsHonest
<1>7. TypeOK'
  BY <1>5, <1>6, CallsAreTyped DEF Moved, TypeOK, STATUSES, Revision
<1>8. RowsAreHonest' /\ WorkIsGrounded'
  BY <1>5 DEF TypeOK, RowsAreHonest, WorkIsGrounded
<1> QED BY <1>6, <1>7, <1>8

(* The mirror follows the remote; what it holds is not yet trusted. *)
LEMMA FetchInv ==
  ASSUME Inv, NEW k \in Caller, Fetch(k)
  PROVE  Inv'
<1> USE DEF Inv, Fetch, worldVars, rowVars, processVars
<1>5. Moved(k)
  <2>1. call[k].previous \in Revision /\ Honest(call[k])
    BY DEF TypeOK, CallersAreHonest
  <2>2. CASE reachable /\ remote # NoCommit
    BY <2>1, <2>2, GoesWithIs DEF Steps, Revision, Honest, Moved
  <2>3. CASE ~(reachable /\ remote # NoCommit)
    BY <2>1, <2>3, GoesIs DEF Steps, Honest, Moved
  <2> QED BY <2>2, <2>3
<1>6. CallersAreHonest'
  BY <1>5, MovedIsHonest
<1>7. TypeOK'
  BY <1>5, <1>6, CallsAreTyped DEF Moved, TypeOK, STATUSES, Revision
<1>8. RowsAreHonest' /\ WorkIsGrounded'
  BY <1>5 DEF TypeOK, RowsAreHonest, WorkIsGrounded
<1> QED BY <1>6, <1>7, <1>8

(* An unchanged head is a valid row, and so is what the caller remembers as valid. *)
LEMMA ReadHeadInv ==
  ASSUME Inv, NEW k \in Caller, ReadHead(k)
  PROVE  Inv'
<1> USE DEF Inv, ReadHead, RefThere, worldVars, rowVars, processVars
<1>1. /\ call[k].previous \in Revision /\ mirror \in Revision /\ Honest(call[k])
      /\ Valid(call[k].previous) \in BOOLEAN
  BY DEF TypeOK, CallersAreHonest, Valid
<1>2. Valid(call[k].previous) => call[k].previous \in Sound
  BY <1>1, ValidIsSound
<1>5. Moved(k)
  <2>1. CASE Goes(k, "failed")
    BY <1>1, <2>1, GoesIs DEF Steps, Honest, Moved
  <2>2. CASE Valid(call[k].previous) /\ GoesWith(k, "unchanged", call[k].previous, NoCommit, FALSE)
    BY <1>1, <1>2, <2>2, GoesWithIs DEF Steps, Revision, Honest, Moved
  <2>3. CASE mirror # NoCommit
             /\ GoesWith(k, "loading", call[k].previous, mirror, Valid(call[k].previous))
    BY <1>1, <1>2, <2>3, GoesWithIs DEF Steps, Honest, Moved
  <2> QED BY <2>1, <2>2, <2>3
<1>6. CallersAreHonest'
  BY <1>5, MovedIsHonest
<1>7. TypeOK'
  BY <1>5, <1>6, CallsAreTyped DEF Moved, TypeOK, STATUSES, Revision
<1>8. RowsAreHonest' /\ WorkIsGrounded'
  BY <1>5 DEF TypeOK, RowsAreHonest, WorkIsGrounded
<1> QED BY <1>6, <1>7, <1>8

(* Only a commit that validates gets a row that says so, whoever else is loading it. *)
LEMMA LoadInv ==
  ASSUME Inv, NEW k \in Caller, Load(k)
  PROVE  Inv'
<1> USE DEF Inv, Load, Validates, HasContent, worldVars, rowVars, processVars
<1>1. call[k].head \in Commit /\ Honest(call[k])
  BY DEF TypeOK, Revision, CallersAreHonest
<1>2. call[k].previous \in Revision /\ call[k].wasValid \in BOOLEAN
  BY DEF TypeOK
<1>5. Moved(k)
  <2>1. CASE call[k].head \in Sound /\ GoesWith(k, "loaded", NoCommit, call[k].head, FALSE)
    BY ZenonT(60), <1>1, <2>1, GoesWithIs DEF Steps, Revision, Honest, Moved
  <2>2. CASE GoesWith(k, "rejected", call[k].previous, NoCommit, call[k].wasValid)
    <3>1. PICK valid \in BOOLEAN : valid = call[k].wasValid
      BY <1>2
    <3>2. GoesWith(k, "rejected", call[k].previous, NoCommit, valid)
      BY <2>2, <3>1
    <3>3. valid => call[k].previous \in Sound
      BY <1>1, <3>1 DEF Honest
    <3>4. "rejected" \in Steps /\ NoCommit \in Revision
      BY DEF Steps, Revision
    <3>5. /\ call' \in Calls
          /\ call'[k].at = "rejected" /\ call'[k].previous = call[k].previous
          /\ call'[k].wasValid = valid
          /\ \A l \in Caller \ {k} : call'[l] = call[l]
      BY <1>2, <3>2, <3>4, GoesWithIs
    <3>6. Honest(call'[k])
      BY <3>3, <3>5 DEF Honest
    <3> QED BY <3>5, <3>6 DEF Moved
  <2> QED BY <2>1, <2>2
<1>6. CallersAreHonest'
  BY <1>5, MovedIsHonest
<1>7. TypeOK'
  BY <1>5, <1>6, CallsAreTyped, <1>1 DEF Moved, TypeOK, STATUSES, Revision
<1>8. RowsAreHonest' /\ WorkIsGrounded'
  BY <1>1, <1>5 DEF TypeOK, RowsAreHonest, WorkIsGrounded
<1> QED BY <1>6, <1>7, <1>8

(* The write of an unchanged head binds to what was valid when the head was read. *)
LEMMA WriteUnchangedInv ==
  ASSUME Inv, NEW k \in Caller, WriteUnchanged(k)
  PROVE  Inv'
<1> USE DEF Inv, WriteUnchanged, worldVars, rowVars, processVars
<1>1. call[k].previous \in Sound /\ call[k].previous \in Commit
  BY ContextAssumption DEF CallersAreHonest, Honest, Commit
<1>5. Moved(k) /\ bound' \subseteq Commit /\ bound' \subseteq Sound
  BY <1>1, AnswerIsGrounded
<1>6. CallersAreHonest'
  BY <1>5, MovedIsHonest
<1>7. TypeOK'
  BY <1>5, <1>6, CallsAreTyped DEF Moved, TypeOK, STATUSES, Revision
<1>8. RowsAreHonest' /\ WorkIsGrounded'
  BY <1>5 DEF TypeOK, RowsAreHonest, WorkIsGrounded
<1> QED BY <1>6, <1>7, <1>8

(* The write of a load names what this caller itself validated. *)
LEMMA WriteLoadedInv ==
  ASSUME Inv, NEW k \in Caller, WriteLoaded(k)
  PROVE  Inv'
<1> USE DEF Inv, WriteLoaded, worldVars, rowVars, processVars
<1>1. call[k].head \in Sound /\ call[k].head \in Commit
  BY ContextAssumption DEF CallersAreHonest, Honest, Commit
<1>5. Moved(k) /\ bound' \subseteq Commit /\ bound' \subseteq Sound
  BY <1>1, AnswerIsGrounded
<1>6. CallersAreHonest'
  BY <1>5, MovedIsHonest
<1>7. TypeOK'
  BY <1>5, <1>6, CallsAreTyped, <1>1 DEF Moved, TypeOK, STATUSES, Revision
<1>8. RowsAreHonest' /\ WorkIsGrounded'
  BY <1>1, <1>5 DEF TypeOK, RowsAreHonest, WorkIsGrounded
<1> QED BY <1>6, <1>7, <1>8

(* The write of a rejection binds to the row as it was remembered. *)
LEMMA WriteRejectedInv ==
  ASSUME Inv, NEW k \in Caller, WriteRejected(k)
  PROVE  Inv'
<1> USE DEF Inv, WriteRejected, worldVars, rowVars, processVars
<1>1. call[k].wasValid => call[k].previous \in Sound /\ call[k].previous \in Commit
  BY ContextAssumption DEF CallersAreHonest, Honest, Commit
<1>2. call[k].wasValid \in BOOLEAN
  BY DEF TypeOK
<1>5. Moved(k) /\ bound' \subseteq Commit /\ bound' \subseteq Sound
  BY <1>1, <1>2, AnswerIsGrounded
<1>6. CallersAreHonest'
  BY <1>5, MovedIsHonest
<1>7. TypeOK'
  BY <1>5, <1>6, CallsAreTyped DEF Moved, TypeOK, STATUSES, Revision
<1>8. RowsAreHonest' /\ WorkIsGrounded'
  BY <1>5 DEF TypeOK, RowsAreHonest, WorkIsGrounded
<1> QED BY <1>6, <1>7, <1>8

(* A failure falls back on the previous revision only while its row is valid. *)
LEMMA WriteFailedInv ==
  ASSUME Inv, NEW k \in Caller, WriteFailed(k)
  PROVE  Inv'
<1> USE DEF Inv, WriteFailed, worldVars, rowVars, processVars
<1>1. call[k].previous \in Revision
  BY DEF TypeOK
<1>5. Moved(k) /\ bound' \subseteq Commit /\ bound' \subseteq Sound
  <2>1. CASE Valid(call[k].previous) /\ Answer(k, call[k].previous, TRUE)
    BY <1>1, <2>1, ValidIsSound, AnswerIsGrounded
  <2>2. CASE Answer(k, NoCommit, FALSE)
    BY <2>2, AnswerIsGrounded
  <2> QED BY <2>1, <2>2
<1>6. CallersAreHonest'
  BY <1>5, MovedIsHonest
<1>7. TypeOK'
  BY <1>5, <1>6, CallsAreTyped DEF Moved, TypeOK, STATUSES, Revision
<1>8. RowsAreHonest' /\ WorkIsGrounded'
  BY <1>5 DEF TypeOK, RowsAreHonest, WorkIsGrounded
<1> QED BY <1>6, <1>7, <1>8

-----------------------------------------------------------------------------
(* What happens around the callers.                                        *)

(* Documents are read, time passes, the branch, the settings and the reach of things change. *)
LEMMA AroundInv ==
  ASSUME Inv, (\E c \in Commit : ReadDocuments(c)) \/ QuietWindowPasses \/ WorldMoves \/ ChangeSettings
  PROVE  Inv'
<1> USE DEF Inv, ReadDocuments, QuietWindowPasses, WorldMoves,
            ChangeSettings, worldVars, rowVars, processVars
<1>1. TypeOK'
  BY DEF TypeOK
<1>2. RowsAreHonest' /\ WorkIsGrounded' /\ CallersAreHonest'
  BY DEF RowsAreHonest, WorkIsGrounded, CallersAreHonest, Honest
<1> QED BY <1>1, <1>2

(* The requests in flight end with the process; rows stay. *)
LEMMA RestartInv ==
  ASSUME Inv, Restart
  PROVE  Inv'
<1> USE DEF Inv, Restart, worldVars, rowVars, processVars
<1>1. call' \in Booting
  OBVIOUS
<1>2. call' \in Calls /\ CallersAreHonest'
  BY <1>1, BootingIsHonest DEF CallersAreHonest
<1>3. TypeOK'
  BY <1>2, CallsAreTyped DEF TypeOK
<1>4. RowsAreHonest' /\ WorkIsGrounded'
  BY DEF RowsAreHonest, WorkIsGrounded
<1> QED BY <1>2, <1>3, <1>4

-----------------------------------------------------------------------------
(* The theorems.                                                           *)

LEMMA StepInv ==
  ASSUME Inv, NEW k \in Caller, Step(k)
  PROVE  Inv'
BY EnsureInv, StartRefreshInv, FetchInv, ReadHeadInv, WriteUnchangedInv, LoadInv, WriteLoadedInv,
   WriteRejectedInv, WriteFailedInv DEF Step

LEMMA NextInv == Inv /\ [Next]_vars => Inv'
BY StartWorkInv, StepInv, AroundInv, RestartInv, Stutter DEF Next

LEMMA Invariance == Spec => []Inv
BY InitInv, NextInv, PTL DEF Spec

(* The model never leaves its types: a caller that loads or has loaded knows of which commit,
   and work is bound to commits. *)
THEOREM TypeCorrect == Spec => []TypeOK
<1>1. Inv => TypeOK
  BY DEF Inv
<1> QED BY <1>1, Invariance, PTL

(* Work is bound to, and the status row names, only commits whose every mandatory document
   validated, however many callers and commits there are (company-context/service.ts reads
   the row, talks to the remote and writes the row in a later transaction). *)
THEOREM OnlySoundCommits == Spec => []WorkIsGrounded
<1>1. Inv => WorkIsGrounded
  BY DEF Inv
<1> QED BY <1>1, Invariance, PTL

-----------------------------------------------------------------------------
(* Second: that a night shift is accounted for.                            *)

(* What is so however many tickers there are.                              *)

(* What a tick has read or decided is about the shift it looks at, and says what to do. *)
TickIsSound(k) ==
  LET does == tick[k].does IN tick[k].step # "idle" =>
    /\ tick[k].shift \in DOMAIN shifts
    /\ does.run # NoRun => does.run \in Runs /\ runs[does.run].shift = tick[k].shift
    /\ does.action \in {"finalise", "record_blocker"} => does.run # NoRun
    /\ does.action \in {"start", "stop"} => tick[k].step = "decided" /\ does.run = NoRun
    /\ does.action = "start" => does.task \in Task
    /\ does.action = "stop" => does.reason \in {"cutoff_reached", "budget_exhausted"}
    /\ tick[k].step = "decided" => does.action # "wait"
TicksAreSound == \A k \in Ticker : TickIsSound(k)

RunsAreOfShifts == \A r \in Runs : runs[r].shift \in DOMAIN shifts
DecisionsAreOfRuns == \A d \in decisions : d.run \in Runs \cup {NoRun}

(* One shift runs at a time, the last one, and a shift that runs has not been stopped. *)
ShiftsInTurn ==
  \A s \in DOMAIN shifts :
    /\ s \in Active <=> shifts[s].stopReason = "null"
    /\ s \in Active => s = Len(shifts)

(* A run that started after its shift was stopped was started for a shift that is over. *)
LateIsOver == \A r \in Runs : runs[r].late => runs[r].shift \notin Active

InvAnyTicker ==
  /\ TypeOKNightShift
  /\ TicksAreSound
  /\ RunsAreOfShifts
  /\ DecisionsAreOfRuns
  /\ ShiftsInTurn
  /\ LateIsOver

-----------------------------------------------------------------------------
(* What is so of one ticker.                                               *)

OneTicker == \A j, k \in Ticker : j = k

Judged(r) == Decided(r, "finalise") \/ Decided(r, "record_blocker")

(* Of a run the scheduler has no more to do, or would never do more. *)
Dealt(r) ==
  /\ ~InFlight(r)
  /\ \/ runs[r].status = "completed_with_gaps"
     \/ runs[r].status = "cancelled" /\ ~runs[r].summary
     \/ Judged(r)

(* A task is started when the night's other runs are dealt with, and none of them was
   about it. *)
InTurn(a, b) == runs[a].task # runs[b].task /\ Dealt(a)
RunsInTurn ==
  \A a, b \in Runs : a < b /\ runs[a].shift = runs[b].shift => InTurn(a, b)

(* Reported is what was decided first, and decided was what its run says. *)
Warranted(r) ==
  /\ <<r, "task_switched">> \in reported =>
       Decided(r, "finalise") /\ ~runs[r].blockers
  /\ <<r, "blocker_recorded">> \in reported =>
       Decided(r, "record_blocker") /\ runs[r].blockers
ReportsAreWarranted == \A r \in Runs : Warranted(r)

(* What was decided has been reported, is being carried out, or was lost to a fault. *)
Carrying(k, r) == tick[k].step = "decided" /\ tick[k].does.run = r
Followed(r) ==
  /\ ~InFlight(r)
  /\ Told(r) \/ faults > 0 \/ \E k \in Ticker : Carrying(k, r)
DecisionsAreFollowed == \A r \in Runs : Judged(r) => Followed(r)

(* A night has one late run at most, and no ticker looks at it any more. *)
LateIsLast ==
  \A q, r \in Runs : runs[q].late /\ runs[r].late /\ runs[q].shift = runs[r].shift => q = r

(* While a tick is under way nobody else starts, decides or reports anything. *)
AboutToReport(k, action, event, blocked) ==
  LET r == tick[k].does.run IN
  /\ ~InFlight(r) /\ runs[r].blockers = blocked
  /\ <<r, event>> \notin reported
  /\ tick[k].step = "decided" => Decided(r, action)
TickIsAlone(k) ==
  LET does == tick[k].does  s == tick[k].shift IN tick[k].step # "idle" =>
    /\ tick[k].attempted = shifts[s].attempted
    /\ \A r \in Runs : runs[r].shift <= s
    /\ \A r \in OfShift(s) : ~runs[r].late
    /\ does.run = NoRun => \A r \in OfShift(s) : Dealt(r)
    /\ does.action = "start" => \A r \in OfShift(s) : runs[r].task # does.task
    /\ does.action = "finalise" =>
         AboutToReport(k, "finalise", "task_switched", FALSE)
    /\ does.action = "record_blocker" =>
         AboutToReport(k, "record_blocker", "blocker_recorded", TRUE)
TicksAreAlone == \A k \in Ticker : TickIsAlone(k)

InvNightShift ==
  /\ InvAnyTicker
  /\ RunsInTurn
  /\ ReportsAreWarranted
  /\ DecisionsAreFollowed
  /\ LateIsLast
  /\ TicksAreAlone
  /\ NightAddsUp
  /\ ReadyMeansFinished
  /\ NightEndsTidy

-----------------------------------------------------------------------------
(* The rows.                                                               *)

LEMMA RunsAre ==
  ASSUME TypeOKNightShift
  PROVE  /\ runs \in Seq(Run) /\ Len(runs) \in Nat /\ Runs = 1..Len(runs)
         /\ \A r \in Runs : r \in Nat /\ r # NoRun /\ runs[r] \in Run
BY ConstantsAssumption DEF TypeOKNightShift, Runs

LEMMA ShiftsAre ==
  ASSUME TypeOKNightShift
  PROVE  /\ shifts \in Seq(NightShiftRow) /\ Len(shifts) \in Nat
         /\ DOMAIN shifts = 1..Len(shifts) /\ DOMAIN shifts \subseteq 1..MaxShifts
         /\ \A s \in DOMAIN shifts : s \in Nat /\ shifts[s] \in NightShiftRow
BY ConstantsAssumption DEF TypeOKNightShift

(* A run is added behind the others ... *)
LEMMA RunIsAdded ==
  ASSUME TypeOKNightShift, NEW new \in Run, runs' = Append(runs, new)
  PROVE  /\ runs' \in Seq(Run)
         /\ Len(runs) + 1 \notin Runs /\ Runs' = Runs \cup {Len(runs) + 1}
         /\ \A r \in Runs : runs'[r] = runs[r] /\ r < Len(runs) + 1
         /\ runs'[Len(runs) + 1] = new
<1>1. runs \in Seq(Run) /\ Len(runs) \in Nat /\ Runs = 1..Len(runs)
  BY RunsAre
<1>2. /\ runs' \in Seq(Run) /\ Len(runs') = Len(runs) + 1
      /\ \A r \in 1..Len(runs) : runs'[r] = runs[r]
      /\ runs'[Len(runs) + 1] = new
  BY <1>1, AppendProperties
<1>3. Runs' = 1..(Len(runs) + 1)
  BY <1>2 DEF Runs
<1> QED BY <1>1, <1>2, <1>3

(* ... and one of them is changed. *)
LEMMA RunIsChanged ==
  ASSUME TypeOKNightShift, NEW r \in Runs, NEW new \in Run, runs' = [runs EXCEPT ![r] = new]
  PROVE  /\ runs' \in Seq(Run) /\ Runs' = Runs
         /\ runs'[r] = new /\ \A q \in Runs \ {r} : runs'[q] = runs[q]
BY RunsAre DEF Runs

LEMMA ShiftIsChanged ==
  ASSUME TypeOKNightShift, NEW s \in DOMAIN shifts, NEW new \in NightShiftRow,
         shifts' = [shifts EXCEPT ![s] = new]
  PROVE  /\ shifts' \in Seq(NightShiftRow) /\ Len(shifts') = Len(shifts)
         /\ DOMAIN shifts' = DOMAIN shifts
         /\ shifts'[s] = new /\ \A t \in DOMAIN shifts \ {s} : shifts'[t] = shifts[t]
BY ShiftsAre

(* The last of some runs. *)
LEMMA LastIs ==
  ASSUME NEW N \in Nat, NEW S \in SUBSET (1..N), S # {}
  PROVE  Max(S) \in S /\ \A y \in S : y <= Max(S)
<1> DEFINE Gaps == {N - x : x \in S}
           Less == OpToRel(<, Nat)
<1>1. Gaps \subseteq Nat /\ Gaps # {}
  <2>1. \A x \in S : x \in Nat /\ x <= N /\ N - x \in Nat
    OBVIOUS
  <2> QED BY <2>1
<1>2. PICK g \in Gaps : \A h \in Gaps : <<h, g>> \notin Less
  BY <1>1, WFMin, NatLessThanWellFounded
<1>3. \A h \in Gaps : g <= h
  <2> SUFFICES ASSUME NEW h \in Gaps, h < g PROVE FALSE
    <3> HIDE DEF Gaps, Less
    <3> QED BY <1>1
  <2>1. <<h, g>> \in Less
    BY <1>1 DEF OpToRel
  <2> QED BY <1>2, <2>1
<1>4. PICK x \in S : N - x = g
  OBVIOUS
<1>5. \A y \in S : x >= y
  BY <1>3, <1>4
<1> HIDE DEF Gaps, Less
<1>6. Max(S) \in S /\ \A y \in S : Max(S) >= y
  BY <1>5 DEF Max
<1>7. \A y \in S : y \in 1..N
  OBVIOUS
<1> HIDE DEF Max
<1> QED BY <1>6, <1>7

-----------------------------------------------------------------------------
(* What a tick reads and decides.                                          *)

Works(does, action, r) == does \in Chosen /\ does.action = action /\ does.run = r

LEMMA WorksIs ==
  ASSUME NEW action \in {"wait", "finalise", "record_blocker"}, NEW r \in Nat
  PROVE  /\ Works([Wait EXCEPT !.run = r], "wait", r)
         /\ Works([Wait EXCEPT !.action = action, !.run = r], action, r)
         /\ Works(Wait, "wait", NoRun)
BY DEF Works, Wait, Chosen, STOP_REASONS

(* The current work of a shift, if it has any that is not dealt with. *)
LEMMA CurrentWorkIs ==
  ASSUME TypeOKNightShift, NEW s \in DOMAIN shifts
  PROVE  \/ /\ LoadCurrentWork(s) = Wait
            /\ Listed(s) # {} => Max(Listed(s)) \in Runs /\ Dealt(Max(Listed(s)))
         \/ \E r \in OfShift(s) : InFlight(r) /\ Works(LoadCurrentWork(s), "wait", r)
         \/ \E r \in OfShift(s) :
              /\ ~InFlight(r) /\ ~runs[r].blockers /\ ~Decided(r, "finalise")
              /\ Works(LoadCurrentWork(s), "finalise", r)
         \/ \E r \in OfShift(s) :
              /\ ~InFlight(r) /\ runs[r].blockers /\ ~Decided(r, "record_blocker")
              /\ Works(LoadCurrentWork(s), "record_blocker", r)
<1> DEFINE r == Max(Listed(s))
           action == IF runs[r].blockers THEN "record_blocker" ELSE "finalise"
<1>1. CASE Listed(s) = {}
  BY <1>1 DEF LoadCurrentWork
<1>2. CASE Listed(s) # {}
  <2>1. Listed(s) \in SUBSET (1..Len(runs)) /\ Len(runs) \in Nat
    BY RunsAre DEF Listed
  <2>2. r \in Listed(s)
    BY <1>2, <2>1, LastIs
  <2>3. r \in Runs /\ r \in OfShift(s) /\ runs[r].blockers \in BOOLEAN
    BY <2>2, RunsAre DEF Listed, OfShift, Run
  <2>4. LoadCurrentWork(s) =
           IF InFlight(r) THEN [Wait EXCEPT !.run = r]
           ELSE IF runs[r].status = "cancelled" /\ ~runs[r].summary THEN Wait
           ELSE IF Decided(r, action) THEN Wait ELSE [Wait EXCEPT !.action = action, !.run = r]
    BY <1>2 DEF LoadCurrentWork
  <2>8. /\ Works([Wait EXCEPT !.run = r], "wait", r)
        /\ Works([Wait EXCEPT !.action = action, !.run = r], action, r)
    BY <2>3, WorksIs, RunsAre
  <2> HIDE DEF r
  <2> SUFFICES \/ LoadCurrentWork(s) = Wait /\ Dealt(r)
               \/ \E q \in OfShift(s) : InFlight(q) /\ Works(LoadCurrentWork(s), "wait", q)
               \/ \E q \in OfShift(s) :
                    /\ ~InFlight(q) /\ ~runs[q].blockers /\ ~Decided(q, "finalise")
                    /\ Works(LoadCurrentWork(s), "finalise", q)
               \/ \E q \in OfShift(s) :
                    /\ ~InFlight(q) /\ runs[q].blockers /\ ~Decided(q, "record_blocker")
                    /\ Works(LoadCurrentWork(s), "record_blocker", q)
    BY <2>3 DEF r
  <2>5. CASE InFlight(r)
    BY <2>3, <2>4, <2>5, <2>8
  <2>6. CASE ~InFlight(r) /\ runs[r].status = "cancelled" /\ ~runs[r].summary
    BY <2>4, <2>6 DEF Dealt
  <2>7. CASE ~InFlight(r) /\ ~(runs[r].status = "cancelled" /\ ~runs[r].summary)
    <3>1. CASE Decided(r, action)
      BY <2>4, <2>7, <3>1 DEF Dealt, Judged
    <3>2. CASE ~Decided(r, action)
      BY <2>3, <2>4, <2>7, <2>8, <3>2
    <3> QED BY <3>1, <3>2
  <2> QED BY <2>5, <2>6, <2>7
<1> QED BY <1>1, <1>2

(* The decision is the current work, if there is any. *)
Starts(d, s) ==
  /\ d.action = "start" /\ d.task \in Task
  /\ \A r \in OfShift(s) : runs[r].task # d.task
Stops(d) == d.action = "stop" /\ d.reason \in {"cutoff_reached", "budget_exhausted"}

LEMMA DecisionIs ==
  ASSUME NEW now \in Chosen, NEW s, NEW f \in Readings, NEW d \in DecideNextAction(now, s, f)
  PROVE  /\ d \in Chosen
         /\ \/ now.run # NoRun /\ d = now
            \/ now.run = NoRun /\ d = Wait
            \/ now.run = NoRun /\ d.run = NoRun /\ (Starts(d, s) \/ Stops(d))
<1>1. CASE now.run # NoRun
  BY <1>1 DEF DecideNextAction
<1> DEFINE Stop(reason) == [Wait EXCEPT !.action = "stop", !.reason = reason]
           Start(t) == [Wait EXCEPT !.action = "start", !.task = t]
<1>2. Wait \in Chosen /\ Wait.run = NoRun
  BY DEF Wait, Chosen
<1>3. \A reason \in {"cutoff_reached", "budget_exhausted"} :
        Stop(reason) \in Chosen /\ Stops(Stop(reason)) /\ Stop(reason).run = NoRun
  BY DEF Wait, Chosen, Stops, STOP_REASONS
<1>4. \A t \in Task :
        Start(t) \in Chosen /\ Start(t).action = "start" /\ Start(t).task = t
          /\ Start(t).run = NoRun
  BY DEF Wait, Chosen
<1>5. \A t \in Selectable(s, f) : t \in Task /\ \A r \in OfShift(s) : runs[r].task # t
  <2> SUFFICES ASSUME NEW t \in Selectable(s, f)
               PROVE  t \in Task /\ \A r \in OfShift(s) : runs[r].task # t
    OBVIOUS
  <2>1. t \in Candidates(f) /\ ~AttemptedThisShift(t, s)
    BY DEF Selectable, EligibleCandidates, Eligible
  <2>2. t \in Task
    BY <2>1, ConstantsAssumption
    DEF Candidates, DirectCandidates, MondayCandidates, Facts
  <2> QED BY <2>1, <2>2 DEF AttemptedThisShift, OfShift
<1>6. CASE now.run = NoRun
  <2>1. \/ d = Wait
        \/ \E reason \in {"cutoff_reached", "budget_exhausted"} : d = Stop(reason)
        \/ \E t \in Selectable(s, f) : d = Start(t)
    BY <1>6 DEF DecideNextAction
  <2> HIDE DEF Stop, Start
  <2>2. CASE d = Wait
    BY <1>2, <1>6, <2>2
  <2>3. CASE \E reason \in {"cutoff_reached", "budget_exhausted"} : d = Stop(reason)
    BY <1>3, <1>6, <2>3
  <2>4. CASE \E t \in Selectable(s, f) : d = Start(t)
    BY <1>4, <1>5, <1>6, <2>4 DEF Starts
  <2> QED BY <2>1, <2>2, <2>3, <2>4
<1> QED BY <1>1, <1>6

TickRow == [step : {"idle", "gathered", "decided"}, shift : 0..MaxShifts, attempted : Nat,
            does : Chosen]

LEMMA IdleIsTyped == IdleTick \in TickRow /\ IdleTick.step = "idle"
BY ConstantsAssumption DEF IdleTick, TickRow, Wait, Chosen

LEMMA TicksAre ==
  ASSUME TypeOKNightShift
  PROVE  tick \in [Ticker -> TickRow]
BY DEF TypeOKNightShift, TickRow

(* One ticker goes on, the others stay where they are. *)
LEMMA TickIsChanged ==
  ASSUME TypeOKNightShift, NEW k \in Ticker, NEW new \in TickRow,
         tick' = [tick EXCEPT ![k] = new]
  PROVE  /\ tick' \in [Ticker -> TickRow]
         /\ tick'[k] = new /\ \A j \in Ticker \ {k} : tick'[j] = tick[j]
BY TicksAre

-----------------------------------------------------------------------------
(* The part of the invariant that holds for any tickers.                   *)

(* Rows are added and changed, but a run stays with its shift. *)
RowsStay ==
  /\ DOMAIN shifts \subseteq DOMAIN shifts' /\ Runs \subseteq Runs'
  /\ \A r \in Runs : runs'[r].shift = runs[r].shift

TicksStayOrEnd == \A k \in Ticker : tick'[k] = tick[k] \/ tick'[k] = IdleTick

LEMMA TicksStaySound ==
  ASSUME InvAnyTicker, RowsStay, TicksStayOrEnd
  PROVE  TicksAreSound'
<1> SUFFICES ASSUME NEW k \in Ticker
             PROVE  TickIsSound(k)'
  BY DEF TicksAreSound
<1>1. CASE tick'[k] = IdleTick
  BY <1>1, IdleIsTyped DEF TickIsSound
<1>2. CASE tick'[k] = tick[k]
  <2>1. TickIsSound(k)
    BY DEF InvAnyTicker, TicksAreSound
  <2> QED BY <1>2, <2>1 DEF TickIsSound, RowsStay
<1> QED BY <1>1, <1>2 DEF TicksStayOrEnd

(* What touches neither shifts nor runs nor decisions only has to free its ticker. *)
LEMMA RowsUntouched ==
  ASSUME InvAnyTicker, TypeOKNightShift', UNCHANGED <<shifts, runs, decisions>>, TicksAreSound'
  PROVE  InvAnyTicker'
BY DEF InvAnyTicker, RunsAreOfShifts, DecisionsAreOfRuns, ShiftsInTurn, LateIsOver, Active, Runs

LEMMA QuietAny ==
  ASSUME InvAnyTicker,
         \/ \E s \in DOMAIN shifts : DeliverOvernightReport(s) \/ ReportFails(s)
         \/ \E k \in Ticker : TickFails(k)
         \/ RestartNightShift \/ TimePasses
  PROVE  InvAnyTicker' /\ TicksStayOrEnd
<1>1. UNCHANGED <<shifts, runs, decisions, reported, writes>>
  BY DEF DeliverOvernightReport, ReportFails, TickFails, RestartNightShift, TimePasses, shiftVars
<1>2. tick' \in [Ticker -> TickRow] /\ TicksStayOrEnd
  <2>1. CASE UNCHANGED tick
    BY <2>1, TicksAre DEF TicksStayOrEnd, InvAnyTicker
  <2>2. CASE \E k \in Ticker : TickFails(k)
    BY <2>2, TickIsChanged, IdleIsTyped DEF TicksStayOrEnd, InvAnyTicker, TickFails
  <2>3. CASE RestartNightShift
    BY <2>3, IdleIsTyped DEF TicksStayOrEnd, RestartNightShift
  <2> QED BY <2>1, <2>2, <2>3 DEF DeliverOvernightReport, ReportFails, TimePasses
<1>3. TypeOKNightShift'
  <2>1. remaining' \in 0..Night /\ faults' \in 0..MaxFaults
    BY ConstantsAssumption
    DEF InvAnyTicker, TypeOKNightShift, DeliverOvernightReport, ReportFails, TickFails,
        RestartNightShift, TimePasses
  <2>2. ended' \subseteq DOMAIN shifts /\ reports' \subseteq DOMAIN shifts
    BY DEF InvAnyTicker, TypeOKNightShift, DeliverOvernightReport, ReportFails, TickFails,
           RestartNightShift, TimePasses, reportVars
  <2> QED BY <1>1, <1>2, <2>1, <2>2 DEF InvAnyTicker, TypeOKNightShift, TickRow, Runs
<1>4. RowsStay
  BY <1>1 DEF RowsStay, Runs
<1> QED BY <1>1, <1>2, <1>3, <1>4, TicksStaySound, RowsUntouched

(* A run in flight goes on; what is over stays as it is. *)
RunGoesOn(r) ==
  /\ InFlight(r)
  /\ runs' \in Seq(Run) /\ Runs' = Runs
  /\ \A q \in Runs \ {r} : runs'[q] = runs[q]
  /\ runs'[r].task = runs[r].task /\ runs'[r].shift = runs[r].shift
  /\ runs'[r].late = runs[r].late

LEMMA RunStepIs ==
  ASSUME TypeOKNightShift, NEW r \in Runs, RunStep(r)
  PROVE  RunGoesOn(r) /\ RunsOnly
<1>1. runs[r] \in Run
  BY RunsAre
<1>2. CASE Lease(r)
  <2> DEFINE new == [runs[r] EXCEPT !.status = "running"]
  <2>1. runs' = [runs EXCEPT ![r] = new]
    BY <1>2 DEF Lease
  <2>2. new \in Run /\ new.task = runs[r].task /\ new.shift = runs[r].shift
          /\ new.late = runs[r].late
    BY <1>1 DEF Run, TERMINAL
  <2> HIDE DEF new
  <2> QED BY <1>2, <2>1, <2>2, RunIsChanged DEF Lease, RunGoesOn, InFlight, TERMINAL
<1>3. CASE RaiseBlocker(r)
  <2> DEFINE new == [runs[r] EXCEPT !.blockers = TRUE]
  <2>1. runs' = [runs EXCEPT ![r] = new]
    BY <1>3 DEF RaiseBlocker
  <2>2. new \in Run /\ new.task = runs[r].task /\ new.shift = runs[r].shift
          /\ new.late = runs[r].late
    BY <1>1 DEF Run
  <2> HIDE DEF new
  <2> QED BY <1>3, <2>1, <2>2, RunIsChanged DEF RaiseBlocker, RunGoesOn, InFlight, TERMINAL
<1>4. ASSUME NEW how \in TERMINAL \ {"stopped_by_guardrail"}, CompleteRun(r, how)
      PROVE  RunGoesOn(r) /\ RunsOnly
  <2> DEFINE new == [runs[r] EXCEPT !.status = how, !.summary = TRUE]
  <2>1. runs' = [runs EXCEPT ![r] = new]
    BY <1>4 DEF CompleteRun
  <2>2. new \in Run /\ new.task = runs[r].task /\ new.shift = runs[r].shift
          /\ new.late = runs[r].late
    BY <1>1 DEF Run
  <2> HIDE DEF new
  <2> QED BY <1>4, <2>1, <2>2, RunIsChanged DEF CompleteRun, RunGoesOn, InFlight, TERMINAL
<1>5. ASSUME NEW how \in {"cancelled", "stopped_by_guardrail"}, EndWithoutWorker(r, how)
      PROVE  RunGoesOn(r) /\ RunsOnly
  <2> DEFINE new == [runs[r] EXCEPT !.status = how]
  <2>1. runs' = [runs EXCEPT ![r] = new]
    BY <1>5 DEF EndWithoutWorker
  <2>2. new \in Run /\ new.task = runs[r].task /\ new.shift = runs[r].shift
          /\ new.late = runs[r].late
    BY <1>1 DEF Run, TERMINAL
  <2> HIDE DEF new
  <2> QED BY <1>5, <2>1, <2>2, RunIsChanged DEF EndWithoutWorker, RunGoesOn, InFlight, TERMINAL
<1> QED BY <1>2, <1>3, <1>4, <1>5 DEF RunStep

LEMMA RunStepAny ==
  ASSUME InvAnyTicker, NEW r \in Runs, RunStep(r)
  PROVE  InvAnyTicker'
<1>1. RunGoesOn(r) /\ RunsOnly
  BY RunStepIs DEF InvAnyTicker
<1>2. \A q \in Runs : runs'[q].shift = runs[q].shift /\ runs'[q].late = runs[q].late
  BY <1>1 DEF RunGoesOn
<1>3. UNCHANGED <<shifts, decisions, reported, writes, remaining, tick, ended, reports, faults>>
  BY <1>1 DEF RunsOnly, shiftVars, reportVars
<1>4. TypeOKNightShift'
  BY <1>1, <1>3 DEF InvAnyTicker, TypeOKNightShift, RunGoesOn
<1>5. TicksAreSound'
  BY <1>1, <1>2, <1>3, TicksStaySound DEF RowsStay, TicksStayOrEnd, RunGoesOn
<1> QED
  BY <1>1, <1>2, <1>3, <1>4, <1>5
  DEF InvAnyTicker, RunsAreOfShifts, DecisionsAreOfRuns, ShiftsInTurn, LateIsOver, Active, RunGoesOn

(* A night begins ... *)
Begun == [status |-> "running", stopReason |-> "null", attempted |-> 0, completed |-> 0,
          blocked |-> 0]
LEMMA StartShiftIs ==
  ASSUME TypeOKNightShift, StartNightShift
  PROVE  /\ shifts' \in Seq(NightShiftRow) /\ Len(shifts') = Len(shifts) + 1
         /\ Len(shifts') <= MaxShifts /\ Len(shifts') \notin DOMAIN shifts
         /\ DOMAIN shifts' = DOMAIN shifts \cup {Len(shifts')}
         /\ \A s \in DOMAIN shifts : shifts'[s] = shifts[s] /\ s < Len(shifts')
         /\ shifts'[Len(shifts')] = Begun
<1>1. shifts \in Seq(NightShiftRow) /\ Len(shifts) \in Nat /\ DOMAIN shifts = 1..Len(shifts)
  BY ShiftsAre
<1>2. Begun \in NightShiftRow
  BY DEF Begun, NightShiftRow
<1>3. shifts' = Append(shifts, Begun) /\ Len(shifts) < MaxShifts
  BY DEF StartNightShift, Begun
<1>4. /\ shifts' \in Seq(NightShiftRow) /\ Len(shifts') = Len(shifts) + 1
      /\ \A s \in 1..Len(shifts) : shifts'[s] = shifts[s]
      /\ shifts'[Len(shifts) + 1] = Begun
  BY <1>1, <1>2, <1>3, AppendProperties
<1>5. DOMAIN shifts' = 1..(Len(shifts) + 1)
  BY <1>4
<1> QED BY <1>1, <1>3, <1>4, <1>5, ConstantsAssumption

LEMMA StartShiftAny ==
  ASSUME InvAnyTicker, StartNightShift
  PROVE  InvAnyTicker'
<1>1. TypeOKNightShift
  BY DEF InvAnyTicker
<1> DEFINE n == Len(shifts')
<1>2. /\ shifts' \in Seq(NightShiftRow) /\ n = Len(shifts) + 1
      /\ n <= MaxShifts /\ n \notin DOMAIN shifts
      /\ DOMAIN shifts' = DOMAIN shifts \cup {n}
      /\ \A s \in DOMAIN shifts : shifts'[s] = shifts[s] /\ s < n
      /\ shifts'[n] = Begun
  BY <1>1, StartShiftIs
<1> HIDE DEF n
<1>3. /\ Active = {} /\ remaining' = Night
      /\ UNCHANGED <<decisions, reported, writes, runs, tick, ended, reports, faults>>
  BY DEF StartNightShift, reportVars
<1>4. Active' = {n}
  BY <1>2, <1>3 DEF Active, Begun
<1>5. TypeOKNightShift'
  BY <1>1, <1>2, <1>3, ConstantsAssumption DEF TypeOKNightShift, Runs, n
<1>6. TicksAreSound'
  BY <1>2, <1>3, TicksStaySound DEF RowsStay, TicksStayOrEnd, Runs
<1>7. ShiftsInTurn'
  BY <1>2, <1>3, <1>4 DEF InvAnyTicker, ShiftsInTurn, Begun, n
<1>8. RunsAreOfShifts' /\ DecisionsAreOfRuns'
  BY <1>2, <1>3 DEF InvAnyTicker, RunsAreOfShifts, DecisionsAreOfRuns, Runs
<1>9. LateIsOver'
  BY <1>2, <1>3, <1>4 DEF InvAnyTicker, LateIsOver, RunsAreOfShifts, Runs
<1> QED BY <1>5, <1>6, <1>7, <1>8, <1>9 DEF InvAnyTicker

(* ... and ends. *)
ShiftEnds(s, reason) ==
  /\ shifts' \in Seq(NightShiftRow) /\ Len(shifts') = Len(shifts)
  /\ DOMAIN shifts' = DOMAIN shifts
  /\ \A t \in DOMAIN shifts \ {s} : shifts'[t] = shifts[t]
  /\ shifts'[s].status # "running" /\ shifts'[s].stopReason = reason
  /\ shifts'[s].attempted = shifts[s].attempted /\ shifts'[s].completed = shifts[s].completed
  /\ shifts'[s].blocked = shifts[s].blocked

LEMMA EndShiftIs ==
  ASSUME TypeOKNightShift, NEW s \in DOMAIN shifts, NEW reason \in STOP_REASONS,
         EndShift(s, reason)
  PROVE  ShiftEnds(s, reason)
<1> DEFINE new == [shifts[s] EXCEPT !.status = IF reason = "cutoff_reached" THEN "completed"
                                               ELSE "stopped",
                                    !.stopReason = reason]
<1>1. shifts[s] \in NightShiftRow
  BY ShiftsAre
<1>2. shifts' = [shifts EXCEPT ![s] = new]
  BY DEF EndShift
<1>3. /\ new \in NightShiftRow /\ new.status # "running" /\ new.stopReason = reason
      /\ new.attempted = shifts[s].attempted /\ new.completed = shifts[s].completed
      /\ new.blocked = shifts[s].blocked
  BY <1>1 DEF NightShiftRow
<1> HIDE DEF new
<1> QED BY <1>2, <1>3, ShiftIsChanged DEF ShiftEnds

LEMMA EndShiftAny ==
  ASSUME InvAnyTicker, NEW s \in Active, NEW reason \in STOP_REASONS, EndShift(s, reason),
         tick' \in [Ticker -> TickRow], TicksStayOrEnd,
         UNCHANGED <<decisions, reported, writes, remaining, runs, reports, faults>>
  PROVE  InvAnyTicker'
<1>1. TypeOKNightShift /\ s \in DOMAIN shifts
  BY DEF InvAnyTicker, Active
<1>2. ShiftEnds(s, reason)
  BY <1>1, EndShiftIs
<1>3. DOMAIN shifts' = DOMAIN shifts
  BY <1>2 DEF ShiftEnds
<1>4. Active' \subseteq Active
  BY <1>2 DEF ShiftEnds, Active
<1>5. TypeOKNightShift'
  <2>1. ended' \subseteq DOMAIN shifts
    BY <1>1 DEF EndShift, TypeOKNightShift
  <2> QED BY <1>1, <1>2, <2>1 DEF TypeOKNightShift, ShiftEnds, TickRow, Runs
<1>6. TicksAreSound'
  BY <1>3, TicksStaySound DEF RowsStay, Runs
<1>7. ShiftsInTurn'
  <2> SUFFICES ASSUME NEW t \in DOMAIN shifts
               PROVE  /\ t \in Active' <=> shifts'[t].stopReason = "null"
                      /\ t \in Active' => t = Len(shifts')
    BY <1>3 DEF ShiftsInTurn
  <2>1. /\ t \in Active <=> shifts[t].stopReason = "null"
        /\ t \in Active => t = Len(shifts)
    BY DEF InvAnyTicker, ShiftsInTurn
  <2> QED BY <1>2, <1>4, <2>1 DEF ShiftEnds, Active, STOP_REASONS
<1>8. RunsAreOfShifts' /\ DecisionsAreOfRuns' /\ LateIsOver'
  BY <1>3, <1>4 DEF InvAnyTicker, RunsAreOfShifts, DecisionsAreOfRuns, LateIsOver, Runs
<1> QED BY <1>5, <1>6, <1>7, <1>8 DEF InvAnyTicker

LEMMA StopAny ==
  ASSUME InvAnyTicker, StopNightShift
  PROVE  InvAnyTicker'
<1>1. PICK s \in Active : EndShift(s, "stopped_by_user")
  BY DEF StopNightShift
<1>2. UNCHANGED <<decisions, reported, writes, remaining, runs, tick, reports, faults>>
  BY DEF StopNightShift
<1>3. tick' \in [Ticker -> TickRow] /\ TicksStayOrEnd
  BY <1>2, TicksAre DEF InvAnyTicker, TicksStayOrEnd
<1> QED BY <1>1, <1>2, <1>3, EndShiftAny DEF STOP_REASONS

(* A decision that was carried out, or failed, frees its ticker. *)
LEMMA CarryIs ==
  ASSUME InvAnyTicker, NEW k \in Ticker, NEW action, Carry(k, action)
  PROVE  /\ tick' \in [Ticker -> TickRow] /\ TicksStayOrEnd
         /\ tick'[k] = IdleTick
         /\ \A j \in Ticker \ {k} : tick'[j] = tick[j]
         /\ tick[k] \in TickRow
         /\ tick[k].step = "decided" /\ tick[k].does.action = action
         /\ TickIsSound(k)
<1>1. tick' = [tick EXCEPT ![k] = IdleTick]
  BY DEF Carry
<1>2. TypeOKNightShift /\ TickIsSound(k)
  BY DEF InvAnyTicker, TicksAreSound
<1>3. /\ tick' \in [Ticker -> TickRow]
      /\ tick'[k] = IdleTick
      /\ \A j \in Ticker \ {k} : tick'[j] = tick[j]
  BY <1>1, <1>2, TickIsChanged, IdleIsTyped
<1> QED BY <1>2, <1>3, TicksAre DEF Carry, TicksStayOrEnd

LEMMA TickStopsIs ==
  ASSUME InvAnyTicker, NEW k \in Ticker, TickStops(k)
  PROVE  /\ UNCHANGED <<decisions, reported, writes, remaining, runs, reports, faults>>
         /\ tick[k].does.run = NoRun /\ tick[k].does.reason \in {"cutoff_reached", "budget_exhausted"}
         /\ \/ \E s \in Active : EndShift(s, tick[k].does.reason)
            \/ UNCHANGED <<shifts, ended>>
<1>1. Carry(k, "stop")
  BY DEF TickStops
<1> QED BY <1>1, CarryIs DEF TickStops, TickIsSound

LEMMA TickStopsAny ==
  ASSUME InvAnyTicker, NEW k \in Ticker, TickStops(k)
  PROVE  InvAnyTicker'
<1>1. tick' \in [Ticker -> TickRow] /\ TicksStayOrEnd
  BY CarryIs DEF TickStops
<1>2. /\ UNCHANGED <<decisions, reported, writes, remaining, runs, reports, faults>>
      /\ tick[k].does.reason \in STOP_REASONS
      /\ \/ \E s \in Active : EndShift(s, tick[k].does.reason)
         \/ UNCHANGED <<shifts, ended>>
  BY TickStopsIs DEF STOP_REASONS
<1>3. CASE \E s \in Active : EndShift(s, tick[k].does.reason)
  BY <1>1, <1>2, <1>3, EndShiftAny
<1>4. CASE UNCHANGED <<shifts, ended>>
  <2>1. TypeOKNightShift'
    BY <1>1, <1>2, <1>4 DEF InvAnyTicker, TypeOKNightShift, TickRow, Runs
  <2>2. TicksAreSound'
    BY <1>1, <1>2, <1>4, TicksStaySound DEF RowsStay, Runs
  <2> QED BY <1>2, <1>4, <2>1, <2>2, RowsUntouched
<1> QED BY <1>2, <1>3, <1>4

(* A tick begins with what the rows say now. *)
LEMMA GathersIs ==
  ASSUME InvAnyTicker, NEW k \in Ticker, TickGathers(k)
  PROVE  \E s \in Active :
           /\ tick' \in [Ticker -> TickRow]
           /\ \A j \in Ticker \ {k} : tick'[j] = tick[j]
           /\ tick'[k].step = "gathered" /\ tick'[k].shift = s
           /\ tick'[k].attempted = shifts[s].attempted
           /\ tick'[k].does = LoadCurrentWork(s)
<1>1. PICK s \in Active :
        tick' = [tick EXCEPT ![k] = [step |-> "gathered", shift |-> s,
                                     attempted |-> shifts[s].attempted,
                                     does |-> LoadCurrentWork(s)]]
  BY DEF TickGathers
<1>2. TypeOKNightShift /\ s \in DOMAIN shifts /\ s \in 0..MaxShifts
        /\ shifts[s].attempted \in Nat
  BY ShiftsAre DEF InvAnyTicker, Active, NightShiftRow
<1>3. LoadCurrentWork(s) \in Chosen
  BY <1>2, CurrentWorkIs, WorksIs DEF Works
<1> DEFINE new == [step |-> "gathered", shift |-> s, attempted |-> shifts[s].attempted,
                   does |-> LoadCurrentWork(s)]
<1>4. new \in TickRow
  BY <1>2, <1>3 DEF TickRow
<1>5. /\ new.step = "gathered" /\ new.shift = s /\ new.attempted = shifts[s].attempted
      /\ new.does = LoadCurrentWork(s)
  OBVIOUS
<1> HIDE DEF new
<1>6. tick' = [tick EXCEPT ![k] = new]
  BY <1>1 DEF new
<1> QED BY <1>2, <1>4, <1>5, <1>6, TickIsChanged

LEMMA GathersAny ==
  ASSUME InvAnyTicker, NEW k \in Ticker, TickGathers(k)
  PROVE  InvAnyTicker'
<1>1. PICK s \in Active :
           /\ tick' \in [Ticker -> TickRow]
           /\ \A j \in Ticker \ {k} : tick'[j] = tick[j]
           /\ tick'[k].step = "gathered" /\ tick'[k].shift = s
           /\ tick'[k].attempted = shifts[s].attempted
           /\ tick'[k].does = LoadCurrentWork(s)
  BY GathersIs
<1>2. UNCHANGED <<shifts, decisions, reported, writes, remaining, runs, ended, reports, faults>>
  BY DEF TickGathers, shiftVars, reportVars
<1>3. TypeOKNightShift /\ s \in DOMAIN shifts
  BY DEF InvAnyTicker, Active
<1>4. TypeOKNightShift'
  BY <1>1, <1>2, <1>3 DEF TypeOKNightShift, TickRow, Runs
<1>5. TickIsSound(k)'
  <2>1. \E r \in Runs \cup {NoRun}, action \in {"wait", "finalise", "record_blocker"} :
          /\ LoadCurrentWork(s).run = r /\ LoadCurrentWork(s).action = action
          /\ r # NoRun => r \in Runs /\ runs[r].shift = s
          /\ action # "wait" => r # NoRun
    <3>1. Wait.run = NoRun /\ Wait.action = "wait"
      BY DEF Wait
    <3> QED BY <1>3, <3>1, CurrentWorkIs, RunsAre DEF Works, OfShift
  <2> QED BY <1>1, <1>2, <1>3, <2>1 DEF TickIsSound, Runs
<1>6. \A j \in Ticker \ {k} : TickIsSound(j)'
  BY <1>1, <1>2 DEF InvAnyTicker, TicksAreSound, TickIsSound, Runs
<1> QED BY <1>2, <1>4, <1>5, <1>6, RowsUntouched DEF TicksAreSound

(* A decision is one of those the reading allows, and is recorded before it is carried out. *)
Resolved(k, d) ==
  LET now == tick[k].does  s == tick[k].shift IN
  /\ d \in Chosen
  /\ \/ now.run # NoRun /\ d = now
     \/ now.run = NoRun /\ d = Wait
     \/ now.run = NoRun /\ d.run = NoRun /\ (Starts(d, s) \/ Stops(d))
  /\ tick' \in [Ticker -> TickRow]
  /\ \A j \in Ticker \ {k} : tick'[j] = tick[j]
  /\ d.action = "wait" => tick'[k] = IdleTick
  /\ d.action # "wait" => /\ tick'[k].step = "decided" /\ tick'[k].does = d
                          /\ tick'[k].shift = s /\ tick'[k].attempted = tick[k].attempted
  /\ IF d.action \in {"wait", "stop"} THEN decisions' = decisions
     ELSE \E entry \in Decision : entry.run = d.run /\ entry.action = d.action
                                  /\ decisions' = decisions \cup {entry}

LEMMA DecidesIs ==
  ASSUME InvAnyTicker, NEW k \in Ticker, TickDecides(k)
  PROVE  /\ tick[k].step = "gathered"
         /\ UNCHANGED <<shifts, reported, writes, remaining, runs, ended, reports, faults>>
         /\ \E d : Resolved(k, d)
<1> DEFINE now == tick[k].does
           s == tick[k].shift
<1>1. TypeOKNightShift /\ TickIsSound(k) /\ tick[k] \in TickRow /\ tick[k].step = "gathered"
  BY TicksAre DEF InvAnyTicker, TicksAreSound, TickDecides
<1>2. now \in Chosen /\ s \in DOMAIN shifts /\ s \in 1..MaxShifts
  BY <1>1, ShiftsAre DEF TickRow, TickIsSound
<1>3. PICK d \in UNION {DecideNextAction(now, s, f) : f \in Readings} :
        /\ RecordDecision(s, d)
        /\ tick' = [tick EXCEPT ![k] = IF d.action = "wait" THEN IdleTick
                                       ELSE [tick[k] EXCEPT !.step = "decided", !.does = d]]
  BY DEF TickDecides
<1>4. PICK f \in Readings : d \in DecideNextAction(now, s, f)
  BY <1>3
<1>5. /\ d \in Chosen
      /\ \/ now.run # NoRun /\ d = now
         \/ now.run = NoRun /\ d = Wait
         \/ now.run = NoRun /\ d.run = NoRun /\ (Starts(d, s) \/ Stops(d))
  BY <1>2, <1>4, DecisionIs
<1> DEFINE new == [tick[k] EXCEPT !.step = "decided", !.does = d]
<1>6. /\ new \in TickRow /\ new.step = "decided" /\ new.does = d
      /\ new.shift = s /\ new.attempted = tick[k].attempted
  BY <1>1, <1>5 DEF TickRow
<1>7. IF d.action \in {"wait", "stop"} THEN decisions' = decisions
      ELSE \E entry \in Decision : entry.run = d.run /\ entry.action = d.action
                                   /\ decisions' = decisions \cup {entry}
  <2>1. CASE d.action \in {"wait", "stop"}
    BY <1>3, <2>1 DEF RecordDecision
  <2>2. CASE d.action \notin {"wait", "stop"}
    <3>1. \A t \in Task : RecordedTask(t) \subseteq Task
      BY DEF RecordedTask
    <3>2. d.action = "start" => d.task \in Task
      BY <1>1, <1>5 DEF Starts, Stops, TickIsSound, Wait
    <3>3. PICK named \in Task \cup {"null"} :
            decisions' = decisions \cup {[shift |-> s, action |-> d.action, run |-> d.run,
                                          task |-> named]}
      BY <1>3, <2>2, <3>1, <3>2 DEF RecordDecision
    <3> DEFINE entry == [shift |-> s, action |-> d.action, run |-> d.run, task |-> named]
    <3>4. entry \in Decision /\ entry.run = d.run /\ entry.action = d.action
      BY <1>2, <1>5, <2>2, <3>3 DEF Decision, Chosen
    <3> QED BY <2>2, <3>3, <3>4
  <2> QED BY <2>1, <2>2
<1> HIDE DEF new
<1>8. /\ tick' \in [Ticker -> TickRow]
      /\ \A j \in Ticker \ {k} : tick'[j] = tick[j]
      /\ tick'[k] = IF d.action = "wait" THEN IdleTick ELSE new
  <2>1. (IF d.action = "wait" THEN IdleTick ELSE new) \in TickRow
    BY <1>6, IdleIsTyped
  <2>2. tick' = [tick EXCEPT ![k] = IF d.action = "wait" THEN IdleTick ELSE new]
    BY <1>3 DEF new
  <2> QED BY <1>1, <2>1, <2>2, TickIsChanged
<1>9. Resolved(k, d)
  BY <1>5, <1>6, <1>7, <1>8 DEF Resolved
<1> QED BY <1>1, <1>9 DEF TickDecides, reportVars

LEMMA DecidesAny ==
  ASSUME InvAnyTicker, NEW k \in Ticker, TickDecides(k)
  PROVE  InvAnyTicker'
<1>1. PICK d : Resolved(k, d)
  BY DecidesIs
<1>2. /\ tick[k].step = "gathered"
      /\ UNCHANGED <<shifts, reported, writes, remaining, runs, ended, reports, faults>>
  BY DecidesIs
<1>3. TypeOKNightShift /\ TickIsSound(k)
  BY DEF InvAnyTicker, TicksAreSound
<1>4. d.run \in Runs \cup {NoRun} /\ (d.action \in {"finalise", "record_blocker"} => d.run # NoRun)
  BY <1>1, <1>2, <1>3 DEF Resolved, TickIsSound, Starts, Stops, Wait
<1>5. decisions' \subseteq Decision /\ \A entry \in decisions' : entry.run \in Runs \cup {NoRun}
  BY <1>1, <1>3, <1>4 DEF Resolved, InvAnyTicker, TypeOKNightShift, DecisionsAreOfRuns
<1>6. TypeOKNightShift'
  BY <1>1, <1>2, <1>3, <1>5 DEF Resolved, TypeOKNightShift, TickRow, Runs
<1>7. TickIsSound(k)'
  <2>1. CASE d.action = "wait"
    BY <1>1, <2>1, IdleIsTyped DEF Resolved, TickIsSound
  <2>2. CASE d.action # "wait"
    <3>1. \/ tick[k].does.run # NoRun /\ d = tick[k].does
          \/ d.run = NoRun /\ (Starts(d, tick[k].shift) \/ Stops(d))
      BY <1>1, <2>2 DEF Resolved, Wait
    <3>2. /\ tick'[k].step = "decided" /\ tick'[k].does = d
          /\ tick'[k].shift = tick[k].shift
      BY <1>1, <2>2 DEF Resolved
    <3>3. CASE tick[k].does.run # NoRun /\ d = tick[k].does
      BY <1>2, <1>3, <2>2, <3>2, <3>3 DEF TickIsSound, Runs
    <3>4. CASE d.run = NoRun /\ (Starts(d, tick[k].shift) \/ Stops(d))
      BY <1>2, <1>3, <2>2, <3>2, <3>4 DEF TickIsSound, Runs, Starts, Stops
    <3> QED BY <3>1, <3>3, <3>4
  <2> QED BY <2>1, <2>2
<1>8. \A j \in Ticker \ {k} : TickIsSound(j)'
  BY <1>1, <1>2 DEF InvAnyTicker, TicksAreSound, TickIsSound, Resolved, Runs
<1>9. TicksAreSound'
  BY <1>7, <1>8 DEF TicksAreSound
<1> QED
  BY <1>2, <1>5, <1>6, <1>9
  DEF InvAnyTicker, RunsAreOfShifts, DecisionsAreOfRuns, ShiftsInTurn, LateIsOver, Active, Runs

(* A run is added for the shift the tick looked at, whatever that has become. *)
RunStarts(k, n) ==
  LET s == tick[k].shift IN
  /\ s \in DOMAIN shifts
  /\ runs' \in Seq(Run) /\ n \notin Runs /\ Runs' = Runs \cup {n} /\ n \in Nat
  /\ \A r \in Runs : runs'[r] = runs[r] /\ r < n
  /\ runs'[n] = RunForTask(tick[k].does.task, s)
  /\ shifts' \in Seq(NightShiftRow) /\ Len(shifts') = Len(shifts)
  /\ DOMAIN shifts' = DOMAIN shifts
  /\ \A t \in DOMAIN shifts \ {s} : shifts'[t] = shifts[t]
  /\ shifts'[s] = [shifts[s] EXCEPT !.attempted = tick[k].attempted + 1]
  /\ Queue(n, tick[k].does.task, {"in_progress", "update"})
  /\ UNCHANGED <<reported, decisions, remaining, ended, reports, faults>>

LEMMA StartsIs ==
  ASSUME InvAnyTicker, NEW k \in Ticker, StartSelectedTask(k)
  PROVE  RunStarts(k, Len(runs) + 1) /\ Carry(k, "start")
<1> DEFINE s == tick[k].shift
           t == tick[k].does.task
<1>1. /\ tick[k] \in TickRow /\ TickIsSound(k) /\ tick[k].step = "decided"
      /\ tick[k].does.action = "start" /\ TypeOKNightShift
  BY CarryIs DEF StartSelectedTask, InvAnyTicker
<1>2. /\ s \in DOMAIN shifts /\ s \in 1..MaxShifts /\ t \in Task /\ tick[k].attempted \in Nat
      /\ shifts[s] \in NightShiftRow
  BY <1>1, ShiftsAre DEF TickIsSound, TickRow
<1>3. RunForTask(t, s) \in Run
  BY <1>2 DEF RunForTask, Run, NightShiftRow
<1>4. /\ runs' \in Seq(Run)
      /\ Len(runs) + 1 \notin Runs /\ Runs' = Runs \cup {Len(runs) + 1}
      /\ \A r \in Runs : runs'[r] = runs[r] /\ r < Len(runs) + 1
      /\ runs'[Len(runs) + 1] = RunForTask(t, s)
  BY <1>1, <1>3, RunIsAdded DEF StartSelectedTask
<1> DEFINE new == [shifts[s] EXCEPT !.attempted = tick[k].attempted + 1]
<1>5. new \in NightShiftRow
  BY <1>2 DEF NightShiftRow
<1>6. shifts' = [shifts EXCEPT ![s] = new]
  BY DEF StartSelectedTask
<1> HIDE DEF new
<1>7. /\ shifts' \in Seq(NightShiftRow) /\ Len(shifts') = Len(shifts)
      /\ DOMAIN shifts' = DOMAIN shifts
      /\ \A u \in DOMAIN shifts \ {s} : shifts'[u] = shifts[u]
      /\ shifts'[s] = new
  BY <1>1, <1>2, <1>5, <1>6, ShiftIsChanged
<1>8. Queue(Len(runs) + 1, t, {"in_progress", "update"})
        /\ UNCHANGED <<reported, decisions, remaining, ended, reports, faults>>
  BY DEF StartSelectedTask, reportVars
<1> QED BY <1>1, <1>2, <1>4, <1>7, <1>8, RunsAre DEF RunStarts, new, StartSelectedTask

LEMMA StartsAny ==
  ASSUME InvAnyTicker, NEW k \in Ticker, StartSelectedTask(k)
  PROVE  InvAnyTicker'
<1> DEFINE n == Len(runs) + 1
<1>1. RunStarts(k, n) /\ Carry(k, "start")
  BY StartsIs
<1> HIDE DEF n
<1>2. /\ TypeOKNightShift /\ tick' \in [Ticker -> TickRow] /\ TicksStayOrEnd
      /\ tick[k].shift \in DOMAIN shifts /\ shifts[tick[k].shift] \in NightShiftRow
  BY <1>1, CarryIs, ShiftsAre DEF InvAnyTicker, RunStarts
<1>3. /\ runs'[n].shift = tick[k].shift
      /\ runs'[n].late = (shifts[tick[k].shift].status # "running")
  BY <1>1 DEF RunStarts, RunForTask
<1>4. \A s \in DOMAIN shifts :
        shifts'[s].status = shifts[s].status /\ shifts'[s].stopReason = shifts[s].stopReason
  BY <1>1, <1>2 DEF RunStarts, NightShiftRow
<1>5. Active' = Active
  BY <1>1, <1>4 DEF RunStarts, Active
<1>6. writes' \subseteq Runs' \X {"in_progress", "ready_for_review", "blocked", "update"}
  BY <1>1, <1>2 DEF RunStarts, Queue, TypeOKNightShift
<1>7. TypeOKNightShift'
  BY <1>1, <1>2, <1>6 DEF RunStarts, TypeOKNightShift, TickRow
<1>8. TicksAreSound'
  BY <1>1, <1>2, TicksStaySound DEF RowsStay, RunStarts
<1>9. RunsAreOfShifts' /\ DecisionsAreOfRuns' /\ LateIsOver'
  BY <1>1, <1>2, <1>3, <1>5
  DEF InvAnyTicker, RunsAreOfShifts, DecisionsAreOfRuns, LateIsOver, RunStarts, Active
<1>10. ShiftsInTurn'
  BY <1>1, <1>4, <1>5 DEF InvAnyTicker, ShiftsInTurn, RunStarts
<1> QED BY <1>7, <1>8, <1>9, <1>10 DEF InvAnyTicker

(* A finished run is told to the board and counted. *)
RunReported(k, event, completed, blocked, kinds) ==
  LET s == tick[k].shift  r == tick[k].does.run IN
  /\ s \in DOMAIN shifts /\ r \in Runs /\ runs[r].shift = s
  /\ shifts' \in Seq(NightShiftRow) /\ Len(shifts') = Len(shifts)
  /\ DOMAIN shifts' = DOMAIN shifts
  /\ \A t \in DOMAIN shifts \ {s} : shifts'[t] = shifts[t]
  /\ shifts'[s].completed = shifts[s].completed + completed
  /\ shifts'[s].blocked = shifts[s].blocked + blocked
  /\ shifts'[s].status = shifts[s].status /\ shifts'[s].stopReason = shifts[s].stopReason
  /\ shifts'[s].attempted = shifts[s].attempted
  /\ Queue(r, runs[r].task, kinds)
  /\ reported' = reported \cup {<<r, event>>}
  /\ UNCHANGED <<runs, decisions, remaining, ended, reports, faults>>

LEMMA FinalisesIs ==
  ASSUME InvAnyTicker, NEW k \in Ticker, FinaliseRun(k)
  PROVE  LET done == runs[tick[k].does.run].status = "completed" IN
         /\ Carry(k, "finalise")
         /\ RunReported(k, "task_switched", IF done THEN 1 ELSE 0, 0,
                        IF done THEN {"ready_for_review", "update"} ELSE {"update"})
<1> DEFINE s == tick[k].shift
           r == tick[k].does.run
           done == runs[r].status = "completed"
           new == [shifts[s] EXCEPT !.completed = shifts[s].completed + (IF done THEN 1 ELSE 0)]
<1>1. /\ TickIsSound(k) /\ tick[k].step = "decided" /\ tick[k].does.action = "finalise"
      /\ TypeOKNightShift
  BY CarryIs DEF FinaliseRun, InvAnyTicker
<1>2. s \in DOMAIN shifts /\ r \in Runs /\ runs[r].shift = s /\ shifts[s] \in NightShiftRow
  BY <1>1, ShiftsAre DEF TickIsSound
<1>3. /\ new \in NightShiftRow
      /\ new.completed = shifts[s].completed + (IF done THEN 1 ELSE 0)
      /\ new.blocked = shifts[s].blocked + 0
      /\ new.status = shifts[s].status /\ new.stopReason = shifts[s].stopReason
      /\ new.attempted = shifts[s].attempted
  BY <1>2 DEF NightShiftRow
<1>4. shifts' = [shifts EXCEPT ![s] = new]
  BY DEF FinaliseRun
<1>5. /\ Queue(r, runs[r].task, IF done THEN {"ready_for_review", "update"} ELSE {"update"})
      /\ reported' = reported \cup {<<r, "task_switched">>}
      /\ UNCHANGED <<runs, decisions, remaining, ended, reports, faults>>
  BY DEF FinaliseRun, reportVars
<1> HIDE DEF new
<1>6. /\ shifts' \in Seq(NightShiftRow) /\ Len(shifts') = Len(shifts)
      /\ DOMAIN shifts' = DOMAIN shifts
      /\ \A u \in DOMAIN shifts \ {s} : shifts'[u] = shifts[u]
      /\ shifts'[s] = new
  BY <1>1, <1>2, <1>3, <1>4, ShiftIsChanged
<1> QED BY <1>2, <1>3, <1>5, <1>6 DEF RunReported, FinaliseRun

LEMMA RecordsBlockedIs ==
  ASSUME InvAnyTicker, NEW k \in Ticker, RecordRunBlocked(k)
  PROVE  /\ Carry(k, "record_blocker")
         /\ RunReported(k, "blocker_recorded", 0, 1, {"blocked", "update"})
<1> DEFINE s == tick[k].shift
           r == tick[k].does.run
           new == [shifts[s] EXCEPT !.blocked = shifts[s].blocked + 1]
<1>1. /\ TickIsSound(k) /\ tick[k].step = "decided" /\ tick[k].does.action = "record_blocker"
      /\ TypeOKNightShift
  BY CarryIs DEF RecordRunBlocked, InvAnyTicker
<1>2. s \in DOMAIN shifts /\ r \in Runs /\ runs[r].shift = s /\ shifts[s] \in NightShiftRow
  BY <1>1, ShiftsAre DEF TickIsSound
<1>3. /\ new \in NightShiftRow
      /\ new.completed = shifts[s].completed + 0
      /\ new.blocked = shifts[s].blocked + 1
      /\ new.status = shifts[s].status /\ new.stopReason = shifts[s].stopReason
      /\ new.attempted = shifts[s].attempted
  BY <1>2 DEF NightShiftRow
<1>4. shifts' = [shifts EXCEPT ![s] = new]
  BY DEF RecordRunBlocked
<1>5. /\ Queue(r, runs[r].task, {"blocked", "update"})
      /\ reported' = reported \cup {<<r, "blocker_recorded">>}
      /\ UNCHANGED <<runs, decisions, remaining, ended, reports, faults>>
  BY DEF RecordRunBlocked, reportVars
<1> HIDE DEF new
<1>6. /\ shifts' \in Seq(NightShiftRow) /\ Len(shifts') = Len(shifts)
      /\ DOMAIN shifts' = DOMAIN shifts
      /\ \A u \in DOMAIN shifts \ {s} : shifts'[u] = shifts[u]
      /\ shifts'[s] = new
  BY <1>1, <1>2, <1>3, <1>4, ShiftIsChanged
<1> QED BY <1>2, <1>3, <1>5, <1>6 DEF RunReported, RecordRunBlocked

LEMMA ReportsAny ==
  ASSUME InvAnyTicker, NEW k \in Ticker, NEW action, Carry(k, action),
         NEW event \in {"task_switched", "blocker_recorded"},
         NEW completed \in Nat, NEW blocked \in Nat,
         NEW kinds \in SUBSET {"ready_for_review", "blocked", "update"},
         RunReported(k, event, completed, blocked, kinds)
  PROVE  InvAnyTicker'
<1>1. /\ TypeOKNightShift /\ tick' \in [Ticker -> TickRow] /\ TicksStayOrEnd
      /\ tick[k].shift \in DOMAIN shifts /\ shifts[tick[k].shift] \in NightShiftRow
  BY CarryIs, ShiftsAre DEF InvAnyTicker, RunReported
<1>2. \A s \in DOMAIN shifts :
        shifts'[s].status = shifts[s].status /\ shifts'[s].stopReason = shifts[s].stopReason
  BY <1>1 DEF RunReported, NightShiftRow
<1>3. Active' = Active
  BY <1>2 DEF RunReported, Active
<1>4. writes' \subseteq Runs \X {"in_progress", "ready_for_review", "blocked", "update"}
  BY <1>1 DEF RunReported, Queue, TypeOKNightShift
<1>5. TypeOKNightShift'
  BY <1>1, <1>4 DEF RunReported, TypeOKNightShift, TickRow, Runs
<1>6. TicksAreSound'
  BY <1>1, TicksStaySound DEF RowsStay, RunReported, Runs
<1>7. RunsAreOfShifts' /\ DecisionsAreOfRuns' /\ LateIsOver'
  BY <1>3 DEF InvAnyTicker, RunsAreOfShifts, DecisionsAreOfRuns, LateIsOver, RunReported, Runs
<1>8. ShiftsInTurn'
  BY <1>2, <1>3 DEF InvAnyTicker, ShiftsInTurn, RunReported
<1> QED BY <1>5, <1>6, <1>7, <1>8 DEF InvAnyTicker

LEMMA InitAny == InitNightShift => InvAnyTicker
<1> SUFFICES ASSUME InitNightShift
             PROVE  InvAnyTicker
  OBVIOUS
<1>1. TypeOKNightShift
  BY ConstantsAssumption, IdleIsTyped DEF InitNightShift, TypeOKNightShift, TickRow, Runs
<1>2. TicksAreSound
  BY IdleIsTyped DEF InitNightShift, TicksAreSound, TickIsSound
<1> QED
  BY <1>1, <1>2
  DEF InitNightShift, InvAnyTicker, RunsAreOfShifts, DecisionsAreOfRuns, ShiftsInTurn, LateIsOver,
      Active, Runs

LEMMA NextAny ==
  ASSUME InvAnyTicker, [NextNightShift]_nightVars
  PROVE  InvAnyTicker'
<1>1. CASE StartNightShift
  BY <1>1, StartShiftAny
<1>2. CASE StopNightShift
  BY <1>2, StopAny
<1>3. ASSUME NEW k \in Ticker, TickStep(k)
      PROVE  InvAnyTicker'
  <2>1. CASE TickGathers(k)
    BY <2>1, GathersAny
  <2>2. CASE TickDecides(k)
    BY <2>2, DecidesAny
  <2>3. CASE StartSelectedTask(k)
    BY <2>3, StartsAny
  <2>4. CASE FinaliseRun(k)
    <3> DEFINE done == runs[tick[k].does.run].status = "completed"
    <3>1. (IF done THEN 1 ELSE 0) \in Nat
      OBVIOUS
    <3>2. (IF done THEN {"ready_for_review", "update"} ELSE {"update"})
            \in SUBSET {"ready_for_review", "blocked", "update"}
      OBVIOUS
    <3>3. /\ Carry(k, "finalise")
          /\ RunReported(k, "task_switched", IF done THEN 1 ELSE 0, 0,
                         IF done THEN {"ready_for_review", "update"} ELSE {"update"})
      BY <2>4, FinalisesIs
    <3> HIDE DEF done
    <3> QED BY <3>1, <3>2, <3>3, ReportsAny
  <2>5. CASE RecordRunBlocked(k)
    BY <2>5, RecordsBlockedIs, ReportsAny
  <2>6. CASE TickStops(k)
    BY <2>6, TickStopsAny
  <2> QED BY <1>3, <2>1, <2>2, <2>3, <2>4, <2>5, <2>6 DEF TickStep
<1>4. CASE \/ \E s \in DOMAIN shifts : DeliverOvernightReport(s) \/ ReportFails(s)
           \/ \E k \in Ticker : TickFails(k)
           \/ RestartNightShift \/ TimePasses
  BY <1>4, QuietAny
<1>5. CASE \E r \in Runs : RunStep(r)
  BY <1>5, RunStepAny
<1>6. CASE UNCHANGED nightVars
  <2>1. UNCHANGED <<shifts, decisions, reported, writes, remaining, runs, tick, ended, reports,
                    faults>>
    BY <1>6 DEF nightVars, shiftVars, reportVars
  <2>2. TypeOKNightShift'
    BY <2>1 DEF InvAnyTicker, TypeOKNightShift, Runs
  <2>3. TicksAreSound'
    BY <2>1, TicksStaySound DEF RowsStay, TicksStayOrEnd, Runs
  <2> QED BY <2>1, <2>2, <2>3, RowsUntouched
<1> QED BY <1>1, <1>2, <1>3, <1>4, <1>5, <1>6 DEF NextNightShift

LEMMA InvarianceAny == SpecNightShift => []InvAnyTicker
BY InitAny, NextAny, PTL DEF SpecNightShift

(* The rows, what every tick has read and decided, reports and writes are typed, however    *)
(* many tickers there are (services/night-shift.ts, nightShiftTick).                        *)
THEOREM NightShiftTypeCorrect == SpecNightShift => []TypeOKNightShift
<1>1. InvAnyTicker => TypeOKNightShift
  BY DEF InvAnyTicker
<1> QED BY <1>1, InvarianceAny, PTL

-----------------------------------------------------------------------------
(* One ticker.                                                             *)

CompletedOf(s) ==
  {r \in OfShift(s) : <<r, "task_switched">> \in reported /\ runs[r].status = "completed"}
BlockedOf(s) == {r \in OfShift(s) : <<r, "blocker_recorded">> \in reported}
Counted(s) ==
  /\ shifts[s].attempted = Cardinality(OfShift(s))
  /\ shifts[s].completed = Cardinality(CompletedOf(s))
  /\ shifts[s].blocked = Cardinality(BlockedOf(s))
  /\ CompletedOf(s) \cap BlockedOf(s) = {}

LEMMA AddsUpIs == NightAddsUp <=> \A s \in DOMAIN shifts : Counted(s)
BY DEF NightAddsUp, Counted, CompletedOf, BlockedOf

LEMMA AddsUpNext == NightAddsUp' <=> \A s \in DOMAIN shifts' : Counted(s)'
BY DEF NightAddsUp, Counted, CompletedOf, BlockedOf

LEMMA OfShiftIsFinite ==
  ASSUME TypeOKNightShift, NEW s
  PROVE  /\ IsFiniteSet(OfShift(s)) /\ Cardinality(OfShift(s)) \in Nat
         /\ IsFiniteSet(CompletedOf(s)) /\ Cardinality(CompletedOf(s)) \in Nat
         /\ IsFiniteSet(BlockedOf(s)) /\ Cardinality(BlockedOf(s)) \in Nat
<1>1. Runs = 1..Len(runs) /\ Len(runs) \in Nat
  BY RunsAre
<1>2. IsFiniteSet(Runs)
  BY <1>1, FS_Interval
<1>3. OfShift(s) \subseteq Runs /\ CompletedOf(s) \subseteq Runs /\ BlockedOf(s) \subseteq Runs
  BY DEF OfShift, CompletedOf, BlockedOf
<1> QED BY <1>2, <1>3, FS_Subset, FS_CardinalityType

(* What happens to runs and rows that are over: nothing. *)
OverStays ==
  /\ Runs \subseteq Runs'
  /\ \A r \in Runs :
       /\ runs'[r].task = runs[r].task /\ runs'[r].shift = runs[r].shift
       /\ runs'[r].late = runs[r].late
       /\ ~InFlight(r) => runs'[r] = runs[r]
  /\ decisions \subseteq decisions' /\ reported \subseteq reported'
  /\ faults' >= faults

LEMMA DealtStays ==
  ASSUME OverStays, NEW r \in Runs, Dealt(r)
  PROVE  Dealt(r)'
BY DEF OverStays, Dealt, InFlight, Judged, Decided

LEMMA NoLateIsSafe ==
  ASSUME InvNightShift, OverStays, Runs' = Runs
  PROVE  RunsInTurn' /\ LateIsLast'
<1>1. RunsInTurn'
  <2> SUFFICES ASSUME NEW a \in Runs, NEW b \in Runs, a < b, runs'[a].shift = runs'[b].shift
               PROVE  InTurn(a, b)'
    BY DEF RunsInTurn
  <2>1. InTurn(a, b)
    BY DEF OverStays, InvNightShift, RunsInTurn
  <2> QED BY <2>1, DealtStays DEF InTurn, OverStays
<1>2. LateIsLast'
  BY DEF OverStays, InvNightShift, LateIsLast
<1> QED BY <1>1, <1>2

(* Reported runs are over. *)
LEMMA ReportedIsOver ==
  ASSUME InvNightShift, NEW r \in Runs,
         <<r, "task_switched">> \in reported \/ <<r, "blocker_recorded">> \in reported
  PROVE  ~InFlight(r) /\ Judged(r)
BY DEF InvNightShift, ReportsAreWarranted, Warranted, DecisionsAreFollowed, Followed, Judged

(* Runs that go on, and ticks that end, leave the books alone. *)
LEMMA BooksStay ==
  ASSUME InvNightShift, OverStays, Runs' = Runs, UNCHANGED <<reported, decisions, writes>>
  PROVE  /\ ReportsAreWarranted' /\ ReadyMeansFinished'
         /\ \A s : OfShift(s)' = OfShift(s) /\ CompletedOf(s)' = CompletedOf(s)
                     /\ BlockedOf(s)' = BlockedOf(s)
<1>1. \A r \in Runs : runs'[r].shift = runs[r].shift /\ (~InFlight(r) => runs'[r] = runs[r])
  BY DEF OverStays
<1>2. ReportsAreWarranted'
  <2> SUFFICES ASSUME NEW r \in Runs
               PROVE  Warranted(r)'
    BY DEF ReportsAreWarranted
  <2>1. Warranted(r)
    BY DEF InvNightShift, ReportsAreWarranted
  <2> QED BY <1>1, <2>1, ReportedIsOver DEF Warranted, Decided
<1>3. ReadyMeansFinished'
  BY <1>1 DEF InvNightShift, ReadyMeansFinished, InFlight, TERMINAL
<1>4. ASSUME NEW s
      PROVE  OfShift(s)' = OfShift(s) /\ CompletedOf(s)' = CompletedOf(s)
               /\ BlockedOf(s)' = BlockedOf(s)
  <2>1. OfShift(s)' = OfShift(s)
    BY <1>1 DEF OfShift
  <2>2. CompletedOf(s)' = CompletedOf(s)
    <3>1. \A r \in OfShift(s) : <<r, "task_switched">> \in reported => runs'[r] = runs[r]
      BY <1>1, ReportedIsOver DEF OfShift
    <3> QED BY <2>1, <3>1 DEF CompletedOf
  <2> QED BY <2>1, <2>2 DEF BlockedOf
<1> QED BY <1>2, <1>3, <1>4

TidyRun(r) ==
  /\ ~InFlight(r)
  /\ \/ Told(r)
     \/ runs[r].status = "completed_with_gaps"
     \/ runs[r].status = "cancelled" /\ ~runs[r].summary
     \/ faults > 0 /\ Judged(r)
Tidy(s) ==
  shifts[s].stopReason \in {"cutoff_reached", "budget_exhausted"} =>
    \A r \in OfShift(s) : ~runs[r].late => TidyRun(r)

LEMMA TidyIs == NightEndsTidy <=> \A s \in DOMAIN shifts : Tidy(s)
BY DEF NightEndsTidy, Tidy, TidyRun, Judged

LEMMA TidyNext == NightEndsTidy' <=> \A s \in DOMAIN shifts' : Tidy(s)'
BY DEF NightEndsTidy, Tidy, TidyRun, Judged

LEMMA TidyRunStays ==
  ASSUME TypeOKNightShift, TypeOKNightShift', OverStays, NEW r \in Runs, TidyRun(r)
  PROVE  TidyRun(r)'
<1>1. faults \in Nat /\ faults' \in Nat /\ faults' >= faults
  BY ConstantsAssumption DEF TypeOKNightShift, OverStays
<1>2. runs'[r] = runs[r]
  BY DEF OverStays, TidyRun
<1>3. (Told(r) => Told(r)') /\ (Judged(r) => Judged(r)')
  BY DEF Told, Judged, Decided, OverStays
<1> QED BY <1>1, <1>2, <1>3 DEF TidyRun, InFlight

LEMMA TidyStays ==
  ASSUME TypeOKNightShift, TypeOKNightShift', OverStays, Runs' = Runs, NEW s,
         shifts'[s].stopReason = shifts[s].stopReason, Tidy(s)
  PROVE  Tidy(s)'
<1>1. OfShift(s)' = OfShift(s)
  BY DEF OverStays, OfShift
<1>2. \A r \in OfShift(s) : r \in Runs /\ runs'[r].late = runs[r].late
  BY DEF OfShift, OverStays
<1> QED BY <1>1, <1>2, TidyRunStays DEF Tidy

(* What a tick has read stays true, of a night that nobody else works on. *)
LEMMA TickStaysAlone ==
  ASSUME InvNightShift, OverStays, Runs' = Runs, UNCHANGED reported, NEW k \in Ticker,
         tick'[k] = tick[k], tick[k].step # "idle" =>
           shifts'[tick[k].shift].attempted = shifts[tick[k].shift].attempted
  PROVE  TickIsAlone(k)'
<1> DEFINE s == tick[k].shift
           does == tick[k].does
<1>1. CASE tick[k].step = "idle"
  BY <1>1 DEF TickIsAlone
<1>2. CASE tick[k].step # "idle"
  <2>1. TickIsAlone(k) /\ TickIsSound(k)
    BY DEF InvNightShift, TicksAreAlone, InvAnyTicker, TicksAreSound
  <2>3. \A r \in Runs : runs'[r].late = runs[r].late /\ runs'[r].task = runs[r].task
                          /\ runs'[r].shift = runs[r].shift
    BY DEF OverStays
  <2>4. does.run = NoRun => \A r \in Runs : runs'[r].shift = s => Dealt(r)'
    BY <1>2, <2>1, <2>3, DealtStays DEF TickIsAlone, OfShift
  <2>5. does.action = "finalise" => AboutToReport(k, "finalise", "task_switched", FALSE)'
    BY <1>2, <2>1 DEF TickIsAlone, TickIsSound, AboutToReport, OverStays, InFlight, Decided
  <2>6. does.action = "record_blocker" =>
          AboutToReport(k, "record_blocker", "blocker_recorded", TRUE)'
    BY <1>2, <2>1 DEF TickIsAlone, TickIsSound, AboutToReport, OverStays, InFlight, Decided
  <2>7. /\ tick[k].attempted = shifts'[s].attempted
        /\ \A r \in Runs : runs'[r].shift <= s
        /\ \A r \in Runs : runs'[r].shift = s => ~runs'[r].late
        /\ does.action = "start" =>
             \A r \in Runs : runs'[r].shift = s => runs'[r].task # does.task
    BY <1>2, <2>1, <2>3 DEF TickIsAlone, OfShift
  <2> HIDE DEF s, does
  <2>8. s = tick'[k].shift /\ does = tick'[k].does
    BY DEF s, does
  <2> QED BY <2>4, <2>5, <2>6, <2>7, <2>8 DEF TickIsAlone, OfShift
<1> QED BY <1>1, <1>2

LEMMA IdleIsAlone ==
  ASSUME NEW k, tick'[k] = IdleTick
  PROVE  TickIsAlone(k)'
BY IdleIsTyped DEF TickIsAlone

LEMMA RunStepNight ==
  ASSUME InvNightShift, NEW r \in Runs, RunStep(r)
  PROVE  InvNightShift'
<1>1. InvAnyTicker' /\ TypeOKNightShift /\ TypeOKNightShift'
  BY RunStepAny DEF InvNightShift, InvAnyTicker
<1>2. RunGoesOn(r) /\ RunsOnly
  BY RunStepIs, <1>1
<1>3. UNCHANGED <<shifts, decisions, reported, writes, remaining, tick, ended, reports, faults>>
  BY <1>2 DEF RunsOnly, shiftVars, reportVars
<1>4. OverStays /\ Runs' = Runs
  BY <1>1, <1>2, <1>3, ConstantsAssumption DEF RunGoesOn, OverStays, TypeOKNightShift
<1>5. RunsInTurn' /\ LateIsLast'
  BY <1>4, NoLateIsSafe
<1>6. /\ ReportsAreWarranted' /\ ReadyMeansFinished'
      /\ \A s : OfShift(s)' = OfShift(s) /\ CompletedOf(s)' = CompletedOf(s)
                  /\ BlockedOf(s)' = BlockedOf(s)
  BY <1>3, <1>4, BooksStay
<1>7. NightAddsUp'
  <2>1. \A s \in DOMAIN shifts : Counted(s)
    BY AddsUpIs DEF InvNightShift
  <2> QED BY <1>3, <1>6, <2>1, AddsUpNext DEF Counted
<1>8. TicksAreAlone'
  BY <1>3, <1>4, TickStaysAlone DEF TicksAreAlone
<1>9. NightEndsTidy'
  <2>1. \A s \in DOMAIN shifts : Tidy(s)
    BY TidyIs DEF InvNightShift
  <2> QED BY <1>1, <1>3, <1>4, <2>1, TidyStays, TidyNext
<1>10. DecisionsAreFollowed'
  <2> SUFFICES ASSUME NEW q \in Runs, Judged(q)'
               PROVE  Followed(q)'
    BY <1>4 DEF DecisionsAreFollowed
  <2>1. Judged(q) /\ Followed(q)
    BY <1>3 DEF InvNightShift, DecisionsAreFollowed, Judged, Decided
  <2>2. runs'[q] = runs[q]
    BY <1>4, <2>1 DEF OverStays, Followed
  <2> QED BY <1>3, <2>1, <2>2 DEF Followed, InFlight, Told, Carrying
<1> QED BY <1>1, <1>5, <1>6, <1>7, <1>8, <1>9, <1>10 DEF InvNightShift

LEMMA QuietNight ==
  ASSUME InvNightShift,
         \/ \E s \in DOMAIN shifts : DeliverOvernightReport(s) \/ ReportFails(s)
         \/ \E k \in Ticker : TickFails(k)
         \/ RestartNightShift \/ TimePasses
  PROVE  InvNightShift'
<1>1. InvAnyTicker' /\ TypeOKNightShift /\ TypeOKNightShift' /\ TicksStayOrEnd
  BY QuietAny DEF InvNightShift, InvAnyTicker
<1>2. UNCHANGED <<shifts, runs, decisions, reported, writes>>
  BY DEF DeliverOvernightReport, ReportFails, TickFails, RestartNightShift, TimePasses, shiftVars
<1>3. faults \in Nat /\ faults' \in Nat /\ faults' >= faults /\ (faults' > 0 \/ tick' = tick)
  BY <1>1, ConstantsAssumption
  DEF TypeOKNightShift, DeliverOvernightReport, ReportFails, TickFails, RestartNightShift, TimePasses
<1>4. OverStays /\ Runs' = Runs
  BY <1>2, <1>3 DEF OverStays, Runs
<1>5. RunsInTurn' /\ LateIsLast'
  BY <1>4, NoLateIsSafe
<1>6. /\ ReportsAreWarranted' /\ ReadyMeansFinished'
      /\ \A s : OfShift(s)' = OfShift(s) /\ CompletedOf(s)' = CompletedOf(s)
                  /\ BlockedOf(s)' = BlockedOf(s)
  BY <1>2, <1>4, BooksStay
<1>7. NightAddsUp'
  <2>1. \A s \in DOMAIN shifts : Counted(s)
    BY AddsUpIs DEF InvNightShift
  <2> QED BY <1>2, <1>6, <2>1, AddsUpNext DEF Counted
<1>8. TicksAreAlone'
  BY <1>1, <1>2, <1>4, TickStaysAlone, IdleIsAlone DEF TicksAreAlone, TicksStayOrEnd
<1>9. NightEndsTidy'
  <2>1. \A s \in DOMAIN shifts : Tidy(s)
    BY TidyIs DEF InvNightShift
  <2> QED BY <1>1, <1>2, <1>4, <2>1, TidyStays, TidyNext
<1>10. DecisionsAreFollowed'
  <2> SUFFICES ASSUME NEW q \in Runs, Judged(q)'
               PROVE  Followed(q)'
    BY <1>4 DEF DecisionsAreFollowed
  <2>1. Judged(q) /\ Followed(q)
    BY <1>2 DEF InvNightShift, DecisionsAreFollowed, Judged, Decided
  <2> QED BY <1>2, <1>3, <2>1 DEF Followed, InFlight, Told, Carrying
<1> QED BY <1>1, <1>5, <1>6, <1>7, <1>8, <1>9, <1>10 DEF InvNightShift

LEMMA StartShiftNight ==
  ASSUME InvNightShift, StartNightShift
  PROVE  InvNightShift'
<1>1. InvAnyTicker /\ InvAnyTicker' /\ TypeOKNightShift /\ TypeOKNightShift'
  BY StartShiftAny DEF InvNightShift, InvAnyTicker
<1> DEFINE n == Len(shifts')
<1>2. /\ n \notin DOMAIN shifts /\ DOMAIN shifts' = DOMAIN shifts \cup {n}
      /\ \A s \in DOMAIN shifts : shifts'[s] = shifts[s]
      /\ shifts'[n] = Begun
  BY <1>1, StartShiftIs
<1>3. UNCHANGED <<decisions, reported, writes, runs, tick, ended, reports, faults>>
  BY DEF StartNightShift, reportVars
<1>4. OverStays /\ Runs' = Runs
  BY <1>1, <1>3, ConstantsAssumption DEF OverStays, TypeOKNightShift, Runs
<1>5. RunsInTurn' /\ LateIsLast'
  BY <1>4, NoLateIsSafe
<1>6. /\ ReportsAreWarranted' /\ ReadyMeansFinished'
      /\ \A s : OfShift(s)' = OfShift(s) /\ CompletedOf(s)' = CompletedOf(s)
                  /\ BlockedOf(s)' = BlockedOf(s)
  BY <1>3, <1>4, BooksStay
<1> HIDE DEF n
<1>7. OfShift(n) = {} /\ CompletedOf(n) = {} /\ BlockedOf(n) = {}
  BY <1>1, <1>2 DEF InvAnyTicker, RunsAreOfShifts, OfShift, CompletedOf, BlockedOf
<1>8. NightAddsUp'
  <2> SUFFICES ASSUME NEW s \in DOMAIN shifts'
               PROVE  Counted(s)'
    BY AddsUpNext
  <2>1. CASE s = n
    <3>1. /\ shifts'[s].attempted = 0 /\ shifts'[s].completed = 0 /\ shifts'[s].blocked = 0
      BY <1>2, <2>1 DEF Begun
    <3>2. OfShift(s)' = {} /\ CompletedOf(s)' = {} /\ BlockedOf(s)' = {}
      BY <1>6, <1>7, <2>1
    <3> QED BY <3>1, <3>2, FS_EmptySet DEF Counted
  <2>2. CASE s \in DOMAIN shifts
    <3>1. Counted(s)
      BY <2>2, AddsUpIs DEF InvNightShift
    <3> QED BY <1>2, <1>6, <2>2, <3>1 DEF Counted
  <2> QED BY <1>2, <2>1, <2>2
<1>9. TicksAreAlone'
  <2> SUFFICES ASSUME NEW k \in Ticker
               PROVE  TickIsAlone(k)'
    BY DEF TicksAreAlone
  <2>1. tick[k].step # "idle" => shifts'[tick[k].shift].attempted = shifts[tick[k].shift].attempted
    BY <1>1, <1>2 DEF InvAnyTicker, TicksAreSound, TickIsSound
  <2> QED BY <1>3, <1>4, <2>1, TickStaysAlone
<1>10. NightEndsTidy'
  <2> SUFFICES ASSUME NEW s \in DOMAIN shifts'
               PROVE  Tidy(s)'
    BY TidyNext
  <2>1. CASE s = n
    BY <1>2, <2>1 DEF Tidy, Begun
  <2>2. CASE s \in DOMAIN shifts
    <3>1. Tidy(s)
      BY <2>2, TidyIs DEF InvNightShift
    <3> QED BY <1>1, <1>2, <1>4, <2>2, <3>1, TidyStays
  <2> QED BY <1>2, <2>1, <2>2
<1>11. DecisionsAreFollowed'
  BY <1>3 DEF InvNightShift, DecisionsAreFollowed, Judged, Decided, Followed, InFlight, Told,
              Carrying, Runs
<1> QED BY <1>1, <1>5, <1>6, <1>8, <1>9, <1>10, <1>11 DEF InvNightShift

(* A night may be ended by a person at any time, and by the scheduler when all is dealt with. *)
LEMMA EndShiftNight ==
  ASSUME InvNightShift, InvAnyTicker', NEW s \in Active, NEW reason \in STOP_REASONS,
         EndShift(s, reason), TicksStayOrEnd,
         \A k \in Ticker, r \in Runs : Carrying(k, r) => tick'[k] = tick[k],
         UNCHANGED <<decisions, reported, writes, remaining, runs, reports, faults>>,
         reason # "stopped_by_user" => \A r \in OfShift(s) : TidyRun(r)
  PROVE  InvNightShift'
<1>1. InvAnyTicker /\ TypeOKNightShift /\ TypeOKNightShift' /\ s \in DOMAIN shifts
  BY DEF InvNightShift, InvAnyTicker, Active
<1>2. ShiftEnds(s, reason)
  BY <1>1, EndShiftIs
<1>3. OverStays /\ Runs' = Runs
  BY <1>1, ConstantsAssumption DEF OverStays, TypeOKNightShift, Runs
<1>4. RunsInTurn' /\ LateIsLast'
  BY <1>3, NoLateIsSafe
<1>5. /\ ReportsAreWarranted' /\ ReadyMeansFinished'
      /\ \A t : OfShift(t)' = OfShift(t) /\ CompletedOf(t)' = CompletedOf(t)
                  /\ BlockedOf(t)' = BlockedOf(t)
  BY <1>3, BooksStay
<1>6. /\ DOMAIN shifts' = DOMAIN shifts
      /\ \A t \in DOMAIN shifts :
           /\ shifts'[t].attempted = shifts[t].attempted
           /\ shifts'[t].completed = shifts[t].completed
           /\ shifts'[t].blocked = shifts[t].blocked
  BY <1>2 DEF ShiftEnds
<1>7. NightAddsUp'
  <2>1. \A t \in DOMAIN shifts : Counted(t)
    BY AddsUpIs DEF InvNightShift
  <2> QED BY <1>5, <1>6, <2>1, AddsUpNext DEF Counted
<1>8. TicksAreAlone'
  <2> SUFFICES ASSUME NEW k \in Ticker
               PROVE  TickIsAlone(k)'
    BY DEF TicksAreAlone
  <2>1. CASE tick'[k] = IdleTick
    BY <2>1, IdleIsAlone
  <2>2. CASE tick'[k] = tick[k]
    <3>1. tick[k].step # "idle" =>
            shifts'[tick[k].shift].attempted = shifts[tick[k].shift].attempted
      BY <1>1, <1>6 DEF InvAnyTicker, TicksAreSound, TickIsSound
    <3> QED BY <1>3, <2>2, <3>1, TickStaysAlone
  <2> QED BY <2>1, <2>2 DEF TicksStayOrEnd
<1>9. NightEndsTidy'
  <2> SUFFICES ASSUME NEW t \in DOMAIN shifts
               PROVE  Tidy(t)'
    BY <1>6, TidyNext
  <2>1. CASE t # s
    <3>1. Tidy(t) /\ shifts'[t] = shifts[t]
      BY <1>2, <2>1, TidyIs DEF InvNightShift, ShiftEnds
    <3> QED BY <1>1, <1>3, <3>1, TidyStays
  <2>2. CASE t = s
    <3>1. shifts'[s].stopReason = reason
      BY <1>2 DEF ShiftEnds
    <3>2. reason # "stopped_by_user" => \A r \in OfShift(s) : TidyRun(r)'
      BY <1>1, <1>3, TidyRunStays DEF OfShift
    <3> QED BY <1>5, <2>2, <3>1, <3>2 DEF Tidy
  <2> QED BY <2>1, <2>2
<1>10. DecisionsAreFollowed'
  <2> SUFFICES ASSUME NEW q \in Runs, Judged(q)'
               PROVE  Followed(q)'
    BY <1>3 DEF DecisionsAreFollowed
  <2>1. Judged(q) /\ Followed(q)
    BY DEF InvNightShift, DecisionsAreFollowed, Judged, Decided
  <2> QED BY <2>1 DEF Followed, InFlight, Told, Carrying
<1> QED BY <1>4, <1>5, <1>7, <1>8, <1>9, <1>10 DEF InvNightShift

LEMMA StopNight ==
  ASSUME InvNightShift, StopNightShift
  PROVE  InvNightShift'
<1>1. InvAnyTicker'
  BY StopAny DEF InvNightShift
<1>2. PICK s \in Active : EndShift(s, "stopped_by_user")
  BY DEF StopNightShift
<1>3. UNCHANGED <<decisions, reported, writes, remaining, runs, tick, reports, faults>>
  BY DEF StopNightShift
<1> QED BY <1>1, <1>2, <1>3, EndShiftNight DEF STOP_REASONS, TicksStayOrEnd

(* What the only ticker has found dealt with is also told, unless a fault came between. *)
LEMMA DealtIsTidy ==
  ASSUME InvNightShift, NEW r \in Runs, Dealt(r), \A k \in Ticker : ~Carrying(k, r)
  PROVE  TidyRun(r)
BY DEF InvNightShift, DecisionsAreFollowed, Followed, Dealt, TidyRun

LEMMA TickStopsNight ==
  ASSUME OneTicker, InvNightShift, NEW k \in Ticker, TickStops(k)
  PROVE  InvNightShift'
<1>1. InvAnyTicker /\ InvAnyTicker' /\ TypeOKNightShift /\ TypeOKNightShift'
  BY TickStopsAny DEF InvNightShift, InvAnyTicker
<1>2. /\ UNCHANGED <<decisions, reported, writes, remaining, runs, reports, faults>>
      /\ tick[k].does.run = NoRun
      /\ tick[k].does.reason \in {"cutoff_reached", "budget_exhausted"}
      /\ \/ \E s \in Active : EndShift(s, tick[k].does.reason)
         \/ UNCHANGED <<shifts, ended>>
  BY <1>1, TickStopsIs
<1>3. /\ TicksStayOrEnd /\ tick'[k] = IdleTick /\ tick[k].step = "decided"
      /\ TickIsSound(k)
  BY <1>1, CarryIs DEF TickStops
<1>4. \A j \in Ticker : j = k
  BY DEF OneTicker
<1>5. \A j \in Ticker, r \in Runs : ~Carrying(j, r)
  BY <1>1, <1>2, <1>4, RunsAre DEF Carrying
<1>6. TickIsAlone(k)
  BY DEF InvNightShift, TicksAreAlone
<1>7. ASSUME NEW s \in Active, EndShift(s, tick[k].does.reason)
      PROVE  InvNightShift'
  <2>1. tick[k].shift \in DOMAIN shifts /\ s = Len(shifts) /\ s \in DOMAIN shifts
    BY <1>1, <1>3 DEF TickIsSound, InvAnyTicker, ShiftsInTurn, Active
  <2>2. tick[k].shift \in Nat /\ s \in Nat /\ tick[k].shift <= s
    BY <1>1, <2>1, ShiftsAre
  <2>3. \A r \in OfShift(s) : r \in Runs /\ Dealt(r)
    <3> SUFFICES ASSUME NEW r \in OfShift(s)
                 PROVE  r \in Runs /\ Dealt(r)
      OBVIOUS
    <3>1. r \in Runs /\ runs[r].shift = s /\ s <= tick[k].shift
      BY <1>3, <1>6 DEF OfShift, TickIsAlone
    <3>2. s = tick[k].shift
      BY <2>2, <3>1
    <3> QED BY <1>2, <1>3, <1>6, <3>1, <3>2 DEF TickIsAlone
  <2>4. \A r \in OfShift(s) : TidyRun(r)
    BY <1>5, <2>3, DealtIsTidy
  <2> QED BY <1>1, <1>2, <1>3, <1>5, <1>7, <2>4, EndShiftNight DEF STOP_REASONS
<1>8. CASE UNCHANGED <<shifts, ended>>
  <2>1. OverStays /\ Runs' = Runs
    BY <1>1, <1>2, ConstantsAssumption DEF OverStays, TypeOKNightShift, Runs
  <2>2. RunsInTurn' /\ LateIsLast'
    BY <2>1, NoLateIsSafe
  <2>3. /\ ReportsAreWarranted' /\ ReadyMeansFinished'
        /\ \A t : OfShift(t)' = OfShift(t) /\ CompletedOf(t)' = CompletedOf(t)
                    /\ BlockedOf(t)' = BlockedOf(t)
    BY <1>2, <2>1, BooksStay
  <2>4. NightAddsUp'
    <3>1. \A t \in DOMAIN shifts : Counted(t)
      BY AddsUpIs DEF InvNightShift
    <3> QED BY <1>8, <2>3, <3>1, AddsUpNext DEF Counted
  <2>5. TicksAreAlone'
    BY <1>3, <1>4, IdleIsAlone DEF TicksAreAlone
  <2>6. NightEndsTidy'
    <3>1. \A t \in DOMAIN shifts : Tidy(t)
      BY TidyIs DEF InvNightShift
    <3> QED BY <1>1, <1>8, <2>1, <3>1, TidyStays, TidyNext
  <2>7. DecisionsAreFollowed'
    <3> SUFFICES ASSUME NEW q \in Runs, Judged(q)'
                 PROVE  Followed(q)'
      BY <2>1 DEF DecisionsAreFollowed
    <3>1. Judged(q) /\ Followed(q)
      BY <1>2 DEF InvNightShift, DecisionsAreFollowed, Judged, Decided
    <3> QED BY <1>2, <1>5, <3>1 DEF Followed, InFlight, Told
  <2> QED BY <1>1, <2>2, <2>3, <2>4, <2>5, <2>6, <2>7 DEF InvNightShift
<1> QED BY <1>2, <1>7, <1>8

(* A shift with no current work has none that is not dealt with: the runs before the last  *)
(* one were when it started.                                                               *)
LEMMA NoWorkIsDealt ==
  ASSUME InvNightShift, NEW s \in DOMAIN shifts,
         Listed(s) # {} => Max(Listed(s)) \in Runs /\ Dealt(Max(Listed(s))),
         NEW r \in OfShift(s)
  PROVE  Dealt(r)
<1> DEFINE last == Max(Listed(s))
<1>1. TypeOKNightShift /\ r \in Runs /\ runs[r].shift = s
  BY DEF InvNightShift, InvAnyTicker, OfShift
<1>2. CASE runs[r].status = "completed_with_gaps"
  BY <1>2 DEF Dealt, InFlight, TERMINAL
<1>3. CASE runs[r].status # "completed_with_gaps"
  <2>1. r \in Listed(s) /\ Listed(s) \in SUBSET (1..Len(runs)) /\ Len(runs) \in Nat
    BY <1>1, <1>3, RunsAre DEF Listed
  <2>2. last \in Listed(s) /\ r <= last
    BY <2>1, LastIs
  <2>3. last \in Runs /\ runs[last].shift = s /\ Dealt(last)
    BY <2>1, <2>2 DEF Listed
  <2> HIDE DEF last
  <2>4. CASE r = last
    BY <2>3, <2>4
  <2>5. CASE r # last
    <3>1. r < last
      BY <1>1, <2>2, <2>3, <2>5, RunsAre
    <3> QED BY <1>1, <2>3, <3>1 DEF InvNightShift, RunsInTurn, InTurn
  <2> QED BY <2>4, <2>5
<1> QED BY <1>2, <1>3

(* No run of a shift that is active is late, or of a later shift. *)
LEMMA ActiveIsLatest ==
  ASSUME InvAnyTicker, NEW s \in Active, NEW r \in Runs
  PROVE  runs[r].shift <= s /\ (runs[r].shift = s => ~runs[r].late)
<1>1. s = Len(shifts)
  BY DEF InvAnyTicker, ShiftsInTurn, Active
<1>2. runs[r].shift \in DOMAIN shifts
  BY DEF InvAnyTicker, RunsAreOfShifts
<1> QED BY <1>1, <1>2, ShiftsAre DEF InvAnyTicker, LateIsOver

(* Only the tick has moved: what concerns the rows is as it was. *)
LEMMA OnlyTheTick ==
  ASSUME InvNightShift, InvAnyTicker', UNCHANGED <<shifts, reported, writes, runs, faults>>,
         decisions \subseteq decisions', TicksAreAlone', DecisionsAreFollowed'
  PROVE  InvNightShift'
<1>1. TypeOKNightShift /\ TypeOKNightShift'
  BY DEF InvNightShift, InvAnyTicker
<1>2. OverStays /\ Runs' = Runs
  BY <1>1, ConstantsAssumption DEF OverStays, TypeOKNightShift, Runs
<1>3. RunsInTurn' /\ LateIsLast'
  BY <1>2, NoLateIsSafe
<1>4. ReportsAreWarranted'
  BY DEF InvNightShift, ReportsAreWarranted, Warranted, Decided, Runs
<1>5. ReadyMeansFinished'
  BY DEF InvNightShift, ReadyMeansFinished, Runs
<1>6. NightAddsUp'
  BY DEF InvNightShift, NightAddsUp, OfShift, Runs
<1>7. NightEndsTidy'
  <2>1. \A s \in DOMAIN shifts : Tidy(s)
    BY TidyIs DEF InvNightShift
  <2> QED BY <1>1, <1>2, <2>1, TidyStays, TidyNext
<1> QED BY <1>3, <1>4, <1>5, <1>6, <1>7 DEF InvNightShift

LEMMA GathersNight ==
  ASSUME OneTicker, InvNightShift, NEW k \in Ticker, TickGathers(k)
  PROVE  InvNightShift'
<1>1. InvAnyTicker /\ InvAnyTicker' /\ TypeOKNightShift
  BY GathersAny DEF InvNightShift, InvAnyTicker
<1>2. PICK s \in Active :
           /\ tick' \in [Ticker -> TickRow]
           /\ \A j \in Ticker \ {k} : tick'[j] = tick[j]
           /\ tick'[k].step = "gathered" /\ tick'[k].shift = s
           /\ tick'[k].attempted = shifts[s].attempted
           /\ tick'[k].does = LoadCurrentWork(s)
  BY <1>1, GathersIs
<1>3. UNCHANGED <<shifts, decisions, reported, writes, remaining, runs, ended, reports, faults>>
  BY DEF TickGathers, shiftVars, reportVars
<1>4. s \in DOMAIN shifts /\ \A j \in Ticker : j = k
  BY DEF Active, OneTicker
<1> DEFINE does == LoadCurrentWork(s)
<1>5. \/ /\ does = Wait
         /\ Listed(s) # {} => Max(Listed(s)) \in Runs /\ Dealt(Max(Listed(s)))
      \/ \E r \in OfShift(s) : InFlight(r) /\ Works(does, "wait", r)
      \/ \E r \in OfShift(s) :
           /\ ~InFlight(r) /\ ~runs[r].blockers /\ ~Decided(r, "finalise")
           /\ Works(does, "finalise", r)
      \/ \E r \in OfShift(s) :
           /\ ~InFlight(r) /\ runs[r].blockers /\ ~Decided(r, "record_blocker")
           /\ Works(does, "record_blocker", r)
  BY <1>1, <1>4, CurrentWorkIs
<1> HIDE DEF does
<1>6. Wait.run = NoRun /\ Wait.action = "wait"
  BY DEF Wait
<1>7. \A r \in OfShift(s) : r \in Runs /\ r # NoRun /\ runs[r].blockers \in BOOLEAN
  BY <1>1, RunsAre DEF OfShift, Run
<1>8. does.run = NoRun => \A r \in OfShift(s) : Dealt(r)
  BY <1>4, <1>5, <1>7, NoWorkIsDealt DEF Works
<1>9. does.action \in {"wait", "finalise", "record_blocker"}
  BY <1>5, <1>6 DEF Works
<1>10. does.action = "finalise" =>
         /\ ~InFlight(does.run) /\ runs[does.run].blockers = FALSE
         /\ <<does.run, "task_switched">> \notin reported
  BY <1>5, <1>6, <1>7 DEF Works, InvNightShift, ReportsAreWarranted, Warranted
<1>11. does.action = "record_blocker" =>
         /\ ~InFlight(does.run) /\ runs[does.run].blockers = TRUE
         /\ <<does.run, "blocker_recorded">> \notin reported
  BY <1>5, <1>6, <1>7 DEF Works, InvNightShift, ReportsAreWarranted, Warranted
<1>12. TickIsAlone(k)'
  <2>1. /\ \A r \in Runs : runs[r].shift <= s
        /\ \A r \in OfShift(s) : ~runs[r].late
    BY <1>1, ActiveIsLatest DEF OfShift
  <2>2. does = tick'[k].does
    BY <1>2 DEF does
  <2> QED
    BY <1>2, <1>3, <1>8, <1>9, <1>10, <1>11, <2>1, <2>2
    DEF TickIsAlone, AboutToReport, OfShift, Runs, Dealt, Judged, Decided, InFlight
<1>13. DecisionsAreFollowed'
  <2> SUFFICES ASSUME NEW q \in Runs, Judged(q)'
               PROVE  Followed(q)'
    BY <1>3 DEF DecisionsAreFollowed, Runs
  <2>1. Followed(q)
    BY <1>3 DEF InvNightShift, DecisionsAreFollowed, Judged, Decided
  <2>2. ~Carrying(k, q)
    BY DEF Carrying, TickGathers
  <2> QED BY <1>3, <1>4, <2>1, <2>2 DEF Followed, InFlight, Told
<1> QED BY <1>1, <1>3, <1>4, <1>12, <1>13, OnlyTheTick DEF TicksAreAlone

LEMMA DecidesNight ==
  ASSUME OneTicker, InvNightShift, NEW k \in Ticker, TickDecides(k)
  PROVE  InvNightShift'
<1>1. InvAnyTicker /\ InvAnyTicker' /\ TypeOKNightShift /\ TickIsSound(k) /\ TickIsAlone(k)
  BY DecidesAny DEF InvNightShift, InvAnyTicker, TicksAreSound, TicksAreAlone
<1>2. PICK d : Resolved(k, d)
  BY <1>1, DecidesIs
<1>3. /\ tick[k].step = "gathered"
      /\ UNCHANGED <<shifts, reported, writes, remaining, runs, ended, reports, faults>>
  BY <1>1, DecidesIs
<1>4. \A j \in Ticker : j = k
  BY DEF OneTicker
<1> DEFINE s == tick[k].shift
<1>5. /\ d.action # "wait" => tick'[k].step = "decided" /\ tick'[k].does = d
                                /\ tick'[k].shift = s /\ tick'[k].attempted = tick[k].attempted
      /\ d.action = "wait" => tick'[k] = IdleTick
  BY <1>2 DEF Resolved
<1>6. decisions \subseteq decisions'
  BY <1>2 DEF Resolved
<1>7. TickIsAlone(k)'
  <2>1. CASE d.action = "wait"
    BY <1>5, <2>1, IdleIsAlone
  <2>2. CASE d.action # "wait"
    <3>1. \/ tick[k].does.run # NoRun /\ d = tick[k].does
          \/ tick[k].does.run = NoRun /\ d.run = NoRun /\ (Starts(d, s) \/ Stops(d))
      BY <1>2, <2>2 DEF Resolved, Wait
    <3>2. /\ tick'[k].attempted = shifts[s].attempted
          /\ \A r \in Runs : runs[r].shift <= s
          /\ \A r \in Runs : runs[r].shift = s => ~runs[r].late
      BY <1>1, <1>3, <1>5, <2>2 DEF TickIsAlone, OfShift
    <3>3. d.run = NoRun => \A r \in Runs : runs[r].shift = s => Dealt(r)'
      <4>1. d.run = NoRun => \A r \in Runs : runs[r].shift = s => Dealt(r)
        BY <1>1, <1>3, <3>1 DEF TickIsAlone, OfShift
      <4> QED BY <1>3, <1>6, <4>1 DEF Dealt, InFlight, Judged, Decided
    <3>4. d.action = "start" => \A r \in Runs : runs[r].shift = s => runs[r].task # d.task
      BY <1>1, <1>3, <3>1 DEF Starts, Stops, OfShift, TickIsSound
    <3>5. /\ d.action = "finalise" => AboutToReport(k, "finalise", "task_switched", FALSE)
          /\ d.action = "record_blocker" =>
               AboutToReport(k, "record_blocker", "blocker_recorded", TRUE)
          /\ d.action \in {"finalise", "record_blocker"} => d = tick[k].does
      BY <1>1, <1>3, <3>1 DEF Starts, Stops, TickIsAlone
    <3>6. /\ d.action = "finalise" => AboutToReport(k, "finalise", "task_switched", FALSE)'
          /\ d.action = "record_blocker" =>
               AboutToReport(k, "record_blocker", "blocker_recorded", TRUE)'
      <4>1. d.action \in {"finalise", "record_blocker"} =>
              \E entry \in decisions' : entry.run = d.run /\ entry.action = d.action
        BY <1>2 DEF Resolved
      <4> QED BY <1>3, <1>5, <2>2, <3>5, <4>1 DEF AboutToReport, InFlight, Decided
    <3> QED
      BY <1>3, <1>5, <2>2, <3>2, <3>3, <3>4, <3>6 DEF TickIsAlone, OfShift, Runs
  <2> QED BY <2>1, <2>2
<1>8. DecisionsAreFollowed'
  <2> SUFFICES ASSUME NEW q \in Runs, Judged(q)'
               PROVE  Followed(q)'
    BY <1>3 DEF DecisionsAreFollowed, Runs
  <2>1. CASE Judged(q)
    <3>1. Followed(q) /\ ~Carrying(k, q)
      BY <1>3, <2>1 DEF InvNightShift, DecisionsAreFollowed, Carrying
    <3> QED BY <1>3, <1>4, <3>1 DEF Followed, InFlight, Told
  <2>2. CASE ~Judged(q)
    <3>1. d.action \notin {"wait", "stop"} /\ d.run = q /\ d.action \in {"finalise", "record_blocker"}
      BY <1>2, <2>2 DEF Resolved, Judged, Decided
    <3>2. d = tick[k].does
      BY <1>2, <3>1 DEF Resolved, Starts, Stops, Wait
    <3>3. ~InFlight(q)
      BY <1>1, <1>3, <3>1, <3>2 DEF TickIsAlone, AboutToReport
    <3>4. tick'[k].step = "decided" /\ tick'[k].does.run = q
      BY <1>5, <3>1
    <3> QED BY <1>3, <3>3, <3>4 DEF Followed, InFlight, Carrying
  <2> QED BY <2>1, <2>2
<1> QED BY <1>1, <1>3, <1>4, <1>6, <1>7, <1>8, OnlyTheTick DEF TicksAreAlone

LEMMA StartsNight ==
  ASSUME OneTicker, InvNightShift, NEW k \in Ticker, StartSelectedTask(k)
  PROVE  InvNightShift'
<1>0. PICK n, s, t : n = Len(runs) + 1 /\ s = tick[k].shift /\ t = tick[k].does.task
  OBVIOUS
<1>1. InvAnyTicker /\ InvAnyTicker' /\ TypeOKNightShift /\ TypeOKNightShift' /\ TickIsAlone(k)
  BY StartsAny DEF InvNightShift, InvAnyTicker, TicksAreAlone
<1>2. RunStarts(k, n) /\ Carry(k, "start")
  BY <1>0, <1>1, StartsIs
<1>3. /\ tick'[k] = IdleTick /\ tick[k].step = "decided" /\ tick[k].does.action = "start"
      /\ tick[k].does.run = NoRun
  BY <1>1, <1>2, CarryIs DEF TickIsSound
<1>4. \A j \in Ticker : j = k
  BY DEF OneTicker
<1>5. /\ tick[k].attempted = shifts[s].attempted
      /\ \A r \in OfShift(s) : ~runs[r].late /\ Dealt(r) /\ runs[r].task # t
  BY <1>0, <1>1, <1>3 DEF TickIsAlone
<1>6. /\ n \notin Runs /\ Runs' = Runs \cup {n} /\ n \in Nat
      /\ \A r \in Runs : runs'[r] = runs[r] /\ r < n /\ r \in Nat
      /\ runs'[n].task = t /\ runs'[n].shift = s
      /\ runs'[n].late = (shifts[s].status # "running")
      /\ UNCHANGED <<reported, decisions, remaining, ended, reports, faults>>
  BY <1>0, <1>1, <1>2, RunsAre DEF RunStarts, RunForTask
<1>7. OverStays
  BY <1>1, <1>6, ConstantsAssumption DEF OverStays, TypeOKNightShift
<1>8. RunsInTurn'
  <2> SUFFICES ASSUME NEW a \in Runs', NEW b \in Runs', a < b, runs'[a].shift = runs'[b].shift
               PROVE  InTurn(a, b)'
    BY DEF RunsInTurn
  <2>1. CASE b = n
    <3>1. a \in Runs /\ a \in OfShift(s)
      BY <1>6, <2>1 DEF OfShift
    <3>2. Dealt(a)'
      BY <1>5, <1>7, <3>1, DealtStays
    <3> QED BY <1>5, <1>6, <2>1, <3>1, <3>2 DEF InTurn
  <2>2. CASE b \in Runs
    <3>1. a \in Runs
      BY <1>6, <2>2
    <3>2. InTurn(a, b)
      BY <1>6, <2>2, <3>1 DEF InvNightShift, RunsInTurn
    <3> QED BY <1>6, <1>7, <2>2, <3>1, <3>2, DealtStays DEF InTurn
  <2> QED BY <1>6, <2>1, <2>2
<1>9. ReportsAreWarranted'
  <2> SUFFICES ASSUME NEW r \in Runs'
               PROVE  Warranted(r)'
    BY DEF ReportsAreWarranted
  <2>1. CASE r = n
    BY <1>1, <1>6, <2>1 DEF Warranted, TypeOKNightShift
  <2>2. CASE r \in Runs
    <3>1. Warranted(r)
      BY <2>2 DEF InvNightShift, ReportsAreWarranted
    <3> QED BY <1>6, <2>2, <3>1 DEF Warranted, Decided
  <2> QED BY <1>6, <2>1, <2>2
<1>10. DecisionsAreFollowed'
  <2> SUFFICES ASSUME NEW q \in Runs', Judged(q)'
               PROVE  Followed(q)'
    BY DEF DecisionsAreFollowed
  <2>1. Judged(q)
    BY <1>6 DEF Judged, Decided
  <2>2. q \in Runs
    BY <1>1, <1>6, <2>1, ConstantsAssumption DEF InvAnyTicker, DecisionsAreOfRuns, Judged, Decided
  <2>3. Followed(q) /\ ~Carrying(k, q)
    BY <1>1, <1>3, <2>1, <2>2, RunsAre DEF InvNightShift, DecisionsAreFollowed, Carrying
  <2> QED BY <1>4, <1>6, <2>2, <2>3 DEF Followed, InFlight, Told
<1>11. LateIsLast'
  BY <1>5, <1>6 DEF InvNightShift, LateIsLast, OfShift
<1>12. TicksAreAlone'
  BY <1>3, <1>4, IdleIsAlone DEF TicksAreAlone
<1>13. \A u : u # s => OfShift(u)' = OfShift(u)
  BY <1>6 DEF OfShift
<1>14. OfShift(s)' = OfShift(s) \cup {n} /\ n \notin OfShift(s)
  BY <1>6 DEF OfShift
<1>15. \A u : CompletedOf(u)' = CompletedOf(u) /\ BlockedOf(u)' = BlockedOf(u)
  <2> SUFFICES ASSUME NEW u
               PROVE  CompletedOf(u)' = CompletedOf(u) /\ BlockedOf(u)' = BlockedOf(u)
    OBVIOUS
  <2>1. \A event : <<n, event>> \notin reported
    BY <1>1, <1>6 DEF TypeOKNightShift
  <2> QED BY <1>6, <2>1 DEF CompletedOf, BlockedOf, OfShift
<1>16. s \in DOMAIN shifts /\ shifts[s] \in NightShiftRow
  BY <1>0, <1>1, <1>2, ShiftsAre DEF RunStarts
<1>17. /\ DOMAIN shifts' = DOMAIN shifts
       /\ \A u \in DOMAIN shifts \ {s} : shifts'[u] = shifts[u]
       /\ shifts'[s].attempted = shifts[s].attempted + 1
       /\ shifts'[s].completed = shifts[s].completed /\ shifts'[s].blocked = shifts[s].blocked
       /\ shifts'[s].stopReason = shifts[s].stopReason
  BY <1>0, <1>2, <1>5, <1>16 DEF RunStarts, NightShiftRow
<1>18. NightAddsUp'
  <2> SUFFICES ASSUME NEW u \in DOMAIN shifts
               PROVE  Counted(u)'
    BY <1>17, AddsUpNext
  <2>1. Counted(u)
    BY AddsUpIs DEF InvNightShift
  <2>2. CASE u # s
    BY <1>13, <1>15, <1>17, <2>1, <2>2 DEF Counted
  <2>3. CASE u = s
    <3>1. Cardinality(OfShift(s) \cup {n}) = Cardinality(OfShift(s)) + 1
      BY <1>1, <1>14, OfShiftIsFinite, FS_AddElement
    <3> QED BY <1>14, <1>15, <1>17, <2>1, <2>3, <3>1 DEF Counted
  <2> QED BY <2>2, <2>3
<1>19. ReadyMeansFinished'
  <2> SUFFICES ASSUME NEW r \in Runs', <<r, "ready_for_review">> \in writes'
               PROVE  (runs[r].status = "completed" /\ ~runs[r].blockers)'
    BY DEF ReadyMeansFinished
  <2>1. <<r, "ready_for_review">> \in writes
    BY <1>2 DEF RunStarts, Queue
  <2>2. r \in Runs
    BY <1>1, <2>1 DEF TypeOKNightShift
  <2> QED BY <1>6, <2>1, <2>2 DEF InvNightShift, ReadyMeansFinished
<1>20. NightEndsTidy'
  <2> SUFFICES ASSUME NEW u \in DOMAIN shifts, NEW r \in Runs', runs'[r].shift = u, ~runs'[r].late,
                      shifts'[u].stopReason \in {"cutoff_reached", "budget_exhausted"}
               PROVE  TidyRun(r)'
    BY <1>17, TidyNext DEF Tidy, OfShift
  <2>1. shifts[u].stopReason \in {"cutoff_reached", "budget_exhausted"}
    BY <1>17
  <2>2. CASE r \in Runs
    <3>1. r \in OfShift(u) /\ ~runs[r].late
      BY <1>6, <2>2 DEF OfShift
    <3>2. TidyRun(r)
      BY <2>1, <3>1, TidyIs DEF InvNightShift, Tidy
    <3> QED BY <1>1, <1>7, <2>2, <3>2, TidyRunStays
  <2>3. CASE r = n
    <3>1. u = s /\ shifts[s].status = "running" /\ s \in Active
      BY <1>6, <1>16, <2>3 DEF Active
    <3>2. shifts[s].stopReason = "null"
      BY <1>1, <1>16, <3>1 DEF InvAnyTicker, ShiftsInTurn
    <3> QED BY <2>1, <3>1, <3>2
  <2> QED BY <1>6, <2>2, <2>3
<1> QED
  BY <1>1, <1>8, <1>9, <1>10, <1>11, <1>12, <1>18, <1>19, <1>20 DEF InvNightShift

(* A report of a run that has none of its kind yet. *)
ReportIsDue(r, event, completed, blocked, kinds) ==
  /\ ~InFlight(r) /\ <<r, event>> \notin reported
  /\ \/ /\ event = "task_switched" /\ Decided(r, "finalise") /\ ~runs[r].blockers
        /\ completed = (IF runs[r].status = "completed" THEN 1 ELSE 0) /\ blocked = 0
        /\ "ready_for_review" \in kinds => runs[r].status = "completed"
     \/ /\ event = "blocker_recorded" /\ Decided(r, "record_blocker") /\ runs[r].blockers
        /\ completed = 0 /\ blocked = 1
        /\ "ready_for_review" \notin kinds

LEMMA ReportsNight ==
  ASSUME OneTicker, InvNightShift, InvAnyTicker', NEW k \in Ticker, NEW action, Carry(k, action),
         NEW event, NEW completed, NEW blocked, NEW kinds,
         RunReported(k, event, completed, blocked, kinds),
         ReportIsDue(tick[k].does.run, event, completed, blocked, kinds)
  PROVE  InvNightShift'
<1>0. PICK s, r : s = tick[k].shift /\ r = tick[k].does.run
  OBVIOUS
<1>1. InvAnyTicker /\ TypeOKNightShift /\ TypeOKNightShift'
  BY DEF InvNightShift, InvAnyTicker
<1>2. tick'[k] = IdleTick /\ \A j \in Ticker : j = k
  BY <1>1, CarryIs DEF OneTicker
<1>3. /\ s \in DOMAIN shifts /\ r \in Runs /\ runs[r].shift = s /\ r \in OfShift(s)
      /\ DOMAIN shifts' = DOMAIN shifts
      /\ \A u \in DOMAIN shifts \ {s} : shifts'[u] = shifts[u]
      /\ shifts'[s].completed = shifts[s].completed + completed
      /\ shifts'[s].blocked = shifts[s].blocked + blocked
      /\ shifts'[s].stopReason = shifts[s].stopReason
      /\ shifts'[s].attempted = shifts[s].attempted
      /\ reported' = reported \cup {<<r, event>>}
      /\ UNCHANGED <<runs, decisions, remaining, ended, reports, faults>>
  BY <1>0 DEF RunReported, OfShift
<1>4. /\ ~InFlight(r) /\ <<r, event>> \notin reported
      /\ \/ /\ event = "task_switched" /\ Decided(r, "finalise") /\ ~runs[r].blockers
            /\ completed = (IF runs[r].status = "completed" THEN 1 ELSE 0) /\ blocked = 0
            /\ "ready_for_review" \in kinds => runs[r].status = "completed"
         \/ /\ event = "blocker_recorded" /\ Decided(r, "record_blocker") /\ runs[r].blockers
            /\ completed = 0 /\ blocked = 1
            /\ "ready_for_review" \notin kinds
  BY <1>0 DEF ReportIsDue
<1>5. writes' \subseteq writes \cup ({r} \X kinds)
  BY <1>0 DEF RunReported, Queue
<1>6. OverStays /\ Runs' = Runs
  BY <1>1, <1>3, ConstantsAssumption DEF OverStays, TypeOKNightShift, Runs
<1>7. RunsInTurn' /\ LateIsLast'
  BY <1>6, NoLateIsSafe
<1>8. ReportsAreWarranted'
  <2> SUFFICES ASSUME NEW q \in Runs
               PROVE  Warranted(q)'
    BY <1>6 DEF ReportsAreWarranted
  <2>1. Warranted(q)
    BY DEF InvNightShift, ReportsAreWarranted
  <2> QED BY <1>3, <1>4, <2>1 DEF Warranted, Decided
<1>9. DecisionsAreFollowed'
  <2> SUFFICES ASSUME NEW q \in Runs, Judged(q)'
               PROVE  Followed(q)'
    BY <1>6 DEF DecisionsAreFollowed
  <2>1. Judged(q) /\ Followed(q)
    BY <1>3 DEF InvNightShift, DecisionsAreFollowed, Judged, Decided
  <2>2. CASE q = r
    BY <1>3, <1>4, <2>2 DEF Followed, InFlight, Told
  <2>3. CASE q # r
    <3>1. ~Carrying(k, q)
      BY <1>0, <2>3 DEF Carrying
    <3> QED BY <1>2, <1>3, <2>1, <3>1 DEF Followed, InFlight, Told
  <2> QED BY <2>2, <2>3
<1>10. TicksAreAlone'
  BY <1>2, IdleIsAlone DEF TicksAreAlone
<1>11. \A u : OfShift(u)' = OfShift(u)
  BY <1>3 DEF OfShift, Runs
<1>12. \A u : u # s => CompletedOf(u)' = CompletedOf(u) /\ BlockedOf(u)' = BlockedOf(u)
  <2> SUFFICES ASSUME NEW u, u # s
               PROVE  CompletedOf(u)' = CompletedOf(u) /\ BlockedOf(u)' = BlockedOf(u)
    OBVIOUS
  <2>1. \A q \in OfShift(u) : q # r
    BY <1>3 DEF OfShift
  <2>2. \A q \in OfShift(u), e \in {"task_switched", "blocker_recorded"} :
          <<q, e>> \in reported' <=> <<q, e>> \in reported
    BY <1>3, <2>1
  <2> QED BY <1>3, <1>11, <2>2 DEF CompletedOf, BlockedOf
<1>13. Counted(s)'
  <2>1. /\ Counted(s) /\ IsFiniteSet(CompletedOf(s)) /\ IsFiniteSet(BlockedOf(s))
        /\ Cardinality(CompletedOf(s)) \in Nat /\ Cardinality(BlockedOf(s)) \in Nat
    BY <1>1, <1>3, AddsUpIs, OfShiftIsFinite DEF InvNightShift
  <2>2. CASE event = "task_switched"
    <3>1. BlockedOf(s)' = BlockedOf(s)
      BY <1>3, <1>11, <2>2 DEF BlockedOf
    <3>2. r \notin BlockedOf(s)
      BY <1>3, <1>4, <2>2 DEF BlockedOf, InvNightShift, ReportsAreWarranted, Warranted
    <3>3. r \notin CompletedOf(s)
      BY <1>4, <2>2 DEF CompletedOf
    <3>4. CASE runs[r].status = "completed"
      <4>1. CompletedOf(s)' = CompletedOf(s) \cup {r}
        BY <1>3, <1>11, <2>2, <3>4 DEF CompletedOf
      <4>2. Cardinality(CompletedOf(s) \cup {r}) = Cardinality(CompletedOf(s)) + 1
        BY <2>1, <3>3, FS_AddElement
      <4>3. shifts'[s].completed = shifts[s].completed + 1
              /\ shifts'[s].blocked = shifts[s].blocked + 0
        BY <1>3, <1>4, <2>2, <3>4
      <4> QED BY <1>3, <1>11, <2>1, <3>1, <3>2, <4>1, <4>2, <4>3 DEF Counted
    <3>5. CASE runs[r].status # "completed"
      <4>1. CompletedOf(s)' = CompletedOf(s)
        BY <1>3, <1>11, <2>2, <3>5 DEF CompletedOf
      <4>2. shifts'[s].completed = shifts[s].completed + 0
              /\ shifts'[s].blocked = shifts[s].blocked + 0
        BY <1>3, <1>4, <2>2, <3>5
      <4> QED BY <1>3, <1>11, <2>1, <3>1, <4>1, <4>2 DEF Counted
    <3> QED BY <3>4, <3>5
  <2>3. CASE event = "blocker_recorded"
    <3>1. CompletedOf(s)' = CompletedOf(s)
      BY <1>3, <1>11, <2>3 DEF CompletedOf
    <3>2. r \notin CompletedOf(s)
      BY <1>3, <1>4, <2>3 DEF CompletedOf, InvNightShift, ReportsAreWarranted, Warranted
    <3>3. r \notin BlockedOf(s)
      BY <1>4, <2>3 DEF BlockedOf
    <3>4. BlockedOf(s)' = BlockedOf(s) \cup {r}
      BY <1>3, <1>11, <2>3 DEF BlockedOf
    <3>5. Cardinality(BlockedOf(s) \cup {r}) = Cardinality(BlockedOf(s)) + 1
      BY <2>1, <3>3, FS_AddElement
    <3>6. shifts'[s].completed = shifts[s].completed + 0 /\ shifts'[s].blocked = shifts[s].blocked + 1
      BY <1>3, <1>4, <2>3
    <3> QED BY <1>3, <1>11, <2>1, <3>1, <3>2, <3>4, <3>5, <3>6 DEF Counted
  <2> QED BY <1>4, <2>2, <2>3
<1>14. NightAddsUp'
  <2> SUFFICES ASSUME NEW u \in DOMAIN shifts
               PROVE  Counted(u)'
    BY <1>3, AddsUpNext
  <2>1. CASE u # s
    <3>1. Counted(u)
      BY AddsUpIs DEF InvNightShift
    <3> QED BY <1>3, <1>11, <1>12, <2>1, <3>1 DEF Counted
  <2>2. CASE u = s
    BY <1>13, <2>2
  <2> QED BY <2>1, <2>2
<1>15. ReadyMeansFinished'
  <2> SUFFICES ASSUME NEW q \in Runs, <<q, "ready_for_review">> \in writes'
               PROVE  runs[q].status = "completed" /\ ~runs[q].blockers
    BY <1>3, <1>6 DEF ReadyMeansFinished
  <2>1. CASE <<q, "ready_for_review">> \in writes
    BY <2>1 DEF InvNightShift, ReadyMeansFinished
  <2>2. CASE q = r /\ "ready_for_review" \in kinds
    BY <1>4, <2>2
  <2> QED BY <1>5, <2>1, <2>2
<1>16. NightEndsTidy'
  <2> SUFFICES ASSUME NEW u \in DOMAIN shifts
               PROVE  Tidy(u)'
    BY <1>3, TidyNext
  <2>1. Tidy(u) /\ shifts'[u].stopReason = shifts[u].stopReason
    BY <1>3, TidyIs DEF InvNightShift
  <2> QED BY <1>1, <1>6, <2>1, TidyStays
<1> QED BY <1>7, <1>8, <1>9, <1>10, <1>14, <1>15, <1>16 DEF InvNightShift

LEMMA FinalisesNight ==
  ASSUME OneTicker, InvNightShift, NEW k \in Ticker, FinaliseRun(k)
  PROVE  InvNightShift'
<1> DEFINE r == tick[k].does.run
           done == runs[r].status = "completed"
<1>1. InvAnyTicker /\ TickIsAlone(k)
  BY DEF InvNightShift, TicksAreAlone
<1>2. /\ Carry(k, "finalise")
      /\ RunReported(k, "task_switched", IF done THEN 1 ELSE 0, 0,
                     IF done THEN {"ready_for_review", "update"} ELSE {"update"})
  BY <1>1, FinalisesIs
<1>3. /\ tick[k].step = "decided" /\ tick[k].does.action = "finalise" /\ TickIsSound(k)
      /\ r \in Runs
  BY <1>1, <1>2, CarryIs DEF TickIsSound
<1>4. ~InFlight(r) /\ runs[r].blockers = FALSE /\ <<r, "task_switched">> \notin reported
  BY <1>1, <1>3 DEF TickIsAlone, AboutToReport
<1>5. Decided(r, "finalise")
  BY <1>1, <1>3 DEF TickIsAlone, AboutToReport
<1>6. ReportIsDue(r, "task_switched", IF done THEN 1 ELSE 0, 0,
                  IF done THEN {"ready_for_review", "update"} ELSE {"update"})
  BY <1>4, <1>5 DEF ReportIsDue
<1>7. InvAnyTicker'
  BY <1>1, NextAny DEF NextNightShift, TickStep
<1> HIDE DEF done
<1> QED BY <1>2, <1>6, <1>7, ReportsNight

LEMMA RecordsBlockedNight ==
  ASSUME OneTicker, InvNightShift, NEW k \in Ticker, RecordRunBlocked(k)
  PROVE  InvNightShift'
<1> DEFINE r == tick[k].does.run
<1>1. InvAnyTicker /\ TickIsAlone(k)
  BY DEF InvNightShift, TicksAreAlone
<1>2. /\ Carry(k, "record_blocker")
      /\ RunReported(k, "blocker_recorded", 0, 1, {"blocked", "update"})
  BY <1>1, RecordsBlockedIs
<1>3. /\ tick[k].step = "decided" /\ tick[k].does.action = "record_blocker" /\ TickIsSound(k)
      /\ r \in Runs
  BY <1>1, <1>2, CarryIs DEF TickIsSound
<1>4. ~InFlight(r) /\ runs[r].blockers = TRUE /\ <<r, "blocker_recorded">> \notin reported
  BY <1>1, <1>3 DEF TickIsAlone, AboutToReport
<1>5. Decided(r, "record_blocker")
  BY <1>1, <1>3 DEF TickIsAlone, AboutToReport
<1>6. ReportIsDue(r, "blocker_recorded", 0, 1, {"blocked", "update"})
  BY <1>4, <1>5 DEF ReportIsDue
<1>7. InvAnyTicker'
  BY <1>1, NextAny DEF NextNightShift, TickStep
<1> QED BY <1>2, <1>6, <1>7, ReportsNight

LEMMA NextNight ==
  ASSUME OneTicker, InvNightShift, [NextNightShift]_nightVars
  PROVE  InvNightShift'
<1>1. CASE StartNightShift
  BY <1>1, StartShiftNight
<1>2. CASE StopNightShift
  BY <1>2, StopNight
<1>3. ASSUME NEW k \in Ticker, TickStep(k)
      PROVE  InvNightShift'
  BY <1>3, GathersNight, DecidesNight, StartsNight, FinalisesNight, RecordsBlockedNight,
     TickStopsNight DEF TickStep
<1>4. CASE \/ \E s \in DOMAIN shifts : DeliverOvernightReport(s) \/ ReportFails(s)
           \/ \E k \in Ticker : TickFails(k)
           \/ RestartNightShift \/ TimePasses
  BY <1>4, QuietNight
<1>5. CASE \E r \in Runs : RunStep(r)
  BY <1>5, RunStepNight
<1>6. CASE UNCHANGED nightVars
  <2>1. UNCHANGED <<shifts, decisions, reported, writes, remaining, runs, tick, ended, reports,
                    faults>>
    BY <1>6 DEF nightVars, shiftVars, reportVars
  <2>2. InvAnyTicker'
    BY <1>6, NextAny DEF InvNightShift
  <2>3. TicksAreAlone'
    BY <2>1 DEF InvNightShift, TicksAreAlone, TickIsAlone, AboutToReport, OfShift, Dealt, Judged,
                Decided, InFlight, Runs
  <2>4. DecisionsAreFollowed'
    BY <2>1 DEF InvNightShift, DecisionsAreFollowed, Judged, Decided, Followed, InFlight, Told,
                Carrying, Runs
  <2> QED BY <2>1, <2>2, <2>3, <2>4, OnlyTheTick
<1> QED BY <1>1, <1>2, <1>3, <1>4, <1>5, <1>6 DEF NextNightShift

LEMMA InitNight == InitNightShift => InvNightShift
<1> SUFFICES ASSUME InitNightShift
             PROVE  InvNightShift
  OBVIOUS
<1>1. Runs = {} /\ shifts = <<>> /\ DOMAIN shifts = {}
  BY DEF InitNightShift, Runs
<1>2. TicksAreAlone
  BY IdleIsTyped DEF InitNightShift, TicksAreAlone, TickIsAlone
<1>3. NightAddsUp /\ NightEndsTidy
  BY <1>1, AddsUpIs, TidyIs
<1> QED
  BY <1>1, <1>2, <1>3, InitAny
  DEF InvNightShift, RunsInTurn, ReportsAreWarranted, DecisionsAreFollowed, LateIsLast,
      ReadyMeansFinished

LEMMA NightInvariance ==
  ASSUME OneTicker
  PROVE  SpecNightShift => []InvNightShift
<1>1. InvNightShift /\ [NextNightShift]_nightVars => InvNightShift'
  BY NextNight
<1> QED BY <1>1, InitNight, PTL DEF SpecNightShift

LEMMA NightIs ==
  ASSUME InvNightShift
  PROVE  NightIsAccounted
<1>1. EachTaskOnceAndInTurn
  BY DEF InvNightShift, EachTaskOnceAndInTurn, RunsInTurn, InTurn, Dealt, OfShift
<1>2. StopIsObeyed
  <2> SUFFICES ASSUME NEW s \in DOMAIN shifts
               PROVE  Cardinality({r \in OfShift(s) : runs[r].late}) <= 1
    BY DEF StopIsObeyed
  <2> DEFINE late == {r \in OfShift(s) : runs[r].late}
  <2>1. CASE late = {}
    <3>1. Cardinality({}) = 0
      BY FS_EmptySet
    <3> HIDE DEF late
    <3>2. Cardinality(late) <= 1
      BY <2>1, <3>1
    <3> QED BY <3>2 DEF late
  <2>2. CASE late # {}
    <3>1. PICK q : q \in late
      BY <2>2
    <3>2. late = {q}
      BY <3>1 DEF InvNightShift, LateIsLast, OfShift
    <3>3. Cardinality({q}) = 1
      BY FS_Singleton
    <3> HIDE DEF late
    <3>4. Cardinality(late) <= 1
      BY <3>2, <3>3
    <3> QED BY <3>4 DEF late
  <2> QED BY <2>1, <2>2
<1> QED BY <1>1, <1>2 DEF NightIsAccounted, InvNightShift

(* While one ticker works the night, however stale what it reads and wherever it dies: no   *)
(* task is worked on twice or beside another, the counters add up, Ready for Review means    *)
(* finished, the scheduler leaves nothing in flight or untold, and a person's stop is obeyed *)
(* but for one run (services/night-shift.ts).                                               *)
THEOREM TheNightIsAccounted ==
  ASSUME OneTicker
  PROVE  SpecNightShift => []NightIsAccounted
<1>1. InvNightShift => NightIsAccounted
  BY NightIs
<1> QED BY <1>1, NightInvariance, PTL

-----------------------------------------------------------------------------
(* Third: that a general run is honest.                                    *)

(* Where a request can be, and what it holds there. *)
Shaped(r) ==
    /\ r.kind = "idle" => r = IdleHandler
    /\ r.kind = "step" => r.at \in {"begin", "work", "finish"}
    /\ r.kind = "review" => r.at \in {"evidence", "persist", "remedy"}
    /\ r.kind = "complete" => r.at \in {"evidence", "persist", "close"} /\ r.outcome # "none"
    /\ r.stored > 0 => r.kind = "step" /\ r.at = "work"
    /\ r.at \in {"work", "finish"} => r.read.plan = "pinned"
    /\ r.at = "work" => r.action # "stop" /\ r.read.steps < MaxSteps
    /\ r.at = "finish" => r.calls = r.read.calls /\ r.read.steps = MaxSteps
    /\ r.at = "persist" /\ r.kind = "complete" => r.outcome = "succeeded"
    /\ r.at = "evidence" /\ r.kind = "complete" => r.outcome = "succeeded"

RequestsAreShaped ==
    /\ \A h \in Handler : Shaped(requests[h])
    /\ row.plan = "none" => row = NoRow

(* The worker waits for what it asked, and only an answer given up leaves a request unawaited. *)
OneIsAwaited ==
    \A h \in Handler :
        /\ requests[h].waiting => \/ requests[h].kind = "step" /\ worker.at = "step"
                                  \/ requests[h].kind = "review" /\ worker.at = "review"
                                  \/ requests[h].kind = "complete" /\ worker.at = "report"
        /\ lost = 0 /\ requests[h].kind # "idle" => requests[h].waiting

(* The run, its worker and the reports on their way agree on how it went. *)
RunFollowsWorker ==
    /\ brief # {}
    /\ run.status = "proposed" <=> worker.at = "none"
    /\ worker.at = "none" => /\ \A h \in Handler : requests[h].kind = "idle"
                             /\ worker.created = 0
    /\ run.status # "proposed" => run.criteria # {}
    /\ run.status \in Terminal => worker.at \in {"report", "finished"}
    /\ run.status \in Terminal /\ lost = 0 => worker.at = "finished"
    /\ run.status \in {"completed", "completed_with_gaps"} => worker.outcome = "succeeded"
    /\ run.status = "failed" => worker.outcome = "failed"
    /\ \A h \in Handler : requests[h].kind = "complete" =>
          /\ requests[h].outcome = worker.outcome
          /\ worker.at \in {"report", "finished"}
    /\ worker.at \in {"report", "finished"} <=> worker.outcome # "none"
    /\ worker.at = "review" \/ worker.outcome = "succeeded" => worker.created > 0

(* What a claim kept as established rests on, and what a request has read. *)
Established(f, refs) ==
    /\ f.sources \subseteq refs
    /\ f.class \in Factual => f.sources # {}
    /\ f.class = "external_fact" => f.sources \cap External # {}
    /\ f.class = "pac_fact" => f.sources \cap Company # {}

Reads(r, refs, hosts) ==
    /\ r.read.sources \subseteq refs /\ r.new \subseteq refs /\ r.hosts \subseteq hosts
    /\ \A f \in r.read.findings : Established(f, refs)

ReadingsAreGrounded ==
    /\ IsFiniteSet(Refs) /\ row.sources \subseteq Refs
    /\ \A h \in Handler : Reads(requests[h], Refs, SearchResultHosts)

(* Nothing is delivered only when nothing was stored. *)
DeliveryIsCounted ==
    /\ failures = 0 /\ worker.created > 0 => artefacts # <<>>
    /\ \A h \in Handler : failures = 0 /\ requests[h].stored > 0 => artefacts # <<>>
    /\ lost + failures = 0 /\ worker.created = 0 /\ (\A h \in Handler : requests[h].stored = 0)
          => artefacts = <<>>
    /\ lost + failures = 0 /\ worker.outcome = "failed" =>
          /\ worker.created = 0
          /\ \A h \in Handler : requests[h].stored = 0

(* A verdict on its way is still true. *)
Gaps == Unmet(run.criteria, artefacts, Refs)

VerdictsHold ==
    \A h \in Handler : requests[h].kind = "complete" /\ requests[h].at \in {"persist", "close"}
                       /\ requests[h].outcome = "succeeded" =>
        /\ failures = 0 => requests[h].state \in {"satisfied", "gaps"}
        /\ requests[h].state = "satisfied" => Gaps = {}
        /\ lost = 0 /\ requests[h].state = "gaps" => Gaps # {}

(* What is left of the lookups: of the row's, and of each step's. *)
Rest(calls) == IF calls >= MaxToolCalls THEN 0 ELSE MaxToolCalls - calls

RowIsLent == \E h \in Handler : requests[h].waiting /\ requests[h].kind = "step"
                                /\ requests[h].at # "begin"

LeftOf(r) ==
    IF r.kind # "step" THEN 0
    ELSE IF r.at # "begin" THEN Rest(r.calls)
    ELSE IF r.waiting THEN 0 ELSE MaxToolCalls

Left == [i \in 0 .. MaxRequests |->
            IF i = 0 THEN IF RowIsLent THEN 0 ELSE Rest(row.calls)
            ELSE LeftOf(requests[i])]

Tokens(left) == {t \in (0 .. MaxRequests) \X (1 .. MaxToolCalls) : t[2] <= left[t[1]]}

LookupsAreBudgeted == made + Cardinality(Tokens(Left)) <= MaxToolCalls * (1 + lost + failures)

(* The reviews that may still begin a pass: those nobody awaits, and the worker's own. *)
IsFresh(r) == r.kind = "review" /\ ~r.second /\ r.at \in {"evidence", "persist"}

Fresh == {i \in 0 .. MaxRequests :
            IF i = 0 THEN /\ worker.at \notin {"report", "finished"}
                          /\ ~\E h \in Handler : /\ requests[h].waiting
                                                 /\ requests[h].kind = "review"
                                                 /\ ~IsFresh(requests[h])
            ELSE IsFresh(requests[i]) /\ ~requests[i].waiting}

PassesAreBudgeted == passes + Cardinality(Fresh) <= 1 + lost + failures

(* Nothing lost and nothing failing, the row has all the run's steps and sources but those of
   the step being served. *)
StateAddsUp ==
    lost + failures = 0 =>
        /\ row.steps = worker.iterations - (IF worker.at = "step" THEN 1 ELSE 0)
        /\ (\A h \in Handler : requests[h].kind = "step" => requests[h].at = "begin") =>
              row.sources = Refs
        /\ \A h \in Handler : requests[h].kind = "step" /\ requests[h].at # "begin" =>
              /\ requests[h].read.sources \cup requests[h].new = Refs
              /\ requests[h].read.steps = row.steps

InvResearch ==
    /\ TypeOKResearch /\ RequestsAreShaped /\ OneIsAwaited /\ RunFollowsWorker
    /\ ReadingsAreGrounded /\ FindingsAreGrounded /\ DeliveryIsCounted /\ VerdictsHold
    /\ OutcomeIsHonest /\ LookupsAreBudgeted /\ PassesAreBudgeted /\ StateAddsUp

-----------------------------------------------------------------------------
(* Each step is one handler's: what becomes of its request.                *)

LEMMA IdleHandlerIsTyped == NoRow \in Row /\ IdleHandler \in Request
<1>1. NoRow \in Row
  BY LimitsAreNatural DEF NoRow, Row
<1>2. IdleHandler.todo \in Seq(Lookup) /\ IdleHandler.papers \in Seq(Paper)
  BY DEF IdleHandler
<1> QED BY <1>1, <1>2, LimitsAreNatural DEF IdleHandler, Request, Acceptance, Outcome

LEMMA Served ==
  ASSUME TypeOKResearch, NEW h \in Handler, NEW new \in Request,
         requests' = [requests EXCEPT ![h] = new]
  PROVE  /\ requests' \in [Handler -> Request]
         /\ requests'[h] = new
         /\ \A g \in Handler \ {h} : requests'[g] = requests[g]
BY DEF TypeOKResearch

(* One handler's request has changed to new. *)
Turns(h, new) ==
    /\ requests' \in [Handler -> Request]
    /\ requests'[h] = new
    /\ \A g \in Handler \ {h} : requests'[g] = requests[g]

LEMMA RespondIs ==
  ASSUME TypeOKResearch, NEW h \in Handler, NEW w, Respond(h, w)
  PROVE  /\ Turns(h, IdleHandler)
         /\ worker' = IF requests[h].waiting THEN w ELSE worker
BY Served, IdleHandlerIsTyped DEF Respond, Turns

NewStep == [IdleHandler EXCEPT !.kind = "step", !.at = "begin", !.waiting = TRUE]
NewReview(time) == [IdleHandler EXCEPT !.kind = "review", !.at = "evidence", !.waiting = TRUE,
                                       !.canRemediate = time]
NewReport(outcome) ==
    [IdleHandler EXCEPT !.kind = "complete", !.waiting = TRUE,
                        !.at = IF outcome = "succeeded" THEN "evidence" ELSE "close",
                        !.outcome = outcome]

LEMMA NewIsTyped ==
  /\ NewStep \in Request
  /\ \A time \in BOOLEAN : NewReview(time) \in Request
  /\ \A outcome \in Outcome : NewReport(outcome) \in Request
<1>1. NewStep \in Request
  BY IdleHandlerIsTyped DEF NewStep, Request
<1>2. \A time \in BOOLEAN : NewReview(time) \in Request
  BY IdleHandlerIsTyped DEF NewReview, Request
<1>3. \A outcome \in Outcome : NewReport(outcome) \in Request
  <2> TAKE outcome \in Outcome
  <2> DEFINE at == IF outcome = "succeeded" THEN "evidence" ELSE "close"
  <2>1. at \in {"evidence", "close"}
    OBVIOUS
  <2> HIDE DEF at
  <2>2. [IdleHandler EXCEPT !.kind = "complete", !.waiting = TRUE, !.at = at,
                            !.outcome = outcome] \in Request
    BY <2>1, IdleHandlerIsTyped DEF Request
  <2> QED BY <2>2 DEF NewReport, at
<1> QED BY <1>1, <1>2, <1>3

LEMMA AskStepIs ==
  ASSUME TypeOKResearch, NEW h \in Handler, AskStep(h)
  PROVE  Turns(h, NewStep) /\ requests[h].kind = "idle"
BY Served, NewIsTyped DEF AskStep, Send, Turns, NewStep

LEMMA SendRequestIs ==
  ASSUME TypeOKResearch, NEW h \in Handler, SendRequest(h)
  PROVE  /\ requests[h].kind = "idle"
         /\ \/ worker.at = "step" /\ Turns(h, NewStep)
            \/ worker.at = "review" /\ \E time \in BOOLEAN : Turns(h, NewReview(time))
            \/ worker.at = "report" /\ Turns(h, NewReport(worker.outcome))
<1>1. CASE worker.at = "step"
  BY <1>1, Served, NewIsTyped DEF SendRequest, Send, Turns, NewStep
<1>2. CASE worker.at = "review"
  BY <1>2, Served, NewIsTyped DEF SendRequest, Send, Turns, NewReview
<1>3. CASE worker.at = "report"
  BY <1>3, Served, NewIsTyped DEF SendRequest, Send, Turns, NewReport, TypeOKResearch
<1> QED BY <1>1, <1>2, <1>3 DEF SendRequest

(* What a handler does to the request it serves. *)
Unawaited(r) == [r EXCEPT !.waiting = FALSE]
BegunWith(r, pinned, action) == [r EXCEPT !.read = pinned, !.action = action, !.calls = pinned.calls]
Stopped(r, pinned) == [BegunWith(r, pinned, "stop") EXCEPT !.at = "finish"]
Working(r, pinned, action, on, hosts, answer) ==
    [BegunWith(r, pinned, action) EXCEPT !.at = "work", !.external = on, !.hosts = hosts,
        !.findings = answer.findings, !.todo = answer.calls, !.asked = Len(answer.calls),
        !.papers = answer.artefacts]
Called(r, refs) ==
    [r EXCEPT !.todo = Tail(r.todo), !.calls = r.calls + 1, !.new = r.new \cup refs]
Stored(r) == [r EXCEPT !.papers = Tail(r.papers), !.stored = r.stored + 1]
Reviewed(r, state, unmet) == [r EXCEPT !.at = "persist", !.state = state, !.unmet = unmet]
Closing(r) == [r EXCEPT !.at = "close"]
Remedying(r, read) == [r EXCEPT !.at = "remedy", !.read = read]
Tried(r, unmet) == [r EXCEPT !.unmet = unmet]
Noted(r) == [r EXCEPT !.at = "evidence", !.second = TRUE, !.read = NoRow, !.unmet = {}]
Unassessed(r) == [r EXCEPT !.at = "close", !.state = "not_assessed"]

LEMMA ChangesAreTyped ==
  ASSUME NEW r \in Request
  PROVE  /\ Unawaited(r) \in Request /\ Closing(r) \in Request /\ Noted(r) \in Request
         /\ Unassessed(r) \in Request
         /\ \A unmet \in SUBSET Criterion : /\ Tried(r, unmet) \in Request
               /\ \A state \in Acceptance : Reviewed(r, state, unmet) \in Request
         /\ \A read \in Row : Remedying(r, read) \in Request
         /\ r.papers # <<>> => Stored(r) \in Request
         /\ r.todo # <<>> => \A refs \in SUBSET Ref : Called(r, refs) \in Request
<1>1. Unawaited(r) \in Request /\ Closing(r) \in Request
  BY DEF Unawaited, Closing, Request
<1>2. Noted(r) \in Request
  BY IdleHandlerIsTyped DEF Noted, Request
<1>3. Unassessed(r) \in Request
  BY DEF Unassessed, Request, Acceptance
<1>4. \A unmet \in SUBSET Criterion : Tried(r, unmet) \in Request
  BY DEF Tried, Request
<1>5. \A unmet \in SUBSET Criterion : \A state \in Acceptance : Reviewed(r, state, unmet) \in Request
  BY DEF Reviewed, Request
<1>6. \A read \in Row : Remedying(r, read) \in Request
  BY DEF Remedying, Request
<1>7. ASSUME r.papers # <<>> PROVE Stored(r) \in Request
  <2>1. Tail(r.papers) \in Seq(Paper) /\ r.stored + 1 \in Nat
    BY <1>7 DEF Request
  <2> QED BY <2>1 DEF Stored, Request
<1>8. ASSUME r.todo # <<>>, NEW refs \in SUBSET Ref PROVE Called(r, refs) \in Request
  <2>1. Tail(r.todo) \in Seq(Lookup) /\ r.new \cup refs \in SUBSET Ref /\ r.calls + 1 \in Nat
    BY <1>8 DEF Request
  <2> QED BY <2>1 DEF Called, Request
<1> QED BY <1>1, <1>2, <1>3, <1>4, <1>5, <1>6, <1>7, <1>8

LEMMA StepBeginsTyped ==
  ASSUME NEW r \in Request, NEW pinned \in Row
  PROVE  /\ Stopped(r, pinned) \in Request
         /\ \A action \in {"gather", "synthesise", "finalise"}, on \in BOOLEAN,
               hosts \in SUBSET Ref, answer \in Answers \cup WriteUps :
                  Working(r, pinned, action, on, hosts, answer) \in Request
<1>1. \A action \in {"stop", "gather", "synthesise", "finalise"} :
        BegunWith(r, pinned, action) \in Request
  BY DEF BegunWith, Request, Row
<1>2. Stopped(r, pinned) \in Request
  BY ZenonT(60), <1>1 DEF Stopped, Request
<1>3. ASSUME NEW action \in {"gather", "synthesise", "finalise"}, NEW on \in BOOLEAN,
             NEW hosts \in SUBSET Ref, NEW answer \in Answers \cup WriteUps
      PROVE  Working(r, pinned, action, on, hosts, answer) \in Request
  <2> DEFINE b == BegunWith(r, pinned, action)
  <2>1. b \in Request
    BY <1>1
  <2>2. /\ answer.calls \in Seq(Lookup) /\ answer.findings \in SUBSET Finding
        /\ answer.artefacts \in Seq(Paper) /\ Len(answer.calls) \in Nat
    BY AnswersAreTyped
  <2> HIDE DEF b
  <2>3. [b EXCEPT !.at = "work", !.external = on, !.hosts = hosts,
        !.findings = answer.findings, !.todo = answer.calls, !.asked = Len(answer.calls),
        !.papers = answer.artefacts] \in Request
    BY <2>1, <2>2 DEF Request
  <2> QED BY <2>3 DEF Working, b
<1> QED BY <1>2, <1>3

LEMMA TimeOutIs ==
  ASSUME TypeOKResearch, NEW h \in Handler, TimeOut(h)
  PROVE  Turns(h, Unawaited(requests[h]))
<1>1. requests[h] \in Request
  BY DEF TypeOKResearch
<1>2. requests' = [requests EXCEPT ![h] = Unawaited(requests[h])]
  BY DEF TimeOut, TypeOKResearch, Unawaited
<1> QED BY <1>1, <1>2, Served, ChangesAreTyped DEF Turns

(* What a change leaves as it was. *)
SameWork(r, n) ==
    /\ n.read = r.read /\ n.action = r.action /\ n.calls = r.calls
    /\ n.new = r.new /\ n.stored = r.stored /\ n.hosts = r.hosts
SameVerdict(r, n) == n.state = r.state /\ n.second = r.second /\ n.outcome = r.outcome
SamePlace(r, n) == n.kind = r.kind /\ n.waiting = r.waiting

LEMMA NewFields ==
  /\ IdleHandler.kind = "idle" /\ IdleHandler.at = "idle" /\ ~IdleHandler.waiting
  /\ IdleHandler.stored = 0 /\ ~IdleHandler.second /\ IdleHandler.read = NoRow
  /\ IdleHandler.new = {} /\ IdleHandler.hosts = {}
  /\ NewStep.kind = "step" /\ NewStep.at = "begin" /\ NewStep.waiting
  /\ SameWork(IdleHandler, NewStep) /\ SameVerdict(IdleHandler, NewStep)
  /\ \A time \in BOOLEAN :
        /\ NewReview(time).kind = "review" /\ NewReview(time).at = "evidence"
        /\ NewReview(time).waiting
        /\ SameWork(IdleHandler, NewReview(time)) /\ SameVerdict(IdleHandler, NewReview(time))
  /\ \A outcome \in Outcome :
        /\ NewReport(outcome).kind = "complete" /\ NewReport(outcome).waiting
        /\ NewReport(outcome).outcome = outcome
        /\ NewReport(outcome).at = IF outcome = "succeeded" THEN "evidence" ELSE "close"
        /\ SameWork(IdleHandler, NewReport(outcome))
BY DEF IdleHandler, NewStep, NewReview, NewReport, SameWork, SameVerdict

LEMMA StepFields ==
  ASSUME NEW r \in Request
  PROVE  /\ \A refs \in SUBSET Ref :
               LET n == Called(r, refs) IN
               /\ SamePlace(r, n) /\ n.at = r.at /\ SameVerdict(r, n)
               /\ n.read = r.read /\ n.action = r.action /\ n.calls = r.calls + 1
               /\ n.new = r.new \cup refs /\ n.stored = r.stored /\ n.hosts = r.hosts
         /\ LET n == Stored(r) IN
               /\ SamePlace(r, n) /\ n.at = r.at /\ SameVerdict(r, n)
               /\ n.read = r.read /\ n.action = r.action /\ n.calls = r.calls
               /\ n.new = r.new /\ n.stored = r.stored + 1 /\ n.hosts = r.hosts
         /\ LET n == Unawaited(r) IN
               /\ n.kind = r.kind /\ n.at = r.at /\ ~n.waiting /\ SameWork(r, n) /\ SameVerdict(r, n)
         /\ \A pinned \in Row :
               LET n == Stopped(r, pinned) IN
               /\ SamePlace(r, n) /\ n.at = "finish" /\ SameVerdict(r, n)
               /\ n.read = pinned /\ n.action = "stop" /\ n.calls = pinned.calls
               /\ n.new = r.new /\ n.stored = r.stored /\ n.hosts = r.hosts
<1>1. ASSUME NEW refs \in SUBSET Ref
      PROVE  LET n == Called(r, refs) IN
               /\ SamePlace(r, n) /\ n.at = r.at /\ SameVerdict(r, n)
               /\ n.read = r.read /\ n.action = r.action /\ n.calls = r.calls + 1
               /\ n.new = r.new \cup refs /\ n.stored = r.stored /\ n.hosts = r.hosts
  BY DEF Called, Request, SamePlace, SameVerdict
<1>2. LET n == Stored(r) IN
               /\ SamePlace(r, n) /\ n.at = r.at /\ SameVerdict(r, n)
               /\ n.read = r.read /\ n.action = r.action /\ n.calls = r.calls
               /\ n.new = r.new /\ n.stored = r.stored + 1 /\ n.hosts = r.hosts
  BY DEF Stored, Request, SamePlace, SameVerdict
<1>3. LET n == Unawaited(r) IN
               /\ n.kind = r.kind /\ n.at = r.at /\ ~n.waiting /\ SameWork(r, n) /\ SameVerdict(r, n)
  BY DEF Unawaited, Request, SameWork, SameVerdict
<1>4. ASSUME NEW pinned \in Row
      PROVE  LET n == Stopped(r, pinned) IN
               /\ SamePlace(r, n) /\ n.at = "finish" /\ SameVerdict(r, n)
               /\ n.read = pinned /\ n.action = "stop" /\ n.calls = pinned.calls
               /\ n.new = r.new /\ n.stored = r.stored /\ n.hosts = r.hosts
  BY DEF Stopped, BegunWith, Request, SamePlace, SameVerdict
<1> QED BY <1>1, <1>2, <1>3, <1>4

LEMMA WorkingFields ==
  ASSUME NEW r \in Request, NEW pinned, NEW action, NEW on, NEW hosts, NEW answer
  PROVE  LET n == Working(r, pinned, action, on, hosts, answer) IN
         /\ SamePlace(r, n) /\ n.at = "work" /\ SameVerdict(r, n)
         /\ n.read = pinned /\ n.action = action /\ n.calls = pinned.calls
         /\ n.new = r.new /\ n.stored = r.stored /\ n.hosts = hosts
BY DEF Working, BegunWith, Request, SamePlace, SameVerdict

LEMMA ReviewFields ==
  ASSUME NEW r \in Request
  PROVE  /\ \A unmet \in SUBSET Criterion :
               LET n == Tried(r, unmet) IN
               SamePlace(r, n) /\ n.at = r.at /\ SameWork(r, n) /\ SameVerdict(r, n)
         /\ \A state \in Acceptance, unmet \in SUBSET Criterion :
               LET n == Reviewed(r, state, unmet) IN
               /\ SamePlace(r, n) /\ n.at = "persist" /\ SameWork(r, n)
               /\ n.state = state /\ n.second = r.second /\ n.outcome = r.outcome
         /\ LET n == Closing(r) IN
               SamePlace(r, n) /\ n.at = "close" /\ SameWork(r, n) /\ SameVerdict(r, n)
         /\ LET n == Unassessed(r) IN
               /\ SamePlace(r, n) /\ n.at = "close" /\ SameWork(r, n)
               /\ n.state = "not_assessed" /\ n.second = r.second /\ n.outcome = r.outcome
         /\ \A read \in Row :
               LET n == Remedying(r, read) IN
               /\ SamePlace(r, n) /\ n.at = "remedy" /\ SameVerdict(r, n)
               /\ n.read = read /\ n.action = r.action /\ n.calls = r.calls
               /\ n.new = r.new /\ n.stored = r.stored /\ n.hosts = r.hosts
         /\ LET n == Noted(r) IN
               /\ SamePlace(r, n) /\ n.at = "evidence"
               /\ n.read = NoRow /\ n.action = r.action /\ n.calls = r.calls
               /\ n.new = r.new /\ n.stored = r.stored /\ n.hosts = r.hosts
               /\ n.state = r.state /\ n.second /\ n.outcome = r.outcome
<1>1. ASSUME NEW unmet \in SUBSET Criterion
      PROVE  LET n == Tried(r, unmet) IN
             SamePlace(r, n) /\ n.at = r.at /\ SameWork(r, n) /\ SameVerdict(r, n)
  BY DEF Tried, Request, SamePlace, SameWork, SameVerdict
<1>2. ASSUME NEW state \in Acceptance, NEW unmet \in SUBSET Criterion
      PROVE  LET n == Reviewed(r, state, unmet) IN
               /\ SamePlace(r, n) /\ n.at = "persist" /\ SameWork(r, n)
               /\ n.state = state /\ n.second = r.second /\ n.outcome = r.outcome
  BY DEF Reviewed, Request, SamePlace, SameWork
<1>3. LET n == Closing(r) IN
               SamePlace(r, n) /\ n.at = "close" /\ SameWork(r, n) /\ SameVerdict(r, n)
  BY DEF Closing, Request, SamePlace, SameWork, SameVerdict
<1>4. LET n == Unassessed(r) IN
               /\ SamePlace(r, n) /\ n.at = "close" /\ SameWork(r, n)
               /\ n.state = "not_assessed" /\ n.second = r.second /\ n.outcome = r.outcome
  BY DEF Unassessed, Request, SamePlace, SameWork
<1>5. ASSUME NEW read \in Row
      PROVE  LET n == Remedying(r, read) IN
               /\ SamePlace(r, n) /\ n.at = "remedy" /\ SameVerdict(r, n)
               /\ n.read = read /\ n.action = r.action /\ n.calls = r.calls
               /\ n.new = r.new /\ n.stored = r.stored /\ n.hosts = r.hosts
  BY DEF Remedying, Request, SamePlace, SameVerdict
<1>6. LET n == Noted(r) IN
               /\ SamePlace(r, n) /\ n.at = "evidence"
               /\ n.read = NoRow /\ n.action = r.action /\ n.calls = r.calls
               /\ n.new = r.new /\ n.stored = r.stored /\ n.hosts = r.hosts
               /\ n.state = r.state /\ n.second /\ n.outcome = r.outcome
  BY DEF Noted, Request, SamePlace
<1> QED BY <1>1, <1>2, <1>3, <1>4, <1>5, <1>6

(* What a step begins from. *)
LEMMA PinnedIsTyped ==
  ASSUME TypeOKResearch
  PROVE  BeginGeneralRun \in Row /\ SearchResultHosts \subseteq Ref
<1>1. BeginGeneralRun \in Row
  BY IdleHandlerIsTyped DEF TypeOKResearch, BeginGeneralRun, Row
<1> QED BY <1>1 DEF TypeOKResearch, SearchResultHosts

LEMMA BeginStepIs ==
  ASSUME TypeOKResearch, NEW h \in Handler, BeginStep(h)
  PROVE  /\ row' = BeginGeneralRun
         /\ \/ /\ DecideNextStep(BeginGeneralRun) = "stop"
               /\ Turns(h, Stopped(requests[h], BeginGeneralRun))
            \/ \E action \in {"gather", "synthesise", "finalise"}, answer \in Answers \cup WriteUps :
                  /\ action = DecideNextStep(BeginGeneralRun)
                  /\ Turns(h, Working(requests[h], BeginGeneralRun, action, external,
                                      SearchResultHosts, answer))
<1> DEFINE pinned == BeginGeneralRun
           action == DecideNextStep(pinned)
           r == requests[h]
<1>1. r \in Request /\ pinned \in Row /\ SearchResultHosts \in SUBSET Ref /\ external \in BOOLEAN
  BY PinnedIsTyped DEF TypeOKResearch
<1>2. action \in {"stop", "gather", "synthesise", "finalise"}
  BY DEF DecideNextStep
<1>3. CASE action = "stop"
  <2>1. requests' = [requests EXCEPT ![h] = Stopped(r, pinned)]
    BY <1>3 DEF BeginStep, Stopped, BegunWith
  <2> QED BY <1>1, <1>3, <2>1, StepBeginsTyped, Served DEF Turns, BeginStep
<1>4. CASE action # "stop"
  <2>1. PICK answer \in AskModel(action) :
          requests' = [requests EXCEPT ![h] =
                         Working(r, pinned, action, external, SearchResultHosts, answer)]
    BY <1>4 DEF BeginStep, Working, BegunWith
  <2>2. answer \in Answers \cup WriteUps
    BY <2>1 DEF AskModel
  <2>3. Working(r, pinned, action, external, SearchResultHosts, answer) \in Request
    BY <1>1, <1>2, <1>4, <2>2, StepBeginsTyped
  <2>4. Turns(h, Working(r, pinned, action, external, SearchResultHosts, answer))
    BY <2>1, <2>3, Served DEF Turns
  <2>5. row' = pinned
    BY DEF BeginStep
  <2> QED BY <1>2, <1>4, <2>2, <2>4, <2>5
<1> QED BY <1>3, <1>4

LEMMA CallToolIs ==
  ASSUME TypeOKResearch, NEW h \in Handler, CallTool(h)
  PROVE  \E c \in Lookup, refs \in SUBSET Ref :
            /\ Turns(h, Called(requests[h], refs))
            /\ PersistSources(c, refs)
            /\ \/ refs = {}
               \/ /\ refs = Finds[c]
                  /\ IsFetch(c) => MayFetch(c, requests[h].hosts)
            /\ made' = made \/ (requests[h].calls < MaxToolCalls /\ made' = made + 1)
<1> DEFINE r == requests[h]
           c == Head(r.todo)
<1>1. r \in Request /\ r.todo # <<>>
  BY DEF TypeOKResearch, CallTool
<1>2. c \in Lookup
  BY <1>1 DEF Request
<1>3. PICK refs \in IF RefuseToolCall(c, r.read, r.calls) THEN {{}} ELSE RunTool(c, h) :
             /\ PersistSources(c, refs)
             /\ requests' = [requests EXCEPT ![h].todo = Tail(@), ![h].calls = @ + 1,
                                             ![h].new = @ \cup refs]
             /\ made' = IF RefuseToolCall(c, r.read, r.calls) THEN made ELSE made + 1
  BY DEF CallTool
<1>4. \/ refs = {}
      \/ refs = Finds[c] /\ (IsFetch(c) => MayFetch(c, r.hosts))
  <2>1. CASE RefuseToolCall(c, r.read, r.calls)
    BY <1>3, <2>1
  <2>2. CASE ~RefuseToolCall(c, r.read, r.calls) /\ c \in Internal
    <3>1. refs = Finds[c] /\ c.tool # "public_doc_fetch"
      BY <1>3, <2>2, SourcesAreTyped DEF RunTool, InternalSearch
    <3> QED BY <3>1 DEF IsFetch
  <2>3. CASE ~RefuseToolCall(c, r.read, r.calls) /\ c \notin Internal
    <3>1. refs \in (IF ~r.external THEN {{}} ELSE ExternalSearch(c, r.hosts))
      BY <1>3, <2>3 DEF RunTool
    <3> QED BY <3>1 DEF ExternalSearch
  <2> QED BY <2>1, <2>2, <2>3
<1>5. refs \in SUBSET Ref
  BY <1>2, <1>4, SourcesAreTyped
<1>6. requests' = [requests EXCEPT ![h] = Called(r, refs)]
  BY <1>1, <1>3 DEF TypeOKResearch, Called
<1>7. Called(r, refs) \in Request
  BY <1>1, <1>5, ChangesAreTyped
<1>8. Turns(h, Called(r, refs))
  BY <1>6, <1>7, Served DEF Turns
<1>9. ASSUME ~RefuseToolCall(c, r.read, r.calls) PROVE r.calls < MaxToolCalls
  BY <1>1, <1>9, LimitsAreNatural DEF RefuseToolCall, Request
<1>10. made' = made \/ (r.calls < MaxToolCalls /\ made' = made + 1)
  <2>1. made' = IF RefuseToolCall(c, r.read, r.calls) THEN made ELSE made + 1
    BY <1>3
  <2> HIDE DEF c, r
  <2> QED BY <1>9, <2>1 DEF RefuseToolCall
<1>11. PersistSources(c, refs)
  BY <1>3
<1> HIDE DEF c
<1> QED BY <1>2, <1>4, <1>5, <1>8, <1>10, <1>11

LEMMA StoreArtefactIs ==
  ASSUME TypeOKResearch, NEW h \in Handler, StoreArtefact(h)
  PROVE  Turns(h, Stored(requests[h]))
<1>1. requests[h] \in Request /\ requests[h].papers # <<>>
  BY DEF TypeOKResearch, StoreArtefact
<1>2. requests' = [requests EXCEPT ![h] = Stored(requests[h])]
  BY DEF StoreArtefact, TypeOKResearch, Stored
<1> QED BY <1>1, <1>2, Served, ChangesAreTyped DEF Turns

LEMMA ReviewAcceptanceIs ==
  ASSUME TypeOKResearch, NEW h \in Handler, ReviewAcceptance(h)
  PROVE  Turns(h, Reviewed(requests[h], AcceptanceState(run.criteria, artefacts, Refs),
                           Unmet(run.criteria, artefacts, Refs)))
<1> DEFINE state == AcceptanceState(run.criteria, artefacts, Refs)
           unmet == Unmet(run.criteria, artefacts, Refs)
<1>1. requests[h] \in Request
  BY DEF TypeOKResearch
<1>2. unmet \in SUBSET Criterion
  BY DEF TypeOKResearch, Unmet
<1>3. state \in Acceptance
  BY DEF AcceptanceState, Acceptance
<1>4. requests' = [requests EXCEPT ![h] = Reviewed(requests[h], state, unmet)]
  BY DEF ReviewAcceptance, TypeOKResearch, Reviewed
<1>5. Reviewed(requests[h], state, unmet) \in Request
  BY <1>1, <1>2, <1>3, ChangesAreTyped
<1> QED BY <1>4, <1>5, Served DEF Turns

Remediates(r) == /\ r.kind = "review" /\ ~r.second /\ r.state = "gaps"
                 /\ r.canRemediate /\ ~run.remediated

LEMMA PersistReviewIs ==
  ASSUME TypeOKResearch, NEW h \in Handler, PersistReview(h)
  PROVE  \/ /\ requests[h].kind = "complete"
            /\ Turns(h, Closing(requests[h]))
            /\ UNCHANGED <<worker, passes>>
         \/ /\ Remediates(requests[h])
            /\ Turns(h, Remedying(requests[h], row))
            /\ passes' = passes + 1 /\ worker' = worker
         \/ /\ requests[h].kind = "review"
            /\ Turns(h, IdleHandler)
            /\ worker' = IF requests[h].waiting
                         THEN [worker EXCEPT !.at = "report", !.outcome = "succeeded", !.tries = 0]
                         ELSE worker
            /\ passes' = passes
<1>1. requests[h] \in Request /\ row \in Row
  BY DEF TypeOKResearch
<1>2. CASE requests[h].kind = "complete"
  <2>1. requests' = [requests EXCEPT ![h] = Closing(requests[h])] /\ UNCHANGED <<worker, passes>>
    BY <1>2 DEF PersistReview, TypeOKResearch, Closing
  <2> QED BY <1>1, <1>2, <2>1, Served, ChangesAreTyped DEF Turns
<1>3. CASE requests[h].kind # "complete" /\ Remediates(requests[h])
  <2>1. /\ requests' = [requests EXCEPT ![h] = Remedying(requests[h], row)]
        /\ passes' = passes + 1 /\ worker' = worker
    BY <1>3 DEF PersistReview, TypeOKResearch, Remedying, Remediates
  <2> QED BY <1>1, <1>3, <2>1, Served, ChangesAreTyped DEF Turns
<1>4. CASE requests[h].kind # "complete" /\ ~Remediates(requests[h])
  <2>1. /\ requests[h].kind = "review" /\ passes' = passes
        /\ Respond(h, [worker EXCEPT !.at = "report", !.outcome = "succeeded", !.tries = 0])
    BY <1>4 DEF PersistReview, Remediates
  <2> QED BY <2>1, RespondIs
<1> QED BY <1>2, <1>3, <1>4

LEMMA RemediateIs ==
  ASSUME TypeOKResearch, NEW h \in Handler, Remediate(h)
  PROVE  \E unmet \in SUBSET Criterion : Turns(h, Tried(requests[h], unmet))
<1> DEFINE r == requests[h]
           unmet == r.unmet \ {CHOOSE c \in r.unmet : TRUE}
<1>1. r \in Request
  BY DEF TypeOKResearch
<1>2. unmet \in SUBSET Criterion
  BY <1>1 DEF Request
<1>3. requests' = [requests EXCEPT ![h] = Tried(r, unmet)]
  BY <1>1 DEF Remediate, TypeOKResearch, Tried
<1> HIDE DEF unmet
<1> QED BY <1>1, <1>2, <1>3, Served, ChangesAreTyped DEF Turns

LEMMA NoteRemediationIs ==
  ASSUME TypeOKResearch, NEW h \in Handler, NoteRemediation(h)
  PROVE  Turns(h, Noted(requests[h]))
<1>1. requests[h] \in Request
  BY DEF TypeOKResearch
<1>2. requests' = [requests EXCEPT ![h] = Noted(requests[h])]
  BY DEF NoteRemediation, TypeOKResearch, Noted
<1> QED BY <1>1, <1>2, Served, ChangesAreTyped DEF Turns

LEMMA ReviewFailsIs ==
  ASSUME TypeOKResearch, NEW h \in Handler, ReviewFails(h)
  PROVE  \/ /\ requests[h].kind = "review" /\ Turns(h, IdleHandler)
            /\ worker' = IF requests[h].waiting THEN Retry(worker) ELSE worker
         \/ /\ requests[h].kind = "complete" /\ Turns(h, Unassessed(requests[h]))
            /\ worker' = worker
<1>1. requests[h] \in Request
  BY DEF TypeOKResearch
<1>2. CASE requests[h].kind = "review"
  BY <1>2, RespondIs DEF ReviewFails
<1>3. CASE requests[h].kind = "complete"
  <2>1. requests' = [requests EXCEPT ![h] = Unassessed(requests[h])] /\ worker' = worker
    BY <1>3 DEF ReviewFails, TypeOKResearch, Unassessed
  <2> QED BY <1>1, <1>3, <2>1, Served, ChangesAreTyped DEF Turns
<1> QED BY <1>2, <1>3 DEF ReviewFails

-----------------------------------------------------------------------------
(* Type correctness.                                                       *)

Jobs == [at : {"none", "loop", "step", "review", "report", "finished"},
         iterations : 0 .. MaxSteps, created : Nat, tries : 0 .. Attempts, outcome : Outcome]

LEMMA JobsAreTyped ==
  ASSUME NEW w \in Jobs
  PROVE  Retry(w) \in Jobs /\ GiveUp(w) \in Jobs
<1>1. 0 \in 0 .. Attempts
  BY LimitsAreNatural
<1>2. GiveUp(w) \in Jobs
  <2>1. CASE w.at = "step"
    BY <1>1, <2>1 DEF GiveUp, Jobs, Outcome
  <2>2. CASE w.at = "review"
    BY <1>1, <2>2 DEF GiveUp, Jobs, Outcome
  <2>3. CASE w.at \notin {"step", "review"}
    <3>1. GiveUp(w) = [w EXCEPT !.at = "finished", !.tries = 0]
      BY <2>3 DEF GiveUp
    <3> QED BY <1>1, <3>1 DEF Jobs
  <2> QED BY <2>1, <2>2, <2>3
<1>3. [w EXCEPT !.at = w.at] \in Jobs
  BY DEF Jobs
<1> QED BY <1>2, <1>3 DEF Retry

LEMMA StillOneIsAwaited ==
  ASSUME TypeOKResearch, NEW h \in Handler, NEW new \in Request, Turns(h, new),
         new.waiting => requests[h].waiting \/ ~Waiting
  PROVE  \A f, g \in Handler : requests'[f].waiting /\ requests'[g].waiting => f = g
BY DEF TypeOKResearch, Turns, Waiting

(* No source is recorded twice. *)
LEMMA SourcesAreRecordedOnce ==
  ASSUME TypeOKResearch, NEW c \in Lookup, NEW refs \in SUBSET Ref, PersistSources(c, refs)
  PROVE  /\ retrieved' \subseteq [ref : Ref, tool : STRING]
         /\ \A s, t \in retrieved' : s.ref = t.ref => s = t
         /\ Refs' = Refs \cup refs
         /\ retrieved \subseteq retrieved'
         /\ \A s \in retrieved' \ retrieved : s.tool = c.tool /\ s.ref \in refs
<1>1. c.tool \in STRING
  BY SourcesAreTyped
<1> DEFINE new == {[ref |-> r, tool |-> c.tool] : r \in refs \ Refs}
<1>2. retrieved' = retrieved \cup new
  BY DEF PersistSources
<1>3. new \subseteq [ref : Ref, tool : STRING]
  BY <1>1
<1>4. \A s \in new : s.ref \in refs \ Refs /\ s.tool = c.tool /\ s = [ref |-> s.ref, tool |-> c.tool]
  OBVIOUS
<1>5. \A r \in refs \ Refs : \E s \in new : s.ref = r
  <2> TAKE r \in refs \ Refs
  <2>1. [ref |-> r, tool |-> c.tool] \in new
    OBVIOUS
  <2> HIDE DEF new
  <2> QED BY <2>1
<1> HIDE DEF new
<1>6. \A s, t \in retrieved' : s.ref = t.ref => s = t
  BY <1>2, <1>4 DEF TypeOKResearch, Refs
<1>7. Refs' = Refs \cup refs
  BY <1>2, <1>4, <1>5 DEF Refs
<1> QED BY <1>2, <1>3, <1>4, <1>6, <1>7 DEF TypeOKResearch

LEMMA ClassifiedIsTyped ==
  ASSUME NEW f \in Finding, NEW known \in SUBSET Ref
  PROVE  /\ Classify(f, known) \in Finding
         /\ Classify(f, known).sources = f.sources \cap known
         /\ Classify(f, known).class =
               IF f.class \in Factual /\ f.sources \cap known = {} THEN "inference"
               ELSE IF f.class = "external_fact" /\ f.sources \cap known \cap External = {}
               THEN "project_fact"
               ELSE IF f.class = "pac_fact" /\ f.sources \cap known \cap Company = {}
               THEN "project_fact"
               ELSE f.class
<1> DEFINE real == f.sources \cap known
           class == IF f.class \in Factual /\ real = {} THEN "inference"
                    ELSE IF f.class = "external_fact" /\ real \cap External = {}
                    THEN "project_fact"
                    ELSE IF f.class = "pac_fact" /\ real \cap Company = {}
                    THEN "project_fact"
                    ELSE f.class
<1>1. real \in SUBSET Ref /\ class \in EVIDENCE_CLASSES /\ f \in Finding
  BY DEF Finding, EVIDENCE_CLASSES, Factual
<1>2. Classify(f, known) = [f EXCEPT !.class = class, !.sources = real]
  BY DEF Classify
<1> HIDE DEF real, class
<1>3. /\ Classify(f, known) \in Finding /\ Classify(f, known).sources = real
      /\ Classify(f, known).class = class
  BY <1>1, <1>2 DEF Finding
<1> QED BY <1>3 DEF real, class

LEMMA StepStateIsTyped ==
  ASSUME TypeOKResearch, RequestsAreShaped, NEW h \in Handler, requests[h].at = "work"
  PROVE  /\ StepState(h) \in Row
         /\ StepState(h).findings \in SUBSET Finding
         /\ StepState(h).steps = requests[h].read.steps + 1
         /\ StepState(h).calls = requests[h].calls
         /\ StepState(h).sources = requests[h].read.sources \cup requests[h].new
         /\ StepState(h).plan = requests[h].read.plan
         /\ StepState(h).findings =
              DedupeFindings(requests[h].read.findings,
                             {Classify(f, requests[h].read.sources \cup requests[h].new) :
                                 f \in requests[h].findings})
<1> DEFINE r == requests[h]
           known == r.read.sources \cup r.new
           claims == {Classify(f, known) : f \in r.findings}
           kept == DedupeFindings(r.read.findings, claims)
<1>1. /\ r \in Request /\ r.read \in Row /\ r.read.steps < MaxSteps
      /\ r.read.findings \in SUBSET Finding /\ r.findings \in SUBSET Finding
      /\ known \in SUBSET Ref /\ r.asked \in Nat /\ r.calls \in Nat
  BY DEF TypeOKResearch, RequestsAreShaped, Shaped, Request, Row
<1>2. \A f \in Finding : Classify(f, known) \in Finding
  BY <1>1, ClassifiedIsTyped
<1>3. claims \in SUBSET Finding
  BY <1>1, <1>2
<1>4. kept \in SUBSET Finding
  <2> HIDE DEF claims
  <2> QED BY <1>1, <1>3 DEF DedupeFindings
<1>5. StepState(h) = [r.read EXCEPT !.steps = r.read.steps + 1, !.calls = r.calls,
                                    !.sources = known, !.requested = r.asked,
                                    !.findings = kept]
  BY <1>1 DEF StepState, Accumulate, Row
<1>6. r.read.steps + 1 \in 0 .. MaxSteps
  BY <1>1, LimitsAreNatural DEF Row
<1> HIDE DEF kept, known, claims
<1>7. StepState(h) \in Row
  BY <1>1, <1>4, <1>5, <1>6 DEF Row
<1>8. /\ StepState(h).findings = kept /\ StepState(h).steps = r.read.steps + 1
      /\ StepState(h).calls = r.calls /\ StepState(h).sources = known
      /\ StepState(h).plan = r.read.plan
  BY <1>1, <1>5 DEF Row
<1> QED BY <1>4, <1>7, <1>8 DEF kept, known, claims

LEMMA PapersAreTyped ==
  ASSUME NEW paper \in Paper, NEW findings \in SUBSET Finding
  PROVE  WithFindings(paper, findings) \in Paper
BY DEF WithFindings, Paper

LEMMA StepCases ==
  ASSUME NextResearch
  PROVE  \/ ToggleExternal \/ ApproveRun \/ LoopEnds
         \/ \E h \in Handler : \/ AskStep(h) \/ SendRequest(h) \/ TimeOut(h)
                               \/ BeginStep(h) \/ FinishState(h) \/ StepFails(h) \/ CallTool(h)
                               \/ StoreArtefact(h) \/ PersistStep(h)
                               \/ ReviewAcceptance(h) \/ PersistReview(h) \/ Remediate(h)
                               \/ NoteRemediation(h) \/ ReviewFails(h) \/ CloseRun(h)
BY DEF NextResearch, StepWork, ReviewWork, Fails

(* What the worker becomes when its step is answered, and what the row does. *)
FinishedJob == [worker EXCEPT !.at = IF worker.created = 0 THEN "report" ELSE "review",
                              !.outcome = IF worker.created = 0 THEN "failed" ELSE "none",
                              !.tries = 0]

StepDone(r) == r.action = "finalise" \/ (r.stored > 0 /\ r.asked = 0)

PersistedJob(r) ==
    [worker EXCEPT
        !.at = IF ~StepDone(r) THEN "loop" ELSE IF worker.created + r.stored = 0 THEN "report"
               ELSE "review",
        !.outcome = IF StepDone(r) /\ worker.created + r.stored = 0 THEN "failed" ELSE "none",
        !.created = worker.created + r.stored, !.tries = 0]

LEMMA FinishStateIs ==
  ASSUME TypeOKResearch, NEW h \in Handler, FinishState(h)
  PROVE  /\ Turns(h, IdleHandler) /\ FinishedJob \in Jobs
         /\ worker' = IF requests[h].waiting THEN FinishedJob ELSE worker
         /\ row' = [requests[h].read EXCEPT !.stage = "complete"] /\ row' \in Row
<1>1. requests[h].read \in Row /\ worker \in Jobs
  BY DEF TypeOKResearch, Request, Jobs
<1>2. FinishedJob \in Jobs
  <2> DEFINE at == IF worker.created = 0 THEN "report" ELSE "review"
             outcome == IF worker.created = 0 THEN "failed" ELSE "none"
  <2>1. at \in {"report", "review"} /\ outcome \in Outcome /\ 0 \in 0 .. Attempts
    BY LimitsAreNatural DEF Outcome
  <2>2. FinishedJob = [worker EXCEPT !.at = at, !.outcome = outcome, !.tries = 0]
    BY DEF FinishedJob
  <2> HIDE DEF at, outcome
  <2> QED BY <1>1, <2>1, <2>2 DEF Jobs
<1>3. row' = [requests[h].read EXCEPT !.stage = "complete"] /\ row' \in Row
  BY <1>1 DEF FinishState, Row
<1>4. Respond(h, FinishedJob)
  BY DEF FinishState, FinishedJob
<1> QED BY <1>2, <1>3, <1>4, RespondIs

LEMMA PersistStepIs ==
  ASSUME TypeOKResearch, RequestsAreShaped, NEW h \in Handler, PersistStep(h)
  PROVE  /\ Turns(h, IdleHandler) /\ PersistedJob(requests[h]) \in Jobs
         /\ worker' = IF requests[h].waiting THEN PersistedJob(requests[h]) ELSE worker
         /\ row' \in Row
         /\ row'.findings = StepState(h).findings /\ row'.steps = StepState(h).steps
         /\ row'.calls = StepState(h).calls /\ row'.sources = StepState(h).sources
         /\ row'.plan = StepState(h).plan
<1> DEFINE r == requests[h]
           stage == IF r.action = "finalise" THEN "complete" ELSE StageFor(r.action)
<1>1. r \in Request /\ worker \in Jobs /\ StepState(h) \in Row
  BY StepStateIsTyped DEF TypeOKResearch, Jobs, PersistStep
<1>2. PersistedJob(r) \in Jobs
  <2> DEFINE at == IF ~StepDone(r) THEN "loop" ELSE IF worker.created + r.stored = 0 THEN "report"
                   ELSE "review"
             outcome == IF StepDone(r) /\ worker.created + r.stored = 0 THEN "failed" ELSE "none"
             created == worker.created + r.stored
  <2>1. /\ at \in {"loop", "report", "review"} /\ outcome \in Outcome /\ 0 \in 0 .. Attempts
        /\ created \in Nat
    BY <1>1, LimitsAreNatural DEF Outcome, Request, Jobs
  <2>2. PersistedJob(r) = [worker EXCEPT !.at = at, !.outcome = outcome, !.created = created,
                                         !.tries = 0]
    BY DEF PersistedJob
  <2> HIDE DEF at, outcome, created
  <2> QED BY <1>1, <2>1, <2>2 DEF Jobs
<1>3. stage \in {"gathering", "synthesising", "complete"}
  BY DEF StageFor
<1>4. row' = [StepState(h) EXCEPT !.stage = stage]
  BY DEF PersistStep
<1> HIDE DEF stage
<1>5. /\ row' \in Row /\ row'.findings = StepState(h).findings /\ row'.steps = StepState(h).steps
      /\ row'.calls = StepState(h).calls /\ row'.sources = StepState(h).sources
      /\ row'.plan = StepState(h).plan
  BY <1>1, <1>3, <1>4 DEF Row
<1>6. Respond(h, PersistedJob(r))
  BY DEF PersistStep, PersistedJob, StepDone
<1> QED BY <1>2, <1>5, <1>6, RespondIs

LEMMA InitTypeOK == InitResearch => TypeOKResearch
<1> SUFFICES ASSUME InitResearch PROVE TypeOKResearch
  OBVIOUS
<1>1. PICK asked \in Briefs : brief = DeriveCriteria(asked, external)
  BY DEF InitResearch
<1>2. /\ [kind |-> "artefact_count", want |-> "any", minimum |-> 1] \in Criterion
      /\ [kind |-> "evidence_class", want |-> "project_fact", minimum |-> 1] \in Criterion
  BY DEF Criterion
<1>3. brief \subseteq Criterion
  BY <1>1, <1>2, AnswersAreTyped DEF DeriveCriteria
<1>4. /\ run = [status |-> "proposed", criteria |-> {}, acceptance |-> "not_assessed",
               remediated |-> FALSE]
      /\ worker = [at |-> "none", iterations |-> 0, created |-> 0, tries |-> 0,
                   outcome |-> "none"]
      /\ requests = [h \in Handler |-> IdleHandler] /\ row = NoRow
      /\ artefacts = <<>> /\ retrieved = {} /\ external \in BOOLEAN
      /\ made = 0 /\ passes = 0 /\ lost = 0 /\ failures = 0 /\ toggles = 0
  BY DEF InitResearch
<1>5. run \in [status : {"proposed", "running"} \cup Terminal, criteria : SUBSET Criterion,
               acceptance : Acceptance, remediated : BOOLEAN]
  BY <1>4 DEF Acceptance
<1>6. worker \in Jobs
  BY <1>4, LimitsAreNatural DEF Jobs, Outcome
<1>7. requests \in [Handler -> Request] /\ \A h \in Handler : ~requests[h].waiting
  BY <1>4, IdleHandlerIsTyped DEF IdleHandler
<1>8. artefacts \in Seq(Paper)
  BY <1>4
<1> QED BY <1>3, <1>4, <1>5, <1>6, <1>7, <1>8, IdleHandlerIsTyped DEF TypeOKResearch, Jobs

(* The requests keep their type, and one answer at most is awaited. *)
RequestsAreTyped ==
    /\ requests \in [Handler -> Request]
    /\ \A g, h \in Handler : requests[g].waiting /\ requests[h].waiting => g = h

LEMMA RequestsStayTyped ==
  ASSUME InvResearch, NextResearch
  PROVE  RequestsAreTyped'
<1> USE DEF InvResearch
<1>1. /\ TypeOKResearch /\ RequestsAreShaped
      /\ requests \in [Handler -> Request] /\ RequestsAreTyped
  BY DEF TypeOKResearch, RequestsAreTyped
<1>2. ASSUME NEW h \in Handler, NEW new \in Request, Turns(h, new),
             new.waiting => requests[h].waiting \/ ~Waiting
      PROVE  RequestsAreTyped'
  <2>1. requests' \in [Handler -> Request]
    BY <1>2 DEF Turns
  <2> QED BY <1>1, <1>2, <2>1, StillOneIsAwaited DEF RequestsAreTyped
<1>3. ASSUME NEW h \in Handler, Turns(h, IdleHandler) PROVE RequestsAreTyped'
  BY <1>2, <1>3, IdleHandlerIsTyped DEF IdleHandler
<1>4. CASE ToggleExternal \/ ApproveRun \/ LoopEnds
  BY <1>1, <1>4 DEF ToggleExternal, ApproveRun, LoopEnds, RequestsAreTyped
<1>5. ASSUME NEW h \in Handler, AskStep(h) PROVE RequestsAreTyped'
  <2>1. ~Waiting
    BY <1>5 DEF AskStep, OneIsAwaited, Waiting
  <2> QED BY <1>1, <1>2, <1>5, <2>1, AskStepIs, NewIsTyped
<1>6. ASSUME NEW h \in Handler, SendRequest(h) PROVE RequestsAreTyped'
  <2>1. ~Waiting /\ worker.outcome \in Outcome
    BY <1>6 DEF SendRequest, TypeOKResearch
  <2> QED BY <1>1, <1>2, <1>6, <2>1, SendRequestIs, NewIsTyped
<1>7. ASSUME NEW h \in Handler, NEW new, Turns(h, new), new \in Request,
             new.waiting => requests[h].waiting
      PROVE  RequestsAreTyped'
  BY <1>2, <1>7
<1>8. ASSUME NEW h \in Handler, TimeOut(h) PROVE RequestsAreTyped'
  <2> DEFINE new == Unawaited(requests[h])
  <2>1. new \in Request /\ ~new.waiting
    BY <1>1, ChangesAreTyped, StepFields
  <2> QED BY <1>1, <1>7, <1>8, <2>1, TimeOutIs
<1>9. ASSUME NEW h \in Handler, BeginStep(h) PROVE RequestsAreTyped'
  <2>1. PICK new : Turns(h, new) /\ (new = Stopped(requests[h], BeginGeneralRun)
           \/ \E action \in {"gather", "synthesise", "finalise"}, answer \in Answers \cup WriteUps :
                 new = Working(requests[h], BeginGeneralRun, action, external,
                               SearchResultHosts, answer))
    BY <1>1, <1>9, BeginStepIs
  <2>2. new \in Request
    BY <2>1 DEF Turns
  <2>3. new.waiting => requests[h].waiting
    BY <1>1, <2>1 DEF Stopped, Working, BegunWith, Request
  <2> QED BY <1>7, <2>1, <2>2, <2>3
<1>10. ASSUME NEW h \in Handler, FinishState(h) \/ PersistStep(h) PROVE RequestsAreTyped'
  BY <1>1, <1>3, <1>10, FinishStateIs, PersistStepIs
<1>11. ASSUME NEW h \in Handler, StepFails(h) \/ CloseRun(h) PROVE RequestsAreTyped'
  BY <1>1, <1>3, <1>11, RespondIs DEF StepFails, CloseRun
<1>12. ASSUME NEW h \in Handler, CallTool(h) PROVE RequestsAreTyped'
  <2>1. PICK refs \in SUBSET Ref : Turns(h, Called(requests[h], refs))
    BY <1>1, <1>12, CallToolIs
  <2>2. Called(requests[h], refs) \in Request
    BY <2>1 DEF Turns
  <2>3. Called(requests[h], refs).waiting = requests[h].waiting
    BY <1>1 DEF Called, Request
  <2> QED BY <1>7, <2>1, <2>2, <2>3
<1>13. ASSUME NEW h \in Handler, StoreArtefact(h) PROVE RequestsAreTyped'
  <2>1. Turns(h, Stored(requests[h])) /\ Stored(requests[h]) \in Request
    BY <1>1, <1>13, StoreArtefactIs DEF Turns
  <2>2. Stored(requests[h]).waiting = requests[h].waiting
    BY <1>1 DEF Stored, Request
  <2> QED BY <1>7, <2>1, <2>2
<1>14. ASSUME NEW h \in Handler, ReviewAcceptance(h) PROVE RequestsAreTyped'
  <2>1. PICK state, unmet : Turns(h, Reviewed(requests[h], state, unmet))
    BY <1>1, <1>14, ReviewAcceptanceIs
  <2>2. Reviewed(requests[h], state, unmet) \in Request
    BY <2>1 DEF Turns
  <2>3. Reviewed(requests[h], state, unmet).waiting = requests[h].waiting
    BY <1>1 DEF Reviewed, Request
  <2> QED BY <1>7, <2>1, <2>2, <2>3
<1>15. ASSUME NEW h \in Handler, PersistReview(h) PROVE RequestsAreTyped'
  <2>1. CASE Turns(h, IdleHandler)
    BY <1>3, <2>1
  <2>2. CASE Turns(h, Closing(requests[h]))
    <3>1. Closing(requests[h]) \in Request
      BY <2>2 DEF Turns
    <3>2. Closing(requests[h]).waiting = requests[h].waiting
      BY <1>1 DEF Closing, Request
    <3> QED BY <1>7, <2>2, <3>1, <3>2
  <2>3. CASE Turns(h, Remedying(requests[h], row))
    <3>1. Remedying(requests[h], row) \in Request
      BY <2>3 DEF Turns
    <3>2. Remedying(requests[h], row).waiting = requests[h].waiting
      BY <1>1 DEF Remedying, Request
    <3> QED BY <1>7, <2>3, <3>1, <3>2
  <2> QED BY <1>1, <1>15, <2>1, <2>2, <2>3, PersistReviewIs
<1>16. ASSUME NEW h \in Handler, Remediate(h) PROVE RequestsAreTyped'
  <2>1. PICK unmet : Turns(h, Tried(requests[h], unmet))
    BY <1>1, <1>16, RemediateIs
  <2>2. Tried(requests[h], unmet) \in Request
    BY <2>1 DEF Turns
  <2>3. Tried(requests[h], unmet).waiting = requests[h].waiting
    BY <1>1 DEF Tried, Request
  <2> QED BY <1>7, <2>1, <2>2, <2>3
<1>17. ASSUME NEW h \in Handler, NoteRemediation(h) PROVE RequestsAreTyped'
  <2>1. Turns(h, Noted(requests[h])) /\ Noted(requests[h]) \in Request
    BY <1>1, <1>17, NoteRemediationIs DEF Turns
  <2>2. Noted(requests[h]).waiting = requests[h].waiting
    BY <1>1 DEF Noted, Request
  <2> QED BY <1>7, <2>1, <2>2
<1>18. ASSUME NEW h \in Handler, ReviewFails(h) PROVE RequestsAreTyped'
  <2>1. CASE Turns(h, IdleHandler)
    BY <1>3, <2>1
  <2>2. CASE Turns(h, Unassessed(requests[h]))
    <3>1. Unassessed(requests[h]) \in Request
      BY <2>2 DEF Turns
    <3>2. Unassessed(requests[h]).waiting = requests[h].waiting
      BY <1>1 DEF Unassessed, Request
    <3> QED BY <1>7, <2>2, <3>1, <3>2
  <2> QED BY <1>1, <1>18, <2>1, <2>2, ReviewFailsIs
<1> QED BY <1>4, <1>5, <1>6, <1>8, <1>9, <1>10, <1>11, <1>12, <1>13, <1>14, <1>15, <1>16, <1>17,
           <1>18, StepCases

-----------------------------------------------------------------------------
(* What each step does, field by field.                                    *)

(* Only the request of handler h changes. *)
Moves(h) ==
    /\ requests' \in [Handler -> Request]
    /\ \A g \in Handler \ {h} : requests'[g] = requests[g]

SameJob(w, x) == /\ x.at = w.at /\ x.created = w.created /\ x.outcome = w.outcome
                 /\ x.iterations = w.iterations

LEMMA AskStepDoes ==
  ASSUME TypeOKResearch, NEW h \in Handler, AskStep(h)
  PROVE  /\ Moves(h) /\ requests[h].kind = "idle" /\ requests'[h] = NewStep
         /\ worker.at = "loop" /\ worker.iterations < MaxSteps
         /\ worker' \in Jobs /\ worker'.at = "step" /\ worker'.iterations = worker.iterations + 1
         /\ worker'.created = worker.created /\ worker'.outcome = worker.outcome
         /\ UNCHANGED <<external, brief, run, row, retrieved, artefacts, made, passes, lost,
                        failures, toggles>>
<1>1. worker \in Jobs /\ worker.iterations + 1 \in 0 .. MaxSteps /\ 1 \in 0 .. Attempts
  BY LimitsAreNatural DEF TypeOKResearch, Jobs, AskStep
<1>2. worker' = [worker EXCEPT !.at = "step", !.iterations = worker.iterations + 1, !.tries = 1]
  BY DEF AskStep
<1>3. /\ worker' \in Jobs /\ worker'.at = "step" /\ worker'.iterations = worker.iterations + 1
      /\ worker'.created = worker.created /\ worker'.outcome = worker.outcome
  BY <1>1, <1>2 DEF Jobs
<1> QED BY <1>3, AskStepIs DEF AskStep, Turns, Moves, serverVars, history

LEMMA SendRequestDoes ==
  ASSUME TypeOKResearch, NEW h \in Handler, SendRequest(h)
  PROVE  /\ Moves(h) /\ requests[h].kind = "idle" /\ ~Waiting
         /\ \/ worker.at = "step" /\ requests'[h] = NewStep
            \/ worker.at = "review" /\ \E time \in BOOLEAN : requests'[h] = NewReview(time)
            \/ worker.at = "report" /\ requests'[h] = NewReport(worker.outcome)
         /\ worker' \in Jobs /\ SameJob(worker, worker')
         /\ UNCHANGED <<external, brief, run, row, retrieved, artefacts, made, passes, lost,
                        failures, toggles>>
<1>1. worker \in Jobs /\ worker.tries + 1 \in 0 .. Attempts
  <2>1. worker \in Jobs /\ worker.tries \in 0 .. Attempts /\ worker.tries < Attempts
    BY DEF TypeOKResearch, Jobs, SendRequest
  <2> QED BY <2>1, LimitsAreNatural
<1>2. worker' = [worker EXCEPT !.tries = worker.tries + 1]
  BY DEF SendRequest
<1>3. worker' \in Jobs /\ SameJob(worker, worker')
  BY <1>1, <1>2 DEF Jobs, SameJob
<1> QED BY <1>3, SendRequestIs DEF SendRequest, Turns, Moves, serverVars, history

(* A request sent again, or given up. *)
GivesUp(w, x) ==
    /\ x.created = w.created /\ x.iterations = w.iterations
    /\ \/ x.at = w.at /\ x.outcome = w.outcome
       \/ w.at = "step" /\ x.at = "report" /\ x.outcome = "failed"
       \/ w.at = "review" /\ x.at = "report" /\ x.outcome = "succeeded"
       \/ w.at \notin {"step", "review"} /\ x.at = "finished" /\ x.outcome = w.outcome

LEMMA RetryDoes ==
  ASSUME NEW w \in Jobs
  PROVE  Retry(w) \in Jobs /\ GivesUp(w, Retry(w))
<1>1. Retry(w) \in Jobs
  BY JobsAreTyped
<1>2. CASE w.tries >= Attempts /\ w.at = "step"
  <2>1. Retry(w) = [w EXCEPT !.at = "report", !.outcome = "failed", !.tries = 0]
    BY <1>2 DEF Retry, GiveUp
  <2> QED BY <1>1, <1>2, <2>1 DEF GivesUp, Jobs
<1>3. CASE w.tries >= Attempts /\ w.at = "review"
  <2>1. Retry(w) = [w EXCEPT !.at = "report", !.outcome = "succeeded", !.tries = 0]
    BY <1>3 DEF Retry, GiveUp
  <2> QED BY <1>1, <1>3, <2>1 DEF GivesUp, Jobs
<1>4. CASE w.tries >= Attempts /\ w.at \notin {"step", "review"}
  <2>1. Retry(w) = [w EXCEPT !.at = "finished", !.tries = 0]
    BY <1>4 DEF Retry, GiveUp
  <2> QED BY <1>1, <1>4, <2>1 DEF GivesUp, Jobs
<1>5. CASE ~(w.tries >= Attempts)
  <2>1. Retry(w) = [w EXCEPT !.at = w.at]
    BY <1>5 DEF Retry
  <2> QED BY <1>1, <2>1 DEF GivesUp, Jobs
<1> QED BY <1>1, <1>2, <1>3, <1>4, <1>5

LEMMA TimeOutDoes ==
  ASSUME TypeOKResearch, NEW h \in Handler, TimeOut(h)
  PROVE  /\ Moves(h) /\ requests[h].waiting /\ ~requests'[h].waiting
         /\ requests'[h].kind = requests[h].kind /\ requests'[h].at = requests[h].at
         /\ SameWork(requests[h], requests'[h]) /\ SameVerdict(requests[h], requests'[h])
         /\ worker' \in Jobs /\ GivesUp(worker, worker')
         /\ lost' = lost + 1
         /\ UNCHANGED <<external, brief, run, row, retrieved, artefacts, made, passes, failures,
                        toggles>>
<1>1. worker \in Jobs /\ requests[h] \in Request
  BY DEF TypeOKResearch, Jobs
<1>2. worker' \in Jobs /\ GivesUp(worker, worker')
  BY <1>1, RetryDoes DEF TimeOut
<1>3. Turns(h, Unawaited(requests[h]))
  BY TimeOutIs
<1>4. /\ Moves(h) /\ ~requests'[h].waiting
      /\ requests'[h].kind = requests[h].kind /\ requests'[h].at = requests[h].at
      /\ SameWork(requests[h], requests'[h]) /\ SameVerdict(requests[h], requests'[h])
  BY <1>1, <1>3, StepFields DEF Turns, Moves
<1>5. /\ requests[h].waiting /\ lost' = lost + 1
      /\ UNCHANGED <<external, brief, run, row, retrieved, artefacts, made, passes, failures,
                     toggles>>
  BY DEF TimeOut, serverVars, history
<1> QED BY <1>2, <1>4, <1>5

LEMMA BeginStepDoes ==
  ASSUME TypeOKResearch, NEW h \in Handler, BeginStep(h)
  PROVE  /\ Moves(h) /\ requests[h].kind = "step" /\ requests[h].at = "begin"
         /\ SamePlace(requests[h], requests'[h]) /\ SameVerdict(requests[h], requests'[h])
         /\ row' = BeginGeneralRun /\ row' \in Row
         /\ requests'[h].read = row' /\ requests'[h].calls = row'.calls
         /\ requests'[h].new = requests[h].new /\ requests'[h].stored = requests[h].stored
         /\ requests'[h].action = DecideNextStep(row')
         /\ IF DecideNextStep(row') = "stop"
            THEN requests'[h].at = "finish" /\ requests'[h].hosts = requests[h].hosts
            ELSE requests'[h].at = "work" /\ requests'[h].hosts = SearchResultHosts
         /\ UNCHANGED <<external, brief, run, retrieved, artefacts, worker, made, passes, lost,
                        failures, toggles>>
<1>1. requests[h] \in Request /\ BeginGeneralRun \in Row
  BY PinnedIsTyped DEF TypeOKResearch
<1>2. row' = BeginGeneralRun
  BY BeginStepIs
<1>3. CASE DecideNextStep(BeginGeneralRun) = "stop" /\ Turns(h, Stopped(requests[h], BeginGeneralRun))
  BY <1>1, <1>2, <1>3, StepFields DEF BeginStep, Turns, Moves, history
<1>4. ASSUME NEW action \in {"gather", "synthesise", "finalise"},
             NEW answer \in Answers \cup WriteUps,
             action = DecideNextStep(BeginGeneralRun),
             Turns(h, Working(requests[h], BeginGeneralRun, action, external,
                              SearchResultHosts, answer))
      PROVE  /\ Moves(h)
             /\ SamePlace(requests[h], requests'[h]) /\ SameVerdict(requests[h], requests'[h])
             /\ requests'[h].read = BeginGeneralRun /\ requests'[h].calls = BeginGeneralRun.calls
             /\ requests'[h].new = requests[h].new /\ requests'[h].stored = requests[h].stored
             /\ requests'[h].action = action
             /\ requests'[h].at = "work" /\ requests'[h].hosts = SearchResultHosts
  BY <1>1, <1>4, WorkingFields DEF Turns, Moves
<1>5. CASE \E action \in {"gather", "synthesise", "finalise"}, answer \in Answers \cup WriteUps :
             /\ action = DecideNextStep(BeginGeneralRun)
             /\ Turns(h, Working(requests[h], BeginGeneralRun, action, external,
                                 SearchResultHosts, answer))
  BY <1>1, <1>2, <1>4, <1>5 DEF BeginStep, history
<1> QED BY <1>3, <1>5, BeginStepIs

LEMMA CallToolDoes ==
  ASSUME TypeOKResearch, NEW h \in Handler, CallTool(h)
  PROVE  /\ Moves(h) /\ requests[h].kind = "step" /\ requests[h].at = "work"
         /\ SamePlace(requests[h], requests'[h]) /\ SameVerdict(requests[h], requests'[h])
         /\ requests'[h].at = "work" /\ requests'[h].read = requests[h].read
         /\ requests'[h].action = requests[h].action /\ requests'[h].calls = requests[h].calls + 1
         /\ requests'[h].stored = requests[h].stored /\ requests'[h].hosts = requests[h].hosts
         /\ \E c \in Lookup, refs \in SUBSET Ref :
               /\ requests'[h].new = requests[h].new \cup refs
               /\ PersistSources(c, refs)
               /\ \/ refs = {}
                  \/ refs = Finds[c] /\ (IsFetch(c) => MayFetch(c, requests[h].hosts))
         /\ made' = made \/ (requests[h].calls < MaxToolCalls /\ made' = made + 1)
         /\ UNCHANGED <<external, brief, run, row, artefacts, worker, passes, lost, failures,
                        toggles>>
<1>1. requests[h] \in Request
  BY DEF TypeOKResearch
<1>2. PICK c \in Lookup, refs \in SUBSET Ref :
            /\ Turns(h, Called(requests[h], refs))
            /\ PersistSources(c, refs)
            /\ \/ refs = {}
               \/ refs = Finds[c] /\ (IsFetch(c) => MayFetch(c, requests[h].hosts))
            /\ made' = made \/ (requests[h].calls < MaxToolCalls /\ made' = made + 1)
  BY CallToolIs
<1>3. /\ Moves(h) /\ SamePlace(requests[h], requests'[h])
      /\ SameVerdict(requests[h], requests'[h]) /\ requests'[h].at = requests[h].at
      /\ requests'[h].read = requests[h].read /\ requests'[h].action = requests[h].action
      /\ requests'[h].calls = requests[h].calls + 1
      /\ requests'[h].stored = requests[h].stored /\ requests'[h].hosts = requests[h].hosts
      /\ requests'[h].new = requests[h].new \cup refs
  BY <1>1, <1>2, StepFields DEF Turns, Moves
<1>4. made' = made \/ (requests[h].calls < MaxToolCalls /\ made' = made + 1)
  BY <1>2
<1> QED BY <1>2, <1>3, <1>4 DEF CallTool

LEMMA StoreArtefactDoes ==
  ASSUME TypeOKResearch, NEW h \in Handler, StoreArtefact(h)
  PROVE  /\ Moves(h) /\ requests[h].kind = "step" /\ requests[h].at = "work"
         /\ SamePlace(requests[h], requests'[h]) /\ SameVerdict(requests[h], requests'[h])
         /\ requests'[h].at = "work" /\ requests'[h].read = requests[h].read
         /\ requests'[h].action = requests[h].action /\ requests'[h].calls = requests[h].calls
         /\ requests'[h].stored = requests[h].stored + 1 /\ requests'[h].hosts = requests[h].hosts
         /\ requests'[h].new = requests[h].new
         /\ \/ /\ artefacts' = Append(artefacts, WithFindings(Head(requests[h].papers),
                                                              StepState(h).findings))
               /\ failures' = failures
            \/ artefacts' = artefacts /\ failures' = failures + 1
         /\ requests[h].papers # <<>>
         /\ UNCHANGED <<external, brief, run, row, retrieved, worker, made, passes, lost, toggles>>
<1>1. requests[h] \in Request
  BY DEF TypeOKResearch
<1>2. Turns(h, Stored(requests[h]))
  BY StoreArtefactIs
<1>3. /\ Moves(h) /\ SamePlace(requests[h], requests'[h])
      /\ SameVerdict(requests[h], requests'[h]) /\ requests'[h].at = requests[h].at
      /\ requests'[h].read = requests[h].read /\ requests'[h].action = requests[h].action
      /\ requests'[h].calls = requests[h].calls
      /\ requests'[h].stored = requests[h].stored + 1 /\ requests'[h].hosts = requests[h].hosts
      /\ requests'[h].new = requests[h].new
  BY <1>1, <1>2, StepFields DEF Turns, Moves
<1> QED BY <1>3 DEF StoreArtefact, history

LEMMA FinishStateDoes ==
  ASSUME TypeOKResearch, NEW h \in Handler, FinishState(h)
  PROVE  /\ Moves(h) /\ requests[h].kind = "step" /\ requests[h].at = "finish"
         /\ requests'[h] = IdleHandler
         /\ row' \in Row /\ row'.sources = requests[h].read.sources
         /\ row'.findings = requests[h].read.findings /\ row'.calls = requests[h].read.calls
         /\ row'.steps = requests[h].read.steps /\ row'.plan = requests[h].read.plan
         /\ worker' \in Jobs
         /\ IF requests[h].waiting
            THEN /\ worker'.at = IF worker.created = 0 THEN "report" ELSE "review"
                 /\ worker'.outcome = IF worker.created = 0 THEN "failed" ELSE "none"
                 /\ worker'.created = worker.created /\ worker'.iterations = worker.iterations
            ELSE worker' = worker
         /\ UNCHANGED <<external, brief, run, retrieved, artefacts, made, passes, lost, failures,
                        toggles>>
<1>1. requests[h].read \in Row /\ worker \in Jobs
  BY DEF TypeOKResearch, Request, Jobs
<1>2. /\ row' \in Row /\ row'.sources = requests[h].read.sources
      /\ row'.findings = requests[h].read.findings /\ row'.calls = requests[h].read.calls
      /\ row'.steps = requests[h].read.steps /\ row'.plan = requests[h].read.plan
  BY <1>1, FinishStateIs DEF Row
<1>3. /\ FinishedJob.at = IF worker.created = 0 THEN "report" ELSE "review"
      /\ FinishedJob.outcome = IF worker.created = 0 THEN "failed" ELSE "none"
      /\ FinishedJob.created = worker.created /\ FinishedJob.iterations = worker.iterations
  BY <1>1 DEF FinishedJob, Jobs
<1>4. /\ worker' \in Jobs
      /\ IF requests[h].waiting
         THEN /\ worker'.at = IF worker.created = 0 THEN "report" ELSE "review"
              /\ worker'.outcome = IF worker.created = 0 THEN "failed" ELSE "none"
              /\ worker'.created = worker.created /\ worker'.iterations = worker.iterations
         ELSE worker' = worker
  <2>1. CASE requests[h].waiting
    BY <1>3, <2>1, FinishStateIs
  <2>2. CASE ~requests[h].waiting
    BY <1>1, <2>2, FinishStateIs
  <2> QED BY <2>1, <2>2
<1>5. Moves(h) /\ requests'[h] = IdleHandler
  BY FinishStateIs DEF Turns, Moves
<1> QED BY <1>2, <1>4, <1>5 DEF FinishState, history

LEMMA StepFailsDoes ==
  ASSUME TypeOKResearch, NEW h \in Handler, StepFails(h)
  PROVE  /\ Moves(h) /\ requests[h].kind = "step" /\ requests[h].at = "work"
         /\ requests'[h] = IdleHandler
         /\ worker' \in Jobs
         /\ IF requests[h].waiting THEN GivesUp(worker, worker') ELSE worker' = worker
         /\ failures' = failures + 1
         /\ UNCHANGED <<external, brief, run, row, retrieved, artefacts, made, passes, lost,
                        toggles>>
<1>1. worker \in Jobs
  BY DEF TypeOKResearch, Jobs
<1>2. Turns(h, IdleHandler) /\ worker' = IF requests[h].waiting THEN Retry(worker) ELSE worker
  BY RespondIs DEF StepFails
<1>3. worker' \in Jobs /\ IF requests[h].waiting THEN GivesUp(worker, worker') ELSE worker' = worker
  BY <1>1, <1>2, RetryDoes
<1> QED BY <1>2, <1>3 DEF StepFails, Turns, Moves, serverVars, history

LEMMA PersistStepDoes ==
  ASSUME TypeOKResearch, RequestsAreShaped, NEW h \in Handler, PersistStep(h)
  PROVE  /\ Moves(h) /\ requests[h].kind = "step" /\ requests[h].at = "work"
         /\ requests'[h] = IdleHandler
         /\ row' \in Row /\ row'.findings = StepState(h).findings
         /\ row'.sources = requests[h].read.sources \cup requests[h].new
         /\ row'.calls = requests[h].calls /\ row'.steps = requests[h].read.steps + 1
         /\ row'.plan = requests[h].read.plan
         /\ worker' \in Jobs
         /\ IF requests[h].waiting
            THEN /\ worker'.created = worker.created + requests[h].stored
                 /\ worker'.iterations = worker.iterations
                 /\ \/ worker'.at = "loop" /\ worker'.outcome = "none"
                    \/ worker'.at = "report" /\ worker'.outcome = "failed" /\ worker'.created = 0
                    \/ worker'.at = "review" /\ worker'.outcome = "none" /\ worker'.created > 0
            ELSE worker' = worker
         /\ UNCHANGED <<external, brief, run, retrieved, artefacts, made, passes, lost, failures,
                        toggles>>
<1> DEFINE r == requests[h]
<1>1. worker \in Jobs /\ worker.created \in Nat /\ r.stored \in Nat /\ r.at = "work"
  BY DEF TypeOKResearch, Request, Jobs, PersistStep
<1>2. /\ row' \in Row /\ row'.findings = StepState(h).findings
      /\ row'.sources = r.read.sources \cup r.new
      /\ row'.calls = r.calls /\ row'.steps = r.read.steps + 1
      /\ row'.plan = r.read.plan
  BY <1>1, PersistStepIs, StepStateIsTyped
<1>3. /\ PersistedJob(r).created = worker.created + r.stored
      /\ PersistedJob(r).iterations = worker.iterations
      /\ PersistedJob(r).at = IF ~StepDone(r) THEN "loop"
                              ELSE IF worker.created + r.stored = 0 THEN "report" ELSE "review"
      /\ PersistedJob(r).outcome = IF StepDone(r) /\ worker.created + r.stored = 0
                                   THEN "failed" ELSE "none"
  <2> HIDE DEF r
  <2> QED BY <1>1 DEF PersistedJob, Jobs
<1>4. ASSUME r.waiting
      PROVE  /\ worker'.created = worker.created + r.stored
             /\ worker'.iterations = worker.iterations
             /\ \/ worker'.at = "loop" /\ worker'.outcome = "none"
                \/ worker'.at = "report" /\ worker'.outcome = "failed" /\ worker'.created = 0
                \/ worker'.at = "review" /\ worker'.outcome = "none" /\ worker'.created > 0
  <2>1. worker' = PersistedJob(r)
    BY <1>4, PersistStepIs
  <2>2. worker.created + r.stored = 0 \/ worker.created + r.stored > 0
    BY <1>1
  <2> HIDE DEF r
  <2> QED BY <1>3, <2>1, <2>2
<1>5. worker' \in Jobs /\ (~r.waiting => worker' = worker)
  BY <1>1, PersistStepIs
<1>6. Moves(h) /\ requests'[h] = IdleHandler
  BY PersistStepIs DEF Turns, Moves
<1> QED BY <1>2, <1>4, <1>5, <1>6 DEF PersistStep, history

LEMMA ReviewAcceptanceDoes ==
  ASSUME TypeOKResearch, NEW h \in Handler, ReviewAcceptance(h)
  PROVE  /\ Moves(h) /\ requests[h].kind \in {"review", "complete"}
         /\ requests[h].at = "evidence" /\ requests'[h].at = "persist"
         /\ SamePlace(requests[h], requests'[h]) /\ SameWork(requests[h], requests'[h])
         /\ requests'[h].state = AcceptanceState(run.criteria, artefacts, Refs)
         /\ requests'[h].second = requests[h].second /\ requests'[h].outcome = requests[h].outcome
         /\ UNCHANGED <<external, brief, run, row, retrieved, artefacts, worker, made, passes,
                        lost, failures, toggles>>
<1> DEFINE state == AcceptanceState(run.criteria, artefacts, Refs)
           unmet == Unmet(run.criteria, artefacts, Refs)
<1>1. requests[h] \in Request /\ unmet \in SUBSET Criterion /\ state \in Acceptance
  BY DEF TypeOKResearch, Unmet, AcceptanceState, Acceptance
<1>2. Turns(h, Reviewed(requests[h], state, unmet))
  BY ReviewAcceptanceIs
<1> HIDE DEF state, unmet
<1>3. /\ Moves(h) /\ requests'[h].at = "persist"
      /\ SamePlace(requests[h], requests'[h]) /\ SameWork(requests[h], requests'[h])
      /\ requests'[h].state = state
      /\ requests'[h].second = requests[h].second /\ requests'[h].outcome = requests[h].outcome
  BY <1>1, <1>2, ReviewFields DEF Turns, Moves
<1> QED BY <1>3 DEF ReviewAcceptance, serverVars, history, state

LEMMA PersistReviewDoes ==
  ASSUME TypeOKResearch, NEW h \in Handler, PersistReview(h)
  PROVE  /\ Moves(h) /\ requests[h].at = "persist"
         /\ run' = [run EXCEPT !.acceptance = requests[h].state]
         /\ \/ /\ requests[h].kind = "complete" /\ requests'[h].at = "close"
               /\ SamePlace(requests[h], requests'[h]) /\ SameWork(requests[h], requests'[h])
               /\ SameVerdict(requests[h], requests'[h])
               /\ worker' = worker /\ passes' = passes
            \/ /\ requests[h].kind = "review" /\ ~requests[h].second
               /\ requests'[h].at = "remedy" /\ requests'[h].read = row
               /\ SamePlace(requests[h], requests'[h]) /\ SameVerdict(requests[h], requests'[h])
               /\ requests'[h].calls = requests[h].calls /\ requests'[h].new = requests[h].new
               /\ requests'[h].stored = requests[h].stored
               /\ requests'[h].hosts = requests[h].hosts
               /\ worker' = worker /\ passes' = passes + 1
            \/ /\ requests[h].kind = "review" /\ requests'[h] = IdleHandler
               /\ worker' \in Jobs
               /\ IF requests[h].waiting
                  THEN /\ worker'.at = "report" /\ worker'.outcome = "succeeded"
                       /\ worker'.created = worker.created
                       /\ worker'.iterations = worker.iterations
                  ELSE worker' = worker
               /\ passes' = passes
         /\ UNCHANGED <<external, brief, row, retrieved, artefacts, made, lost, failures, toggles>>
<1>1. requests[h] \in Request /\ row \in Row /\ worker \in Jobs
  BY DEF TypeOKResearch, Jobs
<1>2. CASE requests[h].kind = "complete" /\ Turns(h, Closing(requests[h]))
           /\ UNCHANGED <<worker, passes>>
  <2>1. /\ Moves(h) /\ requests'[h].at = "close"
        /\ SamePlace(requests[h], requests'[h]) /\ SameWork(requests[h], requests'[h])
        /\ SameVerdict(requests[h], requests'[h])
    BY <1>1, <1>2, ReviewFields DEF Turns, Moves
  <2> QED BY <1>2, <2>1 DEF PersistReview
<1>3. CASE Remediates(requests[h]) /\ Turns(h, Remedying(requests[h], row))
           /\ passes' = passes + 1 /\ worker' = worker
  <2>1. /\ Moves(h) /\ requests'[h].at = "remedy" /\ requests'[h].read = row
        /\ SamePlace(requests[h], requests'[h]) /\ SameVerdict(requests[h], requests'[h])
        /\ requests'[h].calls = requests[h].calls /\ requests'[h].new = requests[h].new
        /\ requests'[h].stored = requests[h].stored
        /\ requests'[h].hosts = requests[h].hosts
    BY <1>1, <1>3, ReviewFields DEF Turns, Moves
  <2> QED BY <1>3, <2>1 DEF PersistReview, Remediates
<1>4. CASE /\ requests[h].kind = "review" /\ Turns(h, IdleHandler)
           /\ worker' = IF requests[h].waiting
                        THEN [worker EXCEPT !.at = "report", !.outcome = "succeeded", !.tries = 0]
                        ELSE worker
           /\ passes' = passes
  <2>1. 0 \in 0 .. Attempts
    BY LimitsAreNatural
  <2>2. CASE requests[h].waiting
    <3>1. worker' = [worker EXCEPT !.at = "report", !.outcome = "succeeded", !.tries = 0]
      BY <1>4, <2>2
    <3>2. /\ worker' \in Jobs /\ worker'.at = "report" /\ worker'.outcome = "succeeded"
          /\ worker'.created = worker.created /\ worker'.iterations = worker.iterations
      BY <1>1, <2>1, <3>1 DEF Jobs, Outcome
    <3> QED BY <1>4, <2>2, <3>2 DEF PersistReview, Turns, Moves
  <2>3. CASE ~requests[h].waiting
    BY <1>1, <1>4, <2>3 DEF PersistReview, Turns, Moves
  <2> QED BY <2>2, <2>3
<1> QED BY <1>2, <1>3, <1>4, PersistReviewIs

LEMMA RemediateDoes ==
  ASSUME TypeOKResearch, NEW h \in Handler, Remediate(h)
  PROVE  /\ Moves(h) /\ requests[h].at = "remedy" /\ requests'[h].at = "remedy"
         /\ SamePlace(requests[h], requests'[h]) /\ SameWork(requests[h], requests'[h])
         /\ SameVerdict(requests[h], requests'[h])
         /\ \E papers \in Remedies :
               artefacts' = artefacts \o [i \in DOMAIN papers |->
                                WithFindings(papers[i], requests[h].read.findings)]
         /\ UNCHANGED <<external, brief, run, row, retrieved, worker, made, passes, lost,
                        failures, toggles>>
<1>1. requests[h] \in Request
  BY DEF TypeOKResearch
<1>2. PICK unmet \in SUBSET Criterion : Turns(h, Tried(requests[h], unmet))
  BY RemediateIs
<1>3. /\ Moves(h) /\ requests'[h].at = requests[h].at
      /\ SamePlace(requests[h], requests'[h]) /\ SameWork(requests[h], requests'[h])
      /\ SameVerdict(requests[h], requests'[h])
  BY <1>1, <1>2, ReviewFields DEF Turns, Moves
<1> QED BY <1>3 DEF Remediate, history

LEMMA NoteRemediationDoes ==
  ASSUME TypeOKResearch, NEW h \in Handler, NoteRemediation(h)
  PROVE  /\ Moves(h) /\ requests[h].at = "remedy" /\ requests'[h].at = "evidence"
         /\ SamePlace(requests[h], requests'[h])
         /\ requests'[h].read = NoRow /\ requests'[h].calls = requests[h].calls
         /\ requests'[h].new = requests[h].new /\ requests'[h].stored = requests[h].stored
         /\ requests'[h].hosts = requests[h].hosts /\ requests'[h].second
         /\ requests'[h].state = requests[h].state /\ requests'[h].outcome = requests[h].outcome
         /\ run' = [run EXCEPT !.remediated = TRUE]
         /\ UNCHANGED <<external, brief, row, retrieved, artefacts, worker, made, passes, lost,
                        failures, toggles>>
<1>1. requests[h] \in Request
  BY DEF TypeOKResearch
<1>2. Turns(h, Noted(requests[h]))
  BY NoteRemediationIs
<1>3. /\ Moves(h) /\ requests'[h].at = "evidence"
      /\ SamePlace(requests[h], requests'[h])
      /\ requests'[h].read = NoRow /\ requests'[h].calls = requests[h].calls
      /\ requests'[h].new = requests[h].new /\ requests'[h].stored = requests[h].stored
      /\ requests'[h].hosts = requests[h].hosts /\ requests'[h].second
      /\ requests'[h].state = requests[h].state /\ requests'[h].outcome = requests[h].outcome
  BY <1>1, <1>2, ReviewFields DEF Turns, Moves
<1> QED BY <1>3 DEF NoteRemediation, history

LEMMA ReviewFailsDoes ==
  ASSUME TypeOKResearch, NEW h \in Handler, ReviewFails(h)
  PROVE  /\ Moves(h)
         /\ \/ /\ requests[h].kind = "review" /\ requests'[h] = IdleHandler
               /\ worker' \in Jobs
               /\ IF requests[h].waiting THEN GivesUp(worker, worker') ELSE worker' = worker
            \/ /\ requests[h].kind = "complete" /\ requests'[h].at = "close"
               /\ SamePlace(requests[h], requests'[h]) /\ SameWork(requests[h], requests'[h])
               /\ requests'[h].state = "not_assessed"
               /\ requests'[h].second = requests[h].second
               /\ requests'[h].outcome = requests[h].outcome
               /\ worker' = worker
         /\ failures' = failures + 1
         /\ UNCHANGED <<external, brief, run, row, retrieved, artefacts, made, passes, lost,
                        toggles>>
<1>1. requests[h] \in Request /\ worker \in Jobs
  BY DEF TypeOKResearch, Jobs
<1>2. CASE requests[h].kind = "review" /\ Turns(h, IdleHandler)
           /\ worker' = IF requests[h].waiting THEN Retry(worker) ELSE worker
  BY <1>1, <1>2, RetryDoes DEF ReviewFails, serverVars, history, Turns, Moves
<1>3. CASE requests[h].kind = "complete" /\ Turns(h, Unassessed(requests[h])) /\ worker' = worker
  <2>1. /\ Moves(h) /\ requests'[h].at = "close"
        /\ SamePlace(requests[h], requests'[h]) /\ SameWork(requests[h], requests'[h])
        /\ requests'[h].state = "not_assessed"
        /\ requests'[h].second = requests[h].second
        /\ requests'[h].outcome = requests[h].outcome
    BY <1>1, <1>3, ReviewFields DEF Turns, Moves
  <2> QED BY <1>3, <2>1 DEF ReviewFails, serverVars, history
<1> QED BY <1>2, <1>3, ReviewFailsIs

LEMMA CloseRunDoes ==
  ASSUME TypeOKResearch, NEW h \in Handler, CloseRun(h)
  PROVE  /\ Moves(h) /\ requests[h].kind = "complete" /\ requests[h].at = "close"
         /\ requests'[h] = IdleHandler
         /\ run' = IF run.status \in Terminal THEN run
                   ELSE [run EXCEPT !.status = ClosingStatus(requests[h])]
         /\ worker' \in Jobs
         /\ IF requests[h].waiting
            THEN /\ worker'.at = "finished" /\ worker'.created = worker.created
                 /\ worker'.outcome = worker.outcome /\ worker'.iterations = worker.iterations
            ELSE worker' = worker
         /\ UNCHANGED <<external, brief, row, retrieved, artefacts, made, passes, lost, failures,
                        toggles>>
<1>1. worker \in Jobs
  BY DEF TypeOKResearch, Jobs
<1>2. /\ Turns(h, IdleHandler)
      /\ worker' = IF requests[h].waiting THEN [worker EXCEPT !.at = "finished"] ELSE worker
  BY RespondIs DEF CloseRun
<1>3. /\ worker' \in Jobs
      /\ IF requests[h].waiting
         THEN /\ worker'.at = "finished" /\ worker'.created = worker.created
              /\ worker'.outcome = worker.outcome /\ worker'.iterations = worker.iterations
         ELSE worker' = worker
  BY <1>1, <1>2 DEF Jobs
<1> QED BY <1>2, <1>3 DEF CloseRun, Turns, Moves, history

LEMMA QuietStepDoes ==
  ASSUME TypeOKResearch, ToggleExternal \/ ApproveRun \/ LoopEnds
  PROVE  /\ requests' = requests /\ worker' \in Jobs
         /\ worker'.created = worker.created /\ worker'.iterations = worker.iterations
         /\ \/ worker' = worker /\ run' = run
            \/ /\ worker.at = "loop" /\ run' = run
               /\ worker'.at = IF worker.created = 0 THEN "report" ELSE "review"
               /\ worker'.outcome = IF worker.created = 0 THEN "failed" ELSE "none"
            \/ /\ run.status = "proposed" /\ run' = [run EXCEPT !.status = "running",
                                                                !.criteria = brief]
               /\ worker'.at = "loop" /\ worker'.outcome = worker.outcome
         /\ external' \in BOOLEAN /\ toggles' \in Nat
         /\ UNCHANGED <<brief, row, retrieved, artefacts, made, passes, lost, failures>>
<1>1. worker \in Jobs /\ external \in BOOLEAN /\ toggles \in Nat
  BY DEF TypeOKResearch, Jobs
<1>2. CASE ToggleExternal
  BY <1>1, <1>2 DEF ToggleExternal, serverVars, history
<1>3. CASE ApproveRun
  <2>1. worker' = [worker EXCEPT !.at = "loop"]
    BY <1>3 DEF ApproveRun
  <2>2. /\ worker' \in Jobs /\ worker'.at = "loop" /\ worker'.created = worker.created
        /\ worker'.iterations = worker.iterations /\ worker'.outcome = worker.outcome
    BY <1>1, <2>1 DEF Jobs
  <2> QED BY <1>1, <1>3, <2>2 DEF ApproveRun, history
<1>4. CASE LoopEnds
  <2> DEFINE at == IF worker.created = 0 THEN "report" ELSE "review"
             outcome == IF worker.created = 0 THEN "failed" ELSE "none"
  <2>1. at \in {"report", "review"} /\ outcome \in Outcome
    BY DEF Outcome
  <2>2. worker' = [worker EXCEPT !.at = at, !.outcome = outcome]
    BY <1>4 DEF LoopEnds
  <2> HIDE DEF at, outcome
  <2>3. /\ worker' \in Jobs /\ worker'.at = at /\ worker'.created = worker.created
        /\ worker'.iterations = worker.iterations /\ worker'.outcome = outcome
    BY <1>1, <2>1, <2>2 DEF Jobs
  <2> QED BY <1>1, <1>4, <2>3 DEF LoopEnds, serverVars, history, at, outcome
<1> QED BY <1>2, <1>3, <1>4

-----------------------------------------------------------------------------
(* The type is kept.                                                       *)

RestIsTyped ==
    /\ row \in Row /\ worker \in Jobs
    /\ run \in [status : {"proposed", "running"} \cup Terminal, criteria : SUBSET Criterion,
                acceptance : Acceptance, remediated : BOOLEAN]
    /\ retrieved \subseteq [ref : Ref, tool : STRING]
    /\ \A s, t \in retrieved : s.ref = t.ref => s = t
    /\ artefacts \in Seq(Paper)
    /\ external \in BOOLEAN /\ brief \subseteq Criterion
    /\ made \in Nat /\ passes \in Nat /\ lost \in Nat /\ failures \in Nat /\ toggles \in Nat

LEMMA TypeInParts == TypeOKResearch <=> RequestsAreTyped /\ RestIsTyped
BY DEF TypeOKResearch, RequestsAreTyped, RestIsTyped, Jobs

LEMMA TypeInPartsNext == TypeOKResearch' <=> RequestsAreTyped' /\ RestIsTyped'
BY DEF TypeOKResearch, RequestsAreTyped, RestIsTyped, Jobs

RunType == [status : {"proposed", "running"} \cup Terminal, criteria : SUBSET Criterion,
            acceptance : Acceptance, remediated : BOOLEAN]

(* Documents stored with the findings of the step or of the run. *)
LEMMA DocumentsAreTyped ==
  ASSUME NEW papers \in Seq(Paper), NEW findings \in SUBSET Finding, NEW docs \in Seq(Paper)
  PROVE  /\ docs \o [i \in DOMAIN papers |-> WithFindings(papers[i], findings)] \in Seq(Paper)
         /\ papers # <<>> => Append(docs, WithFindings(Head(papers), findings)) \in Seq(Paper)
<1>1. [i \in DOMAIN papers |-> WithFindings(papers[i], findings)] \in Seq(Paper)
  <2>1. \A i \in 1 .. Len(papers) : WithFindings(papers[i], findings) \in Paper
    BY PapersAreTyped
  <2> QED BY <2>1, LenProperties, IsASeq
<1>2. ASSUME papers # <<>> PROVE WithFindings(Head(papers), findings) \in Paper
  BY <1>2, PapersAreTyped, HeadTailProperties
<1> QED BY <1>1, <1>2, ConcatProperties, AppendProperties

LEMMA RestStaysTyped ==
  ASSUME InvResearch, NextResearch
  PROVE  RestIsTyped'
<1> USE DEF InvResearch
<1>1. TypeOKResearch /\ RequestsAreShaped /\ RestIsTyped
  BY TypeInParts
<1>2. run \in RunType /\ brief \subseteq Criterion
  BY <1>1 DEF RestIsTyped, RunType
<1>3. CASE ToggleExternal \/ ApproveRun \/ LoopEnds
  <2>1. run' \in RunType
    BY <1>1, <1>2, <1>3, QuietStepDoes DEF RunType
  <2> QED BY <1>1, <1>3, <2>1, QuietStepDoes DEF RestIsTyped, RunType
<1>4. ASSUME NEW h \in Handler, AskStep(h) \/ SendRequest(h) PROVE RestIsTyped'
  BY <1>1, <1>4, AskStepDoes, SendRequestDoes DEF RestIsTyped
<1>5. ASSUME NEW h \in Handler, TimeOut(h) \/ StepFails(h) PROVE RestIsTyped'
  BY <1>1, <1>5, TimeOutDoes, StepFailsDoes DEF RestIsTyped
<1>6. ASSUME NEW h \in Handler, BeginStep(h) \/ FinishState(h) PROVE RestIsTyped'
  BY <1>1, <1>6, BeginStepDoes, FinishStateDoes DEF RestIsTyped
<1>7. ASSUME NEW h \in Handler, PersistStep(h) PROVE RestIsTyped'
  BY <1>1, <1>7, PersistStepDoes DEF RestIsTyped
<1>8. ASSUME NEW h \in Handler, CallTool(h) PROVE RestIsTyped'
  <2>1. PICK c \in Lookup, refs \in SUBSET Ref : PersistSources(c, refs)
    BY <1>1, <1>8, CallToolDoes
  <2>2. /\ retrieved' \subseteq [ref : Ref, tool : STRING]
        /\ \A s, t \in retrieved' : s.ref = t.ref => s = t
    BY <1>1, <2>1, SourcesAreRecordedOnce
  <2>3. made' \in Nat
    <3>1. made' = made \/ made' = made + 1
      BY <1>1, <1>8, CallToolDoes
    <3> QED BY <1>1, <3>1 DEF RestIsTyped
  <2>4. UNCHANGED <<external, brief, run, row, artefacts, worker, passes, lost, failures, toggles>>
    BY <1>1, <1>8, CallToolDoes
  <2> QED BY <1>1, <2>2, <2>3, <2>4 DEF RestIsTyped
<1>9. ASSUME NEW h \in Handler, StoreArtefact(h) PROVE RestIsTyped'
  <2>1. /\ StepState(h).findings \in SUBSET Finding /\ requests[h].papers \in Seq(Paper)
        /\ requests[h].papers # <<>> /\ artefacts \in Seq(Paper)
    BY <1>1, <1>9, StoreArtefactDoes, StepStateIsTyped DEF TypeOKResearch, Request
  <2>2. artefacts' \in Seq(Paper)
    BY <1>1, <1>9, <2>1, StoreArtefactDoes, DocumentsAreTyped
  <2>3. failures' \in Nat
    <3>1. failures' = failures \/ failures' = failures + 1
      BY <1>1, <1>9, StoreArtefactDoes
    <3> QED BY <1>1, <3>1 DEF RestIsTyped
  <2>4. UNCHANGED <<external, brief, run, row, retrieved, worker, made, passes, lost, toggles>>
    BY <1>1, <1>9, StoreArtefactDoes
  <2> QED BY <1>1, <2>2, <2>3, <2>4 DEF RestIsTyped
<1>10. ASSUME NEW h \in Handler, ReviewAcceptance(h) PROVE RestIsTyped'
  BY <1>1, <1>10, ReviewAcceptanceDoes DEF RestIsTyped
<1>11. ASSUME NEW h \in Handler, PersistReview(h) PROVE RestIsTyped'
  <2>1. run' \in RunType
    <3>1. requests[h].state \in Acceptance /\ run' = [run EXCEPT !.acceptance = requests[h].state]
      BY <1>1, <1>11, PersistReviewDoes DEF TypeOKResearch, Request
    <3> QED BY <1>2, <3>1 DEF RunType
  <2>2. passes' \in Nat /\ worker' \in Jobs
    <3>1. passes' = passes \/ passes' = passes + 1
      BY <1>1, <1>11, PersistReviewDoes
    <3>2. worker \in Jobs /\ (worker' = worker \/ worker' \in Jobs)
      BY <1>1, <1>11, PersistReviewDoes DEF RestIsTyped
    <3> QED BY <1>1, <3>1, <3>2 DEF RestIsTyped
  <2>3. UNCHANGED <<external, brief, row, retrieved, artefacts, made, lost, failures, toggles>>
    BY <1>1, <1>11, PersistReviewDoes
  <2> QED BY <1>1, <2>1, <2>2, <2>3 DEF RestIsTyped, RunType
<1>12. ASSUME NEW h \in Handler, Remediate(h) PROVE RestIsTyped'
  <2>1. requests[h].read.findings \in SUBSET Finding /\ artefacts \in Seq(Paper)
    BY <1>1 DEF TypeOKResearch, Request, Row
  <2>2. artefacts' \in Seq(Paper)
    BY ZenonT(60), <1>1, <1>12, <2>1, RemediateDoes, DocumentsAreTyped, AnswersAreTyped
  <2> QED BY <1>1, <1>12, <2>2, RemediateDoes DEF RestIsTyped
<1>13. ASSUME NEW h \in Handler, NoteRemediation(h) PROVE RestIsTyped'
  <2>1. run' \in RunType
    BY <1>1, <1>2, <1>13, NoteRemediationDoes DEF RunType
  <2> QED BY <1>1, <1>13, <2>1, NoteRemediationDoes DEF RestIsTyped, RunType
<1>14. ASSUME NEW h \in Handler, ReviewFails(h) PROVE RestIsTyped'
  BY <1>1, <1>14, ReviewFailsDoes DEF RestIsTyped
<1>15. ASSUME NEW h \in Handler, CloseRun(h) PROVE RestIsTyped'
  <2>1. ClosingStatus(requests[h]) \in {"running"} \cup Terminal
    <3>1. requests[h].outcome \in {"failed", "succeeded"}
      BY <1>1, <1>15, CloseRunDoes
         DEF TypeOKResearch, Request, Outcome, RequestsAreShaped, Shaped
    <3> QED BY <3>1 DEF ClosingStatus, Terminal
  <2>2. run' \in RunType
    BY <1>1, <1>2, <1>15, <2>1, CloseRunDoes DEF RunType
  <2> QED BY <1>1, <1>15, <2>2, CloseRunDoes DEF RestIsTyped, RunType
<1> QED BY <1>3, <1>4, <1>5, <1>6, <1>7, <1>8, <1>9, <1>10, <1>11, <1>12, <1>13, <1>14, <1>15,
           StepCases

LEMMA TypeNextResearch == InvResearch /\ NextResearch => TypeOKResearch'
BY RequestsStayTyped, RestStaysTyped, TypeInPartsNext

-----------------------------------------------------------------------------
(* The requests keep their shape.                                          *)

LEMMA PinnedIs ==
  ASSUME TypeOKResearch, RequestsAreShaped
  PROVE  /\ BeginGeneralRun.plan = "pinned"
         /\ BeginGeneralRun.steps = row.steps /\ BeginGeneralRun.calls = row.calls
         /\ BeginGeneralRun.sources = row.sources /\ BeginGeneralRun.findings = row.findings
<1>1. CASE row.plan # "none"
  BY <1>1 DEF BeginGeneralRun, TypeOKResearch, Row
<1>2. CASE row.plan = "none"
  BY <1>2 DEF BeginGeneralRun, NoRow, RequestsAreShaped
<1> QED BY <1>1, <1>2

LEMMA KindsAre ==
  ASSUME NEW r \in Request, Shaped(r)
  PROVE  /\ r.at \in {"begin", "work", "finish"} => r.kind = "step"
         /\ r.at = "remedy" => r.kind = "review"
         /\ r.at = "close" => r.kind = "complete"
         /\ r.at \in {"evidence", "persist"} => r.kind \in {"review", "complete"}
         /\ r.kind = "idle" => r.at = "idle" /\ ~r.waiting /\ r.stored = 0
BY NewFields DEF Request, Shaped

LEMMA StepDecided ==
  ASSUME NEW state \in Row
  PROVE  IF DecideNextStep(state) = "stop" THEN state.steps = MaxSteps
         ELSE state.steps < MaxSteps
BY LimitsAreNatural DEF DecideNextStep, Row

(* It is enough to look at the request that changed. *)
LEMMA ShapesAreKept ==
  ASSUME RequestsAreShaped, NEW h \in Handler, Moves(h), Shaped(requests'[h]),
         row' = row \/ row'.plan = "pinned"
  PROVE  RequestsAreShaped'
<1>1. \A g \in Handler : Shaped(requests'[g])
  BY DEF RequestsAreShaped, Moves
<1>2. row'.plan = "none" => row' = NoRow
  BY DEF RequestsAreShaped
<1> QED BY <1>1, <1>2 DEF RequestsAreShaped, Shaped

LEMMA ShapedNext == InvResearch /\ NextResearch => RequestsAreShaped'
<1> SUFFICES ASSUME InvResearch, NextResearch PROVE RequestsAreShaped'
  OBVIOUS
<1> USE DEF InvResearch
<1>1. TypeOKResearch /\ RequestsAreShaped
  OBVIOUS
<1>2. \A h \in Handler : /\ requests[h] \in Request /\ Shaped(requests[h])
                         /\ requests[h].stored \in Nat /\ requests[h].read \in Row
  BY <1>1 DEF TypeOKResearch, RequestsAreShaped, Request
<1>3. Shaped(IdleHandler) /\ Shaped(NewStep) /\ \A time \in BOOLEAN : Shaped(NewReview(time))
  BY NewFields DEF Shaped, SameWork
<1>4. CASE ToggleExternal \/ ApproveRun \/ LoopEnds
  BY <1>1, <1>4, QuietStepDoes DEF RequestsAreShaped
<1>5. ASSUME NEW h \in Handler, AskStep(h) PROVE RequestsAreShaped'
  BY <1>1, <1>3, <1>5, AskStepDoes, ShapesAreKept
<1>6. ASSUME NEW h \in Handler, SendRequest(h) PROVE RequestsAreShaped'
  <2>1. ASSUME worker.at = "report" PROVE Shaped(NewReport(worker.outcome))
    <3>1. worker.outcome \in {"failed", "succeeded"}
      BY <1>1, <2>1 DEF RunFollowsWorker, TypeOKResearch, Outcome
    <3>2. worker.outcome \in Outcome
      BY <3>1 DEF Outcome
    <3> QED BY <3>1, <3>2, NewFields DEF Shaped, SameWork
  <2> QED BY <1>1, <1>3, <1>6, <2>1, SendRequestDoes, ShapesAreKept
<1>7. ASSUME NEW h \in Handler, TimeOut(h) PROVE RequestsAreShaped'
  <2>1. Shaped(requests'[h])
    BY <1>1, <1>2, <1>7, TimeOutDoes, NewFields DEF Shaped, SameWork, SameVerdict
  <2> QED BY <1>1, <1>7, <2>1, TimeOutDoes, ShapesAreKept
<1>8. ASSUME NEW h \in Handler, BeginStep(h) PROVE RequestsAreShaped'
  <2>1. row'.plan = "pinned" /\ row' \in Row
    BY <1>1, <1>8, BeginStepDoes, PinnedIs
  <2>2. IF DecideNextStep(row') = "stop" THEN row'.steps = MaxSteps ELSE row'.steps < MaxSteps
    <3>1. PICK s : s = row'
      OBVIOUS
    <3>2. s \in Row
      BY <2>1, <3>1
    <3> QED BY <3>1, <3>2, StepDecided
  <2>3. Shaped(requests'[h])
    BY <1>1, <1>2, <1>8, <2>1, <2>2, BeginStepDoes DEF Shaped, SamePlace, SameVerdict
  <2> QED BY <1>1, <1>8, <2>1, <2>3, BeginStepDoes, ShapesAreKept
<1>9. ASSUME NEW h \in Handler, FinishState(h) PROVE RequestsAreShaped'
  BY <1>1, <1>2, <1>3, <1>9, FinishStateDoes, ShapesAreKept DEF Shaped
<1>10. ASSUME NEW h \in Handler, PersistStep(h) PROVE RequestsAreShaped'
  BY <1>1, <1>2, <1>3, <1>10, PersistStepDoes, ShapesAreKept DEF Shaped
<1>11. ASSUME NEW h \in Handler, StepFails(h) PROVE RequestsAreShaped'
  BY <1>1, <1>3, <1>11, StepFailsDoes, ShapesAreKept
<1>12. ASSUME NEW h \in Handler, CallTool(h) PROVE RequestsAreShaped'
  <2>1. Shaped(requests'[h])
    BY <1>1, <1>2, <1>12, CallToolDoes DEF Shaped, SamePlace, SameVerdict
  <2> QED BY <1>1, <1>12, <2>1, CallToolDoes, ShapesAreKept
<1>13. ASSUME NEW h \in Handler, StoreArtefact(h) PROVE RequestsAreShaped'
  <2>1. Shaped(requests'[h])
    BY <1>1, <1>2, <1>13, StoreArtefactDoes DEF Shaped, SamePlace, SameVerdict
  <2> QED BY <1>1, <1>13, <2>1, StoreArtefactDoes, ShapesAreKept
<1>14. ASSUME NEW h \in Handler, ReviewAcceptance(h) PROVE RequestsAreShaped'
  <2>1. Shaped(requests'[h])
    BY <1>1, <1>2, <1>14, ReviewAcceptanceDoes DEF Shaped, SamePlace, SameWork
  <2> QED BY <1>1, <1>14, <2>1, ReviewAcceptanceDoes, ShapesAreKept
<1>15. ASSUME NEW h \in Handler, PersistReview(h) PROVE RequestsAreShaped'
  <2>1. ASSUME requests'[h] = IdleHandler PROVE Shaped(requests'[h])
    BY <1>3, <2>1
  <2>2. ASSUME requests[h].kind = "complete", requests'[h].at = "close" PROVE Shaped(requests'[h])
    <3>1. /\ SamePlace(requests[h], requests'[h]) /\ SameWork(requests[h], requests'[h])
          /\ SameVerdict(requests[h], requests'[h])
      BY <1>1, <1>15, <2>2, PersistReviewDoes
    <3> QED BY <1>2, <2>2, <3>1 DEF Shaped, SamePlace, SameWork, SameVerdict
  <2>3. ASSUME requests[h].kind = "review", requests'[h].at = "remedy" PROVE Shaped(requests'[h])
    <3>1. SamePlace(requests[h], requests'[h]) /\ requests'[h].stored = requests[h].stored
      BY <1>1, <1>15, <2>3, PersistReviewDoes, NewFields
    <3> QED BY <1>2, <2>3, <3>1 DEF Shaped, SamePlace
  <2>4. Shaped(requests'[h])
    BY <1>1, <1>15, <2>1, <2>2, <2>3, PersistReviewDoes
  <2> QED BY <1>1, <1>15, <2>4, PersistReviewDoes, ShapesAreKept
<1>16. ASSUME NEW h \in Handler, Remediate(h) PROVE RequestsAreShaped'
  <2>1. Shaped(requests'[h])
    BY <1>1, <1>2, <1>16, RemediateDoes, NewFields DEF Shaped, SamePlace, SameWork, SameVerdict
  <2> QED BY <1>1, <1>16, <2>1, RemediateDoes, ShapesAreKept
<1>17. ASSUME NEW h \in Handler, NoteRemediation(h) PROVE RequestsAreShaped'
  <2>1. requests[h].kind = "review"
    BY <1>1, <1>2, <1>17, NoteRemediationDoes, NewFields, KindsAre
  <2>2. Shaped(requests'[h])
    BY <1>1, <1>2, <1>17, <2>1, NoteRemediationDoes DEF Shaped, SamePlace
  <2> QED BY <1>1, <1>17, <2>2, NoteRemediationDoes, ShapesAreKept
<1>18. ASSUME NEW h \in Handler, ReviewFails(h) PROVE RequestsAreShaped'
  <2>1. Shaped(requests'[h])
    BY <1>1, <1>2, <1>3, <1>18, ReviewFailsDoes DEF Shaped, SamePlace, SameWork
  <2> QED BY <1>1, <1>18, <2>1, ReviewFailsDoes, ShapesAreKept
<1>19. ASSUME NEW h \in Handler, CloseRun(h) PROVE RequestsAreShaped'
  BY <1>1, <1>3, <1>19, CloseRunDoes, ShapesAreKept
<1> QED BY <1>4, <1>5, <1>6, <1>7, <1>8, <1>9, <1>10, <1>11, <1>12, <1>13, <1>14, <1>15, <1>16,
           <1>17, <1>18, <1>19, StepCases

-----------------------------------------------------------------------------
(* One answer is awaited, by the worker that asked.                        *)

Matches(r, w, l) ==
    /\ r.waiting => \/ r.kind = "step" /\ w.at = "step"
                    \/ r.kind = "review" /\ w.at = "review"
                    \/ r.kind = "complete" /\ w.at = "report"
    /\ l = 0 /\ r.kind # "idle" => r.waiting

LEMMA OneIsKept ==
  ASSUME TypeOKResearch, OneIsAwaited, NEW h \in Handler, Moves(h),
         worker'.at = worker.at \/ requests[h].waiting \/ ~Waiting,
         lost' = 0 => lost = 0,
         Matches(requests'[h], worker', lost')
  PROVE  OneIsAwaited'
<1>1. \A g \in Handler : Matches(requests[g], worker, lost)
  BY DEF OneIsAwaited, Matches
<1>2. ASSUME NEW g \in Handler PROVE Matches(requests'[g], worker', lost')
  BY <1>1 DEF TypeOKResearch, Moves, Matches, Waiting
<1> QED BY <1>2 DEF OneIsAwaited, Matches

LEMMA OneNext == InvResearch /\ NextResearch => OneIsAwaited'
<1> SUFFICES ASSUME InvResearch, NextResearch PROVE OneIsAwaited'
  OBVIOUS
<1>1. TypeOKResearch /\ RequestsAreShaped /\ OneIsAwaited /\ lost \in Nat
  BY DEF InvResearch, TypeOKResearch
<1>2. \A h \in Handler : requests[h] \in Request /\ Matches(requests[h], worker, lost)
  BY <1>1 DEF TypeOKResearch, OneIsAwaited, Matches
<1>3. \A l \in Nat : \A w \in Jobs : Matches(IdleHandler, w, l)
  BY NewFields DEF Matches
<1>4. CASE ToggleExternal \/ ApproveRun \/ LoopEnds
  <2>1. \A h \in Handler : requests[h].waiting => worker.at \in {"step", "review", "report"}
    BY <1>2 DEF Matches
  <2>2. ASSUME NEW h \in Handler, requests[h].waiting PROVE worker'.at = worker.at
    <3>1. worker.at # "none"
      BY <2>1, <2>2
    <3> QED BY <1>1, <1>4, <2>1, <2>2, <3>1, QuietStepDoes DEF InvResearch, RunFollowsWorker
  <2> QED BY <1>1, <1>4, <2>2, QuietStepDoes DEF OneIsAwaited
<1>5. ASSUME NEW h \in Handler, AskStep(h) PROVE OneIsAwaited'
  <2>1. ~Waiting
    BY <1>1, <1>2, <1>5, AskStepDoes DEF Waiting, Matches
  <2>2. Matches(requests'[h], worker', lost')
    BY <1>1, <1>5, AskStepDoes, NewFields DEF Matches
  <2> QED BY <1>1, <1>5, <2>1, <2>2, AskStepDoes, OneIsKept
<1>6. ASSUME NEW h \in Handler, SendRequest(h) PROVE OneIsAwaited'
  <2>1. worker.outcome \in Outcome
    BY <1>1 DEF TypeOKResearch
  <2>2. Matches(requests'[h], worker', lost')
    BY <1>1, <1>6, <2>1, SendRequestDoes, NewFields DEF Matches, SameJob
  <2> QED BY <1>1, <1>6, <2>2, SendRequestDoes, OneIsKept
<1>7. ASSUME NEW h \in Handler, TimeOut(h) PROVE OneIsAwaited'
  BY <1>1, <1>7, TimeOutDoes, OneIsKept DEF Matches
<1>8. ASSUME NEW h \in Handler, Moves(h), requests'[h] = IdleHandler, worker' \in Jobs,
             worker' = worker \/ requests[h].waiting, lost' = lost
      PROVE  OneIsAwaited'
  BY <1>1, <1>3, <1>8, OneIsKept
<1>9. ASSUME NEW h \in Handler, Moves(h), SamePlace(requests[h], requests'[h]),
             worker' = worker, lost' = lost
      PROVE  OneIsAwaited'
  BY <1>1, <1>2, <1>9, OneIsKept DEF Matches, SamePlace
<1>10. ASSUME NEW h \in Handler, FinishState(h) PROVE OneIsAwaited'
  BY <1>1, <1>8, <1>10, FinishStateDoes
<1>11. ASSUME NEW h \in Handler, StepFails(h) PROVE OneIsAwaited'
  BY <1>1, <1>8, <1>11, StepFailsDoes
<1>12. ASSUME NEW h \in Handler, PersistStep(h) PROVE OneIsAwaited'
  BY <1>1, <1>8, <1>12, PersistStepDoes
<1>13. ASSUME NEW h \in Handler, CloseRun(h) PROVE OneIsAwaited'
  BY <1>1, <1>8, <1>13, CloseRunDoes
<1>14. ASSUME NEW h \in Handler, PersistReview(h) PROVE OneIsAwaited'
  BY <1>1, <1>8, <1>9, <1>14, PersistReviewDoes
<1>15. ASSUME NEW h \in Handler, ReviewFails(h) PROVE OneIsAwaited'
  BY <1>1, <1>8, <1>9, <1>15, ReviewFailsDoes
<1>16. ASSUME NEW h \in Handler, BeginStep(h) PROVE OneIsAwaited'
  BY <1>1, <1>9, <1>16, BeginStepDoes
<1>17. ASSUME NEW h \in Handler, CallTool(h) PROVE OneIsAwaited'
  BY <1>1, <1>9, <1>17, CallToolDoes
<1>18. ASSUME NEW h \in Handler, StoreArtefact(h) PROVE OneIsAwaited'
  BY <1>1, <1>9, <1>18, StoreArtefactDoes
<1>19. ASSUME NEW h \in Handler, ReviewAcceptance(h) \/ Remediate(h) \/ NoteRemediation(h)
       PROVE  OneIsAwaited'
  BY <1>1, <1>9, <1>19, ReviewAcceptanceDoes, RemediateDoes, NoteRemediationDoes
<1> QED BY <1>4, <1>5, <1>6, <1>7, <1>10, <1>11, <1>12, <1>13, <1>14, <1>15, <1>16, <1>17, <1>18,
           <1>19, StepCases

-----------------------------------------------------------------------------
(* The run follows its worker.                                             *)

Agrees(r, w, l) ==
    /\ r.status = "proposed" <=> w.at = "none"
    /\ w.at = "none" => w.created = 0
    /\ r.status # "proposed" => r.criteria # {}
    /\ r.status \in Terminal => w.at \in {"report", "finished"}
    /\ r.status \in Terminal /\ l = 0 => w.at = "finished"
    /\ r.status \in {"completed", "completed_with_gaps"} => w.outcome = "succeeded"
    /\ r.status = "failed" => w.outcome = "failed"
    /\ w.at \in {"report", "finished"} <=> w.outcome # "none"
    /\ w.at = "review" \/ w.outcome = "succeeded" => w.created > 0

Reports(r, w) ==
    /\ w.at = "none" => r.kind = "idle"
    /\ r.kind = "complete" => r.outcome = w.outcome /\ w.at \in {"report", "finished"}

LEMMA FollowsInParts ==
  /\ RunFollowsWorker <=> /\ brief # {} /\ Agrees(run, worker, lost)
                          /\ \A h \in Handler : Reports(requests[h], worker)
  /\ RunFollowsWorker' <=> /\ brief' # {} /\ Agrees(run', worker', lost')
                           /\ \A h \in Handler : Reports(requests'[h], worker')
BY DEF RunFollowsWorker, Agrees, Reports

LEMMA FollowsIsKept ==
  ASSUME RunFollowsWorker, NEW h \in Handler, Moves(h), brief' = brief,
         Agrees(run', worker', lost'), Reports(requests'[h], worker'),
         worker.at \in {"report", "finished"} =>
            worker'.at \in {"report", "finished"} /\ worker'.outcome = worker.outcome,
         worker.at # "none" => worker'.at # "none"
  PROVE  RunFollowsWorker'
<1>1. ASSUME NEW g \in Handler PROVE Reports(requests'[g], worker')
  BY FollowsInParts DEF Moves, Reports
<1> QED BY <1>1, FollowsInParts

(* The worker gave up, or not: the run need not have changed. *)
LEMMA GivingUpAgrees ==
  ASSUME NEW r, NEW w \in Jobs, NEW x \in Jobs, NEW l \in Nat, NEW m \in Nat,
         Agrees(r, w, l), GivesUp(w, x), w.at \in {"step", "review", "report"},
         m # 0 \/ (l = 0 /\ w.at # "report")
  PROVE  /\ Agrees(r, x, m)
         /\ w.at \in {"report", "finished"} =>
               x.at \in {"report", "finished"} /\ x.outcome = w.outcome
         /\ x.at # "none"
BY DEF Agrees, GivesUp, Jobs, Outcome

LEMMA FollowsNext == InvResearch /\ NextResearch => RunFollowsWorker'
<1> SUFFICES ASSUME InvResearch, NextResearch PROVE RunFollowsWorker'
  OBVIOUS
<1>1. /\ TypeOKResearch /\ RequestsAreShaped /\ OneIsAwaited /\ RunFollowsWorker
      /\ worker \in Jobs /\ lost \in Nat /\ run \in RunType
      /\ Agrees(run, worker, lost)
  BY FollowsInParts DEF InvResearch, TypeOKResearch, Jobs, RunType
<1>2. \A h \in Handler : /\ requests[h] \in Request /\ Shaped(requests[h])
                         /\ Reports(requests[h], worker) /\ Matches(requests[h], worker, lost)
  BY <1>1, FollowsInParts DEF TypeOKResearch, RequestsAreShaped, OneIsAwaited, Matches
<1>3. \A w \in Jobs : Reports(IdleHandler, w)
  BY NewFields DEF Reports
<1>4. CASE ToggleExternal \/ ApproveRun \/ LoopEnds
  <2>1. brief # {} /\ brief' = brief /\ lost' = lost /\ requests' = requests
    BY <1>1, <1>4, QuietStepDoes DEF RunFollowsWorker
  <2>2. CASE worker' = worker /\ run' = run
    BY <1>1, <1>2, <2>1, <2>2, FollowsInParts
  <2>3. CASE /\ worker.at = "loop" /\ run' = run
             /\ worker'.at = IF worker.created = 0 THEN "report" ELSE "review"
             /\ worker'.outcome = IF worker.created = 0 THEN "failed" ELSE "none"
             /\ worker'.created = worker.created
    <3>1. Agrees(run', worker', lost')
      BY <1>1, <2>1, <2>3 DEF Agrees, Jobs
    <3>2. \A h \in Handler : Reports(requests'[h], worker')
      BY <1>2, <2>1, <2>3 DEF Reports
    <3> QED BY <2>1, <3>1, <3>2, FollowsInParts
  <2>4. CASE /\ run.status = "proposed" /\ run' = [run EXCEPT !.status = "running",
                                                              !.criteria = brief]
             /\ worker'.at = "loop" /\ worker'.outcome = worker.outcome
             /\ worker'.created = worker.created
    <3>1. run'.status = "running" /\ run'.criteria = brief
      BY <1>1, <2>4 DEF RunType
    <3>2. Agrees(run', worker', lost')
      BY <1>1, <2>1, <2>4, <3>1 DEF Agrees, Terminal
    <3>3. \A h \in Handler : Reports(requests'[h], worker')
      BY <1>1, <1>2, <2>1, <2>4 DEF Reports, Agrees
    <3> QED BY <2>1, <3>2, <3>3, FollowsInParts
  <2> QED BY <1>1, <1>4, <2>2, <2>3, <2>4, QuietStepDoes
<1>5. ASSUME NEW h \in Handler, AskStep(h) PROVE RunFollowsWorker'
  <2>1. Agrees(run', worker', lost')
    BY <1>1, <1>5, AskStepDoes DEF Agrees
  <2>2. Reports(requests'[h], worker')
    BY <1>1, <1>5, AskStepDoes, NewFields DEF Reports
  <2> QED BY <1>1, <1>5, <2>1, <2>2, AskStepDoes, FollowsIsKept
<1>6. ASSUME NEW h \in Handler, SendRequest(h) PROVE RunFollowsWorker'
  <2>1. Agrees(run', worker', lost')
    BY <1>1, <1>6, SendRequestDoes DEF Agrees, SameJob
  <2>2. worker.outcome \in Outcome
    BY <1>1 DEF TypeOKResearch
  <2>3. Reports(requests'[h], worker')
    BY <1>1, <1>6, <2>2, SendRequestDoes, NewFields DEF Reports, SameJob
  <2> QED BY <1>1, <1>6, <2>1, <2>3, SendRequestDoes, FollowsIsKept DEF SameJob
<1>7. ASSUME NEW h \in Handler, requests[h].waiting
      PROVE  worker.at \in {"step", "review", "report"}
             /\ (requests[h].kind \in {"step", "review"} => worker.at # "report")
  BY <1>2, <1>7 DEF Matches
<1>8. ASSUME NEW h \in Handler, TimeOut(h) PROVE RunFollowsWorker'
  <2>1. /\ Moves(h) /\ requests[h].waiting /\ worker' \in Jobs /\ GivesUp(worker, worker')
        /\ lost' = lost + 1 /\ brief' = brief /\ run' = run
        /\ requests'[h].kind = requests[h].kind /\ requests'[h].outcome = requests[h].outcome
    BY <1>1, <1>8, TimeOutDoes DEF SameVerdict
  <2>2. /\ Agrees(run, worker', lost + 1) /\ worker'.at # "none"
        /\ worker.at \in {"report", "finished"} =>
              worker'.at \in {"report", "finished"} /\ worker'.outcome = worker.outcome
    BY <1>1, <1>7, <2>1, GivingUpAgrees
  <2>3. Reports(requests'[h], worker')
    BY <1>2, <2>1, <2>2 DEF Reports
  <2> QED BY <1>1, <2>1, <2>2, <2>3, FollowsIsKept
<1>9. ASSUME NEW h \in Handler, Moves(h), requests'[h] = IdleHandler, worker' \in Jobs,
             requests[h].kind \in {"step", "review"},
             IF requests[h].waiting THEN GivesUp(worker, worker') ELSE worker' = worker,
             UNCHANGED <<brief, run, lost>>
      PROVE  RunFollowsWorker'
  <2>1. CASE requests[h].waiting
    <3>1. worker.at \in {"step", "review"}
      BY <1>7, <1>9, <2>1
    <3>2. lost # 0 \/ (lost = 0 /\ worker.at # "report")
      BY <3>1
    <3>3. /\ Agrees(run, worker', lost) /\ worker'.at # "none"
          /\ worker.at \in {"report", "finished"} =>
                worker'.at \in {"report", "finished"} /\ worker'.outcome = worker.outcome
      BY <1>1, <1>9, <2>1, <3>1, <3>2, GivingUpAgrees
    <3> QED BY <1>1, <1>3, <1>9, <3>3, FollowsIsKept
  <2>2. CASE ~requests[h].waiting
    BY <1>1, <1>3, <1>9, <2>2, FollowsIsKept
  <2> QED BY <2>1, <2>2
<1>10. ASSUME NEW h \in Handler, StepFails(h) PROVE RunFollowsWorker'
  BY <1>1, <1>9, <1>10, StepFailsDoes
<1>11. ASSUME NEW h \in Handler, Moves(h), SamePlace(requests[h], requests'[h]),
              requests'[h].outcome = requests[h].outcome, worker' = worker,
              brief' = brief, run' = run, lost' = lost
       PROVE  RunFollowsWorker'
  <2>1. Reports(requests'[h], worker')
    BY <1>2, <1>11 DEF Reports, SamePlace
  <2> QED BY <1>1, <1>11, <2>1, FollowsIsKept
<1>12. ASSUME NEW h \in Handler, ReviewFails(h) PROVE RunFollowsWorker'
  <2>1. CASE requests[h].kind = "review" /\ requests'[h] = IdleHandler
    BY <1>1, <1>9, <1>12, <2>1, ReviewFailsDoes, NewFields DEF SamePlace
  <2>2. CASE requests[h].kind = "complete"
    BY <1>1, <1>11, <1>12, <2>2, ReviewFailsDoes
  <2> QED BY <1>1, <1>12, <2>1, <2>2, ReviewFailsDoes
<1>13. ASSUME NEW h \in Handler, FinishState(h) PROVE RunFollowsWorker'
  <2>1. CASE requests[h].waiting
    <3>1. worker.at = "step"
      BY <1>1, <1>2, <1>13, <2>1, FinishStateDoes DEF Matches
    <3>2. Agrees(run', worker', lost')
      BY <1>1, <1>13, <2>1, <3>1, FinishStateDoes DEF Agrees, Jobs
    <3>3. worker'.at # "none"
      BY <1>1, <1>13, <2>1, FinishStateDoes
    <3> QED BY <1>1, <1>3, <1>13, <3>1, <3>2, <3>3, FinishStateDoes, FollowsIsKept
  <2>2. CASE ~requests[h].waiting
    BY <1>1, <1>3, <1>13, <2>2, FinishStateDoes, FollowsIsKept
  <2> QED BY <2>1, <2>2
<1>14. ASSUME NEW h \in Handler, PersistStep(h) PROVE RunFollowsWorker'
  <2>1. CASE requests[h].waiting
    <3>1. worker.at = "step"
      BY <1>1, <1>2, <1>14, <2>1, PersistStepDoes DEF Matches
    <3>2. /\ Moves(h) /\ requests'[h] = IdleHandler /\ UNCHANGED <<brief, run, lost>>
          /\ worker' \in Jobs
          /\ \/ worker'.at = "loop" /\ worker'.outcome = "none"
             \/ worker'.at = "report" /\ worker'.outcome = "failed" /\ worker'.created = 0
             \/ worker'.at = "review" /\ worker'.outcome = "none" /\ worker'.created > 0
      BY <1>1, <1>14, <2>1, PersistStepDoes
    <3>3. Agrees(run', worker', lost')
      BY <1>1, <3>1, <3>2 DEF Agrees
    <3> QED BY <1>1, <1>3, <3>1, <3>2, <3>3, FollowsIsKept
  <2>2. CASE ~requests[h].waiting
    BY <1>1, <1>3, <1>14, <2>2, PersistStepDoes, FollowsIsKept
  <2> QED BY <2>1, <2>2
<1>15. ASSUME NEW h \in Handler, BeginStep(h) \/ CallTool(h) \/ StoreArtefact(h)
       PROVE  RunFollowsWorker'
  BY <1>1, <1>11, <1>15, BeginStepDoes, CallToolDoes, StoreArtefactDoes DEF SameVerdict
<1>16. ASSUME NEW h \in Handler, ReviewAcceptance(h) \/ Remediate(h) PROVE RunFollowsWorker'
  BY <1>1, <1>11, <1>16, ReviewAcceptanceDoes, RemediateDoes DEF SameVerdict
<1>17. ASSUME NEW h \in Handler, NEW r \in RunType, run' = r, r.status = run.status,
              r.criteria = run.criteria, Moves(h), SamePlace(requests[h], requests'[h]),
              requests'[h].outcome = requests[h].outcome, worker' = worker,
              brief' = brief, lost' = lost
       PROVE  RunFollowsWorker'
  <2>1. Reports(requests'[h], worker')
    BY <1>2, <1>17 DEF Reports, SamePlace
  <2>2. Agrees(run', worker', lost')
    BY <1>1, <1>17 DEF Agrees
  <2> QED BY <1>1, <1>17, <2>1, <2>2, FollowsIsKept
<1>18. ASSUME NEW h \in Handler, NoteRemediation(h) PROVE RunFollowsWorker'
  <2> DEFINE r == [run EXCEPT !.remediated = TRUE]
  <2>1. r \in RunType /\ r.status = run.status /\ r.criteria = run.criteria
    BY <1>1 DEF RunType
  <2> HIDE DEF r
  <2>2. run' = r
    BY <1>1, <1>18, NoteRemediationDoes DEF r
  <2> QED BY <1>1, <1>17, <1>18, <2>1, <2>2, NoteRemediationDoes
<1>19. ASSUME NEW h \in Handler, PersistReview(h) PROVE RunFollowsWorker'
  <2> DEFINE r == [run EXCEPT !.acceptance = requests[h].state]
  <2>1. r \in RunType /\ r.status = run.status /\ r.criteria = run.criteria
    BY <1>1, <1>2 DEF RunType, Request
  <2> HIDE DEF r
  <2>2. run' = r
    BY <1>1, <1>19, PersistReviewDoes DEF r
  <2>3. CASE SamePlace(requests[h], requests'[h]) /\ SameVerdict(requests[h], requests'[h])
             /\ worker' = worker
    BY <1>1, <1>17, <1>19, <2>1, <2>2, <2>3, PersistReviewDoes DEF SameVerdict
  <2>4. CASE /\ requests[h].kind = "review" /\ requests'[h] = IdleHandler
             /\ worker' \in Jobs
             /\ IF requests[h].waiting
                THEN /\ worker'.at = "report" /\ worker'.outcome = "succeeded"
                     /\ worker'.created = worker.created
                     /\ worker'.iterations = worker.iterations
                ELSE worker' = worker
    <3>1. Moves(h) /\ brief' = brief /\ lost' = lost
      BY <1>1, <1>19, PersistReviewDoes
    <3>2. requests[h].waiting => worker.at = "review"
      BY <1>2, <2>4 DEF Matches
    <3>3. Agrees(r, worker', lost)
      BY <1>1, <2>1, <2>4, <3>2 DEF Agrees
    <3>4. Reports(requests'[h], worker')
      BY <1>3, <2>4
    <3> QED BY <1>1, <2>2, <2>4, <3>1, <3>2, <3>3, <3>4, FollowsIsKept
  <2> QED BY <1>1, <1>19, <2>3, <2>4, PersistReviewDoes
<1>20. ASSUME NEW h \in Handler, CloseRun(h) PROVE RunFollowsWorker'
  <2> DEFINE r == IF run.status \in Terminal THEN run
                  ELSE [run EXCEPT !.status = ClosingStatus(requests[h])]
  <2>1. requests[h].outcome \in {"failed", "succeeded"} /\ requests[h].outcome = worker.outcome
        /\ worker.at \in {"report", "finished"}
    BY <1>1, <1>2, <1>20, CloseRunDoes DEF Shaped, Reports, Request, Outcome
  <2>2. IF worker.outcome = "succeeded"
        THEN ClosingStatus(requests[h]) \in {"completed", "completed_with_gaps"}
        ELSE ClosingStatus(requests[h]) = "failed"
    BY <2>1 DEF ClosingStatus
  <2>3. /\ r.criteria = run.criteria
        /\ IF run.status \in Terminal THEN r.status = run.status
           ELSE r.status = ClosingStatus(requests[h])
    BY <1>1 DEF RunType
  <2>4. run' = r /\ Moves(h) /\ requests'[h] = IdleHandler /\ brief' = brief /\ lost' = lost
    BY <1>1, <1>20, CloseRunDoes
  <2> HIDE DEF r
  <2>5. run.status # "proposed"
    BY <1>1, <2>1 DEF Agrees
  <2>6. CASE requests[h].waiting
    <3>1. /\ worker'.at = "finished" /\ worker'.created = worker.created
          /\ worker'.outcome = worker.outcome /\ worker' \in Jobs
      BY <1>1, <1>20, <2>6, CloseRunDoes
    <3>2. Agrees(r, worker', lost)
      BY <1>1, <2>1, <2>2, <2>3, <2>5, <3>1 DEF Agrees, Terminal
    <3> QED BY <1>1, <1>3, <2>4, <3>1, <3>2, FollowsIsKept
  <2>7. CASE ~requests[h].waiting
    <3>1. worker' = worker
      BY <1>1, <1>20, <2>7, CloseRunDoes
    <3>2. lost # 0
      BY <1>1, <1>2, <1>20, <2>7, CloseRunDoes DEF Matches
    <3>3. Agrees(r, worker, lost)
      BY <1>1, <2>1, <2>2, <2>3, <2>5, <3>2 DEF Agrees, Terminal
    <3> QED BY <1>1, <1>3, <2>4, <3>1, <3>3, FollowsIsKept
  <2> QED BY <2>6, <2>7
<1> QED BY <1>4, <1>5, <1>6, <1>8, <1>10, <1>12, <1>13, <1>14, <1>15, <1>16, <1>18, <1>19, <1>20,
           StepCases

-----------------------------------------------------------------------------
(* What the run claims is grounded.                                        *)

PagesAreAllowed ==
    \A s \in retrieved : s.tool = "public_doc_fetch" =>
        s.ref \in Allowlisted \cup (IF Widened THEN SearchResultHosts ELSE {})

LEMMA GroundedInParts ==
  /\ FindingsAreGrounded <=> /\ \A f \in row.findings : Established(f, Refs)
                             /\ PagesAreAllowed
  /\ FindingsAreGrounded' <=> /\ \A f \in row'.findings : Established(f, Refs')
                              /\ PagesAreAllowed'
BY DEF FindingsAreGrounded, Established, PagesAreAllowed

LEMMA StaysEstablished ==
  ASSUME NEW refs, NEW more, refs \subseteq more
  PROVE  /\ \A f : Established(f, refs) => Established(f, more)
         /\ \A r, hosts, others : Reads(r, refs, hosts) /\ hosts \subseteq others
                                  => Reads(r, more, others)
BY DEF Established, Reads

LEMMA MoreIsRetrieved ==
  ASSUME retrieved \subseteq retrieved'
  PROVE  Refs \subseteq Refs' /\ SearchResultHosts \subseteq SearchResultHosts'
BY DEF Refs, SearchResultHosts

LEMMA ClassifiedIsEstablished ==
  ASSUME NEW refs, NEW known \in SUBSET Ref, known \subseteq refs, NEW f \in Finding
  PROVE  Established(Classify(f, known), refs)
<1> DEFINE g == Classify(f, known)
<1>1. /\ g.sources = f.sources \cap known
      /\ g.class = IF f.class \in Factual /\ f.sources \cap known = {} THEN "inference"
                   ELSE IF f.class = "external_fact" /\ f.sources \cap known \cap External = {}
                   THEN "project_fact"
                   ELSE IF f.class = "pac_fact" /\ f.sources \cap known \cap Company = {}
                   THEN "project_fact"
                   ELSE f.class
  BY ClassifiedIsTyped
<1> HIDE DEF g
<1> QED BY <1>1 DEF Established, Factual, g

LEMMA KeptIsEstablished ==
  ASSUME NEW refs, NEW known \in SUBSET Ref, known \subseteq refs,
         NEW old, \A f \in old : Established(f, refs), NEW claims \in SUBSET Finding
  PROVE  \A f \in DedupeFindings(old, {Classify(c, known) : c \in claims}) : Established(f, refs)
<1> DEFINE new == {Classify(c, known) : c \in claims}
<1>1. \A f \in new : Established(f, refs)
  BY ClassifiedIsEstablished
<1> HIDE DEF new
<1>2. \A f \in DedupeFindings(old, new) : f \in old \cup new
  BY DEF DedupeFindings
<1> QED BY <1>1, <1>2 DEF new

Grounding == ReadingsAreGrounded /\ FindingsAreGrounded

LEMMA GroundingIsKept ==
  ASSUME Grounding, NEW h \in Handler, Moves(h), retrieved' = retrieved,
         row'.sources \subseteq Refs, \A f \in row'.findings : Established(f, Refs),
         Reads(requests'[h], Refs, SearchResultHosts)
  PROVE  Grounding'
<1>1. Refs' = Refs /\ SearchResultHosts' = SearchResultHosts /\ PagesAreAllowed' = PagesAreAllowed
  BY DEF Refs, SearchResultHosts, PagesAreAllowed
<1>2. \A g \in Handler : Reads(requests'[g], Refs, SearchResultHosts)
  BY DEF Grounding, ReadingsAreGrounded, Moves
<1>3. ReadingsAreGrounded'
  BY <1>1, <1>2 DEF Grounding, ReadingsAreGrounded
<1>4. FindingsAreGrounded'
  BY <1>1, GroundedInParts DEF Grounding
<1> QED BY <1>3, <1>4 DEF Grounding

LEMMA GroundingIsKeptByRow ==
  ASSUME Grounding, NEW h \in Handler, Moves(h), retrieved' = retrieved, row' = row,
         Reads(requests'[h], Refs, SearchResultHosts)
  PROVE  Grounding'
BY GroundingIsKept, GroundedInParts DEF Grounding, ReadingsAreGrounded

LEMMA NothingReadIsGrounded ==
  ASSUME NEW r, r.read = NoRow, r.new = {}, r.hosts = {}
  PROVE  \A refs, hosts : Reads(r, refs, hosts)
BY DEF Reads, NoRow

LEMMA GroundingNext == InvResearch /\ NextResearch => Grounding'
<1> SUFFICES ASSUME InvResearch, NextResearch PROVE Grounding'
  OBVIOUS
<1>1. TypeOKResearch /\ RequestsAreShaped /\ Grounding
  BY DEF InvResearch, Grounding
<1>2. /\ \A h \in Handler : Reads(requests[h], Refs, SearchResultHosts)
      /\ row.sources \subseteq Refs /\ \A f \in row.findings : Established(f, Refs)
  BY <1>1, GroundedInParts DEF Grounding, ReadingsAreGrounded
<1>3. Reads(IdleHandler, Refs, SearchResultHosts)
  BY NothingReadIsGrounded, NewFields
<1>4. CASE ToggleExternal \/ ApproveRun \/ LoopEnds
  <2>1. requests' = requests /\ row' = row /\ retrieved' = retrieved
    BY <1>1, <1>4, QuietStepDoes
  <2> QED BY <1>1, <2>1 DEF Grounding, ReadingsAreGrounded, FindingsAreGrounded, Refs,
                            SearchResultHosts
<1>5. ASSUME NEW h \in Handler, AskStep(h) PROVE Grounding'
  <2>1. Reads(NewStep, Refs, SearchResultHosts)
    BY NothingReadIsGrounded, NewFields DEF SameWork
  <2> QED BY <1>1, <1>5, <2>1, AskStepDoes, GroundingIsKeptByRow
<1>6. ASSUME NEW h \in Handler, SendRequest(h) PROVE Grounding'
  <2>1. Reads(NewStep, Refs, SearchResultHosts)
    BY NothingReadIsGrounded, NewFields DEF SameWork
  <2>2. ASSUME NEW time \in BOOLEAN PROVE Reads(NewReview(time), Refs, SearchResultHosts)
    BY NothingReadIsGrounded, NewFields DEF SameWork
  <2>3. Reads(NewReport(worker.outcome), Refs, SearchResultHosts)
    <3>1. worker.outcome \in Outcome
      BY <1>1 DEF TypeOKResearch
    <3> QED BY <3>1, NothingReadIsGrounded, NewFields DEF SameWork
  <2> QED BY <1>1, <1>6, <2>1, <2>2, <2>3, SendRequestDoes, GroundingIsKeptByRow
<1>7. ASSUME NEW h \in Handler, Moves(h), retrieved' = retrieved, row' = row,
             SameWork(requests[h], requests'[h])
      PROVE  Grounding'
  <2>1. Reads(requests'[h], Refs, SearchResultHosts)
    BY <1>2, <1>7 DEF Reads, SameWork
  <2> QED BY <1>1, <1>7, <2>1, GroundingIsKeptByRow
<1>8. ASSUME NEW h \in Handler, Moves(h), retrieved' = retrieved, row' = row,
             requests'[h] = IdleHandler
      PROVE  Grounding'
  BY <1>1, <1>3, <1>8, GroundingIsKeptByRow
<1>9. ASSUME NEW h \in Handler, TimeOut(h) PROVE Grounding'
  BY <1>1, <1>7, <1>9, TimeOutDoes
<1>10. ASSUME NEW h \in Handler, StepFails(h) PROVE Grounding'
  BY <1>1, <1>8, <1>10, StepFailsDoes
<1>11. ASSUME NEW h \in Handler, CloseRun(h) PROVE Grounding'
  BY <1>1, <1>8, <1>11, CloseRunDoes
<1>12. ASSUME NEW h \in Handler, ReviewFails(h) PROVE Grounding'
  BY <1>1, <1>7, <1>8, <1>12, ReviewFailsDoes
<1>13. ASSUME NEW h \in Handler, ReviewAcceptance(h) PROVE Grounding'
  BY <1>1, <1>7, <1>13, ReviewAcceptanceDoes
<1>14. ASSUME NEW h \in Handler, Remediate(h) PROVE Grounding'
  BY <1>1, <1>7, <1>14, RemediateDoes
<1>15. ASSUME NEW h \in Handler, StoreArtefact(h) PROVE Grounding'
  <2>1. /\ Moves(h) /\ row' = row /\ retrieved' = retrieved
        /\ requests'[h].read = requests[h].read /\ requests'[h].action = requests[h].action
        /\ requests'[h].new = requests[h].new /\ requests'[h].hosts = requests[h].hosts
    BY <1>1, <1>15, StoreArtefactDoes
  <2>2. Reads(requests'[h], Refs, SearchResultHosts)
    BY <1>2, <2>1 DEF Reads
  <2> QED BY <1>1, <2>1, <2>2, GroundingIsKeptByRow
<1>16. ASSUME NEW h \in Handler, NoteRemediation(h) PROVE Grounding'
  <2>1. /\ requests'[h].read = NoRow /\ requests'[h].new = requests[h].new
        /\ requests'[h].hosts = requests[h].hosts
    BY <1>1, <1>16, NoteRemediationDoes
  <2>2. Reads(requests'[h], Refs, SearchResultHosts)
    BY <1>2, <2>1 DEF Reads, NoRow
  <2> QED BY <1>1, <1>16, <2>2, NoteRemediationDoes, GroundingIsKeptByRow
<1>17. ASSUME NEW h \in Handler, PersistReview(h) PROVE Grounding'
  <2>1. CASE requests'[h].read = row /\ requests'[h].new = requests[h].new
             /\ requests'[h].hosts = requests[h].hosts
    <3>1. Reads(requests'[h], Refs, SearchResultHosts)
      BY <1>2, <2>1 DEF Reads
    <3> QED BY <1>1, <1>17, <3>1, PersistReviewDoes, GroundingIsKeptByRow
  <2>2. CASE SameWork(requests[h], requests'[h]) \/ requests'[h] = IdleHandler
    BY <1>1, <1>7, <1>8, <1>17, <2>2, PersistReviewDoes
  <2> QED BY <1>1, <1>17, <2>1, <2>2, PersistReviewDoes
<1>18. ASSUME NEW h \in Handler, BeginStep(h) PROVE Grounding'
  <2>1. row'.sources = row.sources /\ row'.findings = row.findings
    BY <1>1, <1>18, BeginStepDoes, PinnedIs
  <2>2. /\ requests'[h].read = row' /\ requests'[h].new = requests[h].new
        /\ requests'[h].hosts = requests[h].hosts \/ requests'[h].hosts = SearchResultHosts
    BY <1>1, <1>18, BeginStepDoes
  <2>3. Reads(requests'[h], Refs, SearchResultHosts)
    BY <1>2, <2>1, <2>2 DEF Reads
  <2> QED BY <1>1, <1>2, <1>18, <2>1, <2>3, BeginStepDoes, GroundingIsKept
<1>19. ASSUME NEW h \in Handler, FinishState(h) PROVE Grounding'
  <2>1. row'.sources \subseteq Refs /\ \A f \in row'.findings : Established(f, Refs)
    BY <1>1, <1>2, <1>19, FinishStateDoes DEF Reads
  <2> QED BY <1>1, <1>3, <1>19, <2>1, FinishStateDoes, GroundingIsKept
<1>20. ASSUME NEW h \in Handler, PersistStep(h) PROVE Grounding'
  <2> DEFINE known == requests[h].read.sources \cup requests[h].new
  <2>1. known \in SUBSET Ref /\ known \subseteq Refs /\ requests[h].findings \in SUBSET Finding
    BY <1>1, <1>2 DEF Reads, TypeOKResearch, Request, Row
  <2>2. row'.findings = DedupeFindings(requests[h].read.findings,
                                       {Classify(f, known) : f \in requests[h].findings})
    <3>1. requests[h].at = "work" /\ row'.findings = StepState(h).findings
      BY <1>1, <1>20, PersistStepDoes
    <3> QED BY <1>1, <3>1, StepStateIsTyped
  <2>3. \A f \in requests[h].read.findings : Established(f, Refs)
    BY <1>2 DEF Reads
  <2>4. \A f \in row'.findings : Established(f, Refs)
    <3> HIDE DEF known
    <3> QED BY <2>1, <2>2, <2>3, KeptIsEstablished
  <2>5. row'.sources \subseteq Refs
    BY <1>1, <1>20, <2>1, PersistStepDoes
  <2> QED BY <1>1, <1>3, <1>20, <2>4, <2>5, PersistStepDoes, GroundingIsKept
<1>21. ASSUME NEW h \in Handler, CallTool(h) PROVE Grounding'
  <2>1. PICK c \in Lookup, refs \in SUBSET Ref :
               /\ requests'[h].new = requests[h].new \cup refs
               /\ PersistSources(c, refs)
               /\ \/ refs = {}
                  \/ refs = Finds[c] /\ (IsFetch(c) => MayFetch(c, requests[h].hosts))
    BY <1>1, <1>21, CallToolDoes
  <2>2. /\ Moves(h) /\ row' = row /\ requests'[h].read = requests[h].read
        /\ requests'[h].hosts = requests[h].hosts
    BY <1>1, <1>21, CallToolDoes
  <2>3. /\ Refs' = Refs \cup refs /\ retrieved \subseteq retrieved'
        /\ \A s \in retrieved' \ retrieved : s.tool = c.tool /\ s.ref \in refs
    BY <1>1, <2>1, SourcesAreRecordedOnce
  <2>4. Refs \subseteq Refs' /\ SearchResultHosts \subseteq SearchResultHosts'
    BY <2>3, MoreIsRetrieved
  <2>5. IsFiniteSet(Refs')
    <3>1. IsFiniteSet(Refs) /\ IsFiniteSet(refs)
      BY <1>1, <2>1, SourcesAreTyped, FS_EmptySet DEF Grounding, ReadingsAreGrounded
    <3> QED BY <2>3, <3>1, FS_Union
  <2>6. ASSUME NEW g \in Handler PROVE Reads(requests'[g], Refs', SearchResultHosts')
    <3>1. Reads(requests[g], Refs', SearchResultHosts')
      BY <1>2, <2>4, StaysEstablished
    <3>2. CASE g = h
      BY <2>1, <2>2, <2>3, <3>1, <3>2 DEF Reads
    <3>3. CASE g # h
      BY <2>2, <3>1, <3>3 DEF Moves
    <3> QED BY <3>2, <3>3
  <2>7. ReadingsAreGrounded'
    BY <1>2, <2>2, <2>4, <2>5, <2>6 DEF ReadingsAreGrounded
  <2>8. \A f \in row'.findings : Established(f, Refs')
    BY <1>2, <2>2, <2>4, StaysEstablished
  <2>9. PagesAreAllowed'
    <3> SUFFICES ASSUME NEW s \in retrieved', s.tool = "public_doc_fetch"
                 PROVE  s.ref \in Allowlisted
                            \cup (IF Widened THEN SearchResultHosts' ELSE {})
      BY DEF PagesAreAllowed
    <3>1. CASE s \in retrieved
      BY <1>1, <2>4, <3>1, GroundedInParts DEF Grounding, PagesAreAllowed
    <3>2. CASE s \notin retrieved
      <4>1. IsFetch(c) /\ s.ref \in refs /\ refs # {}
        BY <2>3, <3>2 DEF IsFetch
      <4>2. s.ref \in Allowlisted \cup (IF Widened THEN requests[h].hosts ELSE {})
        BY <2>1, <4>1 DEF MayFetch
      <4>3. requests[h].hosts \subseteq SearchResultHosts'
        BY <1>2, <2>4 DEF Reads
      <4> QED BY <4>2, <4>3
    <3> QED BY <3>1, <3>2
  <2> QED BY <2>7, <2>8, <2>9, GroundedInParts DEF Grounding
<1> QED BY <1>4, <1>5, <1>6, <1>9, <1>10, <1>11, <1>12, <1>13, <1>14, <1>15, <1>16, <1>17, <1>18,
           <1>19, <1>20, <1>21, StepCases

-----------------------------------------------------------------------------
(* What was delivered is counted.                                          *)

(* The parts of DeliveryIsCounted, of a state given piece by piece. *)
Delivered(docs, w, l, f, stored) ==
    /\ f = 0 /\ w.created > 0 => docs # <<>>
    /\ \A h \in Handler : f = 0 /\ stored[h] > 0 => docs # <<>>
    /\ l = 0 /\ f = 0 /\ w.created = 0 /\ (\A h \in Handler : stored[h] = 0) => docs = <<>>
    /\ l = 0 /\ f = 0 /\ w.outcome = "failed" =>
          w.created = 0 /\ \A h \in Handler : stored[h] = 0

StoredBy == [h \in Handler |-> requests[h].stored]

LEMMA DeliveredInParts ==
  ASSUME lost \in Nat, failures \in Nat
  PROVE  DeliveryIsCounted <=> Delivered(artefacts, worker, lost, failures, StoredBy)
<1>1. lost + failures = 0 <=> lost = 0 /\ failures = 0
  OBVIOUS
<1> QED BY <1>1 DEF DeliveryIsCounted, Delivered, StoredBy

LEMMA NoneOfEither == \A l, f \in Nat : l + f = 0 <=> l = 0 /\ f = 0
OBVIOUS

LEMMA DeliveredInPartsNext ==
  ASSUME lost' \in Nat, failures' \in Nat
  PROVE  DeliveryIsCounted' <=> Delivered(artefacts', worker', lost', failures', StoredBy')
<1>1. lost' + failures' = 0 <=> lost' = 0 /\ failures' = 0
  BY NoneOfEither
<1> QED BY <1>1 DEF DeliveryIsCounted, Delivered, StoredBy

(* Nothing was stored, and nobody's count changed. *)
LEMMA CountIsKept ==
  ASSUME NEW docs, NEW w \in Jobs, NEW x \in Jobs, NEW l \in Nat, NEW f \in Nat,
         NEW m \in Nat, NEW g \in Nat, NEW s, Delivered(docs, w, l, f, s),
         l <= m, f <= g, x.created = w.created, x.outcome = w.outcome \/ x.outcome # "failed"
  PROVE  Delivered(docs, x, m, g, s)
BY DEF Delivered, Jobs

LEMMA StoredNext ==
  ASSUME TypeOKResearch, NEW h \in Handler, Moves(h)
  PROVE  /\ StoredBy \in [Handler -> Nat] /\ StoredBy' \in [Handler -> Nat]
         /\ StoredBy[h] = requests[h].stored /\ StoredBy'[h] = requests'[h].stored
         /\ \A g \in Handler \ {h} : StoredBy'[g] = StoredBy[g]
         /\ requests'[h].stored = requests[h].stored => StoredBy' = StoredBy
<1>1. \A g \in Handler : requests[g].stored \in Nat /\ requests'[g].stored \in Nat
  BY DEF TypeOKResearch, Moves, Request
<1> QED BY <1>1 DEF StoredBy, Moves

(* Alone: nothing lost, the request whose answer is awaited is the only one. *)
LEMMA Alone ==
  ASSUME TypeOKResearch, RequestsAreShaped, OneIsAwaited, lost = 0, NEW h \in Handler,
         requests[h].kind # "idle"
  PROVE  /\ requests[h].waiting
         /\ \A g \in Handler \ {h} : /\ requests[g].kind = "idle" /\ requests[g].stored = 0
                                     /\ ~requests[g].waiting
BY NewFields DEF TypeOKResearch, RequestsAreShaped, OneIsAwaited, Shaped

LEMMA DeliveryNext == InvResearch /\ NextResearch => DeliveryIsCounted'
<1> SUFFICES ASSUME InvResearch, NextResearch PROVE DeliveryIsCounted'
  OBVIOUS
<1>1. /\ TypeOKResearch /\ RequestsAreShaped /\ OneIsAwaited /\ RunFollowsWorker
      /\ worker \in Jobs /\ lost \in Nat /\ failures \in Nat
      /\ artefacts \in Seq(Paper)
      /\ Delivered(artefacts, worker, lost, failures, StoredBy)
  BY DeliveredInParts DEF InvResearch, TypeOKResearch, Jobs
<1>2. worker' \in Jobs /\ lost' \in Nat /\ failures' \in Nat
  BY TypeNextResearch DEF TypeOKResearch, Jobs
<1>3. \A h \in Handler : /\ requests[h] \in Request /\ Shaped(requests[h])
                         /\ requests[h].stored \in Nat /\ Matches(requests[h], worker, lost)
  BY <1>1 DEF TypeOKResearch, RequestsAreShaped, Request, OneIsAwaited, Matches
<1>4. ASSUME NEW h \in Handler, Moves(h), requests'[h].stored = requests[h].stored,
             artefacts' = artefacts, lost <= lost', failures <= failures',
             worker'.created = worker.created,
             worker'.outcome = worker.outcome \/ worker'.outcome # "failed"
      PROVE  DeliveryIsCounted'
  <2>1. StoredBy' = StoredBy
    BY <1>1, <1>4, StoredNext
  <2>2. Delivered(artefacts', worker', lost', failures', StoredBy)
    BY <1>1, <1>2, <1>4, CountIsKept
  <2> QED BY <1>2, <2>1, <2>2, DeliveredInPartsNext
<1>5. \A h \in Handler : requests[h].kind # "step" => requests[h].stored = 0
  BY <1>3 DEF Shaped
<1>6. CASE ToggleExternal \/ ApproveRun \/ LoopEnds
  <2>1. /\ requests' = requests /\ artefacts' = artefacts /\ lost' = lost
        /\ failures' = failures /\ worker'.created = worker.created
    BY <1>1, <1>6, QuietStepDoes
  <2>2. StoredBy' = StoredBy
    BY <2>1 DEF StoredBy
  <2>3. CASE worker'.outcome = worker.outcome
    <3>1. Delivered(artefacts', worker', lost', failures', StoredBy)
      BY <1>1, <1>2, <2>1, <2>3, CountIsKept
    <3> QED BY <1>2, <2>2, <3>1, DeliveredInPartsNext
  <2>4. CASE /\ worker.at = "loop"
             /\ worker'.outcome = IF worker.created = 0 THEN "failed" ELSE "none"
    <3>1. ASSUME lost = 0 PROVE \A h \in Handler : requests[h].stored = 0
      <4>1. \A h \in Handler : ~requests[h].waiting
        BY <1>3, <2>4 DEF Matches
      <4> QED BY <1>3, <1>5, <3>1, <4>1 DEF Matches
    <3>2. Delivered(artefacts', worker', lost', failures', StoredBy)
      BY <1>1, <1>2, <2>1, <2>4, <3>1 DEF Delivered, StoredBy
    <3> QED BY <1>2, <2>2, <3>2, DeliveredInPartsNext
  <2> QED BY <1>1, <1>6, <2>3, <2>4, QuietStepDoes
<1>7. ASSUME NEW h \in Handler, AskStep(h) PROVE DeliveryIsCounted'
  <2>1. requests'[h].stored = 0 /\ requests[h].stored = 0
    BY <1>1, <1>5, <1>7, AskStepDoes, NewFields DEF SameWork
  <2> QED BY <1>1, <1>4, <1>7, <2>1, AskStepDoes
<1>8. ASSUME NEW h \in Handler, SendRequest(h) PROVE DeliveryIsCounted'
  <2>1. worker.outcome \in Outcome
    BY <1>1 DEF TypeOKResearch
  <2>2. requests'[h].stored = 0 /\ requests[h].stored = 0
    BY <1>1, <1>5, <1>8, <2>1, SendRequestDoes, NewFields DEF SameWork
  <2> QED BY <1>1, <1>4, <1>8, <2>2, SendRequestDoes DEF SameJob
<1>9. ASSUME NEW h \in Handler, Moves(h), requests'[h].stored = 0,
             artefacts' = artefacts, lost <= lost', failures <= failures',
             lost' # 0 \/ failures' # 0,
             worker'.created = worker.created
      PROVE  DeliveryIsCounted'
  <2>1. /\ StoredBy'[h] = 0
        /\ \A g \in Handler \ {h} : StoredBy'[g] = StoredBy[g]
    BY <1>1, <1>9, StoredNext
  <2>2. Delivered(artefacts', worker', lost', failures', StoredBy')
    BY <1>1, <1>2, <1>9, <2>1 DEF Delivered
  <2> QED BY <1>2, <2>2, DeliveredInPartsNext
<1>10. ASSUME NEW h \in Handler, TimeOut(h) PROVE DeliveryIsCounted'
  <2>1. /\ Moves(h) /\ artefacts' = artefacts /\ lost' = lost + 1 /\ failures' = failures
        /\ requests'[h].stored = requests[h].stored /\ worker'.created = worker.created
    BY <1>1, <1>10, TimeOutDoes DEF GivesUp, SameWork
  <2>2. StoredBy' = StoredBy
    BY <1>1, <2>1, StoredNext
  <2>3. Delivered(artefacts', worker', lost', failures', StoredBy)
    BY <1>1, <1>2, <2>1 DEF Delivered
  <2> QED BY <1>2, <2>2, <2>3, DeliveredInPartsNext
<1>11. ASSUME NEW h \in Handler, StepFails(h) PROVE DeliveryIsCounted'
  <2>1. worker'.created = worker.created
    BY <1>1, <1>11, StepFailsDoes DEF GivesUp
  <2>2. /\ Moves(h) /\ requests'[h].stored = 0 /\ artefacts' = artefacts /\ lost' = lost
        /\ failures' = failures + 1
    BY <1>1, <1>11, StepFailsDoes, NewFields
  <2> QED BY <1>1, <1>9, <2>1, <2>2
<1>12. ASSUME NEW h \in Handler, ReviewFails(h) PROVE DeliveryIsCounted'
  <2>1. worker'.created = worker.created
    BY <1>1, <1>12, ReviewFailsDoes DEF GivesUp
  <2>2. /\ Moves(h) /\ artefacts' = artefacts /\ lost' = lost
        /\ failures' = failures + 1
    BY <1>1, <1>12, ReviewFailsDoes
  <2>3. requests'[h].stored = 0
    BY <1>1, <1>5, <1>12, ReviewFailsDoes, NewFields DEF SameWork
  <2> QED BY <1>1, <1>9, <2>1, <2>2, <2>3
<1>13. ASSUME NEW h \in Handler, BeginStep(h) \/ CallTool(h) PROVE DeliveryIsCounted'
  <2>1. /\ Moves(h) /\ artefacts' = artefacts /\ lost' = lost /\ failures' = failures
        /\ worker' = worker /\ requests'[h].stored = requests[h].stored
    BY <1>1, <1>13, BeginStepDoes, CallToolDoes
  <2> QED BY <1>1, <1>4, <2>1
<1>14. ASSUME NEW h \in Handler, ReviewAcceptance(h) \/ NoteRemediation(h) PROVE DeliveryIsCounted'
  <2>1. /\ Moves(h) /\ artefacts' = artefacts /\ lost' = lost /\ failures' = failures
        /\ worker' = worker /\ requests'[h].stored = requests[h].stored
    BY <1>1, <1>14, ReviewAcceptanceDoes, NoteRemediationDoes DEF SameWork
  <2> QED BY <1>1, <1>4, <2>1
<1>15. ASSUME NEW h \in Handler, PersistReview(h) PROVE DeliveryIsCounted'
  <2>1. /\ Moves(h) /\ artefacts' = artefacts /\ lost' = lost /\ failures' = failures
    BY <1>1, <1>15, PersistReviewDoes
  <2>2. /\ worker'.created = worker.created
        /\ worker'.outcome = worker.outcome \/ worker'.outcome # "failed"
    BY <1>1, <1>15, PersistReviewDoes
  <2>3. requests[h].kind # "step"
    BY <1>1, <1>15, PersistReviewDoes
  <2>4. requests'[h].stored = requests[h].stored
    BY <1>1, <1>5, <1>15, <2>3, PersistReviewDoes, NewFields DEF SameWork
  <2> QED BY <1>1, <1>4, <2>1, <2>2, <2>4
<1>16. ASSUME NEW h \in Handler, CloseRun(h) PROVE DeliveryIsCounted'
  <2>1. /\ Moves(h) /\ artefacts' = artefacts /\ lost' = lost /\ failures' = failures
        /\ requests'[h].stored = 0 /\ requests[h].stored = 0
    BY <1>1, <1>5, <1>16, CloseRunDoes, NewFields
  <2>2. worker'.created = worker.created /\ worker'.outcome = worker.outcome
    BY <1>1, <1>16, CloseRunDoes
  <2> QED BY <1>1, <1>4, <2>1, <2>2
<1>17. ASSUME NEW h \in Handler, Remediate(h) PROVE DeliveryIsCounted'
  <2>1. PICK papers \in Remedies :
               artefacts' = artefacts \o [i \in DOMAIN papers |->
                                WithFindings(papers[i], requests[h].read.findings)]
    BY <1>1, <1>17, RemediateDoes
  <2>2. /\ Moves(h) /\ lost' = lost /\ failures' = failures /\ worker' = worker
        /\ requests'[h].stored = requests[h].stored /\ requests[h].kind = "review"
    BY <1>1, <1>3, <1>17, RemediateDoes, KindsAre DEF SameWork
  <2>3. StoredBy' = StoredBy
    BY <1>1, <2>2, StoredNext
  <2>4. artefacts # <<>> => artefacts' # <<>>
    <3> DEFINE more == [i \in DOMAIN papers |-> WithFindings(papers[i], requests[h].read.findings)]
    <3>1. papers \in Seq(Paper) /\ requests[h].read.findings \in SUBSET Finding
      BY <1>1, AnswersAreTyped DEF TypeOKResearch, Request, Row
    <3>2. more \in Seq(Paper)
      <4>1. \A i \in 1 .. Len(papers) : WithFindings(papers[i], requests[h].read.findings) \in Paper
        BY <3>1, PapersAreTyped
      <4> QED BY <3>1, <4>1, LenProperties, IsASeq
    <3> HIDE DEF more
    <3>3. Len(artefacts') = Len(artefacts) + Len(more) /\ Len(more) \in Nat
      BY <1>1, <2>1, <3>2, ConcatProperties DEF more
    <3> QED BY <1>1, <3>3, EmptySeq
  <2>5. lost = 0 => worker.created > 0
    <3>1. lost = 0 => worker.at = "review"
      BY <1>3, <2>2 DEF Matches
    <3> QED BY <1>1, <3>1 DEF RunFollowsWorker
  <2>6. Delivered(artefacts', worker', lost', failures', StoredBy')
    BY <1>1, <2>2, <2>3, <2>4, <2>5 DEF Delivered, Jobs
  <2> QED BY <1>2, <2>6, DeliveredInPartsNext
<1>18. ASSUME NEW h \in Handler, StoreArtefact(h) PROVE DeliveryIsCounted'
  <2>1. /\ Moves(h) /\ lost' = lost /\ worker' = worker /\ requests[h].kind = "step"
        /\ requests'[h].stored = requests[h].stored + 1
        /\ failures' = failures \/ failures' = failures + 1
    BY <1>1, <1>18, StoreArtefactDoes
  <2>2. failures' = 0 => artefacts' # <<>>
    <3> DEFINE paper == WithFindings(Head(requests[h].papers), StepState(h).findings)
    <3>1. ASSUME failures' = 0 PROVE artefacts' = Append(artefacts, paper)
      <4>1. failures' # failures + 1
        BY <1>1, <3>1
      <4> QED BY <1>1, <1>18, <4>1, StoreArtefactDoes
    <3>2. paper \in Paper
      <4>1. StepState(h).findings \in SUBSET Finding /\ requests[h].papers \in Seq(Paper)
            /\ requests[h].papers # <<>>
        BY <1>1, <1>18, StoreArtefactDoes, StepStateIsTyped DEF TypeOKResearch, Request
      <4> QED BY <4>1, PapersAreTyped, HeadTailProperties
    <3> HIDE DEF paper
    <3> QED BY <1>1, <3>1, <3>2, AppendProperties
  <2>3. /\ StoredBy \in [Handler -> Nat] /\ StoredBy'[h] = StoredBy[h] + 1
    BY <1>1, <2>1, StoredNext
  <2>4. lost = 0 => worker.outcome # "failed"
    <3>1. lost = 0 => worker.at = "step"
      BY <1>3, <2>1 DEF Matches
    <3> QED BY <1>1, <3>1 DEF RunFollowsWorker
  <2>5. Delivered(artefacts', worker', lost', failures', StoredBy')
    BY <1>1, <1>2, <2>1, <2>2, <2>3, <2>4 DEF Delivered
  <2> QED BY <1>2, <2>5, DeliveredInPartsNext
<1>19. ASSUME NEW h \in Handler, Moves(h), requests'[h] = IdleHandler, requests[h].kind = "step",
              artefacts' = artefacts, lost' = lost, failures' = failures,
              IF requests[h].waiting
              THEN /\ worker'.created = worker.created + requests[h].stored
                   /\ worker'.outcome = "failed" => worker'.created = 0
              ELSE worker' = worker
       PROVE  DeliveryIsCounted'
  <2>1. /\ StoredBy \in [Handler -> Nat] /\ StoredBy' \in [Handler -> Nat]
        /\ StoredBy[h] = requests[h].stored /\ StoredBy'[h] = 0
        /\ \A g \in Handler \ {h} : StoredBy'[g] = StoredBy[g]
    BY <1>1, <1>19, StoredNext, NewFields
  <2>2. lost = 0 => \A g \in Handler : StoredBy'[g] = 0
    BY <1>1, <1>19, <2>1, Alone DEF StoredBy
  <2>3. CASE requests[h].waiting
    <3>1. worker.created \in Nat /\ worker'.created = worker.created + StoredBy[h]
      BY <1>1, <1>19, <2>1, <2>3 DEF Jobs
    <3>2. Delivered(artefacts', worker', lost', failures', StoredBy')
      BY <1>1, <1>19, <2>1, <2>2, <2>3, <3>1 DEF Delivered
    <3> QED BY <1>2, <3>2, DeliveredInPartsNext
  <2>4. CASE ~requests[h].waiting
    <3>1. lost # 0
      BY <1>3, <1>19, <2>4 DEF Matches
    <3>2. Delivered(artefacts', worker', lost', failures', StoredBy')
      BY <1>1, <1>19, <2>1, <2>4, <3>1 DEF Delivered
    <3> QED BY <1>2, <3>2, DeliveredInPartsNext
  <2> QED BY <2>3, <2>4
<1>20. ASSUME NEW h \in Handler, FinishState(h) PROVE DeliveryIsCounted'
  <2>1. requests[h].stored = 0 /\ worker.created \in Nat
    BY <1>1, <1>3, <1>20, FinishStateDoes DEF Shaped, Jobs
  <2>2. requests[h].waiting => /\ worker'.created = worker.created + requests[h].stored
                               /\ worker'.outcome = "failed" => worker'.created = 0
    BY <1>1, <1>20, <2>1, FinishStateDoes
  <2> QED BY <1>1, <1>19, <1>20, <2>2, FinishStateDoes
<1>21. ASSUME NEW h \in Handler, PersistStep(h) PROVE DeliveryIsCounted'
  <2>1. requests[h].waiting => /\ worker'.created = worker.created + requests[h].stored
                               /\ worker'.outcome = "failed" => worker'.created = 0
    BY <1>1, <1>21, PersistStepDoes
  <2> QED BY <1>1, <1>19, <1>21, <2>1, PersistStepDoes
<1> QED BY <1>6, <1>7, <1>8, <1>10, <1>11, <1>12, <1>13, <1>14, <1>15, <1>16, <1>17, <1>18, <1>20,
           <1>21, StepCases

-----------------------------------------------------------------------------
(* The evidence only grows, so a criterion that is met stays met.          *)

Prefix(docs, more) ==
    /\ docs \in Seq(Paper) /\ more \in Seq(Paper) /\ Len(docs) <= Len(more)
    /\ \A i \in 1 .. Len(docs) : more[i] = docs[i]

LEMMA MetStays ==
  ASSUME NEW docs, NEW more, Prefix(docs, more), NEW refs, NEW known, refs \subseteq known,
         IsFiniteSet(known), NEW c \in Criterion, Met(c, docs, refs)
  PROVE  Met(c, more, known)
<1>1. /\ c.minimum \in Nat /\ Len(docs) \in Nat /\ Len(more) \in Nat
      /\ DOMAIN docs = 1 .. Len(docs) /\ DOMAIN more = 1 .. Len(more)
      /\ \A i \in DOMAIN docs : i \in DOMAIN more /\ more[i] = docs[i]
      /\ IsFiniteSet(DOMAIN more)
  <2>1. /\ c.minimum \in Nat /\ Len(docs) \in Nat /\ Len(more) \in Nat
        /\ DOMAIN docs = 1 .. Len(docs) /\ DOMAIN more = 1 .. Len(more)
        /\ Len(docs) <= Len(more)
    BY DEF Criterion, Prefix
  <2>2. \A i \in DOMAIN docs : i \in DOMAIN more /\ more[i] = docs[i]
    BY <2>1 DEF Prefix
  <2>3. IsFiniteSet(1 .. Len(more))
    BY <2>1, FS_Interval
  <2> QED BY <2>1, <2>2, <2>3
<1>2. CASE c.kind = "artefact_count"
  BY <1>1, <1>2 DEF Met, Prefix
<1>3. CASE c.kind = "artefact_type"
  <2> DEFINE those == {i \in DOMAIN docs : docs[i].type = c.want}
             these == {i \in DOMAIN more : more[i].type = c.want}
  <2>1. those \subseteq these /\ these \subseteq DOMAIN more
    BY <1>1
  <2>2. Cardinality(those) >= c.minimum
    BY <1>3 DEF Met
  <2>3. Met(c, more, known) <=> Cardinality(these) >= c.minimum
    BY <1>3 DEF Met
  <2> HIDE DEF those, these
  <2>4. IsFiniteSet(these)
    BY <1>1, <2>1, FS_Subset
  <2>5. Cardinality(those) <= Cardinality(these) /\ IsFiniteSet(those)
    BY <2>1, <2>4, FS_Subset
  <2>6. Cardinality(those) \in Nat /\ Cardinality(these) \in Nat
    BY <2>4, <2>5, FS_CardinalityType
  <2> QED BY <1>1, <2>2, <2>3, <2>5, <2>6
<1>4. CASE c.kind = "named_section"
  BY <1>1, <1>4 DEF Met
<1>5. CASE c.kind = "evidence_class"
  BY <1>1, <1>5 DEF Met
<1>6. CASE c.kind = "external_sources"
  <2>1. refs \cap External \subseteq known \cap External /\ known \cap External \subseteq known
    OBVIOUS
  <2>2. Cardinality(refs \cap External) >= c.minimum
    BY <1>6 DEF Met
  <2>3. Met(c, more, known) <=> Cardinality(known \cap External) >= c.minimum
    BY <1>6 DEF Met
  <2>4. IsFiniteSet(known \cap External)
    BY <2>1, FS_Subset
  <2>5. /\ Cardinality(refs \cap External) <= Cardinality(known \cap External)
        /\ IsFiniteSet(refs \cap External)
    BY <2>1, <2>4, FS_Subset
  <2>6. Cardinality(refs \cap External) \in Nat /\ Cardinality(known \cap External) \in Nat
    BY <2>4, <2>5, FS_CardinalityType
  <2> QED BY <1>1, <2>2, <2>3, <2>5, <2>6
<1>7. CASE c.kind = "source_class"
  BY <1>7 DEF Met
<1> QED BY <1>2, <1>3, <1>4, <1>5, <1>6, <1>7 DEF Criterion

LEMMA GapsOnlyClose ==
  ASSUME NEW docs, NEW more, Prefix(docs, more), NEW refs, NEW known, refs \subseteq known,
         IsFiniteSet(known), NEW criteria \in SUBSET Criterion
  PROVE  Unmet(criteria, more, known) \subseteq Unmet(criteria, docs, refs)
<1>1. \A c \in criteria : Met(c, docs, refs) => Met(c, more, known)
  BY MetStays
<1> QED BY <1>1 DEF Unmet

LEMMA AppendedIsPrefix ==
  ASSUME NEW docs \in Seq(Paper)
  PROVE  /\ Prefix(docs, docs)
         /\ \A paper \in Paper : Prefix(docs, Append(docs, paper))
         /\ \A more \in Seq(Paper) : Prefix(docs, docs \o more)
<1>1. Prefix(docs, docs)
  BY DEF Prefix
<1>2. \A paper \in Paper : Prefix(docs, Append(docs, paper))
  BY AppendProperties DEF Prefix
<1>3. \A more \in Seq(Paper) : Prefix(docs, docs \o more)
  <2> TAKE more \in Seq(Paper)
  <2>1. /\ docs \o more \in Seq(Paper) /\ Len(docs \o more) = Len(docs) + Len(more)
        /\ Len(docs) \in Nat /\ Len(more) \in Nat
        /\ \A i \in 1 .. Len(docs) + Len(more) :
               (docs \o more)[i] = IF i <= Len(docs) THEN docs[i] ELSE more[i - Len(docs)]
    BY ConcatProperties
  <2>2. Len(docs) <= Len(docs \o more)
    BY <2>1
  <2>3. ASSUME NEW i \in 1 .. Len(docs) PROVE (docs \o more)[i] = docs[i]
    <3>1. i \in 1 .. Len(docs) + Len(more) /\ i <= Len(docs)
      BY <2>1
    <3> QED BY <2>1, <3>1
  <2> QED BY <2>1, <2>2, <2>3 DEF Prefix
<1> QED BY <1>1, <1>2, <1>3

LEMMA RemediesAreTyped ==
  ASSUME NEW papers \in Remedies, NEW findings \in SUBSET Finding
  PROVE  [i \in DOMAIN papers |-> WithFindings(papers[i], findings)] \in Seq(Paper)
<1>1. papers \in Seq(Paper) /\ DOMAIN papers = 1 .. Len(papers) /\ Len(papers) \in Nat
  BY AnswersAreTyped
<1>2. \A i \in 1 .. Len(papers) : WithFindings(papers[i], findings) \in Paper
  BY <1>1, PapersAreTyped
<1> QED BY <1>1, <1>2, IsASeq

(* How a step changes the evidence: not at all, or a step or a review being served adds to it. *)
SameEvidence == /\ Gaps' = Gaps /\ artefacts' = artefacts

MoreEvidence ==
    /\ run' = run /\ worker' = worker /\ Gaps' \subseteq Gaps
    /\ artefacts # <<>> => artefacts' # <<>>
    /\ \E h \in Handler : requests[h].kind \in {"step", "review"}

LEMMA SameEvidenceIs ==
  ASSUME run'.criteria = run.criteria, artefacts' = artefacts, retrieved' = retrieved
  PROVE  SameEvidence
<1>1. Refs' = Refs
  BY DEF Refs
<1> QED BY <1>1 DEF SameEvidence, Gaps, Unmet

LEMMA MoreEvidenceIs ==
  ASSUME TypeOKResearch, Prefix(artefacts, artefacts'), Refs \subseteq Refs', IsFiniteSet(Refs'),
         run' = run, worker' = worker,
         NEW h \in Handler, requests[h].kind \in {"step", "review"}
  PROVE  MoreEvidence
<1>1. run.criteria \in SUBSET Criterion
  BY DEF TypeOKResearch
<1>2. Gaps' \subseteq Gaps
  BY <1>1, GapsOnlyClose DEF Gaps
<1>3. artefacts # <<>> => artefacts' # <<>>
  BY EmptySeq DEF Prefix
<1> QED BY <1>2, <1>3 DEF MoreEvidence

LEMMA EvidenceNext ==
  ASSUME InvResearch, NextResearch
  PROVE  SameEvidence \/ MoreEvidence \/ ApproveRun
<1>1. TypeOKResearch /\ RequestsAreShaped /\ artefacts \in Seq(Paper)
  BY DEF InvResearch, TypeOKResearch
<1>2. IsFiniteSet(Refs) /\ IsFiniteSet(Refs')
  BY GroundingNext DEF InvResearch, Grounding, ReadingsAreGrounded
<1>3. \A h \in Handler : requests[h] \in Request /\ Shaped(requests[h])
  BY <1>1 DEF TypeOKResearch, RequestsAreShaped
<1>4. CASE ToggleExternal \/ LoopEnds
  BY <1>4, SameEvidenceIs DEF ToggleExternal, LoopEnds, serverVars
<1>5. ASSUME NEW h \in Handler, AskStep(h) \/ SendRequest(h) \/ TimeOut(h) PROVE SameEvidence
  BY <1>1, <1>5, AskStepDoes, SendRequestDoes, TimeOutDoes, SameEvidenceIs
<1>6. ASSUME NEW h \in Handler, BeginStep(h) \/ FinishState(h) \/ StepFails(h) PROVE SameEvidence
  BY <1>1, <1>6, BeginStepDoes, FinishStateDoes, StepFailsDoes, SameEvidenceIs
<1>7. ASSUME NEW h \in Handler, PersistStep(h) \/ ReviewAcceptance(h) \/ ReviewFails(h)
      PROVE  SameEvidence
  BY <1>1, <1>7, PersistStepDoes, ReviewAcceptanceDoes, ReviewFailsDoes, SameEvidenceIs
<1>8. ASSUME NEW h \in Handler, PersistReview(h) \/ NoteRemediation(h) \/ CloseRun(h)
      PROVE  SameEvidence
  <2>1. run \in RunType
    BY <1>1 DEF TypeOKResearch, RunType
  <2>2. /\ artefacts' = artefacts /\ retrieved' = retrieved
        /\ \/ run' = run \/ run' = [run EXCEPT !.acceptance = requests[h].state]
           \/ run' = [run EXCEPT !.remediated = TRUE]
           \/ run' = [run EXCEPT !.status = ClosingStatus(requests[h])]
    BY <1>1, <1>8, PersistReviewDoes, NoteRemediationDoes, CloseRunDoes
  <2>3. run'.criteria = run.criteria
    BY <2>1, <2>2 DEF RunType
  <2> QED BY <2>2, <2>3, SameEvidenceIs
<1>9. ASSUME NEW h \in Handler, CallTool(h) PROVE MoreEvidence
  <2>1. /\ requests[h].kind = "step" /\ artefacts' = artefacts /\ run' = run /\ worker' = worker
        /\ \E c \in Lookup, refs \in SUBSET Ref : PersistSources(c, refs)
    BY <1>1, <1>9, CallToolDoes
  <2>2. Refs \subseteq Refs'
    BY <1>1, <2>1, SourcesAreRecordedOnce, MoreIsRetrieved
  <2> QED BY <1>1, <1>2, <2>1, <2>2, AppendedIsPrefix, MoreEvidenceIs
<1>10. ASSUME NEW h \in Handler, StoreArtefact(h) PROVE MoreEvidence
  <2> DEFINE paper == WithFindings(Head(requests[h].papers), StepState(h).findings)
  <2>1. /\ requests[h].kind = "step" /\ retrieved' = retrieved /\ run' = run /\ worker' = worker
        /\ artefacts' = artefacts \/ artefacts' = Append(artefacts, paper)
    BY <1>1, <1>10, StoreArtefactDoes
  <2>2. paper \in Paper
    <3>1. StepState(h).findings \in SUBSET Finding /\ requests[h].papers \in Seq(Paper)
          /\ requests[h].papers # <<>>
      BY <1>1, <1>10, StoreArtefactDoes, StepStateIsTyped DEF TypeOKResearch, Request
    <3> QED BY <3>1, PapersAreTyped, HeadTailProperties
  <2>3. Refs' = Refs
    BY <2>1 DEF Refs
  <2> HIDE DEF paper
  <2>4. Prefix(artefacts, artefacts')
    BY <1>1, <2>1, <2>2, AppendedIsPrefix
  <2> QED BY <1>1, <1>2, <2>1, <2>3, <2>4, MoreEvidenceIs
<1>11. ASSUME NEW h \in Handler, Remediate(h) PROVE MoreEvidence
  <2>1. PICK papers \in Remedies :
               artefacts' = artefacts \o [i \in DOMAIN papers |->
                                WithFindings(papers[i], requests[h].read.findings)]
    BY <1>1, <1>11, RemediateDoes
  <2>2. /\ requests[h].at = "remedy" /\ retrieved' = retrieved /\ run' = run /\ worker' = worker
    BY <1>1, <1>11, RemediateDoes
  <2>3. requests[h].kind = "review"
    BY <1>3, <2>2, KindsAre
  <2>4. Refs' = Refs
    BY <2>2 DEF Refs
  <2>5. requests[h].read.findings \in SUBSET Finding
    BY <1>3 DEF Request, Row
  <2>6. Prefix(artefacts, artefacts')
    BY <1>1, <2>1, <2>5, RemediesAreTyped, AppendedIsPrefix
  <2> QED BY <1>1, <1>2, <2>2, <2>3, <2>4, <2>6, MoreEvidenceIs
<1> QED BY <1>4, <1>5, <1>6, <1>7, <1>8, <1>9, <1>10, <1>11, StepCases

-----------------------------------------------------------------------------
(* A verdict on its way to the run stays true.                             *)

Verdict(r, gaps, l, f) ==
    r.kind = "complete" /\ r.at \in {"persist", "close"} /\ r.outcome = "succeeded" =>
        /\ f = 0 => r.state \in {"satisfied", "gaps"}
        /\ r.state = "satisfied" => gaps = {}
        /\ l = 0 /\ r.state = "gaps" => gaps # {}

LEMMA VerdictsInParts ==
  /\ VerdictsHold <=> \A h \in Handler : Verdict(requests[h], Gaps, lost, failures)
  /\ VerdictsHold' <=> \A h \in Handler : Verdict(requests'[h], Gaps', lost', failures')
BY DEF VerdictsHold, Verdict

LEMMA VerdictStays ==
  ASSUME NEW r, NEW gaps, NEW less, NEW l \in Nat, NEW m \in Nat, NEW f \in Nat, NEW g \in Nat,
         Verdict(r, gaps, l, f), less \subseteq gaps, l <= m, f <= g,
         less = gaps \/ (m = 0 => r.kind # "complete")
  PROVE  Verdict(r, less, m, g)
BY DEF Verdict

LEMMA CountsOnlyGrow ==
  ASSUME InvResearch, NextResearch
  PROVE  /\ lost \in Nat /\ failures \in Nat /\ lost' \in Nat /\ failures' \in Nat
         /\ lost <= lost' /\ failures <= failures'
<1>1. /\ TypeOKResearch /\ RequestsAreShaped /\ lost \in Nat /\ failures \in Nat
      /\ lost' \in Nat /\ failures' \in Nat
  BY TypeNextResearch DEF InvResearch, TypeOKResearch
<1>2. CASE ToggleExternal \/ ApproveRun \/ LoopEnds
  BY <1>1, <1>2, QuietStepDoes
<1>3. ASSUME NEW h \in Handler, AskStep(h) \/ SendRequest(h) \/ TimeOut(h) \/ BeginStep(h)
      PROVE  lost <= lost' /\ failures <= failures'
  BY <1>1, <1>3, AskStepDoes, SendRequestDoes, TimeOutDoes, BeginStepDoes
<1>4. ASSUME NEW h \in Handler, FinishState(h) \/ StepFails(h) \/ CallTool(h) \/ StoreArtefact(h)
      PROVE  lost <= lost' /\ failures <= failures'
  BY <1>1, <1>4, FinishStateDoes, StepFailsDoes, CallToolDoes, StoreArtefactDoes
<1>5. ASSUME NEW h \in Handler, PersistStep(h) \/ ReviewAcceptance(h) \/ PersistReview(h)
      PROVE  lost <= lost' /\ failures <= failures'
  BY <1>1, <1>5, PersistStepDoes, ReviewAcceptanceDoes, PersistReviewDoes
<1>6. ASSUME NEW h \in Handler, Remediate(h) \/ NoteRemediation(h) \/ ReviewFails(h) \/ CloseRun(h)
      PROVE  lost <= lost' /\ failures <= failures'
  BY <1>1, <1>6, RemediateDoes, NoteRemediationDoes, ReviewFailsDoes, CloseRunDoes
<1> QED BY <1>1, <1>2, <1>3, <1>4, <1>5, <1>6, StepCases

(* Whatever step the run takes, the verdict of a request that does not move stays true. *)
LEMMA OtherVerdictsStay ==
  ASSUME InvResearch, NextResearch, NEW g \in Handler, requests'[g] = requests[g]
  PROVE  Verdict(requests'[g], Gaps', lost', failures')
<1>1. /\ TypeOKResearch /\ RequestsAreShaped /\ OneIsAwaited /\ RunFollowsWorker
      /\ Verdict(requests[g], Gaps, lost, failures)
  BY VerdictsInParts DEF InvResearch
<1>2. /\ lost \in Nat /\ failures \in Nat /\ lost' \in Nat /\ failures' \in Nat
      /\ lost <= lost' /\ failures <= failures'
  BY CountsOnlyGrow
<1>3. CASE SameEvidence
  BY <1>1, <1>2, <1>3, VerdictStays DEF SameEvidence
<1>4. CASE MoreEvidence
  <2>1. ASSUME lost' = 0 PROVE requests[g].kind # "complete"
    <3>1. lost = 0
      BY <1>2, <2>1
    <3>2. PICK h \in Handler : requests[h].kind \in {"step", "review"}
      BY <1>4 DEF MoreEvidence
    <3> QED BY <1>1, <3>1, <3>2, Alone
  <2>2. Verdict(requests[g], Gaps', lost', failures')
    BY <1>1, <1>2, <1>4, <2>1, VerdictStays DEF MoreEvidence
  <2> QED BY <2>2
<1>5. CASE ApproveRun
  <2>1. requests[g].kind = "idle"
    BY <1>1, <1>5 DEF RunFollowsWorker, ApproveRun
  <2> QED BY <2>1 DEF Verdict
<1> QED BY <1>3, <1>4, <1>5, EvidenceNext

LEMMA VerdictOfReview ==
  ASSUME InvResearch, NEW h \in Handler, requests[h].kind = "complete",
         requests[h].outcome = "succeeded"
  PROVE  LET state == AcceptanceState(run.criteria, artefacts, Refs)
         IN  /\ failures = 0 => state \in {"satisfied", "gaps"}
             /\ state = "satisfied" => Gaps = {}
             /\ state = "gaps" => Gaps # {}
<1>1. /\ run.status # "proposed" => run.criteria # {}
      /\ worker.outcome = "succeeded" => worker.created > 0
      /\ requests[h].outcome = worker.outcome
      /\ run.status # "proposed"
  BY DEF InvResearch, RunFollowsWorker
<1>2. failures = 0 => artefacts # <<>>
  BY <1>1 DEF InvResearch, DeliveryIsCounted
<1> QED BY <1>1, <1>2 DEF AcceptanceState, Gaps

LEMMA VerdictsNext == InvResearch /\ NextResearch => VerdictsHold'
<1> SUFFICES ASSUME InvResearch, NextResearch PROVE VerdictsHold'
  OBVIOUS
<1>1. /\ TypeOKResearch /\ RequestsAreShaped /\ OneIsAwaited
      /\ \A h \in Handler : Verdict(requests[h], Gaps, lost, failures)
  BY VerdictsInParts DEF InvResearch
<1>2. /\ lost \in Nat /\ failures \in Nat /\ lost' \in Nat /\ failures' \in Nat
      /\ lost <= lost' /\ failures <= failures'
  BY CountsOnlyGrow
<1>3. \A h \in Handler : requests[h] \in Request /\ Shaped(requests[h])
  BY <1>1 DEF TypeOKResearch, RequestsAreShaped
<1>4. ASSUME NEW h \in Handler, Moves(h), Verdict(requests'[h], Gaps', lost', failures')
      PROVE  VerdictsHold'
  <2>1. \A g \in Handler \ {h} : Verdict(requests'[g], Gaps', lost', failures')
    BY <1>4, OtherVerdictsStay DEF Moves
  <2> QED BY <1>4, <2>1, VerdictsInParts
<1>5. ASSUME NEW h \in Handler, Moves(h), requests'[h].kind # "complete" PROVE VerdictsHold'
  BY <1>4, <1>5 DEF Verdict
<1>6. CASE ToggleExternal \/ ApproveRun \/ LoopEnds
  BY <1>1, <1>6, QuietStepDoes, OtherVerdictsStay, VerdictsInParts
<1>7. ASSUME NEW h \in Handler, AskStep(h) PROVE VerdictsHold'
  BY <1>1, <1>5, <1>7, AskStepDoes, NewFields
<1>8. ASSUME NEW h \in Handler, SendRequest(h) PROVE VerdictsHold'
  <2>1. worker.outcome \in Outcome /\ Moves(h)
    BY <1>1, <1>8, SendRequestDoes DEF TypeOKResearch
  <2>2. CASE requests'[h] = NewReport(worker.outcome)
    <3>1. requests'[h].outcome = "succeeded" => requests'[h].at = "evidence"
      BY <2>1, <2>2, NewFields
    <3>2. Verdict(requests'[h], Gaps', lost', failures')
      BY <3>1 DEF Verdict
    <3> QED BY <1>4, <2>1, <3>2
  <2>3. CASE requests'[h] # NewReport(worker.outcome)
    BY <1>1, <1>5, <1>8, <2>3, SendRequestDoes, NewFields
  <2> QED BY <2>2, <2>3
<1>9. ASSUME NEW h \in Handler, TimeOut(h) PROVE VerdictsHold'
  <2>1. /\ Moves(h) /\ requests'[h].kind = requests[h].kind /\ requests'[h].at = requests[h].at
        /\ SameVerdict(requests[h], requests'[h]) /\ run' = run /\ artefacts' = artefacts
        /\ retrieved' = retrieved
    BY <1>1, <1>9, TimeOutDoes
  <2>2. Gaps' = Gaps
    BY <2>1, SameEvidenceIs DEF SameEvidence
  <2>3. lost' # 0 /\ failures' = failures
    BY <1>1, <1>2, <1>9, TimeOutDoes
  <2>4. Verdict(requests'[h], Gaps', lost', failures')
    BY <1>1, <2>1, <2>2, <2>3 DEF Verdict, SameVerdict
  <2> QED BY <1>4, <2>1, <2>4
<1>10. ASSUME NEW h \in Handler, BeginStep(h) \/ FinishState(h) \/ StepFails(h) \/ CallTool(h)
       PROVE  VerdictsHold'
  BY <1>1, <1>5, <1>10, BeginStepDoes, FinishStateDoes, StepFailsDoes, CallToolDoes, NewFields
     DEF SamePlace
<1>11. ASSUME NEW h \in Handler, StoreArtefact(h) \/ PersistStep(h) \/ CloseRun(h)
       PROVE  VerdictsHold'
  BY <1>1, <1>5, <1>11, StoreArtefactDoes, PersistStepDoes, CloseRunDoes, NewFields DEF SamePlace
<1>12. ASSUME NEW h \in Handler, ReviewAcceptance(h) PROVE VerdictsHold'
  <2>1. /\ Moves(h) /\ SamePlace(requests[h], requests'[h])
        /\ requests'[h].state = AcceptanceState(run.criteria, artefacts, Refs)
        /\ requests'[h].outcome = requests[h].outcome
        /\ run' = run /\ artefacts' = artefacts /\ retrieved' = retrieved
        /\ failures' = failures
    BY <1>1, <1>12, ReviewAcceptanceDoes
  <2>2. Gaps' = Gaps
    BY <2>1, SameEvidenceIs DEF SameEvidence
  <2>3. Verdict(requests'[h], Gaps', lost', failures')
    BY <2>1, <2>2, VerdictOfReview DEF Verdict, SamePlace
  <2> QED BY <1>4, <2>1, <2>3
<1>13. ASSUME NEW h \in Handler, PersistReview(h) PROVE VerdictsHold'
  <2>1. /\ Moves(h) /\ lost' = lost /\ failures' = failures /\ requests[h].at = "persist"
    BY <1>1, <1>13, PersistReviewDoes
  <2>2. CASE requests[h].kind = "complete"
    <3>1. /\ requests'[h].at = "close" /\ SamePlace(requests[h], requests'[h])
          /\ SameVerdict(requests[h], requests'[h])
      BY <1>1, <1>13, <2>2, PersistReviewDoes
    <3>2. run'.criteria = run.criteria /\ artefacts' = artefacts /\ retrieved' = retrieved
      BY <1>1, <1>13, PersistReviewDoes DEF TypeOKResearch
    <3>3. Gaps' = Gaps
      BY <3>2, SameEvidenceIs DEF SameEvidence
    <3>4. Verdict(requests'[h], Gaps', lost', failures')
      BY <1>1, <2>1, <3>1, <3>3 DEF Verdict, SamePlace, SameVerdict
    <3> QED BY <1>4, <2>1, <3>4
  <2>3. CASE requests[h].kind # "complete"
    BY <1>1, <1>5, <1>13, <2>1, <2>3, PersistReviewDoes, NewFields DEF SamePlace
  <2> QED BY <2>2, <2>3
<1>14. ASSUME NEW h \in Handler, Remediate(h) \/ NoteRemediation(h) PROVE VerdictsHold'
  <2>1. /\ Moves(h) /\ SamePlace(requests[h], requests'[h]) /\ requests[h].at = "remedy"
    BY <1>1, <1>14, RemediateDoes, NoteRemediationDoes
  <2>2. requests[h].kind = "review"
    BY <1>3, <2>1, KindsAre
  <2> QED BY <1>5, <2>1, <2>2 DEF SamePlace
<1>15. ASSUME NEW h \in Handler, ReviewFails(h) PROVE VerdictsHold'
  <2>1. /\ Moves(h) /\ failures' # 0
        /\ requests'[h] = IdleHandler \/ requests'[h].state = "not_assessed"
    BY <1>1, <1>2, <1>15, ReviewFailsDoes
  <2>2. Verdict(requests'[h], Gaps', lost', failures')
    BY <2>1, NewFields DEF Verdict
  <2> QED BY <1>4, <2>1, <2>2
<1> QED BY <1>6, <1>7, <1>8, <1>9, <1>10, <1>11, <1>12, <1>13, <1>14, <1>15, StepCases

-----------------------------------------------------------------------------
(* The status a run ends in is true when it is set, and stays true.        *)

EndsHonestly(ending, gaps, docs, l, f) ==
    /\ ending = "completed" /\ f = 0 => gaps = {} /\ docs # <<>>
    /\ ending = "completed_with_gaps" /\ l = 0 => gaps # {}
    /\ ending = "failed" /\ l = 0 /\ f = 0 => docs = <<>>

LEMMA HonestInParts ==
  ASSUME lost \in Nat, failures \in Nat
  PROVE  OutcomeIsHonest <=> EndsHonestly(run.status, Gaps, artefacts, lost, failures)
<1>1. lost + failures = 0 <=> lost = 0 /\ failures = 0
  BY NoneOfEither
<1> QED BY <1>1 DEF OutcomeIsHonest, EndsHonestly, Gaps

LEMMA HonestInPartsNext ==
  ASSUME lost' \in Nat, failures' \in Nat
  PROVE  OutcomeIsHonest' <=> EndsHonestly(run'.status, Gaps', artefacts', lost', failures')
<1>1. lost' + failures' = 0 <=> lost' = 0 /\ failures' = 0
  BY NoneOfEither
<1> QED BY <1>1 DEF OutcomeIsHonest, EndsHonestly, Gaps

LEMMA StaysHonest ==
  ASSUME NEW ending, NEW gaps, NEW less, NEW docs, NEW more, NEW l \in Nat, NEW m \in Nat,
         NEW f \in Nat, NEW g \in Nat, EndsHonestly(ending, gaps, docs, l, f),
         less \subseteq gaps, docs # <<>> => more # <<>>, l <= m, f <= g,
         (less = gaps /\ more = docs) \/ (m = 0 => ending \notin Terminal)
  PROVE  EndsHonestly(ending, less, more, m, g)
BY DEF EndsHonestly, Terminal

(* Once the run has ended and no answer was lost, no request is being served. *)
LEMMA NothingAfterTheEnd ==
  ASSUME OneIsAwaited, RunFollowsWorker, lost = 0, run.status \in Terminal
  PROVE  \A h \in Handler : requests[h].kind = "idle"
BY DEF OneIsAwaited, RunFollowsWorker

LEMMA HonestNext == InvResearch /\ NextResearch => OutcomeIsHonest'
<1> SUFFICES ASSUME InvResearch, NextResearch PROVE OutcomeIsHonest'
  OBVIOUS
<1>1. /\ TypeOKResearch /\ RequestsAreShaped /\ OneIsAwaited /\ RunFollowsWorker
      /\ DeliveryIsCounted /\ run \in RunType
      /\ \A h \in Handler : Verdict(requests[h], Gaps, lost, failures)
  BY VerdictsInParts DEF InvResearch, TypeOKResearch, RunType
<1>2. /\ lost \in Nat /\ failures \in Nat /\ lost' \in Nat /\ failures' \in Nat
      /\ lost <= lost' /\ failures <= failures'
  BY CountsOnlyGrow
<1>3. EndsHonestly(run.status, Gaps, artefacts, lost, failures)
  BY <1>2, HonestInParts DEF InvResearch
<1>4. ASSUME run'.status = run.status, SameEvidence \/ MoreEvidence PROVE OutcomeIsHonest'
  <2>1. CASE SameEvidence
    <3>1. EndsHonestly(run.status, Gaps', artefacts', lost', failures')
      BY <1>2, <1>3, <2>1, StaysHonest DEF SameEvidence
    <3> QED BY <1>2, <1>4, <3>1, HonestInPartsNext
  <2>2. CASE MoreEvidence
    <3>1. lost' = 0 => run.status \notin Terminal
      BY <1>1, <1>2, <2>2, NothingAfterTheEnd DEF MoreEvidence
    <3>2. EndsHonestly(run.status, Gaps', artefacts', lost', failures')
      BY <1>2, <1>3, <2>2, <3>1, StaysHonest DEF MoreEvidence
    <3> QED BY <1>2, <1>4, <3>2, HonestInPartsNext
  <2> QED BY <1>4, <2>1, <2>2
<1>5. CASE ApproveRun
  <2>1. run'.status = "running"
    BY <1>1, <1>5 DEF ApproveRun, RunType
  <2>2. EndsHonestly(run'.status, Gaps', artefacts', lost', failures')
    BY <2>1 DEF EndsHonestly
  <2> QED BY <1>2, <2>2, HonestInPartsNext
<1>6. ASSUME NEW h \in Handler, CloseRun(h) PROVE OutcomeIsHonest'
  <2>1. /\ requests[h].kind = "complete" /\ requests[h].at = "close"
        /\ lost' = lost /\ failures' = failures
        /\ artefacts' = artefacts /\ retrieved' = retrieved
        /\ run' = IF run.status \in Terminal THEN run
                  ELSE [run EXCEPT !.status = ClosingStatus(requests[h])]
    BY <1>1, <1>6, CloseRunDoes
  <2>2. run'.criteria = run.criteria
    BY <1>1, <2>1 DEF RunType
  <2>3. Gaps' = Gaps
    BY <2>1, <2>2, SameEvidenceIs DEF SameEvidence
  <2>4. CASE run.status \in Terminal
    <3>1. EndsHonestly(run'.status, Gaps', artefacts', lost', failures')
      BY <1>3, <2>1, <2>3, <2>4
    <3> QED BY <1>2, <3>1, HonestInPartsNext
  <2>5. CASE run.status \notin Terminal
    <3>1. run'.status = ClosingStatus(requests[h])
      BY <1>1, <2>1, <2>5 DEF RunType
    <3>2. /\ requests[h].outcome = worker.outcome /\ requests[h].outcome \in {"succeeded", "failed"}
      BY <1>1, <2>1 DEF RunFollowsWorker, RequestsAreShaped, Shaped, TypeOKResearch, Request, Outcome
    <3>3. CASE requests[h].outcome = "succeeded"
      <4>1. run'.status = IF requests[h].state = "gaps" THEN "completed_with_gaps" ELSE "completed"
        BY <3>1, <3>3 DEF ClosingStatus
      <4>2. /\ failures = 0 => requests[h].state \in {"satisfied", "gaps"}
            /\ requests[h].state = "satisfied" => Gaps = {}
            /\ lost = 0 /\ requests[h].state = "gaps" => Gaps # {}
        BY <1>1, <2>1, <3>3 DEF Verdict
      <4>3. failures = 0 => artefacts # <<>>
        BY <1>1, <3>2, <3>3 DEF RunFollowsWorker, DeliveryIsCounted
      <4>4. EndsHonestly(run'.status, Gaps', artefacts', lost', failures')
        BY <2>1, <2>3, <4>1, <4>2, <4>3 DEF EndsHonestly
      <4> QED BY <1>2, <4>4, HonestInPartsNext
    <3>4. CASE requests[h].outcome = "failed"
      <4>1. run'.status = "failed"
        BY <3>1, <3>4 DEF ClosingStatus
      <4>2. lost = 0 /\ failures = 0 => artefacts = <<>>
        BY <1>1, <3>2, <3>4 DEF DeliveryIsCounted
      <4>3. EndsHonestly(run'.status, Gaps', artefacts', lost', failures')
        BY <2>1, <4>1, <4>2 DEF EndsHonestly
      <4> QED BY <1>2, <4>3, HonestInPartsNext
    <3> QED BY <3>2, <3>3, <3>4
  <2> QED BY <2>4, <2>5
<1>7. CASE ~ApproveRun /\ ~\E h \in Handler : CloseRun(h)
  <2>1. run'.status = run.status
    <3>1. CASE ToggleExternal \/ LoopEnds
      BY <3>1 DEF ToggleExternal, LoopEnds, serverVars
    <3>2. ASSUME NEW h \in Handler, AskStep(h) \/ SendRequest(h) \/ TimeOut(h) \/ BeginStep(h)
          PROVE  run'.status = run.status
      BY <1>1, <3>2, AskStepDoes, SendRequestDoes, TimeOutDoes, BeginStepDoes
    <3>3. ASSUME NEW h \in Handler,
                 FinishState(h) \/ StepFails(h) \/ CallTool(h) \/ StoreArtefact(h)
          PROVE  run'.status = run.status
      BY <1>1, <3>3, FinishStateDoes, StepFailsDoes, CallToolDoes, StoreArtefactDoes
    <3>4. ASSUME NEW h \in Handler, PersistStep(h) \/ ReviewAcceptance(h) \/ PersistReview(h)
          PROVE  run'.status = run.status
      BY <1>1, <3>4, PersistStepDoes, ReviewAcceptanceDoes, PersistReviewDoes DEF RunType
    <3>5. ASSUME NEW h \in Handler, Remediate(h) \/ NoteRemediation(h) \/ ReviewFails(h)
          PROVE  run'.status = run.status
      BY <1>1, <3>5, RemediateDoes, NoteRemediationDoes, ReviewFailsDoes DEF RunType
    <3> QED BY <1>7, <3>1, <3>2, <3>3, <3>4, <3>5, StepCases
  <2> QED BY <1>4, <1>7, <2>1, EvidenceNext
<1> QED BY <1>5, <1>6, <1>7

-----------------------------------------------------------------------------
(* The row accounts for every step and source.                             *)

(* The parts of StateAddsUp when only request r is being served. *)
AddsUp(r, state, w, refs) ==
    /\ state.steps = w.iterations - (IF w.at = "step" THEN 1 ELSE 0)
    /\ (r.kind = "step" => r.at = "begin") => state.sources = refs
    /\ r.kind = "step" /\ r.at # "begin" =>
          /\ r.read.sources \cup r.new = refs
          /\ r.read.steps = state.steps

LEMMA AddsUpAlone ==
  /\ \A h \in Handler :
        (\A g \in Handler \ {h} : requests[g].kind = "idle") /\ lost = 0 /\ failures = 0
            /\ StateAddsUp => AddsUp(requests[h], row, worker, Refs)
  /\ \A h \in Handler :
        (\A g \in Handler \ {h} : requests'[g].kind = "idle")
            /\ AddsUp(requests'[h], row', worker', Refs') => StateAddsUp'
<1>1. \A h \in Handler :
        (\A g \in Handler \ {h} : requests[g].kind = "idle") /\ lost = 0 /\ failures = 0
            /\ StateAddsUp => AddsUp(requests[h], row, worker, Refs)
  <2>1. lost = 0 /\ failures = 0 => lost + failures = 0
    OBVIOUS
  <2> QED BY <2>1 DEF StateAddsUp, AddsUp
<1>2. \A h \in Handler :
        (\A g \in Handler \ {h} : requests'[g].kind = "idle")
            /\ AddsUp(requests'[h], row', worker', Refs') => StateAddsUp'
  BY DEF StateAddsUp, AddsUp
<1> QED BY <1>1, <1>2

LEMMA StateAddsUpNext == InvResearch /\ NextResearch => StateAddsUp'
<1> SUFFICES ASSUME InvResearch, NextResearch, lost' = 0, failures' = 0 PROVE StateAddsUp'
  <2>1. InvResearch /\ NextResearch => lost' \in Nat /\ failures' \in Nat
    BY TypeNextResearch DEF TypeOKResearch
  <2>2. InvResearch /\ NextResearch => (lost' + failures' = 0 => lost' = 0 /\ failures' = 0)
    BY <2>1, NoneOfEither
  <2> QED BY <2>2 DEF StateAddsUp
<1>1. /\ TypeOKResearch /\ RequestsAreShaped /\ OneIsAwaited /\ StateAddsUp
      /\ ReadingsAreGrounded /\ worker \in Jobs /\ row \in Row
  BY DEF InvResearch, TypeOKResearch, Jobs
<1>2. lost = 0 /\ failures = 0
  BY CountsOnlyGrow
<1>3. \A h \in Handler : /\ requests[h] \in Request /\ Shaped(requests[h])
                         /\ Matches(requests[h], worker, lost)
  BY <1>1 DEF TypeOKResearch, RequestsAreShaped, OneIsAwaited, Matches
<1>4. ASSUME NEW h \in Handler, requests[h].kind # "idle" \/ ~Waiting
      PROVE  \A g \in Handler \ {h} : requests[g].kind = "idle"
  BY <1>1, <1>2, <1>3, <1>4, Alone DEF Waiting, Matches
<1>5. ASSUME NEW h \in Handler, Moves(h), requests[h].kind # "idle" \/ ~Waiting,
             AddsUp(requests[h], row, worker, Refs) => AddsUp(requests'[h], row', worker', Refs')
      PROVE  StateAddsUp'
  <2>1. \A g \in Handler \ {h} : requests[g].kind = "idle" /\ requests'[g].kind = "idle"
    BY <1>4, <1>5 DEF Moves
  <2>2. AddsUp(requests[h], row, worker, Refs)
    BY <1>1, <1>2, <2>1, AddsUpAlone
  <2> QED BY <1>5, <2>1, <2>2, AddsUpAlone
<1>6. CASE ToggleExternal \/ ApproveRun \/ LoopEnds
  <2>1. /\ requests' = requests /\ row' = row /\ retrieved' = retrieved
        /\ worker'.iterations = worker.iterations
        /\ worker'.at = worker.at \/ {worker.at, worker'.at} \cap {"step"} = {}
    <3>1. run.status = "proposed" => worker.at = "none"
      BY DEF InvResearch, RunFollowsWorker
    <3> QED BY <1>1, <1>6, <3>1, QuietStepDoes
  <2>2. Refs' = Refs
    BY <2>1 DEF Refs
  <2>3. lost + failures = 0
    BY <1>2
  <2>4. worker'.at = "step" <=> worker.at = "step"
    BY <2>1
  <2> QED BY <1>1, <2>1, <2>2, <2>3, <2>4 DEF StateAddsUp
<1>7. ASSUME NEW h \in Handler, AskStep(h) PROVE StateAddsUp'
  <2>1. /\ Moves(h) /\ requests[h].kind = "idle" /\ requests'[h] = NewStep /\ worker.at = "loop"
        /\ worker'.at = "step" /\ worker'.iterations = worker.iterations + 1
        /\ row' = row /\ retrieved' = retrieved
    BY <1>1, <1>7, AskStepDoes
  <2>2. ~Waiting
    BY <1>3, <2>1 DEF Waiting, Matches
  <2>3. Refs' = Refs /\ worker.iterations \in Nat
    BY <1>1, <2>1 DEF Refs, Jobs
  <2>4. AddsUp(requests[h], row, worker, Refs) => AddsUp(requests'[h], row', worker', Refs')
    BY <2>1, <2>3, NewFields DEF AddsUp
  <2> QED BY <1>5, <2>1, <2>2, <2>4
<1>8. ASSUME NEW h \in Handler, SendRequest(h) PROVE StateAddsUp'
  <2>1. /\ Moves(h) /\ requests[h].kind = "idle" /\ ~Waiting /\ worker.outcome \in Outcome
        /\ worker'.at = worker.at /\ row' = row /\ retrieved' = retrieved
    BY <1>1, <1>8, SendRequestDoes DEF SameJob, TypeOKResearch
  <2>2. worker'.iterations = worker.iterations
    BY <1>1, <1>8 DEF SendRequest, Jobs
  <2>3. requests'[h].kind = "step" => requests'[h].at = "begin"
    BY <1>1, <1>8, <2>1, SendRequestDoes, NewFields
  <2>4. Refs' = Refs
    BY <2>1 DEF Refs
  <2>5. AddsUp(requests[h], row, worker, Refs) => AddsUp(requests'[h], row', worker', Refs')
    BY <2>1, <2>2, <2>3, <2>4 DEF AddsUp
  <2> QED BY <1>5, <2>1, <2>5
<1>9. ASSUME NEW h \in Handler, TimeOut(h) \/ StepFails(h) \/ ReviewFails(h) PROVE FALSE
  BY <1>1, <1>2, <1>9, TimeOutDoes, StepFailsDoes, ReviewFailsDoes
<1>10. ASSUME NEW h \in Handler, BeginStep(h) PROVE StateAddsUp'
  <2>1. /\ Moves(h) /\ requests[h].kind = "step" /\ requests[h].at = "begin"
        /\ row' = BeginGeneralRun /\ worker' = worker /\ retrieved' = retrieved
        /\ requests'[h].at # "begin" /\ requests'[h].read = row' /\ requests'[h].kind = "step"
        /\ requests'[h].new = requests[h].new
    BY <1>1, <1>10, BeginStepDoes DEF SamePlace
  <2>2. row'.steps = row.steps /\ row'.sources = row.sources
    BY <1>1, <2>1, PinnedIs
  <2>3. Refs' = Refs /\ requests[h].new \subseteq Refs
    BY <1>1, <2>1 DEF Refs, ReadingsAreGrounded, Reads
  <2>4. AddsUp(requests[h], row, worker, Refs) => AddsUp(requests'[h], row', worker', Refs')
    BY <2>1, <2>2, <2>3 DEF AddsUp
  <2> QED BY <1>5, <2>1, <2>4
<1>11. ASSUME NEW h \in Handler, FinishState(h) PROVE FALSE
  <2>1. requests[h].kind = "step" /\ requests[h].at = "finish"
    BY <1>1, <1>11, FinishStateDoes
  <2>2. requests[h].read.steps = MaxSteps /\ worker.at = "step"
    BY <1>2, <1>3, <2>1 DEF Shaped, Matches
  <2>3. AddsUp(requests[h], row, worker, Refs)
    BY <1>1, <1>2, <1>4, <2>1, AddsUpAlone
  <2>4. worker.iterations - 1 = MaxSteps /\ worker.iterations \in 0 .. MaxSteps
    BY <1>1, <2>1, <2>2, <2>3 DEF AddsUp, Jobs
  <2> QED BY <2>4, LimitsAreNatural
<1>12. ASSUME NEW h \in Handler, CallTool(h) PROVE StateAddsUp'
  <2>1. PICK c \in Lookup, refs \in SUBSET Ref :
            requests'[h].new = requests[h].new \cup refs /\ PersistSources(c, refs)
    BY <1>1, <1>12, CallToolDoes
  <2>2. /\ Moves(h) /\ requests[h].kind = "step" /\ requests[h].at = "work"
        /\ requests'[h].kind = "step" /\ requests'[h].at = "work"
        /\ requests'[h].read = requests[h].read /\ row' = row /\ worker' = worker
    BY <1>1, <1>12, CallToolDoes DEF SamePlace
  <2>3. Refs' = Refs \cup refs
    BY <1>1, <2>1, SourcesAreRecordedOnce
  <2>4. AddsUp(requests[h], row, worker, Refs) => AddsUp(requests'[h], row', worker', Refs')
    BY <2>1, <2>2, <2>3 DEF AddsUp
  <2> QED BY <1>5, <2>2, <2>4
<1>13. ASSUME NEW h \in Handler, StoreArtefact(h) PROVE StateAddsUp'
  <2>1. /\ Moves(h) /\ requests[h].kind = "step" /\ requests[h].at = "work"
        /\ requests'[h].kind = "step" /\ requests'[h].at = "work"
        /\ requests'[h].read = requests[h].read /\ requests'[h].new = requests[h].new
        /\ row' = row /\ worker' = worker /\ retrieved' = retrieved
    BY <1>1, <1>13, StoreArtefactDoes DEF SamePlace
  <2>2. Refs' = Refs
    BY <2>1 DEF Refs
  <2>3. AddsUp(requests[h], row, worker, Refs) => AddsUp(requests'[h], row', worker', Refs')
    BY <2>1, <2>2 DEF AddsUp
  <2> QED BY <1>5, <2>1, <2>3
<1>14. ASSUME NEW h \in Handler, PersistStep(h) PROVE StateAddsUp'
  <2>1. /\ Moves(h) /\ requests[h].kind = "step" /\ requests[h].at = "work"
        /\ requests'[h] = IdleHandler /\ retrieved' = retrieved
        /\ row'.sources = requests[h].read.sources \cup requests[h].new
        /\ row'.steps = requests[h].read.steps + 1
    BY <1>1, <1>14, PersistStepDoes
  <2>2. requests[h].waiting /\ worker.at = "step"
    BY <1>2, <1>3, <2>1 DEF Matches
  <2>3. worker'.iterations = worker.iterations /\ worker'.at # "step"
    BY <1>1, <1>14, <2>2, PersistStepDoes
  <2>4. Refs' = Refs /\ row.steps \in Nat /\ worker.iterations \in Nat
    BY <1>1, <2>1, LimitsAreNatural DEF Refs, Jobs, Row
  <2>5. AddsUp(requests[h], row, worker, Refs) => AddsUp(requests'[h], row', worker', Refs')
    BY <2>1, <2>2, <2>3, <2>4, NewFields DEF AddsUp
  <2> QED BY <1>5, <2>1, <2>5
<1>15. ASSUME NEW h \in Handler, Moves(h), requests[h].kind \in {"review", "complete"},
              requests'[h].kind # "step", row' = row, retrieved' = retrieved,
              worker'.iterations = worker.iterations,
              worker'.at = worker.at \/ worker'.at \in {"report", "finished"}
       PROVE  StateAddsUp'
  <2>1. Refs' = Refs /\ worker.at # "step"
    BY <1>2, <1>3, <1>15 DEF Refs, Matches
  <2>2. AddsUp(requests[h], row, worker, Refs) => AddsUp(requests'[h], row', worker', Refs')
    BY <1>15, <2>1 DEF AddsUp
  <2> QED BY <1>5, <1>15, <2>2
<1>16. ASSUME NEW h \in Handler, ReviewAcceptance(h) PROVE StateAddsUp'
  BY <1>1, <1>15, <1>16, ReviewAcceptanceDoes DEF SamePlace
<1>17. ASSUME NEW h \in Handler, PersistReview(h) PROVE StateAddsUp'
  <2>1. requests'[h].kind # "step" /\ requests[h].kind \in {"review", "complete"}
    BY <1>1, <1>17, PersistReviewDoes, NewFields DEF SamePlace
  <2>2. /\ worker'.iterations = worker.iterations
        /\ worker'.at = worker.at \/ worker'.at \in {"report", "finished"}
    BY <1>1, <1>17, PersistReviewDoes
  <2> QED BY <1>1, <1>15, <1>17, <2>1, <2>2, PersistReviewDoes
<1>18. ASSUME NEW h \in Handler, Remediate(h) \/ NoteRemediation(h) PROVE StateAddsUp'
  <2>1. /\ Moves(h) /\ requests[h].at = "remedy" /\ SamePlace(requests[h], requests'[h])
        /\ row' = row /\ retrieved' = retrieved /\ worker' = worker
    BY <1>1, <1>18, RemediateDoes, NoteRemediationDoes
  <2>2. requests[h].kind = "review"
    BY <1>3, <2>1, KindsAre
  <2> QED BY <1>15, <2>1, <2>2 DEF SamePlace
<1>19. ASSUME NEW h \in Handler, CloseRun(h) PROVE StateAddsUp'
  BY <1>1, <1>15, <1>19, CloseRunDoes, NewFields
<1> QED BY <1>6, <1>7, <1>8, <1>9, <1>10, <1>11, <1>12, <1>13, <1>14, <1>16, <1>17, <1>18, <1>19,
           StepCases

-----------------------------------------------------------------------------
(* What the lookups cost.                                                  *)

(* The tokens in one place: as many as are left there. *)
Column(i, n) == {t \in (0 .. MaxRequests) \X (1 .. MaxToolCalls) : t[1] = i /\ t[2] <= n}

LEMMA ColumnCounts ==
  ASSUME NEW i \in 0 .. MaxRequests, NEW n \in 0 .. MaxToolCalls
  PROVE  IsFiniteSet(Column(i, n)) /\ Cardinality(Column(i, n)) = n
<1>1. n \in Nat /\ MaxToolCalls \in Nat /\ n <= MaxToolCalls
  BY LimitsAreNatural
<1> DEFINE f == [j \in 1 .. n |-> <<i, j>>]
<1>2. \A j \in 1 .. n : f[j] = <<i, j>> /\ f[j] \in Column(i, n)
  BY <1>1 DEF Column
<1>3. \A j, k \in 1 .. n : f[j] = f[k] => j = k
  BY <1>2
<1>4. \A t \in Column(i, n) : t[2] \in 1 .. n /\ t = f[t[2]]
  BY <1>1 DEF Column
<1>5. f \in [1 .. n -> Column(i, n)]
  BY <1>2
<1> HIDE DEF f
<1>6. f \in Bijection(1 .. n, Column(i, n))
  BY <1>3, <1>4, <1>5 DEF Bijection, Injection, Surjection, IsInjective
<1>7. ExistsBijection(1 .. n, Column(i, n))
  BY <1>6 DEF ExistsBijection
<1>8. IsFiniteSet(1 .. n) /\ Cardinality(1 .. n) = n
  BY <1>1, FS_Interval
<1> QED BY <1>7, <1>8, FS_Bijection

LeftMap == [0 .. MaxRequests -> 0 .. MaxToolCalls]

LEMMA TokensAreFinite ==
  ASSUME NEW left \in LeftMap
  PROVE  IsFiniteSet(Tokens(left)) /\ Cardinality(Tokens(left)) \in Nat
<1>1. IsFiniteSet(0 .. MaxRequests) /\ IsFiniteSet(1 .. MaxToolCalls)
  BY LimitsAreNatural, FS_Interval
<1>2. IsFiniteSet((0 .. MaxRequests) \X (1 .. MaxToolCalls))
  BY <1>1, FS_Product
<1>3. Tokens(left) \subseteq (0 .. MaxRequests) \X (1 .. MaxToolCalls)
  BY DEF Tokens
<1>4. IsFiniteSet(Tokens(left))
  BY <1>2, <1>3, FS_Subset
<1> QED BY <1>4, FS_CardinalityType

LEMMA TokensOfOne ==
  ASSUME NEW left \in LeftMap, NEW less \in LeftMap, NEW i \in 0 .. MaxRequests,
         \A j \in (0 .. MaxRequests) \ {i} : less[j] = left[j]
  PROVE  Cardinality(Tokens(less)) = Cardinality(Tokens(left)) - left[i] + less[i]
<1> DEFINE others == {t \in Tokens(left) : t[1] # i}
<1>1. left[i] \in 0 .. MaxToolCalls /\ less[i] \in 0 .. MaxToolCalls
  BY DEF LeftMap
<1>2. Tokens(left) = others \cup Column(i, left[i])
  BY DEF Tokens, Column
<1>3. Tokens(less) = others \cup Column(i, less[i])
  BY DEF Tokens, Column
<1>4. others \cap Column(i, left[i]) = {} /\ others \cap Column(i, less[i]) = {}
  BY DEF Column
<1>5. others \subseteq Tokens(left)
  OBVIOUS
<1> HIDE DEF others
<1>6. IsFiniteSet(others) /\ Cardinality(others) \in Nat
  BY <1>5, TokensAreFinite, FS_Subset, FS_CardinalityType
<1>7. /\ IsFiniteSet(Column(i, left[i])) /\ Cardinality(Column(i, left[i])) = left[i]
      /\ IsFiniteSet(Column(i, less[i])) /\ Cardinality(Column(i, less[i])) = less[i]
  BY <1>1, ColumnCounts
<1>8. Cardinality(Tokens(left)) = Cardinality(others) + left[i] - Cardinality({})
  BY <1>2, <1>4, <1>6, <1>7, FS_Union
<1>9. Cardinality(Tokens(less)) = Cardinality(others) + less[i] - Cardinality({})
  BY <1>3, <1>4, <1>6, <1>7, FS_Union
<1> QED BY <1>1, <1>6, <1>8, <1>9, FS_EmptySet

LEMMA TokensOfTwo ==
  ASSUME NEW left \in LeftMap, NEW less \in LeftMap, NEW h \in Handler,
         \A j \in Handler \ {h} : less[j] = left[j]
  PROVE  Cardinality(Tokens(less)) =
           Cardinality(Tokens(left)) - left[0] - left[h] + less[0] + less[h]
<1> DEFINE mid == [left EXCEPT ![h] = less[h]]
<1>1. /\ 0 \in 0 .. MaxRequests /\ h \in 0 .. MaxRequests /\ h # 0
      /\ \A j \in 0 .. MaxRequests : j = 0 \/ j \in Handler
  BY LimitsAreNatural DEF Handler
<1>2. /\ mid \in LeftMap /\ mid[h] = less[h] /\ mid[0] = left[0]
      /\ \A j \in (0 .. MaxRequests) \ {h} : mid[j] = left[j]
  BY <1>1 DEF LeftMap
<1> HIDE DEF mid
<1>3. \A j \in (0 .. MaxRequests) \ {0} : less[j] = mid[j]
  BY <1>1, <1>2
<1>4. Cardinality(Tokens(mid)) = Cardinality(Tokens(left)) - left[h] + mid[h]
  BY <1>1, <1>2, TokensOfOne
<1>5. Cardinality(Tokens(less)) = Cardinality(Tokens(mid)) - mid[0] + less[0]
  BY <1>1, <1>2, <1>3, TokensOfOne
<1>6. /\ left[h] \in Int /\ left[0] \in Int /\ less[h] \in Int /\ less[0] \in Int
  BY <1>1, LimitsAreNatural DEF LeftMap
<1>7. Cardinality(Tokens(left)) \in Nat /\ Cardinality(Tokens(mid)) \in Nat
  BY <1>2, TokensAreFinite
<1> QED BY <1>2, <1>4, <1>5, <1>6, <1>7

LEMMA SumIsNatural == \A l, f \in Nat : l + f \in Nat
OBVIOUS

LEMMA BudgetOfOneMore ==
  \A m, n, k \in Nat : k = n + 1 => m * (1 + k) = m * (1 + n) + m
OBVIOUS

LEMMA RestIsLimited ==
  /\ \A n \in Nat : Rest(n) \in 0 .. MaxToolCalls /\ Rest(n + 1) <= Rest(n)
  /\ \A n \in Nat : n < MaxToolCalls => Rest(n + 1) + 1 = Rest(n)
BY LimitsAreNatural DEF Rest

Lends(r) == r.waiting /\ r.kind = "step" /\ r.at # "begin"

LEMMA LeftIs ==
  ASSUME TypeOKResearch
  PROVE  /\ Left \in LeftMap
         /\ Left[0] = IF RowIsLent THEN 0 ELSE Rest(row.calls)
         /\ \A h \in Handler : Left[h] = LeftOf(requests[h])
<1>1. row.calls \in Nat /\ \A h \in Handler : requests[h].calls \in Nat
  BY DEF TypeOKResearch, Request, Row
<1>2. \A h \in Handler : LeftOf(requests[h]) \in 0 .. MaxToolCalls
  BY <1>1, RestIsLimited, LimitsAreNatural DEF LeftOf
<1>3. (IF RowIsLent THEN 0 ELSE Rest(row.calls)) \in 0 .. MaxToolCalls
  BY <1>1, RestIsLimited, LimitsAreNatural
<1>4. /\ 0 \in 0 .. MaxRequests /\ \A h \in Handler : h \in 0 .. MaxRequests /\ h # 0
      /\ \A j \in 0 .. MaxRequests : j = 0 \/ j \in Handler
  BY LimitsAreNatural DEF Handler
<1> QED BY <1>2, <1>3, <1>4 DEF Left, LeftMap

LEMMA LeftNextIs ==
  ASSUME TypeOKResearch'
  PROVE  /\ Left' \in LeftMap
         /\ Left'[0] = IF RowIsLent' THEN 0 ELSE Rest(row'.calls)
         /\ \A h \in Handler : Left'[h] = LeftOf(requests'[h])
<1>1. row'.calls \in Nat /\ \A h \in Handler : requests'[h].calls \in Nat
  BY DEF TypeOKResearch, Request, Row
<1>2. \A h \in Handler : LeftOf(requests'[h]) \in 0 .. MaxToolCalls
  BY <1>1, RestIsLimited, LimitsAreNatural DEF LeftOf
<1>3. (IF RowIsLent' THEN 0 ELSE Rest(row'.calls)) \in 0 .. MaxToolCalls
  BY <1>1, RestIsLimited, LimitsAreNatural
<1>4. /\ 0 \in 0 .. MaxRequests /\ \A h \in Handler : h \in 0 .. MaxRequests /\ h # 0
      /\ \A j \in 0 .. MaxRequests : j = 0 \/ j \in Handler
  BY LimitsAreNatural DEF Handler
<1> QED BY <1>2, <1>3, <1>4 DEF Left, LeftMap

(* Who has the row. *)
LEMMA LentIs ==
  ASSUME TypeOKResearch, NEW h \in Handler, Moves(h)
  PROVE  /\ Lends(requests'[h]) <=> Lends(requests[h]) => (RowIsLent' <=> RowIsLent)
         /\ requests[h].waiting \/ ~Waiting =>
               /\ RowIsLent <=> Lends(requests[h])
               /\ RowIsLent' <=> Lends(requests'[h])
<1>1. /\ RowIsLent <=> \E g \in Handler : Lends(requests[g])
      /\ RowIsLent' <=> \E g \in Handler : Lends(requests'[g])
  BY DEF RowIsLent, Lends
<1>2. (Lends(requests'[h]) <=> Lends(requests[h])) => (RowIsLent' <=> RowIsLent)
  BY <1>1 DEF Moves
<1>3. ASSUME requests[h].waiting \/ ~Waiting
      PROVE  (RowIsLent <=> Lends(requests[h])) /\ (RowIsLent' <=> Lends(requests'[h]))
  <2>1. \A g \in Handler \ {h} : ~requests[g].waiting
    BY <1>3 DEF TypeOKResearch, Waiting
  <2> QED BY <1>1, <2>1 DEF Moves, Lends
<1> QED BY <1>2, <1>3

(* What one request's move costs, against the tokens it gives back. *)
LEMMA LookupsAreKept ==
  ASSUME InvResearch, NextResearch, NEW h \in Handler, Moves(h),
         LET x  == Left[0] + Left[h]
             y  == Left'[0] + Left'[h]
         IN  \/ lost' + failures' = lost + failures /\ made' + y <= made + x
             \/ lost' + failures' = lost + failures + 1 /\ made' + y <= made + x + MaxToolCalls
  PROVE  LookupsAreBudgeted'
<1> DEFINE x == Left[0] + Left[h]
           y == Left'[0] + Left'[h]
           spent == lost + failures
           spending == lost' + failures'
           tokens == Cardinality(Tokens(Left))
           others == Cardinality(Tokens(Left'))
<1>1. TypeOKResearch /\ TypeOKResearch'
  BY TypeNextResearch DEF InvResearch
<1>2. /\ Left \in LeftMap /\ Left' \in LeftMap
      /\ \A g \in Handler \ {h} : Left'[g] = Left[g]
  BY <1>1, LeftIs, LeftNextIs DEF Moves
<1>3. 0 \in 0 .. MaxRequests /\ h \in 0 .. MaxRequests
  BY LimitsAreNatural DEF Handler
<1>4. /\ Left[0] \in Int /\ Left[h] \in Int /\ Left'[0] \in Int /\ Left'[h] \in Int
  BY <1>2, <1>3, LimitsAreNatural DEF LeftMap
<1>5. others = tokens - Left[0] - Left[h] + Left'[0] + Left'[h]
  BY <1>2, TokensOfTwo
<1>6. tokens \in Nat /\ others \in Nat
  BY <1>2, TokensAreFinite
<1>7. /\ made \in Nat /\ made' \in Nat /\ lost \in Nat /\ lost' \in Nat
      /\ failures \in Nat /\ failures' \in Nat
  BY <1>1 DEF TypeOKResearch
<1>8. x \in Int /\ y \in Int /\ others = tokens + y - x
  BY <1>4, <1>5, <1>6
<1>9. spent \in Nat /\ spending \in Nat
  BY <1>7, SumIsNatural
<1>10. 1 + lost + failures = 1 + spent /\ 1 + lost' + failures' = 1 + spending
  BY <1>7
<1>11. made + tokens <= MaxToolCalls * (1 + spent)
  BY <1>10 DEF InvResearch, LookupsAreBudgeted
<1>12. \/ spending = spent /\ made' + y <= made + x
       \/ spending = spent + 1 /\ made' + y <= made + x + MaxToolCalls
  OBVIOUS
<1>13. (LookupsAreBudgeted)' <=> made' + others <= MaxToolCalls * (1 + spending)
  BY <1>10 DEF LookupsAreBudgeted, Tokens
<1> HIDE DEF x, y, spent, spending, tokens, others
<1>14. made' + others <= MaxToolCalls * (1 + spending)
  <2> DEFINE budget == MaxToolCalls * (1 + spent)
             allowed == MaxToolCalls * (1 + spending)
  <2>1. budget \in Int /\ allowed \in Int /\ MaxToolCalls \in Nat
    BY <1>9, LimitsAreNatural
  <2>2. spending = spent => allowed = budget
    OBVIOUS
  <2>3. spending = spent + 1 => allowed = budget + MaxToolCalls
    BY <1>9, <2>1, BudgetOfOneMore
  <2>4. made + tokens <= budget
    BY <1>11
  <2> HIDE DEF budget, allowed
  <2>5. made' + others <= allowed
    <3>1. ASSUME NEW m \in Int, NEW n \in Int, NEW o \in Int, NEW t \in Int,
                 NEW p \in Int, NEW q \in Int, NEW b \in Int, NEW c \in Int,
                 m = made, n = made', o = others, t = tokens, p = x, q = y,
                 b = budget, c = allowed
          PROVE  n + o <= c
      <4>1. \/ c = b /\ n + q <= m + p
            \/ c = b + MaxToolCalls /\ n + q <= m + p + MaxToolCalls
        BY <1>12, <2>2, <2>3, <3>1
      <4>2. m + t <= b
        BY <2>4, <3>1
      <4>3. o = t + q - p
        BY <1>8, <3>1
      <4> QED BY <2>1, <4>1, <4>2, <4>3
    <3>2. /\ made \in Int /\ made' \in Int /\ others \in Int /\ tokens \in Int
          /\ x \in Int /\ y \in Int /\ budget \in Int /\ allowed \in Int
      BY <1>6, <1>7, <1>8, <2>1
    <3> QED BY <3>1, <3>2, Zenon
  <2> QED BY <2>5 DEF allowed
<1> QED BY <1>13, <1>14

LEMMA LookupsNext == InvResearch /\ NextResearch => LookupsAreBudgeted'
<1> SUFFICES ASSUME InvResearch, NextResearch PROVE LookupsAreBudgeted'
  OBVIOUS
<1>1. /\ TypeOKResearch /\ TypeOKResearch' /\ RequestsAreShaped /\ OneIsAwaited
      /\ row \in Row /\ row.calls \in Nat /\ row'.calls \in Nat
      /\ made \in Nat /\ lost \in Nat /\ failures \in Nat
  BY TypeNextResearch DEF InvResearch, TypeOKResearch, Row
<1>2. \A h \in Handler : /\ requests[h] \in Request /\ Shaped(requests[h])
                         /\ requests[h].calls \in Nat /\ requests[h].read.calls \in Nat
                         /\ Matches(requests[h], worker, lost)
  BY ZenonT(60), <1>1 DEF TypeOKResearch, RequestsAreShaped, Request, Row, OneIsAwaited, Matches
<1>3. /\ Left[0] = IF RowIsLent THEN 0 ELSE Rest(row.calls)
      /\ Left'[0] = IF RowIsLent' THEN 0 ELSE Rest(row'.calls)
      /\ \A h \in Handler : Left[h] = LeftOf(requests[h]) /\ Left'[h] = LeftOf(requests'[h])
  BY <1>1, LeftIs, LeftNextIs
<1>4. /\ MaxToolCalls \in Nat
      /\ \A n \in Nat : /\ Rest(n) \in Nat /\ Rest(n) <= MaxToolCalls
                        /\ Rest(n + 1) \in Nat /\ Rest(n + 1) <= Rest(n)
      /\ \A n \in Nat : n < MaxToolCalls => Rest(n + 1) + 1 = Rest(n)
  BY RestIsLimited, LimitsAreNatural
<1>5. \A h \in Handler : Left[h] \in Nat /\ Left[0] \in Nat
  BY <1>1, <1>2, <1>3, <1>4 DEF LeftOf
(* Nothing about the row or the request's claim to it changes. *)
<1>6. ASSUME NEW h \in Handler, Moves(h), row' = row, made' = made,
             Lends(requests'[h]) <=> Lends(requests[h]),
             LeftOf(requests'[h]) = LeftOf(requests[h]),
             \/ lost' = lost /\ failures' = failures
             \/ lost' = lost + 1 /\ failures' = failures
             \/ lost' = lost /\ failures' = failures + 1
      PROVE  LookupsAreBudgeted'
  <2>1. Left'[0] = Left[0] /\ Left'[h] = Left[h]
    BY <1>1, <1>3, <1>6, LentIs
  <2>2. made' + (Left'[0] + Left'[h]) <= made + (Left[0] + Left[h])
    BY <1>1, <1>5, <1>6, <2>1
  <2>3. made' + (Left'[0] + Left'[h]) <= made + (Left[0] + Left[h]) + MaxToolCalls
    BY <1>1, <1>4, <1>5, <1>6, <2>1
  <2>4. lost' + failures' = lost + failures \/ lost' + failures' = lost + failures + 1
    BY <1>1, <1>6
  <2> QED BY <1>6, <2>2, <2>3, <2>4, LookupsAreKept
<1>7. ASSUME NEW h \in Handler, Moves(h), requests[h].kind # "step", requests'[h].kind # "step",
             row' = row, made' = made,
             \/ lost' = lost /\ failures' = failures
             \/ lost' = lost + 1 /\ failures' = failures
             \/ lost' = lost /\ failures' = failures + 1
      PROVE  LookupsAreBudgeted'
  <2>1. LeftOf(requests'[h]) = LeftOf(requests[h]) /\ ~Lends(requests[h]) /\ ~Lends(requests'[h])
    BY <1>7 DEF LeftOf, Lends
  <2> QED BY <1>6, <1>7, <2>1
<1>8. CASE ToggleExternal \/ ApproveRun \/ LoopEnds
  <2>1. /\ requests' = requests /\ row' = row /\ made' = made /\ lost' = lost
        /\ failures' = failures
    BY <1>1, <1>8, QuietStepDoes
  <2>2. Left' = Left
    BY <2>1 DEF Left, RowIsLent
  <2> QED BY <2>1, <2>2 DEF InvResearch, LookupsAreBudgeted, Tokens
<1>9. ASSUME NEW h \in Handler, AskStep(h) \/ SendRequest(h) PROVE LookupsAreBudgeted'
  <2>1. /\ Moves(h) /\ requests[h].kind = "idle" /\ row' = row /\ made' = made
        /\ lost' = lost /\ failures' = failures
        /\ \/ requests'[h] = NewStep \/ \E time \in BOOLEAN : requests'[h] = NewReview(time)
           \/ requests'[h] = NewReport(worker.outcome)
    BY <1>1, <1>9, AskStepDoes, SendRequestDoes
  <2>2. worker.outcome \in Outcome
    BY <1>1 DEF TypeOKResearch
  <2>3. LeftOf(requests'[h]) = 0 /\ ~Lends(requests'[h])
    BY <2>1, <2>2, NewFields DEF LeftOf, Lends
  <2>4. LeftOf(requests[h]) = 0 /\ ~Lends(requests[h])
    BY <2>1 DEF LeftOf, Lends
  <2> QED BY <1>6, <2>1, <2>3, <2>4
<1>10. ASSUME NEW h \in Handler, TimeOut(h) PROVE LookupsAreBudgeted'
  <2>1. /\ Moves(h) /\ requests[h].waiting /\ ~requests'[h].waiting
        /\ requests'[h].kind = requests[h].kind /\ requests'[h].at = requests[h].at
        /\ requests'[h].calls = requests[h].calls
        /\ row' = row /\ made' = made /\ lost' = lost + 1 /\ failures' = failures
    BY <1>1, <1>10, TimeOutDoes DEF SameWork
  <2>2. /\ RowIsLent <=> Lends(requests[h])
        /\ RowIsLent' <=> Lends(requests'[h])
    BY <1>1, <2>1, LentIs
  <2>3. Left'[0] = Rest(row.calls) /\ ~Lends(requests'[h])
    BY <1>3, <2>1, <2>2 DEF Lends
  <2>4. CASE Lends(requests[h])
    <3>1. Left[0] = 0 /\ Left'[h] = Left[h]
      BY <1>3, <2>1, <2>2, <2>4 DEF LeftOf, Lends
    <3>2. made' + (Left'[0] + Left'[h]) <= made + (Left[0] + Left[h]) + MaxToolCalls
      BY <1>1, <1>4, <1>5, <2>1, <2>3, <3>1
    <3>3. lost' + failures' = lost + failures + 1
      BY <1>1, <2>1
    <3> QED BY <2>1, <3>2, <3>3, LookupsAreKept
  <2>5. CASE ~Lends(requests[h])
    <3>1. Left'[0] = Left[0] /\ Left[h] = 0
      BY <1>3, <2>1, <2>2, <2>3, <2>5 DEF LeftOf, Lends
    <3>2. Left'[h] \in Nat /\ Left'[h] <= MaxToolCalls
      BY <1>2, <1>3, <1>4, <2>1 DEF LeftOf
    <3>3. made' + (Left'[0] + Left'[h]) <= made + (Left[0] + Left[h]) + MaxToolCalls
      BY <1>1, <1>4, <1>5, <2>1, <3>1, <3>2
    <3>4. lost' + failures' = lost + failures + 1
      BY <1>1, <2>1
    <3> QED BY <2>1, <3>3, <3>4, LookupsAreKept
  <2> QED BY <2>4, <2>5
<1>11. ASSUME NEW h \in Handler, BeginStep(h) PROVE LookupsAreBudgeted'
  <2>1. /\ Moves(h) /\ requests[h].kind = "step" /\ requests[h].at = "begin"
        /\ requests'[h].kind = "step" /\ requests'[h].at # "begin"
        /\ requests'[h].waiting = requests[h].waiting
        /\ row' = BeginGeneralRun /\ requests'[h].calls = row'.calls
        /\ made' = made /\ lost' = lost /\ failures' = failures
    BY <1>1, <1>11, BeginStepDoes DEF SamePlace
  <2>2. row'.calls = row.calls
    BY <1>1, <2>1, PinnedIs
  <2>3. Left'[h] = Rest(row.calls)
    BY <1>3, <2>1, <2>2 DEF LeftOf
  <2>4. CASE requests[h].waiting
    <3>1. ~RowIsLent /\ RowIsLent'
      BY <1>1, <2>1, <2>4, LentIs DEF Lends
    <3>2. Left[0] = Rest(row.calls) /\ Left[h] = 0 /\ Left'[0] = 0
      BY <1>3, <2>1, <2>4, <3>1 DEF LeftOf
    <3>3. made' + (Left'[0] + Left'[h]) <= made + (Left[0] + Left[h])
      BY <1>1, <1>4, <2>1, <2>3, <3>2
    <3> QED BY <2>1, <3>3, LookupsAreKept
  <2>5. CASE ~requests[h].waiting
    <3>1. RowIsLent' <=> RowIsLent
      BY <1>1, <2>1, <2>5, LentIs DEF Lends
    <3>2. Left'[0] = Left[0] /\ Left[h] = MaxToolCalls
      BY <1>3, <2>1, <2>2, <2>5, <3>1 DEF LeftOf
    <3>3. made' + (Left'[0] + Left'[h]) <= made + (Left[0] + Left[h])
      BY <1>1, <1>4, <1>5, <2>1, <2>3, <3>2
    <3> QED BY <2>1, <3>3, LookupsAreKept
  <2> QED BY <2>4, <2>5
<1>12. ASSUME NEW h \in Handler, FinishState(h) \/ PersistStep(h) PROVE LookupsAreBudgeted'
  <2>1. /\ Moves(h) /\ requests[h].kind = "step" /\ requests[h].at # "begin"
        /\ requests'[h] = IdleHandler
        /\ made' = made /\ lost' = lost /\ failures' = failures
    BY <1>1, <1>12, FinishStateDoes, PersistStepDoes
  <2>2. row'.calls = requests[h].calls
    BY <1>1, <1>2, <1>12, FinishStateDoes, PersistStepDoes DEF Shaped
  <2>3. Left'[h] = 0 /\ Left[h] = Rest(requests[h].calls) /\ ~Lends(requests'[h])
    BY <1>3, <2>1, NewFields DEF LeftOf, Lends
  <2>4. CASE requests[h].waiting
    <3>1. RowIsLent /\ ~RowIsLent'
      BY <1>1, <2>1, <2>3, <2>4, LentIs DEF Lends
    <3>2. Left[0] = 0 /\ Left'[0] = Rest(requests[h].calls)
      BY <1>3, <2>2, <3>1
    <3>3. made' + (Left'[0] + Left'[h]) <= made + (Left[0] + Left[h])
      BY <1>1, <1>2, <1>4, <2>1, <2>3, <3>2
    <3> QED BY <2>1, <3>3, LookupsAreKept
  <2>5. CASE ~requests[h].waiting
    <3>1. RowIsLent' <=> RowIsLent
      BY <1>1, <2>1, <2>3, <2>5, LentIs DEF Lends
    <3>2. Left'[0] = 0 \/ Left'[0] = Rest(requests[h].calls)
      BY <1>3, <2>2
    <3>3. made' + (Left'[0] + Left'[h]) <= made + (Left[0] + Left[h])
      BY <1>1, <1>2, <1>4, <1>5, <2>1, <2>3, <3>2
    <3> QED BY <2>1, <3>3, LookupsAreKept
  <2> QED BY <2>4, <2>5
<1>13. ASSUME NEW h \in Handler, StepFails(h) PROVE LookupsAreBudgeted'
  <2>1. /\ Moves(h) /\ requests'[h] = IdleHandler /\ row' = row
        /\ made' = made /\ lost' = lost /\ failures' = failures + 1
    BY <1>1, <1>13, StepFailsDoes
  <2>2. Left'[h] = 0 /\ (Left'[0] = 0 \/ Left'[0] = Rest(row.calls))
    BY <1>3, <2>1, NewFields DEF LeftOf
  <2>3. made' + (Left'[0] + Left'[h]) <= made + (Left[0] + Left[h]) + MaxToolCalls
    BY <1>1, <1>4, <1>5, <2>1, <2>2
  <2>4. lost' + failures' = lost + failures + 1
    BY <1>1, <2>1
  <2> QED BY <2>1, <2>3, <2>4, LookupsAreKept
<1>14. ASSUME NEW h \in Handler, CallTool(h) PROVE LookupsAreBudgeted'
  <2>1. /\ Moves(h) /\ requests[h].kind = "step" /\ requests[h].at = "work"
        /\ requests'[h].kind = "step" /\ requests'[h].at = "work"
        /\ requests'[h].waiting = requests[h].waiting
        /\ requests'[h].calls = requests[h].calls + 1
        /\ made' = made \/ (requests[h].calls < MaxToolCalls /\ made' = made + 1)
        /\ row' = row /\ lost' = lost /\ failures' = failures
    BY <1>1, <1>14, CallToolDoes DEF SamePlace
  <2>2. RowIsLent' <=> RowIsLent
    BY <1>1, <2>1, LentIs DEF Lends
  <2>3. /\ Left'[0] = Left[0] /\ Left[h] = Rest(requests[h].calls)
        /\ Left'[h] = Rest(requests[h].calls + 1)
    BY <1>3, <2>1, <2>2 DEF LeftOf
  <2>4. /\ Left[h] \in Nat /\ Left'[h] \in Nat /\ Left'[h] <= Left[h]
        /\ requests[h].calls < MaxToolCalls => Left'[h] + 1 = Left[h]
    BY <1>2, <1>4, <2>3
  <2>5. made' + (Left'[0] + Left'[h]) <= made + (Left[0] + Left[h])
    BY <1>1, <1>5, <2>1, <2>3, <2>4
  <2>6. lost' + failures' = lost + failures
    BY <2>1
  <2> QED BY <2>1, <2>5, <2>6, LookupsAreKept
<1>15. ASSUME NEW h \in Handler, StoreArtefact(h) PROVE LookupsAreBudgeted'
  <2>1. /\ Moves(h) /\ SamePlace(requests[h], requests'[h]) /\ requests'[h].at = requests[h].at
        /\ requests'[h].calls = requests[h].calls
        /\ made' = made /\ row' = row /\ lost' = lost
        /\ failures' = failures \/ failures' = failures + 1
    BY <1>1, <1>15, StoreArtefactDoes
  <2>2. /\ LeftOf(requests'[h]) = LeftOf(requests[h])
        /\ Lends(requests'[h]) <=> Lends(requests[h])
    BY <2>1 DEF SamePlace, LeftOf, Lends
  <2> QED BY <1>6, <2>1, <2>2
<1>16. ASSUME NEW h \in Handler, ReviewAcceptance(h) PROVE LookupsAreBudgeted'
  BY <1>1, <1>7, <1>16, ReviewAcceptanceDoes DEF SamePlace
<1>17. ASSUME NEW h \in Handler, PersistReview(h) PROVE LookupsAreBudgeted'
  <2>1. requests'[h].kind # "step" /\ requests[h].kind # "step"
    BY <1>1, <1>17, PersistReviewDoes, NewFields DEF SamePlace
  <2> QED BY <1>1, <1>7, <1>17, <2>1, PersistReviewDoes
<1>18. ASSUME NEW h \in Handler, Remediate(h) \/ NoteRemediation(h) PROVE LookupsAreBudgeted'
  <2>1. /\ Moves(h) /\ requests[h].at = "remedy" /\ SamePlace(requests[h], requests'[h])
        /\ row' = row /\ made' = made /\ lost' = lost /\ failures' = failures
    BY <1>1, <1>18, RemediateDoes, NoteRemediationDoes
  <2>2. requests[h].kind = "review"
    BY <1>2, <2>1, KindsAre
  <2> QED BY <1>7, <2>1, <2>2 DEF SamePlace
<1>19. ASSUME NEW h \in Handler, ReviewFails(h) PROVE LookupsAreBudgeted'
  <2>1. requests'[h].kind # "step" /\ requests[h].kind # "step"
    BY <1>1, <1>19, ReviewFailsDoes, NewFields DEF SamePlace
  <2> QED BY <1>1, <1>7, <1>19, <2>1, ReviewFailsDoes
<1>20. ASSUME NEW h \in Handler, CloseRun(h) PROVE LookupsAreBudgeted'
  BY <1>1, <1>7, <1>20, CloseRunDoes, NewFields
<1> QED BY <1>8, <1>9, <1>10, <1>11, <1>12, <1>13, <1>14, <1>15, <1>16, <1>17, <1>18, <1>19,
           <1>20, StepCases

-----------------------------------------------------------------------------
(* What the remediation passes cost.                                       *)

(* A review the worker waits for that cannot begin a pass. *)
Blocks(r) == r.waiting /\ r.kind = "review" /\ ~IsFresh(r)

Loose(r) == IsFresh(r) /\ ~r.waiting

LEMMA FreshIs ==
  /\ Fresh \subseteq 0 .. MaxRequests /\ Fresh' \subseteq 0 .. MaxRequests
  /\ 0 \in Fresh <=> /\ worker.at \notin {"report", "finished"}
                     /\ \A h \in Handler : ~Blocks(requests[h])
  /\ 0 \in Fresh' <=> /\ worker'.at \notin {"report", "finished"}
                      /\ \A h \in Handler : ~Blocks(requests'[h])
  /\ \A h \in Handler : /\ h \in Fresh <=> Loose(requests[h])
                        /\ h \in Fresh' <=> Loose(requests'[h])
<1>1. /\ 0 \in 0 .. MaxRequests /\ \A h \in Handler : h \in 0 .. MaxRequests /\ h # 0
  BY LimitsAreNatural DEF Handler
<1> QED BY <1>1 DEF Fresh, Blocks, Loose

LEMMA FreshIsFinite ==
  /\ IsFiniteSet(Fresh) /\ Cardinality(Fresh) \in Nat
  /\ IsFiniteSet(Fresh') /\ Cardinality(Fresh') \in Nat
<1>1. IsFiniteSet(0 .. MaxRequests)
  BY FS_Interval, LimitsAreNatural
<1>2. IsFiniteSet(Fresh) /\ IsFiniteSet(Fresh')
  BY <1>1, FreshIs, FS_Subset
<1> QED BY <1>2, FS_CardinalityType

(* Only the moving request's place and the worker's own can change. *)
LEMMA FreshMoves ==
  ASSUME NEW h \in Handler, Moves(h)
  PROVE  /\ (Loose(requests'[h]) => Loose(requests[h]))
            => Fresh' \subseteq Fresh \cup {0}
         /\ (0 \in Fresh' => 0 \in Fresh) => Fresh' \subseteq Fresh \cup {h}
         /\ (Loose(requests'[h]) => Loose(requests[h])) /\ (0 \in Fresh' => 0 \in Fresh)
            => Fresh' \subseteq Fresh
<1>1. \A g \in 0 .. MaxRequests : g = 0 \/ g \in Handler
  BY LimitsAreNatural DEF Handler
<1>2. \A g \in Handler \ {h} : g \in Fresh' => g \in Fresh
  BY FreshIs DEF Moves
<1>3. h \in Fresh' /\ (Loose(requests'[h]) => Loose(requests[h])) => h \in Fresh
  BY FreshIs
<1>4. \A g \in Fresh' : g = 0 \/ g = h \/ g \in Fresh
  BY <1>1, <1>2, FreshIs
<1> QED BY <1>3, <1>4

LEMMA PassesAreKept ==
  ASSUME InvResearch, TypeOKResearch', passes' = passes,
         \/ /\ Fresh' \subseteq Fresh
            /\ \/ lost' = lost /\ failures' = failures
               \/ lost' = lost + 1 /\ failures' = failures
               \/ lost' = lost /\ failures' = failures + 1
         \/ /\ \E i : Fresh' \subseteq Fresh \cup {i}
            /\ \/ lost' = lost + 1 /\ failures' = failures
               \/ lost' = lost /\ failures' = failures + 1
  PROVE  PassesAreBudgeted'
<1>1. passes \in Nat /\ lost \in Nat /\ failures \in Nat
  BY DEF InvResearch, TypeOKResearch
<1>2. /\ IsFiniteSet(Fresh) /\ Cardinality(Fresh) \in Nat /\ Cardinality(Fresh') \in Nat
      /\ passes + Cardinality(Fresh) <= 1 + lost + failures
  BY FreshIsFinite DEF InvResearch, PassesAreBudgeted
<1>3. CASE Fresh' \subseteq Fresh
  <2>1. Cardinality(Fresh') <= Cardinality(Fresh)
    BY <1>2, <1>3, FS_Subset
  <2>2. \/ lost' = lost /\ failures' = failures
        \/ lost' = lost + 1 /\ failures' = failures
        \/ lost' = lost /\ failures' = failures + 1
    OBVIOUS
  <2>3. passes' + Cardinality(Fresh') <= 1 + lost' + failures'
    BY <1>1, <1>2, <2>1, <2>2
  <2> QED BY <2>3 DEF PassesAreBudgeted
<1>4. CASE ~(Fresh' \subseteq Fresh)
  <2>1. PICK i : Fresh' \subseteq Fresh \cup {i}
    BY <1>4
  <2>2. IsFiniteSet(Fresh \cup {i}) /\ Cardinality(Fresh \cup {i}) <= Cardinality(Fresh) + 1
    <3>1. /\ IsFiniteSet(Fresh \cup {i})
          /\ Cardinality(Fresh \cup {i}) =
                IF i \in Fresh THEN Cardinality(Fresh) ELSE Cardinality(Fresh) + 1
      BY <1>2, FS_AddElement
    <3> QED BY <1>2, <3>1
  <2>3. Cardinality(Fresh \cup {i}) \in Nat
    BY <2>2, FS_CardinalityType
  <2>4. Cardinality(Fresh') <= Cardinality(Fresh) + 1
    <3>1. Cardinality(Fresh') <= Cardinality(Fresh \cup {i})
      BY <2>1, <2>2, FS_Subset
    <3> QED BY <1>2, <2>2, <2>3, <3>1
  <2>5. lost' + failures' = lost + failures + 1 /\ 1 + lost' + failures' = 1 + lost + failures + 1
    BY <1>1, <1>4
  <2>6. passes' + Cardinality(Fresh') <= 1 + lost' + failures'
    BY <1>1, <1>2, <2>4, <2>5
  <2> QED BY <2>6 DEF PassesAreBudgeted
<1> QED BY <1>3, <1>4

LEMMA PassIsPaid ==
  ASSUME InvResearch, passes' = passes + 1, lost' = lost, failures' = failures,
         NEW i \in Fresh, Fresh' \subseteq Fresh \ {i}
  PROVE  PassesAreBudgeted'
<1>1. passes \in Nat /\ lost \in Nat /\ failures \in Nat
  BY DEF InvResearch, TypeOKResearch
<1>2. /\ IsFiniteSet(Fresh) /\ Cardinality(Fresh) \in Nat /\ Cardinality(Fresh') \in Nat
      /\ passes + Cardinality(Fresh) <= 1 + lost + failures
  BY FreshIsFinite DEF InvResearch, PassesAreBudgeted
<1>3. IsFiniteSet(Fresh \ {i}) /\ Cardinality(Fresh \ {i}) = Cardinality(Fresh) - 1
  BY <1>2, FS_RemoveElement
<1>4. Cardinality(Fresh') <= Cardinality(Fresh) - 1
  BY <1>3, FS_Subset
<1>5. passes' + Cardinality(Fresh') <= 1 + lost' + failures'
  BY <1>1, <1>2, <1>4
<1> QED BY <1>5 DEF PassesAreBudgeted

(* The worker's own place: what can give it back. *)
LEMMA OwnPlace ==
  ASSUME TypeOKResearch, OneIsAwaited, NEW h \in Handler, Moves(h)
  PROVE  /\ requests[h].waiting \/ ~Waiting =>
               /\ 0 \in Fresh <=> /\ worker.at \notin {"report", "finished"}
                                  /\ ~Blocks(requests[h])
               /\ 0 \in Fresh' <=> /\ worker'.at \notin {"report", "finished"}
                                   /\ ~Blocks(requests'[h])
         /\ worker' = worker /\ (Blocks(requests[h]) => Blocks(requests'[h])) =>
               (0 \in Fresh' => 0 \in Fresh)
<1>1. ASSUME requests[h].waiting \/ ~Waiting
      PROVE  \A g \in Handler \ {h} : ~Blocks(requests[g]) /\ ~Blocks(requests'[g])
  <2>1. \A g \in Handler \ {h} : ~requests[g].waiting
    BY <1>1 DEF TypeOKResearch, Waiting
  <2> QED BY <2>1 DEF Moves, Blocks
<1>2. ASSUME requests[h].waiting \/ ~Waiting
      PROVE  /\ 0 \in Fresh <=> /\ worker.at \notin {"report", "finished"}
                                /\ ~Blocks(requests[h])
             /\ 0 \in Fresh' <=> /\ worker'.at \notin {"report", "finished"}
                                 /\ ~Blocks(requests'[h])
  BY <1>1, <1>2, FreshIs
<1>3. ASSUME worker' = worker, Blocks(requests[h]) => Blocks(requests'[h])
      PROVE  0 \in Fresh' => 0 \in Fresh
  BY <1>3, FreshIs DEF Moves
<1> QED BY <1>2, <1>3

LEMMA PassesNext == InvResearch /\ NextResearch => PassesAreBudgeted'
<1> SUFFICES ASSUME InvResearch, NextResearch PROVE PassesAreBudgeted'
  OBVIOUS
<1>1. TypeOKResearch /\ TypeOKResearch' /\ RequestsAreShaped /\ OneIsAwaited
  BY TypeNextResearch DEF InvResearch
<1>2. \A h \in Handler : /\ requests[h] \in Request /\ Shaped(requests[h])
                         /\ Matches(requests[h], worker, lost)
  BY <1>1 DEF TypeOKResearch, RequestsAreShaped, OneIsAwaited, Matches
(* The request's part in the reviews still to come does not grow, nor does the worker move. *)
<1>3. ASSUME NEW h \in Handler, Moves(h), worker' = worker, passes' = passes,
             Loose(requests'[h]) => Loose(requests[h]),
             Blocks(requests[h]) => Blocks(requests'[h]),
             \/ lost' = lost /\ failures' = failures
             \/ lost' = lost + 1 /\ failures' = failures
             \/ lost' = lost /\ failures' = failures + 1
      PROVE  PassesAreBudgeted'
  <2>1. Fresh' \subseteq Fresh
    BY <1>1, <1>3, OwnPlace, FreshMoves
  <2> QED BY <1>1, <1>3, <2>1, PassesAreKept
<1>4. CASE ToggleExternal \/ ApproveRun \/ LoopEnds
  <2>1. /\ requests' = requests /\ passes' = passes /\ lost' = lost /\ failures' = failures
        /\ worker'.at \notin {"report", "finished"} => worker.at \notin {"report", "finished"}
    <3>1. run.status = "proposed" => worker.at = "none"
      BY DEF InvResearch, RunFollowsWorker
    <3> QED BY <1>1, <1>4, <3>1, QuietStepDoes
  <2>2. Fresh' \subseteq Fresh
    BY <2>1 DEF Fresh
  <2> QED BY <1>1, <2>1, <2>2, PassesAreKept
<1>5. ASSUME NEW h \in Handler, AskStep(h) \/ SendRequest(h) PROVE PassesAreBudgeted'
  <2>1. /\ Moves(h) /\ requests[h].kind = "idle" /\ passes' = passes
        /\ lost' = lost /\ failures' = failures
        /\ \/ requests'[h] = NewStep \/ \E time \in BOOLEAN : requests'[h] = NewReview(time)
           \/ requests'[h] = NewReport(worker.outcome)
        /\ worker'.at \notin {"report", "finished"} => worker.at \notin {"report", "finished"}
    BY <1>1, <1>5, AskStepDoes, SendRequestDoes DEF SameJob
  <2>2. ~Waiting
    <3>1. CASE AskStep(h)
      BY <1>1, <1>2, <3>1, AskStepDoes DEF Waiting, Matches
    <3>2. CASE SendRequest(h)
      BY <1>1, <3>2, SendRequestDoes
    <3> QED BY <1>5, <3>1, <3>2
  <2>3. requests'[h].waiting /\ ~Blocks(requests[h])
    <3>1. worker.outcome \in Outcome
      BY <1>1 DEF TypeOKResearch
    <3> QED BY <2>1, <3>1, NewFields DEF Blocks
  <2>4. Fresh' \subseteq Fresh
    BY <1>1, <2>1, <2>2, <2>3, OwnPlace, FreshMoves DEF Loose
  <2> QED BY <1>1, <2>1, <2>4, PassesAreKept
<1>6. ASSUME NEW h \in Handler, TimeOut(h) PROVE PassesAreBudgeted'
  <2>1. /\ Moves(h) /\ requests[h].waiting /\ ~requests'[h].waiting
        /\ requests'[h].kind = requests[h].kind /\ requests'[h].at = requests[h].at
        /\ requests'[h].second = requests[h].second
        /\ worker' \in Jobs /\ GivesUp(worker, worker')
        /\ passes' = passes /\ lost' = lost + 1 /\ failures' = failures
    BY <1>1, <1>6, TimeOutDoes DEF SameVerdict
  <2>2. /\ 0 \in Fresh <=> worker.at \notin {"report", "finished"} /\ ~Blocks(requests[h])
        /\ 0 \in Fresh' <=> worker'.at \notin {"report", "finished"} /\ ~Blocks(requests'[h])
    BY <1>1, <2>1, OwnPlace
  <2>3. CASE Blocks(requests[h])
    <3>1. ~Loose(requests'[h])
      BY <2>1, <2>3 DEF Blocks, Loose, IsFresh
    <3>2. Fresh' \subseteq Fresh \cup {0}
      BY <2>1, <3>1, FreshMoves
    <3> QED BY <1>1, <2>1, <3>2, PassesAreKept
  <2>4. CASE ~Blocks(requests[h])
    <3>1. 0 \in Fresh' => 0 \in Fresh
      BY <2>1, <2>2, <2>4 DEF GivesUp
    <3>2. Fresh' \subseteq Fresh \cup {h}
      BY <2>1, <3>1, FreshMoves
    <3> QED BY <1>1, <2>1, <3>2, PassesAreKept
  <2> QED BY <2>3, <2>4
<1>7. ASSUME NEW h \in Handler, BeginStep(h) \/ CallTool(h) \/ StoreArtefact(h)
      PROVE  PassesAreBudgeted'
  <2>1. /\ Moves(h) /\ requests[h].kind = "step" /\ requests'[h].kind = "step"
        /\ worker' = worker /\ passes' = passes /\ lost' = lost
        /\ failures' = failures \/ failures' = failures + 1
    BY <1>1, <1>7, BeginStepDoes, CallToolDoes, StoreArtefactDoes DEF SamePlace
  <2>2. ~Loose(requests'[h]) /\ ~Blocks(requests[h])
    BY <2>1 DEF Loose, Blocks, IsFresh
  <2> QED BY <1>3, <2>1, <2>2
<1>8. ASSUME NEW h \in Handler, Moves(h), requests[h].kind = "step", requests'[h] = IdleHandler,
             requests[h].waiting \/ worker' = worker, passes' = passes, lost' = lost,
             failures' = failures \/ failures' = failures + 1
      PROVE  PassesAreBudgeted'
  <2>1. ~Loose(requests'[h]) /\ ~Blocks(requests[h])
    BY <1>8, NewFields DEF Loose, Blocks, IsFresh
  <2>2. CASE requests[h].waiting
    <3>1. worker.at = "step"
      BY <1>2, <1>8, <2>2 DEF Matches
    <3>2. 0 \in Fresh
      BY <1>1, <1>8, <2>1, <2>2, <3>1, OwnPlace
    <3>3. Fresh' \subseteq Fresh
      BY <1>8, <2>1, <3>2, FreshMoves
    <3> QED BY <1>1, <1>8, <3>3, PassesAreKept
  <2>3. CASE worker' = worker
    BY <1>3, <1>8, <2>1, <2>3
  <2> QED BY <1>8, <2>2, <2>3
<1>9. ASSUME NEW h \in Handler, FinishState(h) \/ PersistStep(h) \/ StepFails(h)
      PROVE  PassesAreBudgeted'
  <2>1. /\ Moves(h) /\ requests[h].kind = "step" /\ requests'[h] = IdleHandler
        /\ requests[h].waiting \/ worker' = worker
        /\ passes' = passes /\ lost' = lost
        /\ failures' = failures \/ failures' = failures + 1
    BY <1>1, <1>9, FinishStateDoes, PersistStepDoes, StepFailsDoes
  <2> QED BY <1>8, <2>1
<1>10. ASSUME NEW h \in Handler, ReviewAcceptance(h) PROVE PassesAreBudgeted'
  <2>1. /\ Moves(h) /\ SamePlace(requests[h], requests'[h]) /\ requests[h].at = "evidence"
        /\ requests'[h].at = "persist" /\ requests'[h].second = requests[h].second
        /\ worker' = worker /\ passes' = passes /\ lost' = lost /\ failures' = failures
    BY <1>1, <1>10, ReviewAcceptanceDoes
  <2>2. /\ Loose(requests'[h]) => Loose(requests[h])
        /\ Blocks(requests[h]) => Blocks(requests'[h])
    BY <2>1 DEF Loose, Blocks, IsFresh, SamePlace
  <2> QED BY <1>3, <2>1, <2>2
<1>11. ASSUME NEW h \in Handler, PersistReview(h) PROVE PassesAreBudgeted'
  <2>1. Moves(h) /\ requests[h].at = "persist" /\ lost' = lost /\ failures' = failures
    BY <1>1, <1>11, PersistReviewDoes
  <2>2. CASE requests[h].kind = "complete"
    <3>1. SamePlace(requests[h], requests'[h]) /\ worker' = worker /\ passes' = passes
      BY <1>1, <1>11, <2>2, PersistReviewDoes
    <3>2. ~Loose(requests'[h]) /\ ~Blocks(requests[h])
      BY <2>2, <3>1 DEF Loose, Blocks, IsFresh, SamePlace
    <3> QED BY <1>3, <2>1, <3>1, <3>2
  <2>3. CASE /\ requests[h].kind = "review" /\ ~requests[h].second
             /\ requests'[h].at = "remedy" /\ SamePlace(requests[h], requests'[h])
             /\ worker' = worker /\ passes' = passes + 1
    <3>1. IsFresh(requests[h]) /\ ~IsFresh(requests'[h])
      BY <2>1, <2>3 DEF IsFresh
    <3>2. CASE requests[h].waiting
      <4>1. worker.at = "review" /\ ~Blocks(requests[h]) /\ Blocks(requests'[h])
        BY <1>2, <2>3, <3>1, <3>2 DEF Matches, Blocks, SamePlace
      <4>2. 0 \in Fresh /\ 0 \notin Fresh' /\ ~Loose(requests'[h])
        BY <1>1, <2>1, <3>1, <3>2, <4>1, OwnPlace DEF Loose
      <4>3. Fresh' \subseteq Fresh \ {0}
        BY <2>1, <4>2, FreshMoves
      <4> QED BY <2>1, <2>3, <4>2, <4>3, PassIsPaid
    <3>3. CASE ~requests[h].waiting
      <4>1. h \in Fresh /\ h \notin Fresh' /\ ~Loose(requests'[h])
        BY <3>1, <3>3, FreshIs DEF Loose
      <4>2. 0 \in Fresh' => 0 \in Fresh
        BY <1>1, <2>1, <2>3, <3>3, OwnPlace DEF Blocks
      <4>3. Fresh' \subseteq Fresh \ {h}
        BY <2>1, <4>1, <4>2, FreshMoves
      <4> QED BY <2>1, <2>3, <4>1, <4>3, PassIsPaid
    <3> QED BY <3>2, <3>3
  <2>4. CASE /\ requests[h].kind = "review" /\ requests'[h] = IdleHandler /\ passes' = passes
             /\ IF requests[h].waiting THEN worker'.at = "report" ELSE worker' = worker
    <3>1. ~Loose(requests'[h])
      BY <2>4, NewFields DEF Loose, IsFresh
    <3>2. 0 \in Fresh' => 0 \in Fresh
      <4>1. CASE requests[h].waiting
        BY <2>4, <4>1, FreshIs
      <4>2. CASE ~requests[h].waiting
        BY <1>1, <2>1, <2>4, <4>2, OwnPlace DEF Blocks
      <4> QED BY <4>1, <4>2
    <3>3. Fresh' \subseteq Fresh
      BY <2>1, <3>1, <3>2, FreshMoves
    <3> QED BY <1>1, <2>1, <2>4, <3>3, PassesAreKept
  <2> QED BY <1>1, <1>11, <2>2, <2>3, <2>4, PersistReviewDoes
<1>12. ASSUME NEW h \in Handler, Remediate(h) \/ NoteRemediation(h) PROVE PassesAreBudgeted'
  <2>1. /\ Moves(h) /\ SamePlace(requests[h], requests'[h]) /\ requests[h].at = "remedy"
        /\ requests'[h].at = "remedy" \/ requests'[h].second
        /\ worker' = worker /\ passes' = passes /\ lost' = lost /\ failures' = failures
    BY <1>1, <1>12, RemediateDoes, NoteRemediationDoes
  <2>2. ~IsFresh(requests[h]) /\ ~IsFresh(requests'[h])
    BY <2>1 DEF IsFresh
  <2>3. /\ ~Loose(requests'[h])
        /\ Blocks(requests[h]) => Blocks(requests'[h])
    BY <2>1, <2>2 DEF Loose, Blocks, SamePlace
  <2> QED BY <1>3, <2>1, <2>3
<1>13. ASSUME NEW h \in Handler, ReviewFails(h) PROVE PassesAreBudgeted'
  <2>1. Moves(h) /\ passes' = passes /\ lost' = lost /\ failures' = failures + 1
    BY <1>1, <1>13, ReviewFailsDoes
  <2>2. ~Loose(requests'[h])
    BY <1>1, <1>13, ReviewFailsDoes, NewFields DEF Loose, IsFresh, SamePlace
  <2>3. Fresh' \subseteq Fresh \cup {0}
    BY <2>1, <2>2, FreshMoves
  <2> QED BY <1>1, <2>1, <2>3, PassesAreKept
<1>14. ASSUME NEW h \in Handler, CloseRun(h) PROVE PassesAreBudgeted'
  <2>1. /\ Moves(h) /\ requests[h].kind = "complete" /\ requests'[h] = IdleHandler
        /\ passes' = passes /\ lost' = lost /\ failures' = failures
        /\ IF requests[h].waiting THEN worker'.at = "finished" ELSE worker' = worker
    BY <1>1, <1>14, CloseRunDoes
  <2>2. ~Loose(requests'[h]) /\ ~Blocks(requests[h])
    BY <2>1, NewFields DEF Loose, Blocks, IsFresh
  <2>3. 0 \in Fresh' => 0 \in Fresh
    BY <1>1, <2>1, <2>2, FreshIs, OwnPlace
  <2>4. Fresh' \subseteq Fresh
    BY <2>1, <2>2, <2>3, FreshMoves
  <2> QED BY <1>1, <2>1, <2>4, PassesAreKept
<1> QED BY <1>4, <1>5, <1>6, <1>7, <1>9, <1>10, <1>11, <1>12, <1>13, <1>14, StepCases

-----------------------------------------------------------------------------
(* The run is honest.                                                      *)

LEMMA InitInvResearch == InitResearch => InvResearch
<1> SUFFICES ASSUME InitResearch PROVE InvResearch
  OBVIOUS
<1>1. /\ TypeOKResearch /\ row = NoRow /\ retrieved = {} /\ artefacts = <<>>
      /\ run.status = "proposed"
      /\ worker.at = "none" /\ worker.iterations = 0 /\ worker.created = 0
      /\ worker.outcome = "none" /\ made = 0 /\ passes = 0 /\ lost = 0 /\ failures = 0
      /\ \A h \in Handler : requests[h] = IdleHandler
  BY InitTypeOK DEF InitResearch
<1>2. \A h \in Handler :
        /\ requests[h].kind = "idle" /\ requests[h].at = "idle" /\ ~requests[h].waiting
        /\ requests[h].stored = 0 /\ requests[h].read = NoRow
        /\ requests[h].new = {} /\ requests[h].hosts = {}
  BY <1>1, NewFields
<1>3. Refs = {} /\ SearchResultHosts = {}
  BY <1>1 DEF Refs, SearchResultHosts
<1>4. /\ row.sources = {} /\ row.findings = {} /\ row.steps = 0 /\ row.calls = 0
      /\ NoRow.sources = {} /\ NoRow.findings = {}
  BY <1>1 DEF NoRow
<1>5. RequestsAreShaped
  BY <1>1, <1>2 DEF RequestsAreShaped, Shaped
<1>6. OneIsAwaited
  BY <1>2 DEF OneIsAwaited
<1>7. RunFollowsWorker
  <2>1. brief # {}
    BY DEF InitResearch, DeriveCriteria
  <2> QED BY <1>1, <1>2, <2>1 DEF RunFollowsWorker, Terminal
<1>8. ReadingsAreGrounded
  BY <1>2, <1>3, <1>4, FS_EmptySet DEF ReadingsAreGrounded, Reads
<1>9. FindingsAreGrounded
  BY <1>1, <1>4 DEF FindingsAreGrounded
<1>10. DeliveryIsCounted
  BY <1>1, <1>2 DEF DeliveryIsCounted
<1>11. VerdictsHold
  BY <1>2 DEF VerdictsHold
<1>12. OutcomeIsHonest
  BY <1>1 DEF OutcomeIsHonest
<1>13. LookupsAreBudgeted
  <2>1. /\ Left \in LeftMap /\ ~RowIsLent /\ Left[0] = Rest(0)
        /\ \A h \in Handler : Left[h] = 0
    BY <1>1, <1>2, <1>4, LeftIs DEF LeftOf, RowIsLent
  <2>2. Left[0] = MaxToolCalls /\ MaxToolCalls \in 0 .. MaxToolCalls
    BY <2>1, LimitsAreNatural DEF Rest
  <2>3. \A i \in 0 .. MaxRequests : i = 0 \/ i \in Handler
    BY LimitsAreNatural DEF Handler
  <2>4. Tokens(Left) = Column(0, MaxToolCalls)
    <3>1. \A t \in (0 .. MaxRequests) \X (1 .. MaxToolCalls) :
            t[2] <= Left[t[1]] <=> t[1] = 0 /\ t[2] <= MaxToolCalls
      BY <2>1, <2>2, <2>3, LimitsAreNatural
    <3> QED BY <3>1 DEF Tokens, Column
  <2>5. Cardinality(Tokens(Left)) = MaxToolCalls
    BY <2>2, <2>4, ColumnCounts, LimitsAreNatural
  <2> QED BY <1>1, <2>5, LimitsAreNatural DEF LookupsAreBudgeted
<1>14. PassesAreBudgeted
  <2>1. \A i \in 0 .. MaxRequests : i = 0 \/ i \in Handler
    BY LimitsAreNatural DEF Handler
  <2>2. Fresh \subseteq {0}
    BY <1>2, <2>1, FreshIs DEF Loose, IsFresh
  <2>3. IsFiniteSet({0}) /\ Cardinality({0}) = 1
    BY FS_Singleton
  <2>4. Cardinality(Fresh) <= 1 /\ Cardinality(Fresh) \in Nat
    BY <2>2, <2>3, FS_Subset, FreshIsFinite
  <2> QED BY <1>1, <2>4 DEF PassesAreBudgeted
<1>15. StateAddsUp
  BY <1>1, <1>2, <1>3, <1>4 DEF StateAddsUp
<1> QED BY <1>1, <1>5, <1>6, <1>7, <1>8, <1>9, <1>10, <1>11, <1>12, <1>13, <1>14, <1>15
        DEF InvResearch

LEMMA InvResearchNext == InvResearch /\ [NextResearch]_researchVars => InvResearch'
<1>1. InvResearch /\ NextResearch => InvResearch'
  BY TypeNextResearch, ShapedNext, OneNext, FollowsNext, GroundingNext, DeliveryNext,
     VerdictsNext, HonestNext, LookupsNext, PassesNext, StateAddsUpNext DEF InvResearch, Grounding
<1>2. InvResearch /\ UNCHANGED researchVars => InvResearch'
  <2> SUFFICES ASSUME InvResearch, UNCHANGED researchVars PROVE InvResearch'
    OBVIOUS
  <2> USE DEF InvResearch, researchVars, serverVars, history
  <2>1. TypeOKResearch' /\ RequestsAreShaped'
    BY DEF TypeOKResearch, RequestsAreShaped, Shaped
  <2>2. OneIsAwaited' /\ RunFollowsWorker'
    BY DEF OneIsAwaited, RunFollowsWorker
  <2>3. ReadingsAreGrounded' /\ FindingsAreGrounded'
    BY DEF ReadingsAreGrounded, Reads, Established, FindingsAreGrounded, Refs, SearchResultHosts
  <2>4. DeliveryIsCounted' /\ VerdictsHold' /\ OutcomeIsHonest'
    BY DEF DeliveryIsCounted, VerdictsHold, OutcomeIsHonest, Gaps, Unmet, Refs
  <2>5. Left' = Left /\ Fresh' = Fresh
    BY DEF Left, RowIsLent, Fresh
  <2>6. LookupsAreBudgeted' /\ PassesAreBudgeted'
    BY <2>5 DEF LookupsAreBudgeted, PassesAreBudgeted, Tokens
  <2>7. StateAddsUp'
    BY DEF StateAddsUp, Refs
  <2> QED BY <2>1, <2>2, <2>3, <2>4, <2>6, <2>7
<1> QED BY <1>1, <1>2

LEMMA WorkIsCounted == InvResearch => WorkAddsUp
<1> SUFFICES ASSUME InvResearch PROVE WorkAddsUp
  OBVIOUS
<1>1. /\ TypeOKResearch /\ made \in Nat /\ passes \in Nat /\ lost \in Nat /\ failures \in Nat
      /\ worker \in Jobs /\ worker.iterations \in Int
  BY LimitsAreNatural DEF InvResearch, TypeOKResearch, Jobs
<1>2. made <= MaxToolCalls * (1 + lost + failures)
  <2>1. Cardinality(Tokens(Left)) \in Nat
    BY <1>1, LeftIs, TokensAreFinite
  <2> DEFINE budget == MaxToolCalls * (1 + lost + failures)
             tokens == Cardinality(Tokens(Left))
  <2>2. budget \in Int /\ tokens \in Nat
    BY <1>1, <2>1, LimitsAreNatural
  <2>3. made + tokens <= budget
    BY DEF InvResearch, LookupsAreBudgeted
  <2> HIDE DEF budget, tokens
  <2>4. made <= budget
    BY <1>1, <2>2, <2>3
  <2> QED BY <2>4 DEF budget
<1>3. passes <= 1 + lost + failures
  BY <1>1, FreshIsFinite DEF InvResearch, PassesAreBudgeted
<1>4. lost + failures = 0 /\ (\A h \in Handler : requests[h].kind # "step") =>
          /\ row.sources = Refs
          /\ worker.at # "step" => row.steps = worker.iterations
  <2> SUFFICES ASSUME lost + failures = 0, \A h \in Handler : requests[h].kind # "step"
               PROVE  /\ row.sources = Refs
                      /\ worker.at # "step" => row.steps = worker.iterations
    OBVIOUS
  <2>1. row.sources = Refs
    BY DEF InvResearch, StateAddsUp
  <2>2. row.steps = worker.iterations - (IF worker.at = "step" THEN 1 ELSE 0)
    BY DEF InvResearch, StateAddsUp
  <2>3. worker.at # "step" => row.steps = worker.iterations
    <3>1. worker.at # "step" => row.steps = worker.iterations - 0
      BY <2>2
    <3>2. worker.iterations - 0 = worker.iterations
      BY <1>1
    <3> QED BY <3>1, <3>2
  <2> QED BY <2>1, <2>3
<1> QED BY <1>2, <1>3, <1>4 DEF WorkAddsUp

LEMMA ResearchInvariance == SpecResearch => []InvResearch
BY InitInvResearch, InvResearchNext, PTL DEF SpecResearch

(* Type correctness.  No source is recorded twice and one answer is awaited, whatever the     *)
(* sources, the model's answers and the limits are, and however the requests interleave.      *)
THEOREM ResearchTypeCorrect == SpecResearch => []TypeOKResearch
<1>1. InvResearch => TypeOKResearch
  BY DEF InvResearch
<1> QED BY <1>1, ResearchInvariance, PTL

(* The status a run ends in says what it delivered, its established claims cite sources its   *)
(* own lookups returned, and its lookups, remediation passes and recorded state add up        *)
(* (runs.ts, completeRun; runner.ts, performResearchStep; research.ts, classifyFindings).     *)
THEOREM TheRunIsHonest == SpecResearch => []RunIsHonest
<1>1. InvResearch => RunIsHonest
  BY WorkIsCounted DEF InvResearch, RunIsHonest
<1> QED BY <1>1, ResearchInvariance, PTL
=============================================================================
