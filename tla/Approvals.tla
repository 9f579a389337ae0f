----------------------------- MODULE Approvals -----------------------------
(***************************************************************************)
(* Approval requests (services/approval-requests.ts, protocol              *)
(* approval-requests.ts): what is put to people to decide, about a brief   *)
(* or a run.  Raising reads what is pending and then supersedes it;        *)
(* deciding reads the request, passes the gate of the run in a transaction *)
(* of its own and then records the decision.  Runs are those of            *)
(* RunLifecycle, reduced to the approval gate.                             *)
(***************************************************************************)
EXTENDS Discovery

CONSTANTS
  Run,          \* runs of Task
  TaskOf,       \* the task of each run
  NoRun,        \* no run
  Terms,        \* the terms a page may raise a request on
  MaxRequests   \* bound: approval requests

ASSUME ApprovalsAssumption ==
  /\ TaskOf \in [Run -> Task] /\ NoRun \notin Run /\ MaxRequests \in Nat
  /\ Terms \subseteq [decidable : BOOLEAN, expiry : {"never", "later"}]

VARIABLES
  requests,    \* approval_requests, in the order they were raised
  gate,        \* runs.status, as far as the gate is concerned
  decisions    \* the approval_request.decided events: <<request, decision>>

approvalVars == <<requests, gate, decisions>>

STATES == {"pending", "approved", "rejected", "superseded", "expired"}

Request ==
  [task : Task, subject : {"brief", "run"}, version : 0..MaxBriefs, run : Run \cup {NoRun},
   state : STATES, decidable : BOOLEAN, expiry : {"never", "later", "past"}]
Requests == DOMAIN requests

TypeOKApprovals ==
  /\ requests \in Seq(Request) /\ Len(requests) <= MaxRequests
  /\ gate \in [Run -> {"draft", "awaiting_approval", "approved"}]
  /\ decisions \in Seq(Requests \X {"approve", "reject"})

InitApprovals ==
  /\ requests = <<>>
  /\ gate = [r \in Run |-> "awaiting_approval"]
  /\ decisions = <<>>

-----------------------------------------------------------------------------
(* createApprovalRequest.                                                  *)

PendingFor(t, subject) ==
  {i \in Requests : requests[i].task = t /\ requests[i].subject = subject
                    /\ requests[i].state = "pending"}

(* The page and Forja raise a request as such. *)
RaiseRequest(c, t, subject) ==
  /\ Human
  /\ IsIdle(c) /\ session[t].status # "none"
  /\ Len(requests) < MaxRequests
  /\ subject = "run" => \E r \in Run : TaskOf[r] = t
  /\ Goes(c, [Idle EXCEPT !.todo = <<"raise">>, !.task = t, !.subject = subject,
                          !.brief = session[t].brief])
  /\ UNCHANGED <<approvalVars, discoveryVars>>

(* A turn raises one about the brief, once there is one and nothing is left to ask. *)
InTurn(c) == calls[c].says # NoOne

RaiseSkips(c) ==
  /\ At(c, "raise", "start")
  /\ InTurn(c) /\ (calls[c].asks # NoOne \/ calls[c].brief = 0)
  /\ Done(c)
  /\ UNCHANGED <<approvalVars, discoveryVars, bounds>>

RaiseReads(c) ==
  /\ At(c, "raise", "start")
  /\ InTurn(c) => calls[c].asks = NoOne /\ calls[c].brief # 0
  /\ Goes(c, [calls[c] EXCEPT !.step = "read",
                              !.ids = PendingFor(calls[c].task, calls[c].subject)])
  /\ UNCHANGED <<approvalVars, discoveryVars, bounds>>

InTurnTerms == [decidable |-> TRUE, expiry |-> "never"]

SupersededBy(ids) ==
  [i \in Requests |-> IF i \in ids THEN [requests[i] EXCEPT !.state = "superseded"]
                      ELSE requests[i]]

(* The update names the ids that were read and does not look at their state again. *)
RaiseCommits(c) ==
  /\ At(c, "raise", "read")
  /\ Len(requests) < MaxRequests
  /\ \E run \in Run \cup {NoRun}, terms \in IF InTurn(c) THEN {InTurnTerms} ELSE Terms :
       /\ (run # NoRun) = (calls[c].subject = "run")
       /\ run # NoRun => TaskOf[run] = calls[c].task
       /\ requests' =
            Append(SupersededBy(calls[c].ids),
                   [task |-> calls[c].task, subject |-> calls[c].subject,
                    version |-> calls[c].brief, run |-> run, state |-> "pending",
                    decidable |-> terms.decidable, expiry |-> terms.expiry])
  /\ Done(c)
  /\ UNCHANGED <<gate, decisions, discoveryVars, bounds>>

-----------------------------------------------------------------------------
(* decideApprovalRequest.                                                  *)

DecisionRequest(c, i, decision) ==
  /\ Human
  /\ IsIdle(c) /\ i \in Requests
  /\ Goes(c, [Idle EXCEPT !.todo = <<"decide">>, !.request = i, !.decision = decision])
  /\ UNCHANGED <<approvalVars, discoveryVars>>

DecideReads(c) ==
  /\ At(c, "decide", "start")
  /\ LET r == requests[calls[c].request] IN
     IF r.state # "pending" \/ r.expiry = "past" \/ (calls[c].decision = "approve" /\ ~r.decidable)
     THEN Fails(c)
     ELSE Goes(c, [calls[c] EXCEPT !.step = "read"])
  /\ requests' = IF requests[calls[c].request].state = "pending"
                    /\ requests[calls[c].request].expiry = "past"
                 THEN [requests EXCEPT ![calls[c].request].state = "expired"] ELSE requests
  /\ UNCHANGED <<gate, decisions, discoveryVars, bounds>>

(* approveRun and rejectRun: a transaction of their own, which may refuse. *)
DecideGates(c) ==
  /\ At(c, "decide", "read")
  /\ LET run == requests[calls[c].request].run IN
     IF run = NoRun THEN Goes(c, [calls[c] EXCEPT !.step = "gated"]) /\ UNCHANGED gate
     ELSE \/ Fails(c) /\ UNCHANGED gate
          \/ /\ gate[run] = "awaiting_approval"
             /\ gate' = [gate EXCEPT ![run] = IF calls[c].decision = "approve" THEN "approved"
                                              ELSE "draft"]
             /\ Goes(c, [calls[c] EXCEPT !.step = "gated"])
  /\ UNCHANGED <<requests, decisions, discoveryVars, bounds>>

Unchecked(i) ==  \* mutant: the update does not ask for the state
  TRUE
StillPending(i) == requests[i].state = "pending"

DecideRecords(c) ==
  /\ At(c, "decide", "gated")
  /\ LET i == calls[c].request IN
     IF StillPending(i)
     THEN /\ requests' = [requests EXCEPT ![i].state = IF calls[c].decision = "approve"
                                                       THEN "approved" ELSE "rejected"]
          /\ decisions' = Append(decisions, <<i, calls[c].decision>>)
          /\ Done(c)
     ELSE Fails(c) /\ UNCHANGED <<requests, decisions>>
  /\ UNCHANGED <<gate, discoveryVars, bounds>>

-----------------------------------------------------------------------------
(* Time, the expiry sweep and the run's own page.                          *)

RequestExpires(i) ==
  /\ requests[i].expiry = "later"
  /\ requests' = [requests EXCEPT ![i].expiry = "past"]
  /\ UNCHANGED <<gate, decisions, discoveryVars, calls, bounds>>

ExpireStaleRequests ==
  LET stale == {i \in Requests : requests[i].state = "pending" /\ requests[i].expiry = "past"} IN
  /\ stale # {}
  /\ requests' = [i \in Requests |-> IF i \in stale THEN [requests[i] EXCEPT !.state = "expired"]
                                     ELSE requests[i]]
  /\ UNCHANGED <<gate, decisions, discoveryVars, calls, bounds>>

(* POST /api/runs/:id/approve and /submit. *)
RunPage(r, to) ==
  /\ Human
  /\ \/ to = "approved" /\ gate[r] = "awaiting_approval"
     \/ to = "awaiting_approval" /\ gate[r] = "draft"
  /\ gate' = [gate EXCEPT ![r] = to]
  /\ UNCHANGED <<requests, decisions, discoveryVars, calls>>

ApprovalStep(c) ==
  \/ RaiseSkips(c)
  \/ RaiseReads(c)
  \/ RaiseCommits(c)
  \/ DecideReads(c) \/ DecideGates(c) \/ DecideRecords(c)

ApprovalPage ==
  \/ \E c \in Caller, t \in Task, subject \in {"brief", "run"} : RaiseRequest(c, t, subject)
  \/ \E c \in Caller, i \in Requests, d \in {"approve", "reject"} : DecisionRequest(c, i, d)
  \/ \E i \in Requests : RequestExpires(i)
  \/ ExpireStaleRequests
  \/ \E r \in Run, to \in {"approved", "awaiting_approval"} : RunPage(r, to)
=============================================================================
