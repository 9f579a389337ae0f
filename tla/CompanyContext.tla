--------------------------- MODULE CompanyContext ---------------------------
(***************************************************************************)
(* The company context of apps/server/src/services/company-context: the     *)
(* mirror of the policy repository (git-provider.ts), the revisions that    *)
(* were validated (loader.ts), the status row and the document cache        *)
(* (service.ts), and the callers that want a revision to bind new work to.  *)
(*                                                                         *)
(* A caller reads the status row, talks to the remote and writes the row in *)
(* a later transaction with values from its first read; nothing serialises  *)
(* callers.  A commit is Sound when its manifest and every mandatory document *)
(* validate; a document that cannot be read counts as missing.             *)
(* Timestamps, hashes, audit rows and the failure counter are left out.     *)
(***************************************************************************)
EXTENDS Naturals

CONSTANTS
  Commits,      \* how many commits the governed branch moves between
  Sound,        \* the commits whose manifest and mandatory documents validate
  Caller,       \* requests in flight
  Operator      \* the callers that only refresh, at startup or by hand; the others start work

ASSUME ContextAssumption ==
  /\ Commits \in Nat \ {0} /\ Sound \subseteq 1..Commits
  /\ Operator \subseteq Caller /\ Operator # {}

NoCommit == 0
Commit == 1..Commits
Revision == Commit \cup {NoCommit}

VARIABLES
  remote,       \* the head of the governed branch, NoCommit while there is no such ref
  up,           \* all, or why git fails: the remote is out of reach, the mirror unreadable
  mirror,       \* the head of the local mirror, NoCommit before the first clone
  validation,   \* company_context_revisions.validation_state, per commit
  active,       \* company_context_status.active_revision_id
  status,       \* company_context_status.status
  enabled,      \* settings.companyContextEnabled
  cache,        \* documentCache: the commits whose documents are held
  quiet,        \* the remote was contacted within the quiet window
  call,         \* what each caller is doing
  bound         \* the revisions that work has been bound to

worldVars == <<remote, up>>
rowVars == <<validation, active, status>>
processVars == <<cache, quiet>>
vars == <<worldVars, mirror, rowVars, enabled, processVars, call, bound>>

STATUSES == {"disabled", "fresh", "cached", "stale", "invalid", "unavailable"}
USABLE == {"fresh", "cached", "stale"}

Steps == {"idle", "ensuring", "starting", "fetching", "heading", "loading", "unchanged",
          "loaded", "rejected", "failed"}
Idle == [at |-> "idle", purpose |-> "refresh", previous |-> NoCommit, head |-> NoCommit,
         wasValid |-> FALSE]

TypeOK ==
  /\ remote \in Revision /\ up \in {"all", "mirror", "remote"}
  /\ mirror \in Revision
  /\ validation \in [Commit -> {"none", "valid", "invalid"}]
  /\ active \in Revision /\ status \in STATUSES
  /\ enabled \in BOOLEAN /\ cache \subseteq Commit /\ quiet \in BOOLEAN
  /\ call \in [Caller -> [at : Steps, purpose : {"startup", "refresh", "work"}, previous : Revision, head : Revision,
                          wasValid : BOOLEAN]]
  /\ \A k \in Caller : call[k].at \in {"loading", "loaded"} => call[k].head # NoCommit
  /\ bound \subseteq Commit

reachable == up \in {"all", "remote"}
readable == up \in {"all", "mirror"}
Valid(c) == c # NoCommit /\ validation[c] = "valid"

(* The process refreshes once before it listens. *)
Booting == {[l \in Caller |-> IF l = k THEN [Idle EXCEPT !.at = "starting", !.purpose = "startup"]
                              ELSE Idle] : k \in Operator}
Listening == \A k \in Caller : call[k].purpose # "startup"

Init ==
  /\ remote = 1 /\ up = "all"
  /\ mirror = NoCommit
  /\ validation = [c \in Commit |-> "none"]
  /\ active = NoCommit /\ status = "disabled"
  /\ enabled = TRUE /\ cache = {} /\ quiet = FALSE
  /\ call \in Booting
  /\ bound = {}

Goes(k, step) == call' = [call EXCEPT ![k].at = step]
GoesWith(k, step, previous, head, wasValid) ==
  call' = [call EXCEPT ![k] = [Idle EXCEPT !.at = step, !.purpose = call[k].purpose,
                                           !.previous = previous, !.head = head,
                                           !.wasValid = wasValid]]
Finishes(k) == call' = [call EXCEPT ![k] = Idle]

(* requireActiveRevision ends: a valid revision is what the new work is bound to, anything
   else refuses it.  A refresh nobody needs a revision from just ends. *)
Answer(k, c, valid) ==
  /\ Finishes(k)
  /\ bound' = IF call[k].purpose = "work" /\ valid THEN bound \cup {c} ELSE bound

-----------------------------------------------------------------------------
(* The callers.                                                            *)

(* createRun, createCodingRun, startDiscovery and startSelectedTask; while the feature is
   off they bind nothing. *)
StartWork(k) ==
  /\ Listening /\ k \notin Operator /\ call[k].at = "idle" /\ enabled
  /\ call' = [call EXCEPT ![k].at = "ensuring", ![k].purpose = "work"]
  /\ UNCHANGED <<worldVars, mirror, rowVars, enabled, processVars, bound>>

(* POST /api/company-context/refresh. *)
RefreshByHand(k) ==
  /\ Listening /\ k \in Operator /\ call[k].at = "idle"
  /\ Goes(k, "starting")
  /\ UNCHANGED <<worldVars, mirror, rowVars, enabled, processVars, bound>>

(* ensureCurrentRevision: within the quiet window a usable active revision is reused. *)
MayReuse == Valid(active) /\ active \in cache /\ quiet /\ status \in USABLE

Ensure(k) ==
  /\ call[k].at = "ensuring"
  /\ IF ~enabled THEN Answer(k, NoCommit, FALSE)
     ELSE IF MayReuse THEN Answer(k, active, TRUE)
     ELSE Goes(k, "starting") /\ UNCHANGED bound
  /\ UNCHANGED <<worldVars, mirror, rowVars, enabled, processVars>>

-----------------------------------------------------------------------------
(* refreshCompanyContext.                                                  *)

(* The settings and the status row are read, and the contact is timed, before the fetch. *)
StartRefresh(k) ==
  /\ call[k].at = "starting"
  /\ IF enabled
     THEN /\ GoesWith(k, "fetching", active, NoCommit, FALSE)
          /\ quiet' = TRUE
          /\ UNCHANGED <<status, bound>>
     ELSE /\ status' = "disabled"
          /\ Answer(k, NoCommit, FALSE)
          /\ UNCHANGED quiet
  /\ UNCHANGED <<worldVars, mirror, validation, active, enabled, cache>>

(* provider.refresh: a clone, or an update of the mirror that prunes a ref the remote lost;
   without the ref it is a failure too. *)
Fetch(k) ==
  /\ call[k].at = "fetching"
  /\ mirror' = IF reachable THEN remote ELSE mirror
  /\ IF reachable /\ remote # NoCommit
     THEN GoesWith(k, "heading", call[k].previous, NoCommit, FALSE)
     ELSE Goes(k, "failed")
  /\ UNCHANGED <<worldVars, rowVars, enabled, processVars, bound>>

RefAssumed(k) == TRUE  \* mutant: the ref the fetch saw is taken to be there still
RefThere(k) == mirror # NoCommit

(* provider.headRevision: the head of the mirror is read again, after the fetch.  The same
   commit as the active one, still valid and still held, is not read again. *)
ReadHead(k) ==
  /\ call[k].at = "heading"
  /\ LET before == call[k].previous
         same == before = mirror /\ Valid(before) /\ before \in cache
     IN  IF ~RefThere(k) THEN Goes(k, "failed")
         ELSE IF same THEN GoesWith(k, "unchanged", before, NoCommit, FALSE)
         ELSE GoesWith(k, "loading", before, mirror, Valid(before))
  /\ UNCHANGED <<worldVars, mirror, rowVars, enabled, processVars, bound>>

LeaveRow(k) ==  \* mutant: nothing is written when the head is the same
  /\ call[k].at = "unchanged"
  /\ Answer(k, call[k].previous, TRUE)
  /\ UNCHANGED <<worldVars, mirror, rowVars, enabled, processVars>>

(* The write of an unchanged head says fresh and leaves the active revision as it is. *)
WriteUnchanged(k) ==
  /\ call[k].at = "unchanged"
  /\ status' = "fresh"
  /\ Answer(k, call[k].previous, TRUE)
  /\ UNCHANGED <<worldVars, mirror, validation, active, enabled, processVars>>

(* validateManifest, and isSubstantive for each document: what is in the commit. *)
HasContent(c) == c \in Sound

PresentIsEnough(c) == readable  \* mutant: a document that is there but empty is accepted
(* The manifest and the mandatory documents must all be read and have content. *)
Validates(c) == readable /\ HasContent(c)

(* loadRevision upserts the commit's row, whatever it said before; a load that succeeds
   replaces the cached documents before the status row is written. *)
Load(k) ==
  /\ call[k].at = "loading"
  /\ LET c == call[k].head
     IN  IF Validates(c)
         THEN /\ validation' = [validation EXCEPT ![c] = "valid"]
              /\ cache' = {c}
              /\ GoesWith(k, "loaded", NoCommit, c, FALSE)
         ELSE /\ validation' = [validation EXCEPT ![c] = "invalid"]
              /\ GoesWith(k, "rejected", call[k].previous, NoCommit, call[k].wasValid)
              /\ UNCHANGED cache
  /\ UNCHANGED <<worldVars, mirror, active, status, enabled, quiet, bound>>

WriteLoaded(k) ==
  /\ call[k].at = "loaded"
  /\ active' = call[k].head /\ status' = "fresh"
  /\ Answer(k, call[k].head, TRUE)
  /\ UNCHANGED <<worldVars, mirror, validation, enabled, processVars>>

(* A commit that does not validate leaves the active revision in place, and the caller is
   answered with the row of it that was read before the load. *)
WriteRejected(k) ==
  /\ call[k].at = "rejected"
  /\ status' = IF call[k].wasValid THEN "invalid" ELSE "unavailable"
  /\ Answer(k, call[k].previous, call[k].wasValid)
  /\ UNCHANGED <<worldVars, mirror, validation, active, enabled, processVars>>

(* handleRefreshFailure.  Whether cached policy is allowed is an operator's setting of the
   moment, whether it is stale a matter of its age. *)
WriteFailed(k) ==
  /\ call[k].at = "failed"
  /\ \E companyContextAllowCached \in BOOLEAN :
     IF Valid(call[k].previous) /\ companyContextAllowCached
     THEN /\ status' \in {"cached", "stale"}
          /\ Answer(k, call[k].previous, TRUE)
          /\ UNCHANGED <<active, cache>>
     ELSE /\ status' = "unavailable" /\ active' = NoCommit
          /\ cache' = {}
          /\ Answer(k, NoCommit, FALSE)
  /\ UNCHANGED <<worldVars, mirror, validation, enabled, quiet>>

Step(k) == \/ Ensure(k) \/ StartRefresh(k) \/ Fetch(k) \/ ReadHead(k) \/ WriteUnchanged(k)
           \/ Load(k) \/ WriteLoaded(k) \/ WriteRejected(k) \/ WriteFailed(k)

(* documentsForRevision: a selection reads the documents of a revision that is not held,
   and whatever could be read is held from then on. *)
ReadDocuments(c) ==
  /\ Listening /\ Valid(c) /\ c \notin cache
  /\ cache' = cache \cup {c}
  /\ UNCHANGED <<worldVars, mirror, rowVars, enabled, quiet, call, bound>>

-----------------------------------------------------------------------------
(* What happens around the callers.                                        *)

(* companyContextMinRefreshSeconds go by without a contact. *)
QuietWindowPasses ==
  /\ quiet /\ quiet' = FALSE
  /\ UNCHANGED <<worldVars, mirror, rowVars, enabled, cache, call, bound>>

(* The branch moves to another commit, or goes; the remote and the mirror come and go, by
   turns.  While no caller is about to look, later is as good. *)
WorldMoves ==
  /\ \E k \in Caller : call[k].at \in {"fetching", "loading"}
  /\ \/ remote' \in Revision \ {remote} /\ up' = up
     \/ up' \in {"all", "mirror", "remote"} \ {up} /\ "all" \in {up, up'} /\ remote' = remote
  /\ UNCHANGED <<mirror, rowVars, enabled, processVars, call, bound>>

(* PATCH /api/settings; later is as good here too. *)
ChangeSettings ==
  /\ \E k \in Caller : call[k].at \in {"ensuring", "starting"}
  /\ enabled' = ~enabled
  /\ UNCHANGED <<worldVars, mirror, rowVars, processVars, call, bound>>

(* The requests in flight end with the process. *)
Restart ==
  /\ cache' = {} /\ quiet' = FALSE
  /\ call' \in Booting
  /\ UNCHANGED <<worldVars, mirror, rowVars, enabled, bound>>

Next ==
  \/ \E k \in Caller : StartWork(k) \/ RefreshByHand(k) \/ Step(k)
  \/ \E c \in Commit : ReadDocuments(c)
  \/ QuietWindowPasses \/ WorldMoves \/ ChangeSettings \/ Restart

Spec == Init /\ [][Next]_vars

(* A request that was begun goes on, and time passes. *)
FairSpec == Spec /\ WF_vars(QuietWindowPasses) /\ \A k \in Caller : WF_vars(Step(k))

-----------------------------------------------------------------------------
(* Properties.                                                             *)

(* However refreshes overlap, fail or are cut short, whatever lands on the branch and
   whatever an operator switches, work is bound to, and the status row names, only commits
   whose every mandatory document validated. *)
WorkIsGrounded == bound \cup ({active} \ {NoCommit}) \subseteq Sound

(* A policy change arrives: once the remote stays within reach at a sound commit, the
   settings stay on and the process stays up, then as long as work keeps being started, the status row comes to
   name that commit as fresh and keeps doing so. *)
Settled(c) == up = "all" /\ enabled /\ remote = c
NewPolicyArrives ==
  \A c \in Sound :
    (<>[]Settled(c) /\ <>[][~Restart]_vars /\ \E k \in Caller : []<>(call[k].at = "ensuring"))
      => <>[](active = c /\ status = "fresh")
=============================================================================
