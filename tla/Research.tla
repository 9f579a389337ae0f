------------------------------- MODULE Research -------------------------------
(***************************************************************************)
(* A general run: research, analysis or scoping done one reasoning step at *)
(* a time.  The worker owns the lease and the clock and asks; the control  *)
(* plane loads the persisted plan and state, decides what the step is for, *)
(* asks the model, performs the lookups it named, classifies its findings, *)
(* stores its documents and persists the state.  Before it reports, the    *)
(* worker asks for an acceptance review, which may make one remediation    *)
(* pass; completeRun reviews once more on its own account and chooses the  *)
(* status the run ends in.                                                 *)
(*                                                                         *)
(* Every request is served over several awaits and no lock is held between *)
(* them.  The worker waits five minutes for a step or a review and then    *)
(* asks again, while the first request is still being served: two steps,   *)
(* or two reviews, of one run can overlap.  (Stopping a run is the worker  *)
(* agent's business, and is modelled there.)                               *)
(***************************************************************************)
EXTENDS Integers, Sequences, FiniteSets

CONSTANTS
    MaxRequests,    \* bound: requests being served at once
    Ref,            \* sources a lookup can return, or a claim name
    Company,        \* ... that are PAC's approved company context
    External,       \* ... that come from outside PAC
    Primary,        \* ... whose class is a primary source
    Internal,       \* lookups in Mac's own material
    Web,            \* lookups that leave PAC: a search, a page to fetch
    Finds,          \* Finds[c]: what lookup c returns when its source answers
    Allowlisted,    \* pages whose host an administrator has allowlisted
    Widened,        \* may a page a search returned be fetched as well?
    Answers,        \* what the model may answer on an ordinary step
    WriteUps,       \* what it may answer when asked to write up
    Remedies,       \* the documents one call of a remediation pass may bring
    Briefs,         \* what the approved brief may ask for: sets of criteria
    Wanted,         \* the documents, sections and sources a criterion may name
    MaxSteps,       \* the plan's ceiling on steps
    MaxToolCalls,   \* the run's ceiling on lookups
    Attempts,       \* times the worker sends one request before it gives up
    MaxLost,        \* bound: answers that come too late
    MaxFailures,    \* bound: failures of the model, the store or a review
    MaxToggles      \* bound: times external research is switched

Handler == 1 .. MaxRequests

Lookup == Internal \cup Web

Factual == {"pac_fact", "project_fact", "external_fact"}

EVIDENCE_CLASSES ==
    Factual \cup {"user_approved_decision", "inference", "recommendation", "assumption", "unknown"}

\* A claim, with the class and the sources given for it; a document.
Finding == [statement : STRING, class : EVIDENCE_CLASSES, sources : SUBSET Ref]
Paper   == [type : STRING, sections : SUBSET STRING, findings : SUBSET Finding]

\* What a run is accepted by.
Criterion == [kind : {"artefact_count", "artefact_type", "named_section",
                      "evidence_class", "external_sources", "source_class"},
              want : Wanted \cup {"any", "project_fact"}, minimum : Nat]

ASSUME SourcesAreTyped ==
    /\ Company \subseteq Ref /\ External \subseteq Ref
    /\ Company \cap External = {} /\ Primary \subseteq External
    /\ Finds \in [Lookup -> SUBSET Ref] /\ \A c \in Lookup : IsFiniteSet(Finds[c])
    /\ Internal \cap Web = {} /\ Allowlisted \subseteq Ref
    /\ \A c \in Lookup : c.tool \in STRING
    /\ \A c \in Internal : c.tool # "public_doc_fetch"
    /\ Widened \in BOOLEAN

ASSUME AnswersAreTyped ==
    /\ \A answer \in Answers \cup WriteUps :
          /\ answer.calls \in Seq(Lookup) /\ answer.findings \subseteq Finding
          /\ answer.artefacts \in Seq(Paper)
    /\ \A papers \in Remedies : papers \in Seq(Paper)
    /\ \A asked \in Briefs : asked \subseteq Criterion

ASSUME LimitsAreNatural ==
    /\ MaxRequests \in Nat \ {0}
    /\ MaxSteps \in Nat \ {0} /\ MaxToolCalls \in Nat /\ Attempts \in Nat \ {0}
    /\ MaxLost \in Nat /\ MaxFailures \in Nat /\ MaxToggles \in Nat

VARIABLES
    external,    \* settings.externalResearchEnabled
    brief,       \* the criteria derived onto the handoff brief
    run,         \* status, frozen criteria, acceptance state, remediation spent
    row,         \* general_run_state: the plan and the state it has reached
    retrieved,   \* research_sources: what each lookup of the run returned
    artefacts,   \* run_artefacts of the run
    requests,    \* the request each handler is serving
    worker,      \* the general-task job
    made,        \* lookups actually performed
    passes,      \* remediation passes actually begun
    lost,        \* answers the worker did not wait for
    failures,    \* failures so far
    toggles      \* switches so far

serverVars == <<brief, run, row, retrieved, artefacts>>
history    == <<made, passes>>
researchVars == <<external, serverVars, requests, worker, history, lost, failures, toggles>>

NoRow == [plan |-> "none", external |-> FALSE, stage |-> "none", steps |-> 0,
          calls |-> 0, requested |-> 0, sources |-> {}, findings |-> {}]

\* A handler between requests.
IdleHandler == [kind |-> "idle", at |-> "idle", waiting |-> FALSE, read |-> NoRow,
         external |-> FALSE, hosts |-> {}, action |-> "none", findings |-> {},
         calls |-> 0, asked |-> 0, todo |-> <<>>, new |-> {}, papers |-> <<>>, stored |-> 0,
         state |-> "not_assessed", unmet |-> {}, second |-> FALSE,
         canRemediate |-> FALSE, outcome |-> "none"]

Terminal == {"completed", "completed_with_gaps", "failed"}
-------------------------------------------------------------------------------
(* The criteria. *)

\* A criterion that could never be met is not derived; every general task is
\* to establish one grounded finding, and to deliver something.
DeriveCriteria(asked, available) ==
    LET derived == {c \in asked :
                        c.kind \in {"external_sources", "source_class"} => available}
        floor   == IF \E c \in asked : c.kind = "artefact_type" THEN {}
                   ELSE {[kind |-> "artefact_count", want |-> "any", minimum |-> 1]}
    IN  derived \cup floor
            \cup {[kind |-> "evidence_class", want |-> "project_fact", minimum |-> 1]}

\* A finding a reader can check: a factual class counts only with a source.
Grounded(f) ==
    /\ f.class \in Factual \cup {"user_approved_decision"}
    /\ f.sources # {}

\* Whether the evidence meets criterion c.  docs are the run's artefacts,
\* refs the sources its lookups returned.
Met(c, docs, refs) ==
    CASE c.kind = "artefact_count" -> Len(docs) >= c.minimum
      [] c.kind = "artefact_type" ->
            Cardinality({i \in DOMAIN docs : docs[i].type = c.want}) >= c.minimum
      [] c.kind = "named_section" -> \E i \in DOMAIN docs : c.want \in docs[i].sections
      [] c.kind = "evidence_class" ->
            \E i \in DOMAIN docs : \E f \in docs[i].findings : Grounded(f)
      [] c.kind = "external_sources" -> Cardinality(refs \cap External) >= c.minimum
      [] c.kind = "source_class" -> refs \cap Primary # {}

Unmet(criteria, docs, refs) == {c \in criteria : ~Met(c, docs, refs)}

\* Nothing delivered is a failure, not a gap.
AcceptanceState(criteria, docs, refs) ==
    IF criteria = {} THEN "not_assessed"
    ELSE IF docs = <<>> THEN "failed"
    ELSE IF Unmet(criteria, docs, refs) = {} THEN "satisfied" ELSE "gaps"

Refs == {s.ref : s \in retrieved}
-------------------------------------------------------------------------------
(* The loop's own judgement. *)

\* Which lookups the plan permits: outside PAC only when the setting allowed it
\* at the moment the plan was pinned.
PermittedTools(plan) == Internal \cup (IF plan.external THEN Web ELSE {})

\* What the next step is for, from recorded counters alone.
DecideNextStep(state) ==
    IF state.steps >= MaxSteps THEN "stop"
    ELSE IF state.calls >= MaxToolCalls \/ state.steps = MaxSteps - 1 THEN "finalise"
    ELSE IF state.steps > 0 /\ state.requested = 0
         THEN IF state.findings # {} THEN "finalise" ELSE "synthesise"
    ELSE "gather"

StageFor(action) ==
    CASE action = "gather"     -> "gathering"
      [] action = "synthesise" -> "synthesising"
      [] OTHER                 -> "complete"

\* mutant: a claim keeps the class the model gave it.
TakeOnTrust(f, known) == [f EXCEPT !.sources = f.sources \cap known]

\* A claim is demoted to what the sources really retrieved support.
Classify(f, known) ==
    LET real  == f.sources \cap known
        class == IF f.class \in Factual /\ real = {} THEN "inference"
                 ELSE IF f.class = "external_fact" /\ real \cap External = {}
                 THEN "project_fact"
                 ELSE IF f.class = "pac_fact" /\ real \cap Company = {}
                 THEN "project_fact"
                 ELSE f.class
    IN  [f EXCEPT !.class = class, !.sources = real]

\* Two findings of one statement: the better sourced one is kept.
DedupeFindings(old, new) ==
    LET better(f, g) == Cardinality(f.sources) > Cardinality(g.sources)
    IN  {f \in old : \A g \in new : g.statement = f.statement => ~better(g, f)}
          \cup {g \in new : \A f \in old : f.statement = g.statement => better(g, f)}

\* One step's output merged into the state the step began from.
Accumulate(state, findings, asked, new, calls) ==
    LET known == state.sources \cup new
    IN  [state EXCEPT !.steps = @ + 1, !.calls = calls, !.sources = known,
                      !.requested = asked,
                      !.findings = DedupeFindings(@, {Classify(f, known) : f \in findings})]

\* mutant: the ceiling is not looked at between the lookups of one step.
NoCallCeiling(c, plan, calls) == c \notin PermittedTools(plan)

RefuseToolCall(c, plan, calls) == calls >= MaxToolCalls \/ c \notin PermittedTools(plan)
-------------------------------------------------------------------------------
(* The lookups. *)

\* Mac's own material: always there, though it may hold nothing.
InternalSearch(c) == {Finds[c]}

\* A page is fetched only from an allowlisted host, or from one that this
\* run's own searches had returned before the step began.
MayFetch(c, hosts) == Finds[c] \subseteq Allowlisted \cup (IF Widened THEN hosts ELSE {})

IsFetch(c) == c.tool = "public_doc_fetch"

\* A provider that fails is a refusal: nothing comes back.
ExternalSearch(c, hosts) ==
    IF IsFetch(c) THEN IF MayFetch(c, hosts) THEN {Finds[c]} ELSE {{}}
    ELSE {Finds[c], {}}

\* What lookup c may return; refused outright when external research was off
\* as the step began.
RunTool(c, h) ==
    IF c \in Internal THEN InternalSearch(c)
    ELSE IF ~requests[h].external THEN {{}}
    ELSE ExternalSearch(c, requests[h].hosts)

\* mutant: a source returned again is recorded again.
PersistTwice(c, refs) ==
    retrieved' = retrieved \cup {[ref |-> r, tool |-> c.tool] : r \in refs}

\* One row per source, keeping the lookup that returned it first.
PersistSources(c, refs) ==
    retrieved' = retrieved \cup {[ref |-> r, tool |-> c.tool] : r \in refs \ Refs}

SearchResultHosts == {s.ref : s \in {t \in retrieved : t.tool = "public_web_search"}}
-------------------------------------------------------------------------------
(* The run, before the worker has it. *)

InitResearch ==
    /\ external \in BOOLEAN
    /\ \E asked \in Briefs : brief = DeriveCriteria(asked, external)
    /\ run = [status |-> "proposed", criteria |-> {}, acceptance |-> "not_assessed",
              remediated |-> FALSE]
    /\ row = NoRow
    /\ retrieved = {} /\ artefacts = <<>>
    /\ requests = [h \in Handler |-> IdleHandler]
    /\ worker = [at |-> "none", iterations |-> 0, created |-> 0, tries |-> 0,
                 outcome |-> "none"]
    /\ made = 0 /\ passes = 0 /\ lost = 0 /\ failures = 0 /\ toggles = 0

\* An administrator switches external research.
ToggleExternal ==
    /\ toggles < MaxToggles
    /\ external' = ~external /\ toggles' = toggles + 1
    /\ UNCHANGED <<serverVars, requests, worker, history, lost, failures>>

\* Approval copies the brief's criteria onto the run, which is then leased.
ApproveRun ==
    /\ run.status = "proposed"
    /\ run' = [run EXCEPT !.status = "running", !.criteria = brief]
    /\ worker' = [worker EXCEPT !.at = "loop"]
    /\ UNCHANGED <<external, brief, row, retrieved, artefacts, requests, history,
                   lost, failures, toggles>>
-------------------------------------------------------------------------------
(* The worker. *)

\* The request goes to the first free handler; the worker waits for it.
Send(h, request) ==
    /\ requests[h].kind = "idle" /\ \A g \in 1 .. h - 1 : requests[g].kind # "idle"
    /\ requests' = [requests EXCEPT ![h] = request]

\* What the worker does next when it has no answer to wait for any more.
GiveUp(w) ==
    CASE w.at = "step"   -> [w EXCEPT !.at = "report", !.outcome = "failed", !.tries = 0]
      [] w.at = "review" -> [w EXCEPT !.at = "report", !.outcome = "succeeded", !.tries = 0]
      [] OTHER           -> [w EXCEPT !.at = "finished", !.tries = 0]

\* mutant: the last attempt is never told from the others.
NeverGivesUp(w) == w

\* A request that got no answer, or a 5xx: sent again until the last attempt.
Retry(w) == IF w.tries >= Attempts THEN GiveUp(w) ELSE [w EXCEPT !.at = w.at]

\* The loop ends: its count, the minutes' ceiling or the overnight cutoff.
\* Nothing delivered is reported as failed.
LoopEnds ==
    /\ worker.at = "loop"
    /\ worker' = [worker EXCEPT !.at = IF worker.created = 0 THEN "report" ELSE "review",
                                !.outcome = IF worker.created = 0 THEN "failed" ELSE "none"]
    /\ UNCHANGED <<external, serverVars, requests, history, lost, failures, toggles>>

Waiting == \E h \in Handler : requests[h].waiting

\* The loop asks for one more step.  Its own count bounds it, whatever the
\* control plane reports.
AskStep(h) ==
    /\ worker.at = "loop" /\ worker.iterations < MaxSteps
    /\ Send(h, [IdleHandler EXCEPT !.kind = "step", !.at = "begin", !.waiting = TRUE])
    /\ worker' = [worker EXCEPT !.at = "step", !.iterations = @ + 1, !.tries = 1]
    /\ UNCHANGED <<external, serverVars, history, lost, failures, toggles>>

\* A step that got no answer is asked for again; a review, and the report of
\* how the run ended, are asked for.
SendRequest(h) ==
    /\ ~Waiting /\ worker.tries < Attempts
    /\ \/ /\ worker.at = "step"
          /\ Send(h, [IdleHandler EXCEPT !.kind = "step", !.at = "begin", !.waiting = TRUE])
       \/ /\ worker.at = "review"
          /\ \E time \in BOOLEAN :
                Send(h, [IdleHandler EXCEPT !.kind = "review", !.at = "evidence",
                                     !.waiting = TRUE, !.canRemediate = time])
       \/ /\ worker.at = "report"
          /\ Send(h, [IdleHandler EXCEPT !.kind = "complete", !.waiting = TRUE,
                        !.at = IF worker.outcome = "succeeded" THEN "evidence" ELSE "close",
                        !.outcome = worker.outcome])
    /\ worker' = [worker EXCEPT !.tries = @ + 1]
    /\ UNCHANGED <<external, serverVars, history, lost, failures, toggles>>

\* The worker stops waiting after five minutes; the request is served on.
TimeOut(h) ==
    /\ requests[h].waiting /\ lost < MaxLost
    /\ requests' = [requests EXCEPT ![h].waiting = FALSE]
    /\ worker' = Retry(worker)
    /\ lost' = lost + 1
    /\ UNCHANGED <<external, serverVars, history, failures, toggles>>

\* The handler is free again, and a worker still waiting hears answer w.
Respond(h, w) ==
    /\ requests' = [requests EXCEPT ![h] = IdleHandler]
    /\ worker' = IF requests[h].waiting THEN w ELSE worker
-------------------------------------------------------------------------------
(* One research step. *)

\* The row, with the plan pinned if there is none yet: later steps find it.
BeginGeneralRun ==
    IF row.plan # "none" THEN row
    ELSE [NoRow EXCEPT !.plan = "pinned", !.external = external, !.stage = "planning"]

\* What the model may say: told to write up, an outline and then one document at
\* a time, without a word about lookups.
AskModel(action) == IF action = "finalise" THEN WriteUps ELSE Answers

\* The plan is pinned if there is none yet, the settings and the state are
\* read, what the step is for is decided, and the model is asked.
BeginStep(h) ==
    /\ requests[h].kind = "step" /\ requests[h].at = "begin"
    /\ LET pinned == BeginGeneralRun
           action == DecideNextStep(pinned)
           begun  == [requests[h] EXCEPT !.read = pinned, !.action = action,
                                         !.calls = pinned.calls]
       IN /\ row' = pinned
          /\ \/ /\ action = "stop"
                /\ requests' = [requests EXCEPT ![h] = [begun EXCEPT !.at = "finish"]]
             \/ /\ action # "stop"
                /\ \E answer \in AskModel(action) :
                      requests' = [requests EXCEPT ![h] =
                         [begun EXCEPT !.at = "work", !.external = external,
                                       !.hosts = SearchResultHosts,
                                       !.findings = answer.findings, !.todo = answer.calls,
                                       !.asked = Len(answer.calls),
                                       !.papers = answer.artefacts]]
    /\ UNCHANGED <<external, brief, run, retrieved, artefacts, worker, history,
                   lost, failures, toggles>>

\* The step ceiling had been reached: the state read is written back as it was.
FinishState(h) ==
    /\ requests[h].kind = "step" /\ requests[h].at = "finish"
    /\ row' = [requests[h].read EXCEPT !.stage = "complete"]
    /\ Respond(h, [worker EXCEPT !.at = IF worker.created = 0 THEN "report" ELSE "review",
                                !.outcome = IF worker.created = 0 THEN "failed" ELSE "none",
                                !.tries = 0])
    /\ UNCHANGED <<external, brief, run, retrieved, artefacts, history, lost, failures, toggles>>

\* The model or the database fails in the middle of a step: what has been
\* looked up and stored stays, the step itself was never taken.
StepFails(h) ==
    /\ requests[h].kind = "step" /\ requests[h].at = "work"
    /\ failures < MaxFailures
    /\ Respond(h, Retry(worker))
    /\ failures' = failures + 1
    /\ UNCHANGED <<external, serverVars, history, lost, toggles>>

\* The next lookup: refused, or performed and its sources persisted; either
\* way it counts.
CallTool(h) ==
    /\ requests[h].kind = "step" /\ requests[h].at = "work" /\ requests[h].todo # <<>>
    /\ LET c == Head(requests[h].todo)
       IN \E refs \in IF RefuseToolCall(c, requests[h].read, requests[h].calls)
                      THEN {{}} ELSE RunTool(c, h) :
             /\ PersistSources(c, refs)
             /\ requests' = [requests EXCEPT ![h].todo = Tail(@), ![h].calls = @ + 1,
                                             ![h].new = @ \cup refs]
             /\ made' = IF RefuseToolCall(c, requests[h].read, requests[h].calls)
                        THEN made ELSE made + 1
    /\ UNCHANGED <<external, brief, run, row, artefacts, worker, passes, lost, failures, toggles>>

\* The state the step began from, with the step's output merged in.
StepState(h) ==
    Accumulate(requests[h].read, requests[h].findings, requests[h].asked,
               requests[h].new, requests[h].calls)

\* A document that states no findings of its own carries the run's.
WithFindings(paper, findings) ==
    IF paper.findings = {} THEN [paper EXCEPT !.findings = findings] ELSE paper

\* The next document is stored.  One that cannot be is logged and counted too.
StoreArtefact(h) ==
    /\ requests[h].kind = "step" /\ requests[h].at = "work"
    /\ requests[h].todo = <<>> /\ requests[h].papers # <<>>
    /\ \/ /\ artefacts' = Append(artefacts,
                             WithFindings(Head(requests[h].papers), StepState(h).findings))
          /\ UNCHANGED failures
       \/ /\ failures < MaxFailures /\ failures' = failures + 1
          /\ UNCHANGED artefacts
    /\ requests' = [requests EXCEPT ![h].papers = Tail(@), ![h].stored = @ + 1]
    /\ UNCHANGED <<external, brief, run, row, retrieved, worker, history, lost, toggles>>

\* The state the step began from, plus the step, overwrites the row; then the
\* worker hears.  Done once asked to write up, or when documents came and no
\* lookup was asked for.
PersistStep(h) ==
    /\ requests[h].kind = "step" /\ requests[h].at = "work"
    /\ requests[h].todo = <<>> /\ requests[h].papers = <<>>
    /\ LET r    == requests[h]
           done == r.action = "finalise" \/ (r.stored > 0 /\ r.asked = 0)
           created == worker.created + r.stored
       IN /\ row' = [StepState(h) EXCEPT !.stage = IF r.action = "finalise" THEN "complete"
                                              ELSE StageFor(r.action)]
          /\ Respond(h, [worker EXCEPT
                !.at = IF ~done THEN "loop" ELSE IF created = 0 THEN "report" ELSE "review",
                !.outcome = IF done /\ created = 0 THEN "failed" ELSE "none",
                !.created = created, !.tries = 0])
    /\ UNCHANGED <<external, brief, run, retrieved, artefacts, history, lost, failures, toggles>>
-------------------------------------------------------------------------------
(* The acceptance review, asked for by the worker and by completeRun. *)

\* Criteria, artefacts and sources are read and every criterion decided.
ReviewAcceptance(h) ==
    /\ requests[h].kind \in {"review", "complete"} /\ requests[h].at = "evidence"
    /\ requests' = [requests EXCEPT ![h].at = "persist",
                        ![h].state = AcceptanceState(run.criteria, artefacts, Refs),
                        ![h].unmet = Unmet(run.criteria, artefacts, Refs)]
    /\ UNCHANGED <<external, serverVars, worker, history, lost, failures, toggles>>

\* The verdict is stored, whatever the run has become meanwhile.  A first
\* review that found gaps goes on to remediate when all three agree; otherwise
\* the worker hears.
PersistReview(h) ==
    /\ requests[h].kind \in {"review", "complete"} /\ requests[h].at = "persist"
    /\ run' = [run EXCEPT !.acceptance = requests[h].state]
    /\ LET r == requests[h]
           remediate == /\ r.kind = "review" /\ ~r.second /\ r.state = "gaps"
                        /\ r.canRemediate /\ ~run.remediated
       IN \/ /\ r.kind = "complete"
             /\ requests' = [requests EXCEPT ![h].at = "close"]
             /\ UNCHANGED <<worker, passes>>
          \/ /\ remediate
             /\ requests' = [requests EXCEPT ![h].at = "remedy", ![h].read = row]
             /\ passes' = passes + 1
             /\ UNCHANGED worker
          \/ /\ r.kind = "review" /\ ~remediate
             /\ Respond(h, [worker EXCEPT !.at = "report", !.outcome = "succeeded",
                                         !.tries = 0])
             /\ UNCHANGED passes
    /\ UNCHANGED <<external, brief, row, retrieved, artefacts, made, lost, failures, toggles>>

\* One call of the model per unmet criterion; it may produce nothing.
Remediate(h) ==
    /\ requests[h].at = "remedy" /\ requests[h].unmet # {}
    /\ \E papers \in Remedies :
          /\ requests' = [requests EXCEPT ![h].unmet = @ \ {CHOOSE c \in @ : TRUE}]
          /\ artefacts' = artefacts \o [i \in DOMAIN papers |->
                              WithFindings(papers[i], requests[h].read.findings)]
    /\ UNCHANGED <<external, brief, run, row, retrieved, worker, history, lost, failures,
                   toggles>>

\* The pass, finished or broken off by a failure of the model, is recorded as
\* spent and the same criteria are checked again.
NoteRemediation(h) ==
    /\ requests[h].at = "remedy"
    /\ run' = [run EXCEPT !.remediated = TRUE]
    /\ requests' = [requests EXCEPT ![h].at = "evidence", ![h].second = TRUE,
                                    ![h].read = NoRow, ![h].unmet = {}]
    /\ UNCHANGED <<external, brief, row, retrieved, artefacts, worker, history, lost,
                   failures, toggles>>

\* A review that fails: 5xx to the worker, `not_assessed` for completeRun.
ReviewFails(h) ==
    /\ requests[h].kind \in {"review", "complete"}
    /\ requests[h].at \in {"evidence", "persist"} /\ failures < MaxFailures
    /\ \/ requests[h].kind = "review" /\ Respond(h, Retry(worker))
       \/ /\ requests[h].kind = "complete"
          /\ requests' = [requests EXCEPT ![h].at = "close", ![h].state = "not_assessed"]
          /\ UNCHANGED worker
    /\ failures' = failures + 1
    /\ UNCHANGED <<external, serverVars, history, lost, toggles>>

\* mutant: the status follows the worker's word alone.
NoBackstop(r) == IF r.outcome = "succeeded" THEN "completed" ELSE r.outcome

\* The status a reported outcome closes the run with.
ClosingStatus(r) ==
    IF r.outcome = "succeeded"
    THEN IF r.state = "gaps" THEN "completed_with_gaps" ELSE "completed"
    ELSE r.outcome

\* The closing transaction.  A repeated report finds the run closed.
CloseRun(h) ==
    /\ requests[h].kind = "complete" /\ requests[h].at = "close"
    /\ run' = IF run.status \in Terminal THEN run
              ELSE [run EXCEPT !.status = ClosingStatus(requests[h])]
    /\ Respond(h, [worker EXCEPT !.at = "finished"])
    /\ UNCHANGED <<external, brief, row, retrieved, artefacts, history, lost, failures,
                   toggles>>
-------------------------------------------------------------------------------
(* The specification. *)

StepWork(h) ==
    \/ BeginStep(h) \/ FinishState(h) \/ CallTool(h) \/ StoreArtefact(h)
    \/ PersistStep(h)

ReviewWork(h) ==
    \/ ReviewAcceptance(h) \/ PersistReview(h) \/ Remediate(h)
    \/ NoteRemediation(h) \/ CloseRun(h)

Fails(h) == TimeOut(h) \/ StepFails(h) \/ ReviewFails(h)

NextResearch ==
    \/ ToggleExternal \/ ApproveRun \/ LoopEnds
    \/ \E h \in Handler : AskStep(h) \/ SendRequest(h) \/ StepWork(h) \/ ReviewWork(h) \/ Fails(h)

SpecResearch == InitResearch /\ [][NextResearch]_researchVars

\* The worker keeps looping and asking, and the control plane serves what it
\* was asked: the model answers or its call fails.
ResearchFairness ==
    /\ WF_researchVars(LoopEnds \/ \E h \in Handler : AskStep(h))
    /\ \A h \in Handler : /\ WF_researchVars(SendRequest(h))
                          /\ WF_researchVars(StepWork(h))
                          /\ WF_researchVars(ReviewWork(h))

FairSpecResearch == SpecResearch /\ ResearchFairness
-------------------------------------------------------------------------------
(* Properties. *)

Row == [plan : {"none", "pinned"}, external : BOOLEAN,
        stage : {"none", "planning", "gathering", "synthesising", "complete"},
        steps : 0 .. MaxSteps, calls : Nat, requested : Nat,
        sources : SUBSET Ref, findings : SUBSET Finding]

Outcome    == {"none", "failed", "succeeded"}
Acceptance == {"not_assessed", "satisfied", "gaps", "failed"}

Request ==
    [kind : {"idle", "step", "review", "complete"}, waiting : BOOLEAN,
     at : {"idle", "begin", "finish", "work", "evidence", "persist", "remedy", "close"},
     read : Row, external : BOOLEAN, hosts : SUBSET Ref,
     action : {"none", "stop", "gather", "synthesise", "finalise"},
     findings : SUBSET Finding, calls : Nat, asked : Nat, todo : Seq(Lookup),
     new : SUBSET Ref, papers : Seq(Paper), stored : Nat, state : Acceptance,
     unmet : SUBSET Criterion, second : BOOLEAN, canRemediate : BOOLEAN, outcome : Outcome]

\* Type correctness.  A source is recorded once, and one answer is awaited.
TypeOKResearch ==
    /\ external \in BOOLEAN /\ brief \subseteq Criterion
    /\ run \in [status : {"proposed", "running"} \cup Terminal, criteria : SUBSET Criterion,
                acceptance : Acceptance, remediated : BOOLEAN]
    /\ row \in Row
    /\ retrieved \subseteq [ref : Ref, tool : STRING]
    /\ \A s, t \in retrieved : s.ref = t.ref => s = t
    /\ artefacts \in Seq(Paper)
    /\ requests \in [Handler -> Request]
    /\ \A g, h \in Handler : requests[g].waiting /\ requests[h].waiting => g = h
    /\ worker \in [at : {"none", "loop", "step", "review", "report", "finished"},
                   iterations : 0 .. MaxSteps, created : Nat, tries : 0 .. Attempts,
                   outcome : Outcome]
    /\ made \in Nat /\ passes \in Nat
    /\ lost \in Nat /\ failures \in Nat /\ toggles \in Nat

\* The status a run ends in says what it delivered (runs.ts, completeRun and
\* general-task.ts).  `completed` means every criterion that was approved is
\* met by what is stored, however the reviews, a remediation and late steps
\* interleaved, unless a review or the store failed; `completed_with_gaps`
\* means one is not, and `failed` that nothing was delivered, unless an answer
\* was lost on its way to the worker.
OutcomeIsHonest ==
    LET unmet == Unmet(run.criteria, artefacts, Refs)
    IN  /\ run.status = "completed" /\ failures = 0 => unmet = {} /\ artefacts # <<>>
        /\ run.status = "completed_with_gaps" /\ lost = 0 => unmet # {}
        /\ run.status = "failed" /\ lost + failures = 0 => artefacts = <<>>

\* Every claim the run holds as established cites sources that one of its own
\* lookups returned and recorded, of the kind its class asks for, even when a
\* late step overwrites the state (research.ts, classifyFindings); and no page
\* was fetched that was neither allowlisted nor found by the run's own search.
FindingsAreGrounded ==
    /\ \A f \in row.findings :
          /\ f.sources \subseteq Refs
          /\ f.class \in Factual => f.sources # {}
          /\ f.class = "external_fact" => f.sources \cap External # {}
          /\ f.class = "pac_fact" => f.sources \cap Company # {}
    /\ \A s \in retrieved : s.tool = "public_doc_fetch" =>
          s.ref \in Allowlisted \cup (IF Widened THEN SearchResultHosts ELSE {})

\* What a run spends is bounded (runner.ts, performResearchStep and the review
\* route): with no answer lost and nothing failing it performs no more lookups
\* than its ceiling, begins one remediation pass at most, and its state accounts
\* for all of it; each answer lost, or failure, can cost one budget more.
WorkAddsUp ==
    /\ made <= MaxToolCalls * (1 + lost + failures)
    /\ passes <= 1 + lost + failures
    /\ lost + failures = 0 /\ (\A h \in Handler : requests[h].kind # "step") =>
          /\ row.sources = Refs
          /\ worker.at # "step" => row.steps = worker.iterations

\* Together: what the run delivered, on what ground, and at what cost.
RunIsHonest == OutcomeIsHonest /\ FindingsAreGrounded /\ WorkAddsUp

\* The loop ends (general-task.ts: "the one that must be able to stop on its own
\* account"): the worker finishes every run it began.
RunEnds == worker.at = "loop" ~> worker.at = "finished"
===============================================================================
