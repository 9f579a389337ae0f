-------------------------- MODULE WorkerCredentials --------------------------
(***************************************************************************)
(* The handover of a worker's credential: the control plane asks for a     *)
(* rotation on the control envelope, the worker asks for a new token,      *)
(* writes it to its state file and only then adopts it, and the token it   *)
(* replaces stays valid for a short overlap                                *)
(* (services/worker-credentials.ts, worker.ts maybeRotate).                *)
(*                                                                         *)
(* A rotation on the server is a transaction of three statements under     *)
(* READ COMMITTED: the tokens it supersedes are those active when it       *)
(* started and still active when it reaches them.                          *)
(***************************************************************************)
EXTENDS Naturals, FiniteSets

CONSTANTS
  Token,        \* tokens the control plane can issue
  FirstToken,   \* the one the worker enrolled with
  NoToken,
  Overlaps,     \* the values "workerTokenOverlapSeconds > 0" may take
  Attempts,     \* how often the client sends a rotation request
  MaxLost,      \* bound: calls that time out
  MaxCrashes    \* bound: restarts of the worker, and failed writes of its state file

ASSUME ConstantsAssumption ==
  /\ FirstToken \in Token /\ NoToken \notin Token
  /\ Overlaps \subseteq BOOLEAN /\ Overlaps # {}
  /\ Attempts \in Nat \ {0} /\ MaxLost \in Nat /\ MaxCrashes \in Nat

VARIABLES
  status,             \* worker_tokens.status, with the passing of expires_at
  rotationRequested,  \* workers.rotation_requested_at is not NULL
  envelope,           \* a heartbeat answer that asks for a rotation is on its way
  rotations,          \* rotation requests sent and not finished on the server
  answer,             \* the token an awaited answer carries, or NoToken
  phase,              \* what maybeRotate is doing
  tries,              \* rotation requests sent by this maybeRotate
  received,           \* the token being written and adopted
  stateFile,          \* the token in the state file
  adopted,            \* the token the client presents
  unheard,            \* history: tokens issued whose answer the worker never made its own
  lost, crashes       \* counters of the bounds

tokenVars == <<status, rotationRequested>>
networkVars == <<envelope, rotations, answer>>
credentialVars == <<stateFile, adopted>>
agentVars == <<phase, tries, received, credentialVars>>
bounds == <<lost, crashes>>
vars == <<tokenVars, networkVars, agentVars, unheard, bounds>>

-----------------------------------------------------------------------------

TokenStatuses == {"unissued", "active", "superseded", "expired", "revoked"}

(* One attempt: the token it presents, whether its caller still listens, and, once its
   transaction has started, the tokens that were active then. *)
Rotation == [token : Token, try : 1..Attempts, waiting : BOOLEAN, begun : BOOLEAN,
             found : SUBSET Token]

TypeOK ==
  /\ status \in [Token -> TokenStatuses]
  /\ rotationRequested \in BOOLEAN /\ envelope \in BOOLEAN
  /\ rotations \subseteq Rotation
  /\ answer \in Token \cup {NoToken} /\ received \in Token \cup {NoToken}
  /\ phase \in {"idle", "asking", "writing", "adopting"}
  /\ phase = "idle" => answer = NoToken /\ ~\E q \in rotations : q.waiting
  /\ tries \in 0..Attempts
  /\ stateFile \in Token /\ adopted \in Token /\ unheard \subseteq Token
  /\ lost \in 0..MaxLost /\ crashes \in 0..MaxCrashes

Init ==
  /\ status = [t \in Token |-> IF t = FirstToken THEN "active" ELSE "unissued"]
  /\ rotationRequested = FALSE /\ envelope = FALSE
  /\ rotations = {} /\ answer = NoToken
  /\ phase = "idle" /\ tries = 0 /\ received = NoToken
  /\ stateFile = FirstToken /\ adopted = FirstToken /\ unheard = {}
  /\ lost = 0 /\ crashes = 0

Active == {t \in Token : status[t] = "active"}
Usable(t) == status[t] \in {"active", "superseded"}

-----------------------------------------------------------------------------
(* The control plane.                                                      *)

(* requestRotation, by an administrator or by the sweeper for an aged token. *)
RequestRotation ==
  /\ ~rotationRequested
  /\ rotationRequested' = TRUE
  /\ UNCHANGED <<status, networkVars, agentVars, unheard, bounds>>

(* revokeWorkerTokens. *)
RevokeWorkerTokens ==
  /\ status' = [t \in Token |-> IF status[t] = "unissued" THEN "unissued" ELSE "revoked"]
  /\ status' # status
  /\ rotationRequested' = FALSE
  /\ UNCHANGED <<networkVars, agentVars, unheard, bounds>>

(* expires_at passes. *)
Expire(t) ==
  /\ status[t] = "superseded"
  /\ status' = [status EXCEPT ![t] = "expired"]
  /\ UNCHANGED <<rotationRequested, networkVars, agentVars, unheard, bounds>>

(* Another answer to the worker, with the control envelope on it. *)
AnswerHeartbeat ==
  /\ Usable(adopted) /\ rotationRequested
  /\ envelope' = TRUE
  /\ UNCHANGED <<tokenVars, rotations, answer, agentVars, unheard, bounds>>

(* resolvePresentedToken, then the first statement of the transaction. *)
BeginRotation(q) ==
  /\ ~q.begun /\ Usable(q.token)
  /\ rotations' = (rotations \ {q}) \cup {[q EXCEPT !.begun = TRUE, !.found = Active]}
  /\ UNCHANGED <<tokenVars, envelope, answer, agentVars, unheard, bounds>>

(* A 401, which the client does not retry. *)
RefuseRotation(q) ==
  /\ ~q.begun /\ ~Usable(q.token)
  /\ rotations' = rotations \ {q}
  /\ phase' = IF q.waiting THEN "idle" ELSE phase
  /\ UNCHANGED <<tokenVars, envelope, answer, tries, received, credentialVars, unheard, bounds>>

NothingFound(q) == {}  \* mutant: the replaced token stays active
StillActive(q) == q.found \cap Active

(* issueWorkerToken commits. *)
CommitRotation(q, t, overlap) ==
  /\ q.begun /\ status[t] = "unissued"
  /\ status' = [x \in Token |-> IF x = t THEN "active"
                                ELSE IF x \notin StillActive(q) THEN status[x]
                                ELSE IF overlap THEN "superseded" ELSE "revoked"]
  /\ rotationRequested' = FALSE
  /\ rotations' = rotations \ {q}
  /\ IF q.waiting THEN answer' = t /\ UNCHANGED unheard
     ELSE unheard' = unheard \cup {t} /\ UNCHANGED answer
  /\ UNCHANGED <<envelope, agentVars, bounds>>

-----------------------------------------------------------------------------
(* The worker.                                                             *)

WaitingForAnswer == answer # NoToken  \* mutant: a request under way is forgotten
Waiting == answer # NoToken \/ \E q \in rotations : q.waiting

HearEnvelope ==
  /\ envelope
  /\ envelope' = FALSE
  /\ IF phase = "idle" THEN phase' = "asking" /\ tries' = 0 ELSE UNCHANGED <<phase, tries>>
  /\ UNCHANGED <<tokenVars, rotations, answer, received, credentialVars, unheard, bounds>>

AskForToken ==
  /\ phase = "asking" /\ ~Waiting /\ tries < Attempts
  /\ tries' = tries + 1
  /\ rotations' = rotations \cup {[token |-> adopted, try |-> tries + 1, waiting |-> TRUE,
                                   begun |-> FALSE, found |-> {}]}
  /\ UNCHANGED <<tokenVars, envelope, answer, phase, received, credentialVars, unheard, bounds>>

(* The attempt is abandoned: its request was lost, is still being served, or its answer
   was lost. *)
TimeOut ==
  /\ phase = "asking" /\ lost < MaxLost /\ lost' = lost + 1
  /\ \/ /\ answer # NoToken /\ answer' = NoToken
        /\ unheard' = unheard \cup {answer}
        /\ UNCHANGED rotations
     \/ \E q \in rotations :
          /\ q.waiting
          /\ \/ rotations' = (rotations \ {q}) \cup {[q EXCEPT !.waiting = FALSE]}
             \/ ~q.begun /\ rotations' = rotations \ {q}
          /\ UNCHANGED <<answer, unheard>>
  /\ UNCHANGED <<tokenVars, envelope, agentVars, crashes>>

GiveUp ==
  /\ phase = "asking" /\ ~Waiting /\ tries = Attempts
  /\ phase' = "idle"
  /\ UNCHANGED <<tokenVars, networkVars, tries, received, credentialVars, unheard, bounds>>

ReceiveToken ==
  /\ phase = "asking" /\ answer # NoToken
  /\ received' = answer /\ answer' = NoToken
  /\ phase' = "writing"
  /\ UNCHANGED <<tokenVars, envelope, rotations, tries, credentialVars, unheard, bounds>>

NotWritten ==  \* mutant: the new token lives in memory only
  /\ phase = "writing" /\ phase' = "adopting"
  /\ UNCHANGED <<tokenVars, networkVars, tries, received, credentialVars, unheard, bounds>>

(* writeState renames the new file over the old one. *)
WriteState ==
  /\ phase = "writing" /\ phase' = "adopting"
  /\ stateFile' = received
  /\ UNCHANGED <<tokenVars, networkVars, tries, received, adopted, unheard, bounds>>

AdoptNothing ==  \* mutant: the client keeps presenting the old token
  /\ phase = "adopting" /\ phase' = "idle" /\ received' = NoToken
  /\ UNCHANGED <<tokenVars, networkVars, tries, credentialVars, unheard, bounds>>

(* setToken. *)
Adopt ==
  /\ phase = "adopting" /\ phase' = "idle"
  /\ adopted' = received /\ received' = NoToken
  /\ UNCHANGED <<tokenVars, networkVars, tries, stateFile, unheard, bounds>>

(* The tokens the worker has been sent and not written to its file yet. *)
Unwritten == {answer} \cup (IF phase = "writing" THEN {received} ELSE {})

(* The file cannot be written: maybeRotate keeps the current token. *)
WriteFails ==
  /\ phase = "writing" /\ phase' = "idle"
  /\ crashes < MaxCrashes /\ crashes' = crashes + 1
  /\ received' = NoToken
  /\ unheard' = unheard \cup {received}
  /\ UNCHANGED <<tokenVars, networkVars, tries, stateFile, adopted, lost>>

(* The process dies and is started again with the token of its file. *)
Crash ==
  /\ crashes < MaxCrashes /\ crashes' = crashes + 1
  /\ unheard' = unheard \cup (Unwritten \ {NoToken})
  /\ rotations' = {[q EXCEPT !.waiting = FALSE] : q \in rotations}
  /\ answer' = NoToken /\ envelope' = FALSE
  /\ phase' = "idle" /\ tries' = 0 /\ received' = NoToken
  /\ adopted' = stateFile
  /\ UNCHANGED <<tokenVars, stateFile, lost>>

-----------------------------------------------------------------------------

ServeRotation ==
  \E q \in rotations :
    \/ BeginRotation(q) \/ RefuseRotation(q)
    \/ \E t \in Token, overlap \in Overlaps : CommitRotation(q, t, overlap)

Rotate == HearEnvelope \/ AskForToken \/ GiveUp \/ ReceiveToken \/ WriteState \/ Adopt

Next ==
  \/ RequestRotation \/ RevokeWorkerTokens \/ AnswerHeartbeat
  \/ \E t \in Token : Expire(t)
  \/ ServeRotation \/ Rotate \/ TimeOut \/ WriteFails \/ Crash

Spec == Init /\ [][Next]_vars

(* The heartbeat keeps its cadence, the server answers, and the worker goes on. *)
HandoverFairness ==
  /\ WF_vars(AnswerHeartbeat) /\ WF_vars(HearEnvelope) /\ WF_vars(AskForToken)
  /\ WF_vars(ServeRotation)
  /\ WF_vars(ReceiveToken) /\ WF_vars(WriteState) /\ WF_vars(Adopt) /\ WF_vars(GiveUp)

FairSpec == Spec /\ HandoverFairness

-----------------------------------------------------------------------------
(* Properties.                                                             *)

(* A worker whose file holds no active token, and that is not being sent one, was issued
   one it never heard of, or had everything revoked.  No order of retries, late requests,
   envelopes and restarts strands it otherwise. *)
StrandedOnlyByLoss ==
  (Active # {} /\ stateFile \notin Active /\ Active \cap Unwritten = {}) => Active \subseteq unheard

(* A restart never costs the worker a usable credential. *)
RestartKeepsCredential == Usable(adopted) => Usable(stateFile) \/ phase = "adopting"

(* As long as no call is abandoned, a worker has at most one active token. *)
OneActiveTokenUndisturbed == lost = 0 /\ crashes = 0 => Cardinality(Active) <= 1

(* Together: whatever is lost, repeated or restarted, the worker keeps a way in. *)
CredentialsSurvive == StrandedOnlyByLoss /\ RestartKeepsCredential /\ OneActiveTokenUndisturbed

(* While nothing is lost and the worker keeps running, a requested rotation ends with the
   worker presenting the token that is active, unless its tokens were revoked or the model
   has no token left. *)
Unissued == {t \in Token : status[t] = "unissued"}
RotationCompletes ==
  (rotationRequested /\ Usable(adopted)) ~>
    ((~rotationRequested /\ adopted \in Active /\ stateFile = adopted)
     \/ lost > 0 \/ crashes > 0 \/ Active = {} \/ Unissued = {})
=============================================================================
