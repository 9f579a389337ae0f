----------------------- MODULE WorkerCredentials_proofs -----------------------
(***************************************************************************)
(* Proofs about WorkerCredentials, for any number of tokens, attempts,     *)
(* lost calls and restarts: type correctness, and that the worker keeps a  *)
(* way in.                                                                 *)
(***************************************************************************)
EXTENDS WorkerCredentials, FiniteSetTheorems, TLAPS

-----------------------------------------------------------------------------
(* The inductive invariant, in named parts.                                *)

Typed ==
  /\ status \in [Token -> TokenStatuses]
  /\ rotationRequested \in BOOLEAN /\ envelope \in BOOLEAN
  /\ rotations \subseteq Rotation
  /\ answer \in Token \cup {NoToken} /\ received \in Token \cup {NoToken}
  /\ phase \in {"idle", "asking", "writing", "adopting"}
  /\ tries \in 0..Attempts
  /\ stateFile \in Token /\ adopted \in Token /\ unheard \subseteq Token
  /\ lost \in 0..MaxLost /\ crashes \in 0..MaxCrashes

(* The worker listens for one answer, and only while it asks. *)
OneListener ==
  /\ \A p, q \in rotations : p.waiting /\ q.waiting => p = q
  /\ \A q \in rotations : q.waiting => phase = "asking" /\ answer = NoToken
  /\ answer # NoToken => phase = "asking"

(* The file is ahead of the client between writing and adopting, and never otherwise. *)
FileIsAhead ==
  /\ phase = "writing" => received \in Token
  /\ phase = "adopting" => received = stateFile
  /\ phase # "adopting" => adopted = stateFile

Issued == {t \in Token : status[t] # "unissued"}

(* Whatever is known of a token, it has been issued. *)
KnownTokensAreIssued ==
  /\ stateFile \in Issued /\ unheard \subseteq Issued
  /\ answer # NoToken => answer \in Issued
  /\ phase = "writing" => received \in Issued
  /\ \A q \in rotations : q.found \subseteq Issued

(* The tokens the worker has had in its file and replaced that are still active. *)
Left == Active \ ({stateFile} \cup Unwritten \cup unheard)

(* A token the worker is being sent, or has in its file, is younger than those it replaces:
   a rotation that supersedes it supersedes them. *)
OldGoFirst ==
  /\ \A q \in rotations :
       /\ stateFile \in q.found => Left \subseteq q.found
       /\ \A u \in Unwritten \ {NoToken} :
            u \in q.found => (Left \cup {stateFile}) \cap Active \subseteq q.found
  /\ stateFile \notin Active => Left = {}
  /\ \A u \in Unwritten \ {NoToken} :
       u \notin Active => (Left \cup {stateFile}) \cap Active = {}

(* While no call is abandoned there is one rotation at a time, and it knows what is active. *)
OneRotation ==
  lost = 0 /\ crashes = 0 =>
    /\ \A p, q \in rotations : p = q
    /\ \A q \in rotations : q.waiting /\ (q.begun => Active \subseteq q.found)
    /\ \A t, u \in Active : t = u

Inv ==
  /\ Typed
  /\ OneListener
  /\ FileIsAhead
  /\ KnownTokensAreIssued
  /\ OldGoFirst
  /\ OneRotation

-----------------------------------------------------------------------------
(* What the invariant gives.                                               *)

LEMMA InvType == Inv => TypeOK
BY DEF Inv, Typed, OneListener, TypeOK

LEMMA InvSurvives == Inv => CredentialsSurvive
<1> SUFFICES ASSUME Inv PROVE CredentialsSurvive
  OBVIOUS
<1> USE DEF Inv
<1>1. StrandedOnlyByLoss
  BY DEF OldGoFirst, Left, StrandedOnlyByLoss
<1>2. RestartKeepsCredential
  BY DEF FileIsAhead, RestartKeepsCredential
<1>3. OneActiveTokenUndisturbed
  <2> SUFFICES ASSUME lost = 0, crashes = 0 PROVE Cardinality(Active) <= 1
    BY DEF OneActiveTokenUndisturbed
  <2>1. CASE Active = {}
    <3>1. Cardinality({}) = 0
      BY FS_EmptySet
    <3> QED BY <2>1, <3>1
  <2>2. CASE Active # {}
    <3>1. PICK t \in Active : TRUE
      BY <2>2
    <3>2. Active = {t}
      BY <3>1 DEF OneRotation
    <3>3. Cardinality({t}) = 1
      BY FS_Singleton
    <3> QED BY <3>2, <3>3
  <2> QED BY <2>1, <2>2
<1> QED BY <1>1, <1>2, <1>3 DEF CredentialsSurvive

LEMMA InitInv == Init => Inv
<1> SUFFICES ASSUME Init PROVE Inv
  OBVIOUS
<1> USE ConstantsAssumption DEF Init
<1>1. Typed
  <2>1. status \in [Token -> TokenStatuses]
    BY DEF TokenStatuses
  <2>2. tries \in 0..Attempts /\ lost \in 0..MaxLost /\ crashes \in 0..MaxCrashes
    OBVIOUS
  <2> QED BY <2>1, <2>2 DEF Typed
<1>2. Active = {FirstToken} /\ FirstToken \in Issued
  BY DEF Active, Issued
<1>3. KnownTokensAreIssued
  BY <1>2 DEF KnownTokensAreIssued
<1>4. OldGoFirst
  BY <1>2 DEF OldGoFirst, Left, Unwritten
<1>5. OneRotation
  BY <1>2 DEF OneRotation
<1> QED BY <1>1, <1>3, <1>4, <1>5 DEF Inv, OneListener, FileIsAhead

LEMMA Stutter == Inv /\ UNCHANGED vars => Inv'
BY DEF Inv, Typed, OneListener, FileIsAhead, KnownTokensAreIssued, Issued, OldGoFirst, Left, Active,
       Unwritten, OneRotation, vars, tokenVars, networkVars, credentialVars, agentVars, bounds

-----------------------------------------------------------------------------
(* The control plane.                                                      *)

(* Asking for a rotation touches no token. *)
LEMMA RequestInv ==
  ASSUME Inv, RequestRotation \/ AnswerHeartbeat
  PROVE  Inv'
<1> USE DEF Inv, RequestRotation, AnswerHeartbeat, tokenVars, networkVars, credentialVars, agentVars, bounds
<1>1. Typed'
  BY DEF Typed
<1>2. OneListener'
  BY DEF OneListener
<1>3. FileIsAhead'
  BY DEF FileIsAhead
<1>4. KnownTokensAreIssued'
  BY DEF KnownTokensAreIssued, Issued
<1>5. OldGoFirst'
  BY DEF OldGoFirst, Left, Active, Unwritten
<1>6. OneRotation'
  BY DEF OneRotation, Active
<1> QED BY <1>1, <1>2, <1>3, <1>4, <1>5, <1>6

(* After a revocation nothing is active. *)
LEMMA RevokeInv ==
  ASSUME Inv, RevokeWorkerTokens
  PROVE  Inv'
<1> USE DEF Inv, RevokeWorkerTokens, tokenVars, networkVars, credentialVars, agentVars, bounds
<1>a. Active' = {} /\ Issued' = Issued
  BY DEF Active, Issued, Typed
<1>1. Typed'
  BY DEF Typed, TokenStatuses
<1>2. OneListener'
  BY DEF OneListener
<1>3. FileIsAhead'
  BY DEF FileIsAhead
<1>4. KnownTokensAreIssued'
  BY <1>a DEF KnownTokensAreIssued
<1>5. OldGoFirst'
  BY <1>a DEF OldGoFirst, Left, Unwritten
<1>6. OneRotation'
  BY <1>a DEF OneRotation
<1> QED BY <1>1, <1>2, <1>3, <1>4, <1>5, <1>6

(* What expires was not active any more. *)
LEMMA ExpireInv ==
  ASSUME Inv, NEW t \in Token, Expire(t)
  PROVE  Inv'
<1> USE DEF Inv, Expire, tokenVars, networkVars, credentialVars, agentVars, bounds
<1>a. Active' = Active /\ Issued' = Issued
  BY DEF Active, Issued, Typed
<1>1. Typed'
  BY DEF Typed, TokenStatuses
<1>2. OneListener'
  BY DEF OneListener
<1>3. FileIsAhead'
  BY DEF FileIsAhead
<1>4. KnownTokensAreIssued'
  BY <1>a DEF KnownTokensAreIssued
<1>5. OldGoFirst'
  BY <1>a DEF OldGoFirst, Left, Unwritten
<1>6. OneRotation'
  BY <1>a DEF OneRotation
<1> QED BY <1>1, <1>2, <1>3, <1>4, <1>5, <1>6

(* A rotation that starts finds everything that is active. *)
LEMMA BeginInv ==
  ASSUME Inv, NEW q \in rotations, BeginRotation(q)
  PROVE  Inv'
<1> USE DEF Inv, BeginRotation, tokenVars, networkVars, credentialVars, agentVars, bounds
<1>a. q \in Rotation /\ Active \subseteq Token /\ Active \subseteq Issued
  BY DEF Typed, Active, Issued
<1> DEFINE begun == [q EXCEPT !.begun = TRUE, !.found = Active]
<1>b. /\ begun \in Rotation /\ begun.found = Active
      /\ begun.waiting = q.waiting
  BY <1>a DEF Rotation
<1>c. rotations' = (rotations \ {q}) \cup {begun}
  OBVIOUS
<1> HIDE DEF begun
<1>1. Typed'
  BY <1>a, <1>b, <1>c DEF Typed
<1>2. OneListener'
  BY <1>a, <1>b, <1>c DEF OneListener
<1>3. FileIsAhead'
  BY <1>a, <1>b, <1>c DEF FileIsAhead
<1>4. KnownTokensAreIssued'
  BY <1>a, <1>b, <1>c DEF KnownTokensAreIssued, Issued
<1>5. OldGoFirst'
  BY <1>a, <1>b, <1>c DEF OldGoFirst, Left, Active, Unwritten
<1>6. OneRotation'
  BY <1>a, <1>b, <1>c DEF OneRotation, Active
<1> QED BY <1>1, <1>2, <1>3, <1>4, <1>5, <1>6

(* A refused rotation leaves the tokens alone. *)
LEMMA RefuseInv ==
  ASSUME Inv, NEW q \in rotations, RefuseRotation(q)
  PROVE  Inv'
<1> USE DEF Inv, RefuseRotation, tokenVars, networkVars, credentialVars, agentVars, bounds
<1>1. Typed'
  BY DEF Typed
<1>2. OneListener'
  BY DEF OneListener
<1>3. FileIsAhead'
  BY DEF FileIsAhead, OneListener
<1>4. KnownTokensAreIssued'
  BY DEF KnownTokensAreIssued, Issued
<1>5. OldGoFirst'
  BY DEF OldGoFirst, OneListener, Left, Active, Unwritten
<1>6. OneRotation'
  BY DEF OneRotation, Active
<1> QED BY <1>1, <1>2, <1>3, <1>4, <1>5, <1>6

(* A rotation adds one token and takes those it found: if it takes the token of the file, or the
   one on its way to it, it takes everything older. *)
LEMMA CommitInv ==
  ASSUME Inv, NEW q \in rotations, NEW t \in Token, NEW overlap \in Overlaps, CommitRotation(q, t, overlap)
  PROVE  Inv'
<1> USE DEF Inv, CommitRotation, tokenVars, networkVars, credentialVars, agentVars, bounds
<1>a. Active' = (Active \ q.found) \cup {t} /\ t \notin Active
  BY DEF Active, StillActive, Typed
<1>b. Issued' = Issued \cup {t} /\ t \notin Issued
  BY DEF Issued, StillActive, Typed, Active
<1>c. t # NoToken /\ \A p \in rotations : t \notin p.found
  BY <1>b, ConstantsAssumption DEF KnownTokensAreIssued
<1>d. t # stateFile /\ t \notin Unwritten /\ t \notin unheard
  BY <1>b, <1>c DEF KnownTokensAreIssued, Unwritten
<1>e. /\ q.waiting => Unwritten' = {t} /\ Unwritten \subseteq {NoToken} /\ unheard' = unheard
      /\ ~q.waiting => Unwritten' = Unwritten /\ unheard' = unheard \cup {t}
  BY DEF OneListener, Unwritten
<1>f. Left' = Left \ q.found
  BY <1>a, <1>d, <1>e, ConstantsAssumption DEF Left, Active
<1>g. rotations' \subseteq rotations /\ stateFile' = stateFile /\ q \notin rotations'
  OBVIOUS
<1>1. Typed'
  <2>1. status' \in [Token -> TokenStatuses]
    BY DEF Typed, TokenStatuses
  <2> QED BY <2>1 DEF Typed
<1>2. OneListener'
  BY DEF OneListener
<1>3. FileIsAhead'
  BY DEF FileIsAhead
<1>4. KnownTokensAreIssued'
  BY <1>b, <1>g DEF KnownTokensAreIssued
<1>5. OldGoFirst'
  <2> HIDE DEF CommitRotation
  <2>1. ASSUME NEW p \in rotations'
        PROVE  /\ stateFile' \in p.found => Left' \subseteq p.found
               /\ \A u \in Unwritten' \ {NoToken} :
                    u \in p.found => (Left' \cup {stateFile'}) \cap Active' \subseteq p.found
    BY <2>1, <1>a, <1>c, <1>d, <1>e, <1>f, <1>g DEF OldGoFirst
  <2>2. stateFile' \notin Active' => Left' = {}
    BY <1>a, <1>d, <1>f, <1>g DEF OldGoFirst
  <2>3. \A u \in Unwritten' \ {NoToken} :
          u \notin Active' => (Left' \cup {stateFile'}) \cap Active' = {}
    BY <1>a, <1>d, <1>e, <1>f, <1>g DEF OldGoFirst
  <2> QED BY <2>1, <2>2, <2>3 DEF OldGoFirst
<1>6. OneRotation'
  BY <1>a, <1>g DEF OneRotation, CommitRotation
<1> QED BY <1>1, <1>2, <1>3, <1>4, <1>5, <1>6

-----------------------------------------------------------------------------
(* The worker.                                                             *)

(* An envelope starts the asking, if the worker is idle. *)
LEMMA HearInv ==
  ASSUME Inv, HearEnvelope
  PROVE  Inv'
<1> USE DEF Inv, HearEnvelope, tokenVars, networkVars, credentialVars, agentVars, bounds
<1>1. Typed'
  <2>1. tries' \in 0..Attempts /\ phase' \in {"idle", "asking", "writing", "adopting"}
    BY ConstantsAssumption DEF Typed
  <2> QED BY <2>1 DEF Typed
<1>2. OneListener'
  BY DEF OneListener
<1>3. FileIsAhead'
  BY DEF FileIsAhead
<1>4. KnownTokensAreIssued'
  BY DEF KnownTokensAreIssued, Issued
<1>5. OldGoFirst'
  BY DEF OldGoFirst, Left, Active, Unwritten
<1>6. OneRotation'
  BY DEF OneRotation, Active
<1> QED BY <1>1, <1>2, <1>3, <1>4, <1>5, <1>6

(* A request is sent when no other is awaited. *)
LEMMA AskInv ==
  ASSUME Inv, AskForToken
  PROVE  Inv'
<1> USE DEF Inv, AskForToken, Waiting, tokenVars, networkVars, credentialVars, agentVars, bounds
<1> DEFINE sent == [token |-> adopted, try |-> tries + 1, waiting |-> TRUE, begun |-> FALSE,
                    found |-> {}]
<1>a. tries + 1 \in 1..Attempts /\ tries + 1 \in 0..Attempts
  BY ConstantsAssumption DEF Typed
<1>b. sent \in Rotation /\ sent.waiting /\ ~sent.begun /\ sent.found = {}
  BY <1>a DEF Typed, Rotation
<1>c. rotations' = rotations \cup {sent}
  OBVIOUS
<1> HIDE DEF sent
<1>1. Typed'
  BY <1>a, <1>b, <1>c DEF Typed
<1>2. OneListener'
  BY <1>a, <1>b, <1>c DEF OneListener
<1>3. FileIsAhead'
  BY <1>a, <1>b, <1>c DEF FileIsAhead
<1>4. KnownTokensAreIssued'
  BY <1>a, <1>b, <1>c DEF KnownTokensAreIssued, Issued
<1>5. OldGoFirst'
  BY <1>b, <1>c DEF OldGoFirst, Left, Active, Unwritten
<1>6. OneRotation'
  BY <1>a, <1>b, <1>c DEF OneRotation, Active
<1> QED BY <1>1, <1>2, <1>3, <1>4, <1>5, <1>6

(* A request that is abandoned may still be served; what it is answered with is not heard. *)
LEMMA TimeOutInv ==
  ASSUME Inv, TimeOut
  PROVE  Inv'
<1> USE DEF Inv, TimeOut, tokenVars, networkVars, credentialVars, agentVars, bounds
<1>a. \A q \in rotations : /\ [q EXCEPT !.waiting = FALSE] \in Rotation
                          /\ ~[q EXCEPT !.waiting = FALSE].waiting
                          /\ [q EXCEPT !.waiting = FALSE].found = q.found
  BY DEF Typed, Rotation
<1>b. \A p \in rotations' : p \in rotations \/ (p \in Rotation /\ ~p.waiting /\ \E q \in rotations : p.found = q.found)
  BY <1>a
<1>c. lost' \in 0..MaxLost /\ lost' > 0
  BY ConstantsAssumption DEF Typed
<1>d. /\ \/ answer' = NoToken /\ unheard' = unheard \cup {answer} /\ answer \in Token
         \/ answer' = answer /\ unheard' = unheard
      /\ UNCHANGED <<status, rotationRequested, envelope, phase, tries, received, stateFile, adopted, crashes>>
      /\ phase = "asking"
  BY DEF Typed
<1> HIDE DEF TimeOut
<1>1. Typed'
  BY <1>b, <1>c, <1>d DEF Typed
<1>2. OneListener'
  BY <1>b, <1>c, <1>d DEF OneListener
<1>3. FileIsAhead'
  BY <1>b, <1>c, <1>d DEF FileIsAhead
<1>4. KnownTokensAreIssued'
  BY <1>b, <1>d, ConstantsAssumption DEF KnownTokensAreIssued, Issued
<1>5. OldGoFirst'
  <2>1. Left' = Left /\ Active' = Active /\ Unwritten' \subseteq Unwritten \cup {NoToken}
    BY <1>d, ConstantsAssumption DEF Left, Active, Unwritten
  <2> QED BY <1>b, <1>d, <2>1 DEF OldGoFirst
<1>6. OneRotation'
  BY <1>b, <1>c, <1>d DEF OneRotation, Active
<1> QED BY <1>1, <1>2, <1>3, <1>4, <1>5, <1>6

(* A worker that gives up listens for nothing. *)
LEMMA GiveUpInv ==
  ASSUME Inv, GiveUp
  PROVE  Inv'
<1> USE DEF Inv, GiveUp, Waiting, tokenVars, networkVars, credentialVars, agentVars, bounds
<1>1. Typed'
  BY DEF Typed
<1>2. OneListener'
  BY DEF OneListener
<1>3. FileIsAhead'
  BY DEF FileIsAhead
<1>4. KnownTokensAreIssued'
  BY DEF KnownTokensAreIssued, Issued
<1>5. OldGoFirst'
  BY DEF OldGoFirst, Left, Active, Unwritten
<1>6. OneRotation'
  BY DEF OneRotation, Active
<1> QED BY <1>1, <1>2, <1>3, <1>4, <1>5, <1>6

(* The token of the answer is the one to write. *)
LEMMA ReceiveInv ==
  ASSUME Inv, ReceiveToken
  PROVE  Inv'
<1> USE DEF Inv, ReceiveToken, tokenVars, networkVars, credentialVars, agentVars, bounds
<1>a. Unwritten' \ {NoToken} = Unwritten \ {NoToken} /\ Active' = Active /\ Left' = Left
  BY ConstantsAssumption DEF Unwritten, Active, Left
<1>1. Typed'
  BY DEF Typed
<1>2. OneListener'
  BY DEF OneListener
<1>3. FileIsAhead'
  BY DEF FileIsAhead, Typed
<1>4. KnownTokensAreIssued'
  BY DEF KnownTokensAreIssued, Issued
<1>5. OldGoFirst'
  BY <1>a DEF OldGoFirst
<1>6. OneRotation'
  BY DEF OneRotation, Active
<1> QED BY <1>1, <1>2, <1>3, <1>4, <1>5, <1>6

(* What the written token replaces is older than it. *)
LEMMA WriteInv ==
  ASSUME Inv, WriteState
  PROVE  Inv'
<1> USE DEF Inv, WriteState, tokenVars, networkVars, credentialVars, agentVars, bounds
<1>a. Unwritten = {answer, received} /\ answer = NoToken /\ Unwritten' = {NoToken} /\ Active' = Active
  BY DEF Unwritten, Active, OneListener
<1>b. Left' \subseteq (Left \cup {stateFile}) \cap Active
  BY <1>a, ConstantsAssumption DEF Left
<1>c. received \in Unwritten \ {NoToken} /\ stateFile' = received /\ rotations' = rotations
  BY <1>a, ConstantsAssumption DEF FileIsAhead
<1>1. Typed'
  BY DEF Typed, FileIsAhead
<1>2. OneListener'
  BY DEF OneListener
<1>3. FileIsAhead'
  BY DEF FileIsAhead
<1>4. KnownTokensAreIssued'
  BY DEF KnownTokensAreIssued, Issued
<1>5. OldGoFirst'
  BY <1>a, <1>b, <1>c DEF OldGoFirst
<1>6. OneRotation'
  BY DEF OneRotation, Active
<1> QED BY <1>1, <1>2, <1>3, <1>4, <1>5, <1>6

(* The client presents the token of the file. *)
LEMMA AdoptInv ==
  ASSUME Inv, Adopt
  PROVE  Inv'
<1> USE DEF Inv, Adopt, tokenVars, networkVars, credentialVars, agentVars, bounds
<1>1. Typed'
  BY DEF Typed, FileIsAhead
<1>2. OneListener'
  BY DEF OneListener
<1>3. FileIsAhead'
  BY DEF FileIsAhead
<1>4. KnownTokensAreIssued'
  BY DEF KnownTokensAreIssued, Issued
<1>5. OldGoFirst'
  BY DEF OldGoFirst, Left, Active, Unwritten
<1>6. OneRotation'
  BY DEF OneRotation, Active
<1> QED BY <1>1, <1>2, <1>3, <1>4, <1>5, <1>6

(* A token that cannot be written is not heard of. *)
LEMMA WriteFailsInv ==
  ASSUME Inv, WriteFails
  PROVE  Inv'
<1> USE DEF Inv, WriteFails, tokenVars, networkVars, credentialVars, agentVars, bounds
<1>a. crashes' \in 0..MaxCrashes /\ crashes' > 0 /\ received \in Token
  BY ConstantsAssumption DEF Typed, FileIsAhead
<1>b. Left' = Left /\ Active' = Active /\ Unwritten' = {NoToken}
  BY DEF Left, Active, Unwritten, OneListener
<1>1. Typed'
  BY <1>a DEF Typed
<1>2. OneListener'
  BY <1>a DEF OneListener
<1>3. FileIsAhead'
  BY <1>a DEF FileIsAhead
<1>4. KnownTokensAreIssued'
  BY <1>a DEF KnownTokensAreIssued, Issued
<1>5. OldGoFirst'
  BY <1>b DEF OldGoFirst
<1>6. OneRotation'
  BY <1>a DEF OneRotation, Active
<1> QED BY <1>1, <1>2, <1>3, <1>4, <1>5, <1>6

(* A process that starts again has the token of its file, and has heard of no other. *)
LEMMA CrashInv ==
  ASSUME Inv, Crash
  PROVE  Inv'
<1> USE DEF Inv, Crash, tokenVars, networkVars, credentialVars, agentVars, bounds
<1>a. \A q \in rotations : /\ [q EXCEPT !.waiting = FALSE] \in Rotation
                          /\ ~[q EXCEPT !.waiting = FALSE].waiting
                          /\ [q EXCEPT !.waiting = FALSE].found = q.found
  BY DEF Typed, Rotation
<1>b. \A p \in rotations' : p \in Rotation /\ ~p.waiting /\ \E q \in rotations : p.found = q.found
  BY <1>a
<1>c. crashes' \in 0..MaxCrashes /\ crashes' > 0 /\ 0 \in 0..Attempts
  BY ConstantsAssumption DEF Typed
<1>d. Unwritten \ {NoToken} \subseteq Issued
  BY DEF KnownTokensAreIssued, Unwritten
<1>e. /\ UNCHANGED <<status, rotationRequested, stateFile, lost>>
      /\ answer' = NoToken /\ envelope' = FALSE /\ phase' = "idle" /\ tries' = 0 /\ received' = NoToken
      /\ adopted' = stateFile /\ unheard' = unheard \cup (Unwritten \ {NoToken})
  OBVIOUS
<1>f. Issued \subseteq Token /\ Issued' = Issued
  BY DEF Issued
<1> HIDE DEF Crash
<1>1. Typed'
  BY <1>b, <1>c, <1>d, <1>e, <1>f DEF Typed
<1>2. OneListener'
  BY <1>b, <1>c, <1>d, <1>e, <1>f DEF OneListener
<1>3. FileIsAhead'
  BY <1>b, <1>c, <1>d, <1>e, <1>f DEF FileIsAhead
<1>4. KnownTokensAreIssued'
  BY <1>b, <1>d, <1>e, <1>f DEF KnownTokensAreIssued
<1>5. OldGoFirst'
  <2>1. Left' = Left /\ Active' = Active /\ Unwritten' = {NoToken}
    BY <1>e, ConstantsAssumption DEF Left, Active, Unwritten
  <2> QED BY <1>b, <1>e, <2>1 DEF OldGoFirst
<1>6. OneRotation'
  BY <1>b, <1>c, <1>d, <1>e, <1>f DEF OneRotation, Active
<1> QED BY <1>1, <1>2, <1>3, <1>4, <1>5, <1>6

-----------------------------------------------------------------------------
(* The theorems.                                                           *)

(* Every step preserves the invariant. *)
LEMMA NextInv == Inv /\ [Next]_vars => Inv'
<1> SUFFICES ASSUME Inv, [Next]_vars PROVE Inv'
  OBVIOUS
<1>1. CASE RequestRotation \/ AnswerHeartbeat
  BY <1>1, RequestInv
<1>2. CASE RevokeWorkerTokens
  BY <1>2, RevokeInv
<1>3. CASE \E t \in Token : Expire(t)
  BY <1>3, ExpireInv
<1>4. CASE ServeRotation
  BY <1>4, BeginInv, RefuseInv, CommitInv DEF ServeRotation
<1>5. CASE Rotate
  BY <1>5, HearInv, AskInv, GiveUpInv, ReceiveInv, WriteInv, AdoptInv DEF Rotate
<1>6. CASE TimeOut
  BY <1>6, TimeOutInv
<1>7. CASE WriteFails
  BY <1>7, WriteFailsInv
<1>8. CASE Crash
  BY <1>8, CrashInv
<1>9. CASE UNCHANGED vars
  BY <1>9, Stutter
<1> QED BY <1>1, <1>2, <1>3, <1>4, <1>5, <1>6, <1>7, <1>8, <1>9 DEF Next

LEMMA Invariance == Spec => []Inv
BY InitInv, NextInv, PTL DEF Spec

(* In every reachable state the tokens, the rotations under way and the worker's file are
   what TypeOK says; an idle worker listens for no answer. *)
THEOREM CredentialsTypeCorrect == Spec => []TypeOK
BY Invariance, InvType, PTL

(* Whatever is lost, repeated, served late or restarted: a worker without an active token in
   its file lost one on the way or had everything revoked, a restart costs it no credential,
   and undisturbed it has one active token (services/worker-credentials.ts issueWorkerToken,
   worker.ts maybeRotate). *)
THEOREM CredentialsAlwaysSurvive == Spec => []CredentialsSurvive
BY Invariance, InvSurvives, PTL
=============================================================================
