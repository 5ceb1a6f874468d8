------------------------ MODULE WritingServices_proofs ------------------------
(* The services that write in more than one place, or what others read, each   *)
(* proved for every value of its constants from the inductive invariant IInv   *)
(* of its module: that it holds at the start (...Starts), that every step      *)
(* keeps it (...Steps), one lemma per action, and what it says of the          *)
(* properties (...Kept). Since no two of them ever run together they take the  *)
(* same variables, which MCServices gives them: a name that two of them have   *)
(* has the same one.                                                           *)
EXTENDS Integers, Sequences, FiniteSets, FiniteSetTheorems, SequenceTheorems,
        WellFoundedInduction, TLAPS

CONSTANTS
    \* PasswordReset
    Confirms, Completes, MaxSends, MaxResetFaults,
    \* Credentials
    ChangeCalls, ChangeKind, ChangeDevices, MaxSessions, MaxCredentialFaults,
    \* HookChain
    Inline, Background, MaxEmissions, MaxTries, MaxHookFaults,
    \* OwnedRows
    OrderKeys, Users, MaxInFlight,
    \* EventLog
    MaxSent, BatchLimit, MaxLogFaults,
    \* SignUp
    SignUpCalls, SignUpDoor, SignUpRole, MaxIds, MaxSignUpFaults,
    \* SearchIndices
    IndexProcesses, IndexConfig, IndexBoots, MaxRefusals,
    \* TriggerSources
    SourceProcesses, SourceTargets, SourceTables, SourceBoots, SourceChanges, SourceFaults,
    \* RealtimeChannels
    OpenAccounts, OpenProcesses, OpenListen, OpenRequests, OpenPageSize, MaxOpenBegun,
    MaxOpenFaults

VARIABLES
    v1, v2, v3, v4, v5, v6, v7, v8, v9, v10, v11, v12

Reset == INSTANCE PasswordReset WITH mark <- v1, marks <- v2, asking <- v3, smsCode <- v5,
    links <- v4, proofs <- v6, unspent <- v7, confirm <- v8, complete <- v9, resetFaults <-
    v10
Credential == INSTANCE Credentials WITH Changes <- ChangeCalls, KindOf <- ChangeKind,
    Devices <- ChangeDevices, secret <- v2, session <- v3, device <- v1, change <- v4, back
    <- v5, shut <- v6, spared <- v7, credentialFaults <- v8, tables <- v9
Hooks == INSTANCE HookChain WITH emission <- v1, job <- v2, ran <- v3, hookFaults <- v4
Rows == INSTANCE OwnedRows WITH Keys <- OrderKeys, registered <- v2, row <- v1, inFlight <-
    v3
Events == INSTANCE EventLog WITH sent <- v1, pending <- v2, scheduled <- v3, flushes <- v4,
    batches <- v5, log <- v6, said <- v7, before <- v8, logFaults <- v9
SignUps == INSTANCE SignUp WITH Calls <- SignUpCalls, Door <- SignUpDoor, Role <-
    SignUpRole, user <- v1, minted <- v4, stamped <- v7, account <- v8, rows <- v3, token <-
    v5, call <- v2, stranded <- v9, met <- v6, signUpFaults <- v10
Indices == INSTANCE SearchIndices WITH Processes <- IndexProcesses, ConfigOf <- IndexConfig,
    MaxBoots <- IndexBoots, MaxIndexFaults <- MaxRefusals, held <- v4, told <- v1, sources
    <- v3, sync <- v2, boots <- v5, indexFaults <- v8, partly <- v6, leftClosed <- v7,
    overlapped <- v9, unlisted <- v10, lastListed <- v11
Declared == INSTANCE TriggerSources WITH Processes <- SourceProcesses, Targets <-
    SourceTargets, Tables <- SourceTables, MaxBoots <- SourceBoots, MaxChanges <-
    SourceChanges, MaxSourceFaults <- SourceFaults, sources <- v3, at <- v6, read <- v4,
    todo <- v8, boots <- v5, row <- v1, outbox <- v9, changes <- v7, reached <- v10, spoiled
    <- v2, rekeyed <- v12, sourceFaults <- v11
Openness == INSTANCE RealtimeChannels WITH Accounts <- OpenAccounts, Processes <-
    OpenProcesses, Listen <- OpenListen, Requests <- OpenRequests, PageSize <- OpenPageSize,
    MaxBegun <- MaxOpenBegun, MaxRealtimeFaults <- MaxOpenFaults, stored <- v1, at <- v6,
    seen <- v4, booted <- v5, refusedSync <- v7, grants <- v8, request <- v9, settled <-
    v10, walk <- v2, begun <- v3, realtimeFaults <- v11

\* The variables of PasswordReset.
mark == v1
marks == v2
asking == v3
smsCode == v5
links == v4
proofs == v6
unspent == v7
confirm == v8
complete == v9
resetFaults == v10
USE DEF mark, marks, asking, smsCode, links, proofs, unspent, confirm, complete, resetFaults

\* The finiteness and the count of the module's own FiniteSets.
LEMMA ResetSets ==
    /\ \A S : Reset!IsFiniteSet(S) <=> IsFiniteSet(S)
    /\ \A S : Reset!Cardinality(S) = Cardinality(S)
<1>1. \A S : Reset!IsFiniteSet(S) <=> IsFiniteSet(S)
  BY DEF Reset!IsFiniteSet, IsFiniteSet
<1>2. \A S : Reset!Cardinality(S) = Cardinality(S)
  BY Zenon DEF Reset!Cardinality, Cardinality
<1> QED BY <1>1, <1>2

-----------------------------------------------------------------------------
(* The reset of a password (reset_password.ts, sms_intent.ts).                *)

\* The calls are finitely many and the bounds naturals.
LEMMA ResetBounds ==
    ASSUME Reset!ResetAssumption, Reset!IInv
    PROVE  /\ MaxSends \in Nat /\ MaxResetFaults \in Nat /\ marks \in Nat /\ marks <= MaxSends
           /\ Reset!IsFiniteSet(proofs) /\ Reset!Cardinality(proofs) \in Nat
<1>1. Reset!IsFiniteSet(proofs) /\ Reset!Cardinality(proofs) \in Nat
  BY ResetSets, FS_CardinalityType DEF Reset!IInv, Reset!TypeOK
<1> QED BY <1>1 DEF Reset!ResetAssumption, Reset!IInv, Reset!TypeOK

\* No code was asked for at first.
LEMMA ResetStarts == ASSUME Reset!ResetAssumption PROVE Reset!Init => Reset!IInv
<1> SUFFICES ASSUME Reset!Init PROVE Reset!IInv
  OBVIOUS
<1>1. /\ \A c \in Confirms : confirm[c] = [pc |-> "idle", code |-> 0, mark |-> [for |-> "none", no |-> 0], over |-> {},
                                       unlink |-> "none"]
      /\ \A d \in Completes : complete[d] = [pc |-> "idle", token |-> 0]
  BY DEF Reset!Init, Reset!Resting, Reset!NoMark
<1>2. Reset!IsFiniteSet(proofs) /\ Reset!Cardinality(proofs) = 0
  BY ResetSets, FS_EmptySet DEF Reset!Init
<1>3. Reset!TypeOK
  <2>1. /\ [pc |-> "idle", token |-> 0] \in Reset!CompleteStates
        /\ Reset!NoMark \in Reset!Marks
        /\ [pc |-> "idle", code |-> 0, mark |-> Reset!NoMark, over |-> {}, unlink |-> "none"] \in Reset!ConfirmStates
    BY <1>2 DEF Reset!CompleteStates, Reset!ConfirmStates, Reset!Marks, Reset!Flows, Reset!Init,
       Reset!NoMark
  <2> QED BY <1>2, <2>1 DEF Reset!Init, Reset!TypeOK, Reset!Resting, Reset!ResetAssumption
<1>4. Reset!ProofsBought
  BY DEF Reset!Init, Reset!ProofsBought, Reset!Flows
<1>5. Reset!TokensTaken /\ Reset!MarksRead
  BY <1>1 DEF Reset!Init, Reset!TokensTaken, Reset!MarksRead, Reset!Took, Reset!Reads, Reset!Passed
<1> QED BY <1>3, <1>4, <1>5 DEF Reset!IInv

\* More markings and more proofs leave the types of what there is.
LEMMA ResetGrows ==
    ASSUME Reset!ResetAssumption, Reset!IInv, marks' \in Nat, marks <= marks'
    PROVE  /\ Reset!Marks \subseteq Reset!Marks' /\ Reset!ConfirmStates \subseteq Reset!ConfirmStates'
           /\ 0..marks \subseteq 0..marks'
<1>1. 0..marks \subseteq 0..marks'
  BY ResetBounds
<1>2. Reset!Marks \subseteq Reset!Marks'
  BY <1>1 DEF Reset!Marks, Reset!Flows
<1> QED BY <1>1, <1>2 DEF Reset!ConfirmStates

\* The faults of a reset stay within their bound.
LEMMA ResetFault ==
    ASSUME Reset!ResetAssumption, Reset!IInv, Reset!Fault \/ UNCHANGED resetFaults
    PROVE  resetFaults' \in 0..MaxResetFaults
BY DEF Reset!ResetAssumption, Reset!Fault, Reset!IInv, Reset!TypeOK

\* A code is asked for.
LEMMA ResetAsk ==
    ASSUME Reset!ResetAssumption, Reset!IInv, NEW f \in Reset!Flows, NEW laid \in BOOLEAN,
           Reset!Ask(f, laid)
    PROVE  Reset!IInv'
<1>1. /\ marks' = marks + 1 /\ marks < MaxSends
      /\ mark' = [for |-> f, no |-> marks'] \/ UNCHANGED mark
      /\ asking' = [asking EXCEPT ![f] = TRUE] /\ asking \in [Reset!Flows -> BOOLEAN]
      /\ UNCHANGED <<smsCode, links, proofs, unspent, confirm, complete>>
      /\ marks \in Nat /\ MaxSends \in Nat /\ ~asking[f]
      /\ smsCode \in 0..marks /\ mark \in Reset!Marks
      /\ \A p \in proofs : p.proof \in 0..marks
  BY ResetBounds DEF Reset!Ask, Reset!IInv, Reset!TypeOK
<1>2. Reset!TypeOK'
  <2>1. mark' \in Reset!Marks' /\ marks' \in 0..MaxSends
    BY <1>1, ResetGrows DEF Reset!Marks
  <2>2. smsCode \in 0..marks' /\ proofs \subseteq [token: 1..Reset!Cardinality(proofs), proof: 0..marks']
    BY <1>1, ResetGrows DEF Reset!IInv, Reset!TypeOK
  <2>3. confirm \in [Confirms -> Reset!ConfirmStates'] /\ complete \in [Completes -> Reset!CompleteStates']
    BY <1>1, ResetGrows DEF Reset!IInv, Reset!TypeOK, Reset!CompleteStates
  <2>4. asking' \in [Reset!Flows -> BOOLEAN]
    BY <1>1
  <2>5. resetFaults' \in 0..MaxResetFaults
    BY ResetFault DEF Reset!Ask, Reset!May
  <2> QED BY <1>1, <2>1, <2>2, <2>3, <2>4, <2>5 DEF Reset!IInv, Reset!TypeOK
<1>3. Reset!ProofsBought'
  BY <1>1 DEF Reset!IInv, Reset!ProofsBought
<1>4. Reset!TokensTaken'
  BY <1>1 DEF Reset!IInv, Reset!TokensTaken, Reset!Took
<1>5. Reset!MarksRead'
  <2>1. CASE UNCHANGED mark
    BY <1>1, <2>1 DEF Reset!IInv, Reset!MarksRead, Reset!Reads, Reset!Passed, Reset!NoMark
  <2>2. CASE mark' = [for |-> f, no |-> marks']
    <3>1. \A c \in Confirms : confirm[c].mark.no \in 0..marks
      BY DEF Reset!IInv, Reset!TypeOK, Reset!ConfirmStates, Reset!Marks
    <3>2. (\A c \in Confirms : confirm[c].mark.no # mark'.no) /\ mark'.no # 0
      BY <1>1, <2>2, <3>1
    <3> QED BY <1>1, <3>2 DEF Reset!IInv, Reset!MarksRead, Reset!Reads, Reset!Passed
  <2> QED BY <1>1, <2>1, <2>2
<1> QED BY <1>2, <1>3, <1>4, <1>5 DEF Reset!IInv

\* A mark that goes was not the one anybody passed with.
LEMMA ResetUnmarked ==
    ASSUME Reset!IInv, mark' \in {mark, Reset!NoMark}, UNCHANGED confirm
    PROVE  Reset!MarksRead'
<1>1. Reset!NoMark.no = 0
  BY DEF Reset!NoMark
<1>2. \A c \in Confirms : Reset!Passed(c) /\ confirm[c].unlink # "refused" => confirm[c].mark.no # mark'.no
  BY <1>1 DEF Reset!IInv, Reset!MarksRead, Reset!Reads, Reset!Passed
<1>3. mark' = Reset!NoMark \/ mark'.no # 0
  BY DEF Reset!IInv, Reset!MarksRead
<1> QED BY <1>2, <1>3 DEF Reset!IInv, Reset!MarksRead, Reset!Reads, Reset!Passed, Reset!NoMark

\* A code or a link is sent, and marked.
LEMMA ResetSend ==
    ASSUME Reset!ResetAssumption, Reset!IInv, NEW f \in Reset!Flows, NEW ok \in BOOLEAN,
           Reset!Send(f, ok)
    PROVE  Reset!IInv'
<1>1. /\ asking[f] /\ asking' = [asking EXCEPT ![f] = FALSE] /\ asking \in [Reset!Flows -> BOOLEAN]
      /\ mark' \in {mark, Reset!NoMark}
      /\ smsCode' = IF ok /\ f = "reset" THEN marks ELSE smsCode
      /\ UNCHANGED <<marks, links, proofs, unspent, confirm, complete>>
      /\ marks \in Nat /\ smsCode \in 0..marks
      /\ \A p \in proofs : p.proof \in 0..marks
  BY ResetBounds DEF Reset!Send, Reset!IInv, Reset!TypeOK
<1>2. Reset!TypeOK'
  <2>1. mark' \in Reset!Marks' /\ smsCode' \in 0..marks /\ asking' \in [Reset!Flows -> BOOLEAN]
    BY <1>1 DEF Reset!Marks, Reset!NoMark, Reset!Flows, Reset!IInv, Reset!TypeOK
  <2>2. resetFaults' \in 0..MaxResetFaults
    BY ResetFault DEF Reset!Send, Reset!May
  <2> QED BY <1>1, <2>1, <2>2 DEF Reset!IInv, Reset!TypeOK, Reset!ConfirmStates, Reset!CompleteStates, Reset!Marks
<1>3. Reset!ProofsBought'
  <2>1. \A p \in proofs : p.proof = smsCode' => smsCode' = 0
    BY <1>1 DEF Reset!IInv, Reset!ProofsBought
  <2>2. asking'["reset"] => smsCode' < marks /\ \A p \in proofs : p.proof < marks
    BY <1>1 DEF Reset!IInv, Reset!ProofsBought, Reset!Flows
  <2> QED BY <1>1, <2>1, <2>2 DEF Reset!IInv, Reset!ProofsBought
<1>4. Reset!TokensTaken'
  BY <1>1 DEF Reset!IInv, Reset!TokensTaken, Reset!Took
<1> QED BY <1>1, <1>2, <1>3, <1>4, ResetUnmarked DEF Reset!IInv

\* A mark expires.
LEMMA ResetExpireMark ==
    ASSUME Reset!ResetAssumption, Reset!IInv, Reset!ExpireMark
    PROVE  Reset!IInv'
<1>1. /\ mark' \in {mark, Reset!NoMark}
      /\ UNCHANGED <<marks, asking, smsCode, links, proofs, unspent, confirm, complete, resetFaults>>
  BY DEF Reset!ExpireMark
<1>2. Reset!TypeOK'
  <2>1. mark' \in Reset!Marks'
    BY <1>1, ResetBounds DEF Reset!Marks, Reset!NoMark, Reset!Flows, Reset!IInv, Reset!TypeOK
  <2> QED BY <1>1, <2>1 DEF Reset!IInv, Reset!TypeOK, Reset!ConfirmStates, Reset!CompleteStates, Reset!Marks
<1>3. Reset!ProofsBought' /\ Reset!TokensTaken'
  BY <1>1 DEF Reset!IInv, Reset!ProofsBought, Reset!TokensTaken, Reset!Took
<1> QED BY <1>1, <1>2, <1>3, ResetUnmarked DEF Reset!IInv

\* A confirmation moves.
LEMMA ResetConfirms ==
    ASSUME Reset!ResetAssumption, Reset!IInv, NEW c \in Confirms,
           NEW s \in Reset!ConfirmStates, confirm' = [confirm EXCEPT ![c] = s],
           mark' \in {mark, Reset!NoMark},
           s.pc \in {"delete", "verify", "proven", "refused"} =>
             /\ s.mark.no # 0
             /\ s.pc = "delete" => s.unlink = "none"
             /\ s.pc = "delete" \/ s.unlink = "refused" \/ s.mark.no # mark'.no
             /\ \A d \in Confirms \ {c} : Reset!Reads(d) /\ confirm[d].mark.no = s.mark.no
                                          => \/ d \in s.over \/ c \in confirm[d].over
                                             \/ s.unlink = "refused" \/ confirm[d].unlink = "refused"
    PROVE  Reset!MarksRead' /\ (UNCHANGED marks => confirm' \in [Confirms -> Reset!ConfirmStates'])
<1>1. confirm \in [Confirms -> Reset!ConfirmStates]
  BY DEF Reset!IInv, Reset!TypeOK
<1>2. \A d \in Confirms : confirm'[d] = IF d = c THEN s ELSE confirm[d]
  BY <1>1
<1>3. UNCHANGED marks => confirm' \in [Confirms -> Reset!ConfirmStates']
  BY <1>1 DEF Reset!ConfirmStates, Reset!Marks
<1>4. \A d \in Confirms : /\ Reset!Reads(d)' => confirm'[d].mark.no # 0
                          /\ confirm'[d].pc = "delete" => confirm'[d].unlink = "none"
  BY <1>2 DEF Reset!IInv, Reset!MarksRead, Reset!Reads, Reset!Passed
<1>5. \A d \in Confirms : Reset!Passed(d)' /\ confirm'[d].unlink # "refused" => confirm'[d].mark.no # mark'.no
  <2>1. Reset!NoMark.no = 0
    BY DEF Reset!NoMark
  <2> QED BY <1>2, <2>1 DEF Reset!IInv, Reset!MarksRead, Reset!Reads, Reset!Passed
<1>6. ASSUME NEW d \in Confirms, NEW e \in Confirms, Reset!Reads(d)', Reset!Reads(e)', d # e,
             confirm'[d].mark.no = confirm'[e].mark.no
      PROVE  \/ d \in confirm'[e].over \/ e \in confirm'[d].over
             \/ confirm'[d].unlink = "refused" \/ confirm'[e].unlink = "refused"
  BY <1>2, <1>6 DEF Reset!IInv, Reset!MarksRead, Reset!Reads, Reset!Passed
<1>7. mark' = Reset!NoMark \/ mark'.no # 0
  BY DEF Reset!IInv, Reset!MarksRead
<1> QED BY <1>3, <1>4, <1>5, <1>6, <1>7 DEF Reset!MarksRead, Reset!NoMark


\* A confirmation reads the mark, and the code it is answered with.
LEMMA ResetConfirm ==
    ASSUME Reset!ResetAssumption, Reset!IInv, NEW c \in Confirms, NEW k \in 0..MaxSends,
           Reset!Confirm(c, k)
    PROVE  Reset!IInv'
<1> DEFINE s == IF mark = Reset!NoMark THEN Reset!Resting("done")
                ELSE [pc |-> "delete", code |-> k, mark |-> mark,
                      over |-> {d \in Confirms : confirm[d].pc = "delete"}, unlink |-> "none"]
<1>1. /\ confirm' = [confirm EXCEPT ![c] = s]
      /\ UNCHANGED <<mark, marks, asking, smsCode, links, proofs, unspent, complete, resetFaults>>
      /\ k \in 0..marks
  BY DEF Reset!Confirm, Reset!IInv, Reset!TypeOK
<1>2. s \in Reset!ConfirmStates
  BY <1>1, ResetBounds DEF Reset!IInv, Reset!TypeOK, Reset!Resting, Reset!ConfirmStates, Reset!Marks,
     Reset!NoMark, Reset!Flows
<1>3. s.pc \in {"delete", "verify", "proven", "refused"} =>
        /\ s.mark.no # 0 /\ s.pc = "delete" /\ s.unlink = "none"
        /\ \A d \in Confirms \ {c} : Reset!Reads(d) /\ confirm[d].mark.no = s.mark.no
                                     => \/ d \in s.over \/ c \in confirm[d].over
                                        \/ s.unlink = "refused" \/ confirm[d].unlink = "refused"
  <2>1. CASE mark = Reset!NoMark
    BY <2>1 DEF Reset!Resting
  <2>2. CASE mark # Reset!NoMark
    <3>1. s = [pc |-> "delete", code |-> k, mark |-> mark,
               over |-> {d \in Confirms : confirm[d].pc = "delete"}, unlink |-> "none"]
      BY <2>2
    <3> HIDE DEF s
    <3> QED BY <2>2, <3>1 DEF Reset!IInv, Reset!MarksRead, Reset!Reads
  <2> QED BY <2>1, <2>2
<1> HIDE DEF s
<1>4. Reset!MarksRead' /\ confirm' \in [Confirms -> Reset!ConfirmStates']
  BY <1>1, <1>2, <1>3, ResetConfirms
<1>5. Reset!TypeOK'
  BY <1>1, <1>4 DEF Reset!IInv, Reset!TypeOK, Reset!CompleteStates, Reset!Marks
<1>6. Reset!ProofsBought' /\ Reset!TokensTaken'
  BY <1>1 DEF Reset!IInv, Reset!ProofsBought, Reset!TokensTaken, Reset!Took
<1> QED BY <1>4, <1>5, <1>6 DEF Reset!IInv

\* A confirmation deletes the mark, or leaves it and goes on.
LEMMA ResetDelete ==
    ASSUME Reset!ResetAssumption, Reset!IInv, NEW c \in Confirms, NEW unlink \in {"taken", "refused"},
           Reset!Delete(c, unlink)
    PROVE  Reset!IInv'
<1> DEFINE s == IF confirm[c].mark.for = "reset" THEN [confirm[c] EXCEPT !.pc = "verify", !.unlink = unlink]
                ELSE Reset!Resting("done")
<1>1. /\ confirm' = [confirm EXCEPT ![c] = s] /\ mark' = IF unlink = "taken" THEN Reset!NoMark ELSE mark
      /\ UNCHANGED <<marks, asking, smsCode, links, proofs, unspent, complete>>
      /\ confirm[c] \in Reset!ConfirmStates /\ confirm[c].pc = "delete"
  BY DEF Reset!Delete, Reset!IInv, Reset!TypeOK
<1>2. PICK sms \in 0..marks, m \in Reset!Marks, over \in SUBSET Confirms, was \in {"none", "taken", "refused"} :
         confirm[c] = [pc |-> "delete", code |-> sms, mark |-> m, over |-> over, unlink |-> was]
  BY <1>1 DEF Reset!ConfirmStates
<1>3. \/ s = [pc |-> "verify", code |-> sms, mark |-> m, over |-> over, unlink |-> unlink]
      \/ s = [pc |-> "done", code |-> 0, mark |-> Reset!NoMark, over |-> {}, unlink |-> "none"]
  <2> DEFINE r == [confirm[c] EXCEPT !.pc = "verify"]
  <2>1. r = [pc |-> "verify", code |-> sms, mark |-> m, over |-> over, unlink |-> was]
    BY <1>2
  <2>2. [confirm[c] EXCEPT !.pc = "verify", !.unlink = unlink] = [r EXCEPT !.unlink = unlink]
    BY Zenon
  <2> HIDE DEF r
  <2>3. [r EXCEPT !.unlink = unlink]
        = [pc |-> "verify", code |-> sms, mark |-> m, over |-> over, unlink |-> unlink]
    BY <2>1
  <2> QED BY <2>2, <2>3 DEF Reset!Resting
<1> HIDE DEF s
<1>4. s \in Reset!ConfirmStates
  <2>1. Reset!NoMark \in Reset!Marks
    BY ResetBounds DEF Reset!Marks, Reset!NoMark, Reset!Flows
  <2> QED BY <1>3, <2>1, ResetBounds DEF Reset!ConfirmStates
<1>5. s.pc \in {"delete", "verify", "proven", "refused"} =>
        /\ s.mark.no # 0 /\ s.pc # "delete" /\ (s.unlink = "refused" \/ s.mark.no # mark'.no)
        /\ \A d \in Confirms \ {c} : Reset!Reads(d) /\ confirm[d].mark.no = s.mark.no
                                     => \/ d \in s.over \/ c \in confirm[d].over
                                        \/ s.unlink = "refused" \/ confirm[d].unlink = "refused"
  <2>1. Reset!NoMark.no = 0
    BY DEF Reset!NoMark
  <2>2. unlink = "taken" \/ (s.pc = "verify" => s.unlink = "refused")
    BY <1>3
  <2>3. s.pc = "verify" => s.mark = m /\ s.over = over /\ m.no # 0
    BY <1>1, <1>2, <1>3 DEF Reset!IInv, Reset!MarksRead, Reset!Reads
  <2>4. ASSUME s.pc = "verify", NEW d \in Confirms \ {c}, Reset!Reads(d), confirm[d].mark.no = s.mark.no
        PROVE  \/ d \in s.over \/ c \in confirm[d].over
               \/ s.unlink = "refused" \/ confirm[d].unlink = "refused"
    <3>1. \/ d \in confirm[c].over \/ c \in confirm[d].over
          \/ confirm[d].unlink = "refused"
      BY <1>1, <1>2, <2>3, <2>4 DEF Reset!IInv, Reset!MarksRead, Reset!Reads
    <3> QED BY <1>2, <2>3, <2>4, <3>1
  <2> QED BY <1>1, <1>3, <2>1, <2>2, <2>3, <2>4
<1>6. mark' \in {mark, Reset!NoMark}
  BY <1>1
<1>7. Reset!MarksRead' /\ confirm' \in [Confirms -> Reset!ConfirmStates']
  BY <1>1, <1>4, <1>5, <1>6, ResetConfirms
<1>8. Reset!TypeOK'
  <2>1. mark' \in Reset!Marks'
    BY <1>1, ResetBounds DEF Reset!Marks, Reset!NoMark, Reset!Flows, Reset!IInv, Reset!TypeOK
  <2>2. resetFaults' \in 0..MaxResetFaults
    BY ResetFault DEF Reset!Delete, Reset!May
  <2> QED BY <1>1, <1>7, <2>1, <2>2 DEF Reset!IInv, Reset!TypeOK, Reset!CompleteStates, Reset!Marks
<1>9. Reset!ProofsBought' /\ Reset!TokensTaken'
  BY <1>1 DEF Reset!IInv, Reset!ProofsBought, Reset!TokensTaken, Reset!Took
<1> QED BY <1>7, <1>8, <1>9 DEF Reset!IInv

\* A token of a proof nobody had keeps what was known of the others.
LEMMA ResetIssue ==
    ASSUME Reset!ResetAssumption, Reset!IInv, NEW proof \in 0..marks, NEW saved \in BOOLEAN,
           Reset!Issue(proof, saved),
           \A p \in proofs : p.proof # proof, UNCHANGED <<marks, complete>>
    PROVE  /\ Reset!IsFiniteSet(proofs')
           /\ proofs' \subseteq [token: 1..Reset!Cardinality(proofs'), proof: 0..marks]
           /\ unspent' \subseteq 1..Reset!Cardinality(proofs')
           /\ complete' \in [Completes -> Reset!CompleteStates'] /\ Reset!TokensTaken'
           /\ \A p, q \in proofs' : p.proof = q.proof => p = q
           /\ \A p \in proofs' : p \in proofs \/ p.proof = proof
<1> DEFINE n == Reset!Cardinality(proofs)
           t == n + 1
<1>1. /\ proofs' = proofs \union {[token |-> t, proof |-> proof]}
      /\ unspent' \subseteq unspent \union {t}
      /\ n \in Nat /\ proofs \subseteq [token: 1..n, proof: 0..marks] /\ unspent \subseteq 1..n
      /\ complete \in [Completes -> Reset!CompleteStates]
      /\ \A p, q \in proofs : p.proof = q.proof => p = q
  BY ResetBounds DEF Reset!Issue, Reset!IInv, Reset!TypeOK, Reset!ProofsBought
<1>2. Reset!IsFiniteSet(proofs') /\ Reset!Cardinality(proofs') = t
  <2> DEFINE new == [token |-> t, proof |-> proof]
  <2>1. new \notin proofs
    BY <1>1
  <2>2. IsFiniteSet(proofs) /\ Cardinality(proofs) = n
    BY ResetBounds, ResetSets
  <2>3. proofs' = proofs \union {new}
    BY <1>1
  <2> HIDE DEF n, new
  <2>4. /\ IsFiniteSet(proofs \union {new})
        /\ Cardinality(proofs \union {new}) = n + 1
    BY <2>1, <2>2, FS_AddElement
  <2>5. IsFiniteSet(proofs') /\ Cardinality(proofs') = t
    BY <2>3, <2>4
  <2> QED BY <2>5, ResetSets
<1>3. 1..n \subseteq 1..t /\ t \in 1..t /\ 0..n \subseteq 0..t /\ t \notin 0..n
  BY <1>1
<1> HIDE DEF n, t
<1>4. /\ proofs' \subseteq [token: 1..t, proof: 0..marks] /\ unspent' \subseteq 1..t
      /\ \A p, q \in proofs' : p.proof = q.proof => p = q
      /\ \A p \in proofs' : p \in proofs \/ p.proof = proof
  <2> DEFINE new == [token |-> t, proof |-> proof]
  <2>1. new \in [token: 1..t, proof: 0..marks] /\ new.proof = proof
    BY <1>3
  <2>2. [token: 1..n, proof: 0..marks] \subseteq [token: 1..t, proof: 0..marks]
    BY <1>3
  <2>3. proofs' = proofs \union {new}
    BY <1>1
  <2> HIDE DEF new
  <2>4. proofs' \subseteq [token: 1..t, proof: 0..marks] /\ unspent' \subseteq 1..t
    BY <1>1, <1>3, <2>1, <2>2, <2>3
  <2>5. \A p \in proofs' : p \in proofs \/ (p = new /\ p.proof = proof)
    BY <2>1, <2>3
  <2>6. \A p, q \in proofs' : p.proof = q.proof => p = q
    BY <1>1, <2>1, <2>5
  <2> QED BY <2>4, <2>5, <2>6
<1>5. complete' \in [Completes -> Reset!CompleteStates']
  BY <1>1, <1>2, <1>3 DEF Reset!CompleteStates, n
<1>6. Reset!TokensTaken'
  <2>1. \A d \in Completes : complete[d].token \in 0..n
    BY <1>1 DEF Reset!CompleteStates, n
  <2> QED BY <1>1, <1>3, <2>1 DEF Reset!IInv, Reset!TokensTaken, Reset!Took
<1> QED BY <1>2, <1>4, <1>5, <1>6

\* GoTrue takes a code once, and a proof is bought.
LEMMA ResetVerify ==
    ASSUME Reset!ResetAssumption, Reset!IInv, NEW c \in Confirms, NEW heard \in BOOLEAN,
           NEW saved \in BOOLEAN, Reset!Verify(c, heard, saved)
    PROVE  Reset!IInv'
<1> DEFINE right == confirm[c].code = smsCode /\ smsCode # 0
           s == [confirm[c] EXCEPT !.pc = IF right /\ heard THEN "proven" ELSE "refused"]
<1>1. /\ confirm' = [confirm EXCEPT ![c] = s]
      /\ smsCode' = IF right THEN 0 ELSE smsCode
      /\ IF right /\ heard THEN Reset!Issue(confirm[c].code, saved) ELSE UNCHANGED <<proofs, unspent>>
      /\ UNCHANGED <<mark, marks, asking, links, complete>>
      /\ confirm[c] \in Reset!ConfirmStates /\ confirm[c].pc = "verify"
      /\ smsCode \in 0..marks
  BY DEF Reset!Verify, Reset!IInv, Reset!TypeOK
<1>2. PICK sms \in 0..marks, m \in Reset!Marks, over \in SUBSET Confirms, unlink \in {"none", "taken", "refused"} :
         confirm[c] = [pc |-> "verify", code |-> sms, mark |-> m, over |-> over, unlink |-> unlink]
  BY <1>1 DEF Reset!ConfirmStates
<1>3. PICK pc \in {"proven", "refused"} :
         s = [pc |-> pc, code |-> sms, mark |-> m, over |-> over, unlink |-> unlink]
  BY <1>2
<1> HIDE DEF s
<1>4. s \in Reset!ConfirmStates
  BY <1>3 DEF Reset!ConfirmStates
<1>5. /\ s.mark.no # 0 /\ s.pc # "delete" /\ (s.unlink = "refused" \/ s.mark.no # mark'.no)
      /\ \A d \in Confirms \ {c} : Reset!Reads(d) /\ confirm[d].mark.no = s.mark.no
                                     => \/ d \in s.over \/ c \in confirm[d].over
                                        \/ s.unlink = "refused" \/ confirm[d].unlink = "refused"
  BY <1>1, <1>2, <1>3 DEF Reset!IInv, Reset!MarksRead, Reset!Reads, Reset!Passed
<1>6. Reset!MarksRead' /\ confirm' \in [Confirms -> Reset!ConfirmStates']
  BY <1>1, <1>4, <1>5, ResetConfirms
<1>7. ASSUME right, heard
      PROVE  /\ Reset!Issue(smsCode, saved) /\ \A p \in proofs : p.proof # smsCode
             /\ asking["reset"] => smsCode < marks
  BY <1>1, <1>7 DEF Reset!IInv, Reset!ProofsBought
<1>8. /\ Reset!IsFiniteSet(proofs')
      /\ proofs' \subseteq [token: 1..Reset!Cardinality(proofs'), proof: 0..marks]
      /\ unspent' \subseteq 1..Reset!Cardinality(proofs')
      /\ complete' \in [Completes -> Reset!CompleteStates'] /\ Reset!TokensTaken'
      /\ \A p, q \in proofs' : p.proof = q.proof => p = q
      /\ \A p \in proofs' : p \in proofs \/ (p.proof = smsCode /\ right)
  <2>1. CASE right /\ heard
    BY <1>1, <1>7, <2>1, ResetIssue
  <2>2. CASE ~(right /\ heard)
    BY <1>1, <2>2 DEF Reset!IInv, Reset!TypeOK, Reset!CompleteStates, Reset!TokensTaken, Reset!Took,
       Reset!ProofsBought
  <2> QED BY <2>1, <2>2
<1>9. resetFaults' \in 0..MaxResetFaults
  BY ResetFault DEF Reset!Verify, Reset!May
<1>10. Reset!TypeOK'
  <2>1. smsCode' \in 0..marks'
    BY <1>1, ResetBounds
  <2> QED BY <1>1, <1>6, <1>8, <1>9, <2>1 DEF Reset!IInv, Reset!TypeOK, Reset!Marks
<1>11. Reset!ProofsBought'
  <2>1. \A p \in proofs : p.proof \in 0..marks
    BY DEF Reset!IInv, Reset!TypeOK
  <2>2. asking["reset"] => smsCode' < marks /\ \A p \in proofs' : p.proof < marks
    BY <1>1, <1>8, ResetBounds DEF Reset!IInv, Reset!ProofsBought
  <2>3. \A p \in proofs' : p.proof = smsCode' => smsCode' = 0
    BY <1>1, <1>8 DEF Reset!IInv, Reset!ProofsBought
  <2>4. links = 1 => \A p \in proofs' : p.proof # 0
    BY <1>1, <1>8 DEF Reset!IInv, Reset!ProofsBought
  <2> QED BY <1>1, <1>8, <2>2, <2>3, <2>4 DEF Reset!ProofsBought
<1> QED BY <1>6, <1>8, <1>10, <1>11 DEF Reset!IInv

\* A link buys a proof as a code does.
LEMMA ResetFromRecovery ==
    ASSUME Reset!ResetAssumption, Reset!IInv, NEW saved \in BOOLEAN, Reset!FromRecovery(saved)
    PROVE  Reset!IInv'
<1>1. /\ links = 1 /\ links' = 0 /\ Reset!Issue(0, saved)
      /\ UNCHANGED <<mark, marks, asking, smsCode, confirm, complete>>
  BY DEF Reset!FromRecovery, Reset!IInv, Reset!TypeOK
<1>2. 0 \in 0..marks /\ \A p \in proofs : p.proof # 0
  BY <1>1, ResetBounds DEF Reset!IInv, Reset!ProofsBought
<1>3. /\ Reset!IsFiniteSet(proofs')
      /\ proofs' \subseteq [token: 1..Reset!Cardinality(proofs'), proof: 0..marks]
      /\ unspent' \subseteq 1..Reset!Cardinality(proofs')
      /\ complete' \in [Completes -> Reset!CompleteStates'] /\ Reset!TokensTaken'
      /\ \A p, q \in proofs' : p.proof = q.proof => p = q
      /\ \A p \in proofs' : p \in proofs \/ p.proof = 0
  BY <1>1, <1>2, ResetIssue
<1>4. Reset!TypeOK'
  <2>1. resetFaults' \in 0..MaxResetFaults
    BY ResetFault DEF Reset!FromRecovery, Reset!May
  <2> QED BY <1>1, <1>3, <2>1 DEF Reset!IInv, Reset!TypeOK, Reset!ConfirmStates, Reset!Marks
<1>5. Reset!ProofsBought'
  <2>1. smsCode \in 0..marks /\ marks \in Nat
    BY ResetBounds DEF Reset!IInv, Reset!TypeOK
  <2> QED BY <1>1, <1>3, <2>1 DEF Reset!IInv, Reset!ProofsBought
<1>6. Reset!MarksRead'
  BY <1>1, ResetUnmarked
<1> QED BY <1>3, <1>4, <1>5, <1>6 DEF Reset!IInv

\* A completion moves, and takes a token that was there.
LEMMA ResetCompletes ==
    ASSUME Reset!ResetAssumption, Reset!IInv, NEW d \in Completes, NEW s \in Reset!CompleteStates,
           complete' = [complete EXCEPT ![d] = s], unspent' \subseteq unspent,
           s.pc \in {"write", "written", "refused"} =>
             /\ s.token \notin unspent' \union {0}
             /\ (Reset!Took(d) /\ s.token = complete[d].token) \/ s.token \in unspent,
           UNCHANGED <<mark, marks, asking, smsCode, links, proofs, confirm, resetFaults>>
    PROVE  Reset!IInv'
<1>1. complete \in [Completes -> Reset!CompleteStates] /\ Reset!CompleteStates' = Reset!CompleteStates
  BY DEF Reset!IInv, Reset!TypeOK, Reset!CompleteStates
<1>2. \A e \in Completes : complete'[e] = IF e = d THEN s ELSE complete[e]
  BY <1>1
<1>3. Reset!TypeOK'
  BY <1>1 DEF Reset!IInv, Reset!TypeOK, Reset!ConfirmStates, Reset!Marks
<1>4. Reset!ProofsBought' /\ Reset!MarksRead'
  BY ResetUnmarked DEF Reset!IInv, Reset!ProofsBought
<1>5. Reset!TokensTaken'
  <2>1. \A e \in Completes : Reset!Took(e)' => complete'[e].token \notin unspent' \union {0}
    BY <1>2 DEF Reset!IInv, Reset!TokensTaken, Reset!Took
  <2>2. ASSUME NEW e \in Completes, NEW f \in Completes, Reset!Took(e)', Reset!Took(f)', e # f
        PROVE  complete'[e].token # complete'[f].token
    BY <1>2, <2>2 DEF Reset!IInv, Reset!TokensTaken, Reset!Took
  <2> QED BY <2>1, <2>2 DEF Reset!TokensTaken
<1> QED BY <1>3, <1>4, <1>5 DEF Reset!IInv

\* A completion takes the token of a proof.
LEMMA ResetComplete ==
    ASSUME Reset!ResetAssumption, Reset!IInv, NEW d \in Completes, NEW t \in unspent,
           Reset!Complete(d, t)
    PROVE  Reset!IInv'
<1> DEFINE s == [pc |-> "consume", token |-> t]
<1>1. s \in Reset!CompleteStates
  BY ResetBounds DEF Reset!IInv, Reset!TypeOK, Reset!CompleteStates
<1> QED BY <1>1, ResetCompletes DEF Reset!Complete

\* A token is consumed by one completion.
LEMMA ResetConsume ==
    ASSUME Reset!ResetAssumption, Reset!IInv, NEW d \in Completes, Reset!Consume(d)
    PROVE  Reset!IInv'
<1>1. PICK t \in 0..Reset!Cardinality(proofs) : complete[d] = [pc |-> "consume", token |-> t]
  BY DEF Reset!IInv, Reset!TypeOK, Reset!CompleteStates, Reset!Consume
<1> DEFINE s == IF t \in unspent THEN [pc |-> "write", token |-> t] ELSE [pc |-> "done", token |-> 0]
<1>2. [complete[d] EXCEPT !.pc = "write"] = [pc |-> "write", token |-> t] /\ complete[d].token = t
  BY <1>1
<1>3. complete' = [complete EXCEPT ![d] = s] /\ unspent' = unspent \ {t}
      /\ UNCHANGED <<mark, marks, asking, smsCode, links, proofs, confirm, resetFaults>>
  BY <1>2 DEF Reset!Consume
<1>4. s \in Reset!CompleteStates
  BY ResetBounds DEF Reset!CompleteStates
<1>5. s.pc \in {"write", "written", "refused"} => s.token \notin unspent' \union {0} /\ s.token \in unspent
  BY <1>3 DEF Reset!IInv, Reset!TypeOK
<1> HIDE DEF s
<1> QED BY <1>3, <1>4, <1>5, ResetCompletes

\* A completion that took the token writes the password.
LEMMA ResetWrite ==
    ASSUME Reset!ResetAssumption, Reset!IInv, NEW d \in Completes,
           NEW outcome \in {"written", "refused"}, Reset!Write(d, outcome)
    PROVE  Reset!IInv'
<1>1. PICK t \in 0..Reset!Cardinality(proofs) : complete[d] = [pc |-> "write", token |-> t]
  BY DEF Reset!IInv, Reset!TypeOK, Reset!CompleteStates, Reset!Write
<1> DEFINE s == [pc |-> outcome, token |-> t]
<1>2. [complete[d] EXCEPT !.pc = outcome] = s /\ complete[d].token = t /\ s.token = t
  BY <1>1
<1>3. complete' = [complete EXCEPT ![d] = s]
      /\ UNCHANGED <<mark, marks, asking, smsCode, links, proofs, unspent, confirm, resetFaults>>
  BY <1>2 DEF Reset!Write
<1>4. s \in Reset!CompleteStates
  BY DEF Reset!CompleteStates
<1>5. Reset!Took(d) /\ t \notin unspent \union {0}
  BY <1>1 DEF Reset!Took, Reset!IInv, Reset!TokensTaken
<1> HIDE DEF s
<1> QED BY <1>2, <1>3, <1>4, <1>5, ResetCompletes

\* Each step of a reset keeps the invariant.
LEMMA ResetSteps ==
    ASSUME Reset!ResetAssumption, Reset!IInv, [Reset!Next]_(Reset!resetVars)
    PROVE  Reset!IInv'
<1>1. CASE UNCHANGED Reset!resetVars
  BY <1>1 DEF Reset!resetVars, Reset!IInv, Reset!TypeOK, Reset!ConfirmStates, Reset!CompleteStates,
     Reset!Marks, Reset!ProofsBought, Reset!TokensTaken, Reset!Took, Reset!MarksRead, Reset!Reads,
     Reset!Passed
<1>2. CASE Reset!Next
  BY <1>2, ResetAsk, ResetSend, ResetExpireMark, ResetFromRecovery, ResetDelete, ResetConfirm,
     ResetVerify, ResetConsume, ResetComplete, ResetWrite DEF Reset!Next
<1> QED BY <1>1, <1>2

\* The invariant of a reset gives what is said of its proofs.
LEMMA ResetKept ==
    ASSUME Reset!IInv PROVE Reset!OneChangePerProof /\ Reset!TypeOK
BY DEF Reset!IInv, Reset!OneChangePerProof, Reset!ProofsBought, Reset!TokensTaken, Reset!Took,
   Reset!MarksRead, Reset!Reads

\* The variables of Credentials.
secret == v2
session == v3
device == v1
change == v4
back == v5
shut == v6
spared == v7
credentialFaults == v8
tables == v9
USE DEF secret, session, device, change, back, shut, spared, credentialFaults, tables

-----------------------------------------------------------------------------
(* A change of the credential (auth: src/password.ts, src/identifier.ts).     *)

\* The finiteness and the count of the module's own FiniteSets.
LEMMA CredentialSets ==
    /\ \A S : Credential!IsFiniteSet(S) <=> IsFiniteSet(S)
    /\ \A S : Credential!Cardinality(S) = Cardinality(S)
<1>1. \A S : Credential!IsFiniteSet(S) <=> IsFiniteSet(S)
  BY DEF Credential!IsFiniteSet, IsFiniteSet
<1>2. \A S : Credential!Cardinality(S) = Cardinality(S)
  BY Zenon DEF Credential!Cardinality, Cardinality
<1> QED BY <1>1, <1>2

SessionRecord == [at : {"none", "opened", "given", "proof", "gone"}, from : {0} \cup ChangeDevices,
                  under : 0..secret]
ChangeRecord == [pc : Credential!Places, proof : {0} \cup Credential!Sessions, todo : SUBSET ChangeDevices,
                 was : 0..secret]
Asked == {c \in ChangeCalls : change[c].pc \notin {"idle", "write"}}

\* What is known of the secret, and of the types with it.
LEMMA CredentialTypes ==
    ASSUME Credential!CredentialsAssumption, Credential!IInv
    PROVE  /\ secret \in Nat /\ secret <= Cardinality(Asked) /\ IsFiniteSet(Asked) /\ Cardinality(Asked) \in Nat
           /\ session \in [Credential!Sessions -> SessionRecord] /\ change \in [ChangeCalls -> ChangeRecord]
           /\ back \in [ChangeCalls -> SUBSET ChangeDevices] /\ device \subseteq ChangeDevices
           /\ tables \subseteq SUBSET ChangeDevices /\ shut \subseteq ChangeCalls /\ spared \subseteq ChangeCalls
           /\ credentialFaults \in 0..MaxCredentialFaults /\ MaxCredentialFaults \in Nat
           /\ IsFiniteSet(ChangeCalls) /\ \A c \in ChangeCalls : Credential!Kept(c)
<1>1. IsFiniteSet(ChangeCalls)
  BY CredentialSets DEF Credential!CredentialsAssumption
<1>2. IsFiniteSet(Asked) /\ Cardinality(Asked) \in Nat /\ Cardinality(ChangeCalls) \in Nat
  BY <1>1, FS_Subset, FS_CardinalityType DEF Asked
<1>3. secret \in 0..Cardinality(ChangeCalls) /\ secret <= Cardinality(Asked)
  <2>1. /\ Credential!Cardinality(ChangeCalls) = Cardinality(ChangeCalls)
        /\ Credential!Cardinality(Asked) = Cardinality(Asked)
    BY CredentialSets
  <2> QED BY <2>1 DEF Credential!IInv, Credential!TypeOK, Credential!Counted, Asked
<1> QED BY <1>1, <1>2, <1>3 DEF Credential!IInv, Credential!TypeOK, SessionRecord, ChangeRecord,
                               Credential!CredentialsAssumption

\* What becomes of a session in a step: nothing, it is opened under the secret in force, or it
\* moves on under the one it was opened with.
SessionsGoOn ==
    \A s \in Credential!Sessions :
        \/ session'[s] = session[s]
        \/ /\ session[s].at = "none" /\ session'[s].at # "gone" /\ session'[s].at # "none" /\ session'[s].under = secret
           /\ session'[s].at \in {"opened", "given"} => session'[s].from \in ChangeDevices
        \/ /\ session[s].at # "none" /\ session'[s].at # "none" /\ session'[s].under = session[s].under
           /\ session'[s].from = session[s].from
           /\ session'[s].at \in {"opened", "given"} => session[s].at \in {"opened", "given"}
           /\ session[s].at = "gone" => session'[s].at = "gone"

\* The types are kept with the count of who wrote.
LEMMA CredentialTyped ==
    ASSUME Credential!CredentialsAssumption, Credential!IInv, tables' \subseteq SUBSET ChangeDevices,
           secret' \in Nat, secret' <= Cardinality(Asked'), SessionsGoOn,
           session' \in [Credential!Sessions -> SessionRecord'], change' \in [ChangeCalls -> ChangeRecord'],
           back' \in [ChangeCalls -> SUBSET ChangeDevices], device' \subseteq ChangeDevices,
           shut' \subseteq ChangeCalls, spared' \subseteq ChangeCalls,
           credentialFaults' \in 0..MaxCredentialFaults
    PROVE  Credential!TypeOK' /\ Credential!Counted'
<1>1. IsFiniteSet(ChangeCalls)
  BY CredentialTypes
<1>2. Asked' \subseteq ChangeCalls
  BY DEF Asked
<1>3. Cardinality(Asked') \in Nat /\ Cardinality(ChangeCalls) \in Nat /\ Cardinality(Asked') <= Cardinality(ChangeCalls)
  BY <1>1, <1>2, FS_Subset, FS_CardinalityType
<1>4. /\ Credential!Cardinality(ChangeCalls) = Cardinality(ChangeCalls)
      /\ Credential!Cardinality(Asked') = Cardinality(Asked')
  BY CredentialSets
<1>5. secret' \in 0..Credential!Cardinality(ChangeCalls) /\ secret' <= Credential!Cardinality(Asked')
  <2> HIDE DEF Asked
  <2> QED BY <1>3, <1>4
<1>6. \A s \in Credential!Sessions : session'[s].at \in {"opened", "given"} => session'[s].from \in ChangeDevices
  BY DEF SessionsGoOn, Credential!IInv, Credential!TypeOK
<1>8. Credential!TypeOK'
  BY <1>5, <1>6 DEF Credential!TypeOK, SessionRecord, ChangeRecord, Credential!Places, Credential!Sessions
<1>7. Credential!Counted'
  BY <1>5 DEF Credential!Counted, Asked
<1> QED BY <1>7, <1>8

\* The faults of a change stay within their bound.
LEMMA CredentialCounts ==
    ASSUME Credential!CredentialsAssumption, Credential!IInv, NEW ok \in BOOLEAN, Credential!May(ok)
    PROVE  credentialFaults' \in 0..MaxCredentialFaults
<1>1. IF ok THEN credentialFaults' = credentialFaults
      ELSE credentialFaults < MaxCredentialFaults /\ credentialFaults' = credentialFaults + 1
  BY Zenon DEF Credential!May, Credential!Fault
<1> QED BY <1>1, CredentialTypes

\* Who does not move keeps to it.
LEMMA CredentialOther ==
    ASSUME Credential!CredentialsAssumption, Credential!IInv, SessionsGoOn, NEW c \in ChangeCalls,
           change'[c] = change[c], secret' \in Nat, secret <= secret', c \in shut' <=> c \in shut,
           spared \subseteq spared',
           change[c].pc \in {"kick", "ok"} => device' \subseteq device \cup back'[c] /\ back[c] \cap device' \subseteq back'[c]
    PROVE  Credential!Kept(c)'
<1>1. Credential!Kept(c) /\ secret \in Nat /\ change[c] \in ChangeRecord
  BY CredentialTypes
<1>2. change[c].was \in Nat /\ change[c].proof \in {0} \cup Credential!Sessions
  BY <1>1 DEF ChangeRecord
<1>3. Credential!Proven(c)'
  BY <1>1, <1>2 DEF SessionsGoOn, Credential!Kept, Credential!Proven
<1>4. Credential!SignedOut(c)'
  <2> SUFFICES ASSUME c \in shut'
               PROVE  /\ change'[c].pc \notin {"idle", "write", "revoke"} /\ change'[c].was < secret'
                      /\ change'[c].proof # 0 /\ session'[change'[c].proof].at = "gone"
                      /\ \A s \in Credential!Sessions :
                            session'[s].at \notin {"none", "gone"} => session'[s].under > change'[c].was
    BY DEF Credential!SignedOut
  <2>1. /\ change[c].pc \notin {"idle", "write", "revoke"} /\ change[c].was < secret
        /\ change[c].proof # 0 /\ session[change[c].proof].at = "gone"
        /\ \A s \in Credential!Sessions : session[s].at \notin {"none", "gone"} => session[s].under > change[c].was
    BY <1>1 DEF Credential!Kept, Credential!SignedOut
  <2>2. change[c].was < secret'
    BY <1>1, <1>2, <2>1
  <2>3. session'[change[c].proof].at = "gone"
    BY <1>2, <2>1 DEF SessionsGoOn
  <2>4. ASSUME NEW s \in Credential!Sessions, session'[s].at \notin {"none", "gone"}
        PROVE  session'[s].under > change[c].was
    BY <2>1, <2>4 DEF SessionsGoOn
  <2> QED BY <2>1, <2>2, <2>3, <2>4
<1>5. Credential!Closed(c)'
  <2>1. change'[c].pc \in {"revoke", "list", "kick", "ok"} => change'[c].was < secret'
    BY <1>1, <1>2 DEF Credential!Kept, Credential!Closed
  <2>2. change'[c].pc = "close" => change'[c].proof # 0
    BY <1>1 DEF Credential!Kept, Credential!Closed
  <2>3. change'[c].pc = "failed" /\ change'[c].proof # 0 => session'[change'[c].proof].at = "gone" \/ c \in spared'
    <3> SUFFICES ASSUME change[c].pc = "failed", change[c].proof # 0, c \notin spared
                 PROVE  session'[change[c].proof].at = "gone"
      OBVIOUS
    <3>1. session[change[c].proof].at = "gone"
      BY <1>1 DEF Credential!Kept, Credential!Closed
    <3> QED BY <1>2, <3>1 DEF SessionsGoOn
  <2> QED BY <2>1, <2>2, <2>3 DEF Credential!Closed
<1>6. Credential!Swept(c)'
  BY <1>1 DEF Credential!Kept, Credential!Swept
<1> QED BY <1>3, <1>4, <1>5, <1>6 DEF Credential!Kept

\* Signing sessions out leaves the others as they are.
LEMMA CredentialGone ==
    ASSUME Credential!CredentialsAssumption, Credential!IInv, NEW S \in SUBSET Credential!Sessions,
           \A s \in S : session[s].at # "none", session' = Credential!GoneFor(S), secret' = secret
    PROVE  /\ session' \in [Credential!Sessions -> SessionRecord'] /\ SessionsGoOn
           /\ \A s \in S : session'[s].at = "gone"
           /\ \A s \in Credential!Sessions : s \notin S => session'[s] = session[s]
<1>1. session \in [Credential!Sessions -> SessionRecord]
  BY CredentialTypes
<1>2. \A s \in Credential!Sessions :
        session'[s] = IF s \in S THEN [session[s] EXCEPT !.at = "gone"] ELSE session[s]
  BY DEF Credential!GoneFor
<1>3. \A s \in S : /\ session'[s].at = "gone" /\ session'[s].under = session[s].under
                   /\ session'[s] \in SessionRecord /\ session'[s].from = session[s].from
  BY <1>1, <1>2 DEF SessionRecord
<1>4. session' \in [Credential!Sessions -> SessionRecord]
  <2>1. session' = [s \in Credential!Sessions |-> session'[s]]
    BY DEF Credential!GoneFor
  <2>2. \A s \in Credential!Sessions : session'[s] \in SessionRecord
    BY <1>1, <1>2, <1>3
  <2> QED BY <2>1, <2>2
<1>5. SessionRecord' = SessionRecord
  BY DEF SessionRecord
<1>6. SessionsGoOn
  BY <1>2, <1>3 DEF SessionsGoOn
<1> QED BY <1>2, <1>3, <1>4, <1>5, <1>6

\* A session is opened under the secret in force.
LEMMA CredentialOpens ==
    ASSUME Credential!CredentialsAssumption, Credential!IInv, NEW s \in Credential!Sessions,
           NEW where \in {"opened", "proof"}, NEW d \in {0} \cup ChangeDevices, where = "opened" => d \in ChangeDevices, Credential!Opens(s, where, d),
           secret' = secret
    PROVE  /\ session' \in [Credential!Sessions -> SessionRecord'] /\ SessionsGoOn
           /\ session'[s].at = where
<1>1. session \in [Credential!Sessions -> SessionRecord] /\ secret \in Nat
  BY CredentialTypes
<1> DEFINE r == [at |-> where, from |-> d, under |-> secret]
<1>2. session' = [session EXCEPT ![s] = r] /\ session[s].at = "none"
  BY DEF Credential!Opens
<1>3. r \in SessionRecord /\ r.at = where /\ r.under = secret /\ r.from = d
  BY <1>1 DEF SessionRecord
<1>4. SessionRecord' = SessionRecord
  BY DEF SessionRecord
<1> HIDE DEF r
<1>5. session'[s] = r /\ \A t \in Credential!Sessions : t # s => session'[t] = session[t]
  BY <1>1, <1>2
<1>6. SessionsGoOn
  BY <1>2, <1>3, <1>5 DEF SessionsGoOn
<1> QED BY <1>1, <1>2, <1>3, <1>4, <1>5, <1>6

\* One call acts, and the secret stays.
LEMMA CredentialActs ==
    ASSUME Credential!CredentialsAssumption, Credential!IInv, tables' \subseteq SUBSET ChangeDevices,
           SessionsGoOn, secret' = secret,
           session' \in [Credential!Sessions -> SessionRecord'], NEW c \in ChangeCalls,
           change' \in [ChangeCalls -> ChangeRecord'], \A d \in ChangeCalls : d # c => change'[d] = change[d],
           change[c].pc \notin {"idle", "write"} => change'[c].pc \notin {"idle", "write"},
           back' \in [ChangeCalls -> SUBSET ChangeDevices], \A d \in ChangeCalls : d # c => back'[d] = back[d],
           device' \subseteq ChangeDevices,
           device' \subseteq device, shut' \subseteq ChangeCalls, spared' \subseteq ChangeCalls,
           spared \subseteq spared', \A d \in ChangeCalls : d # c => (d \in shut' <=> d \in shut),
           credentialFaults' \in 0..MaxCredentialFaults, Credential!Kept(c)'
    PROVE  Credential!IInv'
<1>1. secret \in Nat /\ secret <= Cardinality(Asked)
  BY CredentialTypes
<1>2. Asked \subseteq Asked' /\ Asked' \subseteq ChangeCalls
  BY DEF Asked
<1>3. secret' <= Cardinality(Asked')
  <2>1. Cardinality(Asked) <= Cardinality(Asked') /\ Cardinality(Asked) \in Nat /\ Cardinality(Asked') \in Nat
    BY <1>2, CredentialTypes, FS_Subset, FS_CardinalityType
  <2> HIDE DEF Asked
  <2> QED BY <1>1, <2>1
<1>5. Credential!TypeOK' /\ Credential!Counted'
  BY <1>1, <1>3, CredentialTyped
<1>4. ASSUME NEW d \in ChangeCalls PROVE Credential!Kept(d)'
  <2>1. CASE d = c
    BY <2>1
  <2>2. CASE d # c
    <3>1. change'[d] = change[d] /\ back'[d] = back[d] /\ (d \in shut' <=> d \in shut)
      BY <2>2
    <3>2. secret' \in Nat /\ secret <= secret'
      BY <1>1
    <3> QED BY <3>1, <3>2, CredentialOther
  <2> QED BY <2>1, <2>2
<1> QED BY <1>4, <1>5 DEF Credential!IInv

\* Of a call that moves on with the proof and the secret it has.
LEMMA CredentialStays ==
    ASSUME Credential!CredentialsAssumption, Credential!IInv, SessionsGoOn, secret' = secret, NEW c \in ChangeCalls,
           change'[c].proof = change[c].proof, change'[c].was = change[c].was, c \in shut' <=> c \in shut,
           change'[c].pc \notin {"idle", "write", "revoke"}
    PROVE  Credential!Proven(c)' /\ Credential!SignedOut(c)'
<1>1. Credential!Kept(c) /\ change[c] \in ChangeRecord
  BY CredentialTypes
<1>2. change[c].proof \in {0} \cup Credential!Sessions
  BY <1>1 DEF ChangeRecord
<1>3. Credential!Proven(c)'
  BY <1>1, <1>2 DEF SessionsGoOn, Credential!Kept, Credential!Proven
<1>4. Credential!SignedOut(c)'
  <2> SUFFICES ASSUME c \in shut'
               PROVE  /\ change'[c].was < secret'
                      /\ change'[c].proof # 0 /\ session'[change'[c].proof].at = "gone"
                      /\ \A s \in Credential!Sessions :
                            session'[s].at \notin {"none", "gone"} => session'[s].under > change'[c].was
    BY DEF Credential!SignedOut
  <2>1. /\ change[c].was < secret
        /\ change[c].proof # 0 /\ session[change[c].proof].at = "gone"
        /\ \A s \in Credential!Sessions : session[s].at \notin {"none", "gone"} => session[s].under > change[c].was
    BY <1>1 DEF Credential!Kept, Credential!SignedOut
  <2>2. secret \in Nat /\ change[c].was \in Nat
    BY <1>1, CredentialTypes DEF ChangeRecord
  <2>3. session'[change[c].proof].at = "gone"
    BY <1>2, <2>1 DEF SessionsGoOn
  <2>4. ASSUME NEW s \in Credential!Sessions, session'[s].at \notin {"none", "gone"}
        PROVE  session'[s].under > change[c].was
    BY <2>1, <2>2, <2>4 DEF SessionsGoOn
  <2> QED BY <2>1, <2>3, <2>4
<1> QED BY <1>3, <1>4

\* One call changes, and the others stay as they are.
LEMMA CredentialChanges ==
    ASSUME Credential!CredentialsAssumption, Credential!IInv, NEW c \in ChangeCalls, secret' \in Nat, secret <= secret',
           NEW r, change' = [change EXCEPT ![c] = r], r \in ChangeRecord'
    PROVE  /\ change' \in [ChangeCalls -> ChangeRecord'] /\ change'[c] = r
           /\ \A d \in ChangeCalls : d # c => change'[d] = change[d]
<1>1. change \in [ChangeCalls -> ChangeRecord] /\ secret \in Nat
  BY CredentialTypes
<1>2. 0..secret \subseteq 0..secret'
  BY <1>1
<1>3. change \in [ChangeCalls -> ChangeRecord']
  BY <1>1, <1>2 DEF ChangeRecord
<1> QED BY <1>3

\* A change that goes on keeps its proof, the secret it saw and what it has left to do.
LEMMA CredentialTo ==
    ASSUME Credential!CredentialsAssumption, Credential!IInv, NEW c \in ChangeCalls, secret' = secret,
           NEW pc \in Credential!Places, Credential!To(c, pc)
    PROVE  /\ change' \in [ChangeCalls -> ChangeRecord'] /\ change'[c].pc = pc
           /\ change'[c].proof = change[c].proof /\ change'[c].was = change[c].was
           /\ change'[c].todo = change[c].todo
           /\ \A d \in ChangeCalls : d # c => change'[d] = change[d]
<1>1. change \in [ChangeCalls -> ChangeRecord] /\ change[c] \in ChangeRecord /\ ChangeRecord' = ChangeRecord
      /\ secret \in Nat
  BY CredentialTypes DEF ChangeRecord
<1> DEFINE r == [change[c] EXCEPT !.pc = pc]
<1>2. change' = [change EXCEPT ![c] = r]
  BY <1>1 DEF Credential!To
<1>3. r \in ChangeRecord /\ r.pc = pc /\ r.proof = change[c].proof /\ r.was = change[c].was /\ r.todo = change[c].todo
  BY <1>1 DEF ChangeRecord
<1> HIDE DEF r
<1> QED BY <1>1, <1>2, <1>3

\* Two fields of a call change at once.
LEMMA CredentialRecord ==
    ASSUME NEW A, NEW B, NEW C, NEW D, NEW r \in [pc : A, proof : B, todo : C, was : D], NEW x \in A,
           NEW p \in B, NEW t \in C, NEW w \in D
    PROVE  /\ LET q == [r EXCEPT !.pc = x, !.proof = p] IN
              /\ q \in [pc : A, proof : B, todo : C, was : D]
              /\ q.pc = x /\ q.proof = p /\ q.todo = r.todo /\ q.was = r.was
           /\ LET q == [r EXCEPT !.was = w, !.pc = x] IN
              /\ q \in [pc : A, proof : B, todo : C, was : D]
              /\ q.pc = x /\ q.proof = r.proof /\ q.todo = r.todo /\ q.was = w
           /\ LET q == [r EXCEPT !.pc = x, !.todo = t] IN
              /\ q \in [pc : A, proof : B, todo : C, was : D]
              /\ q.pc = x /\ q.proof = r.proof /\ q.todo = t /\ q.was = r.was
<1>1. LET q == [[r EXCEPT !.pc = x] EXCEPT !.proof = p] IN
        /\ q \in [pc : A, proof : B, todo : C, was : D]
        /\ q.pc = x /\ q.proof = p /\ q.todo = r.todo /\ q.was = r.was
  OBVIOUS
<1>2. LET q == [[r EXCEPT !.was = w] EXCEPT !.pc = x] IN
        /\ q \in [pc : A, proof : B, todo : C, was : D]
        /\ q.pc = x /\ q.proof = r.proof /\ q.todo = r.todo /\ q.was = w
  OBVIOUS
<1>3. LET q == [[r EXCEPT !.pc = x] EXCEPT !.todo = t] IN
        /\ q \in [pc : A, proof : B, todo : C, was : D]
        /\ q.pc = x /\ q.proof = r.proof /\ q.todo = t /\ q.was = r.was
  OBVIOUS
<1>4. /\ [[r EXCEPT !.pc = x] EXCEPT !.proof = p] = [r EXCEPT !.pc = x, !.proof = p]
      /\ [[r EXCEPT !.was = w] EXCEPT !.pc = x] = [r EXCEPT !.was = w, !.pc = x]
      /\ [[r EXCEPT !.pc = x] EXCEPT !.todo = t] = [r EXCEPT !.pc = x, !.todo = t]
  OBVIOUS
<1> QED BY <1>1, <1>2, <1>3, <1>4

\* A step that leaves the sessions alone.
LEMMA SessionsRest ==
    ASSUME Credential!CredentialsAssumption, Credential!IInv, session' = session, secret' \in Nat, secret <= secret'
    PROVE  SessionsGoOn /\ session' \in [Credential!Sessions -> SessionRecord']
<1>1. session \in [Credential!Sessions -> SessionRecord] /\ secret \in Nat
  BY CredentialTypes
<1>2. 0..secret \subseteq 0..secret'
  BY <1>1
<1> QED BY <1>1, <1>2 DEF SessionRecord, SessionsGoOn

\* A step in which no call acts.
LEMMA CredentialElsewhere ==
    ASSUME Credential!CredentialsAssumption, Credential!IInv, tables' \subseteq SUBSET ChangeDevices,
           SessionsGoOn, secret' = secret,
           session' \in [Credential!Sessions -> SessionRecord'], change' = change,
           back' \in [ChangeCalls -> SUBSET ChangeDevices], device' \subseteq ChangeDevices,
           \A d \in ChangeCalls : change[d].pc \in {"kick", "ok"} => back[d] \subseteq back'[d] /\ device' \subseteq device \cup back'[d],
           shut' = shut, spared' = spared, credentialFaults' = credentialFaults
    PROVE  Credential!IInv'
<1>1. /\ secret \in Nat /\ secret <= Cardinality(Asked) /\ change \in [ChangeCalls -> ChangeRecord]
      /\ shut \subseteq ChangeCalls /\ spared \subseteq ChangeCalls /\ credentialFaults \in 0..MaxCredentialFaults
  BY CredentialTypes
<1>2. Asked' = Asked /\ ChangeRecord' = ChangeRecord
  BY DEF Asked, ChangeRecord
<1>3. Credential!TypeOK' /\ Credential!Counted'
  BY <1>1, <1>2, CredentialTyped
<1>4. \A d \in ChangeCalls : Credential!Kept(d)'
  BY <1>1, CredentialOther
<1> QED BY <1>3, <1>4 DEF Credential!IInv

\* A sign-in opens a session under the secret there is.
LEMMA CredentialSignIn ==
    ASSUME Credential!CredentialsAssumption, Credential!IInv, tables' \subseteq SUBSET ChangeDevices,
           NEW s \in Credential!Sessions, NEW d \in ChangeDevices,
           Credential!SignIn(s, d)
    PROVE  Credential!IInv'
<1>1. /\ Credential!Opens(s, "opened", d) /\ change' = change /\ shut' = shut /\ spared' = spared
      /\ secret' = secret /\ device' = device /\ back' = back /\ credentialFaults' = credentialFaults
  BY DEF Credential!SignIn, Credential!ChangeKeeps
<1>2. session' \in [Credential!Sessions -> SessionRecord'] /\ SessionsGoOn
  BY <1>1, CredentialOpens
<1>3. back \in [ChangeCalls -> SUBSET ChangeDevices] /\ device \subseteq ChangeDevices
  BY CredentialTypes
<1> QED BY <1>1, <1>2, <1>3, CredentialElsewhere

\* A device that is registered is given to a session under the secret there is.
LEMMA CredentialRegister ==
    ASSUME Credential!CredentialsAssumption, Credential!IInv, tables' \subseteq SUBSET ChangeDevices,
           NEW s \in Credential!Sessions, Credential!Register(s)
    PROVE  Credential!IInv'
<1>1. /\ session[s].at = "opened" /\ session' = [session EXCEPT ![s].at = "given"]
      /\ device' = device \cup {session[s].from}
      /\ back' = [c \in ChangeCalls |-> IF change[c].pc \in {"kick", "ok"} THEN back[c] \cup {session[s].from}
                                                                          ELSE back[c]]
      /\ change' = change /\ shut' = shut /\ spared' = spared /\ secret' = secret
      /\ credentialFaults' = credentialFaults
  BY DEF Credential!Register, Credential!Holds, Credential!ChangeKeeps
<1>2. /\ session \in [Credential!Sessions -> SessionRecord] /\ SessionRecord' = SessionRecord
      /\ session[s].from \in ChangeDevices
      /\ back \in [ChangeCalls -> SUBSET ChangeDevices] /\ device \subseteq ChangeDevices
  BY <1>1, CredentialTypes DEF Credential!IInv, Credential!TypeOK, SessionRecord
<1> DEFINE r == [session[s] EXCEPT !.at = "given"]
<1>3. session' = [session EXCEPT ![s] = r]
  BY <1>1, <1>2
<1>4. r \in SessionRecord /\ r.at = "given" /\ r.from = session[s].from /\ r.under = session[s].under
  BY <1>2 DEF SessionRecord
<1> HIDE DEF r
<1>5. /\ session' \in [Credential!Sessions -> SessionRecord'] /\ session'[s] = r
      /\ \A t \in Credential!Sessions : t # s => session'[t] = session[t]
  BY <1>2, <1>3, <1>4
<1>6. SessionsGoOn
  BY <1>1, <1>4, <1>5 DEF SessionsGoOn
<1>7. back' \in [ChangeCalls -> SUBSET ChangeDevices] /\ device' \subseteq ChangeDevices
  BY <1>1, <1>2
<1>8. ASSUME NEW d \in ChangeCalls, change[d].pc \in {"kick", "ok"}
      PROVE  back[d] \subseteq back'[d] /\ device' \subseteq device \cup back'[d]
  <2>1. back'[d] = back[d] \cup {session[s].from}
    BY <1>1, <1>8
  <2> QED BY <1>1, <2>1
<1> QED BY <1>1, <1>5, <1>6, <1>7, <1>8, CredentialElsewhere

\* A session whose device is gone is signed out by its refresh.
LEMMA CredentialRefresh ==
    ASSUME Credential!CredentialsAssumption, Credential!IInv, tables' \subseteq SUBSET ChangeDevices,
           NEW s \in Credential!Sessions, Credential!Refresh(s)
    PROVE  Credential!IInv'
<1>1. /\ session[s].at = "given" /\ session' = Credential!GoneFor({s}) /\ change' = change /\ shut' = shut
      /\ spared' = spared /\ secret' = secret /\ device' = device /\ back' = back
      /\ credentialFaults' = credentialFaults
  BY DEF Credential!Refresh, Credential!ChangeKeeps
<1>2. session' \in [Credential!Sessions -> SessionRecord'] /\ SessionsGoOn
  <2>1. {s} \in SUBSET Credential!Sessions /\ \A t \in {s} : session[t].at # "none"
    BY <1>1
  <2> QED BY <1>1, <2>1, CredentialGone
<1>3. back \in [ChangeCalls -> SUBSET ChangeDevices] /\ device \subseteq ChangeDevices
  BY CredentialTypes
<1> QED BY <1>1, <1>2, <1>3, CredentialElsewhere

\* A change begins with the session of its proof, or without.
LEMMA CredentialProve ==
    ASSUME Credential!CredentialsAssumption, Credential!IInv, tables' \subseteq SUBSET ChangeDevices,
           NEW c \in ChangeCalls, NEW s \in Credential!Sessions,
           Credential!Prove(c, s)
    PROVE  Credential!IInv'
<1>1. /\ change[c].pc = "idle" /\ secret' = secret /\ device' = device /\ back' = back /\ shut' = shut
      /\ spared' = spared /\ credentialFaults' = credentialFaults
  BY DEF Credential!Prove
<1>2. /\ Credential!Kept(c) /\ change[c] \in ChangeRecord /\ ChangeRecord' = ChangeRecord /\ secret \in Nat
      /\ back \in [ChangeCalls -> SUBSET ChangeDevices] /\ device \subseteq ChangeDevices
      /\ shut \subseteq ChangeCalls /\ spared \subseteq ChangeCalls
      /\ credentialFaults \in 0..MaxCredentialFaults
  BY CredentialTypes, <1>1 DEF ChangeRecord
<1>3. c \notin shut
  BY <1>1, <1>2 DEF Credential!Kept, Credential!SignedOut
<1>4. "write" \in Credential!Places
  BY DEF Credential!Places
<1>5. /\ session' \in [Credential!Sessions -> SessionRecord'] /\ SessionsGoOn
      /\ change' \in [ChangeCalls -> ChangeRecord'] /\ change'[c].pc = "write"
      /\ \A d \in ChangeCalls : d # c => change'[d] = change[d]
      /\ Credential!Proven(c)'
  <2>1. CASE ChangeKind[c] = "update"
    <3> DEFINE r == [change[c] EXCEPT !.pc = "write", !.proof = s]
    <3>1. Credential!Opens(s, "proof", 0) /\ change' = [change EXCEPT ![c] = r]
      BY <2>1 DEF Credential!Prove
    <3>2. r \in ChangeRecord' /\ r.pc = "write" /\ r.proof = s
      <4>1. s \in {0} \cup Credential!Sessions /\ change[c] \in ChangeRecord
        BY <1>2
      <4>2. r \in ChangeRecord /\ r.pc = "write" /\ r.proof = s
        BY <1>4, <4>1, CredentialRecord DEF ChangeRecord
      <4> QED BY <1>2, <4>2
    <3> HIDE DEF r
    <3>3. /\ session' \in [Credential!Sessions -> SessionRecord'] /\ SessionsGoOn
          /\ session'[s].at = "proof"
      <4>1. 0 \in {0} \cup ChangeDevices
        OBVIOUS
      <4> QED BY <1>1, <3>1, <4>1, CredentialOpens
    <3>4. /\ change' \in [ChangeCalls -> ChangeRecord'] /\ change'[c] = r
          /\ \A d \in ChangeCalls : d # c => change'[d] = change[d]
      <4>1. secret' \in Nat /\ secret <= secret'
        BY <1>1, <1>2
      <4> QED BY <3>1, <3>2, <4>1, CredentialChanges
    <3> QED BY <3>2, <3>3, <3>4 DEF Credential!Proven
  <2>2. CASE ChangeKind[c] # "update"
    <3>1. Credential!To(c, "write") /\ session' = session
      BY <2>2 DEF Credential!Prove
    <3>2. /\ change' \in [ChangeCalls -> ChangeRecord'] /\ change'[c].pc = "write"
          /\ change'[c].proof = change[c].proof
          /\ \A d \in ChangeCalls : d # c => change'[d] = change[d]
      BY <1>1, <1>4, <3>1, CredentialTo
    <3>3. SessionsGoOn /\ session' \in [Credential!Sessions -> SessionRecord']
      <4>1. secret' \in Nat /\ secret <= secret'
        BY <1>1, <1>2
      <4> QED BY <3>1, <4>1, SessionsRest
    <3>4. Credential!Proven(c)'
      BY <1>2, <3>1, <3>2 DEF Credential!Kept, Credential!Proven
    <3> QED BY <3>2, <3>3, <3>4
  <2> QED BY <2>1, <2>2
<1>6. Credential!Kept(c)'
  BY <1>1, <1>3, <1>5 DEF Credential!Kept, Credential!SignedOut, Credential!Closed, Credential!Swept
<1>7. change[c].pc \notin {"idle", "write"} => change'[c].pc \notin {"idle", "write"}
  BY <1>1, <1>5
<1> QED BY <1>1, <1>2, <1>5, <1>6, <1>7, CredentialActs

\* The secret moves on, and the change knows which sessions are older.
LEMMA CredentialWrite ==
    ASSUME Credential!CredentialsAssumption, Credential!IInv, tables' \subseteq SUBSET ChangeDevices,
           NEW c \in ChangeCalls, NEW took \in BOOLEAN,
           NEW ok \in BOOLEAN, Credential!Write(c, took, ok)
    PROVE  Credential!IInv'
<1> DEFINE pc == IF ok THEN "revoke" ELSE IF change[c].proof # 0 THEN "close" ELSE "failed"
           r == [change[c] EXCEPT !.was = secret, !.pc = pc]
<1>1. /\ change[c].pc = "write" /\ (ok => took) /\ Credential!May(ok)
      /\ secret' = (IF took THEN secret + 1 ELSE secret) /\ change' = [change EXCEPT ![c] = r]
      /\ session' = session /\ device' = device /\ back' = back /\ shut' = shut /\ spared' = spared
  BY DEF Credential!Write
<1>2. /\ Credential!Kept(c) /\ change[c] \in ChangeRecord /\ secret \in Nat
      /\ back \in [ChangeCalls -> SUBSET ChangeDevices] /\ device \subseteq ChangeDevices
      /\ shut \subseteq ChangeCalls /\ spared \subseteq ChangeCalls
      /\ secret <= Cardinality(Asked) /\ IsFiniteSet(Asked) /\ Cardinality(Asked) \in Nat
  BY CredentialTypes
<1>3. /\ secret' \in Nat /\ secret <= secret' /\ (ok => secret < secret') /\ secret' <= secret + 1
  BY <1>1, <1>2
<1>4. /\ pc \in Credential!Places /\ pc \notin {"idle", "write", "list", "kick", "ok"}
      /\ (pc = "revoke" => ok) /\ (pc = "close" => change[c].proof # 0)
      /\ (pc = "failed" => change[c].proof = 0)
  BY DEF Credential!Places
<1> HIDE DEF pc
<1>5. /\ r \in ChangeRecord' /\ r.pc = pc /\ r.proof = change[c].proof /\ r.was = secret
  <2>1. change[c] \in ChangeRecord' /\ secret \in 0..secret'
    <3>1. 0..secret \subseteq 0..secret' /\ secret \in 0..secret'
      BY <1>2, <1>3
    <3> QED BY <1>2, <3>1 DEF ChangeRecord
  <2> QED BY <1>4, <2>1, CredentialRecord DEF ChangeRecord
<1> HIDE DEF r
<1>6. /\ change' \in [ChangeCalls -> ChangeRecord'] /\ change'[c] = r
      /\ \A d \in ChangeCalls : d # c => change'[d] = change[d]
  BY <1>1, <1>3, <1>5, CredentialChanges
<1>7. SessionsGoOn /\ session' \in [Credential!Sessions -> SessionRecord']
  BY <1>1, <1>3, SessionsRest
<1>8. secret' <= Cardinality(Asked')
  <2>1. Asked' = Asked \cup {c} /\ c \notin Asked
    BY <1>1, <1>4, <1>5, <1>6 DEF Asked
  <2>2. Cardinality(Asked \cup {c}) = Cardinality(Asked) + 1
    BY <1>2, <2>1, FS_AddElement
  <2>3. Cardinality(Asked') = Cardinality(Asked) + 1
    BY <2>1, <2>2
  <2> HIDE DEF Asked
  <2> QED BY <1>2, <1>3, <2>3
<1>9. Credential!TypeOK' /\ Credential!Counted'
  <2>1. credentialFaults' \in 0..MaxCredentialFaults
    BY <1>1, CredentialCounts
  <2> QED BY <1>1, <1>2, <1>3, <1>6, <1>7, <1>8, <2>1, CredentialTyped
<1>10. Credential!Kept(c)'
  <2>1. c \notin shut'
    BY <1>1, <1>2 DEF Credential!Kept, Credential!SignedOut
  <2>2. Credential!Proven(c)'
    BY <1>1, <1>2, <1>5, <1>6 DEF Credential!Kept, Credential!Proven
  <2>3. Credential!Closed(c)'
    BY <1>2, <1>3, <1>4, <1>5, <1>6 DEF Credential!Closed
  <2> QED BY <1>4, <1>5, <1>6, <2>1, <2>2, <2>3 DEF Credential!Kept, Credential!SignedOut, Credential!Swept
<1>11. ASSUME NEW d \in ChangeCalls PROVE Credential!Kept(d)'
  <2>1. CASE d = c
    BY <1>10, <2>1
  <2>2. CASE d # c
    <3>1. change'[d] = change[d] /\ (d \in shut' <=> d \in shut) /\ spared \subseteq spared'
          /\ device' \subseteq device \cup back'[d] /\ back[d] \cap device' \subseteq back'[d]
      BY <1>1, <1>6, <2>2
    <3> QED BY <1>3, <1>7, <3>1, CredentialOther
  <2> QED BY <2>1, <2>2
<1> QED BY <1>9, <1>11 DEF Credential!IInv

\* GoTrue closes the other sessions, or refuses.
LEMMA CredentialRevoke ==
    ASSUME Credential!CredentialsAssumption, Credential!IInv, tables' \subseteq SUBSET ChangeDevices,
           NEW c \in ChangeCalls, NEW ok \in BOOLEAN,
           Credential!Revoke(c, ok)
    PROVE  Credential!IInv'
<1> DEFINE p == change[c].proof
           opened == {s \in Credential!Sessions : session[s].at # "none"}
<1> PICK out \in BOOLEAN : out <=> (p # 0 /\ ok)
  OBVIOUS
<1>1. /\ change[c].pc = "revoke" /\ Credential!To(c, "list")
      /\ session' = (IF out THEN Credential!GoneFor(opened) ELSE session)
      /\ shut' = (IF out THEN shut \cup {c} ELSE shut)
      /\ secret' = secret /\ device' = device /\ back' = back /\ spared' = spared
  <2>1. out = (p # 0 /\ ok)
    OBVIOUS
  <2> QED BY <2>1 DEF Credential!Revoke
<1>2. credentialFaults' \in 0..MaxCredentialFaults
  <2>1. credentialFaults' = credentialFaults \/ Credential!Fault
    BY DEF Credential!Revoke
  <2>2. Credential!May(TRUE) \/ Credential!May(FALSE)
    BY <2>1 DEF Credential!May
  <2> QED BY <2>2, CredentialCounts
<1>3. /\ Credential!Kept(c) /\ change[c] \in ChangeRecord /\ secret \in Nat
      /\ back \in [ChangeCalls -> SUBSET ChangeDevices] /\ device \subseteq ChangeDevices
      /\ shut \subseteq ChangeCalls /\ spared \subseteq ChangeCalls
  BY CredentialTypes
<1>4. p \in {0} \cup Credential!Sessions /\ change[c].was \in Nat
  BY <1>3 DEF ChangeRecord
<1>5. c \notin shut /\ change[c].was < secret /\ (p # 0 => p \in opened)
  BY <1>1, <1>3, <1>4 DEF Credential!Kept, Credential!SignedOut, Credential!Closed, Credential!Proven
<1>6. /\ change' \in [ChangeCalls -> ChangeRecord'] /\ change'[c].pc = "list"
      /\ change'[c].proof = p /\ change'[c].was = change[c].was
      /\ \A d \in ChangeCalls : d # c => change'[d] = change[d]
  BY <1>1, CredentialTo DEF Credential!Places
<1>7. /\ session' \in [Credential!Sessions -> SessionRecord'] /\ SessionsGoOn
      /\ out => \A s \in Credential!Sessions : session'[s].at \in {"gone", "none"}
      /\ out => session'[p].at = "gone"
  <2>1. CASE out
    <3>1. session' = Credential!GoneFor(opened) /\ opened \in SUBSET Credential!Sessions
          /\ \A s \in opened : session[s].at # "none"
      BY <1>1, <2>1
    <3>2. \A s \in Credential!Sessions : s \notin opened => session[s].at = "none"
      OBVIOUS
    <3> HIDE DEF opened, p
    <3>3. /\ session' \in [Credential!Sessions -> SessionRecord'] /\ SessionsGoOn
          /\ \A s \in opened : session'[s].at = "gone"
          /\ \A s \in Credential!Sessions : s \notin opened => session'[s] = session[s]
      BY <1>1, <3>1, CredentialGone
    <3>4. p \in opened
      BY <1>5, <2>1 DEF p
    <3> QED BY <3>2, <3>3, <3>4
  <2>2. CASE ~out
    <3>1. session' = session /\ secret' \in Nat /\ secret <= secret'
      BY <1>1, <1>3, <2>2
    <3> QED BY <2>2, <3>1, SessionsRest
  <2> QED BY <2>1, <2>2
<1> HIDE DEF opened, p
<1>8. Credential!Kept(c)'
  <2>1. Credential!Proven(c)' /\ Credential!SignedOut(c)'
    <3>1. CASE out
      <4>1. p # 0 /\ change'[c].proof # 0 /\ session'[change'[c].proof].at = "gone"
        BY <1>6, <1>7, <3>1
      <4> QED BY <1>1, <1>5, <1>6, <1>7, <3>1, <4>1 DEF Credential!Proven, Credential!SignedOut
    <3>2. CASE ~out
      BY <1>1, <1>6, <1>7, <3>2, CredentialStays DEF p
    <3> QED BY <3>1, <3>2
  <2> QED BY <1>1, <1>5, <1>6, <2>1 DEF Credential!Kept, Credential!Closed, Credential!Swept
<1>9. /\ change[c].pc \notin {"idle", "write"} => change'[c].pc \notin {"idle", "write"}
      /\ shut' \subseteq ChangeCalls /\ \A d \in ChangeCalls : d # c => (d \in shut' <=> d \in shut)
  BY <1>1, <1>3, <1>6
<1> QED BY <1>1, <1>2, <1>3, <1>6, <1>7, <1>8, <1>9, CredentialActs

\* The change reads the devices it is to throw out.
LEMMA CredentialList ==
    ASSUME Credential!CredentialsAssumption, Credential!IInv, tables' \subseteq SUBSET ChangeDevices,
           NEW c \in ChangeCalls, NEW listed \in tables,
           Credential!ListDevices(c, listed)
    PROVE  Credential!IInv'
<1> DEFINE r == [change[c] EXCEPT !.pc = "kick", !.todo = listed]
<1>1. /\ change[c].pc = "list" /\ change' = [change EXCEPT ![c] = r] /\ session' = session
      /\ secret' = secret /\ device' = device /\ back' = back /\ shut' = shut
      /\ spared' = (IF device \subseteq listed THEN spared ELSE spared \cup {c})
      /\ credentialFaults' = credentialFaults
  BY DEF Credential!ListDevices
<1>2. /\ Credential!Kept(c) /\ change[c] \in ChangeRecord /\ ChangeRecord' = ChangeRecord /\ secret \in Nat
      /\ back \in [ChangeCalls -> SUBSET ChangeDevices] /\ device \in SUBSET ChangeDevices
      /\ shut \subseteq ChangeCalls /\ spared \subseteq ChangeCalls
      /\ credentialFaults \in 0..MaxCredentialFaults /\ listed \in SUBSET ChangeDevices
  BY CredentialTypes, <1>1 DEF ChangeRecord
<1>3. /\ r \in ChangeRecord /\ r.pc = "kick" /\ r.todo = listed /\ r.proof = change[c].proof /\ r.was = change[c].was
  <2>1. "kick" \in Credential!Places
    BY DEF Credential!Places
  <2> QED BY <1>2, <2>1, CredentialRecord DEF ChangeRecord
<1> HIDE DEF r
<1>4. secret' \in Nat /\ secret <= secret'
  BY <1>1, <1>2
<1>5. /\ change' \in [ChangeCalls -> ChangeRecord'] /\ change'[c] = r
      /\ \A d \in ChangeCalls : d # c => change'[d] = change[d]
  BY <1>1, <1>2, <1>3, <1>4, CredentialChanges
<1>6. SessionsGoOn /\ session' \in [Credential!Sessions -> SessionRecord']
  BY <1>1, <1>4, SessionsRest
<1>7. Credential!Proven(c)' /\ Credential!SignedOut(c)'
  BY <1>1, <1>3, <1>5, <1>6, CredentialStays
<1>8. Credential!Kept(c)'
  BY <1>1, <1>2, <1>3, <1>5, <1>7 DEF Credential!Kept, Credential!Closed, Credential!Swept
<1>9. /\ change[c].pc \notin {"idle", "write"} => change'[c].pc \notin {"idle", "write"}
      /\ spared \subseteq spared' /\ spared' \subseteq ChangeCalls
  BY <1>1, <1>2, <1>3, <1>5
<1> QED BY <1>1, <1>2, <1>5, <1>6, <1>8, <1>9, CredentialActs

\* A listed device is thrown out, or spared.
LEMMA CredentialKick ==
    ASSUME Credential!CredentialsAssumption, Credential!IInv, tables' \subseteq SUBSET ChangeDevices,
           NEW c \in ChangeCalls, NEW d \in ChangeDevices,
           NEW ok \in BOOLEAN, Credential!Kick(c, d, ok)
    PROVE  Credential!IInv'
<1>1. /\ change[c].pc = "kick" /\ Credential!May(ok)
      /\ device' = (IF ok THEN device \ {d} ELSE device)
      /\ back' = (IF ok THEN [back EXCEPT ![c] = back[c] \ {d}] ELSE back)
      /\ spared' = (IF ok THEN spared ELSE spared \cup {c})
      /\ change' = [change EXCEPT ![c].todo = change[c].todo \ {d}]
      /\ secret' = secret /\ session' = session /\ shut' = shut
  BY DEF Credential!Kick, Credential!Holds
<1>2. /\ Credential!Kept(c) /\ change \in [ChangeCalls -> ChangeRecord] /\ change[c] \in ChangeRecord
      /\ ChangeRecord' = ChangeRecord /\ secret \in Nat
      /\ back \in [ChangeCalls -> SUBSET ChangeDevices] /\ device \in SUBSET ChangeDevices
      /\ shut \subseteq ChangeCalls /\ spared \subseteq ChangeCalls
  BY CredentialTypes, <1>1 DEF ChangeRecord
<1> DEFINE r == [change[c] EXCEPT !.todo = change[c].todo \ {d}]
<1>3. /\ r \in ChangeRecord /\ r.pc = "kick" /\ r.todo = change[c].todo \ {d} /\ r.proof = change[c].proof
      /\ r.was = change[c].was
  BY <1>1, <1>2 DEF ChangeRecord
<1>4. change' = [change EXCEPT ![c] = r]
  BY <1>1, <1>2
<1> HIDE DEF r
<1>5. secret' \in Nat /\ secret <= secret'
  BY <1>1, <1>2
<1>6. /\ change' \in [ChangeCalls -> ChangeRecord'] /\ change'[c] = r
      /\ \A e \in ChangeCalls : e # c => change'[e] = change[e]
  BY <1>2, <1>3, <1>4, <1>5, CredentialChanges
<1>7. SessionsGoOn /\ session' \in [Credential!Sessions -> SessionRecord']
  BY <1>1, <1>5, SessionsRest
<1>8. Credential!Proven(c)' /\ Credential!SignedOut(c)'
  BY <1>1, <1>3, <1>6, <1>7, CredentialStays
<1>9. /\ back' \in [ChangeCalls -> SUBSET ChangeDevices] /\ \A e \in ChangeCalls : e # c => back'[e] = back[e]
      /\ (ok => back'[c] = back[c] \ {d} /\ device' = device \ {d} /\ spared' = spared)
      /\ (~ok => c \in spared') /\ device' \subseteq device /\ spared \subseteq spared' /\ spared' \subseteq ChangeCalls
  BY <1>1, <1>2
<1>10. Credential!Kept(c)'
  <2>1. Credential!Closed(c)'
    BY <1>1, <1>2, <1>3, <1>6 DEF Credential!Kept, Credential!Closed
  <2>2. Credential!Swept(c)'
    <3> SUFFICES ASSUME c \notin spared' PROVE device' \subseteq change'[c].todo \cup back'[c]
      BY <1>3, <1>6 DEF Credential!Swept
    <3>1. ok /\ c \notin spared
      BY <1>9
    <3>2. device \subseteq change[c].todo \cup back[c]
      BY <1>1, <1>2, <3>1 DEF Credential!Kept, Credential!Swept
    <3> QED BY <1>3, <1>6, <1>9, <3>1, <3>2
  <2> QED BY <1>8, <2>1, <2>2 DEF Credential!Kept
<1>11. /\ change[c].pc \notin {"idle", "write"} => change'[c].pc \notin {"idle", "write"}
       /\ credentialFaults' \in 0..MaxCredentialFaults /\ device' \subseteq ChangeDevices
       /\ shut' \subseteq ChangeCalls
  BY <1>1, <1>2, <1>3, <1>6, <1>9, CredentialCounts
<1> QED BY <1>1, <1>6, <1>7, <1>9, <1>10, <1>11, CredentialActs

\* A call ends, or goes to close its proof.
LEMMA CredentialEnds ==
    ASSUME Credential!CredentialsAssumption, Credential!IInv, tables' \subseteq SUBSET ChangeDevices,
           NEW c \in ChangeCalls,
           NEW pc \in {"ok", "close", "failed", "dead"}, Credential!To(c, pc),
           SessionsGoOn, session' \in [Credential!Sessions -> SessionRecord'],
           secret' = secret, device' = device, back' = back, shut' = shut, spared \subseteq spared',
           spared' \subseteq ChangeCalls, credentialFaults' \in 0..MaxCredentialFaults,
           pc = "ok" => change[c].pc = "kick" /\ change[c].todo = {} /\ spared' = spared,
           pc = "close" => change[c].proof # 0,
           pc = "failed" => change[c].proof = 0 \/ session'[change[c].proof].at = "gone" \/ c \in spared'
    PROVE  Credential!IInv'
<1>1. /\ change' \in [ChangeCalls -> ChangeRecord'] /\ change'[c].pc = pc
      /\ change'[c].proof = change[c].proof /\ change'[c].was = change[c].was /\ change'[c].todo = change[c].todo
      /\ \A d \in ChangeCalls : d # c => change'[d] = change[d]
  BY CredentialTo DEF Credential!Places
<1>2. /\ Credential!Kept(c) /\ back \in [ChangeCalls -> SUBSET ChangeDevices] /\ device \in SUBSET ChangeDevices
      /\ shut \subseteq ChangeCalls
  BY CredentialTypes
<1>3. Credential!Proven(c)' /\ Credential!SignedOut(c)'
  BY <1>1, CredentialStays
<1>4. Credential!Kept(c)'
  <2>1. Credential!Closed(c)'
    BY <1>1, <1>2 DEF Credential!Kept, Credential!Closed
  <2>2. Credential!Swept(c)'
    BY <1>1, <1>2 DEF Credential!Kept, Credential!Swept
  <2> QED BY <1>3, <2>1, <2>2 DEF Credential!Kept
<1>5. shut' \subseteq ChangeCalls /\ back' \in [ChangeCalls -> SUBSET ChangeDevices] /\ device' \subseteq ChangeDevices
      /\ device' \subseteq device
  BY <1>2
<1> QED BY <1>1, <1>4, <1>5, CredentialActs

\* A listing or a look-up that raises fails the change, which closes its proof on the way out.
LEMMA CredentialRaise ==
    ASSUME Credential!CredentialsAssumption, Credential!IInv, tables' \subseteq SUBSET ChangeDevices,
           NEW c \in ChangeCalls, Credential!Raise(c)
    PROVE  Credential!IInv'
<1> DEFINE pc == IF change[c].proof # 0 THEN "close" ELSE "failed"
<1>1. /\ Credential!Fault /\ Credential!To(c, pc) /\ secret' = secret /\ session' = session /\ device' = device
      /\ back' = back /\ shut' = shut /\ spared' = spared
  BY DEF Credential!Raise
<1>2. /\ pc \in {"ok", "close", "failed", "dead"} /\ pc # "ok" /\ (pc = "close" => change[c].proof # 0)
      /\ (pc = "failed" => change[c].proof = 0)
  OBVIOUS
<1> HIDE DEF pc
<1>3. Credential!May(FALSE)
  BY <1>1 DEF Credential!May
<1>4. secret \in Nat /\ spared \subseteq ChangeCalls
  BY CredentialTypes
<1>5. secret' \in Nat /\ secret <= secret'
  BY <1>1, <1>4
<1>6. SessionsGoOn /\ session' \in [Credential!Sessions -> SessionRecord']
  BY <1>1, <1>5, SessionsRest
<1>7. credentialFaults' \in 0..MaxCredentialFaults
  BY <1>3, CredentialCounts
<1> QED BY <1>1, <1>2, <1>4, <1>6, <1>7, CredentialEnds

\* A change that has been through its list is over.
LEMMA CredentialFinish ==
    ASSUME Credential!CredentialsAssumption, Credential!IInv, tables' \subseteq SUBSET ChangeDevices,
           NEW c \in ChangeCalls, Credential!Finish(c)
    PROVE  Credential!IInv'
<1>1. /\ change[c].pc = "kick" /\ change[c].todo = {} /\ Credential!To(c, "ok") /\ secret' = secret
      /\ session' = session /\ device' = device /\ back' = back /\ shut' = shut /\ spared' = spared
      /\ credentialFaults' = credentialFaults
  BY DEF Credential!Finish
<1>2. secret \in Nat /\ spared \subseteq ChangeCalls /\ credentialFaults \in 0..MaxCredentialFaults
  BY CredentialTypes
<1>3. secret' \in Nat /\ secret <= secret'
  BY <1>1, <1>2
<1>4. SessionsGoOn /\ session' \in [Credential!Sessions -> SessionRecord']
  BY <1>1, <1>3, SessionsRest
<1> QED BY <1>1, <1>2, <1>4, CredentialEnds

\* The session of the proof is closed, or its closing failed.
LEMMA CredentialClose ==
    ASSUME Credential!CredentialsAssumption, Credential!IInv, tables' \subseteq SUBSET ChangeDevices,
           NEW c \in ChangeCalls, NEW ok \in BOOLEAN,
           Credential!Close(c, ok)
    PROVE  Credential!IInv'
<1> DEFINE p == change[c].proof
<1>1. /\ change[c].pc = "close" /\ Credential!May(ok) /\ Credential!To(c, "failed")
      /\ session' = (IF ok THEN Credential!GoneFor({p}) ELSE session)
      /\ spared' = (IF ok THEN spared ELSE spared \cup {c})
      /\ secret' = secret /\ device' = device /\ back' = back /\ shut' = shut
  BY DEF Credential!Close
<1>2. Credential!Kept(c) /\ change[c] \in ChangeRecord /\ secret \in Nat /\ spared \subseteq ChangeCalls
  BY CredentialTypes
<1>3. p \in Credential!Sessions /\ session[p].at # "none"
  BY <1>1, <1>2 DEF ChangeRecord, Credential!Kept, Credential!Closed, Credential!Proven
<1>4. secret' \in Nat /\ secret <= secret'
  BY <1>1, <1>2
<1>5. /\ SessionsGoOn /\ session' \in [Credential!Sessions -> SessionRecord']
      /\ session'[p].at = "gone" \/ c \in spared'
  <2> HIDE DEF p
  <2>1. CASE ok
    <3>1. {p} \in SUBSET Credential!Sessions /\ \A s \in {p} : session[s].at # "none"
      BY <1>3
    <3> QED BY <1>1, <2>1, <3>1, CredentialGone
  <2>2. CASE ~ok
    BY <1>1, <1>4, <2>2, SessionsRest
  <2> QED BY <2>1, <2>2
<1>6. spared \subseteq spared' /\ spared' \subseteq ChangeCalls /\ credentialFaults' \in 0..MaxCredentialFaults
  BY <1>1, <1>2, CredentialCounts
<1> QED BY <1>1, <1>5, <1>6, CredentialEnds

\* A change that dies leaves no proof but as one it was spared.
LEMMA CredentialDie ==
    ASSUME Credential!CredentialsAssumption, Credential!IInv, tables' \subseteq SUBSET ChangeDevices,
           NEW c \in ChangeCalls, Credential!Die(c)
    PROVE  Credential!IInv'
<1>1. /\ Credential!Fault /\ Credential!To(c, "dead") /\ secret' = secret /\ session' = session /\ device' = device
      /\ back' = back /\ shut' = shut /\ spared' = spared
  BY DEF Credential!Die
<1>2. Credential!May(FALSE)
  BY <1>1 DEF Credential!May
<1>3. secret \in Nat /\ spared \subseteq ChangeCalls
  BY CredentialTypes
<1>4. secret' \in Nat /\ secret <= secret'
  BY <1>1, <1>3
<1>5. SessionsGoOn /\ session' \in [Credential!Sessions -> SessionRecord']
  BY <1>1, <1>4, SessionsRest
<1>6. credentialFaults' \in 0..MaxCredentialFaults
  BY <1>2, CredentialCounts
<1> QED BY <1>1, <1>3, <1>5, <1>6, CredentialEnds

\* Before any change there is one secret and no session.
LEMMA CredentialStarts ==
    ASSUME Credential!CredentialsAssumption, Credential!Init
    PROVE  Credential!IInv
<1>1. /\ secret = 0 /\ device \in SUBSET ChangeDevices
      /\ session = [s \in Credential!Sessions |-> [at |-> "none", from |-> 0, under |-> 0]]
      /\ change = [c \in ChangeCalls |-> Credential!Resting]
      /\ back = [c \in ChangeCalls |-> {}] /\ shut = {} /\ spared = {} /\ credentialFaults = 0
      /\ tables = {device}
  BY DEF Credential!Init
<1>2. Credential!Cardinality(ChangeCalls) \in Nat /\ \A S \in SUBSET ChangeCalls : Credential!Cardinality(S) \in Nat
  BY CredentialSets, FS_CardinalityType, FS_Subset DEF Credential!CredentialsAssumption
<1>3. session \in [Credential!Sessions -> SessionRecord]
  <2>1. [at |-> "none", from |-> 0, under |-> 0] \in SessionRecord
    BY <1>1 DEF SessionRecord
  <2> QED BY <1>1, <2>1
<1>4. /\ change \in [ChangeCalls -> ChangeRecord] /\ \A c \in ChangeCalls : change[c].pc = "idle" /\ change[c].proof = 0
  <2>1. Credential!Resting \in ChangeRecord /\ Credential!Resting.pc = "idle" /\ Credential!Resting.proof = 0
    BY <1>1 DEF ChangeRecord, Credential!Resting, Credential!Places
  <2> QED BY <1>1, <2>1
<1>5. Credential!TypeOK
  <2>1. \A s \in Credential!Sessions : session[s].at = "none"
    BY <1>1
  <2>2. /\ secret \in 0..Credential!Cardinality(ChangeCalls) /\ back \in [ChangeCalls -> SUBSET ChangeDevices]
        /\ credentialFaults \in 0..MaxCredentialFaults
    BY <1>1, <1>2 DEF Credential!CredentialsAssumption
  <2> QED BY <1>1, <1>3, <1>4, <2>1, <2>2 DEF Credential!TypeOK, SessionRecord, ChangeRecord
<1>6. Credential!Counted
  <2>1. Credential!Cardinality(Asked) \in Nat
    BY <1>2 DEF Asked
  <2> QED BY <1>1, <2>1 DEF Credential!Counted, Asked
<1>7. \A c \in ChangeCalls : Credential!Kept(c)
  BY <1>1, <1>4 DEF Credential!Kept, Credential!Proven, Credential!SignedOut, Credential!Closed, Credential!Swept
<1> QED BY <1>5, <1>6, <1>7 DEF Credential!IInv

\* What the table holds is of devices, whatever happens.
LEMMA CredentialTables ==
    ASSUME Credential!CredentialsAssumption, Credential!IInv, [Credential!Next]_(Credential!credentialVars)
    PROVE  tables' \subseteq SUBSET ChangeDevices
<1>1. tables \subseteq SUBSET ChangeDevices /\ device \subseteq ChangeDevices
  BY CredentialTypes
<1>2. ASSUME NEW s \in Credential!Sessions, Credential!Register(s) PROVE tables' \subseteq SUBSET ChangeDevices
  <2>1. session[s].from \in ChangeDevices /\ tables' = tables \cup {device \cup {session[s].from}}
    BY <1>2 DEF Credential!Register, Credential!Holds, Credential!IInv, Credential!TypeOK
  <2> QED BY <1>1, <2>1
<1>3. ASSUME NEW c \in ChangeCalls, NEW d \in ChangeDevices, NEW ok \in BOOLEAN, Credential!Kick(c, d, ok)
      PROVE  tables' \subseteq SUBSET ChangeDevices
  <2>1. tables' = tables \cup {IF ok THEN device \ {d} ELSE device}
    BY <1>3 DEF Credential!Kick, Credential!Holds
  <2> QED BY <1>1, <2>1
<1>4. CASE UNCHANGED Credential!credentialVars
  BY <1>1, <1>4 DEF Credential!credentialVars
<1>5. ASSUME NEW s \in Credential!Sessions, Credential!Refresh(s) \/ \E d \in ChangeDevices : Credential!SignIn(s, d)
      PROVE  tables' = tables
  BY <1>5 DEF Credential!Refresh, Credential!SignIn
<1>6. ASSUME NEW c \in ChangeCalls, NEW s \in Credential!Sessions, Credential!Prove(c, s)
      PROVE  tables' = tables
  BY <1>6 DEF Credential!Prove
<1>7. ASSUME NEW c \in ChangeCalls, NEW listed \in tables, Credential!ListDevices(c, listed)
      PROVE  tables' = tables
  BY <1>7 DEF Credential!ListDevices
<1>8. ASSUME NEW c \in ChangeCalls, Credential!Raise(c) \/ Credential!Finish(c) \/ Credential!Die(c)
      PROVE  tables' = tables
  BY <1>8 DEF Credential!Raise, Credential!Finish, Credential!Die
<1>9. ASSUME NEW c \in ChangeCalls, NEW ok \in BOOLEAN,
             \/ \E took \in BOOLEAN : Credential!Write(c, took, ok)
             \/ Credential!Revoke(c, ok) \/ Credential!Close(c, ok)
      PROVE  tables' = tables
  BY <1>9 DEF Credential!Write, Credential!Revoke, Credential!Close
<1>10. CASE Credential!Next
  BY <1>1, <1>2, <1>3, <1>5, <1>6, <1>7, <1>8, <1>9, <1>10 DEF Credential!Next
<1> QED BY <1>4, <1>10

\* Each step of a change, and of the sessions beside it, keeps the invariant.
LEMMA CredentialSteps ==
    ASSUME Credential!CredentialsAssumption, Credential!IInv, [Credential!Next]_(Credential!credentialVars)
    PROVE  Credential!IInv'
<1>3. tables' \subseteq SUBSET ChangeDevices
  BY CredentialTables
<1>1. CASE Credential!Next
  BY <1>1, <1>3, CredentialSignIn, CredentialRegister, CredentialRefresh, CredentialProve, CredentialWrite,
     CredentialRevoke, CredentialList, CredentialKick, CredentialRaise, CredentialFinish, CredentialClose,
     CredentialDie DEF Credential!Next
<1>2. CASE UNCHANGED Credential!credentialVars
  <2>1. /\ secret' = secret /\ session' = session /\ device' = device /\ change' = change /\ back' = back
        /\ shut' = shut /\ spared' = spared /\ credentialFaults' = credentialFaults
    BY <1>2 DEF Credential!credentialVars
  <2>2. secret \in Nat /\ back \in [ChangeCalls -> SUBSET ChangeDevices] /\ device \subseteq ChangeDevices
    BY CredentialTypes
  <2>3. secret' \in Nat /\ secret <= secret'
    BY <2>1, <2>2
  <2>4. SessionsGoOn /\ session' \in [Credential!Sessions -> SessionRecord']
    BY <2>1, <2>3, SessionsRest
  <2> QED BY <1>3, <2>1, <2>2, <2>4, CredentialElsewhere
<1> QED BY <1>1, <1>2

\* What becomes of sessions and proofs, of the invariant.
LEMMA CredentialKept ==
    ASSUME Credential!CredentialsAssumption, Credential!IInv
    PROVE  Credential!TypeOK /\ Credential!OldSessionsGo /\ Credential!ProofsAreClosed
<1>1. ASSUME NEW c \in ChangeCalls
      PROVE  /\ Credential!Kept(c) /\ change[c].was \in Nat /\ change[c].proof \in {0} \cup Credential!Sessions
  BY <1>1, CredentialTypes DEF ChangeRecord
<1>2. \A s \in Credential!Sessions : session[s].under \in Nat
  BY CredentialTypes DEF SessionRecord
<1>3. Credential!OldSessionsGo
  <2> SUFFICES ASSUME NEW c \in ChangeCalls, NEW s \in Credential!Sessions, change[c].pc = "ok", Credential!Refreshed(s),
                      session[s].under <= change[c].was
               PROVE  c \notin shut /\ (session[s].from \in back[c] \/ c \in spared)
    BY DEF Credential!OldSessionsGo
  <2>1. c \notin shut
    BY <1>1, <1>2 DEF Credential!Kept, Credential!SignedOut, Credential!Refreshed
  <2>2. session[s].from \in back[c] \/ c \in spared
    BY <1>1 DEF Credential!Kept, Credential!Swept, Credential!Refreshed
  <2> QED BY <2>1, <2>2
<1>4. Credential!ProofsAreClosed
  BY <1>1 DEF Credential!Kept, Credential!SignedOut, Credential!Closed, Credential!ProofsAreClosed
<1> QED BY <1>3, <1>4 DEF Credential!IInv

\* The variables of HookChain.
emission == v1
job == v2
ran == v3
hookFaults == v4
USE DEF emission, job, ran, hookFaults

\* The finiteness and the count of the module's own FiniteSets.
LEMMA HooksSets ==
    /\ \A S : Hooks!IsFiniteSet(S) <=> IsFiniteSet(S)
    /\ \A S : Hooks!Cardinality(S) = Cardinality(S)
<1>1. \A S : Hooks!IsFiniteSet(S) <=> IsFiniteSet(S)
  BY DEF Hooks!IsFiniteSet, IsFiniteSet
<1>2. \A S : Hooks!Cardinality(S) = Cardinality(S)
  BY Zenon DEF Hooks!Cardinality, Cardinality
<1> QED BY <1>1, <1>2

-----------------------------------------------------------------------------
(* Hooks (hook.ts, inline_chain.ts, background_channel.ts).                   *)

\* The bounds are naturals, and a job is tried at least once.
LEMMA HooksBounds ==
    ASSUME Hooks!HookAssumption
    PROVE  /\ Inline \in Nat /\ Background \in Nat /\ MaxEmissions \in Nat
           /\ MaxHookFaults \in Nat /\ MaxTries \in Nat \ {0}
BY DEF Hooks!HookAssumption

\* No hook was emitted at first.
LEMMA HooksStarts == ASSUME Hooks!HookAssumption PROVE Hooks!Init => Hooks!IInv
<1> SUFFICES ASSUME Hooks!Init PROVE Hooks!IInv
  OBVIOUS
<1>1. /\ Hooks!Unused \in Hooks!EmissionStates /\ Hooks!NoJob \in Hooks!JobStates
      /\ Hooks!Unused.pc = "off" /\ Hooks!Unused.answers = {} /\ Hooks!NoJob.state = "none"
      /\ Hooks!NoJob.next = 1 /\ Hooks!NoJob.tries = 0
  BY HooksBounds DEF Hooks!Unused, Hooks!NoJob, Hooks!EmissionStates, Hooks!JobStates
<1>2. Hooks!TypeOK
  BY <1>1, HooksBounds DEF Hooks!Init, Hooks!TypeOK
<1>3. Hooks!Numbered
  <2>1. Hooks!Emitted = 1..0
    BY <1>1 DEF Hooks!Init, Hooks!Emitted
  <2> QED BY <2>1, HooksBounds DEF Hooks!Numbered
<1>4. Hooks!Followed
  BY <1>1, HooksBounds DEF Hooks!Init, Hooks!Followed, Hooks!Follows
<1>5. Hooks!Worked
  BY <1>1, HooksBounds DEF Hooks!Init, Hooks!Worked, Hooks!Works
<1> QED BY <1>2, <1>3, <1>4, <1>5 DEF Hooks!IInv

\* What is known of one emission and of its job.
LEMMA HooksParts ==
    ASSUME Hooks!IInv, NEW e \in Hooks!Emissions
    PROVE  /\ emission[e] \in Hooks!EmissionStates /\ job[e] \in Hooks!JobStates
           /\ ran[e] \in [1..Background -> Nat]
           /\ Hooks!Follows(emission[e], job[e]) /\ Hooks!Works(job[e], ran[e])
BY DEF Hooks!IInv, Hooks!TypeOK, Hooks!Followed, Hooks!Worked

\* The next emission takes the first number nobody has, and no job has that.
LEMMA HooksFresh ==
    ASSUME Hooks!HookAssumption, Hooks!IInv
    PROVE  \E n \in 0..MaxEmissions : /\ Hooks!Emitted = 1..n /\ Hooks!Fresh = n + 1
                                      /\ Hooks!Fresh \in Hooks!Emissions =>
                                           /\ emission[Hooks!Fresh].pc = "off"
                                           /\ job[Hooks!Fresh].state = "none"
<1>1. PICK n \in 0..MaxEmissions : Hooks!Emitted = 1..n
  BY DEF Hooks!IInv, Hooks!Numbered
<1>2. n \in Nat
  BY <1>1, HooksBounds
<1>3. Hooks!Fresh = n + 1
  BY <1>1, <1>2, HooksSets, FS_Interval DEF Hooks!Fresh
<1>4. ASSUME Hooks!Fresh \in Hooks!Emissions
      PROVE  emission[Hooks!Fresh].pc = "off" /\ job[Hooks!Fresh].state = "none"
  <2>1. emission[Hooks!Fresh].pc = "off"
    BY <1>1, <1>2, <1>3, <1>4 DEF Hooks!Emitted
  <2> QED BY <1>4, <2>1, HooksParts DEF Hooks!Follows
<1> QED BY <1>1, <1>3, <1>4

\* A step of emissions whose jobs stay, of which the fresh one may come to be, keeps the invariant.
LEMMA HooksMove ==
    ASSUME Hooks!HookAssumption, Hooks!IInv,
           emission' \in [Hooks!Emissions -> Hooks!EmissionStates],
           \A e \in Hooks!Emissions :
              emission'[e] = emission[e] \/ Hooks!Follows(emission'[e], job[e]),
           \A e \in Hooks!Emissions : 
              (e # Hooks!Fresh \/ emission'[e].pc = "off") => (emission'[e].pc = "off" <=> emission[e].pc = "off"),
           UNCHANGED <<job, ran, hookFaults>>
    PROVE  Hooks!IInv'
<1>1. Hooks!TypeOK'
  BY DEF Hooks!IInv, Hooks!TypeOK
<1>2. Hooks!Followed'
  BY HooksParts DEF Hooks!Followed, Hooks!Emissions
<1>3. Hooks!Worked'
  BY DEF Hooks!IInv, Hooks!Worked
<1>4. Hooks!Numbered'
  <2>1. PICK n \in 0..MaxEmissions : Hooks!Emitted = 1..n /\ Hooks!Fresh = n + 1
    BY HooksFresh
  <2>2. n \in Nat /\ n <= MaxEmissions /\ MaxEmissions \in Nat
    BY <2>1, HooksBounds
  <2>3. CASE n + 1 \in Hooks!Emissions /\ emission'[n + 1].pc # "off"
    <3>1. Hooks!Emitted' = 1..(n + 1)
      BY <2>1, <2>2, <2>3 DEF Hooks!Emitted, Hooks!Emissions
    <3>2. n + 1 \in 0..MaxEmissions
      BY <2>2, <2>3 DEF Hooks!Emissions
    <3> QED BY <3>1, <3>2 DEF Hooks!Numbered
  <2>4. CASE ~(n + 1 \in Hooks!Emissions /\ emission'[n + 1].pc # "off")
    <3>1. Hooks!Emitted' = Hooks!Emitted
      BY <2>1, <2>2, <2>4 DEF Hooks!Emitted, Hooks!Emissions
    <3> QED BY <2>1, <3>1 DEF Hooks!Numbered
  <2> QED BY <2>3, <2>4
<1> QED BY <1>1, <1>2, <1>3, <1>4 DEF Hooks!IInv

\* An emission that opens, whether from outside or from within a handler.
LEMMA HooksOpens ==
    ASSUME Hooks!HookAssumption, NEW m \in {Hooks!Opened, Hooks!Reentered},
           NEW j \in Hooks!JobStates, j.state = "none", m = Hooks!Opened \/ Inline > 0
    PROVE  m \in Hooks!EmissionStates /\ Hooks!Follows(m, j)
<1>0. /\ Inline \in Nat /\ Background \in Nat
      /\ Hooks!Accepted(0) = {}
  BY HooksBounds DEF Hooks!Accepted
<1>1. CASE m = Hooks!Reentered
  <2>1. m = [pc |-> "enqueue", at |-> 1, last |-> "fallback", answers |-> {}, gaveUp |-> FALSE,
             nested |-> TRUE]
    BY <1>1 DEF Hooks!Reentered, Hooks!Unused
  <2> QED BY <1>0, <2>1 DEF Hooks!EmissionStates, Hooks!Follows, Hooks!Unrefused
<1>2. CASE m = Hooks!Opened
  <2>1. PICK pc \in {"ended", "enqueue", "chain"} :
          /\ m = [pc |-> pc, at |-> 1, last |-> "fallback", answers |-> {}, gaveUp |-> FALSE,
                  nested |-> FALSE]
          /\ pc = "chain" => Inline # 0
          /\ pc = "enqueue" => Inline = 0
          /\ pc = "ended" => Inline = 0 /\ Background = 0
    <3> DEFINE pc == IF Inline + Background = 0 THEN "ended"
                     ELSE IF Inline = 0 THEN "enqueue" ELSE "chain"
    <3>1. m = [pc |-> pc, at |-> 1, last |-> "fallback", answers |-> {}, gaveUp |-> FALSE,
               nested |-> FALSE]
      BY <1>2 DEF Hooks!Opened, Hooks!Unused
    <3>2. /\ pc \in {"ended", "enqueue", "chain"} /\ (pc = "chain" => Inline # 0)
          /\ (pc = "enqueue" => Inline = 0) /\ (pc = "ended" => Inline = 0 /\ Background = 0)
      BY <1>0
    <3> HIDE DEF pc
    <3> QED BY <3>1, <3>2
  <2> QED BY <1>0, <2>1 DEF Hooks!EmissionStates, Hooks!Follows, Hooks!Unrefused
<1> QED BY <1>1, <1>2

\* An answer: an acceptance adds to those before it, a refusal ends the chain behind them.
LEMMA HooksAnswered ==
    ASSUME Hooks!HookAssumption, Hooks!IInv, NEW e \in Hooks!Emissions,
           NEW answer \in Hooks!Answers, emission[e].pc \in {"chain", "wait"}
    PROVE  /\ Hooks!Answered(e, answer) \in Hooks!EmissionStates
           /\ Hooks!Follows(Hooks!Answered(e, answer), job[e])
           /\ Hooks!Answered(e, answer).pc # "off"
<1>1. PICK pc \in {"chain", "wait"}, at \in 1..(Inline + 1), last \in {"fallback", "accept", "refuse"},
           answers \in SUBSET ((1..Inline) \X Hooks!Answers), gaveUp \in BOOLEAN,
           nested \in BOOLEAN :
         emission[e] = [pc |-> pc, at |-> at, last |-> last, answers |-> answers,
                        gaveUp |-> gaveUp, nested |-> nested]
  BY HooksParts DEF Hooks!EmissionStates
<1>2. /\ at <= Inline /\ at \in 1..Inline /\ answers = Hooks!Accepted(at - 1) /\ last # "refuse"
      /\ job[e].state = "none" /\ Inline \in Nat /\ Background \in Nat
  BY <1>1, HooksParts, HooksBounds DEF Hooks!Follows, Hooks!JobStates
<1> DEFINE pcs == IF answer = "refuse" THEN "ended" ELSE IF answer = "throw" THEN "raised"
                  ELSE IF at = Inline THEN "enqueue" ELSE "chain"
           lasts == IF answer = "throw" THEN last ELSE answer
           given == answers \union {<<at, answer>>}
           m == [pc |-> pcs, at |-> at + 1, last |-> lasts, answers |-> given,
                 gaveUp |-> gaveUp, nested |-> nested]
<1>3. Hooks!Answered(e, answer) = m
  <2>1. emission[e].at = at /\ emission[e].answers = answers /\ emission[e].last = last
    BY <1>1
  <2>2. [emission[e] EXCEPT !.answers = given, !.last = lasts, !.at = at + 1, !.pc = pcs] = m
    <3> DEFINE a == [pc |-> pc, at |-> at, last |-> last, answers |-> given,
                     gaveUp |-> gaveUp, nested |-> nested]
               b == [pc |-> pc, at |-> at, last |-> lasts, answers |-> given,
                     gaveUp |-> gaveUp, nested |-> nested]
               c == [pc |-> pc, at |-> at + 1, last |-> lasts, answers |-> given,
                     gaveUp |-> gaveUp, nested |-> nested]
    <3> HIDE DEF given, lasts, pcs
    <3>1. [emission[e] EXCEPT !.answers = given] = a
      BY <1>1
    <3>2. [a EXCEPT !.last = lasts] = b
      OBVIOUS
    <3>3. [b EXCEPT !.at = at + 1] = c
      OBVIOUS
    <3>4. [c EXCEPT !.pc = pcs] = m
      OBVIOUS
    <3> QED BY <3>1, <3>2, <3>3, <3>4, Zenon
  <2>3. Hooks!Answered(e, answer)
          = [emission[e] EXCEPT !.answers = emission[e].answers \union {<<emission[e].at, answer>>},
                                !.last = IF answer = "throw" THEN emission[e].last ELSE answer,
                                !.at = emission[e].at + 1,
                                !.pc = IF answer = "refuse" THEN "ended"
                                       ELSE IF answer = "throw" THEN "raised"
                                       ELSE IF emission[e].at = Inline THEN "enqueue" ELSE "chain"]
    BY Zenon DEF Hooks!Answered
  <2> HIDE DEF m
  <2> QED BY <2>1, <2>2, <2>3, Zenon
<1>4. m \in Hooks!EmissionStates
  <2>1. pcs \in {"ended", "raised", "enqueue", "chain"} /\ lasts \in {"fallback", "accept", "refuse"}
    BY DEF Hooks!Answers
  <2>2. given \in SUBSET ((1..Inline) \X Hooks!Answers) /\ at + 1 \in 1..(Inline + 1)
    BY <1>2
  <2> HIDE DEF pcs, lasts, given
  <2> QED BY <2>1, <2>2 DEF Hooks!EmissionStates
<1>5. /\ m.pc = pcs /\ m.at = at + 1 /\ m.last = lasts /\ m.answers = given
      /\ m.gaveUp = gaveUp /\ m.nested = nested
  OBVIOUS
<1>6. CASE answer = "accept"
  <2>1. given = Hooks!Accepted(at)
    BY <1>2, <1>6 DEF Hooks!Accepted
  <2>2. at + 1 - 1 = at
    BY <1>2
  <2> HIDE DEF m
  <2> QED BY <1>2, <1>3, <1>4, <1>5, <1>6, <2>1, <2>2 DEF Hooks!Follows, Hooks!Unrefused
<1>7. CASE answer = "refuse"
  <2>1. at + 1 > 1 /\ at + 1 - 1 = at /\ at + 1 - 2 = at - 1
    BY <1>2
  <2> HIDE DEF m
  <2> QED BY <1>2, <1>3, <1>4, <1>5, <1>7, <2>1 DEF Hooks!Follows
<1>8. CASE answer = "throw"
  <2>1. \A i \in 1..Inline : <<i, "refuse">> \notin given
    BY <1>2, <1>8 DEF Hooks!Accepted
  <2> HIDE DEF m
  <2> QED BY <1>2, <1>3, <1>4, <1>5, <1>8, <2>1 DEF Hooks!Follows
<1> QED BY <1>6, <1>7, <1>8 DEF Hooks!Answers

\* An emission starts with the first handler.
LEMMA HooksEmit ==
    ASSUME Hooks!HookAssumption, Hooks!IInv, Hooks!Emit
    PROVE  Hooks!IInv'
<1>1. /\ Hooks!Fresh \in Hooks!Emissions /\ job[Hooks!Fresh] \in Hooks!JobStates
      /\ job[Hooks!Fresh].state = "none"
  BY HooksFresh, HooksParts DEF Hooks!Emit
<1>2. Hooks!Opened \in Hooks!EmissionStates /\ Hooks!Follows(Hooks!Opened, job[Hooks!Fresh])
  BY <1>1, HooksOpens
<1>3. emission' = [emission EXCEPT ![Hooks!Fresh] = Hooks!Opened]
      /\ UNCHANGED <<job, ran, hookFaults>> /\ emission \in [Hooks!Emissions -> Hooks!EmissionStates]
  BY DEF Hooks!Emit, Hooks!IInv, Hooks!TypeOK
<1>4. Hooks!Opened.pc # "off"
  BY DEF Hooks!Opened, Hooks!Unused
<1> QED BY <1>1, <1>2, <1>3, <1>4, HooksMove

\* A handler is called while the chain lasts.
LEMMA HooksCall ==
    ASSUME Hooks!HookAssumption, Hooks!IInv, NEW e \in Hooks!Emissions, NEW emits \in BOOLEAN,
           NEW answer \in {"accept", "refuse", "throw", "later"}, Hooks!Call(e, answer, emits)
    PROVE  Hooks!IInv'
<1> DEFINE called == IF answer = "later" THEN [emission[e] EXCEPT !.pc = "wait"]
                     ELSE Hooks!Answered(e, answer)
<1>1. /\ emission' = [d \in Hooks!Emissions |-> IF d = e THEN called
                        ELSE IF emits /\ d = Hooks!Fresh THEN Hooks!Reentered ELSE emission[d]]
      /\ emission[e].pc = "chain" /\ (emits => Hooks!Fresh \in Hooks!Emissions)
      /\ UNCHANGED <<job, ran, hookFaults>> /\ emission \in [Hooks!Emissions -> Hooks!EmissionStates]
  BY DEF Hooks!Call, Hooks!IInv, Hooks!TypeOK
<1>2. called \in Hooks!EmissionStates /\ Hooks!Follows(called, job[e]) /\ called.pc # "off"
  <2>1. CASE answer = "later"
    <3>1. PICK pc \in {"chain"}, at \in 1..(Inline + 1), last \in {"fallback", "accept", "refuse"},
               answers \in SUBSET ((1..Inline) \X Hooks!Answers), gaveUp \in BOOLEAN,
               nested \in BOOLEAN :
             emission[e] = [pc |-> pc, at |-> at, last |-> last, answers |-> answers,
                            gaveUp |-> gaveUp, nested |-> nested]
      BY <1>1, HooksParts DEF Hooks!EmissionStates
    <3>2. called = [pc |-> "wait", at |-> at, last |-> last, answers |-> answers,
                    gaveUp |-> gaveUp, nested |-> nested]
      BY <2>1, <3>1
    <3>3. Hooks!Follows(emission[e], job[e])
      BY HooksParts
    <3> HIDE DEF called
    <3> QED BY <3>1, <3>2, <3>3 DEF Hooks!EmissionStates, Hooks!Follows
  <2>2. CASE answer # "later"
    BY <1>1, <2>2, HooksAnswered DEF Hooks!Answers
  <2> QED BY <2>1, <2>2
<1>3. ASSUME emits
      PROVE  /\ Hooks!Reentered \in Hooks!EmissionStates /\ Hooks!Reentered.pc # "off"
             /\ Hooks!Follows(Hooks!Reentered, job[Hooks!Fresh])
  <2>1. Inline > 0
    <3>1. emission[e].at \in 1..Inline
      BY <1>1, HooksParts, HooksBounds DEF Hooks!Follows, Hooks!EmissionStates
    <3> QED BY <3>1, HooksBounds
  <2>2. job[Hooks!Fresh] \in Hooks!JobStates /\ job[Hooks!Fresh].state = "none"
    BY <1>1, <1>3, HooksFresh, HooksParts
  <2>3. Hooks!Reentered.pc # "off"
    BY DEF Hooks!Reentered, Hooks!Unused
  <2> QED BY <2>1, <2>2, <2>3, HooksOpens
<1>4. emits => Hooks!Fresh # e
  BY <1>1, HooksFresh
<1> HIDE DEF called
<1>5. emission' \in [Hooks!Emissions -> Hooks!EmissionStates]
  BY <1>1, <1>2, <1>3
<1>6. ASSUME NEW d \in Hooks!Emissions
      PROVE  /\ emission'[d] = emission[d] \/ Hooks!Follows(emission'[d], job[d])
             /\ d # Hooks!Fresh \/ emission'[d].pc = "off" =>
                  (emission'[d].pc = "off" <=> emission[d].pc = "off")
  BY <1>1, <1>2, <1>3, <1>4
<1> QED BY <1>1, <1>5, <1>6, HooksMove

\* An emission goes on from where it waited, to a state that follows.
LEMMA HooksOne ==
    ASSUME Hooks!HookAssumption, Hooks!IInv, NEW e \in Hooks!Emissions, emission[e].pc = "wait",
           NEW m \in Hooks!EmissionStates, Hooks!Follows(m, job[e]), m.pc # "off",
           emission' = [emission EXCEPT ![e] = m], UNCHANGED <<job, ran, hookFaults>>
    PROVE  Hooks!IInv'
<1>1. emission \in [Hooks!Emissions -> Hooks!EmissionStates]
  BY DEF Hooks!IInv, Hooks!TypeOK
<1> QED BY <1>1, HooksMove

\* An answer is counted, and the chain goes on or is over.
LEMMA HooksSettle ==
    ASSUME Hooks!HookAssumption, Hooks!IInv, NEW e \in Hooks!Emissions,
           NEW answer \in {"accept", "refuse", "throw", "later"}, Hooks!Settle(e, answer)
    PROVE  Hooks!IInv'
<1>1. /\ Hooks!Answered(e, answer) \in Hooks!EmissionStates
      /\ Hooks!Follows(Hooks!Answered(e, answer), job[e])
      /\ Hooks!Answered(e, answer).pc # "off"
  BY HooksAnswered DEF Hooks!Settle, Hooks!Answers
<1> QED BY <1>1, HooksOne DEF Hooks!Settle

\* An emission that gives up waits for nobody.
LEMMA HooksGiveUp ==
    ASSUME Hooks!HookAssumption, Hooks!IInv, NEW e \in Hooks!Emissions, Hooks!GiveUp(e)
    PROVE  Hooks!IInv'
<1>1. PICK at \in 1..(Inline + 1), last \in {"fallback", "accept", "refuse"},
           answers \in SUBSET ((1..Inline) \X Hooks!Answers), gaveUp \in BOOLEAN,
           nested \in BOOLEAN :
         emission[e] = [pc |-> "wait", at |-> at, last |-> last, answers |-> answers,
                        gaveUp |-> gaveUp, nested |-> nested]
  BY HooksParts DEF Hooks!EmissionStates, Hooks!GiveUp
<1> DEFINE m == [pc |-> "enqueue", at |-> at, last |-> last, answers |-> answers,
                 gaveUp |-> TRUE, nested |-> nested]
<1>2. emission' = [emission EXCEPT ![e] = m]
  <2>1. emission' = [emission EXCEPT ![e] = [emission[e] EXCEPT !.pc = "enqueue", !.gaveUp = TRUE]]
    BY DEF Hooks!GiveUp, Hooks!IInv, Hooks!TypeOK
  <2>2. [emission[e] EXCEPT !.pc = "enqueue", !.gaveUp = TRUE] = m
    <3> DEFINE a == [pc |-> "enqueue", at |-> at, last |-> last, answers |-> answers,
                     gaveUp |-> gaveUp, nested |-> nested]
    <3>1. [emission[e] EXCEPT !.pc = "enqueue"] = a
      BY <1>1
    <3>2. \A x : [a EXCEPT !.gaveUp = x]
                   = [pc |-> "enqueue", at |-> at, last |-> last, answers |-> answers,
                      gaveUp |-> x, nested |-> nested]
      OBVIOUS
    <3> QED BY <3>1, <3>2, Zenon
  <2> QED BY <2>1, <2>2
<1>3. m \in Hooks!EmissionStates
  BY DEF Hooks!EmissionStates
<1>4. Hooks!Follows(m, job[e])
  <2>1. Hooks!Follows(emission[e], job[e])
    BY HooksParts
  <2> QED BY <1>1, <2>1 DEF Hooks!Follows, Hooks!Unrefused
<1> QED BY <1>1, <1>2, <1>3, <1>4, HooksOne DEF Hooks!GiveUp

\* The faults of a hook stay within their bound.
LEMMA HooksFault ==
    ASSUME Hooks!HookAssumption, Hooks!IInv, NEW ok \in BOOLEAN, Hooks!May(ok)
    PROVE  hookFaults' \in 0..MaxHookFaults
BY DEF Hooks!May, Hooks!Fault, Hooks!IInv, Hooks!TypeOK, Hooks!HookAssumption

\* A step of one emission and its job.
LEMMA HooksBoth ==
    ASSUME Hooks!HookAssumption, Hooks!IInv, NEW e \in Hooks!Emissions,
           NEW m \in Hooks!EmissionStates, NEW j \in Hooks!JobStates,
           NEW times \in [1..Background -> Nat],
           Hooks!Follows(m, j), Hooks!Works(j, times), m.pc = "off" <=> emission[e].pc = "off",
           emission' = [emission EXCEPT ![e] = m], job' = [job EXCEPT ![e] = j],
           ran' = [ran EXCEPT ![e] = times], hookFaults' \in 0..MaxHookFaults
    PROVE  Hooks!IInv'
<1>1. Hooks!TypeOK'
  BY DEF Hooks!IInv, Hooks!TypeOK
<1>2. \A d \in Hooks!Emissions :
        /\ emission'[d] = IF d = e THEN m ELSE emission[d]
        /\ job'[d] = IF d = e THEN j ELSE job[d]
        /\ ran'[d] = IF d = e THEN times ELSE ran[d]
  BY DEF Hooks!IInv, Hooks!TypeOK
<1>3. Hooks!Followed' /\ Hooks!Worked'
  BY <1>2, HooksParts DEF Hooks!Followed, Hooks!Worked, Hooks!Emissions
<1>4. Hooks!Emitted' = Hooks!Emitted
  BY <1>2 DEF Hooks!Emitted, Hooks!Emissions
<1> QED BY <1>1, <1>3, <1>4 DEF Hooks!IInv, Hooks!Numbered

\* What nobody refused is handed to the queue, or the push failed.
LEMMA HooksEnqueue ==
    ASSUME Hooks!HookAssumption, Hooks!IInv, NEW e \in Hooks!Emissions, NEW ok \in BOOLEAN,
           Hooks!Enqueue(e, ok)
    PROVE  Hooks!IInv'
<1>1. PICK at \in 1..(Inline + 1), last \in {"fallback", "accept", "refuse"},
           answers \in SUBSET ((1..Inline) \X Hooks!Answers), gaveUp \in BOOLEAN,
           nested \in BOOLEAN :
         emission[e] = [pc |-> "enqueue", at |-> at, last |-> last, answers |-> answers,
                        gaveUp |-> gaveUp, nested |-> nested]
  BY HooksParts DEF Hooks!EmissionStates, Hooks!Enqueue
<1> DEFINE m == [pc |-> "ended", at |-> at, last |-> last, answers |-> answers,
                 gaveUp |-> gaveUp, nested |-> nested]
           state == IF Background = 0 THEN "none" ELSE IF ok THEN "queued" ELSE "lost"
           j == [state |-> state, next |-> 1, tries |-> 0]
<1>2. /\ Hooks!Follows(emission[e], job[e]) /\ Hooks!Works(job[e], ran[e])
      /\ job[e] \in Hooks!JobStates /\ Background \in Nat /\ MaxTries \in Nat \ {0}
      /\ Inline \in Nat
  BY HooksParts, HooksBounds
<1>3. job[e] = [state |-> "none", next |-> 1, tries |-> 0]
  BY <1>1, <1>2 DEF Hooks!Follows, Hooks!Works, Hooks!JobStates
<1>4. emission' = [emission EXCEPT ![e] = m]
  <2>1. [emission[e] EXCEPT !.pc = "ended"] = m
    BY <1>1
  <2> QED BY <2>1 DEF Hooks!Enqueue
<1>5. job' = [job EXCEPT ![e] = j]
  <2>1. CASE Background = 0
    <3>1. job' = job /\ j = job[e] /\ job \in [Hooks!Emissions -> Hooks!JobStates]
      BY <1>3, <2>1 DEF Hooks!Enqueue, Hooks!IInv, Hooks!TypeOK
    <3> HIDE DEF j
    <3> QED BY <3>1
  <2>2. CASE Background # 0
    <3>1. [job[e] EXCEPT !.state = IF ok THEN "queued" ELSE "lost"] = j
      BY <1>3, <2>2
    <3>2. job' = [job EXCEPT ![e] = [job[e] EXCEPT !.state = IF ok THEN "queued" ELSE "lost"]]
      BY <2>2 DEF Hooks!Enqueue
    <3> QED BY <3>1, <3>2, Zenon
  <2> QED BY <2>1, <2>2
<1>6. ran' = [ran EXCEPT ![e] = ran[e]] /\ ran[e] \in [1..Background -> Nat]
  BY DEF Hooks!Enqueue, Hooks!IInv, Hooks!TypeOK
<1>7. m \in Hooks!EmissionStates /\ m.pc = "ended" /\ emission[e].pc = "enqueue"
  BY <1>1 DEF Hooks!EmissionStates
<1>8. /\ j \in Hooks!JobStates /\ j.state = state /\ j.next = 1 /\ j.tries = 0
      /\ state \in {"none", "queued", "lost"} /\ (state = "none" <=> Background = 0)
  BY <1>2 DEF Hooks!JobStates
<1>9. Hooks!Follows(m, j)
  <2> HIDE DEF j, state
  <2> QED BY <1>1, <1>2, <1>7, <1>8 DEF Hooks!Follows, Hooks!Unrefused
<1>10. Hooks!Works(j, ran[e])
  <2> HIDE DEF j, state, m
  <2> QED BY <1>2, <1>3, <1>8, <1>6 DEF Hooks!Works
<1>11. hookFaults' \in 0..MaxHookFaults
  BY HooksFault DEF Hooks!Enqueue
<1> HIDE DEF m, j, state
<1> QED BY <1>4, <1>5, <1>6, <1>7, <1>8, <1>9, <1>10, <1>11, HooksBoth

\* The background calls its handlers in turn, from the first on each try.
LEMMA HooksRun ==
    ASSUME Hooks!HookAssumption, Hooks!IInv, NEW e \in Hooks!Emissions, NEW ok \in BOOLEAN,
           Hooks!Run(e, ok)
    PROVE  Hooks!IInv'
<1>1. PICK next \in 1..(Background + 1), tried \in 0..MaxTries :
         job[e] = [state |-> "queued", next |-> next, tries |-> tried]
  BY HooksParts DEF Hooks!JobStates, Hooks!Run
<1>2. /\ Hooks!Follows(emission[e], job[e]) /\ Hooks!Works(job[e], ran[e])
      /\ emission[e] \in Hooks!EmissionStates /\ ran[e] \in [1..Background -> Nat]
      /\ Background \in Nat /\ MaxTries \in Nat \ {0}
  BY HooksParts, HooksBounds
<1>3. next \in 1..Background /\ tried < MaxTries /\ tried \in Nat
  BY <1>1, <1>2 DEF Hooks!Works
<1> DEFINE state == IF ok THEN IF next = Background THEN "done" ELSE "queued"
                    ELSE IF tried + 1 = MaxTries THEN "dead" ELSE "queued"
           j == [state |-> state, next |-> IF ok THEN next + 1 ELSE 1,
                 tries |-> IF ok THEN tried ELSE tried + 1]
           times == IF ok THEN [ran[e] EXCEPT ![next] = @ + 1] ELSE ran[e]
<1>4. job' = [job EXCEPT ![e] = j]
  <2>1. job[e].tries = tried /\ job[e].next = next
    BY <1>1
  <2>2. CASE ok
    BY <2>1, <2>2 DEF Hooks!Run
  <2>3. CASE ~ok
    BY <2>1, <2>3 DEF Hooks!Run
  <2> QED BY <2>2, <2>3
<1>5. ran' = [ran EXCEPT ![e] = times] /\ times \in [1..Background -> Nat]
  <2>1. job[e].next = next /\ ran \in [Hooks!Emissions -> [1..Background -> Nat]]
    BY <1>1 DEF Hooks!IInv, Hooks!TypeOK
  <2>2. CASE ok
    BY <1>2, <1>3, <2>1, <2>2 DEF Hooks!Run
  <2>3. CASE ~ok
    BY <1>2, <2>1, <2>3 DEF Hooks!Run
  <2> QED BY <2>2, <2>3
<1>6. emission' = [emission EXCEPT ![e] = emission[e]]
  BY DEF Hooks!Run, Hooks!IInv, Hooks!TypeOK
<1>7. /\ j \in Hooks!JobStates /\ j.state = state /\ j.next = (IF ok THEN next + 1 ELSE 1)
      /\ j.tries = (IF ok THEN tried ELSE tried + 1)
  <2>1. /\ state \in {"done", "queued", "dead"}
        /\ (IF ok THEN next + 1 ELSE 1) \in 1..(Background + 1)
        /\ (IF ok THEN tried ELSE tried + 1) \in 0..MaxTries
    BY <1>2, <1>3
  <2> HIDE DEF state
  <2> QED BY <2>1 DEF Hooks!JobStates
<1>8. Hooks!Follows(emission[e], j)
  <2>1. job[e].state # "none" /\ j.state # "none"
    BY <1>1, <1>7
  <2> HIDE DEF j, state
  <2> QED BY <1>2, <2>1 DEF Hooks!Follows
<1>9. Hooks!Works(j, times)
  <2>1. /\ j.state = "queued" => j.next <= Background /\ j.tries < MaxTries
        /\ j.state = "done" => j.next = Background + 1
        /\ j.state \notin {"none", "lost"}
    <3> HIDE DEF j
    <3> QED BY <1>2, <1>3, <1>7
  <2>2. ASSUME NEW b \in 1..Background
        PROVE  /\ times[b] <= j.tries + (IF b < j.next THEN 1 ELSE 0)
               /\ b < j.next => times[b] >= 1
    <3>1. /\ ran[e][b] <= tried + (IF b < next THEN 1 ELSE 0)
          /\ b < next => ran[e][b] >= 1
      BY <1>1, <1>2 DEF Hooks!Works
    <3>2. times[b] = IF ok /\ b = next THEN ran[e][b] + 1 ELSE ran[e][b]
      BY <1>2, <1>3
    <3>3. ran[e][b] \in Nat /\ b \in Nat /\ next \in Nat
      BY <1>2, <1>3
    <3> HIDE DEF times, j, state
    <3> QED BY <1>3, <1>7, <3>1, <3>2, <3>3
  <2> HIDE DEF j, times
  <2> QED BY <2>1, <2>2 DEF Hooks!Works
<1>10. hookFaults' \in 0..MaxHookFaults
  BY HooksFault DEF Hooks!Run
<1> HIDE DEF j, times
<1> QED BY <1>2, <1>4, <1>5, <1>6, <1>7, <1>8, <1>9, <1>10, HooksBoth

\* Each step of a chain and of its background keeps the invariant.
LEMMA HooksSteps ==
    ASSUME Hooks!HookAssumption, Hooks!IInv, [Hooks!Next]_(Hooks!hookVars)
    PROVE  Hooks!IInv'
<1>1. CASE UNCHANGED Hooks!hookVars
  BY <1>1 DEF Hooks!hookVars, Hooks!IInv, Hooks!TypeOK, Hooks!Numbered, Hooks!Emitted,
     Hooks!Followed, Hooks!Worked
<1>2. CASE Hooks!Next
  BY <1>2, HooksEmit, HooksCall, HooksSettle, HooksGiveUp, HooksEnqueue, HooksRun DEF Hooks!Next
<1> QED BY <1>1, <1>2

\* The invariant of a hook gives what is said of its background.
LEMMA HooksKept ==
    ASSUME Hooks!HookAssumption, Hooks!IInv
    PROVE  Hooks!NothingBehindARefusal /\ Hooks!TypeOK
<1> SUFFICES ASSUME NEW e \in Hooks!Emissions
             PROVE  LET accepted == {i \in 1..Inline : <<i, "accept">> \in emission[e].answers}
                    IN  /\ job[e].state # "none" =>
                             \/ accepted = 1..Inline \/ emission[e].gaveUp
                             \/ emission[e].nested /\ accepted = {}
                        /\ \A i \in 1..Inline : <<i, "refuse">> \in emission[e].answers =>
                             job[e].state = "none" /\ emission[e].at = i + 1 /\ accepted = 1..(i - 1)
                        /\ emission[e].pc = "ended" /\ Background > 0 =>
                             (job[e].state = "none") = (emission[e].last = "refuse")
                        /\ \A b \in 1..Background :
                             /\ ran[e][b] <= job[e].tries + 1
                             /\ job[e].state = "done" => ran[e][b] >= 1
  BY DEF Hooks!NothingBehindARefusal, Hooks!IInv
<1> DEFINE accepted == {i \in 1..Inline : <<i, "accept">> \in emission[e].answers}
<1>1. /\ Hooks!Follows(emission[e], job[e]) /\ Hooks!Works(job[e], ran[e])
      /\ Inline \in Nat /\ Background \in Nat
      /\ emission[e].at \in 1..(Inline + 1) /\ emission[e].answers \subseteq (1..Inline) \X Hooks!Answers
      /\ emission[e].pc \in {"off", "chain", "wait", "enqueue", "ended", "raised"}
      /\ job[e].tries \in Nat /\ ran[e] \in [1..Background -> Nat] /\ job[e].next \in 1..(Background + 1)
  BY HooksParts, HooksBounds DEF Hooks!EmissionStates, Hooks!JobStates
<1>2. \A n \in Nat : \A i : /\ <<i, "accept">> \in Hooks!Accepted(n) <=> i \in 1..n
                            /\ <<i, "refuse">> \notin Hooks!Accepted(n)
  BY DEF Hooks!Accepted
<1>3. job[e].state # "none" =>
         accepted = 1..Inline \/ emission[e].gaveUp \/ (emission[e].nested /\ accepted = {})
  BY <1>1, <1>2 DEF Hooks!Follows, Hooks!Unrefused
<1>4. ASSUME NEW i \in 1..Inline, <<i, "refuse">> \in emission[e].answers
      PROVE  job[e].state = "none" /\ emission[e].at = i + 1 /\ accepted = 1..(i - 1)
  <2>1. emission[e].at - 1 \in Nat /\ (emission[e].at > 1 => emission[e].at - 2 \in Nat)
    BY <1>1
  <2>2. ~Hooks!Unrefused(emission[e])
    BY <1>1, <1>2, <1>4, <2>1 DEF Hooks!Unrefused
  <2>3. /\ emission[e].pc = "ended" /\ emission[e].last = "refuse" /\ emission[e].at > 1
        /\ emission[e].answers = Hooks!Accepted(emission[e].at - 2) \union {<<emission[e].at - 1, "refuse">>}
        /\ job[e].state = "none"
    BY <1>1, <1>2, <1>4, <2>1, <2>2 DEF Hooks!Follows
  <2>4. i = emission[e].at - 1
    BY <1>2, <1>4, <2>1, <2>3
  <2>5. emission[e].at \in Nat /\ i \in Nat /\ i <= Inline
    BY <1>1
  <2>6. \A k : <<k, "accept">> \in emission[e].answers <=> k \in 1..(emission[e].at - 2)
    BY <1>2, <2>1, <2>3
  <2>7. 1..(emission[e].at - 2) = 1..(i - 1) /\ 1..(i - 1) \subseteq 1..Inline /\ emission[e].at = i + 1
    <3>1. emission[e].at = i + 1 /\ emission[e].at - 2 = i - 1 /\ i - 1 <= Inline
      BY <1>1, <2>4, <2>5
    <3>2. 1..(i - 1) \subseteq 1..Inline
      BY <1>1, <2>5, <3>1
    <3> QED BY <3>1, <3>2
  <2>8. accepted = 1..(i - 1)
    BY <2>6, <2>7
  <2> HIDE DEF accepted
  <2> QED BY <2>3, <2>7, <2>8
<1>5. emission[e].pc = "ended" /\ Background > 0 =>
         ((job[e].state = "none") = (emission[e].last = "refuse"))
  BY <1>1 DEF Hooks!Follows
<1>6. ASSUME NEW b \in 1..Background
      PROVE  ran[e][b] <= job[e].tries + 1 /\ (job[e].state = "done" => ran[e][b] >= 1)
  <2>1. /\ ran[e][b] <= job[e].tries + (IF b < job[e].next THEN 1 ELSE 0)
        /\ b < job[e].next => ran[e][b] >= 1
        /\ job[e].state = "done" => job[e].next = Background + 1
    BY <1>1 DEF Hooks!Works
  <2>2. ran[e][b] \in Nat /\ job[e].next \in Nat /\ job[e].tries \in Nat
    BY <1>1
  <2>3. b \in Nat /\ b < Background + 1
    BY <1>1, <1>6
  <2> QED BY <2>1, <2>2, <2>3
<1> QED BY <1>3, <1>4, <1>5, <1>6

\* The variables of OwnedRows.
row == v1
inFlight == v3
USE DEF row, inFlight

-----------------------------------------------------------------------------
(* Owned rows (database/query, database/capability.ts).                       *)

RowsMarkers == {"unproven", "anonymous", "staff", "absent", "unowned", "leave", "open", "nobody",
                "throws"}

\* The markers of an owner are apart, and apart from the users.
LEMMA RowsNames ==
    /\ Rows!Absent = "absent" /\ Rows!Unowned = "unowned" /\ Rows!Leave = "leave"
    /\ Rows!Open = "open" /\ Rows!Nobody = "nobody" /\ Rows!Throws = "throws" /\ Rows!Staff = "staff"
    /\ Rows!Principals = Users \cup {"unproven", "anonymous", "staff"}
    /\ Rows!OwnedAssumption => Users \cap RowsMarkers = {}
BY DEF Rows!Absent, Rows!Unowned, Rows!Leave, Rows!Open, Rows!Nobody, Rows!Throws, Rows!Staff,
   Rows!Principals, Rows!OwnedAssumption, RowsMarkers

\* No row was there at first.
LEMMA RowsStarts == Rows!Init => Rows!IInv
BY DEF Rows!Init, Rows!IInv, Rows!TypeOK

\* What a caller may see of a table: all of it, none of it, its own, or the query throws.
LEMMA RowsScope ==
    ASSUME NEW table, NEW by \in Rows!Principals
    PROVE  /\ Rows!OwnerScope(table, by) \in {Rows!Open, Rows!Throws, Rows!Nobody, by}
           /\ Rows!OwnerScope(table, by) \in Users \cup {Rows!Open, Rows!Throws, Rows!Nobody}
BY RowsNames DEF Rows!OwnerScope

\* A statement that is narrowed may be compiled.
LEMMA RowsCompiled ==
    ASSUME Rows!IInv, NEW s \in Rows!Statements, Rows!Narrowed(s), Rows!Compiled(s)
    PROVE  Rows!IInv'
BY DEF Rows!IInv, Rows!TypeOK, Rows!Compiled

\* What a query compiles to is a statement, and is kept if it is narrowed.
LEMMA RowsStatement ==
    ASSUME Rows!OwnedAssumption, Rows!IInv, NEW by \in Rows!Principals,
           NEW door \in {"builder", "wire"},
           NEW op \in {"read", "insert", "upsert", "update", "delete", "deleteOne"},
           NEW where \in SUBSET OrderKeys, NEW entireTable \in BOOLEAN,
           NEW owner \in Users \cup {Rows!Open, Rows!Nobody},
           NEW cards \in Users \cup {Rows!Open, Rows!Nobody, Rows!Absent},
           NEW write \in Users \cup {Rows!Leave, Rows!Unowned},
           owner \in {Rows!Open, Rows!Nobody, by},
           cards \in {Rows!Open, Rows!Nobody, Rows!Absent, by},
           door = "builder" /\ op \in {"insert", "upsert"} /\ owner # Rows!Open => write = by,
           door = "builder" /\ op = "update" /\ owner = by => write \in {Rows!Leave, by},
           op \in {"insert", "upsert"} => where # {} /\ write # Rows!Leave,
           op \in {"update", "delete", "deleteOne"} /\ owner = Rows!Open => where # {} \/ entireTable,
           Rows!Compiled(Rows!Statement(by, door, op, where, entireTable, owner, cards, write))
    PROVE  Rows!IInv'
<1> DEFINE s == Rows!Statement(by, door, op, where, entireTable, owner, cards, write)
<1>1. Rows!Reach(where) \in Rows!Wheres
  BY DEF Rows!Reach, Rows!Wheres, Rows!OwnedAssumption
<1>2. PICK all \in BOOLEAN : all = (where # {} \/ entireTable)
  OBVIOUS
<1>3. s = [by |-> by, door |-> door, op |-> op, keys |-> Rows!Reach(where), owner |-> owner,
           cards |-> cards, write |-> write, named |-> all]
  BY <1>2, Zenon DEF Rows!Statement
<1>4. s \in Rows!Statements
  BY <1>1, <1>2, <1>3 DEF Rows!Statements
<1>5. Rows!Narrowed(s)
  <2>1. s.named = all /\ s.owner = owner /\ s.cards = cards /\ s.write = write /\ s.op = op
        /\ s.door = door /\ s.by = by
    BY <1>3
  <2>2. (op \in {"insert", "upsert"} => all)
        /\ (op \in {"update", "delete", "deleteOne"} /\ owner = Rows!Open => all)
    BY <1>2
  <2> HIDE DEF s
  <2> QED BY <2>1, <2>2, Zenon DEF Rows!Narrowed
<1> QED BY <1>4, <1>5, RowsCompiled

\* A read returns what its guard lets it see.
LEMMA RowsGet ==
    ASSUME Rows!OwnedAssumption, Rows!IInv, NEW by \in Rows!Principals, NEW unscoped \in BOOLEAN,
           NEW where \in SUBSET OrderKeys, NEW embeds \in BOOLEAN,
           Rows!Get(by, unscoped, where, embeds)
    PROVE  Rows!IInv'
<1> DEFINE owner == Rows!Decide(by, unscoped)
           cards == Rows!EmbeddedScopes(by, embeds)
<1>1. /\ owner \in {Rows!Open, Rows!Nobody, by} /\ owner \in Users \cup {Rows!Open, Rows!Nobody}
      /\ cards \in {Rows!Open, Rows!Nobody, Rows!Absent, by}
      /\ cards \in Users \cup {Rows!Open, Rows!Nobody, Rows!Absent}
  BY RowsScope, RowsNames DEF Rows!Get, Rows!Decide, Rows!EmbeddedScopes
<1>2. Rows!Compiled(Rows!Statement(by, "builder", "read", where, FALSE, owner, cards, Rows!Leave))
  BY DEF Rows!Get
<1> HIDE DEF owner, cards
<1>3. PICK no \in BOOLEAN : Rows!Compiled(Rows!Statement(by, "builder", "read", where, no, owner, cards, Rows!Leave))
  BY <1>2, Zenon
<1> QED BY <1>1, <1>3, RowsStatement

\* An insert or an upsert is stamped with its caller.
LEMMA RowsInsert ==
    ASSUME Rows!OwnedAssumption, Rows!IInv, NEW by \in Rows!Principals, NEW unscoped \in BOOLEAN,
           NEW where \in SUBSET OrderKeys, NEW op \in {"insert", "upsert"},
           NEW named \in Users \cup {Rows!Leave}, where # {},
           Rows!Insert(op, by, unscoped, where, named)
    PROVE  Rows!IInv'
<1> DEFINE owner == Rows!Decide(by, unscoped)
           write == Rows!Owned(owner, named)
<1>1. owner \in {Rows!Open, by} /\ owner \in Users \cup {Rows!Open}
  BY RowsScope, RowsNames DEF Rows!Insert, Rows!Decide, Rows!RefusesOwner
<1>2. /\ write \in Users \cup {Rows!Unowned} /\ write # Rows!Leave
      /\ owner # Rows!Open => write = by
  BY <1>1, RowsNames DEF Rows!Owned, RowsMarkers
<1>3. Rows!Compiled(Rows!Statement(by, "builder", op, where, FALSE, owner, Rows!Absent, write))
  BY DEF Rows!Insert
<1> HIDE DEF owner, write
<1>4. PICK no \in BOOLEAN : Rows!Compiled(Rows!Statement(by, "builder", op, where, no, owner, Rows!Absent, write))
  BY <1>3, Zenon
<1> QED BY <1>1, <1>2, <1>4, RowsStatement

\* An update moves the rows its guard lets it see.
LEMMA RowsUpdate ==
    ASSUME Rows!OwnedAssumption, Rows!IInv, NEW by \in Rows!Principals, NEW unscoped \in BOOLEAN,
           NEW where \in SUBSET OrderKeys, NEW entireTable \in BOOLEAN,
           NEW named \in Users \cup {Rows!Leave, Rows!Unowned},
           Rows!Update(by, unscoped, where, entireTable, named)
    PROVE  Rows!IInv'
<1> DEFINE owner == Rows!Decide(by, unscoped)
<1>1. owner \in {Rows!Open, Rows!Nobody, by} /\ owner \in Users \cup {Rows!Open, Rows!Nobody}
  BY RowsScope, RowsNames DEF Rows!Update, Rows!Decide
<1>2. owner = Rows!Open => where # {} \/ entireTable
  BY DEF Rows!Update, Rows!RefusesUnboundedWrite
<1>3. owner = by => named \in {Rows!Leave, by}
  BY <1>1, RowsNames DEF Rows!Update, Rows!MovesTheOwner, RowsMarkers
<1>4. Rows!Compiled(Rows!Statement(by, "builder", "update", where, entireTable, owner, Rows!Absent, named))
  BY DEF Rows!Update
<1> HIDE DEF owner
<1> QED BY <1>1, <1>2, <1>3, <1>4, RowsStatement, SMTT(60)

\* A delete takes the rows its guard lets it see.
LEMMA RowsDelete ==
    ASSUME Rows!OwnedAssumption, Rows!IInv, NEW by \in Rows!Principals, NEW unscoped \in BOOLEAN,
           NEW where \in SUBSET OrderKeys, NEW entireTable \in BOOLEAN,
           NEW op \in {"delete", "deleteOne"},
           Rows!Delete(op, by, unscoped, where, entireTable)
    PROVE  Rows!IInv'
<1> DEFINE owner == Rows!Decide(by, unscoped)
<1>1. owner \in {Rows!Open, Rows!Nobody, by} /\ owner \in Users \cup {Rows!Open, Rows!Nobody}
  BY RowsScope, RowsNames DEF Rows!Delete, Rows!Decide
<1>2. owner = Rows!Open => where # {} \/ entireTable
  BY DEF Rows!Delete, Rows!RefusesUnboundedWrite
<1>3. Rows!Compiled(Rows!Statement(by, "builder", op, where, entireTable, owner, Rows!Absent, Rows!Leave))
  BY DEF Rows!Delete
<1> HIDE DEF owner
<1> QED BY <1>1, <1>2, <1>3, RowsStatement, SMTT(60)

\* A query that comes in over the wire is guarded as the others are.
LEMMA RowsExecuteQuery ==
    ASSUME Rows!OwnedAssumption, Rows!IInv, NEW by \in Rows!Principals,
           NEW where \in SUBSET OrderKeys,
           NEW op \in {"read", "insert", "upsert", "update", "delete"},
           NEW named \in Users \cup {Rows!Leave}, Rows!ExecuteQuery(op, by, where, named)
    PROVE  Rows!IInv'
<1> DEFINE owner == Rows!OwnerScope("orders", by)
           write == CASE op \in {"insert", "upsert"} -> Rows!OwnedPayload(owner, named)
                      [] op = "update" -> named
                      [] OTHER -> Rows!Leave
<1>1. owner \in {Rows!Open, Rows!Nobody, by} /\ owner \in Users \cup {Rows!Open, Rows!Nobody}
  BY RowsScope, RowsNames DEF Rows!ExecuteQuery
<1>2. /\ owner = Rows!Open /\ op \in {"update", "delete"} => where # {}
      /\ op \in {"insert", "upsert"} => where # {}
  BY DEF Rows!ExecuteQuery, Rows!ReachesEveryRow
<1>3. /\ write \in Users \cup {Rows!Leave, Rows!Unowned}
      /\ op \in {"insert", "upsert"} => write # Rows!Leave
  <2>1. Rows!OwnedPayload(owner, named) \in Users \cup {Rows!Unowned}
    BY RowsNames DEF Rows!OwnedPayload
  <2>2. Rows!Leave \notin Users \cup {Rows!Unowned}
    BY RowsNames DEF RowsMarkers
  <2> HIDE DEF owner
  <2> QED BY <2>1, <2>2, Zenon
<1>4. Rows!Compiled(Rows!Statement(by, "wire", op, where, FALSE, owner, Rows!Absent, write))
  BY DEF Rows!ExecuteQuery
<1> HIDE DEF owner, write
<1>5. PICK no \in BOOLEAN : Rows!Compiled(Rows!Statement(by, "wire", op, where, no, owner, Rows!Absent, write))
  BY <1>4, Zenon
<1> QED BY <1>1, <1>2, <1>3, <1>5, RowsStatement

\* A statement leaves a table of rows.
LEMMA RowsWritten ==
    ASSUME Rows!IInv, NEW s \in inFlight
    PROVE  Rows!Written(s) \in [OrderKeys -> Users \cup {Rows!Absent, Rows!Unowned}]
<1> DEFINE Owners == Users \cup {Rows!Absent, Rows!Unowned}
<1>1. row \in [OrderKeys -> Owners]
  BY DEF Rows!IInv, Rows!TypeOK
<1>2. s \in Rows!Statements /\ Rows!Narrowed(s)
  BY DEF Rows!IInv, Rows!TypeOK
<1>3. s.write \in Users \cup {Rows!Leave, Rows!Unowned}
      /\ s.op \in {"read", "insert", "upsert", "update", "delete", "deleteOne"}
  BY <1>2 DEF Rows!Statements
<1>4. s.write # Rows!Leave => s.write \in Owners
  BY <1>3
<1>5. s.op \in {"insert", "upsert"} => s.write \in Owners
  BY <1>2, <1>4, Zenon DEF Rows!Narrowed
<1>6. Rows!Absent \in Owners
  OBVIOUS
<1> SUFFICES Rows!Written(s) \in [OrderKeys -> Owners]
  OBVIOUS
<1> HIDE DEF Owners
<1>7. CASE s.op = "insert" BY <1>1, <1>5, <1>7 DEF Rows!Written
<1>8. CASE s.op = "upsert" BY <1>1, <1>5, <1>8 DEF Rows!Written
<1>9. CASE s.op = "update" BY <1>1, <1>4, <1>9 DEF Rows!Written
<1>10. CASE s.op \in {"delete", "deleteOne"} BY <1>1, <1>6, <1>10 DEF Rows!Written
<1>11. CASE s.op = "read" BY <1>1, <1>11 DEF Rows!Written
<1> QED BY <1>3, <1>7, <1>8, <1>9, <1>10, <1>11

\* Each query, and each registration of a table, keeps the invariant.
LEMMA RowsSteps == ASSUME Rows!OwnedAssumption, Rows!IInv, [Rows!Next]_(Rows!ownedVars) PROVE Rows!IInv'
<1>1. ASSUME NEW table \in Rows!Tables, Rows!RegisterTableOwners(table) PROVE Rows!IInv'
  <2>1. Rows!TypeOK' /\ inFlight' = inFlight
    BY <1>1 DEF Rows!IInv, Rows!TypeOK, Rows!RegisterTableOwners
  <2> QED BY <2>1 DEF Rows!IInv, Rows!Narrowed
<1>2. ASSUME NEW s \in inFlight, Rows!Run(s) PROVE Rows!IInv'
  BY <1>2, RowsWritten DEF Rows!IInv, Rows!TypeOK, Rows!Run
<1>3. ASSUME NEW s \in inFlight, Rows!Fail(s) PROVE Rows!IInv'
  BY <1>3 DEF Rows!IInv, Rows!TypeOK, Rows!Fail
<1>4. ASSUME UNCHANGED Rows!ownedVars PROVE Rows!IInv'
  BY <1>4 DEF Rows!IInv, Rows!TypeOK, Rows!Narrowed, Rows!ownedVars
<1>5. ASSUME NEW by \in Rows!Principals, NEW where \in SUBSET OrderKeys, NEW unscoped \in BOOLEAN
      PROVE  /\ (\E embeds \in BOOLEAN : Rows!Get(by, unscoped, where, embeds)) => Rows!IInv'
             /\ (\E op \in {"insert", "upsert"}, named \in Users \cup {Rows!Leave} :
                    where # {} /\ Rows!Insert(op, by, unscoped, where, named)) => Rows!IInv'
             /\ (\E entireTable \in BOOLEAN, named \in Users \cup {Rows!Leave, Rows!Unowned} :
                    Rows!Update(by, unscoped, where, entireTable, named)) => Rows!IInv'
             /\ (\E entireTable \in BOOLEAN, op \in {"delete", "deleteOne"} :
                    Rows!Delete(op, by, unscoped, where, entireTable)) => Rows!IInv'
  <2>1. (\E embeds \in BOOLEAN : Rows!Get(by, unscoped, where, embeds)) => Rows!IInv'
    BY RowsGet
  <2>2. (\E op \in {"insert", "upsert"}, named \in Users \cup {Rows!Leave} :
            where # {} /\ Rows!Insert(op, by, unscoped, where, named)) => Rows!IInv'
    BY RowsInsert
  <2>3. (\E entireTable \in BOOLEAN, named \in Users \cup {Rows!Leave, Rows!Unowned} :
            Rows!Update(by, unscoped, where, entireTable, named)) => Rows!IInv'
    BY RowsUpdate
  <2>4. (\E entireTable \in BOOLEAN, op \in {"delete", "deleteOne"} :
            Rows!Delete(op, by, unscoped, where, entireTable)) => Rows!IInv'
    BY RowsDelete
  <2> QED BY <2>1, <2>2, <2>3, <2>4
<1>6. ASSUME NEW by \in Rows!Principals, NEW where \in SUBSET OrderKeys,
             \E op \in {"read", "insert", "upsert", "update", "delete"}, named \in Users \cup {Rows!Leave} :
                Rows!ExecuteQuery(op, by, where, named)
      PROVE  Rows!IInv'
  BY <1>6, RowsExecuteQuery
<1>7. CASE Rows!Next
  <2>1. CASE \E table \in Rows!Tables : Rows!RegisterTableOwners(table)
    BY <1>1, <2>1
  <2>2. CASE \E s \in inFlight : Rows!Run(s) \/ Rows!Fail(s)
    BY <1>2, <1>3, <2>2
  <2>3. ASSUME NEW by \in Rows!Principals, NEW where \in SUBSET OrderKeys,
               \E unscoped \in BOOLEAN :
                  \/ \E embeds \in BOOLEAN : Rows!Get(by, unscoped, where, embeds)
                  \/ \E op \in {"insert", "upsert"}, named \in Users \cup {Rows!Leave} :
                        where # {} /\ Rows!Insert(op, by, unscoped, where, named)
                  \/ \E entireTable \in BOOLEAN :
                        \/ \E named \in Users \cup {Rows!Leave, Rows!Unowned} :
                              Rows!Update(by, unscoped, where, entireTable, named)
                        \/ \E op \in {"delete", "deleteOne"} :
                              Rows!Delete(op, by, unscoped, where, entireTable)
        PROVE  Rows!IInv'
    <3>1. PICK unscoped \in BOOLEAN :
              \/ \E embeds \in BOOLEAN : Rows!Get(by, unscoped, where, embeds)
              \/ \E op \in {"insert", "upsert"}, named \in Users \cup {Rows!Leave} :
                    where # {} /\ Rows!Insert(op, by, unscoped, where, named)
              \/ \E entireTable \in BOOLEAN :
                    \/ \E named \in Users \cup {Rows!Leave, Rows!Unowned} :
                          Rows!Update(by, unscoped, where, entireTable, named)
                    \/ \E op \in {"delete", "deleteOne"} :
                          Rows!Delete(op, by, unscoped, where, entireTable)
      BY <2>3
    <3> QED BY <1>5, <3>1
  <2> QED BY <1>6, <1>7, <2>1, <2>2, <2>3 DEF Rows!Next
<1> QED BY <1>4, <1>7
\* A statement leaves the store's way only by being carried out or by failing.
LEMMA RowsDone ==
    ASSUME [Rows!Next]_(Rows!ownedVars), NEW s \in inFlight \ inFlight'
    PROVE  row' \in {Rows!Written(s), row}
<1>1. ASSUME NEW r \in inFlight, Rows!Run(r) \/ Rows!Fail(r) PROVE row' \in {Rows!Written(s), row}
  BY <1>1 DEF Rows!Run, Rows!Fail
<1>2. CASE UNCHANGED Rows!ownedVars
  BY <1>2 DEF Rows!ownedVars
<1>3. CASE \E table \in Rows!Tables : Rows!RegisterTableOwners(table)
  BY <1>3 DEF Rows!RegisterTableOwners
<1>4. ASSUME NEW a, Rows!Compiled(a) PROVE row' \in {Rows!Written(s), row}
  BY <1>4 DEF Rows!Compiled
<1>5. ASSUME NEW by, NEW where, NEW unscoped, NEW embeds, Rows!Get(by, unscoped, where, embeds)
      PROVE  row' \in {Rows!Written(s), row}
  BY <1>4, <1>5 DEF Rows!Get
<1>6. ASSUME NEW by, NEW where, NEW unscoped, NEW op, NEW named,
             Rows!Insert(op, by, unscoped, where, named)
      PROVE  row' \in {Rows!Written(s), row}
  BY <1>4, <1>6 DEF Rows!Insert
<1>7. ASSUME NEW by, NEW where, NEW unscoped, NEW entireTable, NEW named,
             Rows!Update(by, unscoped, where, entireTable, named)
      PROVE  row' \in {Rows!Written(s), row}
  BY <1>4, <1>7 DEF Rows!Update
<1>8. ASSUME NEW by, NEW where, NEW unscoped, NEW entireTable, NEW op,
             Rows!Delete(op, by, unscoped, where, entireTable)
      PROVE  row' \in {Rows!Written(s), row}
  BY <1>4, <1>8 DEF Rows!Delete
<1>9. ASSUME NEW by, NEW where, NEW op, NEW named, Rows!ExecuteQuery(op, by, where, named)
      PROVE  row' \in {Rows!Written(s), row}
  BY <1>4, <1>9 DEF Rows!ExecuteQuery
<1>10. CASE Rows!Next
  BY <1>1, <1>3, <1>5, <1>6, <1>7, <1>8, <1>9, <1>10 DEF Rows!Next
<1> QED BY <1>2, <1>10

\* What a statement that is carried out may see, take and plant.
LEMMA RowsTouched ==
    ASSUME Rows!OwnedAssumption, Rows!IInv, NEW s \in inFlight,
           NEW after \in {Rows!Written(s), row}, NEW k \in OrderKeys
    PROVE  /\ k \in Rows!Matching(s) /\ row[k] \in Users \ {s.by} => Rows!DecidedOpen(s)
           /\ row[k] \in Users \ {s.by} /\ after[k] # row[k]
                => (Rows!DecidedOpen(s) \/ s.op = "upsert") /\ s.named
           /\ after[k] \in Users \ {s.by} /\ after[k] # row[k]
                => \/ Rows!DecidedOpen(s)
                   \/ s.door = "wire" /\ s.op \in {"insert", "upsert", "update"}
<1>1. row \in [OrderKeys -> Users \cup {Rows!Absent, Rows!Unowned}]
  BY DEF Rows!IInv, Rows!TypeOK
<1>2. s \in Rows!Statements /\ Rows!Narrowed(s)
  BY DEF Rows!IInv, Rows!TypeOK
<1>3. /\ s.op \in {"read", "insert", "upsert", "update", "delete", "deleteOne"}
      /\ s.door \in {"builder", "wire"}
  BY <1>2 DEF Rows!Statements
<1>4. s.owner = Rows!Open \/ s.owner = Rows!Nobody \/ s.owner = s.by
  BY <1>2 DEF Rows!Narrowed
<1>5. /\ Rows!Nobody \notin Users \cup {Rows!Absent, Rows!Unowned}
      /\ Rows!Absent \notin Users
      /\ Rows!Leave \notin Users
  BY RowsNames DEF RowsMarkers
<1>6. k \in Rows!Matching(s) /\ s.owner # Rows!Open => s.owner = s.by /\ row[k] = s.by
  BY <1>1, <1>4, <1>5 DEF Rows!Matching
<1>7. ASSUME row[k] \in Users, after[k] # row[k]
      PROVE  s.op = "upsert" \/ (s.op \in {"update", "delete", "deleteOne"} /\ k \in Rows!Matching(s))
  <2>1. row[k] # Rows!Absent
    BY <1>5, <1>7
  <2>2. after = Rows!Written(s)
    BY <1>7
  <2>3. CASE s.op = "insert" BY <1>7, <2>1, <2>2, <2>3 DEF Rows!Written
  <2>4. CASE s.op = "update" BY <1>7, <2>2, <2>4 DEF Rows!Written
  <2>5. CASE s.op = "delete" BY <1>7, <2>2, <2>5 DEF Rows!Written
  <2>6. CASE s.op = "deleteOne" BY <1>7, <2>2, <2>6 DEF Rows!Written
  <2>7. CASE s.op = "read" BY <1>7, <2>2, <2>7 DEF Rows!Written
  <2> QED BY <1>3, <2>3, <2>4, <2>5, <2>6, <2>7
<1>8. ASSUME after[k] \in Users, after[k] # row[k]
      PROVE  /\ s.op \in {"insert", "upsert", "update"} /\ after[k] = s.write
             /\ s.op = "update" => k \in Rows!Matching(s)
  <2>1. after = Rows!Written(s)
    BY <1>8
  <2>2. CASE s.op = "insert" BY <1>8, <2>1, <2>2 DEF Rows!Written
  <2>3. CASE s.op = "upsert" BY <1>8, <2>1, <2>3 DEF Rows!Written
  <2>4. CASE s.op = "update" BY <1>8, <2>1, <2>4 DEF Rows!Written
  <2>5. CASE s.op = "delete" BY <1>5, <1>8, <2>1, <2>5 DEF Rows!Written
  <2>6. CASE s.op = "deleteOne" BY <1>5, <1>8, <2>1, <2>6 DEF Rows!Written
  <2>7. CASE s.op = "read" BY <1>8, <2>1, <2>7 DEF Rows!Written
  <2> QED BY <1>3, <2>2, <2>3, <2>4, <2>5, <2>6, <2>7
<1>9. k \in Rows!Matching(s) /\ row[k] \in Users \ {s.by} => Rows!DecidedOpen(s)
  BY <1>6 DEF Rows!DecidedOpen
<1>10. ASSUME row[k] \in Users \ {s.by}, after[k] # row[k]
       PROVE  (Rows!DecidedOpen(s) \/ s.op = "upsert") /\ s.named
  <2>1. s.op = "upsert" => s.named
    BY <1>2, Zenon DEF Rows!Narrowed
  <2>2. s.op \in {"update", "delete", "deleteOne"} /\ s.owner = Rows!Open => s.named
    BY <1>2, Zenon DEF Rows!Narrowed
  <2>3. s.op = "upsert" \/ (s.op \in {"update", "delete", "deleteOne"} /\ s.owner = Rows!Open)
    BY <1>7, <1>9, <1>10 DEF Rows!DecidedOpen
  <2> QED BY <2>1, <2>2, <2>3, Zenon DEF Rows!DecidedOpen
<1>11. ASSUME after[k] \in Users \ {s.by}, after[k] # row[k]
       PROVE  \/ Rows!DecidedOpen(s)
              \/ s.door = "wire" /\ s.op \in {"insert", "upsert", "update"}
  <2>1. /\ s.door = "builder" /\ s.op \in {"insert", "upsert"} /\ s.owner # Rows!Open => s.write = s.by
        /\ s.door = "builder" /\ s.op = "update" /\ s.owner = s.by => s.write \in {Rows!Leave, s.by}
    BY <1>2, Zenon DEF Rows!Narrowed
  <2> QED BY <1>3, <1>5, <1>6, <1>8, <1>11, <2>1 DEF Rows!DecidedOpen
<1> QED BY <1>9, <1>10, <1>11, Zenon

\* Another's row is seen, taken or given away only as the step property says.
LEMMA RowsKept ==
    ASSUME Rows!OwnedAssumption, Rows!IInv, [Rows!Next]_(Rows!ownedVars)
    PROVE  Rows!RowsKept
<1> SUFFICES ASSUME NEW s \in inFlight \ inFlight', NEW t \in Rows!Others(s, row')
             PROVE  /\ \/ t.open
                       \/ t.kind = "taken" /\ t.op = "upsert"
                       \/ t.kind = "planted" /\ t.door = "wire" /\ t.op \in {"insert", "upsert", "update"}
                    /\ t.kind = "taken" => t.named
  BY DEF Rows!RowsKept
<1> DEFINE after == row'
           touch(op, open, kind) ==
               [door |-> s.door, op |-> op, open |-> open, named |-> s.named, kind |-> kind]
           theirs == {k \in OrderKeys : row[k] \in Users \ {s.by}}
<1>1. after \in {Rows!Written(s), row}
  BY RowsDone
<1> HIDE DEF after
<1>2. \A op, open, kind :
         /\ touch(op, open, kind).op = op /\ touch(op, open, kind).open = open
         /\ touch(op, open, kind).kind = kind /\ touch(op, open, kind).door = s.door
         /\ touch(op, open, kind).named = s.named
  OBVIOUS
<1>3. \/ s.op = "read" /\ \E k \in theirs : k \in Rows!Matching(s) /\ t = touch(s.op, Rows!DecidedOpen(s), "seen")
      \/ \E u \in Users \ {s.by} : s.cards \in {Rows!Open, u} /\ t = touch("embed", s.cards = Rows!Open, "seen")
      \/ \E k \in theirs : after[k] # row[k] /\ t = touch(s.op, Rows!DecidedOpen(s), "taken")
      \/ \E k \in OrderKeys : /\ after[k] \in Users \ {s.by} /\ after[k] # row[k]
                              /\ t = touch(s.op, Rows!DecidedOpen(s), "planted")
  BY Zenon DEF Rows!Others, after
<1> HIDE DEF touch
<1>4. CASE \E k \in theirs : k \in Rows!Matching(s) /\ t = touch(s.op, Rows!DecidedOpen(s), "seen")
  <2>1. Rows!DecidedOpen(s)
    BY <1>1, <1>4, RowsTouched
  <2>2. t = touch(s.op, Rows!DecidedOpen(s), "seen")
    BY <1>4
  <2>3. t.open = Rows!DecidedOpen(s)
    BY <1>2, <2>2
  <2>4. t.kind = "seen"
    BY <1>2, <2>2
  <2> QED BY <2>1, <2>3, <2>4, Zenon
<1>5. CASE \E u \in Users \ {s.by} : s.cards \in {Rows!Open, u} /\ t = touch("embed", s.cards = Rows!Open, "seen")
  <2>1. s.cards \in {Rows!Open, Rows!Nobody, Rows!Absent, s.by}
    BY DEF Rows!IInv, Rows!Narrowed
  <2>2. s.cards = Rows!Open
    BY <1>5, <2>1, RowsNames DEF RowsMarkers
  <2>3. t = touch("embed", s.cards = Rows!Open, "seen")
    BY <1>5
  <2>4. t.open = (s.cards = Rows!Open)
    BY <1>2, <2>3
  <2>5. t.kind = "seen"
    BY <1>2, <2>3
  <2> QED BY <2>1, <2>4, <2>5, <2>2, Zenon
<1>6. CASE \E k \in theirs : after[k] # row[k] /\ t = touch(s.op, Rows!DecidedOpen(s), "taken")
  <2>1. (Rows!DecidedOpen(s) \/ s.op = "upsert") /\ s.named
    BY <1>1, <1>6, RowsTouched
  <2>2. t = touch(s.op, Rows!DecidedOpen(s), "taken")
    BY <1>6
  <2>3. t.open = Rows!DecidedOpen(s)
    BY <1>2, <2>2
  <2>4. t.kind = "taken"
    BY <1>2, <2>2
  <2>5. t.op = s.op
    BY <1>2, <2>2
  <2>6. t.named = s.named
    BY <1>2, <2>2
  <2> QED BY <2>1, <2>3, <2>4, <2>5, <2>6, Zenon
<1>7. CASE \E k \in OrderKeys : /\ after[k] \in Users \ {s.by} /\ after[k] # row[k]
                                /\ t = touch(s.op, Rows!DecidedOpen(s), "planted")
  <2>1. \/ Rows!DecidedOpen(s)
        \/ s.door = "wire" /\ s.op \in {"insert", "upsert", "update"}
    BY <1>1, <1>7, RowsTouched
  <2>2. t = touch(s.op, Rows!DecidedOpen(s), "planted")
    BY <1>7
  <2>3. t.open = Rows!DecidedOpen(s)
    BY <1>2, <2>2
  <2>4. t.kind = "planted"
    BY <1>2, <2>2
  <2>5. t.op = s.op
    BY <1>2, <2>2
  <2>6. t.door = s.door
    BY <1>2, <2>2
  <2> QED BY <2>1, <2>3, <2>4, <2>5, <2>6, Zenon
<1> QED BY <1>3, <1>4, <1>5, <1>6, <1>7, Zenon

\* The variables of EventLog.
sent == v1
pending == v2
scheduled == v3
flushes == v4
batches == v5
log == v6
said == v7
before == v8
logFaults == v9
USE DEF sent, pending, scheduled, flushes, batches, log, said, before, logFaults

-----------------------------------------------------------------------------
(* The event log (realtime: src/transport/event_log.ts).                      *)

\* What is in a sequence that another is put behind, and when nothing is twice in it.
LEMMA EventsJoined ==
    ASSUME NEW S, NEW s \in Seq(S), NEW t \in Seq(S)
    PROVE  /\ s \o t \in Seq(S) /\ Events!ToSet(s) \subseteq S
           /\ Events!ToSet(s \o t) = Events!ToSet(s) \cup Events!ToSet(t)
           /\ Events!IsInjective(s) /\ Events!IsInjective(t) /\ Events!ToSet(s) \cap Events!ToSet(t) = {}
                => Events!IsInjective(s \o t)
<1>1. /\ Len(s) \in Nat /\ Len(t) \in Nat /\ Len(s \o t) = Len(s) + Len(t) /\ s \o t \in Seq(S)
      /\ DOMAIN s = 1..Len(s) /\ DOMAIN t = 1..Len(t) /\ DOMAIN (s \o t) = 1..Len(s) + Len(t)
      /\ \A i \in 1..Len(s) : s[i] \in S
  OBVIOUS
<1>2. \A i \in 1..Len(s) : (s \o t)[i] = s[i] /\ i \in DOMAIN (s \o t)
  OBVIOUS
<1>3. \A i \in 1..Len(t) : (s \o t)[i + Len(s)] = t[i] /\ i + Len(s) \in DOMAIN (s \o t)
  OBVIOUS
<1>4. \A i \in DOMAIN (s \o t) :
        \/ i \in DOMAIN s /\ (s \o t)[i] = s[i]
        \/ i - Len(s) \in DOMAIN t /\ (s \o t)[i] = t[i - Len(s)]
  OBVIOUS
<1>5. Events!ToSet(s \o t) = Events!ToSet(s) \cup Events!ToSet(t)
  <2>1. Events!ToSet(s \o t) \subseteq Events!ToSet(s) \cup Events!ToSet(t)
    BY <1>4 DEF Events!ToSet
  <2>2. Events!ToSet(s) \subseteq Events!ToSet(s \o t)
    BY <1>1, <1>2 DEF Events!ToSet
  <2>3. Events!ToSet(t) \subseteq Events!ToSet(s \o t)
    BY <1>1, <1>3 DEF Events!ToSet
  <2> QED BY <2>1, <2>2, <2>3
<1>6. ASSUME Events!IsInjective(s), Events!IsInjective(t), Events!ToSet(s) \cap Events!ToSet(t) = {}
      PROVE  Events!IsInjective(s \o t)
  <2> SUFFICES ASSUME NEW i \in DOMAIN (s \o t), NEW j \in DOMAIN (s \o t), (s \o t)[i] = (s \o t)[j]
               PROVE  i = j
    BY DEF Events!IsInjective
  <2>1. CASE i \in DOMAIN s /\ (s \o t)[i] = s[i] /\ j \in DOMAIN s /\ (s \o t)[j] = s[j]
    BY <1>6, <2>1 DEF Events!IsInjective
  <2>2. CASE /\ i - Len(s) \in DOMAIN t /\ (s \o t)[i] = t[i - Len(s)]
             /\ j - Len(s) \in DOMAIN t /\ (s \o t)[j] = t[j - Len(s)]
    <3>1. i - Len(s) = j - Len(s)
      BY <1>6, <2>2 DEF Events!IsInjective
    <3>2. i \in Int /\ j \in Int
      BY <1>1
    <3> QED BY <1>1, <3>1, <3>2
  <2>3. \A a \in DOMAIN s, b \in DOMAIN t : s[a] # t[b]
    BY <1>6 DEF Events!ToSet
  <2> QED BY <1>4, <2>1, <2>2, <2>3
<1> QED BY <1>1, <1>5, <1>6 DEF Events!ToSet

\* A row that is put at the end of what waits.
LEMMA EventsAppended ==
    ASSUME NEW S, NEW s \in Seq(S), NEW e \in S
    PROVE  /\ Append(s, e) \in Seq(S) /\ Append(s, e) # <<>>
           /\ Events!ToSet(Append(s, e)) = Events!ToSet(s) \cup {e}
           /\ Events!IsInjective(s) /\ e \notin Events!ToSet(s) => Events!IsInjective(Append(s, e))
<1>1. <<e>> \in Seq(S) /\ Append(s, e) = s \o <<e>> /\ Append(s, e) # <<>> /\ Len(<<e>>) = 1
  OBVIOUS
<1>2. Events!ToSet(<<e>>) = {e} /\ Events!IsInjective(<<e>>)
  BY DEF Events!ToSet, Events!IsInjective
<1> QED BY <1>1, <1>2, EventsJoined

\* The log grows at its end: what was earlier stays so, and a row is put behind those before it.
LEMMA EventsGrow ==
    ASSUME NEW S, log \in Seq(S), NEW t \in Seq(S), log' = log \o t
    PROVE  /\ \A a, b : Events!Earlier(a, b) => Events!Earlier(a, b)'
           /\ \A a, b : Events!Earlier(a, b)' => Events!Earlier(a, b) \/ b \in Events!ToSet(t)
           /\ \A i, j \in DOMAIN t : i < j => Events!Earlier(t[i], t[j])'
<1>1. /\ Len(log) \in Nat /\ DOMAIN log = 1..Len(log) /\ DOMAIN t = 1..Len(t) /\ Len(t) \in Nat
      /\ DOMAIN log' = 1..Len(log) + Len(t)
  OBVIOUS
<1>2. /\ \A i \in DOMAIN log : i \in DOMAIN log' /\ log'[i] = log[i]
      /\ \A i \in DOMAIN t : i + Len(log) \in DOMAIN log' /\ log'[i + Len(log)] = t[i]
      /\ \A i \in DOMAIN log' : i \in DOMAIN log \/ (i - Len(log) \in DOMAIN t /\ log'[i] = t[i - Len(log)])
  OBVIOUS
<1>3. \A a, b : Events!Earlier(a, b) => Events!Earlier(a, b)'
  BY <1>2 DEF Events!Earlier
<1>4. ASSUME NEW a, NEW b, Events!Earlier(a, b)' PROVE Events!Earlier(a, b) \/ b \in Events!ToSet(t)
  <2>1. PICK i \in DOMAIN log', j \in DOMAIN log' : i < j /\ log'[i] = a /\ log'[j] = b
    BY <1>4 DEF Events!Earlier
  <2>2. CASE j \in DOMAIN log
    <3>1. i \in DOMAIN log
      BY <1>1, <2>1, <2>2
    <3> QED BY <1>2, <2>1, <2>2, <3>1 DEF Events!Earlier
  <2>3. CASE j - Len(log) \in DOMAIN t /\ log'[j] = t[j - Len(log)]
    BY <2>1, <2>3 DEF Events!ToSet
  <2> QED BY <1>2, <2>1, <2>2, <2>3
<1>5. ASSUME NEW i \in DOMAIN t, NEW j \in DOMAIN t, i < j PROVE Events!Earlier(t[i], t[j])'
  <2>1. i + Len(log) < j + Len(log)
    BY <1>1, <1>5
  <2> QED BY <1>2, <2>1 DEF Events!Earlier
<1> QED BY <1>3, <1>4, <1>5

\* What holds of rows that are about to wait or to leave: they are new to every other place, and
\* what is nowhere is among them.
Leaving(r, until) ==
    /\ Events!IsInjective(r)
    /\ \A e \in Events!ToSet(r) : /\ e <= until /\ said[e] = "none" /\ e \notin Events!ToSet(log)
                                  /\ \A b \in batches : e \notin Events!ToSet(b.rows)
    /\ \A e \in Events!Emissions : said[e] = "none" /\ e <= until =>
          e \in Events!ToSet(r) \/ \E b \in batches : e \in Events!ToSet(b.rows)

\* Of an empty batch.
LEMMA EventsNone ==
    Events!ToSet(<<>>) = {} /\ Events!IsInjective(<<>>) /\ <<>> \in Seq(Events!Emissions)
BY DEF Events!ToSet, Events!IsInjective

\* What waits is numbered up to what was sent, and once.
LEMMA EventsPending ==
    ASSUME Events!IInv PROVE Leaving(pending, sent)
BY DEF Events!IInv, Events!Single, Events!Placed, Leaving

\* The next emission is put behind those that wait.
LEMMA EventsNext ==
    ASSUME Events!LogAssumption, Events!IInv, sent < MaxSent
    PROVE  /\ Append(pending, sent + 1) \in Seq(Events!Emissions) /\ Append(pending, sent + 1) # <<>>
           /\ Leaving(Append(pending, sent + 1), sent + 1)
           /\ sent + 1 \in Events!Emissions /\ sent + 1 \notin Events!ToSet(log) /\ sent \in Nat
<1> DEFINE n == sent + 1
           r == Append(pending, n)
<1>1. /\ sent \in Nat /\ MaxSent \in Nat /\ n \in Nat /\ n \in Events!Emissions /\ ~(n <= sent)
      /\ \A e \in Events!Emissions : e \in Nat /\ (e <= n => e <= sent \/ e = n) /\ (e <= sent => e <= n)
      /\ n <= n
  BY DEF Events!LogAssumption, Events!IInv, Events!TypeOK, Events!Emissions
<1>2. /\ pending \in Seq(Events!Emissions) /\ log \in Seq(Events!Emissions)
      /\ batches \subseteq [rows : Seq(Events!Emissions), taken : BOOLEAN]
      /\ said \in [Events!Emissions -> {"none", "sent", "dropped"}]
  BY DEF Events!IInv, Events!TypeOK
<1> HIDE DEF n
<1>3. /\ n \notin Events!ToSet(pending) /\ n \notin Events!ToSet(log) /\ said[n] = "none"
      /\ \A b \in batches : n \notin Events!ToSet(b.rows)
  BY <1>1, <1>2 DEF Events!IInv, Events!Placed
<1>4. /\ r \in Seq(Events!Emissions) /\ r # <<>> /\ Events!ToSet(r) = Events!ToSet(pending) \cup {n}
      /\ Events!IsInjective(r)
  BY <1>1, <1>2, <1>3, EventsAppended DEF Events!IInv, Events!Single
<1>5. Events!ToSet(pending) \subseteq Events!Emissions
  BY <1>2, EventsJoined
<1> HIDE DEF r
<1>6. Leaving(r, n)
  BY <1>1, <1>3, <1>4, <1>5, EventsPending DEF Leaving
<1> QED BY <1>1, <1>3, <1>4, <1>6 DEF n, r

\* Rows that wait.
LEMMA EventsWait ==
    ASSUME Events!LogAssumption, Events!IInv, NEW until \in Nat, sent <= until,
           NEW r \in Seq(Events!Emissions), Leaving(r, until),
           sent' = until, pending' = r, UNCHANGED <<batches, log, said>>
    PROVE  Events!Single' /\ Events!Placed'
<1>1. \A e \in Events!Emissions : e <= sent => e <= until
  BY DEF Events!IInv, Events!TypeOK, Events!Emissions, Events!LogAssumption
<1>2. /\ log \in Seq(Events!Emissions) /\ Events!ToSet(log) \subseteq Events!Emissions
      /\ batches \subseteq [rows : Seq(Events!Emissions), taken : BOOLEAN]
  BY EventsJoined DEF Events!IInv, Events!TypeOK
<1>3. \A b \in batches : Events!ToSet(b.rows) \subseteq Events!Emissions
  BY <1>2, EventsJoined
<1>4. Events!Single'
  BY DEF Events!IInv, Events!Single, Leaving
<1>5. Events!Placed'
  BY <1>1, <1>2, <1>3 DEF Events!IInv, Events!Placed, Leaving
<1> QED BY <1>4, <1>5

\* Rows that leave in one insert.
LEMMA EventsLeave ==
    ASSUME Events!LogAssumption, Events!IInv, NEW until \in Nat, sent <= until,
           NEW r \in Seq(Events!Emissions), Leaving(r, until),
           sent' = until, pending' = <<>>, batches' = Events!Leaves(r), UNCHANGED <<log, said>>
    PROVE  /\ Events!Single' /\ Events!Placed'
           /\ batches' \subseteq [rows : Seq(Events!Emissions), taken : BOOLEAN]
           /\ \A b \in batches' : b.taken => b \in batches
<1> DEFINE new == [rows |-> r, taken |-> FALSE]
<1>1. new \in [rows : Seq(Events!Emissions), taken : BOOLEAN] /\ new.rows = r /\ ~new.taken
  OBVIOUS
<1> HIDE DEF new
<1>2. batches' = (IF r = <<>> THEN batches ELSE batches \cup {new})
  BY DEF Events!Leaves, new
<1>3. \A e \in Events!Emissions : e <= sent => e <= until
  BY DEF Events!IInv, Events!TypeOK, Events!Emissions, Events!LogAssumption
<1>4. /\ log \in Seq(Events!Emissions) /\ Events!ToSet(log) \subseteq Events!Emissions
      /\ Events!ToSet(r) \subseteq Events!Emissions
      /\ batches \subseteq [rows : Seq(Events!Emissions), taken : BOOLEAN]
  BY EventsJoined DEF Events!IInv, Events!TypeOK
<1>5. \A b \in batches : Events!ToSet(b.rows) \subseteq Events!Emissions
  BY <1>4, EventsJoined
<1>6. Events!Single'
  BY <1>1, <1>2, EventsNone DEF Events!IInv, Events!Single, Leaving
<1>7. Events!Placed'
  <2>1. \A e \in Events!ToSet(pending') : FALSE
    BY EventsNone
  <2>2. \A b \in batches' : \A e \in Events!ToSet(b.rows) :
          /\ e <= until /\ said[e] = "none" /\ (e \in Events!ToSet(log) <=> b.taken)
          /\ \A c \in batches' : e \in Events!ToSet(c.rows) => c = b
    BY <1>1, <1>2, <1>3, <1>5 DEF Events!IInv, Events!Placed, Leaving
  <2>3. \A e \in Events!ToSet(log) : e <= until
    BY <1>3, <1>4 DEF Events!IInv, Events!Placed
  <2>4. \A e \in Events!Emissions :
          /\ said[e] = "sent" => e \in Events!ToSet(log)
          /\ said[e] # "none" => e <= until
          /\ said[e] = "none" /\ e <= until => \E b \in batches' : e \in Events!ToSet(b.rows)
    BY <1>1, <1>2, <1>3, EventsNone DEF Events!IInv, Events!Placed, Leaving
  <2> QED BY <2>1, <2>2, <2>3, <2>4 DEF Events!Placed
<1>8. batches' \subseteq [rows : Seq(Events!Emissions), taken : BOOLEAN]
  BY <1>1, <1>2, <1>4
<1>9. \A b \in batches' : b.taken => b \in batches
  BY <1>1, <1>2
<1> QED BY <1>6, <1>7, <1>8, <1>9

\* What is sent waits behind the others.
LEMMA EventsSend ==
    ASSUME Events!LogAssumption, Events!IInv, Events!Send
    PROVE  Events!IInv'
<1> DEFINE until == sent + 1
           r == Append(pending, until)
<1>1. /\ sent \in Nat /\ until \in Nat /\ sent <= until /\ sent' = until /\ until \in Events!Emissions
      /\ r \in Seq(Events!Emissions) /\ r # <<>> /\ Leaving(r, until) /\ until \notin Events!ToSet(log)
  BY EventsNext DEF Events!Send
<1>2. /\ before' = [before EXCEPT ![until] = {e \in Events!Emissions : said[e] # "none"}]
      /\ \/ /\ pending' = <<>> /\ scheduled' = FALSE /\ batches' = Events!Leaves(r)
            /\ flushes' = flushes
         \/ /\ pending' = r /\ scheduled' = TRUE /\ batches' = batches
            /\ flushes' = IF scheduled THEN flushes ELSE flushes + 1
      /\ UNCHANGED <<log, said, logFaults>>
  BY DEF Events!Send
<1>3. /\ flushes' \in 0..until /\ until \in 0..MaxSent /\ scheduled' \in BOOLEAN
      /\ scheduled' => flushes' > 0
  <2>1. flushes \in 0..sent /\ sent < MaxSent /\ MaxSent \in Nat /\ (scheduled => flushes > 0)
    BY DEF Events!IInv, Events!TypeOK, Events!Queued, Events!LogAssumption, Events!Send
  <2>2. flushes' \in {flushes, flushes + 1} /\ (scheduled' => flushes' > 0)
    BY <1>2, <2>1
  <2>3. flushes' \in 0..until /\ until \in 0..MaxSent
    BY <1>1, <2>1, <2>2
  <2>4. scheduled' \in BOOLEAN
    BY <1>2
  <2> QED BY <2>2, <2>3, <2>4
<1> HIDE DEF until, r
<1>4. /\ Events!Single' /\ Events!Placed'
      /\ batches' \subseteq [rows : Seq(Events!Emissions), taken : BOOLEAN]
      /\ \A b \in batches' : b.taken => b \in batches
  <2>1. CASE pending' = <<>> /\ batches' = Events!Leaves(r)
    BY <1>1, <1>2, <2>1, EventsLeave
  <2>2. CASE pending' = r /\ batches' = batches
    BY <1>1, <1>2, <2>2, EventsWait DEF Events!IInv, Events!TypeOK
  <2> QED BY <1>2, <2>1, <2>2
<1>5. Events!TypeOK'
  <2>1. pending' \in Seq(Events!Emissions)
    BY <1>1, <1>2, EventsNone
  <2>2. before' \in [Events!Emissions -> SUBSET Events!Emissions]
    BY <1>1, <1>2 DEF Events!IInv, Events!TypeOK
  <2> QED BY <1>1, <1>2, <1>3, <1>4, <2>1, <2>2 DEF Events!IInv, Events!TypeOK
<1>6. Events!Queued'
  BY <1>1, <1>2, <1>3 DEF Events!Queued
<1>7. Events!Ordered'
  <2>1. \A a, b : Events!Earlier(a, b)' <=> Events!Earlier(a, b)
    BY <1>2 DEF Events!Earlier
  <2>2. \A a : ~Events!Earlier(until, a)
    BY <1>1 DEF Events!Earlier, Events!ToSet
  <2>3. before \in [Events!Emissions -> SUBSET Events!Emissions]
    BY DEF Events!IInv, Events!TypeOK
  <2>4. \A e \in Events!Emissions : \A a \in before'[e] : said[a] # "none" /\ ~Events!Earlier(e, a)
    BY <1>1, <1>2, <2>2, <2>3 DEF Events!IInv, Events!Ordered
  <2> QED BY <1>2, <1>4, <2>1, <2>4 DEF Events!IInv, Events!Ordered
<1> QED BY <1>4, <1>5, <1>6, <1>7 DEF Events!IInv

\* A flush takes what waits as one batch.
LEMMA EventsFlush ==
    ASSUME Events!LogAssumption, Events!IInv, Events!Flush
    PROVE  Events!IInv'
<1>1. sent \in Nat /\ sent <= sent /\ Leaving(pending, sent) /\ pending \in Seq(Events!Emissions)
  BY EventsPending DEF Events!IInv, Events!TypeOK, Events!LogAssumption
<1>2. /\ pending' = <<>> /\ scheduled' = FALSE /\ batches' = Events!Leaves(pending)
      /\ flushes > 0 /\ flushes' = flushes - 1
      /\ UNCHANGED <<sent, log, said, before, logFaults>>
  BY DEF Events!Flush
<1>3. flushes' \in 0..sent
  BY <1>2 DEF Events!IInv, Events!TypeOK, Events!LogAssumption
<1>4. /\ Events!Single' /\ Events!Placed'
      /\ batches' \subseteq [rows : Seq(Events!Emissions), taken : BOOLEAN]
      /\ \A b \in batches' : b.taken => b \in batches
  BY <1>1, <1>2, EventsLeave
<1>5. Events!TypeOK'
  BY <1>2, <1>3, <1>4, EventsNone DEF Events!IInv, Events!TypeOK
<1>6. Events!Queued'
  BY <1>2 DEF Events!Queued
<1>7. Events!Ordered'
  <2>1. \A a, b : Events!Earlier(a, b)' <=> Events!Earlier(a, b)
    BY <1>2 DEF Events!Earlier
  <2> QED BY <1>2, <1>4, <2>1 DEF Events!IInv, Events!Ordered
<1> QED BY <1>4, <1>5, <1>6, <1>7 DEF Events!IInv

\* A batch the table took is behind what was there.
LEMMA EventsTake ==
    ASSUME Events!LogAssumption, Events!IInv, NEW b \in batches, Events!Take(b)
    PROVE  Events!IInv'
<1> DEFINE c == [b EXCEPT !.taken = TRUE]
<1>1. /\ ~b.taken /\ log' = log \o b.rows /\ batches' = (batches \ {b}) \cup {c}
      /\ UNCHANGED <<sent, pending, scheduled, flushes, said, before, logFaults>>
  BY DEF Events!Take
<1>2. /\ b \in [rows : Seq(Events!Emissions), taken : BOOLEAN] /\ log \in Seq(Events!Emissions)
      /\ batches \subseteq [rows : Seq(Events!Emissions), taken : BOOLEAN]
  BY DEF Events!IInv, Events!TypeOK
<1>3. c \in [rows : Seq(Events!Emissions), taken : BOOLEAN] /\ c.rows = b.rows /\ c.taken
  BY <1>2
<1> HIDE DEF c
<1>4. b.rows \in Seq(Events!Emissions)
  BY <1>2
<1>5. \A e \in Events!ToSet(b.rows) : e <= sent /\ said[e] = "none" /\ e \notin Events!ToSet(log)
                                      /\ e \notin Events!ToSet(pending)
  BY <1>1 DEF Events!IInv, Events!Placed
<1>6. /\ log' \in Seq(Events!Emissions) /\ Events!ToSet(log') = Events!ToSet(log) \cup Events!ToSet(b.rows)
      /\ Events!IsInjective(log')
  BY <1>1, <1>2, <1>4, <1>5, EventsJoined DEF Events!IInv, Events!Single
<1>7. Events!TypeOK'
  BY <1>1, <1>2, <1>3, <1>6 DEF Events!IInv, Events!TypeOK
<1>8. Events!Queued' /\ Events!Single'
  BY <1>1, <1>3, <1>6 DEF Events!IInv, Events!Queued, Events!Single
<1>9. Events!Placed'
  <2>1. \A e \in Events!ToSet(pending) : e <= sent /\ said[e] = "none" /\ e \notin Events!ToSet(log')
    BY <1>5, <1>6 DEF Events!IInv, Events!Placed
  <2>2. \A d \in batches \ {b} : \A e \in Events!ToSet(d.rows) : e \notin Events!ToSet(b.rows)
    BY DEF Events!IInv, Events!Placed
  <2>3. \A d \in batches' : \A e \in Events!ToSet(d.rows) :
          /\ e <= sent /\ said[e] = "none" /\ e \notin Events!ToSet(pending)
          /\ \A x \in batches' : e \in Events!ToSet(x.rows) => x = d
    BY <1>1, <1>3, <1>5, <2>2 DEF Events!IInv, Events!Placed
  <2>4. \A d \in batches' : \A e \in Events!ToSet(d.rows) : (e \in Events!ToSet(log') <=> d.taken)
    <3>1. \A e \in Events!ToSet(c.rows) : e \in Events!ToSet(log')
      BY <1>3, <1>6
    <3>2. ASSUME NEW d \in batches \ {b}, NEW e \in Events!ToSet(d.rows)
          PROVE  e \in Events!ToSet(log') <=> d.taken
      <4>1. e \in Events!ToSet(log) <=> d.taken
        BY DEF Events!IInv, Events!Placed
      <4> QED BY <1>6, <2>2, <4>1
    <3> QED BY <1>1, <1>3, <3>1, <3>2
  <2>5. \A e \in Events!ToSet(log') : e <= sent
    BY <1>5, <1>6 DEF Events!IInv, Events!Placed
  <2>6. \A e \in Events!Emissions :
          /\ said[e] = "sent" => e \in Events!ToSet(log')
          /\ said[e] # "none" => e <= sent
          /\ said[e] = "none" /\ e <= sent =>
                e \in Events!ToSet(pending) \/ \E d \in batches' : e \in Events!ToSet(d.rows)
    BY <1>1, <1>3, <1>6 DEF Events!IInv, Events!Placed
  <2> QED BY <1>1, <2>1, <2>3, <2>4, <2>5, <2>6 DEF Events!Placed
<1>10. Events!Ordered'
  <2>1. /\ \A x, y : Events!Earlier(x, y) => Events!Earlier(x, y)'
        /\ \A x, y : Events!Earlier(x, y)' => Events!Earlier(x, y) \/ y \in Events!ToSet(b.rows)
        /\ \A i, j \in DOMAIN b.rows : i < j => Events!Earlier(b.rows[i], b.rows[j])'
    BY <1>1, <1>2, <1>4, EventsGrow
  <2>2. \A e \in Events!Emissions : \A a \in before[e] : said[a] # "none" /\ ~Events!Earlier(e, a)'
    BY <1>5, <2>1 DEF Events!IInv, Events!Ordered
  <2>3. \A d \in batches' : d.taken => \A i, j \in DOMAIN d.rows : i < j => Events!Earlier(d.rows[i], d.rows[j])'
    BY <1>1, <1>3, <2>1 DEF Events!IInv, Events!Ordered
  <2> QED BY <1>1, <2>2, <2>3 DEF Events!Ordered
<1> QED BY <1>7, <1>8, <1>9, <1>10 DEF Events!IInv

\* A batch that settles tells its callers what became of it.
LEMMA EventsSettle ==
    ASSUME Events!LogAssumption, Events!IInv, NEW b \in batches, NEW ok \in BOOLEAN, Events!Settle(b, ok)
    PROVE  Events!IInv'
<1>1. /\ batches' = batches \ {b} /\ (ok => b.taken) /\ logFaults' \in {logFaults, logFaults + 1}
      /\ (logFaults' = logFaults + 1 => logFaults < MaxLogFaults \/ logFaults' = logFaults)
      /\ UNCHANGED <<sent, pending, scheduled, flushes, log, before>>
  BY DEF Events!Settle, Events!Fault
<1>2. /\ b \in [rows : Seq(Events!Emissions), taken : BOOLEAN] /\ b.rows \in Seq(Events!Emissions)
      /\ said \in [Events!Emissions -> {"none", "sent", "dropped"}]
      /\ log \in Seq(Events!Emissions) /\ pending \in Seq(Events!Emissions)
      /\ batches \subseteq [rows : Seq(Events!Emissions), taken : BOOLEAN]
      /\ before \in [Events!Emissions -> SUBSET Events!Emissions]
  BY DEF Events!IInv, Events!TypeOK
<1>3. \A e : Events!Contains(b.rows, e) <=> e \in Events!ToSet(b.rows)
  BY <1>2 DEF Events!Contains, Events!ToSet
<1>4. /\ said' \in [Events!Emissions -> {"none", "sent", "dropped"}]
      /\ \A e \in Events!Emissions : said'[e] = IF e \in Events!ToSet(b.rows)
                                                THEN IF ok THEN "sent" ELSE "dropped" ELSE said[e]
  BY <1>2, <1>3 DEF Events!Settle
<1>5. \A e \in Events!ToSet(b.rows) : e <= sent /\ said[e] = "none" /\ (e \in Events!ToSet(log) <=> b.taken)
                                      /\ e \notin Events!ToSet(pending)
  BY DEF Events!IInv, Events!Placed
<1>6. \A d \in batches' : \A e \in Events!ToSet(d.rows) : e \notin Events!ToSet(b.rows)
  BY <1>1 DEF Events!IInv, Events!Placed
<1>7. /\ \A d \in batches : Events!ToSet(d.rows) \subseteq Events!Emissions
      /\ Events!ToSet(pending) \subseteq Events!Emissions /\ Events!ToSet(log) \subseteq Events!Emissions
  BY <1>2, EventsJoined
<1>8. Events!TypeOK'
  <2>1. logFaults' \in 0..MaxLogFaults
    BY <1>1 DEF Events!IInv, Events!TypeOK, Events!LogAssumption
  <2> QED BY <1>1, <1>4, <2>1 DEF Events!IInv, Events!TypeOK
<1>9. Events!Queued' /\ Events!Single'
  BY <1>1 DEF Events!IInv, Events!Queued, Events!Single
<1>10. Events!Placed'
  <2>1. \A e \in Events!ToSet(pending) : e <= sent /\ said'[e] = "none" /\ e \notin Events!ToSet(log)
    BY <1>4, <1>5, <1>7 DEF Events!IInv, Events!Placed
  <2>2. \A d \in batches' : \A e \in Events!ToSet(d.rows) :
          /\ e <= sent /\ said'[e] = "none" /\ (e \in Events!ToSet(log) <=> d.taken)
          /\ e \notin Events!ToSet(pending) /\ \A x \in batches' : e \in Events!ToSet(x.rows) => x = d
    BY <1>1, <1>4, <1>6, <1>7 DEF Events!IInv, Events!Placed
  <2>3. \A e \in Events!Emissions :
          /\ said'[e] = "sent" => e \in Events!ToSet(log)
          /\ said'[e] # "none" => e <= sent
          /\ said'[e] = "none" /\ e <= sent =>
                e \in Events!ToSet(pending) \/ \E d \in batches' : e \in Events!ToSet(d.rows)
    BY <1>1, <1>4, <1>5 DEF Events!IInv, Events!Placed
  <2> QED BY <1>1, <2>1, <2>2, <2>3 DEF Events!IInv, Events!Placed
<1>11. Events!Ordered'
  <2>1. \A x, y : Events!Earlier(x, y)' <=> Events!Earlier(x, y)
    BY <1>1 DEF Events!Earlier
  <2>2. \A e \in Events!Emissions : \A a \in before[e] : said'[a] # "none" /\ ~Events!Earlier(e, a)
    BY <1>2, <1>4 DEF Events!IInv, Events!Ordered
  <2> QED BY <1>1, <2>1, <2>2 DEF Events!IInv, Events!Ordered
<1> QED BY <1>8, <1>9, <1>10, <1>11 DEF Events!IInv

\* Nothing was sent at first.
LEMMA EventsStarts == ASSUME Events!LogAssumption PROVE Events!Init => Events!IInv
<1> SUFFICES ASSUME Events!Init PROVE Events!IInv
  OBVIOUS
<1>1. Events!TypeOK
  <2>1. 0 \in 0..MaxSent /\ 0 \in 0..0 /\ 0 \in 0..MaxLogFaults
    BY DEF Events!LogAssumption
  <2> QED BY <2>1, EventsNone DEF Events!Init, Events!TypeOK
<1>2. Events!Queued /\ Events!Single
  BY EventsNone DEF Events!Init, Events!Queued, Events!Single
<1>3. Events!Placed
  BY EventsNone DEF Events!Init, Events!Placed, Events!Emissions
<1>4. Events!Ordered
  BY DEF Events!Init, Events!Ordered
<1> QED BY <1>1, <1>2, <1>3, <1>4 DEF Events!IInv

\* Each step of a flush keeps the invariant.
LEMMA EventsSteps ==
    ASSUME Events!LogAssumption, Events!IInv, [Events!Next]_(Events!logVars)
    PROVE  Events!IInv'
<1>1. CASE UNCHANGED Events!logVars
  BY <1>1 DEF Events!logVars, Events!IInv, Events!TypeOK, Events!Queued, Events!Single, Events!Placed,
     Events!Ordered, Events!Earlier
<1> QED BY <1>1, EventsSend, EventsFlush, EventsTake, EventsSettle DEF Events!Next

\* From the invariant: what was told as kept is in the log, once and in order.
LEMMA EventsKept ==
    ASSUME Events!LogAssumption, Events!IInv
    PROVE  Events!EmissionsKept /\ Events!TypeOK
<1>1. /\ log \in Seq(Events!Emissions) /\ pending \in Seq(Events!Emissions)
      /\ batches \subseteq [rows : Seq(Events!Emissions), taken : BOOLEAN]
      /\ sent \in Nat /\ 1..sent \subseteq Events!Emissions
  BY DEF Events!IInv, Events!TypeOK, Events!Emissions, Events!LogAssumption
<1>2. \A e : \A s \in Seq(Events!Emissions) : Events!Contains(s, e) <=> e \in Events!ToSet(s)
  BY DEF Events!Contains, Events!ToSet
<1>3. \A b \in batches : b.rows \in Seq(Events!Emissions)
  BY <1>1
<1>4. \A e \in 1..sent : e \in Events!Emissions /\ e <= sent
  BY <1>1
<1>5. pending # <<>> => flushes > 0
  BY DEF Events!IInv, Events!Queued
<1>6. Events!IsInjective(log)
  BY DEF Events!IInv, Events!Single
<1>7. \A e \in 1..sent : said[e] = "sent" => Events!Contains(log, e)
  BY <1>1, <1>2, <1>4 DEF Events!IInv, Events!Placed
<1>8. \A e \in 1..sent : said[e] = "none" =>
          Events!Contains(pending, e) \/ \E b \in batches : Events!Contains(b.rows, e)
  BY <1>1, <1>2, <1>3, <1>4 DEF Events!IInv, Events!Placed
<1>9. \A e \in 1..sent : \A a \in before[e] : ~Events!Earlier(e, a)
  BY <1>4 DEF Events!IInv, Events!Ordered
<1> QED BY <1>5, <1>6, <1>7, <1>8, <1>9 DEF Events!IInv, Events!Ordered, Events!EmissionsKept

\* The variables of SignUp.
user == v1
minted == v4
stamped == v7
account == v8
rows == v3
token == v5
call == v2
stranded == v9
met == v6
signUpFaults == v10
USE DEF user, minted, stamped, account, rows, token, call, stranded, met, signUpFaults

-----------------------------------------------------------------------------
(* The sign-ups of one person (auth: src/sign_up/runner.ts).                  *)

SignUpPcs == {"issue", "stamp", "account", "rows", "look", "token", "forget", "delete", "ok", "refused",
              "raised", "died"}

SignUpCall == [pc : SignUps!Steps \cup {"ok", "refused", "raised", "died"}, id : 0..minted,
               known : BOOLEAN, missed : SUBSET {"account", "rows", "token"}]

\* Two fields of a call change at once.
LEMMA SignUpRecord ==
    ASSUME NEW A, NEW B, NEW C, NEW D, NEW r \in [pc : A, id : B, known : C, missed : D], NEW x \in A,
           NEW i \in B, NEW k \in C, NEW m \in D
    PROVE  /\ LET s == [r EXCEPT !.pc = x, !.missed = m] IN
              /\ s \in [pc : A, id : B, known : C, missed : D]
              /\ s.pc = x /\ s.missed = m /\ s.id = r.id
           /\ LET s == [r EXCEPT !.pc = x, !.id = i] IN
              /\ s \in [pc : A, id : B, known : C, missed : D]
              /\ s.pc = x /\ s.missed = r.missed /\ s.id = i
           /\ LET s == [r EXCEPT !.known = k, !.pc = x] IN
              /\ s \in [pc : A, id : B, known : C, missed : D]
              /\ s.pc = x /\ s.missed = r.missed /\ s.id = r.id
<1>1. LET s == [[r EXCEPT !.pc = x] EXCEPT !.missed = m] IN
        /\ s \in [pc : A, id : B, known : C, missed : D]
        /\ s.pc = x /\ s.missed = m /\ s.id = r.id
  OBVIOUS
<1>2. LET s == [[r EXCEPT !.pc = x] EXCEPT !.id = i] IN
        /\ s \in [pc : A, id : B, known : C, missed : D]
        /\ s.pc = x /\ s.missed = r.missed /\ s.id = i
  OBVIOUS
<1>3. LET s == [[r EXCEPT !.known = k] EXCEPT !.pc = x] IN
        /\ s \in [pc : A, id : B, known : C, missed : D]
        /\ s.pc = x /\ s.missed = r.missed /\ s.id = r.id
  OBVIOUS
<1>4. /\ [[r EXCEPT !.pc = x] EXCEPT !.missed = m] = [r EXCEPT !.pc = x, !.missed = m]
      /\ [[r EXCEPT !.pc = x] EXCEPT !.id = i] = [r EXCEPT !.pc = x, !.id = i]
      /\ [[r EXCEPT !.known = k] EXCEPT !.pc = x] = [r EXCEPT !.known = k, !.pc = x]
  OBVIOUS
<1> QED BY <1>1, <1>2, <1>3, <1>4

\* A call moves on, and the others stay where they are.
LEMMA SignUpGoes ==
    ASSUME SignUps!TypeOK, NEW c \in SignUpCalls, NEW pc \in SignUpPcs, SignUps!Goto(c, pc), minted' = minted
    PROVE  /\ call' \in [SignUpCalls -> SignUpCall']
           /\ call'[c].pc = pc /\ call'[c].id = call[c].id /\ call'[c].missed = call[c].missed
           /\ \A d \in SignUpCalls : d # c => call'[d] = call[d]
<1>1. call \in [SignUpCalls -> SignUpCall] /\ call' = [call EXCEPT ![c].pc = pc]
  BY DEF SignUps!TypeOK, SignUpCall, SignUps!Goto
<1>2. pc \in SignUps!Steps \cup {"ok", "refused", "raised", "died"}
  BY DEF SignUps!Steps, SignUpPcs
<1> QED BY <1>1, <1>2 DEF SignUpCall

\* A write that went through leaves what was missed as it was; one that did not adds to it.
LEMMA SignUpWrote ==
    ASSUME SignUps!TypeOK, NEW c \in SignUpCalls, NEW pc \in SignUpPcs, NEW what \in {"account", "rows", "token"},
           NEW ok \in BOOLEAN, SignUps!Wrote(c, what, ok, pc), minted' = minted
    PROVE  /\ call' \in [SignUpCalls -> SignUpCall']
           /\ call'[c].pc = pc /\ call'[c].id = call[c].id
           /\ ok => call'[c].missed = call[c].missed
           /\ ~ok => call'[c].missed # {}
           /\ call[c].missed # {} => call'[c].missed # {}
           /\ \A d \in SignUpCalls : d # c => call'[d] = call[d]
<1> DEFINE m == IF ok THEN call[c].missed ELSE call[c].missed \cup {what}
           r == [call[c] EXCEPT !.pc = pc, !.missed = m]
<1>1. call \in [SignUpCalls -> SignUpCall]
  BY DEF SignUps!TypeOK, SignUpCall
<1>2. call' = [call EXCEPT ![c] = r]
  <2>1. call' = [call EXCEPT ![c].pc = pc, ![c].missed = m]
    BY DEF SignUps!Wrote
  <2> HIDE DEF m
  <2> QED BY <1>1, <2>1
<1>3. pc \in SignUps!Steps \cup {"ok", "refused", "raised", "died"}
  BY DEF SignUps!Steps, SignUpPcs
<1>4. m \in SUBSET {"account", "rows", "token"}
  BY <1>1 DEF SignUpCall
<1>5. r \in SignUpCall /\ r.pc = pc /\ r.missed = m /\ r.id = call[c].id
  <2>1. call[c] \in SignUpCall /\ call[c].id \in 0..minted /\ call[c].known \in BOOLEAN
    BY <1>1 DEF SignUpCall
  <2> HIDE DEF m
  <2> QED BY <1>3, <1>4, <2>1, SignUpRecord DEF SignUpCall
<1>6. SignUpCall' = SignUpCall
  BY DEF SignUpCall
<1>7. (ok => m = call[c].missed) /\ (~ok => m # {}) /\ (call[c].missed # {} => m # {})
  OBVIOUS
<1> HIDE DEF m, r
<1> QED BY <1>1, <1>2, <1>5, <1>6, <1>7

\* The faults of a sign-up stay within their bound.
LEMMA SignUpCounts ==
    ASSUME SignUps!SignUpAssumption, SignUps!TypeOK, NEW ok \in BOOLEAN, SignUps!May(ok)
    PROVE  signUpFaults' \in 0..MaxSignUpFaults
<1>1. IF ok THEN signUpFaults' = signUpFaults
      ELSE signUpFaults < MaxSignUpFaults /\ signUpFaults' = signUpFaults + 1
  BY Zenon DEF SignUps!May, SignUps!NoFault, SignUps!Fault
<1> QED BY <1>1 DEF SignUps!TypeOK, SignUps!SignUpAssumption

\* What was done without a fault that nobody sees was so before its last step.
LEMMA SignUpClean ==
    ASSUME NEW c \in SignUpCalls, call[c].missed # {} => call'[c].missed # {},
           \A d \in SignUpCalls : d # c => call'[d] = call[d],
           stranded \subseteq stranded', met => met', SignUps!Clean'
    PROVE  SignUps!Clean /\ call'[c].missed = {} /\ stranded' = {} /\ ~met'
BY DEF SignUps!Clean

\* A call that has its account goes on to its next step.
LEMMA SignUpPasses ==
    ASSUME SignUps!IInv, SignUps!Clean, NEW c \in SignUpCalls, call[c].pc \in SignUps!Housed,
           call'[c].pc \in {"look", "token", "ok"}, call'[c].id = call[c].id,
           \A d \in SignUpCalls : d # c => call'[d] = call[d],
           user' = user, account' = account, stamped' = stamped, rows \subseteq rows',
           \A d \in SignUpCalls : token[call[d].id] # SignUps!Nobody => token'[call[d].id] # SignUps!Nobody,
           call[c].id \in rows', call'[c].pc = "ok" => token'[call[c].id] # SignUps!Nobody
    PROVE  SignUps!Held' /\ SignUps!Stamped' /\ SignUps!Written'
<1>1. /\ call'[c].pc \in SignUps!Housed /\ call'[c].pc \in SignUps!Bound /\ call[c].pc \in SignUps!Bound
      /\ call'[c].pc \notin {"account", "forget", "delete"} /\ call[c].pc \notin {"account", "forget", "delete"}
  BY DEF SignUps!Housed, SignUps!Bound
<1>2. SignUps!Held'
  BY <1>1 DEF SignUps!IInv, SignUps!Held
<1>3. SignUps!Stamped'
  <2> SUFFICES ASSUME NEW e \in SignUpCalls, call'[e].pc \in {"account"} \cup SignUps!Housed, stamped # SignUpRole[e]
               PROVE  \E d \in SignUpCalls \ {e} :
                        \/ call'[d].pc \in {"account", "forget", "delete"}
                        \/ call'[d].pc \in SignUps!Housed /\ call'[e].pc = "account"
    BY DEF SignUps!Stamped
  <2>1. call[e].pc \in {"account"} \cup SignUps!Housed /\ (call'[e].pc = "account" <=> call[e].pc = "account")
    BY <1>1
  <2>2. PICK d \in SignUpCalls \ {e} : \/ call[d].pc \in {"account", "forget", "delete"}
                                       \/ call[d].pc \in SignUps!Housed /\ call[e].pc = "account"
    BY <2>1 DEF SignUps!IInv, SignUps!Stamped
  <2> QED BY <1>1, <2>1, <2>2
<1>4. SignUps!Written'
  <2>1. \A d \in SignUpCalls : /\ call[d].pc \in {"look", "token", "ok"} => call[d].id \in rows
                               /\ call[d].pc = "ok" => token[call[d].id] # SignUps!Nobody
    <3>1. SignUps!Written
      BY DEF SignUps!IInv
    <3> QED BY <3>1 DEF SignUps!Written
  <2>2. ASSUME NEW d \in SignUpCalls
        PROVE  /\ call'[d].pc \in {"look", "token", "ok"} => call'[d].id \in rows'
               /\ call'[d].pc = "ok" => token'[call'[d].id] # SignUps!Nobody
    <3>1. CASE d = c
      BY <3>1
    <3>2. CASE d # c
      <4>1. call'[d] = call[d]
        BY <3>2
      <4>2. (call[d].pc = "ok" => token[call[d].id] # SignUps!Nobody) /\ (call[d].pc \in {"look", "token", "ok"} => call[d].id \in rows)
        BY <2>1
      <4>3. token[call[d].id] # SignUps!Nobody => token'[call[d].id] # SignUps!Nobody
        OBVIOUS
      <4> QED BY <4>1, <4>2, <4>3
    <3> QED BY <3>1, <3>2
  <2> QED BY <2>2 DEF SignUps!Written, SignUps!Nobody
<1> QED BY <1>2, <1>3, <1>4

\* A door mints a user, or finds it.
LEMMA SignUpIssue ==
    ASSUME SignUps!SignUpAssumption, SignUps!IInv, NEW c \in SignUpCalls, NEW taken \in BOOLEAN,
           NEW answered \in BOOLEAN, SignUps!Issue(c, taken, answered)
    PROVE  SignUps!IInv'
<1> DEFINE fresh == user = 0 /\ minted < MaxIds
           minting == taken /\ fresh
           id == IF minting THEN minted + 1 ELSE user
           accepted == taken /\ answered /\ id # 0 /\ (SignUpDoor[c] = "social" \/ fresh)
           pc == IF accepted THEN "stamp" ELSE "refused"
           i1 == IF accepted THEN id ELSE 0
           r == [call[c] EXCEPT !.pc = pc, !.id = i1]
<1>1. /\ SignUps!TypeOK /\ call[c].pc = "issue" /\ SignUps!May(answered)
      /\ minted' = (IF minting THEN minted + 1 ELSE minted)
      /\ user' = (IF minting THEN id ELSE user)
      /\ stamped' = (IF minting THEN "none" ELSE stamped)
      /\ call' = [call EXCEPT ![c].pc = pc, ![c].id = i1]
      /\ stranded' = stranded \cup IF minting /\ ~answered THEN {"unanswered"} ELSE {}
      /\ account' = account /\ rows' = rows /\ token' = token /\ met' = met
  BY DEF SignUps!IInv, SignUps!Issue
<1>2. /\ minted \in 0..MaxIds /\ MaxIds \in Nat /\ user \in 0..minted
  BY <1>1 DEF SignUps!TypeOK, SignUps!SignUpAssumption
<1>3. minting => minted + 1 \in 0..MaxIds /\ user = 0 /\ minted + 1 # 0
  BY <1>2
<1> PICK mt \in BOOLEAN : mt <=> minting
  OBVIOUS
<1> PICK ac \in BOOLEAN : ac <=> accepted
  OBVIOUS
<1>4. /\ minted' \in 0..MaxIds /\ minted <= minted' /\ id \in 0..minted' /\ user' = id /\ id \in 0..MaxIds
      /\ i1 \in 0..minted' /\ (ac => i1 = id /\ i1 # 0 /\ pc = "stamp") /\ (~ac => pc = "refused")
      /\ (mt => id # 0 /\ user = 0 /\ id = minted + 1)
      /\ (~mt => id = user)
  <2>1. CASE minting
    <3>1. id = minted + 1 /\ minted' = minted + 1
      BY <1>1, <2>1
    <3> HIDE DEF id
    <3> QED BY <1>1, <1>2, <1>3, <2>1, <3>1
  <2>2. CASE ~minting
    <3>1. id = user /\ minted' = minted /\ user' = user
      BY <1>1, <2>2
    <3> HIDE DEF id
    <3> QED BY <1>1, <1>2, <2>2, <3>1
  <2> QED BY <2>1, <2>2
<1>5. pc \in SignUps!Steps \cup {"ok", "refused", "raised", "died"}
  BY DEF SignUps!Steps
<1>6. mt /\ answered => ac
  BY <1>3
<1>7. /\ (mt /\ ~answered) => stranded' # {}
      /\ stranded' \subseteq {"unanswered", "raised", "undo", "died"} /\ stranded \subseteq stranded'
      /\ (mt => stamped' = "none") /\ (~mt => stamped' = stamped)
      /\ stamped' \in {"none", stamped}
  BY <1>1 DEF SignUps!TypeOK
<1> HIDE DEF fresh, minting, id, accepted, pc, i1
<1>8. /\ call' \in [SignUpCalls -> SignUpCall']
      /\ call'[c].pc = pc /\ call'[c].id = i1 /\ call'[c].missed = call[c].missed
      /\ \A d \in SignUpCalls : d # c => call'[d] = call[d]
  <2>1. 0..minted \subseteq 0..minted'
    BY <1>2, <1>4
  <2>2. call \in [SignUpCalls -> SignUpCall']
    BY <1>1, <2>1 DEF SignUps!TypeOK, SignUpCall
  <2>3. call[c] \in SignUpCall' /\ call[c].known \in BOOLEAN
        /\ call[c].missed \in SUBSET {"account", "rows", "token"}
    BY <2>2 DEF SignUpCall
  <2>4. r \in SignUpCall' /\ r.pc = pc /\ r.id = i1 /\ r.missed = call[c].missed
    BY <1>4, <1>5, <2>3, SignUpRecord DEF SignUpCall
  <2>5. call' = [call EXCEPT ![c] = r]
    BY <1>1, <2>2
  <2> HIDE DEF r
  <2> QED BY <2>2, <2>4, <2>5
<1>9. SignUps!TypeOK'
  <2>1. signUpFaults' \in 0..MaxSignUpFaults
    BY <1>1, SignUpCounts
  <2>2. account' \in [id : 0..minted', role : SignUps!Roles]
    <3>1. 0..minted \subseteq 0..minted'
      BY <1>2, <1>4
    <3> QED BY <1>1, <3>1 DEF SignUps!TypeOK
  <2> QED BY <1>1, <1>4, <1>7, <1>8, <2>1, <2>2 DEF SignUps!TypeOK, SignUpCall
<1>10. SignUps!Named'
  <2>1. pc = "refused" => pc \notin SignUps!Bound
    BY DEF SignUps!Bound, SignUps!Housed
  <2> QED BY <1>4, <1>8, <2>1 DEF SignUps!IInv, SignUps!Named
<1>11. ASSUME SignUps!Clean' PROVE SignUps!Held' /\ SignUps!Stamped' /\ SignUps!Written'
  <2>1. SignUps!Clean /\ stranded' = {}
    BY <1>1, <1>7, <1>8, <1>11, SignUpClean
  <2>2. SignUps!Held /\ SignUps!Stamped /\ SignUps!Written
    BY <2>1 DEF SignUps!IInv
  <2>3. mt => ac
    BY <1>6, <1>7, <2>1
  <2>4. "issue" \notin SignUps!Bound /\ "refused" \notin SignUps!Bound /\ SignUps!Housed \subseteq SignUps!Bound
        /\ "stamp" \in SignUps!Bound /\ "stamp" \notin SignUps!Housed /\ "refused" \notin SignUps!Housed
    BY DEF SignUps!Bound, SignUps!Housed
  <2>5. mt => \A d \in SignUpCalls : call[d].pc \notin SignUps!Bound
    BY <1>4, <2>2 DEF SignUps!IInv, SignUps!Named, SignUps!Held
  <2>6. call'[c].pc \notin SignUps!Housed /\ call'[c].pc \notin {"account", "forget", "delete"}
        /\ call[c].pc \notin SignUps!Housed
        /\ call'[c].pc \notin {"account", "look", "token", "ok"}
    BY <1>1, <1>4, <1>8, <2>4
  <2>7. SignUps!Held'
    <3>1. \A d \in SignUpCalls : call'[d].pc \in SignUps!Bound => call'[d].id = user'
      BY <1>4, <1>8, <2>2, <2>4, <2>5 DEF SignUps!Held
    <3>2. user' # 0 => \E d \in SignUpCalls : call'[d].pc \in SignUps!Bound
      <4>1. CASE ac
        BY <1>4, <1>8, <2>4, <4>1
      <4>2. CASE ~ac
        <5>1. user' = user
          BY <1>4, <2>3, <4>2
        <5> QED BY <1>1, <1>8, <2>2, <2>4, <5>1 DEF SignUps!Held
      <4> QED BY <4>1, <4>2
    <3>3. \A d \in SignUpCalls : call'[d].pc \in SignUps!Housed => account' = [id |-> call'[d].id, role |-> SignUpRole[d]]
      BY <1>1, <1>8, <2>2, <2>6 DEF SignUps!Held
    <3>4. account' # SignUps!NoAccount => \E d \in SignUpCalls : call'[d].pc \in SignUps!Housed
      BY <1>1, <1>8, <2>2, <2>6 DEF SignUps!Held
    <3> QED BY <3>1, <3>2, <3>3, <3>4 DEF SignUps!Held, SignUps!NoAccount
  <2>8. SignUps!Stamped'
    <3> SUFFICES ASSUME NEW e \in SignUpCalls, call'[e].pc \in {"account"} \cup SignUps!Housed, stamped' # SignUpRole[e]
                 PROVE  \E d \in SignUpCalls \ {e} :
                          \/ call'[d].pc \in {"account", "forget", "delete"}
                          \/ call'[d].pc \in SignUps!Housed /\ call'[e].pc = "account"
      BY DEF SignUps!Stamped
    <3>1. e # c /\ call'[e] = call[e]
      BY <1>8, <2>6
    <3>2. "account" \in SignUps!Bound
      BY DEF SignUps!Bound
    <3>3. ~mt
      BY <2>4, <2>5, <3>1, <3>2
    <3>4. PICK d \in SignUpCalls \ {e} : \/ call[d].pc \in {"account", "forget", "delete"}
                                         \/ call[d].pc \in SignUps!Housed /\ call[e].pc = "account"
      BY <1>7, <2>2, <3>1, <3>3 DEF SignUps!Stamped
    <3>5. d # c
      BY <1>1, <2>6, <3>4
    <3> QED BY <1>8, <3>1, <3>4, <3>5
  <2>9. SignUps!Written'
    BY <1>1, <1>8, <2>2, <2>6 DEF SignUps!Written
  <2> QED BY <2>7, <2>8, <2>9
<1> QED BY <1>9, <1>10, <1>11 DEF SignUps!IInv

\* The role is stamped on the account.
LEMMA SignUpStamp ==
    ASSUME SignUps!SignUpAssumption, SignUps!IInv, NEW c \in SignUpCalls, NEW taken \in BOOLEAN,
           NEW answered \in BOOLEAN, SignUps!Stamp(c, taken, answered)
    PROVE  SignUps!IInv'
<1> DEFINE done == taken /\ user = call[c].id
           pc == IF done /\ answered THEN "account" ELSE "forget"
<1>1. /\ SignUps!TypeOK /\ call[c].pc = "stamp" /\ SignUps!May(taken /\ answered)
      /\ stamped' = (IF done THEN SignUpRole[c] ELSE stamped) /\ SignUps!Goto(c, pc)
      /\ user' = user /\ minted' = minted /\ account' = account /\ rows' = rows /\ token' = token
      /\ stranded' = stranded /\ met' = met
  BY DEF SignUps!IInv, SignUps!Stamp
<1>2. /\ pc \in {"account", "forget"} /\ (pc = "account" => done)
      /\ (taken /\ answered) \in BOOLEAN
  OBVIOUS
<1>3. (done => stamped' = SignUpRole[c]) /\ (~done => stamped' = stamped)
  BY <1>1
<1> HIDE DEF done, pc
<1>4. /\ call' \in [SignUpCalls -> SignUpCall']
      /\ call'[c].pc = pc /\ call'[c].id = call[c].id /\ call'[c].missed = call[c].missed
      /\ \A d \in SignUpCalls : d # c => call'[d] = call[d]
  BY <1>1, <1>2, SignUpGoes DEF SignUpPcs
<1>5. SignUps!TypeOK'
  <2>1. signUpFaults' \in 0..MaxSignUpFaults
    BY <1>1, <1>2, SignUpCounts
  <2> QED BY <1>1, <1>4, <2>1 DEF SignUps!TypeOK, SignUpCall
<1>6. /\ call[c].pc \in SignUps!Bound /\ call'[c].pc \in SignUps!Bound
      /\ call[c].pc \notin SignUps!Housed /\ call'[c].pc \notin SignUps!Housed
      /\ call'[c].pc \notin {"look", "token", "ok"}
  BY <1>1, <1>2, <1>4 DEF SignUps!Bound, SignUps!Housed
<1>7. SignUps!Named'
  BY <1>4, <1>6 DEF SignUps!IInv, SignUps!Named
<1>8. ASSUME SignUps!Clean' PROVE SignUps!Held' /\ SignUps!Stamped' /\ SignUps!Written'
  <2>1. SignUps!Clean /\ SignUps!Held /\ SignUps!Stamped /\ SignUps!Written
    <3>1. SignUps!Clean
      BY <1>1, <1>4, <1>8, SignUpClean
    <3> QED BY <3>1 DEF SignUps!IInv
  <2>2. SignUps!Held'
    BY <1>1, <1>4, <1>6, <2>1 DEF SignUps!Held, SignUps!NoAccount
  <2>3. SignUps!Stamped'
    <3> SUFFICES ASSUME NEW e \in SignUpCalls, call'[e].pc \in {"account"} \cup SignUps!Housed, stamped' # SignUpRole[e]
                 PROVE  \E d \in SignUpCalls \ {e} :
                          \/ call'[d].pc \in {"account", "forget", "delete"}
                          \/ call'[d].pc \in SignUps!Housed /\ call'[e].pc = "account"
      BY DEF SignUps!Stamped
    <3>1. e # c
      BY <1>2, <1>3, <1>4, <1>6
    <3>2. c \in SignUpCalls \ {e} /\ call'[c].pc \in {"account", "forget", "delete"}
      BY <1>2, <1>4, <3>1
    <3> QED BY <3>2
  <2>4. SignUps!Written'
    BY <1>1, <1>4, <1>6, <2>1 DEF SignUps!Written
  <2> QED BY <2>2, <2>3, <2>4
<1> QED BY <1>5, <1>7, <1>8 DEF SignUps!IInv

\* The account of the person is written, or found.
LEMMA SignUpCreateAccount ==
    ASSUME SignUps!SignUpAssumption, SignUps!IInv, NEW c \in SignUpCalls, NEW taken \in BOOLEAN,
           SignUps!CreateAccount(c, taken)
    PROVE  SignUps!IInv'
<1> PICK done \in BOOLEAN : done <=> (taken /\ account = SignUps!NoAccount)
  OBVIOUS
<1> DEFINE a == [id |-> call[c].id, role |-> SignUpRole[c]]
<1>1. /\ SignUps!TypeOK /\ call[c].pc = "account" /\ SignUps!May(taken)
      /\ account' = (IF done THEN a ELSE account) /\ SignUps!Wrote(c, "account", done, "rows")
      /\ user' = user /\ minted' = minted /\ stamped' = stamped /\ rows' = rows /\ token' = token
      /\ stranded' = stranded /\ met' = met
  <2>1. done = (taken /\ account = SignUps!NoAccount)
    OBVIOUS
  <2> QED BY <2>1 DEF SignUps!IInv, SignUps!CreateAccount
<1>2. /\ call' \in [SignUpCalls -> SignUpCall']
      /\ call'[c].pc = "rows" /\ call'[c].id = call[c].id
      /\ done => call'[c].missed = call[c].missed
      /\ ~done => call'[c].missed # {}
      /\ call[c].missed # {} => call'[c].missed # {}
      /\ \A d \in SignUpCalls : d # c => call'[d] = call[d]
  BY <1>1, SignUpWrote DEF SignUpPcs
<1>3. /\ call[c].pc \in SignUps!Bound /\ call'[c].pc \in SignUps!Bound
      /\ call[c].pc \notin SignUps!Housed /\ call'[c].pc \in SignUps!Housed
      /\ call'[c].pc \notin {"look", "token", "ok"}
  BY <1>1, <1>2 DEF SignUps!Bound, SignUps!Housed
<1>4. call[c].id # 0 /\ call[c].id \in 0..minted /\ SignUpRole[c] \in SignUps!Roles
  BY <1>1, <1>3 DEF SignUps!IInv, SignUps!Named, SignUps!TypeOK, SignUps!SignUpAssumption, SignUps!Roles
<1>5. SignUps!TypeOK'
  <2>1. signUpFaults' \in 0..MaxSignUpFaults
    BY <1>1, SignUpCounts
  <2>2. account' \in [id : 0..minted, role : SignUps!Roles]
    BY <1>1, <1>4 DEF SignUps!TypeOK
  <2>3. done => rows = {} /\ \A i \in SignUps!Ids : token[i] = SignUps!Nobody
    <3> SUFFICES ASSUME done PROVE rows = {} /\ \A i \in SignUps!Ids : token[i] = SignUps!Nobody
      OBVIOUS
    <3>1. account.id = 0
      BY DEF SignUps!NoAccount
    <3>2. 0 \notin SignUps!Ids
      BY DEF SignUps!Ids, SignUps!SignUpAssumption
    <3> QED BY <1>1, <3>1, <3>2 DEF SignUps!TypeOK
  <2>4. rows' \subseteq {account'.id} \cap SignUps!Ids /\ \A i \in SignUps!Ids : token'[i] # SignUps!Nobody => account'.id = i
    BY <1>1, <2>3 DEF SignUps!TypeOK, SignUps!Nobody
  <2> QED BY <1>1, <1>2, <2>1, <2>2, <2>4 DEF SignUps!TypeOK, SignUpCall, SignUps!Nobody
<1>6. SignUps!Named'
  BY <1>2, <1>3 DEF SignUps!IInv, SignUps!Named
<1>7. ASSUME SignUps!Clean' PROVE SignUps!Held' /\ SignUps!Stamped' /\ SignUps!Written'
  <2>1. SignUps!Clean /\ done /\ SignUps!Held /\ SignUps!Stamped /\ SignUps!Written
    <3>1. SignUps!Clean /\ call'[c].missed = {}
      BY <1>1, <1>2, <1>7, SignUpClean
    <3> QED BY <1>2, <3>1 DEF SignUps!IInv
  <2>2. account' = a /\ account = SignUps!NoAccount
    BY <1>1, <2>1
  <2>3. \A d \in SignUpCalls : call[d].pc \notin SignUps!Housed
    <3> SUFFICES ASSUME NEW d \in SignUpCalls, call[d].pc \in SignUps!Housed PROVE FALSE
      OBVIOUS
    <3>1. account = [id |-> call[d].id, role |-> SignUpRole[d]] /\ call[d].id # 0
      BY <2>1 DEF SignUps!Held, SignUps!IInv, SignUps!Named, SignUps!Bound
    <3> QED BY <2>2, <3>1 DEF SignUps!NoAccount
  <2>4. SignUps!Held'
    <3>1. \A d \in SignUpCalls : call'[d].pc \in SignUps!Bound => call'[d].id = user'
      BY <1>1, <1>2, <1>3, <2>1 DEF SignUps!Held
    <3>2. user' # 0 => \E d \in SignUpCalls : call'[d].pc \in SignUps!Bound
      BY <1>3
    <3>3. \A d \in SignUpCalls : call'[d].pc \in SignUps!Housed => account' = [id |-> call'[d].id, role |-> SignUpRole[d]]
      BY <1>2, <1>3, <2>2, <2>3
    <3>4. \E d \in SignUpCalls : call'[d].pc \in SignUps!Housed
      BY <1>3
    <3> QED BY <3>1, <3>2, <3>3, <3>4 DEF SignUps!Held
  <2>5. SignUps!Stamped'
    <3> SUFFICES ASSUME NEW e \in SignUpCalls, call'[e].pc \in {"account"} \cup SignUps!Housed, stamped' # SignUpRole[e]
                 PROVE  \E d \in SignUpCalls \ {e} :
                          \/ call'[d].pc \in {"account", "forget", "delete"}
                          \/ call'[d].pc \in SignUps!Housed /\ call'[e].pc = "account"
      BY DEF SignUps!Stamped
    <3>1. CASE e # c
      <4>1. call'[e].pc = "account"
        BY <1>2, <2>3, <3>1
      <4> QED BY <1>3, <3>1, <4>1
    <3>2. CASE e = c
      <4>1. PICK d \in SignUpCalls \ {c} : \/ call[d].pc \in {"account", "forget", "delete"}
                                           \/ call[d].pc \in SignUps!Housed /\ call[c].pc = "account"
        BY <1>1, <2>1, <3>2 DEF SignUps!Stamped
      <4> QED BY <1>2, <2>3, <3>2, <4>1
    <3> QED BY <3>1, <3>2
  <2>6. SignUps!Written'
    BY <1>1, <1>2, <1>3, <2>1 DEF SignUps!Written, SignUps!Nobody
  <2> QED BY <2>4, <2>5, <2>6
<1> QED BY <1>5, <1>6, <1>7 DEF SignUps!IInv

\* The declared row is written, or was there.
LEMMA SignUpCreateRows ==
    ASSUME SignUps!SignUpAssumption, SignUps!IInv, NEW c \in SignUpCalls, NEW taken \in BOOLEAN,
           SignUps!CreateRows(c, taken)
    PROVE  SignUps!IInv'
<1> PICK done \in BOOLEAN : done <=> (taken /\ account.id = call[c].id)
  OBVIOUS
<1>1. /\ SignUps!TypeOK /\ call[c].pc = "rows" /\ SignUps!May(taken)
      /\ rows' = (IF done THEN rows \cup {call[c].id} ELSE rows) /\ SignUps!Wrote(c, "rows", done, "look")
      /\ user' = user /\ minted' = minted /\ stamped' = stamped /\ account' = account /\ token' = token
      /\ stranded' = stranded /\ met' = met
  <2>1. done = (taken /\ account.id = call[c].id)
    OBVIOUS
  <2> QED BY <2>1 DEF SignUps!IInv, SignUps!CreateRows
<1>2. /\ call' \in [SignUpCalls -> SignUpCall']
      /\ call'[c].pc = "look" /\ call'[c].id = call[c].id
      /\ done => call'[c].missed = call[c].missed
      /\ ~done => call'[c].missed # {}
      /\ call[c].missed # {} => call'[c].missed # {}
      /\ \A d \in SignUpCalls : d # c => call'[d] = call[d]
  BY <1>1, SignUpWrote DEF SignUpPcs
<1>3. call[c].pc \in SignUps!Bound /\ call[c].pc \in SignUps!Housed
  BY <1>1 DEF SignUps!Bound, SignUps!Housed
<1>4. call[c].id \in SignUps!Ids
  BY <1>1, <1>3 DEF SignUps!IInv, SignUps!Named, SignUps!TypeOK, SignUps!Ids, SignUps!SignUpAssumption
<1>5. SignUps!TypeOK'
  <2>1. signUpFaults' \in 0..MaxSignUpFaults
    BY <1>1, SignUpCounts
  <2>2. rows' \subseteq {account'.id} \cap SignUps!Ids
    BY <1>1, <1>4 DEF SignUps!TypeOK
  <2> QED BY <1>1, <1>2, <2>1, <2>2 DEF SignUps!TypeOK, SignUpCall, SignUps!Nobody
<1>6. SignUps!Named'
  BY <1>2, <1>3 DEF SignUps!IInv, SignUps!Named
<1>7. ASSUME SignUps!Clean' PROVE SignUps!Held' /\ SignUps!Stamped' /\ SignUps!Written'
  <2>1. SignUps!Clean /\ done
    <3>1. SignUps!Clean /\ call'[c].missed = {}
      BY <1>1, <1>2, <1>7, SignUpClean
    <3> QED BY <1>2, <3>1
  <2>2. call[c].id \in rows' /\ rows \subseteq rows'
    BY <1>1, <2>1
  <2>3. \A d \in SignUpCalls : token[call[d].id] # SignUps!Nobody => token'[call[d].id] # SignUps!Nobody
    BY <1>1 DEF SignUps!Nobody
  <2>4. call'[c].pc \in {"look", "token", "ok"} /\ call'[c].pc # "ok"
    BY <1>2
  <2> QED BY <1>1, <1>2, <1>3, <2>1, <2>2, <2>3, <2>4, SignUpPasses
<1> QED BY <1>5, <1>6, <1>7 DEF SignUps!IInv

\* A sign-up reads whether the account knows the device.
LEMMA SignUpLook ==
    ASSUME SignUps!SignUpAssumption, SignUps!IInv, NEW c \in SignUpCalls, NEW answered \in BOOLEAN,
           SignUps!Look(c, answered)
    PROVE  SignUps!IInv'
<1> PICK saw \in BOOLEAN : saw = (answered /\ token[call[c].id] # SignUps!Nobody)
  OBVIOUS
<1> DEFINE pc == IF answered THEN "token" ELSE "raised"
           r == [call[c] EXCEPT !.known = saw, !.pc = pc]
<1>1. /\ SignUps!TypeOK /\ call[c].pc = "look" /\ SignUps!May(answered)
      /\ call' = [call EXCEPT ![c].known = saw, ![c].pc = pc]
      /\ stranded' = stranded \cup IF answered THEN {} ELSE {"raised"}
      /\ user' = user /\ minted' = minted /\ stamped' = stamped /\ account' = account /\ token' = token
      /\ rows' = rows /\ met' = met
  BY DEF SignUps!IInv, SignUps!Look
<1>2. /\ (answered => pc = "token") /\ (~answered => pc = "raised")
      /\ pc \in SignUps!Steps \cup {"ok", "refused", "raised", "died"}
  BY DEF SignUps!Steps
<1> HIDE DEF pc
<1>3. /\ call' \in [SignUpCalls -> SignUpCall']
      /\ call'[c].pc = pc /\ call'[c].id = call[c].id /\ call'[c].missed = call[c].missed
      /\ \A d \in SignUpCalls : d # c => call'[d] = call[d]
  <2>1. call \in [SignUpCalls -> SignUpCall] /\ SignUpCall' = SignUpCall
    BY <1>1 DEF SignUps!TypeOK, SignUpCall
  <2>2. call[c] \in SignUpCall /\ call[c].id \in 0..minted
        /\ call[c].missed \in SUBSET {"account", "rows", "token"}
    BY <2>1 DEF SignUpCall
  <2>3. r \in SignUpCall /\ r.pc = pc /\ r.id = call[c].id /\ r.missed = call[c].missed
    BY <1>2, <2>2, SignUpRecord DEF SignUpCall
  <2>4. call' = [call EXCEPT ![c] = r]
    BY <1>1, <2>1
  <2> HIDE DEF r
  <2> QED BY <2>1, <2>3, <2>4
<1>4. call[c].pc \in SignUps!Bound /\ call[c].pc \in SignUps!Housed
  BY <1>1 DEF SignUps!Bound, SignUps!Housed
<1>5. SignUps!TypeOK'
  <2>1. signUpFaults' \in 0..MaxSignUpFaults
    BY <1>1, SignUpCounts
  <2>2. stranded' \subseteq {"unanswered", "raised", "undo", "died"}
    BY <1>1 DEF SignUps!TypeOK
  <2> QED BY <1>1, <1>3, <2>1, <2>2 DEF SignUps!TypeOK, SignUpCall, SignUps!Nobody
<1>6. SignUps!Named'
  BY <1>3, <1>4 DEF SignUps!IInv, SignUps!Named
<1>7. ASSUME SignUps!Clean' PROVE SignUps!Held' /\ SignUps!Stamped' /\ SignUps!Written'
  <2>1. SignUps!Clean /\ stranded' = {}
    BY <1>1, <1>3, <1>7, SignUpClean
  <2>2. call'[c].pc = "token" /\ call'[c].pc \in {"look", "token", "ok"} /\ call'[c].pc # "ok"
    BY <1>1, <1>2, <1>3, <2>1
  <2>3. call[c].id \in rows
    <3>1. SignUps!Written /\ call[c].pc \in {"look", "token", "ok"}
      BY <1>1, <2>1 DEF SignUps!IInv
    <3> QED BY <3>1 DEF SignUps!Written
  <2>4. \A d \in SignUpCalls : token[call[d].id] # SignUps!Nobody => token'[call[d].id] # SignUps!Nobody
    BY <1>1 DEF SignUps!Nobody
  <2> QED BY <1>1, <1>3, <1>4, <2>1, <2>2, <2>3, <2>4, SignUpPasses
<1> QED BY <1>5, <1>6, <1>7 DEF SignUps!IInv

\* The device is registered.
LEMMA SignUpRegister ==
    ASSUME SignUps!SignUpAssumption, SignUps!IInv, NEW c \in SignUpCalls, NEW taken \in BOOLEAN,
           SignUps!Register(c, taken)
    PROVE  SignUps!IInv'
<1> DEFINE id == call[c].id
           there == IF call[c].known THEN token[id] # SignUps!Nobody
                    ELSE token[id] = SignUps!Nobody /\ account.id = id
<1> PICK done \in BOOLEAN : done <=> (taken /\ there)
  OBVIOUS
<1>1. /\ SignUps!TypeOK /\ call[c].pc = "token" /\ SignUps!May(taken)
      /\ token' = (IF done THEN [token EXCEPT ![id] = c] ELSE token) /\ SignUps!Wrote(c, "token", done, "ok")
      /\ user' = user /\ minted' = minted /\ stamped' = stamped /\ account' = account /\ rows' = rows
      /\ stranded' = stranded /\ met' = met
  <2>1. done = (taken /\ there)
    OBVIOUS
  <2> QED BY <2>1 DEF SignUps!IInv, SignUps!Register
<1>2. /\ call' \in [SignUpCalls -> SignUpCall']
      /\ call'[c].pc = "ok" /\ call'[c].id = call[c].id
      /\ done => call'[c].missed = call[c].missed
      /\ ~done => call'[c].missed # {}
      /\ call[c].missed # {} => call'[c].missed # {}
      /\ \A d \in SignUpCalls : d # c => call'[d] = call[d]
  BY <1>1, SignUpWrote DEF SignUpPcs
<1>3. call[c].pc \in SignUps!Bound /\ call[c].pc \in SignUps!Housed
  BY <1>1 DEF SignUps!Bound, SignUps!Housed
<1>4. id \in SignUps!Ids
  BY <1>1, <1>3 DEF SignUps!IInv, SignUps!Named, SignUps!TypeOK, SignUps!Ids, SignUps!SignUpAssumption
<1>5. token \in [SignUps!Ids -> SignUpCalls \cup {SignUps!Nobody}] /\ c # SignUps!Nobody
  BY <1>1 DEF SignUps!TypeOK, SignUps!SignUpAssumption, SignUps!Nobody
<1>6. done => account.id = id
  BY <1>1, <1>4 DEF SignUps!TypeOK
<1>7. /\ token' \in [SignUps!Ids -> SignUpCalls \cup {SignUps!Nobody}]
      /\ done => token'[id] = c
      /\ \A i \in SignUps!Ids : token'[i] = token[i] \/ (done /\ i = id)
  <2> HIDE DEF id, there
  <2> QED BY <1>1, <1>4, <1>5
<1> HIDE DEF id, there
<1>8. SignUps!TypeOK'
  <2>1. signUpFaults' \in 0..MaxSignUpFaults
    BY <1>1, SignUpCounts
  <2>2. \A i \in SignUps!Ids : token'[i] # SignUps!Nobody => account'.id = i
    BY <1>1, <1>6, <1>7 DEF SignUps!TypeOK
  <2> QED BY <1>1, <1>2, <1>7, <2>1, <2>2 DEF SignUps!TypeOK, SignUpCall, SignUps!Nobody, SignUps!Ids
<1>9. SignUps!Named'
  BY <1>2, <1>3 DEF SignUps!IInv, SignUps!Named
<1>10. ASSUME SignUps!Clean' PROVE SignUps!Held' /\ SignUps!Stamped' /\ SignUps!Written'
  <2>1. SignUps!Clean /\ done
    <3>1. SignUps!Clean /\ call'[c].missed = {}
      BY <1>1, <1>2, <1>10, SignUpClean
    <3> QED BY <1>2, <3>1
  <2>2. call[c].id \in rows
    <3>1. SignUps!Written /\ call[c].pc \in {"look", "token", "ok"}
      BY <1>1, <2>1 DEF SignUps!IInv
    <3> QED BY <3>1 DEF SignUps!Written
  <2>3. \A i \in SignUps!Ids : token[i] # SignUps!Nobody => token'[i] # SignUps!Nobody
    BY <1>5, <1>7
  <2>4. token'[call[c].id] # SignUps!Nobody
    BY <1>5, <1>7, <2>1 DEF id
  <2>5. rows' = rows /\ call'[c].pc = "ok" /\ call'[c].pc \notin {"account", "forget", "delete"}
        /\ call[c].pc \notin {"account", "forget", "delete"} /\ call'[c].pc \in SignUps!Housed
        /\ call'[c].pc \in SignUps!Bound
    BY <1>1, <1>2 DEF SignUps!Bound, SignUps!Housed
  <2>6. SignUps!Held /\ SignUps!Stamped /\ SignUps!Written
    BY <2>1 DEF SignUps!IInv
  <2>7. \A d \in SignUpCalls : token[call[d].id] # SignUps!Nobody => token'[call[d].id] # SignUps!Nobody
    <3> SUFFICES ASSUME NEW d \in SignUpCalls, token[call[d].id] # SignUps!Nobody
                 PROVE  token'[call[d].id] # SignUps!Nobody
      OBVIOUS
    <3>1. CASE call[d].id \in SignUps!Ids
      BY <2>3, <3>1
    <3>2. CASE call[d].id \notin SignUps!Ids
      <4>1. token'[call[d].id] = token[call[d].id]
        <5>1. token' = [token EXCEPT ![id] = c]
          BY <1>1, <2>1
        <5> QED BY <1>4, <1>5, <3>2, <5>1
      <4> QED BY <4>1
    <3> QED BY <3>1, <3>2
  <2>8. call'[c].pc \in {"look", "token", "ok"}
    BY <2>5
  <2> QED BY <1>1, <1>2, <1>3, <2>1, <2>2, <2>4, <2>7, <2>8, SignUpPasses
<1> QED BY <1>8, <1>9, <1>10 DEF SignUps!IInv

\* Whoever undoes a sign-up that no other call is on finds no account.
LEMMA SignUpAlone ==
    ASSUME SignUps!IInv, SignUps!Clean, NEW c \in SignUpCalls, call[c].pc \in {"forget", "delete"},
           \A d \in SignUpCalls \ {c} : call[d].id # call[c].id
    PROVE  /\ \A d \in SignUpCalls : d # c => call[d].pc \notin SignUps!Bound
           /\ account = SignUps!NoAccount /\ call[c].id = user /\ user # 0
<1>1. /\ call[c].pc \in SignUps!Bound /\ call[c].pc \notin SignUps!Housed
      /\ SignUps!Housed \subseteq SignUps!Bound
  BY DEF SignUps!Bound, SignUps!Housed
<1>2. SignUps!Held /\ SignUps!Named
  BY DEF SignUps!IInv
<1>3. call[c].id = user /\ user # 0
  BY <1>1, <1>2 DEF SignUps!Held, SignUps!Named
<1>4. \A d \in SignUpCalls : d # c => call[d].pc \notin SignUps!Bound
  BY <1>2, <1>3 DEF SignUps!Held
<1>5. \A d \in SignUpCalls : call[d].pc \notin SignUps!Housed
  BY <1>1, <1>4
<1>6. account = SignUps!NoAccount
  BY <1>2, <1>5 DEF SignUps!Held
<1> QED BY <1>3, <1>4, <1>6

\* Without a call past the door, what is kept of calls past the door holds.
LEMMA SignUpNobodyHoused ==
    ASSUME \A d \in SignUpCalls : call'[d].pc \notin {"account"} \cup SignUps!Housed
    PROVE  SignUps!Stamped' /\ SignUps!Written'
<1>1. {"look", "token", "ok"} \subseteq SignUps!Housed /\ "ok" \in SignUps!Housed
  BY DEF SignUps!Housed
<1>2. SignUps!Stamped'
  BY DEF SignUps!Stamped
<1>3. SignUps!Written'
  BY <1>1 DEF SignUps!Written
<1> QED BY <1>2, <1>3

\* The account is removed, and by it its row and its device.
LEMMA SignUpForget ==
    ASSUME SignUps!SignUpAssumption, SignUps!IInv, NEW c \in SignUpCalls, NEW taken \in BOOLEAN,
           SignUps!Forget(c, taken)
    PROVE  SignUps!IInv'
<1> DEFINE id == call[c].id
<1> PICK done \in BOOLEAN : done <=> (taken /\ account = [id |-> id, role |-> SignUpRole[c]])
  OBVIOUS
<1> PICK others \in BOOLEAN : others <=> \E d \in SignUpCalls \ {c} : call[d].id = id
  OBVIOUS
<1>1. /\ SignUps!TypeOK /\ call[c].pc = "forget" /\ SignUps!May(taken) /\ SignUps!Goto(c, "delete")
      /\ account' = (IF done THEN SignUps!NoAccount ELSE account)
      /\ rows' = (IF done THEN rows \ {id} ELSE rows)
      /\ token' = (IF done THEN [token EXCEPT ![id] = SignUps!Nobody] ELSE token)
      /\ met' = (met \/ others)
      /\ stranded' = stranded \cup IF taken THEN {} ELSE {"undo"}
      /\ user' = user /\ minted' = minted /\ stamped' = stamped
  <2>1. done = (taken /\ account = [id |-> id, role |-> SignUpRole[c]])
    OBVIOUS
  <2>2. others = (\E d \in SignUpCalls \ {c} : call[d].id = id)
    OBVIOUS
  <2> QED BY <2>1, <2>2 DEF SignUps!IInv, SignUps!Forget
<1>2. /\ call' \in [SignUpCalls -> SignUpCall']
      /\ call'[c].pc = "delete" /\ call'[c].id = call[c].id /\ call'[c].missed = call[c].missed
      /\ \A d \in SignUpCalls : d # c => call'[d] = call[d]
  BY <1>1, SignUpGoes DEF SignUpPcs
<1>3. call[c].pc \in SignUps!Bound /\ call'[c].pc \in SignUps!Bound /\ call'[c].pc \notin {"account"} \cup SignUps!Housed
  BY <1>1, <1>2 DEF SignUps!Bound, SignUps!Housed
<1>4. id \in SignUps!Ids
  BY <1>1, <1>3 DEF SignUps!IInv, SignUps!Named, SignUps!TypeOK, SignUps!Ids, SignUps!SignUpAssumption
<1>5. token \in [SignUps!Ids -> SignUpCalls \cup {SignUps!Nobody}]
  BY <1>1 DEF SignUps!TypeOK, SignUps!Nobody, SignUps!Ids
<1>6. done => account.id = id
  OBVIOUS
<1> HIDE DEF id
<1>7. SignUps!TypeOK'
  <2>1. signUpFaults' \in 0..MaxSignUpFaults
    BY <1>1, SignUpCounts
  <2>2. account' \in [id : 0..minted', role : SignUps!Roles]
    <3>1. SignUps!NoAccount \in [id : 0..minted, role : SignUps!Roles]
      <4>1. minted \in Nat
        BY <1>1 DEF SignUps!TypeOK, SignUps!SignUpAssumption
      <4>2. 0 \in 0..minted /\ "none" \in SignUps!Roles
        BY <4>1 DEF SignUps!Roles
      <4> QED BY <4>2 DEF SignUps!NoAccount
    <3> QED BY <1>1, <3>1 DEF SignUps!TypeOK
  <2>3. rows' \subseteq {account'.id} \cap SignUps!Ids
    BY <1>1, <1>6 DEF SignUps!TypeOK
  <2>4. token' \in [SignUps!Ids -> SignUpCalls \cup {SignUps!Nobody}]
    BY <1>1, <1>5
  <2>5. \A i \in SignUps!Ids : token'[i] # SignUps!Nobody => account'.id = i
    <3> SUFFICES ASSUME NEW i \in SignUps!Ids, token'[i] # SignUps!Nobody PROVE account'.id = i
      OBVIOUS
    <3>1. token[i] # SignUps!Nobody /\ ~(done /\ i = id)
      BY <1>1, <1>4, <1>5
    <3>2. account.id = i
      BY <1>1, <3>1 DEF SignUps!TypeOK
    <3> QED BY <1>1, <1>6, <3>1, <3>2
  <2>6. stranded' \subseteq {"unanswered", "raised", "undo", "died"} /\ met' \in BOOLEAN
    BY <1>1 DEF SignUps!TypeOK
  <2> QED BY <1>1, <1>2, <2>1, <2>2, <2>3, <2>4, <2>5, <2>6 DEF SignUps!TypeOK, SignUpCall, SignUps!Nobody, SignUps!Ids
<1>8. SignUps!Named'
  BY <1>2, <1>3 DEF SignUps!IInv, SignUps!Named
<1>9. ASSUME SignUps!Clean' PROVE SignUps!Held' /\ SignUps!Stamped' /\ SignUps!Written'
  <2>1. SignUps!Clean /\ ~met' /\ stranded' = {}
    BY <1>1, <1>2, <1>9, SignUpClean
  <2>2. \A d \in SignUpCalls \ {c} : call[d].id # call[c].id
    BY <1>1, <2>1 DEF id
  <2>3. /\ \A d \in SignUpCalls : d # c => call[d].pc \notin SignUps!Bound
        /\ account = SignUps!NoAccount /\ call[c].id = user /\ user # 0
    BY <1>1, <2>1, <2>2, SignUpAlone
  <2>4. {"account"} \cup SignUps!Housed \subseteq SignUps!Bound
    BY DEF SignUps!Bound
  <2>5. \A d \in SignUpCalls : call'[d].pc \notin {"account"} \cup SignUps!Housed
    BY <1>2, <1>3, <2>3, <2>4
  <2>6. account' = SignUps!NoAccount
    BY <1>1, <2>3
  <2>7. SignUps!Held'
    <3>1. \A d \in SignUpCalls : call'[d].pc \in SignUps!Bound => call'[d].id = user'
      BY <1>1, <1>2, <2>3
    <3>2. \E d \in SignUpCalls : call'[d].pc \in SignUps!Bound
      BY <1>3
    <3> QED BY <2>5, <2>6, <3>1, <3>2 DEF SignUps!Held, SignUps!NoAccount
  <2> QED BY <2>5, <2>7, SignUpNobodyHoused
<1> QED BY <1>7, <1>8, <1>9 DEF SignUps!IInv

\* The user of GoTrue is deleted.
LEMMA SignUpDeleteUser ==
    ASSUME SignUps!SignUpAssumption, SignUps!IInv, NEW c \in SignUpCalls, NEW taken \in BOOLEAN,
           SignUps!DeleteUser(c, taken)
    PROVE  SignUps!IInv'
<1> PICK others \in BOOLEAN : others <=> \E d \in SignUpCalls \ {c} : call[d].id = call[c].id
  OBVIOUS
<1>1. /\ SignUps!TypeOK /\ call[c].pc = "delete" /\ SignUps!May(taken) /\ SignUps!Goto(c, "refused")
      /\ user' = (IF taken /\ user = call[c].id THEN 0 ELSE user)
      /\ met' = (met \/ others)
      /\ stranded' = stranded \cup IF taken THEN {} ELSE {"undo"}
      /\ minted' = minted /\ stamped' = stamped /\ account' = account /\ rows' = rows /\ token' = token
  <2>1. others = (\E d \in SignUpCalls \ {c} : call[d].id = call[c].id)
    OBVIOUS
  <2> QED BY <2>1 DEF SignUps!IInv, SignUps!DeleteUser
<1>2. /\ call' \in [SignUpCalls -> SignUpCall']
      /\ call'[c].pc = "refused" /\ call'[c].id = call[c].id /\ call'[c].missed = call[c].missed
      /\ \A d \in SignUpCalls : d # c => call'[d] = call[d]
  BY <1>1, SignUpGoes DEF SignUpPcs
<1>3. call'[c].pc \notin SignUps!Bound /\ {"account"} \cup SignUps!Housed \subseteq SignUps!Bound
  BY <1>2 DEF SignUps!Bound, SignUps!Housed
<1>4. SignUps!TypeOK'
  <2>1. signUpFaults' \in 0..MaxSignUpFaults
    BY <1>1, SignUpCounts
  <2>2. user' \in 0..minted' /\ stranded' \subseteq {"unanswered", "raised", "undo", "died"} /\ met' \in BOOLEAN
    BY <1>1 DEF SignUps!TypeOK
  <2> QED BY <1>1, <1>2, <2>1, <2>2 DEF SignUps!TypeOK, SignUpCall, SignUps!Nobody
<1>5. SignUps!Named'
  BY <1>2, <1>3 DEF SignUps!IInv, SignUps!Named
<1>6. ASSUME SignUps!Clean' PROVE SignUps!Held' /\ SignUps!Stamped' /\ SignUps!Written'
  <2>1. SignUps!Clean /\ ~met' /\ stranded' = {}
    BY <1>1, <1>2, <1>6, SignUpClean
  <2>2. taken /\ \A d \in SignUpCalls \ {c} : call[d].id # call[c].id
    BY <1>1, <2>1
  <2>3. /\ \A d \in SignUpCalls : d # c => call[d].pc \notin SignUps!Bound
        /\ account = SignUps!NoAccount /\ call[c].id = user
    BY <1>1, <2>1, <2>2, SignUpAlone
  <2>4. \A d \in SignUpCalls : call'[d].pc \notin SignUps!Bound
    BY <1>2, <1>3, <2>3
  <2>5. \A d \in SignUpCalls : call'[d].pc \notin {"account"} \cup SignUps!Housed
    BY <1>3, <2>4
  <2>6. user' = 0 /\ account' = SignUps!NoAccount
    BY <1>1, <2>2, <2>3
  <2>7. SignUps!Held'
    BY <2>4, <2>5, <2>6 DEF SignUps!Held, SignUps!NoAccount
  <2> QED BY <2>5, <2>7, SignUpNobodyHoused
<1> QED BY <1>4, <1>5, <1>6 DEF SignUps!IInv

\* A sign-up that dies leaves what it wrote, and is remembered for it.
LEMMA SignUpDie ==
    ASSUME SignUps!SignUpAssumption, SignUps!IInv, NEW c \in SignUpCalls, SignUps!Die(c)
    PROVE  SignUps!IInv'
<1>1. /\ SignUps!TypeOK /\ SignUps!Goto(c, "died") /\ SignUps!Fault
      /\ stranded' = stranded \cup {"died"}
      /\ user' = user /\ minted' = minted /\ stamped' = stamped /\ account' = account /\ rows' = rows
      /\ token' = token /\ met' = met
  BY DEF SignUps!IInv, SignUps!Die
<1>2. /\ call' \in [SignUpCalls -> SignUpCall']
      /\ call'[c].pc = "died" /\ call'[c].id = call[c].id /\ call'[c].missed = call[c].missed
      /\ \A d \in SignUpCalls : d # c => call'[d] = call[d]
  BY <1>1, SignUpGoes DEF SignUpPcs
<1>3. call'[c].pc \notin SignUps!Bound
  BY <1>2 DEF SignUps!Bound, SignUps!Housed
<1>4. SignUps!TypeOK'
  <2>1. signUpFaults' \in 0..MaxSignUpFaults
    BY <1>1 DEF SignUps!TypeOK, SignUps!Fault, SignUps!SignUpAssumption
  <2>2. stranded' \subseteq {"unanswered", "raised", "undo", "died"}
    BY <1>1 DEF SignUps!TypeOK
  <2> QED BY <1>1, <1>2, <2>1, <2>2 DEF SignUps!TypeOK, SignUpCall, SignUps!Nobody
<1>5. SignUps!Named'
  BY <1>2, <1>3 DEF SignUps!IInv, SignUps!Named
<1>6. ~SignUps!Clean'
  BY <1>1 DEF SignUps!Clean
<1> QED BY <1>4, <1>5, <1>6 DEF SignUps!IInv

\* Nobody has signed up at first.
LEMMA SignUpStarts ==
    ASSUME SignUps!SignUpAssumption, SignUps!Init
    PROVE  SignUps!IInv
<1>1. SignUps!TypeOK
  <2>1. /\ user = 0 /\ minted = 0 /\ account = SignUps!NoAccount /\ rows = {}
        /\ token = [i \in SignUps!Ids |-> SignUps!Nobody]
        /\ call = [c \in SignUpCalls |-> [pc |-> "issue", id |-> 0, known |-> FALSE, missed |-> {}]]
        /\ stranded = {} /\ met = FALSE /\ signUpFaults = 0
    BY DEF SignUps!Init
  <2>2. /\ user \in 0..minted /\ minted \in 0..MaxIds /\ signUpFaults \in 0..MaxSignUpFaults /\ 0 \in 0..minted
    BY <2>1 DEF SignUps!SignUpAssumption
  <2>3. account \in [id : 0..minted, role : SignUps!Roles]
    <3>1. "none" \in SignUps!Roles
      BY DEF SignUps!Roles
    <3> QED BY <2>1, <2>2, <3>1 DEF SignUps!NoAccount
  <2>4. [pc |-> "issue", id |-> 0, known |-> FALSE, missed |-> {}]
          \in [pc : SignUps!Steps \cup {"ok", "refused", "raised", "died"}, id : 0..minted,
              known : BOOLEAN, missed : SUBSET {"account", "rows", "token"}]
    <3>1. "issue" \in SignUps!Steps \cup {"ok", "refused", "raised", "died"}
      BY DEF SignUps!Steps
    <3>2. {} \in SUBSET {"account", "rows", "token"} /\ FALSE \in BOOLEAN
      OBVIOUS
    <3> QED BY <2>2, <3>1, <3>2
  <2>5. token \in [SignUps!Ids -> SignUpCalls \cup {SignUps!Nobody}]
        /\ \A i \in SignUps!Ids : token[i] = SignUps!Nobody
    BY <2>1
  <2> QED BY <2>1, <2>2, <2>3, <2>4, <2>5 DEF SignUps!TypeOK
<1>2. \A c \in SignUpCalls : call[c].pc = "issue"
  BY DEF SignUps!Init
<1>3. "issue" \notin SignUps!Bound /\ "issue" \notin SignUps!Housed
  BY DEF SignUps!Bound, SignUps!Housed
<1>4. SignUps!Named /\ SignUps!Held /\ SignUps!Stamped /\ SignUps!Written
  BY <1>2, <1>3 DEF SignUps!Init, SignUps!Named, SignUps!Held, SignUps!Stamped, SignUps!Written, SignUps!NoAccount
<1> QED BY <1>1, <1>4 DEF SignUps!IInv

\* Each step of a sign-up keeps the invariant.
LEMMA SignUpSteps ==
    ASSUME SignUps!SignUpAssumption, SignUps!IInv, [SignUps!Next]_(SignUps!signUpVars)
    PROVE  SignUps!IInv'
<1>1. CASE SignUps!Next
  BY <1>1, SignUpIssue, SignUpStamp, SignUpCreateAccount, SignUpCreateRows, SignUpLook, SignUpRegister,
     SignUpForget, SignUpDeleteUser, SignUpDie DEF SignUps!Next
<1>2. CASE UNCHANGED SignUps!signUpVars
  BY <1>2 DEF SignUps!signUpVars, SignUps!IInv, SignUps!TypeOK, SignUps!Named, SignUps!Clean, SignUps!Held,
     SignUps!Stamped, SignUps!Written, SignUps!Nobody, SignUps!Steps, SignUps!Ids, SignUps!NoAccount,
     SignUps!Roles, SignUps!Bound, SignUps!Housed
<1> QED BY <1>1, <1>2

\* What the person is left with when every sign-up is over, of the invariant.
LEMMA SignUpKept ==
    ASSUME SignUps!IInv
    PROVE  SignUps!TypeOK /\ SignUps!NobodyLeftHalf
<1>1. SignUps!NobodyLeftHalf
  <2> SUFFICES ASSUME \A c \in SignUpCalls : call[c].pc \notin SignUps!Steps, SignUps!Clean
               PROVE  (user = 0 /\ account = SignUps!NoAccount) \/ SignUps!Whole(user)
    BY DEF SignUps!NobodyLeftHalf, SignUps!Clean
  <2>1. SignUps!Held /\ SignUps!Stamped /\ SignUps!Written /\ SignUps!TypeOK /\ SignUps!Named
    BY DEF SignUps!IInv
  <2>2. \A c \in SignUpCalls : call[c].pc \in SignUps!Bound => call[c].pc = "ok"
    BY DEF SignUps!Steps, SignUps!Bound, SignUps!Housed
  <2>3. CASE \A c \in SignUpCalls : call[c].pc \notin SignUps!Bound
    <3>1. SignUps!Housed \subseteq SignUps!Bound
      BY DEF SignUps!Bound
    <3> QED BY <2>1, <2>3, <3>1 DEF SignUps!Held
  <2>4. CASE \E c \in SignUpCalls : call[c].pc \in SignUps!Bound
    <3>1. PICK c \in SignUpCalls : call[c].pc = "ok" /\ call[c].pc \in SignUps!Bound
      BY <2>2, <2>4
    <3>2. "ok" \in SignUps!Housed /\ SignUps!Housed \subseteq SignUps!Bound
          /\ \A d \in SignUpCalls : call[d].pc \notin {"account", "forget", "delete"}
      BY DEF SignUps!Housed, SignUps!Bound, SignUps!Steps
    <3>3. call[c].id = user /\ account = [id |-> call[c].id, role |-> SignUpRole[c]]
      BY <2>1, <3>1, <3>2 DEF SignUps!Held
    <3>4. call[c].id \in rows /\ token[call[c].id] # SignUps!Nobody
      BY <2>1, <3>1 DEF SignUps!Written
    <3>5. stamped = SignUpRole[c]
      <4>1. call[c].pc \in {"account"} \cup SignUps!Housed /\ call[c].pc # "account"
        BY <3>1, <3>2
      <4> QED BY <2>1, <3>2, <4>1 DEF SignUps!Stamped
    <3> QED BY <3>3, <3>4, <3>5 DEF SignUps!Whole
  <2> QED BY <2>3, <2>4
<1> QED BY <1>1 DEF SignUps!IInv

\* The variables of SearchIndices.
held == v4
told == v1
sources == v3
sync == v2
boots == v5
indexFaults == v8
partly == v6
leftClosed == v7
overlapped == v9
unlisted == v10
lastListed == v11
USE DEF held, told, sources, sync, boots, indexFaults, partly, leftClosed, overlapped,
       unlisted, lastListed

-----------------------------------------------------------------------------
(* The boots that make an index (search: db/indices.ts,                        *)
(* transport/opensearch.ts).                                                  *)

\* The parts of the invariant.
LEMMA IndicesParts ==
    ASSUME Indices!IInv
    PROVE  /\ Indices!TypeOK /\ Indices!Typed /\ Indices!OneBoot /\ Indices!Writing
           /\ Indices!Closed /\ Indices!Listing
           /\ partly \in BOOLEAN /\ leftClosed \in BOOLEAN /\ overlapped \in BOOLEAN /\ unlisted \in BOOLEAN
           /\ sync \in [IndexProcesses -> Indices!Syncs]
BY DEF Indices!IInv, Indices!TypeOK, Indices!Typed

\* One process goes to another step.
LEMMA IndicesGo ==
    ASSUME sync \in [IndexProcesses -> Indices!Syncs], NEW p \in IndexProcesses,
           NEW c \in Indices!Steps, sync' = [sync EXCEPT ![p].pc = c]
    PROVE  \E y \in Indices!Syncs :
              /\ sync' = [sync EXCEPT ![p] = y] /\ y.pc = c /\ (y.wrote <=> sync[p].wrote)
              /\ y.found = sync[p].found /\ y.listed = sync[p].listed
<1> DEFINE y == [sync[p] EXCEPT !.pc = c]
<1>1. y \in Indices!Syncs /\ y.pc = c /\ y.found = sync[p].found /\ y.listed = sync[p].listed
  BY DEF Indices!Syncs
<1>2. y.wrote <=> sync[p].wrote
  BY DEF Indices!Syncs
<1>3. sync' = [sync EXCEPT ![p] = y]
  OBVIOUS
<1> QED BY <1>1, <1>2, <1>3

\* It goes there having written, or with nothing written.
LEMMA IndicesWrites ==
    ASSUME sync \in [IndexProcesses -> Indices!Syncs], NEW p \in IndexProcesses,
           NEW c \in Indices!Steps, NEW w \in BOOLEAN, sync' = [sync EXCEPT ![p].pc = c, ![p].wrote = w]
    PROVE  \E y \in Indices!Syncs :
              /\ sync' = [sync EXCEPT ![p] = y] /\ y.pc = c /\ (y.wrote <=> w)
              /\ y.found = sync[p].found /\ y.listed = sync[p].listed
<1> DEFINE y == [sync[p] EXCEPT !.pc = c, !.wrote = w]
<1>1. y \in Indices!Syncs /\ y.pc = c /\ y.found = sync[p].found /\ y.listed = sync[p].listed
  BY DEF Indices!Syncs
<1>2. y.wrote <=> w
  BY DEF Indices!Syncs
<1>3. sync' = [sync EXCEPT ![p] = y]
  OBVIOUS
<1> QED BY <1>1, <1>2, <1>3

\* The others stay where they were.
LEMMA IndicesOthers ==
    ASSUME sync \in [IndexProcesses -> Indices!Syncs], NEW p \in IndexProcesses,
           NEW y \in Indices!Syncs, sync' = [sync EXCEPT ![p] = y]
    PROVE  /\ sync' \in [IndexProcesses -> Indices!Syncs] /\ sync'[p] = y
           /\ \A q \in IndexProcesses : q # p => sync'[q] = sync[q]
OBVIOUS

\* What the shape of the state asks of a step of one process.
LEMMA IndicesTyped ==
    ASSUME Indices!Typed, NEW p \in IndexProcesses,
           NEW y \in Indices!Syncs, sync' = [sync EXCEPT ![p] = y],
           DOMAIN held' = {"there", "open", "settings", "fields"}, held.there => held'.there,
           y.pc \in {"close", "put", "open", "reopen", "map", "record"} => held'.there
    PROVE  Indices!Typed'
BY IndicesOthers DEF Indices!Typed

\* A step of a boot that runs starts no other.
LEMMA IndicesAlone ==
    ASSUME Indices!OneBoot, sync \in [IndexProcesses -> Indices!Syncs], NEW p \in IndexProcesses,
           NEW y \in Indices!Syncs, sync' = [sync EXCEPT ![p] = y],
           overlapped' = overlapped, sync[p].pc # "out"
    PROVE  /\ Indices!OneBoot'
           /\ ~overlapped => \A q \in IndexProcesses : q # p => sync[q].pc = "out"
BY IndicesOthers DEF Indices!OneBoot, Indices!At

\* An index stays closed for a boot that is about to open it.
LEMMA IndicesClosed ==
    ASSUME Indices!Closed, sync \in [IndexProcesses -> Indices!Syncs], NEW p \in IndexProcesses,
           NEW y \in Indices!Syncs, sync' = [sync EXCEPT ![p] = y], leftClosed => leftClosed',
           \/ y.pc \in {"put", "open", "reopen"} \/ held'.open \/ leftClosed'
           \/ /\ sync[p].pc \notin {"put", "open", "reopen"}
              /\ held'.open = held.open /\ held'.there = held.there
    PROVE  Indices!Closed'
BY IndicesOthers DEF Indices!Closed

\* A step that neither lists nor drops leaves the tables as they are listed.
LEMMA IndicesListing ==
    ASSUME Indices!Listing, sync \in [IndexProcesses -> Indices!Syncs], NEW p \in IndexProcesses,
           NEW y \in Indices!Syncs, sync' = [sync EXCEPT ![p] = y],
           overlapped => overlapped', unlisted => unlisted',
           unlisted' \/ /\ sources' = sources /\ lastListed' = lastListed
                        /\ sync[p].pc # "drop" /\ y.pc \notin {"add", "drop"}
    PROVE  Indices!Listing'
<1>1. CASE unlisted' \/ overlapped'
  BY <1>1 DEF Indices!Listing
<1>2. CASE ~unlisted' /\ ~overlapped'
  BY <1>2, IndicesOthers DEF Indices!Listing, Indices!At
<1> QED BY <1>1, <1>2

\* A step that writes nothing of the cluster leaves the row as true as it was.
LEMMA IndicesQuiet ==
    ASSUME Indices!Writing, sync \in [IndexProcesses -> Indices!Syncs], NEW p \in IndexProcesses,
           NEW y \in Indices!Syncs, sync' = [sync EXCEPT ![p] = y],
           overlapped => overlapped', partly => partly',
           partly' \/ /\ told' = told /\ held'.settings = held.settings /\ held'.fields = held.fields
                      /\ held.there => held'.there
                      /\ sync[p].pc \notin {"open", "map", "record"}
                      /\ y.pc \notin {"open", "map", "record"}
                      /\ y.wrote => sync[p].wrote
    PROVE  Indices!Writing'
<1>1. CASE partly' \/ overlapped'
  BY <1>1 DEF Indices!Writing
<1>2. CASE ~partly' /\ ~overlapped'
  <2>1. /\ told # Indices!NoRow => held.there /\ Indices!Covers(told)
        /\ \A q \in IndexProcesses : sync[q].wrote <=> sync[q].pc \in {"open", "map", "record"}
        /\ \A q \in IndexProcesses : sync[q].wrote =>
              held.settings = IndexConfig[q].settings
              /\ (sync[q].pc = "record" => Indices!Covers(Indices!DigestOf(q)))
        /\ (\A q \in IndexProcesses : ~sync[q].wrote) /\ told # Indices!NoRow =>
              Indices!Digest(held.settings) = told.settings
    BY <1>2 DEF Indices!Writing, Indices!At
  <2>2. /\ ~sync[p].wrote /\ ~y.wrote
        /\ \A q \in IndexProcesses : sync'[q].wrote <=> sync[q].wrote
    BY <1>2, <2>1, IndicesOthers
  <2>3. \A q \in IndexProcesses : q # p => sync'[q] = sync[q]
    BY IndicesOthers
  <2>4. sync'[p] = y
    BY IndicesOthers
  <2>5. told' # Indices!NoRow => held'.there /\ Indices!Covers(told)'
    BY <1>2, <2>1 DEF Indices!Covers
  <2>6. \A q \in IndexProcesses : sync'[q].wrote <=> sync'[q].pc \in {"open", "map", "record"}
    BY <1>2, <2>1, <2>2, <2>3, <2>4
  <2>7. \A q \in IndexProcesses : sync'[q].wrote =>
              held'.settings = IndexConfig[q].settings
              /\ (sync'[q].pc = "record" => Indices!Covers(Indices!DigestOf(q))')
    BY <1>2, <2>1, <2>2, <2>3, <2>4 DEF Indices!Covers
  <2>8. (\A q \in IndexProcesses : ~sync'[q].wrote) /\ told' # Indices!NoRow =>
              Indices!Digest(held'.settings) = told'.settings
    BY <1>2, <2>1, <2>2
  <2> QED BY <2>5, <2>6, <2>7, <2>8 DEF Indices!Writing, Indices!At
<1> QED BY <1>1, <1>2

\* The rest of what a step owes.
LEMMA IndicesKinds ==
    ASSUME Indices!SearchIndicesAssumption, Indices!TypeOK, sync \in [IndexProcesses -> Indices!Syncs],
           NEW p \in IndexProcesses, NEW y \in Indices!Syncs, sync' = [sync EXCEPT ![p] = y],
           y.listed = {} \/ y.pc \in {"add", "drop"}, held'.open => held'.there,
           told' \in Indices!Rows, sources' \subseteq Indices!Tables,
           partly' \in BOOLEAN, leftClosed' \in BOOLEAN, overlapped' \in BOOLEAN, unlisted' \in BOOLEAN,
           lastListed' \in IndexProcesses \cup {"none"}, boots' \in 0..IndexBoots,
           indexFaults' = indexFaults \/ (indexFaults < MaxRefusals /\ indexFaults' = indexFaults + 1)
    PROVE  Indices!TypeOK'
<1>1. \A q \in IndexProcesses : sync'[q].listed # {} => sync'[q].pc \in {"add", "drop"}
  BY IndicesOthers DEF Indices!TypeOK
<1>2. indexFaults' \in 0..MaxRefusals
  BY DEF Indices!TypeOK, Indices!SearchIndicesAssumption
<1> QED BY <1>1, <1>2 DEF Indices!TypeOK, Indices!Rows, Indices!Tables

\* What every state has.
LEMMA IndicesBounds ==
    ASSUME Indices!TypeOK
    PROVE  /\ held.open => held.there
           /\ told \in Indices!Rows /\ sources \subseteq Indices!Tables
           /\ partly \in BOOLEAN /\ leftClosed \in BOOLEAN /\ overlapped \in BOOLEAN /\ unlisted \in BOOLEAN
           /\ lastListed \in IndexProcesses \cup {"none"} /\ boots \in 0..IndexBoots
           /\ \A p \in IndexProcesses : sync[p].listed # {} => sync[p].pc \in {"add", "drop"}
BY DEF Indices!TypeOK, Indices!Rows, Indices!Tables

\* A step that has a call answered, or failed.
LEMMA IndicesMay ==
    ASSUME NEW ok \in BOOLEAN, Indices!May(ok)
    PROVE  indexFaults' = indexFaults \/ (indexFaults < MaxRefusals /\ indexFaults' = indexFaults + 1)
BY DEF Indices!May

\* A boot begins, beside another or not.
LEMMA IndicesBoot ==
    ASSUME Indices!SearchIndicesAssumption, Indices!IInv, NEW p \in IndexProcesses, Indices!Boot(p)
    PROVE  Indices!IInv'
<1>0. sync \in [IndexProcesses -> Indices!Syncs]
  BY IndicesParts
<1>1. /\ sync[p].pc = "out" /\ boots < IndexBoots /\ boots' = boots + 1 /\ sync' = [sync EXCEPT ![p].pc = "read"]
      /\ overlapped' = (overlapped \/ \E q \in IndexProcesses : sync[q].pc # "out")
      /\ held' = held /\ told' = told /\ sources' = sources /\ indexFaults' = indexFaults /\ partly' = partly
      /\ leftClosed' = leftClosed /\ unlisted' = unlisted /\ lastListed' = lastListed
  BY DEF Indices!Boot, Indices!At, Indices!Go
<1>2. PICK y \in Indices!Syncs :
         /\ sync' = [sync EXCEPT ![p] = y] /\ y.pc = "read" /\ (y.wrote <=> sync[p].wrote)
         /\ y.found = sync[p].found /\ y.listed = sync[p].listed
  <2> DEFINE c == "read"
  <2>1. c \in Indices!Steps /\ sync' = [sync EXCEPT ![p].pc = c]
    BY <1>1 DEF Indices!Steps
  <2>2. c = "read"
    OBVIOUS
  <2> HIDE DEF c
  <2>3. \E y \in Indices!Syncs :
           /\ sync' = [sync EXCEPT ![p] = y] /\ y.pc = c /\ (y.wrote <=> sync[p].wrote)
           /\ y.found = sync[p].found /\ y.listed = sync[p].listed
    BY <1>0, <2>1, IndicesGo
  <2> QED BY <2>2, <2>3
<1>3. Indices!Typed'
  BY <1>1, <1>2, IndicesParts, IndicesTyped DEF Indices!Typed
<1>4. Indices!OneBoot'
  <2>1. \A q \in IndexProcesses : q # p => sync'[q] = sync[q]
    BY <1>0, <1>2, IndicesOthers
  <2>2. ~overlapped' => \A q \in IndexProcesses : sync[q].pc = "out"
    BY <1>1
  <2>3. ~overlapped' => \A q \in IndexProcesses : q # p => sync'[q].pc = "out"
    BY <2>1, <2>2
  <2> QED BY <2>3 DEF Indices!OneBoot, Indices!At
<1>5. Indices!Closed'
  BY <1>0, <1>1, <1>2, IndicesParts, IndicesClosed
<1>6. Indices!Listing'
  BY <1>0, <1>1, <1>2, IndicesParts, IndicesListing
<1>7. Indices!Writing'
  BY <1>0, <1>1, <1>2, IndicesParts, IndicesQuiet
<1>8. Indices!TypeOK'
  <2>1. y.listed = {}
    BY <1>1, <1>2, IndicesParts, IndicesBounds
  <2>2. boots' \in 0..IndexBoots
    BY <1>1, IndicesParts, IndicesBounds DEF Indices!SearchIndicesAssumption
  <2>3. overlapped' \in BOOLEAN
    BY <1>1, IndicesParts
  <2>4. /\ held'.open => held'.there
        /\ told' \in Indices!Rows /\ sources' \subseteq Indices!Tables
        /\ partly' \in BOOLEAN /\ leftClosed' \in BOOLEAN /\ unlisted' \in BOOLEAN
        /\ lastListed' \in IndexProcesses \cup {"none"} /\ Indices!TypeOK
    BY <1>1, IndicesParts, IndicesBounds
  <2> QED BY <1>0, <1>1, <1>2, <2>1, <2>2, <2>3, <2>4, IndicesKinds
<1> QED BY <1>3, <1>4, <1>5, <1>6, <1>7, <1>8 DEF Indices!IInv

\* The row is read; nothing of the cluster changes.
LEMMA IndicesRead ==
    ASSUME Indices!SearchIndicesAssumption, Indices!IInv, NEW p \in IndexProcesses, NEW ok \in BOOLEAN,
           Indices!Read(p, ok)
    PROVE  Indices!IInv'
<1>0. sync \in [IndexProcesses -> Indices!Syncs]
  BY IndicesParts
<1> DEFINE onto == IF told = Indices!DigestOf(p) THEN "list" ELSE "exists"
           y == IF ~ok THEN Indices!Idle ELSE [Indices!Idle EXCEPT !.found = told, !.pc = onto]
<1>1. /\ sync[p].pc = "read" /\ Indices!May(ok)
      /\ sync' = [sync EXCEPT ![p] = y] /\ unlisted' = (unlisted \/ ~ok)
      /\ held' = held /\ told' = told /\ sources' = sources /\ boots' = boots /\ partly' = partly
      /\ leftClosed' = leftClosed /\ overlapped' = overlapped /\ lastListed' = lastListed
  BY DEF Indices!Read, Indices!At
<1>2. /\ y \in Indices!Syncs /\ y.pc \in {"out", "list", "exists"} /\ ~y.wrote /\ y.listed = {}
  <2>1. told \in Indices!Rows /\ Indices!NoRow \in Indices!Rows
    BY IndicesParts, IndicesBounds DEF Indices!Rows
  <2> QED BY <2>1 DEF Indices!Idle, Indices!Syncs, Indices!Steps
<1> HIDE DEF y
<1>3. Indices!Typed'
  BY <1>1, <1>2, IndicesParts, IndicesTyped DEF Indices!Typed
<1>4. Indices!OneBoot'
  BY <1>0, <1>1, <1>2, IndicesParts, IndicesAlone
<1>5. Indices!Closed'
  BY <1>0, <1>1, <1>2, IndicesParts, IndicesClosed
<1>6. Indices!Listing'
  BY <1>0, <1>1, <1>2, IndicesParts, IndicesListing
<1>7. Indices!Writing'
  BY <1>0, <1>1, <1>2, IndicesParts, IndicesQuiet
<1>8. Indices!TypeOK'
  <2>1. unlisted' \in BOOLEAN
    BY <1>1, IndicesParts
  <2> QED BY <1>0, <1>1, <1>2, <2>1, IndicesParts, IndicesBounds, IndicesMay, IndicesKinds
<1> QED BY <1>3, <1>4, <1>5, <1>6, <1>7, <1>8 DEF Indices!IInv

\* A step that leaves the table alone, and of the cluster changes at most whether the index is open:
\* it asks, closes, opens, or was refused.
LEMMA IndicesAsks ==
    ASSUME Indices!SearchIndicesAssumption, Indices!IInv, NEW p \in IndexProcesses,
           NEW c \in Indices!Steps, sync[p].pc \in {"exists", "create", "close", "put", "open", "reopen", "map"},
           c \in {"create", "close", "put", "reopen", "list"}, sync' = [sync EXCEPT ![p].pc = c],
           told' = told, sources' = sources, boots' = boots, overlapped' = overlapped, unlisted' = unlisted,
           lastListed' = lastListed,
           indexFaults' = indexFaults \/ (indexFaults < MaxRefusals /\ indexFaults' = indexFaults + 1),
           NEW o \in BOOLEAN, held' = [held EXCEPT !.open = o] \/ held' = held,
           held' # held => held.there, c \in {"close", "put", "reopen"} => held.there,
           partly' \in BOOLEAN, leftClosed' \in BOOLEAN, partly => partly', leftClosed => leftClosed',
           sync[p].wrote => partly' \/ overlapped,
           \/ c \in {"put", "reopen"} \/ leftClosed' \/ held'.open
           \/ sync[p].pc \notin {"put", "open", "reopen"} /\ held' = held
    PROVE  Indices!IInv'
<1>0. sync \in [IndexProcesses -> Indices!Syncs]
  BY IndicesParts
<1>1. PICK y \in Indices!Syncs :
         /\ sync' = [sync EXCEPT ![p] = y] /\ y.pc = c /\ (y.wrote <=> sync[p].wrote)
         /\ y.found = sync[p].found /\ y.listed = sync[p].listed
  BY <1>0, IndicesGo
<1>2. /\ DOMAIN held = {"there", "open", "settings", "fields"}
      /\ DOMAIN held' = {"there", "open", "settings", "fields"} /\ held'.there = held.there
      /\ held'.settings = held.settings /\ held'.fields = held.fields
  BY IndicesParts DEF Indices!Typed
<1>3. Indices!Typed'
  BY <1>1, <1>2, IndicesParts, IndicesTyped
<1>4. Indices!OneBoot'
  BY <1>0, <1>1, IndicesParts, IndicesAlone
<1>5. Indices!Closed'
  BY <1>0, <1>1, <1>2, IndicesParts, IndicesClosed
<1>6. Indices!Listing'
  <2>1. sync[p].pc # "drop" /\ y.pc \notin {"add", "drop"}
    BY <1>1
  <2> QED BY <1>0, <1>1, <2>1, IndicesParts, IndicesListing
<1>7. Indices!Writing'
  <2>1. ~partly /\ ~overlapped => (sync[p].pc \in {"open", "map", "record"} => sync[p].wrote)
    BY IndicesParts DEF Indices!Writing
  <2>2. CASE overlapped
    BY <2>2 DEF Indices!Writing
  <2>3. CASE ~overlapped
    BY <1>0, <1>1, <1>2, <2>1, <2>3, IndicesParts, IndicesQuiet
  <2> QED BY <2>2, <2>3
<1>8. Indices!TypeOK'
  <2>1. y.listed = {}
    BY <1>1, IndicesParts, IndicesBounds
  <2>2. held'.open => held'.there
    BY <1>2, IndicesParts, IndicesBounds
  <2> QED BY <1>0, <1>1, <2>1, <2>2, IndicesParts, IndicesBounds, IndicesKinds
<1> QED BY <1>3, <1>4, <1>5, <1>6, <1>7, <1>8 DEF Indices!IInv

\* The cluster is asked whether it holds the index.
LEMMA IndicesExists ==
    ASSUME Indices!SearchIndicesAssumption, Indices!IInv, NEW p \in IndexProcesses, NEW ok \in BOOLEAN,
           Indices!Exists(p, ok)
    PROVE  Indices!IInv'
<1> DEFINE c == IF ~ok THEN "list" ELSE IF held.there THEN "close" ELSE "create"
<1>1. /\ sync[p].pc = "exists" /\ Indices!May(ok) /\ sync' = [sync EXCEPT ![p].pc = c]
      /\ partly' = IF ok THEN partly ELSE partly \/ sync[p].wrote \/ FALSE
      /\ held' = held /\ told' = told /\ sources' = sources /\ boots' = boots
      /\ leftClosed' = leftClosed /\ overlapped' = overlapped /\ unlisted' = unlisted /\ lastListed' = lastListed
  BY DEF Indices!Exists, Indices!Refused, Indices!Go, Indices!At, Indices!Cluster
<1>2. /\ c \in Indices!Steps /\ c \in {"create", "close", "list"} /\ (c = "close" => held.there)
  BY DEF Indices!Steps
<1> HIDE DEF c
<1>3. /\ partly' \in BOOLEAN /\ leftClosed' \in BOOLEAN /\ (partly => partly') /\ (leftClosed => leftClosed')
  BY <1>1, IndicesParts
<1>4. sync[p].wrote => partly' \/ overlapped
  BY <1>1, IndicesParts DEF Indices!Writing
<1> QED BY <1>1, <1>2, <1>3, <1>4, IndicesMay, IndicesAsks

\* The index is not created: the cluster refused, or holds one another process created.
LEMMA IndicesNotCreated ==
    ASSUME Indices!SearchIndicesAssumption, Indices!IInv, NEW p \in IndexProcesses, NEW took \in BOOLEAN,
           NEW ok \in BOOLEAN, Indices!Create(p, took, ok), ~took \/ held.there
    PROVE  Indices!IInv'
<1> DEFINE c == "list"
<1>1. /\ sync[p].pc = "create" /\ Indices!May(ok) /\ sync' = [sync EXCEPT ![p].pc = c]
      /\ partly' = (partly \/ sync[p].wrote \/ FALSE)
      /\ held' = held /\ told' = told /\ sources' = sources /\ boots' = boots
      /\ leftClosed' = leftClosed /\ overlapped' = overlapped /\ unlisted' = unlisted /\ lastListed' = lastListed
  BY DEF Indices!Create, Indices!Refused, Indices!At, Indices!Cluster
<1>2. c \in Indices!Steps /\ c = "list"
  BY DEF Indices!Steps
<1> HIDE DEF c
<1>3. /\ partly' \in BOOLEAN /\ leftClosed' \in BOOLEAN /\ (partly => partly') /\ (leftClosed => leftClosed')
      /\ sync[p].wrote => partly'
  BY <1>1, IndicesParts
<1> QED BY <1>1, <1>2, <1>3, IndicesMay, IndicesAsks

\* It is closed, or the cluster refused.
LEMMA IndicesCloses ==
    ASSUME Indices!SearchIndicesAssumption, Indices!IInv, NEW p \in IndexProcesses, NEW took \in BOOLEAN,
           NEW ok \in BOOLEAN, Indices!Close(p, took, ok)
    PROVE  Indices!IInv'
<1> DEFINE c == IF ok THEN "put" ELSE "list"
<1>1. /\ sync[p].pc = "close" /\ Indices!May(ok) /\ sync' = [sync EXCEPT ![p].pc = c]
      /\ partly' = IF ok THEN partly ELSE partly \/ sync[p].wrote \/ FALSE
      /\ held' = IF took THEN [held EXCEPT !.open = FALSE] ELSE held
      /\ leftClosed' = (leftClosed \/ (took /\ ~ok)) /\ (ok => took)
      /\ told' = told /\ sources' = sources /\ boots' = boots
      /\ overlapped' = overlapped /\ unlisted' = unlisted /\ lastListed' = lastListed
  BY DEF Indices!Close, Indices!Refused, Indices!Go, Indices!At, Indices!Cluster
<1>2. c \in Indices!Steps /\ c \in {"put", "list"} /\ (c = "put" <=> ok)
  BY DEF Indices!Steps
<1> HIDE DEF c
<1>3. /\ partly' \in BOOLEAN /\ leftClosed' \in BOOLEAN /\ (partly => partly') /\ (leftClosed => leftClosed')
  BY <1>1, IndicesParts
<1>4. sync[p].wrote => partly' \/ overlapped
  BY <1>1, IndicesParts DEF Indices!Writing
<1>5. held.there
  BY <1>1, IndicesParts DEF Indices!Typed
<1>6. held' = [held EXCEPT !.open = FALSE] \/ held' = held
  BY <1>1
<1>7. \/ c = "put" \/ leftClosed' \/ held'.open
      \/ sync[p].pc \notin {"put", "open", "reopen"} /\ held' = held
  <2>1. CASE ok
    <3>1. c = "put"
      BY <1>2, <2>1
    <3> QED BY <3>1
  <2>2. CASE took /\ ~ok
    BY <1>1, <2>2
  <2>3. CASE ~took
    BY <1>1, <2>3
  <2> QED BY <2>1, <2>2, <2>3
<1> QED BY <1>1, <1>2, <1>3, <1>4, <1>5, <1>6, <1>7, IndicesMay, IndicesAsks

\* The analysis is refused, and the index is to be opened all the same.
LEMMA IndicesPutRefused ==
    ASSUME Indices!SearchIndicesAssumption, Indices!IInv, NEW p \in IndexProcesses, NEW took \in BOOLEAN,
           NEW ok \in BOOLEAN, Indices!Put(p, took, ok), ~took \/ held.open
    PROVE  Indices!IInv'
<1> DEFINE c == "reopen"
<1>1. /\ sync[p].pc = "put" /\ Indices!May(ok)
      /\ sync' = [sync EXCEPT ![p].pc = c, ![p].wrote = sync[p].wrote \/ FALSE]
      /\ held' = held /\ told' = told /\ sources' = sources /\ boots' = boots /\ partly' = (partly \/ FALSE)
      /\ leftClosed' = leftClosed /\ overlapped' = overlapped /\ unlisted' = unlisted /\ lastListed' = lastListed
  BY DEF Indices!Put, Indices!At, Indices!Cluster
<1>2. c \in Indices!Steps /\ c = "reopen"
  BY DEF Indices!Steps
<1>3. sync' = [sync EXCEPT ![p].pc = c]
  BY <1>1, IndicesParts DEF Indices!Syncs
<1> HIDE DEF c
<1>4. /\ partly' \in BOOLEAN /\ leftClosed' \in BOOLEAN /\ (partly => partly') /\ (leftClosed => leftClosed')
  BY <1>1, IndicesParts
<1>5. sync[p].wrote => partly' \/ overlapped
  BY <1>1, IndicesParts DEF Indices!Writing
<1>6. held.there
  BY <1>1, IndicesParts DEF Indices!Typed
<1> QED BY <1>1, <1>2, <1>3, <1>4, <1>5, <1>6, IndicesMay, IndicesAsks

\* It is opened, or not, by a boot whose analysis was refused, or an open is refused.
LEMMA IndicesReopens ==
    ASSUME Indices!SearchIndicesAssumption, Indices!IInv, NEW p \in IndexProcesses, NEW took \in BOOLEAN,
           NEW ok \in BOOLEAN, Indices!Open(p, took, ok), ~(ok /\ sync[p].pc = "open")
    PROVE  Indices!IInv'
<1> DEFINE c == "list"
           o == held.open \/ took
<1>1. /\ sync[p].pc \in {"open", "reopen"} /\ Indices!May(ok) /\ sync' = [sync EXCEPT ![p].pc = c]
      /\ partly' = (partly \/ sync[p].wrote \/ FALSE) /\ held' = [held EXCEPT !.open = o]
      /\ leftClosed' = (leftClosed \/ ~took)
      /\ told' = told /\ sources' = sources /\ boots' = boots
      /\ overlapped' = overlapped /\ unlisted' = unlisted /\ lastListed' = lastListed
  BY DEF Indices!Open, Indices!Refused, Indices!At, Indices!Cluster
<1>2. c \in Indices!Steps /\ c = "list"
  BY DEF Indices!Steps
<1>3. o \in BOOLEAN /\ (took => o)
  OBVIOUS
<1>4. held.there
  BY <1>1, IndicesParts DEF Indices!Typed
<1>5. leftClosed' \/ held'.open
  BY <1>1, <1>3, IndicesParts DEF Indices!Typed
<1> HIDE DEF c, o
<1>6. /\ partly' \in BOOLEAN /\ leftClosed' \in BOOLEAN /\ (partly => partly') /\ (leftClosed => leftClosed')
      /\ sync[p].wrote => partly'
  BY <1>1, IndicesParts
<1> QED BY <1>1, <1>2, <1>3, <1>4, <1>5, <1>6, IndicesMay, IndicesAsks

\* The mapping is refused.
LEMMA IndicesMapRefused ==
    ASSUME Indices!SearchIndicesAssumption, Indices!IInv, NEW p \in IndexProcesses, NEW took \in BOOLEAN,
           NEW ok \in BOOLEAN, Indices!Map(p, took, ok),
           ~(took /\ \A f \in DOMAIN IndexConfig[p].fields \cap DOMAIN held.fields :
                      IndexConfig[p].fields[f] = held.fields[f])
    PROVE  Indices!IInv'
<1> DEFINE c == "list"
<1>1. /\ sync[p].pc = "map" /\ Indices!May(ok) /\ sync' = [sync EXCEPT ![p].pc = c]
      /\ partly' = (partly \/ sync[p].wrote \/ FALSE) /\ held' = held
      /\ leftClosed' = leftClosed /\ told' = told /\ sources' = sources /\ boots' = boots
      /\ overlapped' = overlapped /\ unlisted' = unlisted /\ lastListed' = lastListed
  BY DEF Indices!Map, Indices!Refused, Indices!At, Indices!Cluster
<1>2. c \in Indices!Steps /\ c = "list"
  BY DEF Indices!Steps
<1> HIDE DEF c
<1>3. /\ partly' \in BOOLEAN /\ leftClosed' \in BOOLEAN /\ (partly => partly') /\ (leftClosed => leftClosed')
      /\ sync[p].wrote => partly'
  BY <1>1, IndicesParts
<1> QED BY <1>1, <1>2, <1>3, IndicesMay, IndicesAsks

\* A step that writes to the cluster or the row, when what the row tells has been looked at.
LEMMA IndicesWritten ==
    ASSUME Indices!SearchIndicesAssumption, Indices!IInv, NEW p \in IndexProcesses,
           NEW y \in Indices!Syncs, sync' = [sync EXCEPT ![p] = y],
           sync[p].pc \in {"create", "put", "open", "map", "record"},
           y.pc \in {"open", "reopen", "map", "record", "list"}, y.listed = sync[p].listed,
           DOMAIN held' = {"there", "open", "settings", "fields"}, held'.there,
           \/ y.pc \in {"open", "reopen"} \/ held'.open
           \/ /\ sync[p].pc \notin {"put", "open", "reopen"}
              /\ held'.open = held.open /\ held'.there = held.there,
           told' \in Indices!Rows, sources' = sources, boots' = boots, leftClosed' = leftClosed,
           overlapped' = overlapped, unlisted' = unlisted, lastListed' = lastListed, partly' \in BOOLEAN,
           indexFaults' = indexFaults \/ (indexFaults < MaxRefusals /\ indexFaults' = indexFaults + 1),
           Indices!Writing'
    PROVE  Indices!IInv'
<1>1. Indices!Typed'
  BY IndicesParts, IndicesTyped
<1>2. Indices!OneBoot'
  BY IndicesParts, IndicesAlone
<1>3. Indices!Closed'
  BY IndicesParts, IndicesClosed
<1>4. Indices!Listing'
  <2>1. sync[p].pc # "drop" /\ y.pc \notin {"add", "drop"}
    OBVIOUS
  <2> QED BY <2>1, IndicesParts, IndicesListing
<1>5. Indices!TypeOK'
  <2>1. y.listed = {}
    BY IndicesParts, IndicesBounds
  <2> QED BY <2>1, IndicesParts, IndicesBounds, IndicesKinds
<1> QED BY <1>1, <1>2, <1>3, <1>4, <1>5 DEF Indices!IInv

\* What the cluster took without being heard is left recorded as it was.
LEMMA IndicesUnheard ==
    ASSUME Indices!SearchIndicesAssumption, Indices!IInv, NEW p \in IndexProcesses,
           NEW c \in {"list", "reopen"}, sync' = [sync EXCEPT ![p].pc = c],
           sync[p].pc \in {"create", "put", "map"}, sync[p].pc = "put" => c = "reopen",
           DOMAIN held' = {"there", "open", "settings", "fields"}, held'.there,
           held'.open \/ (held'.open = held.open /\ held'.there = held.there),
           told' = told, sources' = sources, boots' = boots, leftClosed' = leftClosed,
           overlapped' = overlapped, unlisted' = unlisted, lastListed' = lastListed, partly',
           partly' \in BOOLEAN,
           indexFaults' = indexFaults \/ (indexFaults < MaxRefusals /\ indexFaults' = indexFaults + 1)
    PROVE  Indices!IInv'
<1>1. sync \in [IndexProcesses -> Indices!Syncs] /\ c \in Indices!Steps
  BY IndicesParts DEF Indices!Steps
<1>2. PICK y \in Indices!Syncs :
         /\ sync' = [sync EXCEPT ![p] = y] /\ y.pc = c /\ (y.wrote <=> sync[p].wrote)
         /\ y.found = sync[p].found /\ y.listed = sync[p].listed
  BY <1>1, IndicesGo
<1>3. Indices!Writing'
  BY DEF Indices!Writing
<1>4. told' \in Indices!Rows
  BY IndicesParts, IndicesBounds
<1>5. \/ y.pc \in {"open", "reopen"} \/ held'.open
      \/ /\ sync[p].pc \notin {"put", "open", "reopen"}
         /\ held'.open = held.open /\ held'.there = held.there
  BY <1>2
<1>6. /\ sync[p].pc \in {"create", "put", "open", "map", "record"} /\ y.pc \in {"open", "reopen", "map", "record", "list"}
      /\ y.listed = sync[p].listed
  BY <1>2
<1> QED BY <1>2, <1>3, <1>4, <1>5, <1>6, IndicesWritten

\* An index is created without being heard.
LEMMA IndicesCreateUnheard ==
    ASSUME Indices!SearchIndicesAssumption, Indices!IInv, NEW p \in IndexProcesses, NEW took \in BOOLEAN,
           NEW ok \in BOOLEAN, Indices!Create(p, took, ok), took, ~ok, ~held.there
    PROVE  Indices!IInv'
<1> DEFINE c == "list"
<1>1. /\ sync[p].pc = "create" /\ Indices!May(ok) /\ sync' = [sync EXCEPT ![p].pc = c]
      /\ held' = [there |-> TRUE, open |-> TRUE, settings |-> IndexConfig[p].settings,
                  fields |-> IndexConfig[p].fields]
      /\ partly' = (partly \/ sync[p].wrote \/ TRUE) /\ told' = told /\ sources' = sources /\ boots' = boots
      /\ leftClosed' = leftClosed /\ overlapped' = overlapped /\ unlisted' = unlisted /\ lastListed' = lastListed
  BY DEF Indices!Create, Indices!Refused, Indices!At, Indices!Cluster
<1>2. DOMAIN held' = {"there", "open", "settings", "fields"} /\ held'.there /\ held'.open
  BY <1>1
<1>3. partly' /\ partly' \in BOOLEAN
  BY <1>1
<1>4. c = "list"
  OBVIOUS
<1> HIDE DEF c
<1> QED BY <1>1, <1>2, <1>3, <1>4, IndicesMay, IndicesUnheard

\* The analysis is taken without being heard, and the index is to be opened all the same.
LEMMA IndicesPutUnheard ==
    ASSUME Indices!SearchIndicesAssumption, Indices!IInv, NEW p \in IndexProcesses, NEW took \in BOOLEAN,
           NEW ok \in BOOLEAN, Indices!Put(p, took, ok), took, ~ok, ~held.open
    PROVE  Indices!IInv'
<1> DEFINE c == "reopen"
<1>1. /\ sync[p].pc = "put" /\ Indices!May(ok)
      /\ sync' = [sync EXCEPT ![p].pc = c, ![p].wrote = sync[p].wrote \/ FALSE]
      /\ held' = [held EXCEPT !.settings = IndexConfig[p].settings] /\ partly' = (partly \/ TRUE)
      /\ told' = told /\ sources' = sources /\ boots' = boots
      /\ leftClosed' = leftClosed /\ overlapped' = overlapped /\ unlisted' = unlisted /\ lastListed' = lastListed
  BY DEF Indices!Put, Indices!At, Indices!Cluster
<1>2. sync' = [sync EXCEPT ![p].pc = c]
  BY <1>1, IndicesParts DEF Indices!Syncs
<1>3. c = "reopen"
  OBVIOUS
<1> HIDE DEF c
<1>4. /\ DOMAIN held' = {"there", "open", "settings", "fields"} /\ held'.there
      /\ held'.open = held.open /\ held'.there = held.there
  BY <1>1, IndicesParts DEF Indices!Typed
<1>5. partly' /\ partly' \in BOOLEAN
  BY <1>1
<1> QED BY <1>1, <1>2, <1>3, <1>4, <1>5, IndicesMay, IndicesUnheard

\* The mapping is taken without being heard.
LEMMA IndicesMapUnheard ==
    ASSUME Indices!SearchIndicesAssumption, Indices!IInv, NEW p \in IndexProcesses, NEW took \in BOOLEAN,
           NEW ok \in BOOLEAN, Indices!Map(p, took, ok), took, ~ok,
           \A f \in DOMAIN IndexConfig[p].fields \cap DOMAIN held.fields :
              IndexConfig[p].fields[f] = held.fields[f]
    PROVE  Indices!IInv'
<1> DEFINE c == "list"
           wanted == IndexConfig[p].fields
           all == [f \in DOMAIN wanted \cup DOMAIN held.fields |->
                     IF f \in DOMAIN wanted THEN wanted[f] ELSE held.fields[f]]
<1>1. /\ sync[p].pc = "map" /\ Indices!May(ok) /\ sync' = [sync EXCEPT ![p].pc = c]
      /\ held' = [held EXCEPT !.fields = all]
      /\ partly' = (partly \/ sync[p].wrote \/ TRUE) /\ told' = told /\ sources' = sources /\ boots' = boots
      /\ leftClosed' = leftClosed
      /\ overlapped' = overlapped /\ unlisted' = unlisted /\ lastListed' = lastListed
  BY DEF Indices!Map, Indices!Refused, Indices!At, Indices!Cluster
<1>2. c = "list"
  OBVIOUS
<1> HIDE DEF c, all
<1>3. /\ DOMAIN held' = {"there", "open", "settings", "fields"} /\ held'.there
      /\ held'.open = held.open /\ held'.there = held.there
  <2>1. held.there
    BY <1>1, IndicesParts DEF Indices!Typed
  <2> QED BY <1>1, <2>1, IndicesParts DEF Indices!Typed
<1>4. partly' /\ partly' \in BOOLEAN
  BY <1>1
<1> QED BY <1>1, <1>2, <1>3, <1>4, IndicesMay, IndicesUnheard

\* What a boot beside no other finds told and written.
LEMMA IndicesFound ==
    ASSUME Indices!IInv, NEW p \in IndexProcesses, sync[p].pc # "out", ~partly, ~overlapped
    PROVE  /\ told # Indices!NoRow => held.there /\ Indices!Covers(told)
           /\ sync[p].wrote <=> sync[p].pc \in {"open", "map", "record"}
           /\ sync[p].wrote =>
                 held.settings = IndexConfig[p].settings
                 /\ (sync[p].pc = "record" => Indices!Covers(Indices!DigestOf(p)))
           /\ \A q \in IndexProcesses : q # p => sync[q].pc = "out" /\ ~sync[q].wrote
<1>1. \A q \in IndexProcesses : q # p => sync[q].pc = "out"
  BY IndicesParts DEF Indices!OneBoot, Indices!At
<1>2. \A q \in IndexProcesses : q # p => ~sync[q].wrote
  BY <1>1, IndicesParts DEF Indices!Writing
<1> QED BY <1>1, <1>2, IndicesParts DEF Indices!Writing, Indices!At

\* The row and what a boot wrote make what the row tells true after its step.
LEMMA IndicesTold ==
    ASSUME Indices!IInv, NEW p \in IndexProcesses, NEW y \in Indices!Syncs, sync' = [sync EXCEPT ![p] = y],
           sync[p].pc # "out", overlapped' = overlapped, partly => partly', held'.there,
           ~partly' /\ ~overlapped =>
              /\ told' # Indices!NoRow => Indices!Covers(told)'
              /\ y.wrote <=> y.pc \in {"open", "map", "record"}
              /\ y.wrote => held'.settings = IndexConfig[p].settings
                            /\ (y.pc = "record" => Indices!Covers(Indices!DigestOf(p))')
              /\ ~y.wrote /\ told' # Indices!NoRow => Indices!Digest(held'.settings) = told'.settings
    PROVE  Indices!Writing'
<1> SUFFICES ASSUME ~partly', ~overlapped' PROVE Indices!Writing'
  BY DEF Indices!Writing
<1>0. sync \in [IndexProcesses -> Indices!Syncs]
  BY IndicesParts
<1>1. sync'[p] = y /\ \A q \in IndexProcesses : q # p => sync'[q] = sync[q]
  BY <1>0, IndicesOthers
<1>2. \A q \in IndexProcesses : q # p => sync'[q].pc = "out" /\ ~sync'[q].wrote
  BY <1>1, IndicesFound
<1>3. \A q \in IndexProcesses : sync'[q].wrote <=> sync'[q].pc \in {"open", "map", "record"}
  BY <1>1, <1>2
<1>4. \A q \in IndexProcesses : sync'[q].wrote =>
         held'.settings = IndexConfig[q].settings
         /\ (sync'[q].pc = "record" => Indices!Covers(Indices!DigestOf(q))')
  BY <1>1, <1>2
<1>5. (\A q \in IndexProcesses : ~sync'[q].wrote) /\ told' # Indices!NoRow =>
         Indices!Digest(held'.settings) = told'.settings
  BY <1>1
<1>6. told' # Indices!NoRow => held'.there /\ Indices!Covers(told)'
  OBVIOUS
<1> QED BY <1>3, <1>4, <1>5, <1>6 DEF Indices!Writing, Indices!At

\* The index is created as it is declared.
LEMMA IndicesCreated ==
    ASSUME Indices!SearchIndicesAssumption, Indices!IInv, NEW p \in IndexProcesses, NEW took \in BOOLEAN,
           NEW ok \in BOOLEAN, Indices!Create(p, took, ok), ok, ~held.there
    PROVE  Indices!IInv'
<1>0. sync \in [IndexProcesses -> Indices!Syncs]
  BY IndicesParts
<1> DEFINE c == "record"
           w == TRUE
<1>1. /\ sync[p].pc = "create" /\ Indices!May(ok) /\ sync' = [sync EXCEPT ![p].pc = c, ![p].wrote = w]
      /\ held' = [there |-> TRUE, open |-> TRUE, settings |-> IndexConfig[p].settings,
                  fields |-> IndexConfig[p].fields]
      /\ partly' = partly /\ told' = told /\ sources' = sources /\ boots' = boots
      /\ leftClosed' = leftClosed /\ overlapped' = overlapped /\ unlisted' = unlisted /\ lastListed' = lastListed
  BY DEF Indices!Create, Indices!At, Indices!Cluster
<1>2. c \in Indices!Steps /\ c = "record" /\ w \in BOOLEAN /\ w
  BY DEF Indices!Steps
<1> HIDE DEF c, w
<1>3. PICK y \in Indices!Syncs :
         /\ sync' = [sync EXCEPT ![p] = y] /\ y.pc = c /\ (y.wrote <=> w)
         /\ y.found = sync[p].found /\ y.listed = sync[p].listed
  <2>1. sync' = [sync EXCEPT ![p].pc = c, ![p].wrote = w]
    BY <1>1
  <2> QED BY <1>0, <1>2, <2>1, IndicesWrites
<1>4. Indices!Covers(Indices!DigestOf(p))'
  BY <1>1 DEF Indices!Covers, Indices!DigestOf
<1>5. ~partly /\ ~overlapped => told = Indices!NoRow
  BY <1>1, IndicesFound
<1>6. held'.there /\ held'.open /\ held'.settings = IndexConfig[p].settings
      /\ DOMAIN held' = {"there", "open", "settings", "fields"}
  BY <1>1
<1>7. sync[p].pc # "out" /\ y.wrote /\ y.pc = "record"
  BY <1>1, <1>2, <1>3
<1>8. Indices!Writing'
  BY <1>1, <1>3, <1>4, <1>5, <1>6, <1>7, IndicesTold
<1>9. partly' \in BOOLEAN /\ told' \in Indices!Rows
  BY <1>1, IndicesParts, IndicesBounds
<1>10. indexFaults' = indexFaults \/ (indexFaults < MaxRefusals /\ indexFaults' = indexFaults + 1)
  BY <1>1, IndicesMay
<1>11. sync[p].pc \in {"create", "put", "open", "map", "record"} /\ y.pc \in {"open", "map", "record", "list"}
  BY <1>1, <1>2, <1>3
<1>12. /\ sources' = sources /\ boots' = boots /\ leftClosed' = leftClosed
       /\ overlapped' = overlapped /\ unlisted' = unlisted /\ lastListed' = lastListed
  BY <1>1
<1> QED BY <1>10, <1>11, <1>12, <1>3, <1>6, <1>7, <1>8, <1>9, IndicesWritten

\* The closed index takes the analysis.
LEMMA IndicesPutTaken ==
    ASSUME Indices!SearchIndicesAssumption, Indices!IInv, NEW p \in IndexProcesses, NEW took \in BOOLEAN,
           NEW ok \in BOOLEAN, Indices!Put(p, took, ok), ok, ~held.open
    PROVE  Indices!IInv'
<1>0. sync \in [IndexProcesses -> Indices!Syncs]
  BY IndicesParts
<1> DEFINE c == "open"
           w == sync[p].wrote \/ TRUE
<1>1. /\ sync[p].pc = "put" /\ Indices!May(ok) /\ sync' = [sync EXCEPT ![p].pc = c, ![p].wrote = w]
      /\ held' = [held EXCEPT !.settings = IndexConfig[p].settings]
      /\ partly' = (partly \/ FALSE) /\ told' = told /\ sources' = sources /\ boots' = boots
      /\ leftClosed' = leftClosed /\ overlapped' = overlapped /\ unlisted' = unlisted /\ lastListed' = lastListed
  BY DEF Indices!Put, Indices!At, Indices!Cluster
<1>2. c \in Indices!Steps /\ c = "open" /\ w \in BOOLEAN /\ w
  BY DEF Indices!Steps
<1> HIDE DEF c, w
<1>3. PICK y \in Indices!Syncs :
         /\ sync' = [sync EXCEPT ![p] = y] /\ y.pc = c /\ (y.wrote <=> w)
         /\ y.found = sync[p].found /\ y.listed = sync[p].listed
  <2>1. sync' = [sync EXCEPT ![p].pc = c, ![p].wrote = w]
    BY <1>1
  <2> QED BY <1>0, <1>2, <2>1, IndicesWrites
<1>4. /\ DOMAIN held' = {"there", "open", "settings", "fields"} /\ held'.there
      /\ held'.settings = IndexConfig[p].settings /\ held'.fields = held.fields
  BY <1>1, IndicesParts DEF Indices!Typed
<1>5. Indices!Covers(told) => Indices!Covers(told)'
  BY <1>1, <1>4 DEF Indices!Covers
<1>6. ~partly /\ ~overlapped /\ told # Indices!NoRow => Indices!Covers(told)
  BY <1>1, IndicesFound
<1>7. sync[p].pc # "out" /\ y.wrote /\ y.pc = "open"
  BY <1>1, <1>2, <1>3
<1>8. Indices!Writing'
  BY <1>1, <1>3, <1>4, <1>5, <1>6, <1>7, IndicesTold
<1>9. partly' \in BOOLEAN /\ told' \in Indices!Rows
  BY <1>1, IndicesParts, IndicesBounds
<1>10. indexFaults' = indexFaults \/ (indexFaults < MaxRefusals /\ indexFaults' = indexFaults + 1)
  BY <1>1, IndicesMay
<1>11. sync[p].pc \in {"create", "put", "open", "map", "record"} /\ y.pc \in {"open", "map", "record", "list"}
  BY <1>1, <1>2, <1>3
<1>12. /\ sources' = sources /\ boots' = boots /\ leftClosed' = leftClosed
       /\ overlapped' = overlapped /\ unlisted' = unlisted /\ lastListed' = lastListed
  BY <1>1
<1> QED BY <1>10, <1>11, <1>12, <1>3, <1>4, <1>7, <1>8, <1>9, IndicesWritten

\* It is opened, with the analysis it took.
LEMMA IndicesOpened ==
    ASSUME Indices!SearchIndicesAssumption, Indices!IInv, NEW p \in IndexProcesses, NEW took \in BOOLEAN,
           NEW ok \in BOOLEAN, Indices!Open(p, took, ok), ok, sync[p].pc = "open"
    PROVE  Indices!IInv'
<1>0. sync \in [IndexProcesses -> Indices!Syncs]
  BY IndicesParts
<1> DEFINE c == "map"
<1>1. /\ Indices!May(ok) /\ sync' = [sync EXCEPT ![p].pc = c]
      /\ held' = [held EXCEPT !.open = held.open \/ TRUE]
      /\ partly' = partly /\ told' = told /\ sources' = sources /\ boots' = boots /\ leftClosed' = (leftClosed \/ FALSE)
      /\ overlapped' = overlapped /\ unlisted' = unlisted /\ lastListed' = lastListed
  BY DEF Indices!Open, Indices!Go, Indices!At, Indices!Cluster
<1>2. c \in Indices!Steps /\ c = "map"
  BY DEF Indices!Steps
<1> HIDE DEF c
<1>3. PICK y \in Indices!Syncs :
         /\ sync' = [sync EXCEPT ![p] = y] /\ y.pc = c /\ (y.wrote <=> sync[p].wrote)
         /\ y.found = sync[p].found /\ y.listed = sync[p].listed
  BY <1>0, <1>1, <1>2, IndicesGo
<1>4. /\ DOMAIN held' = {"there", "open", "settings", "fields"} /\ held'.there /\ held'.open
      /\ held'.settings = held.settings /\ held'.fields = held.fields
  BY <1>1, IndicesParts DEF Indices!Typed
<1>5. Indices!Covers(told) => Indices!Covers(told)'
  BY <1>1, <1>4 DEF Indices!Covers
<1>6. ~partly /\ ~overlapped =>
         /\ told # Indices!NoRow => Indices!Covers(told)
         /\ sync[p].wrote /\ held.settings = IndexConfig[p].settings
  BY IndicesFound
<1>7. sync[p].pc # "out" /\ y.pc = "map"
  BY <1>1, <1>2, <1>3
<1>8. Indices!Writing'
  BY <1>1, <1>3, <1>4, <1>5, <1>6, <1>7, IndicesTold
<1>9. partly' \in BOOLEAN /\ told' \in Indices!Rows /\ leftClosed' = leftClosed
  BY <1>1, IndicesParts, IndicesBounds
<1>10. indexFaults' = indexFaults \/ (indexFaults < MaxRefusals /\ indexFaults' = indexFaults + 1)
  BY <1>1, IndicesMay
<1>11. sync[p].pc \in {"create", "put", "open", "map", "record"} /\ y.pc \in {"open", "map", "record", "list"}
  BY <1>1, <1>2, <1>3
<1> QED BY <1>10, <1>11, <1>1, <1>3, <1>4, <1>7, <1>8, <1>9, IndicesWritten

\* It takes the fields, none of which it retypes.
LEMMA IndicesMapped ==
    ASSUME Indices!SearchIndicesAssumption, Indices!IInv, NEW p \in IndexProcesses, NEW took \in BOOLEAN,
           NEW ok \in BOOLEAN, Indices!Map(p, took, ok), ok,
           \A f \in DOMAIN IndexConfig[p].fields \cap DOMAIN held.fields :
              IndexConfig[p].fields[f] = held.fields[f]
    PROVE  Indices!IInv'
<1>0. sync \in [IndexProcesses -> Indices!Syncs]
  BY IndicesParts
<1> DEFINE c == "record"
           wanted == IndexConfig[p].fields
           all == [f \in DOMAIN wanted \cup DOMAIN held.fields |->
                     IF f \in DOMAIN wanted THEN wanted[f] ELSE held.fields[f]]
<1>1. /\ sync[p].pc = "map" /\ Indices!May(ok) /\ sync' = [sync EXCEPT ![p].pc = c]
      /\ held' = [held EXCEPT !.fields = all]
      /\ partly' = partly /\ told' = told /\ sources' = sources /\ boots' = boots /\ leftClosed' = leftClosed
      /\ overlapped' = overlapped /\ unlisted' = unlisted /\ lastListed' = lastListed
  BY DEF Indices!Map, Indices!Go, Indices!At, Indices!Cluster
<1>2. c \in Indices!Steps /\ c = "record"
  BY DEF Indices!Steps
<1> HIDE DEF c
<1>3. PICK y \in Indices!Syncs :
         /\ sync' = [sync EXCEPT ![p] = y] /\ y.pc = c /\ (y.wrote <=> sync[p].wrote)
         /\ y.found = sync[p].found /\ y.listed = sync[p].listed
  BY <1>0, <1>1, <1>2, IndicesGo
<1>4. /\ DOMAIN held' = {"there", "open", "settings", "fields"} /\ held'.there /\ held'.open = held.open
      /\ held'.there = held.there /\ held'.settings = held.settings /\ held'.fields = all
  <2>1. held.there
    BY <1>1, IndicesParts DEF Indices!Typed
  <2> QED BY <1>1, <2>1, IndicesParts DEF Indices!Typed
<1>5. \A f \in DOMAIN held.fields : f \in DOMAIN all /\ all[f] = held.fields[f]
  OBVIOUS
<1>6. \A f \in DOMAIN wanted : f \in DOMAIN all /\ all[f] = wanted[f]
  OBVIOUS
<1> HIDE DEF all
<1>7. Indices!Covers(told) => Indices!Covers(told)'
  BY <1>1, <1>4, <1>5 DEF Indices!Covers
<1>8. Indices!Covers(Indices!DigestOf(p))'
  BY <1>4, <1>6 DEF Indices!Covers, Indices!DigestOf
<1>9. ~partly /\ ~overlapped =>
         /\ told # Indices!NoRow => Indices!Covers(told)
         /\ sync[p].wrote /\ held.settings = IndexConfig[p].settings
  BY <1>1, IndicesFound
<1>10. sync[p].pc # "out" /\ y.pc = "record"
  BY <1>1, <1>2, <1>3
<1>11. Indices!Writing'
  BY <1>1, <1>3, <1>4, <1>7, <1>8, <1>9, <1>10, IndicesTold
<1>12. partly' \in BOOLEAN /\ told' \in Indices!Rows
  BY <1>1, IndicesParts, IndicesBounds
<1>13. indexFaults' = indexFaults \/ (indexFaults < MaxRefusals /\ indexFaults' = indexFaults + 1)
  BY <1>1, IndicesMay
<1>14. sync[p].pc \in {"create", "put", "open", "map", "record"} /\ y.pc \in {"open", "map", "record", "list"}
  BY <1>1, <1>2, <1>3
<1> QED BY <1>13, <1>14, <1>1, <1>3, <1>4, <1>10, <1>11, <1>12, IndicesWritten

\* The row tells what was written, or the write is lost.
LEMMA IndicesRecord ==
    ASSUME Indices!SearchIndicesAssumption, Indices!IInv, NEW p \in IndexProcesses, NEW ok \in BOOLEAN,
           Indices!Record(p, ok)
    PROVE  Indices!IInv'
<1>0. sync \in [IndexProcesses -> Indices!Syncs]
  BY IndicesParts
<1> DEFINE c == "list"
           w == FALSE
           lands == ok /\ (sync[p].found = Indices!NoRow => told = Indices!NoRow)
<1>1. /\ sync[p].pc = "record" /\ Indices!May(ok) /\ sync' = [sync EXCEPT ![p].pc = c, ![p].wrote = w]
      /\ told' = IF lands THEN Indices!DigestOf(p) ELSE told
      /\ partly' = (partly \/ ~lands)
      /\ held' = held /\ sources' = sources /\ boots' = boots /\ leftClosed' = leftClosed
      /\ overlapped' = overlapped /\ unlisted' = unlisted /\ lastListed' = lastListed
  BY DEF Indices!Record, Indices!At
<1>2. c \in Indices!Steps /\ c = "list" /\ w \in BOOLEAN /\ ~w
  BY DEF Indices!Steps
<1> HIDE DEF c, w, lands
<1>3. PICK y \in Indices!Syncs :
         /\ sync' = [sync EXCEPT ![p] = y] /\ y.pc = c /\ (y.wrote <=> w)
         /\ y.found = sync[p].found /\ y.listed = sync[p].listed
  BY <1>0, <1>1, <1>2, IndicesWrites
<1>4. held.there /\ DOMAIN held = {"there", "open", "settings", "fields"}
  BY <1>1, IndicesParts DEF Indices!Typed
<1>5. held'.there /\ held'.open = held.open /\ held'.there = held.there
      /\ DOMAIN held' = {"there", "open", "settings", "fields"} /\ held'.settings = held.settings
      /\ held'.fields = held.fields
  BY <1>1, <1>4
<1>6. sync[p].pc # "out" /\ ~y.wrote /\ y.pc = "list"
  BY <1>1, <1>2, <1>3
<1>7. ~partly' /\ ~overlapped => Indices!Covers(told)' /\ Indices!Digest(held'.settings) = told'.settings
  <2> SUFFICES ASSUME ~partly', ~overlapped
               PROVE  Indices!Covers(told)' /\ Indices!Digest(held'.settings) = told'.settings
    OBVIOUS
  <2>1. lands /\ ~partly
    BY <1>1
  <2>2. Indices!Covers(Indices!DigestOf(p)) /\ held.settings = IndexConfig[p].settings
    BY <1>1, <2>1, IndicesFound
  <2>3. told' = Indices!DigestOf(p)
    BY <1>1, <2>1
  <2> QED BY <1>5, <2>2, <2>3 DEF Indices!Covers, Indices!DigestOf
<1>8. Indices!Writing'
  BY <1>1, <1>3, <1>5, <1>6, <1>7, IndicesTold
<1>9. partly' \in BOOLEAN /\ told' \in Indices!Rows
  <2>1. Indices!DigestOf(p) \in Indices!Rows
    BY DEF Indices!Rows
  <2> QED BY <1>1, <2>1, IndicesParts, IndicesBounds
<1>10. indexFaults' = indexFaults \/ (indexFaults < MaxRefusals /\ indexFaults' = indexFaults + 1)
  BY <1>1, IndicesMay
<1>11. sync[p].pc \in {"create", "put", "open", "map", "record"} /\ y.pc \in {"open", "map", "record", "list"}
  BY <1>1, <1>2, <1>3
<1> QED BY <1>10, <1>11, <1>1, <1>3, <1>5, <1>6, <1>8, <1>9, IndicesWritten

\* What is listed is what the process adds to.
LEMMA IndicesListSources ==
    ASSUME Indices!SearchIndicesAssumption, Indices!IInv, NEW p \in IndexProcesses, NEW ok \in BOOLEAN,
           Indices!ListSources(p, ok)
    PROVE  Indices!IInv'
<1>0. sync \in [IndexProcesses -> Indices!Syncs]
  BY IndicesParts
<1> DEFINE y == IF ok THEN [Indices!Idle EXCEPT !.pc = "add", !.listed = sources] ELSE Indices!Idle
<1>1. /\ sync[p].pc = "list" /\ Indices!May(ok) /\ sync' = [sync EXCEPT ![p] = y]
      /\ unlisted' = (unlisted \/ ~ok)
      /\ held' = held /\ told' = told /\ sources' = sources /\ boots' = boots /\ partly' = partly
      /\ leftClosed' = leftClosed /\ overlapped' = overlapped /\ lastListed' = lastListed
  BY DEF Indices!ListSources, Indices!At, Indices!Table
<1>2. /\ y \in Indices!Syncs /\ y.pc = (IF ok THEN "add" ELSE "out") /\ ~y.wrote
      /\ y.listed = IF ok THEN sources ELSE {}
  <2>1. sources \subseteq Indices!Tables /\ Indices!NoRow \in Indices!Rows
    BY IndicesParts, IndicesBounds DEF Indices!Rows
  <2> QED BY <2>1 DEF Indices!Idle, Indices!Syncs, Indices!Steps
<1> HIDE DEF y
<1>3. Indices!Typed'
  BY <1>1, <1>2, IndicesParts, IndicesTyped DEF Indices!Typed
<1>4. Indices!OneBoot'
  BY <1>0, <1>1, <1>2, IndicesParts, IndicesAlone
<1>5. Indices!Closed'
  BY <1>0, <1>1, <1>2, IndicesParts, IndicesClosed
<1>6. Indices!Listing'
  <2> SUFFICES ASSUME ~overlapped, ~unlisted' PROVE Indices!Listing'
    BY <1>1 DEF Indices!Listing
  <2>1. ok /\ ~unlisted /\ y.pc = "add" /\ y.listed = sources
    BY <1>1, <1>2
  <2>2. sync'[p] = y /\ \A q \in IndexProcesses : q # p => sync'[q] = sync[q]
    BY <1>0, <1>1, <1>2, IndicesOthers
  <2>3. /\ \A q \in IndexProcesses : sync[q].pc = "add" => sync[q].listed = sources
        /\ \A q \in IndexProcesses : sync[q].pc = "drop" =>
              /\ sources = IndexConfig[q].sources \cup sync[q].listed
              /\ sync[q].listed \cap IndexConfig[q].sources = {}
        /\ (lastListed # "none" /\ \A q \in IndexProcesses : sync[q].pc # "drop") =>
              sources = IndexConfig[lastListed].sources
    BY <2>1, IndicesParts DEF Indices!Listing, Indices!At
  <2>4. \A q \in IndexProcesses : sync'[q].pc = "add" => sync'[q].listed = sources
    BY <2>1, <2>2, <2>3
  <2>5. \A q \in IndexProcesses : sync'[q].pc = "drop" => q # p /\ sync'[q] = sync[q]
    BY <2>1, <2>2
  <2>6. (\A q \in IndexProcesses : sync'[q].pc # "drop") => \A q \in IndexProcesses : sync[q].pc # "drop"
    BY <1>1, <2>2
  <2> QED BY <1>1, <2>3, <2>4, <2>5, <2>6 DEF Indices!Listing, Indices!At
<1>7. Indices!Writing'
  BY <1>0, <1>1, <1>2, IndicesParts, IndicesQuiet
<1>8. Indices!TypeOK'
  <2>1. unlisted' \in BOOLEAN
    BY <1>1, IndicesParts
  <2>2. y.listed = {} \/ y.pc \in {"add", "drop"}
    BY <1>2
  <2> QED BY <1>0, <1>1, <1>2, <2>1, <2>2, IndicesParts, IndicesBounds, IndicesMay, IndicesKinds
<1> QED BY <1>3, <1>4, <1>5, <1>6, <1>7, <1>8 DEF Indices!IInv

\* A step that lists, adds, drops or ends, when what is listed has been looked at.
LEMMA IndicesLists ==
    ASSUME Indices!SearchIndicesAssumption, Indices!IInv, NEW p \in IndexProcesses,
           NEW y \in Indices!Syncs, sync' = [sync EXCEPT ![p] = y],
           sync[p].pc \in {"add", "drop"}, y.pc \in {"drop", "out"}, (y.wrote <=> sync[p].wrote) \/ ~y.wrote,
           y.listed = {} \/ y.pc = "drop", sources' \subseteq Indices!Tables,
           held' = held, told' = told, boots' = boots, partly' = partly, leftClosed' = leftClosed,
           overlapped' = overlapped, unlisted => unlisted', unlisted' \in BOOLEAN,
           lastListed' \in IndexProcesses \cup {"none"},
           indexFaults' = indexFaults \/ (indexFaults < MaxRefusals /\ indexFaults' = indexFaults + 1),
           Indices!Listing'
    PROVE  Indices!IInv'
<1>0. sync \in [IndexProcesses -> Indices!Syncs]
  BY IndicesParts
<1>1. Indices!Typed'
  BY IndicesParts, IndicesTyped DEF Indices!Typed
<1>2. Indices!OneBoot'
  BY <1>0, IndicesParts, IndicesAlone
<1>3. Indices!Closed'
  BY <1>0, IndicesParts, IndicesClosed
<1>4. Indices!Writing'
  BY <1>0, IndicesParts, IndicesQuiet
<1>5. Indices!TypeOK'
  BY <1>0, IndicesParts, IndicesBounds, IndicesKinds
<1> QED BY <1>1, <1>2, <1>3, <1>4, <1>5 DEF Indices!IInv

\* What is declared and was not listed is added, whole or not at all.
LEMMA IndicesAdds ==
    ASSUME Indices!SearchIndicesAssumption, Indices!IInv, NEW p \in IndexProcesses, NEW ok \in BOOLEAN,
           Indices!AddSources(p, ok)
    PROVE  Indices!IInv'
<1>0. sync \in [IndexProcesses -> Indices!Syncs]
  BY IndicesParts
<1> DEFINE mine == IndexConfig[p].sources
           added == mine \ sync[p].listed
           lands == ok /\ added \cap sources = {}
           y == [sync[p] EXCEPT !.pc = "drop", !.listed = sync[p].listed \ mine]
<1>1. /\ sync[p].pc = "add" /\ Indices!May(ok)
      /\ sync' = [sync EXCEPT ![p].pc = "drop", ![p].listed = sync[p].listed \ mine]
      /\ sources' = IF lands THEN sources \cup added ELSE sources
      /\ unlisted' = (unlisted \/ ~lands)
      /\ held' = held /\ told' = told /\ boots' = boots /\ partly' = partly
      /\ leftClosed' = leftClosed /\ overlapped' = overlapped /\ lastListed' = lastListed
  BY DEF Indices!AddSources, Indices!At, Indices!Table
<1>2. /\ y \in Indices!Syncs /\ y.pc = "drop" /\ y.listed = sync[p].listed \ mine
      /\ sync' = [sync EXCEPT ![p] = y]
  BY <1>0, <1>1 DEF Indices!Syncs, Indices!Steps
<1>3. y.wrote <=> sync[p].wrote
  BY <1>0 DEF Indices!Syncs
<1>4. mine \subseteq Indices!Tables
  BY DEF Indices!Tables
<1> HIDE DEF y
<1>5. Indices!Listing'
  <2> SUFFICES ASSUME ~overlapped, ~unlisted' PROVE Indices!Listing'
    BY <1>1 DEF Indices!Listing
  <2>1. lands /\ ~unlisted
    BY <1>1
  <2>2. sync'[p] = y /\ \A q \in IndexProcesses : q # p => sync'[q] = sync[q]
    BY <1>0, <1>2, IndicesOthers
  <2>3. \A q \in IndexProcesses : q # p => sync'[q].pc = "out"
    BY <1>1, <2>2, IndicesParts DEF Indices!OneBoot, Indices!At
  <2>4. sync[p].listed = sources
    BY <1>1, <2>1, IndicesParts DEF Indices!Listing, Indices!At
  <2>5. sources' = sources \cup mine
    BY <1>1, <2>1, <2>4
  <2>6. sources' = mine \cup y.listed /\ y.listed \cap mine = {}
    BY <1>2, <2>4, <2>5
  <2> QED BY <1>1, <1>2, <2>2, <2>3, <2>6 DEF Indices!Listing, Indices!At
<1>6. sources' \subseteq Indices!Tables /\ unlisted' \in BOOLEAN
  BY <1>1, <1>4, IndicesParts, IndicesBounds
<1>7. indexFaults' = indexFaults \/ (indexFaults < MaxRefusals /\ indexFaults' = indexFaults + 1)
  BY <1>1, IndicesMay
<1>8. lastListed' \in IndexProcesses \cup {"none"} /\ (unlisted => unlisted')
  BY <1>1, IndicesParts, IndicesBounds
<1> QED BY <1>1, <1>2, <1>3, <1>5, <1>6, <1>7, <1>8, IndicesLists

\* One that is no longer declared is dropped.
LEMMA IndicesDrops ==
    ASSUME Indices!SearchIndicesAssumption, Indices!IInv, NEW p \in IndexProcesses, NEW s,
           NEW ok \in BOOLEAN, Indices!DropSource(p, s, ok)
    PROVE  Indices!IInv'
<1>0. sync \in [IndexProcesses -> Indices!Syncs]
  BY IndicesParts
<1> DEFINE mine == IndexConfig[p].sources
           y == [sync[p] EXCEPT !.listed = sync[p].listed \ {s}]
<1>1. /\ sync[p].pc = "drop" /\ s \in sync[p].listed /\ Indices!May(ok)
      /\ sync' = [sync EXCEPT ![p].listed = sync[p].listed \ {s}]
      /\ sources' = IF ok THEN sources \ {s} ELSE sources
      /\ unlisted' = (unlisted \/ ~ok)
      /\ held' = held /\ told' = told /\ boots' = boots /\ partly' = partly
      /\ leftClosed' = leftClosed /\ overlapped' = overlapped /\ lastListed' = lastListed
  BY DEF Indices!DropSource, Indices!At, Indices!Table
<1>2. /\ y \in Indices!Syncs /\ y.pc = "drop" /\ y.listed = sync[p].listed \ {s}
      /\ sync' = [sync EXCEPT ![p] = y]
  BY <1>0, <1>1 DEF Indices!Syncs
<1>3. y.wrote <=> sync[p].wrote
  BY <1>0 DEF Indices!Syncs
<1> HIDE DEF y
<1>5. Indices!Listing'
  <2> SUFFICES ASSUME ~overlapped, ~unlisted' PROVE Indices!Listing'
    BY <1>1 DEF Indices!Listing
  <2>1. ok /\ ~unlisted
    BY <1>1
  <2>2. sync'[p] = y /\ \A q \in IndexProcesses : q # p => sync'[q] = sync[q]
    BY <1>0, <1>2, IndicesOthers
  <2>3. \A q \in IndexProcesses : q # p => sync'[q].pc = "out"
    BY <1>1, <2>2, IndicesParts DEF Indices!OneBoot, Indices!At
  <2>4. sources = mine \cup sync[p].listed /\ sync[p].listed \cap mine = {}
    BY <1>1, <2>1, IndicesParts DEF Indices!Listing, Indices!At
  <2>5. sources' = sources \ {s}
    BY <1>1, <2>1
  <2>6. sources' = mine \cup y.listed /\ y.listed \cap mine = {}
    BY <1>1, <1>2, <2>4, <2>5
  <2> QED BY <1>1, <1>2, <2>2, <2>3, <2>6 DEF Indices!Listing, Indices!At
<1>6. sources' \subseteq Indices!Tables /\ unlisted' \in BOOLEAN
  BY <1>1, IndicesParts, IndicesBounds
<1>7. indexFaults' = indexFaults \/ (indexFaults < MaxRefusals /\ indexFaults' = indexFaults + 1)
  BY <1>1, IndicesMay
<1>8. lastListed' \in IndexProcesses \cup {"none"} /\ (unlisted => unlisted')
  BY <1>1, IndicesParts, IndicesBounds
<1> QED BY <1>1, <1>2, <1>3, <1>5, <1>6, <1>7, <1>8, IndicesLists

\* With none left to drop, what is listed is what is declared, and the boot ends.
LEMMA IndicesEnds ==
    ASSUME Indices!SearchIndicesAssumption, Indices!IInv, NEW p \in IndexProcesses, Indices!Listed(p)
    PROVE  Indices!IInv'
<1>0. sync \in [IndexProcesses -> Indices!Syncs]
  BY IndicesParts
<1> DEFINE y == Indices!Idle
<1>1. /\ sync[p].pc = "drop" /\ sync[p].listed = {} /\ sync' = [sync EXCEPT ![p] = y] /\ lastListed' = p
      /\ held' = held /\ told' = told /\ boots' = boots /\ partly' = partly /\ sources' = sources
      /\ leftClosed' = leftClosed /\ overlapped' = overlapped /\ unlisted' = unlisted
      /\ indexFaults' = indexFaults
  BY DEF Indices!Listed, Indices!At, Indices!Table
<1>2. y \in Indices!Syncs /\ y.pc = "out" /\ y.listed = {} /\ ~y.wrote
  BY DEF Indices!Idle, Indices!Syncs, Indices!Steps, Indices!Rows
<1> HIDE DEF y
<1>3. Indices!Listing'
  <2> SUFFICES ASSUME ~overlapped, ~unlisted PROVE Indices!Listing'
    BY <1>1 DEF Indices!Listing
  <2>1. sync'[p] = y /\ \A q \in IndexProcesses : q # p => sync'[q] = sync[q]
    BY <1>0, <1>1, <1>2, IndicesOthers
  <2>2. \A q \in IndexProcesses : sync'[q].pc = "out"
    BY <1>1, <1>2, <2>1, IndicesParts DEF Indices!OneBoot, Indices!At
  <2>3. sources = IndexConfig[p].sources
    BY <1>1, IndicesParts DEF Indices!Listing, Indices!At
  <2> QED BY <1>1, <2>2, <2>3 DEF Indices!Listing, Indices!At
<1>4. sources' \subseteq Indices!Tables /\ unlisted' \in BOOLEAN
  BY <1>1, IndicesParts, IndicesBounds
<1> QED BY <1>1, <1>2, <1>3, <1>4, IndicesLists

\* A process dies: what it wrote, closed or was to list is left so.
LEMMA IndicesDies ==
    ASSUME Indices!SearchIndicesAssumption, Indices!IInv, NEW p \in IndexProcesses, Indices!Die(p)
    PROVE  Indices!IInv'
<1>0. sync \in [IndexProcesses -> Indices!Syncs]
  BY IndicesParts
<1> DEFINE y == Indices!Idle
<1>1. /\ sync[p].pc # "out" /\ Indices!May(FALSE) /\ sync' = [sync EXCEPT ![p] = y]
      /\ partly' = (partly \/ sync[p].wrote \/ sync[p].pc = "record")
      /\ leftClosed' = (leftClosed \/ sync[p].pc \in {"put", "open", "reopen"}) /\ unlisted' = TRUE
      /\ held' = held /\ told' = told /\ boots' = boots /\ sources' = sources
      /\ overlapped' = overlapped /\ lastListed' = lastListed
  BY DEF Indices!Die, Indices!At
<1>2. y \in Indices!Syncs /\ y.pc = "out" /\ y.listed = {} /\ ~y.wrote
  BY DEF Indices!Idle, Indices!Syncs, Indices!Steps, Indices!Rows
<1> HIDE DEF y
<1>3. Indices!Typed'
  BY <1>1, <1>2, IndicesParts, IndicesTyped DEF Indices!Typed
<1>4. Indices!OneBoot'
  BY <1>0, <1>1, <1>2, IndicesParts, IndicesAlone
<1>5. Indices!Closed'
  BY <1>0, <1>1, <1>2, IndicesParts, IndicesClosed
<1>6. Indices!Listing'
  BY <1>0, <1>1, <1>2, IndicesParts, IndicesListing
<1>7. Indices!Writing'
  <2>1. CASE overlapped
    BY <1>1, <2>1 DEF Indices!Writing
  <2>2. CASE ~overlapped /\ partly'
    BY <2>2 DEF Indices!Writing
  <2>3. CASE ~overlapped /\ ~partly'
    <3>1. ~sync[p].wrote /\ ~partly /\ sync[p].pc # "record"
      BY <1>1, <2>3
    <3>2. sync[p].pc \notin {"open", "map", "record"}
      BY <3>1, <2>3, IndicesParts DEF Indices!Writing
    <3>3. partly => partly'
      BY <3>1
    <3> QED BY <1>0, <1>1, <1>2, <3>2, <3>3, IndicesParts, IndicesQuiet
  <2> QED BY <2>1, <2>2, <2>3
<1>8. Indices!TypeOK'
  <2>1. partly' \in BOOLEAN /\ leftClosed' \in BOOLEAN
    BY <1>1, IndicesParts
  <2>2. indexFaults' = indexFaults \/ (indexFaults < MaxRefusals /\ indexFaults' = indexFaults + 1)
    BY <1>1 DEF Indices!May
  <2> QED BY <1>0, <1>1, <1>2, <2>1, <2>2, IndicesParts, IndicesBounds, IndicesKinds
<1> QED BY <1>3, <1>4, <1>5, <1>6, <1>7, <1>8 DEF Indices!IInv

\* Nothing is held, told or listed to begin with.
LEMMA IndicesStarts == Indices!SearchIndicesAssumption /\ Indices!Init => Indices!IInv
<1> SUFFICES ASSUME Indices!SearchIndicesAssumption, Indices!Init PROVE Indices!IInv
  OBVIOUS
<1>1. /\ Indices!Idle \in Indices!Syncs /\ Indices!Idle.pc = "out" /\ Indices!Idle.listed = {}
      /\ ~Indices!Idle.wrote
  BY DEF Indices!Idle, Indices!Syncs, Indices!Steps, Indices!Rows
<1>2. /\ sync \in [IndexProcesses -> Indices!Syncs]
      /\ \A p \in IndexProcesses : sync[p].pc = "out" /\ sync[p].listed = {} /\ ~sync[p].wrote
  BY <1>1 DEF Indices!Init
<1>3. ~held.there /\ ~held.open /\ DOMAIN held = {"there", "open", "settings", "fields"}
  BY DEF Indices!Init, Indices!NoIndex
<1>4. Indices!TypeOK
  <2>1. 0 \in 0..IndexBoots /\ 0 \in 0..MaxRefusals
    BY DEF Indices!SearchIndicesAssumption
  <2> QED BY <1>2, <1>3, <2>1 DEF Indices!TypeOK, Indices!Init
<1>5. Indices!Typed /\ Indices!OneBoot /\ Indices!Closed
  BY <1>2, <1>3 DEF Indices!Typed, Indices!OneBoot, Indices!Closed, Indices!At
<1>6. Indices!Writing
  BY <1>2 DEF Indices!Writing, Indices!Init, Indices!At
<1>7. Indices!Listing
  BY <1>2 DEF Indices!Listing, Indices!Init, Indices!At
<1> QED BY <1>4, <1>5, <1>6, <1>7 DEF Indices!IInv

\* Every step of a boot keeps the invariant.
LEMMA IndicesSteps ==
    Indices!SearchIndicesAssumption /\ Indices!IInv /\ [Indices!Next]_(Indices!indexVars) => Indices!IInv'
<1> SUFFICES ASSUME Indices!SearchIndicesAssumption, Indices!IInv, [Indices!Next]_(Indices!indexVars)
             PROVE  Indices!IInv'
  OBVIOUS
<1>1. CASE UNCHANGED Indices!indexVars
  BY <1>1 DEF Indices!indexVars, Indices!IInv, Indices!TypeOK, Indices!Typed, Indices!OneBoot, Indices!At,
              Indices!Writing, Indices!Covers, Indices!Closed, Indices!Listing
<1>2. CASE Indices!Next
  <2> PICK p \in IndexProcesses : Indices!Step(p)
    BY <1>2 DEF Indices!Next
  <2>1. CASE Indices!Boot(p)
    BY <2>1, IndicesBoot
  <2>2. CASE Indices!Listed(p)
    BY <2>2, IndicesEnds
  <2>3. CASE Indices!Die(p)
    BY <2>3, IndicesDies
  <2>4. ASSUME NEW ok \in BOOLEAN, Indices!Read(p, ok) PROVE Indices!IInv'
    BY <2>4, IndicesRead
  <2>5. ASSUME NEW ok \in BOOLEAN, Indices!Exists(p, ok) PROVE Indices!IInv'
    BY <2>5, IndicesExists
  <2>6. ASSUME NEW took \in BOOLEAN, NEW ok \in BOOLEAN, Indices!Create(p, took, ok) PROVE Indices!IInv'
    BY <2>6, IndicesCreated, IndicesNotCreated, IndicesCreateUnheard
  <2>7. ASSUME NEW took \in BOOLEAN, NEW ok \in BOOLEAN, Indices!Close(p, took, ok) PROVE Indices!IInv'
    BY <2>7, IndicesCloses
  <2>8. ASSUME NEW took \in BOOLEAN, NEW ok \in BOOLEAN, Indices!Put(p, took, ok) PROVE Indices!IInv'
    BY <2>8, IndicesPutTaken, IndicesPutRefused, IndicesPutUnheard
  <2>9. ASSUME NEW took \in BOOLEAN, NEW ok \in BOOLEAN, Indices!Open(p, took, ok) PROVE Indices!IInv'
    BY <2>9, IndicesOpened, IndicesReopens
  <2>10. ASSUME NEW took \in BOOLEAN, NEW ok \in BOOLEAN, Indices!Map(p, took, ok) PROVE Indices!IInv'
    BY <2>10, IndicesMapped, IndicesMapRefused, IndicesMapUnheard
  <2>11. ASSUME NEW ok \in BOOLEAN, Indices!Record(p, ok) PROVE Indices!IInv'
    BY <2>11, IndicesRecord
  <2>12. ASSUME NEW ok \in BOOLEAN, Indices!ListSources(p, ok) PROVE Indices!IInv'
    BY <2>12, IndicesListSources
  <2>13. ASSUME NEW ok \in BOOLEAN, Indices!AddSources(p, ok) PROVE Indices!IInv'
    BY <2>13, IndicesAdds
  <2>14. ASSUME NEW ok \in BOOLEAN, NEW s, Indices!DropSource(p, s, ok) PROVE Indices!IInv'
    BY <2>14, IndicesDrops
  <2> QED BY <2>1, <2>2, <2>3, <2>4, <2>5, <2>6, <2>7, <2>8, <2>9, <2>10, <2>11, <2>12, <2>13, <2>14
          DEF Indices!Step
<1> QED BY <1>1, <1>2

\* What the invariant says of the row, the index and the tables at rest.
LEMMA IndicesKept ==
    Indices!IInv => /\ Indices!TypeOK /\ Indices!RowTellsTheCluster /\ Indices!OpenedAgain
                    /\ Indices!SourcesAsDeclared
<1> SUFFICES ASSUME Indices!IInv
             PROVE  /\ Indices!TypeOK /\ Indices!RowTellsTheCluster /\ Indices!OpenedAgain
                    /\ Indices!SourcesAsDeclared
  OBVIOUS
<1>1. Indices!RowTellsTheCluster
  BY IndicesParts DEF Indices!Writing, Indices!Covers, Indices!RowTellsTheCluster, Indices!AtRest, Indices!At
<1>2. Indices!OpenedAgain
  BY IndicesParts DEF Indices!Closed, Indices!OpenedAgain, Indices!AtRest, Indices!At
<1>3. Indices!SourcesAsDeclared
  BY IndicesParts DEF Indices!Listing, Indices!SourcesAsDeclared, Indices!AtRest, Indices!At
<1> QED BY <1>1, <1>2, <1>3, IndicesParts

\* The variables of TriggerSources.
at == v6
read == v4
todo == v8
outbox == v9
changes == v7
reached == v10
spoiled == v2
rekeyed == v12
sourceFaults == v11
USE DEF at, read, todo, outbox, changes, reached, spoiled, rekeyed, sourceFaults

-----------------------------------------------------------------------------
(* What the processes of a fleet declare about tables, and what is logged of   *)
(* them (foundation: trigger_sources.ts, trigger_match.ts, 01_trigger.sql).    *)

\* What a target of a process that loads is about.
LEMMA SourcesDeclared ==
    ASSUME Declared!SourceAssumption, NEW p \in SourceProcesses, Declared!Loads(p)
    PROVE  /\ Declared!Declared(p) \subseteq SourceTables
           /\ \A t \in Declared!Declared(p) : Declared!KeyOf(p, t) \in Declared!Columns
           /\ \A d \in Declared!Armed(p) : d.key = Declared!KeyOf(p, d.table)
<1>1. \A u \in SourceTargets[p] : u \in Declared!TargetShape /\ u.table # Declared!None
  BY DEF Declared!SourceAssumption, Declared!Loads, Declared!Refused
<1>2. \A d \in Declared!Armed(p) : d.table \in SourceTables /\ d.key \in Declared!Columns
  <2> TAKE d \in Declared!Armed(p)
  <2>1. PICK u \in SourceTargets[p] : d = Declared!Registered(u)
    BY DEF Declared!Armed
  <2>2. d.table = u.table /\ d.key = IF u.key = Declared!None THEN "id" ELSE u.key
    BY <2>1 DEF Declared!Registered
  <2>3. u.table \in SourceTables \cup {Declared!None} /\ u.key \in Declared!Columns \cup {Declared!None}
    BY <1>1 DEF Declared!TargetShape
  <2> QED BY <1>1, <2>2, <2>3 DEF Declared!Columns
<1>3. \A t \in Declared!Declared(p) :
         LET c == CHOOSE d \in Declared!Armed(p) : d.table = t IN
         c \in Declared!Armed(p) /\ c.table = t
  BY DEF Declared!Declared
<1>4. \A t \in Declared!Declared(p) : Declared!KeyOf(p, t) \in Declared!Columns
  BY <1>2, <1>3 DEF Declared!KeyOf
<1>5. \A d \in Declared!Armed(p) : d.key = Declared!KeyOf(p, d.table)
  <2> TAKE d \in Declared!Armed(p)
  <2>1. d.table \in Declared!Declared(p)
    BY DEF Declared!Declared
  <2> QED BY <1>3, <2>1 DEF Declared!KeyOf, Declared!Loads
<1>6. Declared!Declared(p) \subseteq SourceTables
  BY <1>2 DEF Declared!Declared
<1> QED BY <1>4, <1>5, <1>6

\* A target waits for what its declaration does: columns that moved, or the row.
LEMMA SourcesMeant ==
    ASSUME Declared!SourceAssumption, NEW p \in SourceProcesses, Declared!Loads(p),
           NEW u \in SourceTargets[p], NEW t, NEW prior, NEW after, prior # after
    PROVE  LET d == Declared!Registered(u) IN
           /\ \A f \in Declared!Columns :
                 f \in Declared!Meant(u, t, prior, after) <=>
                   /\ d.table = t /\ d.op = Declared!OpOf(prior, after) /\ f \in d.fields
                   /\ Declared!MovedInto(prior, after, f, d)
           /\ Declared!None \in Declared!Meant(u, t, prior, after) <=>
                   d.table = t /\ d.op = Declared!OpOf(prior, after) /\ d.fields = {}
<1> DEFINE d == Declared!Registered(u)
           M == Declared!Meant(u, t, prior, after)
<1>1. u \in Declared!TargetShape /\ ~Declared!Refused(u)
  BY DEF Declared!SourceAssumption, Declared!Loads
<1>2. /\ d.table = u.table /\ d.op = Declared!Op(u) /\ d.fields = Declared!FieldsOf(u)
      /\ d.from = u.from /\ d.to = u.to
  BY DEF Declared!Registered
<1>3. Declared!None \notin Declared!Columns
  BY DEF Declared!None, Declared!Columns
<1>4. u.field = Declared!None /\ u.method # "fields" <=> Declared!FieldsOf(u) = {}
  BY <1>1 DEF Declared!Refused, Declared!FieldsOf
<1>5. CASE u.table # t \/ Declared!Op(u) # Declared!OpOf(prior, after)
  <2>1. M = {}
    BY <1>5 DEF Declared!Meant
  <2> QED BY <1>2, <1>5, <2>1
<1>6. CASE u.table = t /\ Declared!Op(u) = Declared!OpOf(prior, after)
  <2>1. M = {f \in Declared!Columns :
                 /\ f \in Declared!FieldsOf(u)
                 /\ prior[f] # after[f]
                 /\ u.from # Declared!Any => prior[f] = u.from
                 /\ u.to # Declared!Any => after[f] = u.to}
            \cup {n \in {Declared!None} : u.field = Declared!None /\ u.method # "fields"}
    BY <1>6 DEF Declared!Meant
  <2>2. \A f \in Declared!Columns : f \in M <=> f \in d.fields /\ Declared!MovedInto(prior, after, f, d)
    BY <1>2, <1>3, <2>1 DEF Declared!MovedInto
  <2>3. Declared!None \in M <=> d.fields = {}
    BY <1>2, <1>3, <1>4, <2>1
  <2> QED BY <1>2, <1>6, <2>2, <2>3
<1> QED BY <1>5, <1>6

\* What a change delivers to a process is what the targets it was written with wait for.
LEMMA SourcesMatch ==
    ASSUME Declared!SourceAssumption, NEW p \in SourceProcesses, Declared!Loads(p),
           NEW t, NEW prior, NEW after, prior # after
    PROVE  Declared!MatchesOf(Declared!Armed(p), t, prior, after) = Declared!MeantBy(p, t, prior, after)
<1> DEFINE heard == {d \in Declared!Armed(p) : d.table = t /\ d.op = Declared!OpOf(prior, after)}
           L == Declared!MatchesOf(Declared!Armed(p), t, prior, after)
           R == Declared!MeantBy(p, t, prior, after)
<1>1. \A x : x \in L <=> \/ \E d \in heard : d.fields = {} /\ x = <<d.name, Declared!None>>
                        \/ \E d \in heard : \E f \in Declared!Columns :
                              f \in d.fields /\ Declared!MovedInto(prior, after, f, d) /\ x = <<d.name, f>>
  <2> DEFINE moved == {n \in heard \X Declared!Columns :
                         n[2] \in n[1].fields /\ Declared!MovedInto(prior, after, n[2], n[1])}
  <2>1. L = {<<d.name, Declared!None>> : d \in {e \in heard : e.fields = {}}}
            \cup {<<m[1].name, m[2]>> : m \in moved}
    BY DEF Declared!MatchesOf
  <2>2. \A d, f : <<d, f>> \in moved <=> /\ d \in heard /\ f \in Declared!Columns
                                         /\ f \in d.fields /\ Declared!MovedInto(prior, after, f, d)
    OBVIOUS
  <2>3. \A m \in moved : m = <<m[1], m[2]>>
    OBVIOUS
  <2> HIDE DEF moved, heard, L
  <2>4. \A x : x \in {<<m[1].name, m[2]>> : m \in moved} <=>
               \E d \in heard : \E f \in Declared!Columns :
                              f \in d.fields /\ Declared!MovedInto(prior, after, f, d) /\ x = <<d.name, f>>
    <3> TAKE x
    <3>1. ASSUME x \in {<<m[1].name, m[2]>> : m \in moved}
          PROVE  \E d \in heard : \E f \in Declared!Columns :
                    f \in d.fields /\ Declared!MovedInto(prior, after, f, d) /\ x = <<d.name, f>>
      <4>1. PICK m \in moved : x = <<m[1].name, m[2]>>
        BY <3>1
      <4>2. /\ m[1] \in heard /\ m[2] \in Declared!Columns /\ m[2] \in m[1].fields
            /\ Declared!MovedInto(prior, after, m[2], m[1])
        BY <2>2, <2>3
      <4> QED BY <4>1, <4>2
    <3>2. ASSUME NEW d \in heard, NEW f \in Declared!Columns, f \in d.fields,
                 Declared!MovedInto(prior, after, f, d), x = <<d.name, f>>
          PROVE  x \in {<<m[1].name, m[2]>> : m \in moved}
      <4> DEFINE m == <<d, f>>
      <4>1. m \in moved
        BY <2>2, <3>2
      <4>2. x = <<m[1].name, m[2]>>
        BY <3>2
      <4> QED BY <4>1, <4>2
    <3> QED BY <3>1, <3>2
  <2> QED BY <2>1, <2>4
<1>2. \A x : x \in R <=> \E u \in SourceTargets[p] : \E f \in Declared!Meant(u, t, prior, after) :
                            x = <<Declared!NameOf(u), f>>
  BY DEF Declared!MeantBy
<1>3. \A u \in SourceTargets[p] : Declared!Registered(u).name = Declared!NameOf(u)
                                  /\ Declared!Registered(u) \in Declared!Armed(p)
  BY DEF Declared!Registered, Declared!Armed
<1>4. \A d \in Declared!Armed(p) : \E u \in SourceTargets[p] : d = Declared!Registered(u)
  BY DEF Declared!Armed
<1>5. \A u : Declared!Meant(u, t, prior, after) \subseteq Declared!Columns \cup {Declared!None}
  BY DEF Declared!Meant
<1> HIDE DEF L, R
<1>6. ASSUME NEW x \in L PROVE x \in R
  <2>1. CASE \E d \in heard : d.fields = {} /\ x = <<d.name, Declared!None>>
    <3>1. PICK d \in heard : d.fields = {} /\ x = <<d.name, Declared!None>>
      BY <2>1
    <3>2. PICK u \in SourceTargets[p] : d = Declared!Registered(u)
      BY <1>4
    <3>3. Declared!None \in Declared!Meant(u, t, prior, after)
      BY <3>1, <3>2, SourcesMeant
    <3> QED BY <1>2, <1>3, <3>1, <3>2, <3>3
  <2>2. CASE \E d \in heard : \E f \in Declared!Columns :
                f \in d.fields /\ Declared!MovedInto(prior, after, f, d) /\ x = <<d.name, f>>
    <3>1. PICK d \in heard, f \in Declared!Columns :
             f \in d.fields /\ Declared!MovedInto(prior, after, f, d) /\ x = <<d.name, f>>
      BY <2>2
    <3>2. PICK u \in SourceTargets[p] : d = Declared!Registered(u)
      BY <1>4
    <3>3. f \in Declared!Meant(u, t, prior, after)
      BY <3>1, <3>2, SourcesMeant
    <3> QED BY <1>2, <1>3, <3>1, <3>2, <3>3
  <2> QED BY <1>1, <1>6, <2>1, <2>2
<1>7. ASSUME NEW x \in R PROVE x \in L
  <2>0. PICK u \in SourceTargets[p] : \E f \in Declared!Meant(u, t, prior, after) :
           x = <<Declared!NameOf(u), f>>
    BY <1>2, <1>7
  <2>1. PICK f \in Declared!Meant(u, t, prior, after) : x = <<Declared!NameOf(u), f>>
    BY <2>0
  <2> DEFINE d == Declared!Registered(u)
  <2>2. d \in Declared!Armed(p) /\ x = <<d.name, f>>
    BY <1>3, <2>1
  <2>3. CASE f = Declared!None
    <3>1. d \in heard /\ d.fields = {}
      BY <2>2, <2>3, SourcesMeant
    <3> QED BY <1>1, <2>2, <2>3, <3>1
  <2>4. CASE f \in Declared!Columns
    <3>1. d \in heard /\ f \in d.fields /\ Declared!MovedInto(prior, after, f, d)
      BY <2>2, <2>4, SourcesMeant
    <3> HIDE DEF heard, d
    <3> QED BY <1>1, <2>2, <2>4, <3>1
  <2> QED BY <1>5, <2>3, <2>4
<1> QED BY <1>6, <1>7 DEF L, R

\* The parts of the invariant, and what every state has.
LEMMA SourcesParts ==
    ASSUME Declared!IInv
    PROVE  /\ Declared!TypeOK /\ Declared!Shapes /\ Declared!Loaded /\ Declared!Wrote
           /\ Declared!Queued /\ Declared!Drained /\ Declared!DeclaredChangesArrive /\ Declared!UnderItsKey
           /\ sources \in [SourceTables -> Declared!Keys]
           /\ at \in [SourceProcesses -> {"down", "refused", "reading", "writing", "up"}]
           /\ read \in [SourceProcesses -> [SourceTables -> Declared!Keys]]
           /\ todo \in [SourceProcesses -> SUBSET SourceTables]
           /\ boots \in 0..SourceBoots
           /\ row \in [SourceTables -> Declared!Rows \cup {Declared!Gone}]
           /\ spoiled \subseteq SourceTables /\ rekeyed \subseteq SourceTables
           /\ sourceFaults \in 0..SourceFaults
           /\ changes \in Seq(Declared!ChangeShape) /\ outbox \in Seq(Declared!EventShape)
BY DEF Declared!IInv, Declared!TypeOK, Declared!Shapes

\* A call that fails is counted.
LEMMA SourcesFails ==
    ASSUME Declared!SourceAssumption, sourceFaults \in 0..SourceFaults,
           Declared!Fails \/ sourceFaults' = sourceFaults
    PROVE  sourceFaults' \in 0..SourceFaults
BY DEF Declared!SourceAssumption, Declared!Fails

\* A step of a boot leaves what was logged as it is, but for the tables it spoils or re-keys.
LEMMA SourcesAround ==
    ASSUME Declared!IInv, Declared!Around, spoiled \subseteq spoiled', rekeyed \subseteq rekeyed',
           \A t \in SourceTables \ (spoiled' \cup rekeyed') :
              sources[t] # Declared!None => sources'[t] = sources[t]
    PROVE  /\ Declared!Shapes' /\ Declared!Queued' /\ Declared!Drained' /\ Declared!DeclaredChangesArrive'
           /\ Declared!UnderItsKey' /\ row' = row /\ outbox' = outbox /\ changes' = changes
<1>1. row' = row /\ outbox' = outbox /\ changes' = changes /\ reached' = reached
  BY DEF Declared!Around
<1>2. Declared!Shapes'
  BY <1>1, SourcesParts DEF Declared!Shapes
<1>3. \A i \in DOMAIN outbox : outbox[i] \in Declared!EventShape
  BY SourcesParts
<1>4. \A e \in Declared!EventShape : Declared!Pending(e) => Declared!Pending(e)'
  <2> SUFFICES ASSUME NEW e \in Declared!EventShape, Declared!Pending(e) PROVE Declared!Pending(e)'
    OBVIOUS
  <2>1. e.table \in SourceTables /\ e.key # Declared!None
    BY DEF Declared!EventShape, Declared!Columns, Declared!None
  <2>2. e.table \notin spoiled' \cup rekeyed' => sources'[e.table] = e.key
    BY <2>1 DEF Declared!Pending
  <2> QED BY <1>1, <2>2 DEF Declared!Pending
<1>5. Declared!Queued'
  BY <1>1, <1>3, <1>4, SourcesParts DEF Declared!Queued
<1>6. Declared!Drained' /\ Declared!DeclaredChangesArrive'
  BY <1>1, SourcesParts DEF Declared!Drained, Declared!DeclaredChangesArrive, Declared!Delivered
<1>7. Declared!UnderItsKey'
  BY <1>1, SourcesParts DEF Declared!UnderItsKey
<1> QED BY <1>1, <1>2, <1>5, <1>6, <1>7

\* The rest of what a step of a boot owes.
LEMMA SourcesKinds ==
    ASSUME Declared!SourceAssumption, Declared!IInv, NEW p \in SourceProcesses,
           NEW c \in {"down", "refused", "reading", "writing", "up"}, at' = [at EXCEPT ![p] = c] \/ at' = at,
           row' = row, outbox' = outbox, changes' = changes,
           sources' \in [SourceTables -> Declared!Keys],
           read' \in [SourceProcesses -> [SourceTables -> Declared!Keys]],
           todo' \in [SourceProcesses -> SUBSET SourceTables],
           boots' \in 0..SourceBoots, spoiled' \subseteq SourceTables, rekeyed' \subseteq SourceTables,
           sourceFaults' \in 0..SourceFaults
    PROVE  Declared!TypeOK'
<1>1. at' \in [SourceProcesses -> {"down", "refused", "reading", "writing", "up"}]
  BY SourcesParts
<1>2. /\ row' \in [SourceTables -> Declared!Rows \cup {Declared!Gone}]
      /\ \A i \in DOMAIN outbox' : outbox'[i].id \in DOMAIN changes'
      /\ \A i \in DOMAIN changes' : changes'[i].by \in SourceProcesses \cup {"logged", "silent", "excused"}
  BY SourcesParts DEF Declared!TypeOK
<1>3. {spoiled', rekeyed'} \subseteq SUBSET SourceTables
  OBVIOUS
<1> QED BY <1>1, <1>2, <1>3 DEF Declared!TypeOK

\* A process is loaded, or refused.
LEMMA SourcesBoot ==
    ASSUME Declared!SourceAssumption, Declared!IInv, NEW p \in SourceProcesses, Declared!Boot(p)
    PROVE  Declared!IInv'
<1> DEFINE c == IF Declared!Loads(p) THEN "reading" ELSE "refused"
<1>1. /\ at[p] = "down" /\ boots < SourceBoots /\ boots' = boots + 1 /\ at' = [at EXCEPT ![p] = c]
      /\ sources' = sources /\ read' = read /\ todo' = todo /\ spoiled' = spoiled /\ rekeyed' = rekeyed
      /\ sourceFaults' = sourceFaults /\ Declared!Around
  BY DEF Declared!Boot, Declared!Goto
<1>2. c \in {"refused", "reading"} /\ (c = "reading" => Declared!Loads(p))
  OBVIOUS
<1> HIDE DEF c
<1>3. /\ Declared!Shapes' /\ Declared!Queued' /\ Declared!Drained' /\ Declared!DeclaredChangesArrive'
      /\ Declared!UnderItsKey' /\ row' = row /\ outbox' = outbox /\ changes' = changes
  BY <1>1, SourcesAround
<1>4. at'[p] = c /\ \A q \in SourceProcesses : q # p => at'[q] = at[q]
  BY <1>1, SourcesParts
<1>5. Declared!Loaded'
  <2>1. todo[p] = {}
    BY <1>1, SourcesParts DEF Declared!Loaded
  <2> QED BY <1>1, <1>2, <1>4, <2>1, SourcesParts DEF Declared!Loaded
<1>6. Declared!Wrote'
  BY <1>1, <1>2, <1>4, SourcesParts DEF Declared!Wrote
<1>7. Declared!TypeOK'
  <2>1. boots' \in 0..SourceBoots
    BY <1>1, SourcesParts DEF Declared!SourceAssumption
  <2>2. c \in {"down", "refused", "reading", "writing", "up"}
    BY <1>2
  <2> QED BY <1>1, <1>3, <2>1, <2>2, SourcesParts, SourcesKinds
<1> QED BY <1>3, <1>5, <1>6, <1>7 DEF Declared!IInv

\* It reads the sources: what is as it declares is not to be written.
LEMMA SourcesRead ==
    ASSUME Declared!SourceAssumption, Declared!IInv, NEW p \in SourceProcesses, Declared!Read(p)
    PROVE  Declared!IInv'
<1> DEFINE c == "writing"
           T == {t \in Declared!Declared(p) : sources[t] # Declared!KeyOf(p, t)}
<1>1. /\ at[p] = "reading" /\ at' = [at EXCEPT ![p] = c] /\ read' = [read EXCEPT ![p] = sources]
      /\ todo' = [todo EXCEPT ![p] = T]
      /\ sources' = sources /\ boots' = boots /\ spoiled' = spoiled /\ rekeyed' = rekeyed
      /\ sourceFaults' = sourceFaults /\ Declared!Around
  BY DEF Declared!Read, Declared!Goto
<1>2. c = "writing" /\ c \in {"down", "refused", "reading", "writing", "up"}
  OBVIOUS
<1> HIDE DEF c
<1>3. /\ Declared!Shapes' /\ Declared!Queued' /\ Declared!Drained' /\ Declared!DeclaredChangesArrive'
      /\ Declared!UnderItsKey' /\ row' = row /\ outbox' = outbox /\ changes' = changes
  BY <1>1, SourcesAround
<1>4. at'[p] = c /\ \A q \in SourceProcesses : q # p => at'[q] = at[q]
  BY <1>1, SourcesParts
<1>5. Declared!Loads(p)
  BY <1>1, SourcesParts DEF Declared!Loaded
<1>6. T \subseteq Declared!Declared(p) /\ T \subseteq SourceTables
  BY <1>5, SourcesDeclared
<1>7. todo'[p] = T /\ \A q \in SourceProcesses : q # p => todo'[q] = todo[q]
  BY <1>1, SourcesParts
<1>8. \A t \in Declared!Declared(p) \ T :
         sources[t] = Declared!KeyOf(p, t) /\ sources[t] # Declared!None
  BY <1>5, SourcesDeclared DEF Declared!Columns, Declared!None
<1> HIDE DEF T
<1>9. Declared!Loaded'
  BY <1>1, <1>2, <1>4, <1>5, <1>6, <1>7, SourcesParts DEF Declared!Loaded
<1>10. Declared!Wrote'
  BY <1>1, <1>4, <1>7, <1>8, SourcesParts DEF Declared!Wrote
<1>11. Declared!TypeOK'
  <2>1. /\ todo' \in [SourceProcesses -> SUBSET SourceTables]
        /\ read' \in [SourceProcesses -> [SourceTables -> Declared!Keys]]
    BY <1>1, <1>6, SourcesParts
  <2> QED BY <1>1, <1>2, <1>3, <2>1, SourcesParts, SourcesKinds
<1> QED BY <1>3, <1>9, <1>10, <1>11 DEF Declared!IInv

\* It writes a source, or what it wanted is not there and the table is spoiled.
LEMMA SourcesWrite ==
    ASSUME Declared!SourceAssumption, Declared!IInv, NEW p \in SourceProcesses, Declared!Write(p)
    PROVE  Declared!IInv'
<1> PICK t \in todo[p] :
         /\ at[p] = "writing"
         /\ todo' = [todo EXCEPT ![p] = todo[p] \ {t}]
         /\ LET missing == read[p][t] = Declared!None
                lands == IF missing THEN sources[t] = Declared!None ELSE sources[t] # Declared!None IN
            \/ /\ sources' = IF lands THEN [sources EXCEPT ![t] = Declared!KeyOf(p, t)] ELSE sources
               /\ spoiled' = IF sources'[t] # Declared!KeyOf(p, t) THEN spoiled \cup {t} ELSE spoiled
               /\ rekeyed' = IF sources[t] \notin {Declared!None, sources'[t]} THEN rekeyed \cup {t} ELSE rekeyed
               /\ sourceFaults' = sourceFaults
            \/ /\ Declared!Fails
               /\ spoiled' = spoiled \cup {t}
               /\ sources' = sources /\ rekeyed' = rekeyed
         /\ Declared!Around /\ at' = at /\ read' = read /\ boots' = boots
  BY DEF Declared!Write
<1>1. Declared!Loads(p) /\ t \in Declared!Declared(p) /\ t \in SourceTables
  BY SourcesParts, SourcesDeclared DEF Declared!Loaded
<1>2. Declared!KeyOf(p, t) \in Declared!Columns /\ Declared!KeyOf(p, t) # Declared!None
  BY <1>1, SourcesDeclared DEF Declared!Columns, Declared!None
<1>3. /\ sources' \in [SourceTables -> Declared!Keys]
      /\ \A u \in SourceTables : u # t => sources'[u] = sources[u]
      /\ sources'[t] \in {sources[t], Declared!KeyOf(p, t)}
      /\ t \in spoiled' \/ sources'[t] = Declared!KeyOf(p, t)
      /\ t \in spoiled' \cup rekeyed' \/ sources[t] = Declared!None \/ sources'[t] = sources[t]
      /\ spoiled \subseteq spoiled' /\ spoiled' \subseteq spoiled \cup {t}
      /\ rekeyed \subseteq rekeyed' /\ rekeyed' \subseteq rekeyed \cup {t}
  <2>1. CASE Declared!Fails /\ spoiled' = spoiled \cup {t} /\ sources' = sources /\ rekeyed' = rekeyed
    BY <2>1, SourcesParts
  <2>2. CASE /\ sources' = [sources EXCEPT ![t] = Declared!KeyOf(p, t)]
             /\ spoiled' = IF sources'[t] # Declared!KeyOf(p, t) THEN spoiled \cup {t} ELSE spoiled
             /\ rekeyed' = IF sources[t] \notin {Declared!None, sources'[t]} THEN rekeyed \cup {t} ELSE rekeyed
    BY <1>1, <1>2, <2>2, SourcesParts DEF Declared!Keys
  <2>3. CASE /\ sources' = sources
             /\ spoiled' = IF sources'[t] # Declared!KeyOf(p, t) THEN spoiled \cup {t} ELSE spoiled
             /\ rekeyed' = IF sources[t] \notin {Declared!None, sources'[t]} THEN rekeyed \cup {t} ELSE rekeyed
    BY <1>1, <1>2, <2>3, SourcesParts
  <2> QED BY <2>1, <2>2, <2>3
<1>4. sourceFaults' \in 0..SourceFaults
  BY SourcesParts, SourcesFails
<1>5. /\ Declared!Shapes' /\ Declared!Queued' /\ Declared!Drained' /\ Declared!DeclaredChangesArrive'
      /\ Declared!UnderItsKey' /\ row' = row /\ outbox' = outbox /\ changes' = changes
  BY <1>3, SourcesAround
<1>6. todo'[p] = todo[p] \ {t} /\ \A q \in SourceProcesses : q # p => todo'[q] = todo[q]
  BY SourcesParts
<1>7. Declared!Loaded'
  BY <1>6, SourcesParts DEF Declared!Loaded
<1>8. Declared!Wrote'
  <2> SUFFICES ASSUME NEW q \in SourceProcesses, at[q] \in {"writing", "up"},
                      NEW u \in Declared!Declared(q), u \notin todo'[q] \cup spoiled'
               PROVE  sources'[u] # Declared!None
                      /\ (u \notin rekeyed' => sources'[u] = Declared!KeyOf(q, u))
    BY DEF Declared!Wrote
  <2>1. u \in SourceTables
    BY SourcesParts, SourcesDeclared DEF Declared!Loaded
  <2>2. CASE u # t
    <3>1. u \notin todo[q] \cup spoiled /\ (u \notin rekeyed' => u \notin rekeyed)
      BY <1>3, <1>6, <2>2
    <3>2. sources'[u] = sources[u]
      BY <1>3, <2>1, <2>2
    <3> QED BY <3>1, <3>2, SourcesParts DEF Declared!Wrote
  <2>3. CASE u = t
    <3>1. sources'[t] = Declared!KeyOf(p, t)
      BY <1>3, <2>3
    <3>2. CASE q = p
      BY <1>2, <2>3, <3>1, <3>2
    <3>3. CASE q # p
      <4>1. t \notin todo[q] \cup spoiled
        BY <1>3, <1>6, <2>3, <3>3
      <4>2. sources[t] # Declared!None /\ (t \notin rekeyed => sources[t] = Declared!KeyOf(q, t))
        BY <2>3, <4>1, SourcesParts DEF Declared!Wrote
      <4>3. t \notin rekeyed' => t \notin rekeyed /\ sources'[t] = sources[t]
        BY <1>3, <2>3, <4>2
      <4> QED BY <1>2, <2>3, <3>1, <4>2, <4>3
    <3> QED BY <3>2, <3>3
  <2> QED BY <2>2, <2>3
<1>9. Declared!TypeOK'
  <2>1. todo' \in [SourceProcesses -> SUBSET SourceTables]
    BY SourcesParts
  <2>2. spoiled' \subseteq SourceTables /\ rekeyed' \subseteq SourceTables
    BY <1>1, <1>3, SourcesParts
  <2> DEFINE c == "up"
  <2>3. c \in {"down", "refused", "reading", "writing", "up"}
    OBVIOUS
  <2> HIDE DEF c
  <2> QED BY <1>3, <1>4, <1>5, <2>1, <2>2, <2>3, SourcesParts, SourcesKinds
<1> QED BY <1>5, <1>7, <1>8, <1>9 DEF Declared!IInv

\* It drops what it does not declare, and is up.
LEMMA SourcesDrop ==
    ASSUME Declared!SourceAssumption, Declared!IInv, NEW p \in SourceProcesses, Declared!Drop(p)
    PROVE  Declared!IInv'
<1> DEFINE c == "up"
           dropped == {t \in SourceTables \ Declared!Declared(p) : read[p][t] # Declared!None}
           none == [t \in SourceTables |-> Declared!None]
<1>1. /\ at[p] = "writing" /\ todo[p] = {} /\ at' = [at EXCEPT ![p] = c]
      /\ \/ /\ sources' = [t \in SourceTables |-> IF t \in dropped THEN Declared!None ELSE sources[t]]
            /\ spoiled' = spoiled \cup {t \in dropped : sources[t] # Declared!None}
            /\ sourceFaults' = sourceFaults
         \/ Declared!Fails /\ sources' = sources /\ spoiled' = spoiled
      /\ read' = [read EXCEPT ![p] = none] /\ todo' = todo /\ boots' = boots /\ rekeyed' = rekeyed
      /\ Declared!Around
  BY DEF Declared!Drop, Declared!Goto
<1>2. c = "up" /\ c \in {"down", "refused", "reading", "writing", "up"}
  OBVIOUS
<1>3. none \in [SourceTables -> Declared!Keys]
  BY DEF Declared!Keys
<1>4. /\ sources' \in [SourceTables -> Declared!Keys]
      /\ \A t \in SourceTables : t \in spoiled' \/ sources'[t] = sources[t]
      /\ spoiled \subseteq spoiled' /\ spoiled' \subseteq SourceTables
      /\ sourceFaults' \in 0..SourceFaults
  <2>1. CASE /\ sources' = [t \in SourceTables |-> IF t \in dropped THEN Declared!None ELSE sources[t]]
             /\ spoiled' = spoiled \cup {t \in dropped : sources[t] # Declared!None}
             /\ sourceFaults' = sourceFaults
    BY <2>1, SourcesParts DEF Declared!Keys
  <2>2. CASE Declared!Fails /\ sources' = sources /\ spoiled' = spoiled
    BY <2>2, SourcesParts, SourcesFails
  <2> QED BY <1>1, <2>1, <2>2
<1> HIDE DEF c, dropped, none
<1>5. /\ Declared!Shapes' /\ Declared!Queued' /\ Declared!Drained' /\ Declared!DeclaredChangesArrive'
      /\ Declared!UnderItsKey' /\ row' = row /\ outbox' = outbox /\ changes' = changes
  BY <1>1, <1>4, SourcesAround
<1>6. at'[p] = c /\ \A q \in SourceProcesses : q # p => at'[q] = at[q]
  BY <1>1, SourcesParts
<1>7. Declared!Loaded'
  BY <1>1, <1>2, <1>6, SourcesParts DEF Declared!Loaded
<1>8. Declared!Wrote'
  <2> SUFFICES ASSUME NEW q \in SourceProcesses, at'[q] \in {"writing", "up"},
                      NEW u \in Declared!Declared(q), u \notin todo[q] \cup spoiled'
               PROVE  sources'[u] # Declared!None
                      /\ (u \notin rekeyed => sources'[u] = Declared!KeyOf(q, u))
    BY <1>1 DEF Declared!Wrote
  <2>1. at[q] \in {"writing", "up"}
    BY <1>1, <1>6
  <2>2. u \in SourceTables
    BY <2>1, SourcesParts, SourcesDeclared DEF Declared!Loaded
  <2>3. sources'[u] = sources[u] /\ u \notin todo[q] \cup spoiled
    BY <1>4, <2>2
  <2> QED BY <2>1, <2>3, SourcesParts DEF Declared!Wrote
<1>9. Declared!TypeOK'
  <2>1. read' \in [SourceProcesses -> [SourceTables -> Declared!Keys]]
    BY <1>1, <1>3, SourcesParts
  <2> QED BY <1>1, <1>2, <1>4, <1>5, <2>1, SourcesParts, SourcesKinds
<1> QED BY <1>5, <1>7, <1>8, <1>9 DEF Declared!IInv

\* It stops: what it had still to write is spoiled.
LEMMA SourcesStop ==
    ASSUME Declared!SourceAssumption, Declared!IInv, NEW p \in SourceProcesses, Declared!Stop(p)
    PROVE  Declared!IInv'
<1> DEFINE c == "down"
           none == [t \in SourceTables |-> Declared!None]
<1>1. /\ at' = [at EXCEPT ![p] = c] /\ read' = [read EXCEPT ![p] = none] /\ todo' = [todo EXCEPT ![p] = {}]
      /\ spoiled' = spoiled \cup todo[p] /\ sources' = sources /\ boots' = boots /\ rekeyed' = rekeyed
      /\ sourceFaults' = sourceFaults /\ Declared!Around
  BY DEF Declared!Stop, Declared!Goto
<1>2. c = "down" /\ c \in {"down", "refused", "reading", "writing", "up"}
  OBVIOUS
<1>3. none \in [SourceTables -> Declared!Keys]
  BY DEF Declared!Keys
<1> HIDE DEF c, none
<1>4. spoiled \subseteq spoiled' /\ spoiled' \subseteq SourceTables
  BY <1>1, SourcesParts
<1>5. /\ Declared!Shapes' /\ Declared!Queued' /\ Declared!Drained' /\ Declared!DeclaredChangesArrive'
      /\ Declared!UnderItsKey' /\ row' = row /\ outbox' = outbox /\ changes' = changes
  BY <1>1, <1>4, SourcesAround
<1>6. /\ at'[p] = c /\ todo'[p] = {}
      /\ \A q \in SourceProcesses : q # p => at'[q] = at[q] /\ todo'[q] = todo[q]
  BY <1>1, SourcesParts
<1>7. Declared!Loaded'
  BY <1>2, <1>6, SourcesParts DEF Declared!Loaded
<1>8. Declared!Wrote'
  BY <1>1, <1>2, <1>4, <1>6, SourcesParts DEF Declared!Wrote
<1>9. Declared!TypeOK'
  <2>1. /\ read' \in [SourceProcesses -> [SourceTables -> Declared!Keys]]
        /\ todo' \in [SourceProcesses -> SUBSET SourceTables]
    BY <1>1, <1>3, SourcesParts
  <2> QED BY <1>1, <1>2, <1>4, <1>5, <2>1, SourcesParts, SourcesKinds
<1> QED BY <1>5, <1>7, <1>8, <1>9 DEF Declared!IInv

\* What a process is owed of a change is deliveries to its names.
LEMMA SourcesOwed ==
    ASSUME NEW p \in SourceProcesses, NEW t, NEW prior, NEW after
    PROVE  Declared!MeantBy(p, t, prior, after) \subseteq Declared!Deliveries
<1>1. \A u \in SourceTargets[p] : Declared!NameOf(u) \in Declared!Names
  BY DEF Declared!Names
<1>2. \A u : Declared!Meant(u, t, prior, after) \subseteq Declared!Keys
  BY DEF Declared!Meant, Declared!Keys
<1> QED BY <1>1, <1>2 DEF Declared!MeantBy, Declared!Deliveries

\* A change is put at the end of those there are.
LEMMA SourcesAppended ==
    ASSUME changes \in Seq(Declared!ChangeShape), NEW c \in Declared!ChangeShape, changes' = Append(changes, c)
    PROVE  /\ changes' \in Seq(Declared!ChangeShape) /\ Len(changes) \in Nat
           /\ DOMAIN changes = 1..Len(changes) /\ DOMAIN changes' = 1..(Len(changes) + 1)
           /\ changes'[Len(changes) + 1] = c
           /\ \A i \in DOMAIN changes : changes'[i] = changes[i]
OBVIOUS

\* A change that is committed is logged, or it is not and no running process declared it, or it is
\* excused.
LEMMA SourcesRecorded ==
    ASSUME Declared!IInv, NEW c \in Declared!ChangeShape, changes' = Append(changes, c),
           c.by \in {"logged", "silent", "excused"}, c.by = "silent" => ~c.wanted,
           Declared!SourceAssumption, reached' = reached, spoiled' = spoiled, rekeyed' = rekeyed,
           sources' = sources
    PROVE  /\ Declared!Drained' /\ Declared!DeclaredChangesArrive' /\ Declared!UnderItsKey'
           /\ changes' \in Seq(Declared!ChangeShape)
           /\ \A i \in DOMAIN changes' :
                 changes'[i].by \in SourceProcesses \cup {"logged", "silent", "excused"}
           /\ DOMAIN changes \subseteq DOMAIN changes'
           /\ \A e : Declared!Pending(e) => Declared!Pending(e)'
<1>1. /\ changes' \in Seq(Declared!ChangeShape) /\ Len(changes) \in Nat
      /\ DOMAIN changes = 1..Len(changes) /\ DOMAIN changes' = 1..(Len(changes) + 1)
      /\ changes'[Len(changes) + 1] = c
      /\ \A i \in DOMAIN changes : changes'[i] = changes[i]
  BY SourcesParts, SourcesAppended
<1>2. DOMAIN changes \subseteq DOMAIN changes'
      /\ \A i \in DOMAIN changes' : i \in DOMAIN changes \/ changes'[i] = c
  BY <1>1
<1>3. Declared!Drained'
  BY <1>1, <1>2, SourcesParts DEF Declared!Drained
<1>4. Declared!DeclaredChangesArrive'
  <2> SUFFICES ASSUME NEW i \in DOMAIN changes'
               PROVE  /\ changes'[i].by = "silent" => ~changes'[i].wanted
                      /\ changes'[i].by \in SourceProcesses =>
                            Declared!Delivered(i)' = changes'[i].owed[changes'[i].by]
    BY DEF Declared!DeclaredChangesArrive
  <2>1. CASE changes'[i] = c
    <3>1. c.by \notin SourceProcesses
      BY DEF Declared!SourceAssumption
    <3> QED BY <2>1, <3>1
  <2>2. CASE i \in DOMAIN changes
    BY <1>1, <2>2, SourcesParts DEF Declared!DeclaredChangesArrive, Declared!Delivered
  <2> QED BY <1>2, <2>1, <2>2
<1>5. Declared!UnderItsKey'
  <2>1. \A r \in reached : changes'[r.id] = changes[r.id]
    BY <1>1, SourcesParts DEF Declared!Drained
  <2> QED BY <2>1, SourcesParts DEF Declared!UnderItsKey
<1>6. \A i \in DOMAIN changes' : changes'[i].by \in SourceProcesses \cup {"logged", "silent", "excused"}
  <2>1. \A x \in Declared!ChangeShape : x.by \in SourceProcesses \cup {"logged", "silent", "excused"}
    BY DEF Declared!ChangeShape
  <2> QED BY <1>1, <2>1
<1>7. \A e : Declared!Pending(e) => Declared!Pending(e)'
  BY <1>1, <1>2 DEF Declared!Pending
<1> QED BY <1>1, <1>2, <1>3, <1>4, <1>5, <1>6, <1>7

\* What a step that boots nothing owes besides.
LEMMA SourcesLoggedKinds ==
    ASSUME Declared!IInv, at' = at, sources' = sources, read' = read, todo' = todo, boots' = boots,
           spoiled' = spoiled, rekeyed' = rekeyed,
           row' \in [SourceTables -> Declared!Rows \cup {Declared!Gone}],
           sourceFaults' \in 0..SourceFaults, Declared!Shapes', Declared!Queued', Declared!Drained',
           \A i \in DOMAIN outbox' : outbox'[i].id \in DOMAIN changes',
           \A i \in DOMAIN changes' :
              changes'[i].by \in SourceProcesses \cup {"logged", "silent", "excused"},
           Declared!DeclaredChangesArrive', Declared!UnderItsKey'
    PROVE  Declared!IInv'
<1>1. Declared!TypeOK'
  BY SourcesParts DEF Declared!TypeOK
<1>2. Declared!Loaded' /\ Declared!Wrote'
  BY SourcesParts DEF Declared!Loaded, Declared!Wrote
<1> QED BY <1>1, <1>2 DEF Declared!IInv

\* A process that runs and waits for a change of a table that is not spoiled has its source there.
LEMMA SourcesThere ==
    ASSUME Declared!IInv, NEW p \in Declared!Up, NEW t, NEW prior, NEW after,
           Declared!MeantBy(p, t, prior, after) # {}
    PROVE  prior # after /\ t \in Declared!Declared(p) /\ (t \notin spoiled => sources[t] # Declared!None)
<1>1. p \in SourceProcesses /\ at[p] = "up" /\ todo[p] = {}
  BY SourcesParts DEF Declared!Up, Declared!Loaded
<1>2. PICK u \in SourceTargets[p] : Declared!Meant(u, t, prior, after) # {}
  BY DEF Declared!MeantBy
<1>3. u.table = t /\ prior # after
  BY <1>2 DEF Declared!Meant
<1>4. t \in Declared!Declared(p)
  <2>1. Declared!Registered(u) \in Declared!Armed(p) /\ Declared!Registered(u).table = t
    BY <1>3 DEF Declared!Armed, Declared!Registered
  <2> QED BY <2>1 DEF Declared!Declared
<1> QED BY <1>1, <1>3, <1>4, SourcesParts DEF Declared!Wrote

\* A row changes; what the trigger logs of it is due to be drained.
LEMMA SourcesCommit ==
    ASSUME Declared!SourceAssumption, Declared!IInv, NEW t \in SourceTables, Declared!Commit(t)
    PROVE  Declared!IInv'
<1> PICK after \in Declared!Rows \cup {Declared!Gone} :
      /\ row' = [row EXCEPT ![t] = after]
      /\ LET prior == row[t]
             keyed == IF sources[t] = Declared!None THEN TRUE
                      ELSE (IF after = Declared!Gone THEN prior ELSE after)[sources[t]] # Declared!None
             owed == [p \in SourceProcesses |-> Declared!MeantBy(p, t, prior, after)]
             entry == [table |-> t, owed |-> owed, by |-> Declared!None,
                        wanted |-> \E p \in Declared!Up : owed[p] # {}]
             id == Len(changes) + 1 IN
         \/ /\ Declared!Logged(t, prior, after)
            /\ outbox' = Append(outbox, [id |-> id, table |-> t, before |-> prior,
                                         after |-> after, key |-> sources[t]])
            /\ changes' = Append(changes, [entry EXCEPT !.by = "logged"])
            /\ sourceFaults' = sourceFaults
         \/ /\ ~Declared!Logged(t, prior, after)
            /\ changes' = Append(changes, [entry EXCEPT !.by =
                  IF ~keyed \/ t \in spoiled THEN "excused" ELSE "silent"])
            /\ outbox' = outbox /\ sourceFaults' = sourceFaults
         \/ /\ Declared!Fails
            /\ changes' = Append(changes, [entry EXCEPT !.by = "excused"])
            /\ outbox' = outbox
      /\ sources' = sources /\ at' = at /\ read' = read /\ todo' = todo /\ boots' = boots
      /\ reached' = reached /\ spoiled' = spoiled /\ rekeyed' = rekeyed
  BY DEF Declared!Commit
<1> DEFINE prior == row[t]
           owed == [p \in SourceProcesses |-> Declared!MeantBy(p, t, prior, after)]
           wanted == \E p \in Declared!Up : owed[p] # {}
           id == Len(changes) + 1
           c(by) == [table |-> t, owed |-> owed, by |-> by, wanted |-> wanted]
           e == [id |-> id, table |-> t, before |-> prior, after |-> after, key |-> sources[t]]
<1> DEFINE keyed == IF sources[t] = Declared!None THEN TRUE
                    ELSE (IF after = Declared!Gone THEN prior ELSE after)[sources[t]] # Declared!None
<1>0. \/ /\ Declared!Logged(t, prior, after) /\ outbox' = Append(outbox, e)
         /\ changes' = Append(changes, c("logged"))
      \/ /\ ~Declared!Logged(t, prior, after) /\ outbox' = outbox
         /\ changes' = Append(changes, c(IF ~keyed \/ t \in spoiled THEN "excused" ELSE "silent"))
      \/ outbox' = outbox /\ changes' = Append(changes, c("excused"))
  <2> DEFINE entry == [table |-> t, owed |-> owed, by |-> Declared!None, wanted |-> wanted]
  <2>1. \A b : [entry EXCEPT !.by = b] = c(b)
    <3> HIDE DEF owed, wanted
    <3> QED OBVIOUS
  <2>2. \/ /\ Declared!Logged(t, prior, after) /\ outbox' = Append(outbox, e)
           /\ changes' = Append(changes, [entry EXCEPT !.by = "logged"])
        \/ /\ ~Declared!Logged(t, prior, after) /\ outbox' = outbox
           /\ changes' = Append(changes, [entry EXCEPT !.by =
                            IF ~keyed \/ t \in spoiled THEN "excused" ELSE "silent"])
        \/ outbox' = outbox /\ changes' = Append(changes, [entry EXCEPT !.by = "excused"])
    OBVIOUS
  <2> HIDE DEF entry, c, e, prior
  <2> QED BY <2>1, <2>2
<1>1. \E by \in {"logged", "silent", "excused"} :
         /\ changes' = Append(changes, c(by))
         /\ by = "silent" => ~wanted
         /\ \/ outbox' = outbox
            \/ by = "logged" /\ Declared!Logged(t, prior, after) /\ outbox' = Append(outbox, e)
  <2>1. keyed /\ t \notin spoiled /\ ~Declared!Logged(t, prior, after) => ~wanted
    <3> SUFFICES ASSUME keyed, t \notin spoiled, NEW p \in Declared!Up,
                        Declared!MeantBy(p, t, prior, after) # {}
                 PROVE  Declared!Logged(t, prior, after)
      BY DEF Declared!Up
    <3>1. prior # after /\ sources[t] # Declared!None
      BY SourcesThere
    <3> QED BY <3>1 DEF Declared!Logged
  <2> HIDE DEF c, e, wanted, keyed, prior
  <2>2. CASE /\ Declared!Logged(t, prior, after) /\ outbox' = Append(outbox, e)
             /\ changes' = Append(changes, c("logged"))
    BY <2>2
  <2>3. CASE changes' = Append(changes, c("excused")) /\ outbox' = outbox
    BY <2>3
  <2>4. CASE changes' = Append(changes, c("silent")) /\ outbox' = outbox /\ ~wanted
    BY <2>4
  <2>5. CASE /\ ~Declared!Logged(t, prior, after) /\ outbox' = outbox
             /\ changes' = Append(changes, c(IF ~keyed \/ t \in spoiled THEN "excused" ELSE "silent"))
    <3>1. CASE ~keyed \/ t \in spoiled
      BY <2>3, <2>5, <3>1
    <3>2. CASE keyed /\ t \notin spoiled
      BY <2>1, <2>4, <2>5, <3>2
    <3> QED BY <3>1, <3>2
  <2> QED BY <1>0, <2>2, <2>3, <2>5
<1>2. sourceFaults' \in 0..SourceFaults
  BY SourcesParts, SourcesFails
<1>3. prior \in Declared!Rows \cup {Declared!Gone}
  BY SourcesParts
<1>4. wanted \in BOOLEAN /\ owed \in [SourceProcesses -> SUBSET Declared!Deliveries]
  BY SourcesOwed
<1>5. Len(changes) \in Nat /\ DOMAIN changes = 1..Len(changes)
  BY SourcesParts
<1>6. PICK by \in {"logged", "silent", "excused"} :
         /\ changes' = Append(changes, c(by))
         /\ by = "silent" => ~wanted
         /\ \/ outbox' = outbox
            \/ by = "logged" /\ Declared!Logged(t, prior, after) /\ outbox' = Append(outbox, e)
  BY <1>1
<1> HIDE DEF wanted, owed, prior
<1> DEFINE d == c(by)
<1>7. d \in Declared!ChangeShape /\ d.by = by /\ (d.wanted <=> wanted) /\ d.table = t /\ d.owed = owed
  BY <1>4 DEF Declared!ChangeShape
<1>8. changes' = Append(changes, d)
  BY <1>6
<1> HIDE DEF d, c
<1>9. /\ Declared!Drained' /\ Declared!DeclaredChangesArrive' /\ Declared!UnderItsKey'
      /\ changes' \in Seq(Declared!ChangeShape)
      /\ \A i \in DOMAIN changes' : changes'[i].by \in SourceProcesses \cup {"logged", "silent", "excused"}
      /\ DOMAIN changes \subseteq DOMAIN changes'
      /\ \A x : Declared!Pending(x) => Declared!Pending(x)'
  BY <1>6, <1>7, <1>8, SourcesRecorded
<1>12. row' \in [SourceTables -> Declared!Rows \cup {Declared!Gone}]
  BY SourcesParts
<1>10. CASE outbox' = outbox
  <2>1. Declared!Queued' /\ Declared!Shapes'
    <3>1. \A y : Declared!Pending(y) => Declared!Pending(y)'
      BY <1>9
    <3>2. \A i \in DOMAIN outbox' : Declared!Pending(outbox[i])'
      BY <1>10, <3>1, SourcesParts DEF Declared!Queued
    <3> QED BY <1>9, <1>10, <3>2, SourcesParts DEF Declared!Queued, Declared!Shapes
  <2>2. \A i \in DOMAIN outbox' : outbox'[i].id \in DOMAIN changes'
    BY <2>1 DEF Declared!Queued, Declared!Pending
  <2> QED BY <1>2, <1>9, <1>10, <2>1, <2>2, <1>12, SourcesLoggedKinds
<1>11. CASE by = "logged" /\ Declared!Logged(t, prior, after) /\ outbox' = Append(outbox, e)
  <2>1. e \in Declared!EventShape /\ e.id = id /\ e.table = t /\ e.before = prior /\ e.after = after
        /\ e.key = sources[t]
    BY <1>3, <1>5, <1>11, SourcesParts DEF Declared!EventShape, Declared!Logged, Declared!Keys
  <2>2. /\ outbox' \in Seq(Declared!EventShape) /\ Len(outbox) \in Nat
        /\ DOMAIN outbox = 1..Len(outbox) /\ DOMAIN outbox' = 1..(Len(outbox) + 1)
        /\ outbox'[Len(outbox) + 1] = e
        /\ \A i \in DOMAIN outbox : outbox'[i] = outbox[i]
    <3> HIDE DEF e
    <3> QED BY <1>11, <2>1, SourcesParts
  <2>3. id \in DOMAIN changes' /\ changes'[id] = d /\ id \notin DOMAIN changes
    BY <1>5, <1>7, <1>8, SourcesParts, SourcesAppended
  <2>4. PICK x : x = e
    OBVIOUS
  <2> HIDE DEF e, id
  <2>5. owed = [p \in SourceProcesses |-> Declared!MeantBy(p, x.table, x.before, x.after)]
    BY <2>1, <2>4 DEF owed
  <2>6. x.before # x.after
    BY <1>11, <2>1, <2>4 DEF Declared!Logged
  <2>7. Declared!Pending(x)'
    BY <1>7, <1>11, <2>1, <2>3, <2>4, <2>5, <2>6 DEF Declared!Pending
  <2>8. \A i \in DOMAIN outbox' :
           \/ i \in DOMAIN outbox /\ outbox'[i] = outbox[i]
           \/ i = Len(outbox) + 1 /\ outbox'[i] = x
    <3>1. /\ Len(outbox) \in Nat /\ DOMAIN outbox = 1..Len(outbox) /\ DOMAIN outbox' = 1..(Len(outbox) + 1)
          /\ outbox'[Len(outbox) + 1] = x
          /\ \A i \in DOMAIN outbox : outbox'[i] = outbox[i]
      BY <2>2, <2>4
    <3>2. \A i \in 1..(Len(outbox) + 1) : i \in 1..Len(outbox) \/ i = Len(outbox) + 1
      BY <3>1
    <3> SUFFICES ASSUME NEW i \in DOMAIN outbox'
                 PROVE  \/ i \in DOMAIN outbox /\ outbox'[i] = outbox[i]
                        \/ i = Len(outbox) + 1 /\ outbox'[i] = x
      OBVIOUS
    <3>3. i \in 1..Len(outbox) \/ i = Len(outbox) + 1
      BY <3>1, <3>2
    <3>4. CASE i = Len(outbox) + 1
      BY <3>1, <3>4
    <3>5. CASE i \in 1..Len(outbox)
      <4>1. i \in DOMAIN outbox
        BY <3>1, <3>5
      <4> QED BY <3>1, <4>1
    <3> QED BY <3>3, <3>4, <3>5
  <2>9. \A i \in DOMAIN outbox : Declared!Pending(outbox[i]) /\ outbox[i].id \in DOMAIN changes
    BY SourcesParts DEF Declared!Queued, Declared!Pending
  <2>10. \A y : Declared!Pending(y) => Declared!Pending(y)'
    BY <1>9
  <2>11. \A i \in DOMAIN outbox' : Declared!Pending(outbox[i])'
    <3> SUFFICES ASSUME NEW i \in DOMAIN outbox' PROVE Declared!Pending(outbox[i])'
      OBVIOUS
    <3>1. PICK y : y = outbox'[i]
      OBVIOUS
    <3>2. Declared!Pending(y)'
      BY <2>7, <2>8, <2>9, <2>10, <3>1
    <3> QED BY <3>1, <3>2 DEF Declared!Pending
  <2>12. \A i, j \in DOMAIN outbox' : i # j => outbox'[i].id # outbox'[j].id
    BY <2>1, <2>3, <2>4, <2>8, <2>9, SourcesParts DEF Declared!Queued
  <2>13. Declared!Queued' /\ Declared!Shapes'
    BY <1>9, <2>2, <2>11, <2>12 DEF Declared!Queued, Declared!Shapes
  <2>14. \A i \in DOMAIN outbox' : outbox'[i].id \in DOMAIN changes'
    BY <2>11 DEF Declared!Pending
  <2> QED BY <1>2, <1>9, <1>12, <2>13, <2>14, SourcesLoggedKinds
<1> QED BY <1>6, <1>10, <1>11

\* The oldest change is drained: its process is handed what it declared of it, under the key it declared.
LEMMA SourcesDrain ==
    ASSUME Declared!SourceAssumption, Declared!IInv, NEW p \in SourceProcesses, Declared!Drain(p)
    PROVE  Declared!IInv'
<1>1. PICK e : e = Head(outbox)
  OBVIOUS
<1> DEFINE given == {[id |-> e.id, to |-> m[1], about |-> m[2], key |-> e.key] :
                       m \in Declared!MatchesOf(Declared!Armed(p), e.table, e.before, e.after)}
<1>2. /\ at[p] = "up" /\ outbox # <<>> /\ reached' = reached \cup given
      /\ changes' = [changes EXCEPT ![e.id].by = p] /\ outbox' = Tail(outbox)
      /\ sources' = sources /\ at' = at /\ read' = read /\ todo' = todo /\ boots' = boots
      /\ row' = row /\ spoiled' = spoiled /\ rekeyed' = rekeyed /\ sourceFaults' = sourceFaults
  BY <1>1 DEF Declared!Drain
<1>3. /\ e \in Declared!EventShape /\ outbox' \in Seq(Declared!EventShape) /\ Len(outbox) \in Nat \ {0}
      /\ Len(outbox') = Len(outbox) - 1 /\ \A i \in 1..Len(outbox') : outbox'[i] = outbox[i + 1]
  <2>1. Len(outbox) \in Nat \ {0}
    BY <1>2, SourcesParts, EmptySeq
  <2> QED BY <1>1, <1>2, <2>1, SourcesParts, HeadTailProperties
<1>4. DOMAIN outbox = 1..Len(outbox) /\ DOMAIN outbox' = 1..Len(outbox') /\ outbox[1] = e
  BY <1>1, <1>2, <1>3, SourcesParts
<1>5. /\ e.id \in DOMAIN changes /\ changes[e.id].by = "logged" /\ changes[e.id].table = e.table
      /\ changes[e.id].owed = [q \in SourceProcesses |-> Declared!MeantBy(q, e.table, e.before, e.after)]
      /\ e.before # e.after
      /\ e.table \notin spoiled \cup rekeyed => sources[e.table] = e.key
  <2>1. Declared!Pending(outbox[1])
    <3>1. 1 \in DOMAIN outbox
      BY <1>3, <1>4
    <3> QED BY <3>1, SourcesParts DEF Declared!Queued
  <2> QED BY <1>4, <2>1 DEF Declared!Pending
<1>6. Declared!Loads(p) /\ todo[p] = {}
  BY <1>2, SourcesParts DEF Declared!Loaded
<1>7. /\ changes' \in Seq(Declared!ChangeShape) /\ DOMAIN changes' = DOMAIN changes
      /\ changes'[e.id].by = p /\ changes'[e.id].table = e.table /\ changes'[e.id].owed = changes[e.id].owed
      /\ \A i \in DOMAIN changes : i # e.id => changes'[i] = changes[i]
  <2> DEFINE d == [changes[e.id] EXCEPT !.by = p]
  <2>1. DOMAIN changes = 1..Len(changes) /\ Len(changes) \in Nat /\ e.id \in 1..Len(changes)
    BY <1>5, SourcesParts
  <2>2. changes[e.id] \in Declared!ChangeShape
    BY <2>1, SourcesParts, ElementOfSeq
  <2>3. d \in Declared!ChangeShape /\ d.by = p /\ d.table = changes[e.id].table /\ d.owed = changes[e.id].owed
    BY <2>2 DEF Declared!ChangeShape
  <2>4. changes' = [changes EXCEPT ![e.id] = d]
    BY <1>2
  <2> HIDE DEF d
  <2>5. /\ changes' \in Seq(Declared!ChangeShape) /\ Len(changes') = Len(changes)
        /\ \A j \in 1..Len(changes) : changes'[j] = IF j = e.id THEN d ELSE changes[j]
    BY <2>1, <2>3, <2>4, SourcesParts, ExceptSeq
  <2>6. DOMAIN changes' = 1..Len(changes')
    BY <2>5
  <2> QED BY <1>5, <2>1, <2>3, <2>5, <2>6
<1>8. Declared!MatchesOf(Declared!Armed(p), e.table, e.before, e.after)
         = Declared!MeantBy(p, e.table, e.before, e.after)
  BY <1>5, <1>6, SourcesMatch
<1>9. \A r \in reached : r.id # e.id /\ r.id \in DOMAIN changes /\ changes[r.id].by \in SourceProcesses
  BY <1>5, SourcesParts DEF Declared!Drained, Declared!SourceAssumption
<1>10. \A r \in given : r.id = e.id /\ r.key = e.key
                       /\ <<r.to, r.about>> \in Declared!MeantBy(p, e.table, e.before, e.after)
  <2> SUFFICES ASSUME NEW r \in given
               PROVE  r.id = e.id /\ r.key = e.key
                      /\ <<r.to, r.about>> \in Declared!MeantBy(p, e.table, e.before, e.after)
    OBVIOUS
  <2>1. PICK m \in Declared!MeantBy(p, e.table, e.before, e.after) :
           r = [id |-> e.id, to |-> m[1], about |-> m[2], key |-> e.key]
    BY <1>8
  <2>2. m = <<m[1], m[2]>>
    BY DEF Declared!MeantBy
  <2> QED BY <2>1, <2>2
<1>11. \A m \in Declared!MeantBy(p, e.table, e.before, e.after) :
          \E r \in given : m = <<r.to, r.about>>
  <2> SUFFICES ASSUME NEW m \in Declared!MeantBy(p, e.table, e.before, e.after)
               PROVE  \E r \in given : m = <<r.to, r.about>>
    OBVIOUS
  <2> DEFINE r == [id |-> e.id, to |-> m[1], about |-> m[2], key |-> e.key]
  <2>1. r \in given /\ r.to = m[1] /\ r.about = m[2]
    BY <1>8
  <2>2. m = <<m[1], m[2]>>
    BY DEF Declared!MeantBy
  <2> HIDE DEF r
  <2> QED BY <2>1, <2>2
<1> HIDE DEF given
<1>12. Declared!Drained'
  BY <1>2, <1>5, <1>7, <1>9, <1>10 DEF Declared!Drained
<1>13. Declared!DeclaredChangesArrive'
  <2> SUFFICES ASSUME NEW i \in DOMAIN changes
               PROVE  /\ changes'[i].by = "silent" => ~changes'[i].wanted
                      /\ changes'[i].by \in SourceProcesses =>
                            Declared!Delivered(i)' = changes'[i].owed[changes'[i].by]
    BY <1>7 DEF Declared!DeclaredChangesArrive
  <2>1. CASE i = e.id
    <3>1. {s \in reached' : s.id = i} = given
      BY <1>2, <1>9, <1>10, <2>1
    <3>2. Declared!Delivered(i)' = {<<r.to, r.about>> : r \in given}
      BY <3>1 DEF Declared!Delivered
    <3>3. {<<r.to, r.about>> : r \in given} = Declared!MeantBy(p, e.table, e.before, e.after)
      BY <1>10, <1>11
    <3>4. changes'[i].by = p /\ changes'[i].owed[p] = Declared!MeantBy(p, e.table, e.before, e.after)
      BY <1>5, <1>7, <2>1
    <3>5. p # "silent"
      BY DEF Declared!SourceAssumption
    <3> QED BY <3>2, <3>3, <3>4, <3>5
  <2>2. CASE i # e.id
    <3>1. changes'[i] = changes[i]
      BY <1>7, <2>2
    <3>2. {s \in reached' : s.id = i} = {s \in reached : s.id = i}
      BY <1>2, <1>10, <2>2
    <3>3. Declared!Delivered(i)' = Declared!Delivered(i)
      BY <3>2 DEF Declared!Delivered
    <3> QED BY <3>1, <3>3, SourcesParts DEF Declared!DeclaredChangesArrive
  <2> QED BY <2>1, <2>2
<1>14. Declared!UnderItsKey'
  <2> SUFFICES ASSUME NEW r \in reached', changes'[r.id].table \notin spoiled \cup rekeyed,
                      NEW d \in Declared!Armed(changes'[r.id].by), d.name = r.to
               PROVE  d.key = r.key
    BY <1>2 DEF Declared!UnderItsKey
  <2>1. CASE r \in reached
    <3>1. changes'[r.id] = changes[r.id]
      BY <1>7, <1>9, <2>1
    <3> QED BY <2>1, <3>1, SourcesParts DEF Declared!UnderItsKey
  <2>2. CASE r \in given
    <3>1. /\ r.id = e.id /\ r.key = e.key /\ d \in Declared!Armed(p)
          /\ <<r.to, r.about>> \in Declared!MeantBy(p, e.table, e.before, e.after)
          /\ e.table \notin spoiled \cup rekeyed
      BY <1>7, <1>10, <2>2
    <3>2. PICK u \in SourceTargets[p] :
             \E f \in Declared!Meant(u, e.table, e.before, e.after) :
                <<r.to, r.about>> = <<Declared!NameOf(u), f>>
      BY <3>1 DEF Declared!MeantBy
    <3>3. r.to = Declared!NameOf(u) /\ u.table = e.table
      BY <3>2 DEF Declared!Meant
    <3>4. PICK v \in SourceTargets[p] : d = Declared!Registered(v)
      BY <3>1 DEF Declared!Armed
    <3>5. Declared!NameOf(v) = Declared!NameOf(u)
      BY <3>3, <3>4 DEF Declared!Registered
    <3>6. v = u
      BY <1>6, <3>5 DEF Declared!Loads
    <3>7. d.table = e.table
      BY <3>3, <3>4, <3>6 DEF Declared!Registered
    <3>8. d.key = Declared!KeyOf(p, e.table)
      BY <1>6, <3>1, <3>7, SourcesDeclared
    <3>9. e.table \in Declared!Declared(p)
      BY <3>1, <3>7 DEF Declared!Declared
    <3>10. sources[e.table] = Declared!KeyOf(p, e.table)
      BY <1>2, <1>6, <3>1, <3>9, SourcesParts DEF Declared!Wrote
    <3> QED BY <1>5, <3>1, <3>8, <3>10
  <2> QED BY <1>2, <2>1, <2>2
<1>15. \A i \in DOMAIN outbox' : i + 1 \in DOMAIN outbox /\ outbox'[i] = outbox[i + 1] /\ i + 1 # 1
  BY <1>3, <1>4
<1>16. \A i \in DOMAIN outbox' : Declared!Pending(outbox'[i]) /\ outbox'[i].id # e.id
  <2>1. 1 \in DOMAIN outbox
    BY <1>3, <1>4
  <2> QED BY <1>4, <1>15, <2>1, SourcesParts DEF Declared!Queued
<1>17. \A i \in DOMAIN outbox' : Declared!Pending(outbox[i])'
  <2> SUFFICES ASSUME NEW i \in DOMAIN outbox' PROVE Declared!Pending(outbox[i])'
    OBVIOUS
  <2>1. PICK x : x = outbox'[i]
    OBVIOUS
  <2>2. Declared!Pending(x) /\ x.id # e.id
    BY <1>16, <2>1
  <2>3. Declared!Pending(x)'
    BY <1>2, <1>7, <2>2 DEF Declared!Pending
  <2> QED BY <2>1, <2>3 DEF Declared!Pending
<1>18. \A i, j \in DOMAIN outbox' : i # j => outbox'[i].id # outbox'[j].id
  <2> SUFFICES ASSUME NEW i \in DOMAIN outbox', NEW j \in DOMAIN outbox', i # j
               PROVE  outbox'[i].id # outbox'[j].id
    OBVIOUS
  <2>1. i \in Int /\ j \in Int /\ i + 1 # j + 1
    BY <1>3, <1>4
  <2> QED BY <1>15, <2>1, SourcesParts DEF Declared!Queued
<1>19. Declared!Queued' /\ Declared!Shapes'
  BY <1>3, <1>7, <1>17, <1>18 DEF Declared!Queued, Declared!Shapes
<1>20. \A i \in DOMAIN outbox' : outbox'[i].id \in DOMAIN changes'
  BY <1>17 DEF Declared!Pending
<1>21. \A i \in DOMAIN changes' : changes'[i].by \in SourceProcesses \cup {"logged", "silent", "excused"}
  BY <1>7, SourcesParts DEF Declared!TypeOK
<1>22. row' \in [SourceTables -> Declared!Rows \cup {Declared!Gone}] /\ sourceFaults' \in 0..SourceFaults
  BY <1>2, SourcesParts
<1> QED BY <1>2, <1>12, <1>13, <1>14, <1>19, <1>20, <1>21, <1>22, SourcesLoggedKinds

\* Nothing runs and nothing was logged to begin with.
LEMMA SourcesStarts == Declared!SourceAssumption /\ Declared!Init => Declared!IInv
<1> SUFFICES ASSUME Declared!SourceAssumption, Declared!Init PROVE Declared!IInv
  OBVIOUS
<1>1. /\ sources = [t \in SourceTables |-> Declared!None] /\ at = [p \in SourceProcesses |-> "down"]
      /\ read = [p \in SourceProcesses |-> sources] /\ todo = [p \in SourceProcesses |-> {}] /\ boots = 0
      /\ row = [t \in SourceTables |-> Declared!Gone] /\ outbox = <<>> /\ changes = <<>> /\ reached = {}
      /\ spoiled = {} /\ rekeyed = {} /\ sourceFaults = 0
  BY DEF Declared!Init
<1>2. DOMAIN outbox = {} /\ DOMAIN changes = {}
  BY <1>1
<1>3. Declared!TypeOK
  <2>1. 0 \in 0..SourceBoots /\ 0 \in 0..SourceFaults
    BY DEF Declared!SourceAssumption
  <2>2. /\ sources \in [SourceTables -> Declared!Keys]
        /\ read \in [SourceProcesses -> [SourceTables -> Declared!Keys]]
    BY <1>1 DEF Declared!Keys
  <2> QED BY <1>1, <1>2, <2>1, <2>2 DEF Declared!TypeOK
<1>4. Declared!Shapes
  BY <1>1 DEF Declared!Shapes
<1>5. Declared!Loaded /\ Declared!Wrote
  BY <1>1 DEF Declared!Loaded, Declared!Wrote
<1>6. Declared!Queued /\ Declared!Drained /\ Declared!DeclaredChangesArrive /\ Declared!UnderItsKey
  BY <1>1, <1>2 DEF Declared!Queued, Declared!Drained, Declared!DeclaredChangesArrive, Declared!UnderItsKey
<1> QED BY <1>3, <1>4, <1>5, <1>6 DEF Declared!IInv

\* Every step of a fleet keeps the invariant.
LEMMA SourcesSteps ==
    Declared!SourceAssumption /\ Declared!IInv /\ [Declared!Next]_(Declared!sourceVars) => Declared!IInv'
<1> SUFFICES ASSUME Declared!SourceAssumption, Declared!IInv, [Declared!Next]_(Declared!sourceVars)
             PROVE  Declared!IInv'
  OBVIOUS
<1>1. CASE UNCHANGED Declared!sourceVars
  <2>1. /\ sources' = sources /\ at' = at /\ read' = read /\ todo' = todo /\ boots' = boots /\ row' = row
        /\ spoiled' = spoiled /\ rekeyed' = rekeyed /\ sourceFaults' = sourceFaults /\ Declared!Around
    BY <1>1 DEF Declared!sourceVars, Declared!Around
  <2>2. /\ Declared!Shapes' /\ Declared!Queued' /\ Declared!Drained' /\ Declared!DeclaredChangesArrive'
        /\ Declared!UnderItsKey' /\ outbox' = outbox /\ changes' = changes
    BY <2>1, SourcesAround
  <2>3. /\ \A i \in DOMAIN outbox' : outbox'[i].id \in DOMAIN changes'
        /\ \A i \in DOMAIN changes' :
              changes'[i].by \in SourceProcesses \cup {"logged", "silent", "excused"}
        /\ row' \in [SourceTables -> Declared!Rows \cup {Declared!Gone}]
        /\ sourceFaults' \in 0..SourceFaults
    BY <2>1, <2>2, SourcesParts DEF Declared!TypeOK
  <2> QED BY <2>1, <2>2, <2>3, SourcesLoggedKinds
<1>2. CASE Declared!Next
  <2>1. ASSUME NEW p \in SourceProcesses, Declared!Boot(p) PROVE Declared!IInv'
    BY <2>1, SourcesBoot
  <2>2. ASSUME NEW p \in SourceProcesses, Declared!Read(p) PROVE Declared!IInv'
    BY <2>2, SourcesRead
  <2>3. ASSUME NEW p \in SourceProcesses, Declared!Write(p) PROVE Declared!IInv'
    BY <2>3, SourcesWrite
  <2>4. ASSUME NEW p \in SourceProcesses, Declared!Drop(p) PROVE Declared!IInv'
    BY <2>4, SourcesDrop
  <2>5. ASSUME NEW p \in SourceProcesses, Declared!Stop(p) PROVE Declared!IInv'
    BY <2>5, SourcesStop
  <2>6. ASSUME NEW p \in SourceProcesses, Declared!Drain(p) PROVE Declared!IInv'
    BY <2>6, SourcesDrain
  <2>7. ASSUME NEW t \in SourceTables, Declared!Commit(t) PROVE Declared!IInv'
    BY <2>7, SourcesCommit
  <2> QED BY <1>2, <2>1, <2>2, <2>3, <2>4, <2>5, <2>6, <2>7 DEF Declared!Next
<1> QED BY <1>1, <1>2

\* What the invariant says of the changes.
LEMMA SourcesKept ==
    Declared!IInv => Declared!TypeOK /\ Declared!DeclaredChangesArrive /\ Declared!UnderItsKey
BY DEF Declared!IInv

\* The variables of RealtimeChannels.
stored == v1
seen == v4
booted == v5
refusedSync == v7
grants == v8
USE DEF stored, seen, booted, refusedSync, grants

-----------------------------------------------------------------------------
(* Who hears a channel (realtime: src/db/channels.ts, src/core/registry.ts).  *)

\* Nothing is declared and nobody is up.
LEMMA OpennessStarts ==
    ASSUME Openness!ChannelAssumption, Openness!Init
    PROVE  Openness!Synced
BY DEF Openness!Init, Openness!Synced, Openness!Absent, Openness!ChannelAssumption

\* A process that reads the row goes on to write it when the row says something else than it
\* declares, which can only be that it is missing.
LEMMA OpennessLook ==
    ASSUME Openness!ChannelAssumption, Openness!Synced, NEW p \in OpenProcesses, Openness!Look(p)
    PROVE  Openness!Synced'
<1>1. /\ booted' = booted \cup {p} /\ p \notin booted
      /\ UNCHANGED <<stored, refusedSync>>
      /\ at' \in [OpenProcesses -> {"down", "writing", "up"}]
      /\ seen' \in [OpenProcesses -> Openness!Openness \cup {Openness!Absent}]
      /\ \/ /\ at' = [at EXCEPT ![p] = IF OpenListen[p] \in {Openness!Absent, stored}
                                       THEN "up" ELSE "writing"]
            /\ seen' = [seen EXCEPT ![p] = stored]
         \/ at' = at /\ seen' = seen
  BY DEF Openness!Look, Openness!SyncKeeps, Openness!Fails, Openness!Synced, Openness!ChannelAssumption
<1>2. /\ stored' \in Openness!Openness \cup {Openness!Absent}
      /\ at' \in [OpenProcesses -> {"down", "writing", "up"}]
      /\ seen' \in [OpenProcesses -> Openness!Openness \cup {Openness!Absent}]
  BY <1>1 DEF Openness!Synced
<1>3. ASSUME NEW o \in Openness!Openness, Openness!Agreed(o)'
      PROVE  /\ stored' \in {Openness!Absent, o}
             /\ \A q \in OpenProcesses : /\ at'[q] = "up" /\ OpenListen[q] # Openness!Absent => stored' = o
                                         /\ at'[q] = "writing" => seen'[q] = Openness!Absent
  <2>0. Openness!Agreed(o)
    BY <1>1, <1>3 DEF Openness!Agreed
  <2>1. stored \in {Openness!Absent, o} /\ OpenListen[p] \in {Openness!Absent, o}
    <3>1. p \in booted' /\ \A q \in booted' : OpenListen[q] \in {Openness!Absent, o}
      BY <1>1, <1>3 DEF Openness!Agreed
    <3> QED BY <2>0, <3>1 DEF Openness!Synced
  <2>2. ASSUME NEW q \in OpenProcesses
        PROVE  /\ at[q] = "up" /\ OpenListen[q] # Openness!Absent => stored = o
               /\ at[q] = "writing" => seen[q] = Openness!Absent
    BY <2>0 DEF Openness!Synced
  <2> QED BY <1>1, <2>1, <2>2 DEF Openness!Synced
<1>4. \A q \in OpenProcesses : /\ at'[q] # "down" => q \in booted'
                               /\ at'[q] = "writing" => OpenListen[q] # Openness!Absent
  BY <1>1 DEF Openness!Synced, Openness!TypeOK
<1> QED BY <1>2, <1>3, <1>4 DEF Openness!Synced

\* What it writes is what whoever else is up wrote.
LEMMA OpennessSync ==
    ASSUME Openness!ChannelAssumption, Openness!Synced, NEW p \in OpenProcesses, Openness!Sync(p)
    PROVE  Openness!Synced'
<1>1. /\ at[p] = "writing" /\ at' = [at EXCEPT ![p] = "up"] /\ OpenListen[p] \in Openness!Openness
      /\ UNCHANGED <<seen, booted>>
      /\ \/ /\ stored' = IF (seen[p] = Openness!Absent) = (stored = Openness!Absent)
                         THEN OpenListen[p] ELSE stored
            /\ refusedSync' = refusedSync
         \/ refusedSync' = TRUE /\ stored' = stored
  BY DEF Openness!Sync, Openness!SyncKeeps, Openness!Fails, Openness!ChannelAssumption, Openness!Synced
<1>2. /\ stored' \in Openness!Openness \cup {Openness!Absent}
      /\ at' \in [OpenProcesses -> {"down", "writing", "up"}]
      /\ seen' \in [OpenProcesses -> Openness!Openness \cup {Openness!Absent}]
  BY <1>1 DEF Openness!Synced
<1>3. ASSUME NEW o \in Openness!Openness, Openness!Agreed(o)'
      PROVE  /\ stored' \in {Openness!Absent, o}
             /\ \A q \in OpenProcesses : /\ at'[q] = "up" /\ OpenListen[q] # Openness!Absent => stored' = o
                                         /\ at'[q] = "writing" => seen'[q] = Openness!Absent
  <2>0. Openness!Agreed(o)
    BY <1>1, <1>3 DEF Openness!Agreed
  <2>1. /\ stored \in {Openness!Absent, o} /\ p \in booted /\ seen[p] = Openness!Absent
        /\ OpenListen[p] # Openness!Absent
    BY <1>1, <2>0 DEF Openness!Synced
  <2>2. OpenListen[p] = o /\ stored' = o
    <3>1. ~refusedSync'
      BY <1>3 DEF Openness!Agreed
    <3> QED BY <1>1, <2>0, <2>1, <3>1 DEF Openness!Agreed
  <2>3. ASSUME NEW q \in OpenProcesses, at[q] = "writing" PROVE seen[q] = Openness!Absent
    BY <2>0, <2>3 DEF Openness!Synced
  <2> QED BY <1>1, <2>2, <2>3 DEF Openness!Synced
<1>4. \A q \in OpenProcesses : /\ at'[q] # "down" => q \in booted'
                               /\ at'[q] = "writing" => OpenListen[q] # Openness!Absent
  BY <1>1 DEF Openness!Synced, Openness!TypeOK
<1> QED BY <1>2, <1>3, <1>4 DEF Openness!Synced

\* Grants and listings leave the row and the processes alone.
LEMMA OpennessGrants ==
    ASSUME Openness!ChannelAssumption, Openness!Synced,
           \/ \E r \in OpenRequests : Openness!Handle(r)
           \/ \E c \in Openness!Granted : Openness!StartWalk(c)
           \/ Openness!Walk
    PROVE  Openness!Synced'
<1>1. UNCHANGED <<stored, at, seen, booted, refusedSync>>
  BY DEF Openness!Handle, Openness!Begin, Openness!Grant, Openness!LookBefore, Openness!Revoke, Openness!RevokeAll,
         Openness!Answer, Openness!StartWalk, Openness!Walk, Openness!GrantKeeps
<1> QED BY <1>1 DEF Openness!Synced, Openness!Agreed

\* Each step keeps the invariant.
LEMMA OpennessSteps ==
    ASSUME Openness!ChannelAssumption, Openness!Synced, [Openness!Next]_(Openness!channelVars)
    PROVE  Openness!Synced'
<1>1. ASSUME Openness!Next PROVE Openness!Synced'
  BY <1>1, OpennessLook, OpennessSync, OpennessGrants DEF Openness!Next
<1>2. ASSUME UNCHANGED Openness!channelVars PROVE Openness!Synced'
  BY <1>2 DEF Openness!channelVars, Openness!Synced, Openness!Agreed
<1> QED BY <1>1, <1>2

\* From the invariant: who hears a channel is who its processes declare and who was granted it.
LEMMA OpennessKept ==
    ASSUME Openness!ChannelAssumption, Openness!Synced
    PROVE  Openness!HeardAsDeclared
<1> SUFFICES ASSUME NEW p \in OpenProcesses, at[p] = "up", OpenListen[p] # Openness!Absent, ~refusedSync,
                    \A q \in booted : OpenListen[q] \in {Openness!Absent, OpenListen[p]}
             PROVE  /\ Openness!Listeners("all") = Openness!PopulationOf(OpenListen[p])
                          \cup {a \in OpenAccounts : <<"all", a>> \in grants}
                    /\ Openness!Listeners("topic") = {a \in OpenAccounts : <<"topic", a>> \in grants}
                    /\ \A a \in OpenAccounts : Openness!ListenersOfAccount(a) = {a}
  BY DEF Openness!HeardAsDeclared
<1>1. OpenListen[p] \in Openness!Openness /\ stored = OpenListen[p]
  <2>1. OpenListen[p] \in Openness!Openness
    BY DEF Openness!ChannelAssumption
  <2>2. /\ stored \in {Openness!Absent, OpenListen[p]}
        /\ \A q \in OpenProcesses : at[q] = "up" /\ OpenListen[q] # Openness!Absent => stored = OpenListen[p]
    BY <2>1 DEF Openness!Synced, Openness!Agreed
  <2> QED BY <2>1, <2>2
<1>2. stored \in {"granted", "authenticated", "public"} /\ Openness!Absent = "absent"
  BY <1>1 DEF Openness!Openness, Openness!Absent
<1>3. Openness!Listeners("all") = Openness!PopulationOf(stored) \cup {a \in OpenAccounts : <<"all", a>> \in grants}
  BY <1>2 DEF Openness!Listeners, Openness!Private, Openness!PopulationOf
<1>4. Openness!Listeners("topic") = {a \in OpenAccounts : <<"topic", a>> \in grants}
  BY <1>2 DEF Openness!Listeners, Openness!Private
<1>5. \A a \in OpenAccounts : Openness!ListenersOfAccount(a) = {a}
  BY <1>2 DEF Openness!ListenersOfAccount
<1> QED BY <1>1, <1>3, <1>4, <1>5
===============================================================================
