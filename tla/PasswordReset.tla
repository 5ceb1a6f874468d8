---------------------------- MODULE PasswordReset ----------------------------
(* The reset of a forgotten password (auth/lib/src/reset_password.ts and      *)
(* password.ts) beside the change of the phone of the same account            *)
(* (identifier.ts). Both mark in Redis what the code sent to the number is    *)
(* for (sms_intent.ts); a proof buys a pending token, a token one password.   *)
EXTENDS Naturals, FiniteSets

CONSTANTS
    Confirms,        \* calls of ResetPassword.confirmPhone
    Completes,       \* calls of ResetPassword.complete
    MaxSends,        \* bound: codes asked for, by either flow
    MaxResetFaults   \* bound: calls of GoTrue, of Redis and of the table that fail

ResetAssumption == MaxSends \in Nat /\ MaxResetFaults \in Nat

VARIABLES
    mark,      \* the sms-intent entry: what it is for and which marking laid it
    marks,     \* markings so far
    asking,    \* per flow: a marking laid whose code is not sent yet
    smsCode,   \* the reset code GoTrue holds, by number, 0 when none or used up
    links,     \* recovery links not followed yet
    proofs,    \* issued pending tokens: the proof each was issued for
    unspent,   \* tokens whose row is there; a token that was issued may have none
    confirm,   \* per call: step, code presented, mark read, calls it overlapped, and how
               \* Redis took the deletion of the mark
    complete,  \* per call: step and token
    resetFaults

resetVars == <<mark, marks, asking, smsCode, links, proofs, unspent, confirm, complete, resetFaults>>

NoMark == [for |-> "none", no |-> 0]
Resting(pc) == [pc |-> pc, code |-> 0, mark |-> NoMark, over |-> {}, unlink |-> "none"]
Flows == {"reset", "change"}
Fault == resetFaults < MaxResetFaults /\ resetFaults' = resetFaults + 1
May(ok) == IF ok THEN UNCHANGED resetFaults ELSE Fault

Init ==
    /\ mark = NoMark /\ marks = 0 /\ asking = [f \in Flows |-> FALSE]
    /\ smsCode = 0 /\ links = 1 /\ proofs = {} /\ unspent = {}
    /\ confirm = [c \in Confirms |-> Resting("idle")]
    /\ complete = [c \in Completes |-> [pc |-> "idle", token |-> 0]]
    /\ resetFaults = 0

\* phone: the mark is laid over the one there is, before the code is sent; a store that
\* refuses to lay it answers as if it had.
Ask(f, laid) ==
    /\ marks < MaxSends /\ ~asking[f] /\ May(laid)
    /\ marks' = marks + 1 /\ mark' = IF laid THEN [for |-> f, no |-> marks'] ELSE mark
    /\ asking' = [asking EXCEPT ![f] = TRUE]
    /\ UNCHANGED <<smsCode, links, proofs, unspent, confirm, complete>>

\* A send that fails forgets the mark, whosever it is by now, if the store takes that.
Send(f, ok) ==
    /\ asking[f] /\ asking' = [asking EXCEPT ![f] = FALSE]
    /\ May(ok)
    /\ mark' \in IF ok THEN {mark} ELSE {mark, NoMark}
    /\ smsCode' = IF ok /\ f = "reset" THEN marks ELSE smsCode
    /\ UNCHANGED <<marks, links, proofs, unspent, confirm, complete>>

ExpireMark ==
    /\ mark # NoMark /\ mark' = NoMark
    /\ UNCHANGED <<marks, asking, smsCode, links, proofs, unspent, confirm, complete, resetFaults>>

\* confirmPhone reads the mark; SmsIntentStore.consume deletes it in a second call.
Confirm(c, k) ==
    /\ confirm[c].pc = "idle" /\ k \in {0, smsCode}
    /\ confirm' = [confirm EXCEPT ![c] =
         IF mark = NoMark THEN Resting("done")
         ELSE [pc |-> "delete", code |-> k, mark |-> mark,
               over |-> {d \in Confirms : confirm[d].pc = "delete"}, unlink |-> "none"]]
    /\ UNCHANGED <<mark, marks, asking, smsCode, links, proofs, unspent, complete, resetFaults>>

\* The mark goes whatever it was for. The store swallows a refused UNLINK: the mark stays,
\* and the call goes on with what it read.
Delete(c, unlink) ==
    /\ confirm[c].pc = "delete" /\ May(unlink = "taken")
    /\ mark' = IF unlink = "taken" THEN NoMark ELSE mark
    /\ confirm' = [confirm EXCEPT ![c] =
         IF @.mark.for = "reset" THEN [@ EXCEPT !.pc = "verify", !.unlink = unlink] ELSE Resting("done")]
    /\ UNCHANGED <<marks, asking, smsCode, links, proofs, unspent, complete>>

\* A token is handed out whether its row was saved or not: the answer of the insert is a
\* Result, and every Result is truthy.
Issue(proof, saved) ==
    LET t == Cardinality(proofs) + 1 IN
    /\ proofs' = proofs \union {[token |-> t, proof |-> proof]}
    /\ unspent' = IF saved THEN unspent \union {t} ELSE unspent

\* GoTrue takes a code once, and its answer may be lost (heard). The session it opens is
\* revoked and a token issued, whose row may be refused (saved).
Verify(c, heard, saved) ==
    LET right == confirm[c].code = smsCode /\ smsCode # 0 IN
    /\ confirm[c].pc = "verify" /\ (saved \/ (right /\ heard)) /\ May(heard /\ saved)
    /\ smsCode' = IF right THEN 0 ELSE smsCode
    /\ confirm' = [confirm EXCEPT ![c].pc = IF right /\ heard THEN "proven" ELSE "refused"]
    /\ IF right /\ heard THEN Issue(confirm[c].code, saved) ELSE UNCHANGED <<proofs, unspent>>
    /\ UNCHANGED <<mark, marks, asking, links, complete>>

\* A recovery link, which GoTrue follows once, is a proof of its own (number 0).
FromRecovery(saved) ==
    /\ links > 0 /\ links' = links - 1 /\ May(saved)
    /\ Issue(0, saved)
    /\ UNCHANGED <<mark, marks, asking, smsCode, confirm, complete>>

\* complete finds the row of the token, then spends it.
Complete(d, t) ==
    /\ complete[d].pc = "idle" /\ t \in unspent
    /\ complete' = [complete EXCEPT ![d] = [pc |-> "consume", token |-> t]]
    /\ UNCHANGED <<mark, marks, asking, smsCode, links, proofs, unspent, confirm, resetFaults>>

\* Mutant of Consume: a token somebody else spent is as good.
ConsumeUnlooked(d) ==
    LET t == complete[d].token IN
    /\ complete[d].pc = "consume"
    /\ unspent' = unspent \ {t}
    /\ complete' = [complete EXCEPT ![d] = [@ EXCEPT !.pc = "write"]]
    /\ UNCHANGED <<mark, marks, asking, smsCode, links, proofs, confirm, resetFaults>>

Consume(d) ==
    LET t == complete[d].token IN
    /\ complete[d].pc = "consume"
    /\ unspent' = unspent \ {t}
    /\ complete' = [complete EXCEPT ![d] = IF t \in unspent THEN [@ EXCEPT !.pc = "write"]
                                                   ELSE [pc |-> "done", token |-> 0]]
    /\ UNCHANGED <<mark, marks, asking, smsCode, links, proofs, confirm, resetFaults>>

\* AccountPassword.reset: the limits, then the rules of a password, may refuse what the
\* token was already spent for.
Write(d, outcome) ==
    /\ complete[d].pc = "write"
    /\ complete' = [complete EXCEPT ![d].pc = outcome]
    /\ UNCHANGED <<mark, marks, asking, smsCode, links, proofs, unspent, confirm, resetFaults>>

Next ==
    \/ \E f \in Flows, ok \in BOOLEAN : Ask(f, ok) \/ Send(f, ok)
    \/ ExpireMark \/ \E saved \in BOOLEAN : FromRecovery(saved)
    \/ \E c \in Confirms :
        \/ \E unlink \in {"taken", "refused"} : Delete(c, unlink)
        \/ \E k \in 0..MaxSends : Confirm(c, k)
        \/ \E heard, saved \in BOOLEAN : Verify(c, heard, saved)
    \/ \E d \in Completes :
        \/ Consume(d)
        \/ \E t \in unspent : Complete(d, t)
        \/ \E outcome \in {"written", "refused"} : Write(d, outcome)

Spec == Init /\ [][Next]_resetVars

-----------------------------------------------------------------------------
Marks == [for: Flows \union {"none"}, no: 0..marks]
ConfirmStates ==
    [pc: {"idle", "delete", "verify", "proven", "refused", "done"}, code: 0..marks, mark: Marks,
     over: SUBSET Confirms, unlink: {"none", "taken", "refused"}]
CompleteStates ==
    [pc: {"idle", "consume", "write", "written", "refused", "done"}, token: 0..Cardinality(proofs)]

TypeOK ==
    /\ mark \in Marks /\ marks \in 0..MaxSends
    /\ asking \in [Flows -> BOOLEAN] /\ smsCode \in 0..marks /\ links \in 0..1
    /\ IsFiniteSet(proofs) /\ proofs \subseteq [token: 1..Cardinality(proofs), proof: 0..marks]
    /\ unspent \subseteq 1..Cardinality(proofs)
    /\ confirm \in [Confirms -> ConfirmStates] /\ complete \in [Completes -> CompleteStates]
    /\ resetFaults \in 0..MaxResetFaults

Passed(c) == confirm[c].pc \in {"verify", "proven", "refused"}

\* A proof buys one password change: no code and no link is worth two tokens and no token
\* two writes; a mark lets a second verification through only if both read it before
\* either deleted it, or if Redis refused the deletion of one of them. Of sms_intent.ts ("so
\* a second verification cannot reuse it") that is what is left: the store hides a refusal.
OneChangePerProof ==
    /\ \A p, q \in proofs : p.proof = q.proof => p = q
    /\ \A d, e \in Completes :
        complete[d].pc = "written" /\ complete[e].pc = "written" /\ d # e
        => complete[d].token # complete[e].token
    /\ \A c, d \in Confirms :
        Passed(c) /\ Passed(d) /\ c # d /\ confirm[c].mark = confirm[d].mark
        => \/ c \in confirm[d].over \/ d \in confirm[c].over
           \/ confirm[c].unlink = "refused" \/ confirm[d].unlink = "refused"

\* Why that holds. Each code is sent for a mark laid after it was last used, and goes with its
\* proof; the link is one proof.
ProofsBought ==
    /\ \A p, q \in proofs : p.proof = q.proof => p = q
    /\ asking["reset"] => smsCode < marks /\ \A p \in proofs : p.proof < marks
    /\ \A p \in proofs : p.proof = smsCode => smsCode = 0
    /\ links = 1 => \A p \in proofs : p.proof # 0

\* Who takes the row of a token is alone with it.
Took(d) == complete[d].pc \in {"write", "written", "refused"}
TokensTaken ==
    /\ \A d \in Completes : Took(d) => complete[d].token \notin unspent \union {0}
    /\ \A d, e \in Completes : Took(d) /\ Took(e) /\ d # e => complete[d].token # complete[e].token

\* A mark is gone once somebody who read it deleted one.
Reads(c) == Passed(c) \/ confirm[c].pc = "delete"
MarksRead ==
    /\ mark = NoMark \/ mark.no # 0
    /\ \A c \in Confirms : /\ Reads(c) => confirm[c].mark.no # 0
                           /\ confirm[c].pc = "delete" => confirm[c].unlink = "none"
    /\ \A c \in Confirms : Passed(c) /\ confirm[c].unlink # "refused" => confirm[c].mark.no # mark.no
    /\ \A c, d \in Confirms :
        Reads(c) /\ Reads(d) /\ c # d /\ confirm[c].mark.no = confirm[d].mark.no
        => \/ c \in confirm[d].over \/ d \in confirm[c].over
           \/ confirm[c].unlink = "refused" \/ confirm[d].unlink = "refused"

IInv == TypeOK /\ ProofsBought /\ TokensTaken /\ MarksRead
=============================================================================
