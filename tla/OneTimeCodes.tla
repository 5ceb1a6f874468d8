---------------------------- MODULE OneTimeCodes ----------------------------
(* The second step of a sign-in (auth/lib/src/sign_in/otp.ts and runner.ts):*)
(* a door that authenticates and answers with a pending token, the resend   *)
(* that replaces the token, and the verification that spends it for a       *)
(* session. One identifier, any number of calls at once. GoTrue keeps one   *)
(* code per identifier: a send replaces it, the right answer uses it up.    *)
EXTENDS Naturals, FiniteSets

CONSTANTS
    Calls,
    Kind,        \* what each call is: "start", "resend" or "verify"
    MaxTokens, Attempts, MaxFaults

CodeAssumption ==
    /\ Kind \in [Calls -> {"start", "resend", "verify"}]
    /\ MaxTokens \in Nat \ {0} /\ Attempts \in Nat \ {0} /\ MaxFaults \in Nat

VARIABLES
    rows,      \* tokens whose row is in the table, unexpired
    issued,    \* tokens issued so far: 1..issued
    parent,    \* the token a resend issued this one for, 0 for a door
    replaced,  \* tokens whose resend did delete the row of its parent
    code,      \* which send the code of GoTrue comes from, 0 when used up
    sent,      \* codes sent
    tried,     \* INCR counters: per kind of call and token
    guessed,   \* verifications GoTrue was asked for, per token
    call,      \* per call: token, code presented, step, outcome
    open,      \* calls whose session is open at GoTrue
    codeFaults

otpVars == <<rows, issued, parent, replaced, code, sent, tried, guessed, call, open, codeFaults>>

Tokens == 1..MaxTokens
Idle == [token |-> 0, code |-> 0, pc |-> "idle", out |-> "none"]
Ended(c) == call[c].pc \in {"done", "dead"}

Init ==
    /\ rows = {} /\ issued = 0 /\ parent = [t \in Tokens |-> 0] /\ replaced = {}
    /\ code = 0 /\ sent = 0
    /\ tried = [k \in {"resend", "verify"} |-> [t \in Tokens |-> 0]]
    /\ guessed = [t \in Tokens |-> 0]
    /\ call = [c \in Calls |-> Idle]
    /\ open = {} /\ codeFaults = 0

Goto(c, pc) == call' = [call EXCEPT ![c].pc = pc]
End(c, out) == call' = [call EXCEPT ![c].pc = "done", ![c].out = out]
Fault == codeFaults < MaxFaults /\ codeFaults' = codeFaults + 1

\* The door: the credentials are right, GoTrue opens a session and the device is
\* not trusted; or the answer that names the session is lost.
SignIn(c) ==
    /\ Kind[c] = "start" /\ call[c].pc = "idle"
    /\ \/ Goto(c, "send") /\ UNCHANGED codeFaults
       \/ End(c, "unheard") /\ Fault
    /\ open' = open \union {c}
    /\ UNCHANGED <<rows, issued, parent, replaced, code, sent, tried, guessed>>

\* A client comes back with a token and, to verify, with the last code or a wrong one.
Ask(c, t, k) ==
    /\ Kind[c] # "start" /\ call[c].pc = "idle"
    /\ t <= issued /\ k \in (IF Kind[c] = "verify" THEN {0, sent} ELSE {0})
    /\ call' = [call EXCEPT ![c] = [token |-> t, code |-> k, pc |-> "budget", out |-> "none"]]
    /\ UNCHANGED <<rows, issued, parent, replaced, code, sent, tried, guessed, open, codeFaults>>

\* Mutant of Budget: the attempt past the last is let through.
BudgetPlusOne(c) ==
    LET t == call[c].token  k == Kind[c] IN
    /\ call[c].pc = "budget"
    /\ tried' = [tried EXCEPT ![k][t] = @ + 1]
    /\ IF tried[k][t] > Attempts
       THEN rows' = rows \ {t} /\ End(c, "none")
       ELSE rows' = rows /\ (Goto(c, "exists") \/ End(c, "none"))
    /\ UNCHANGED <<issued, parent, replaced, code, sent, guessed, open, codeFaults>>

\* The counter of the challenge, then the limits of the recipient, which may refuse.
Budget(c) ==
    LET t == call[c].token  k == Kind[c] IN
    /\ call[c].pc = "budget"
    /\ tried' = [tried EXCEPT ![k][t] = @ + 1]
    /\ IF tried[k][t] >= Attempts
       THEN rows' = rows \ {t} /\ End(c, "none")
       ELSE rows' = rows /\ (Goto(c, "exists") \/ End(c, "none"))
    /\ UNCHANGED <<issued, parent, replaced, code, sent, guessed, open, codeFaults>>

\* Redis does not count, or the table is not read: the call ends, and the token is not spent.
Uncounted(c) ==
    /\ call[c].pc \in {"budget", "exists"} /\ Fault /\ End(c, "none")
    /\ UNCHANGED <<rows, issued, parent, replaced, code, sent, tried, guessed, open>>

\* The row is there, and of a resend the identifier is still of this role.
Exists(c) ==
    /\ call[c].pc = "exists"
    /\ \/ /\ call[c].token \in rows
          /\ Goto(c, IF Kind[c] = "resend" THEN "send" ELSE "verify")
       \/ /\ call[c].token \notin rows \/ Kind[c] = "resend"
          /\ End(c, "none")
    /\ UNCHANGED <<rows, issued, parent, replaced, code, sent, tried, guessed, open, codeFaults>>

\* Of a door and of a resend: the new code takes the place of the one before.
Send(c) ==
    /\ call[c].pc = "send" /\ issued < MaxTokens
    /\ sent' = sent + 1 /\ code' = sent'
    /\ Goto(c, "issue")
    /\ UNCHANGED <<rows, issued, parent, replaced, tried, guessed, open, codeFaults>>

\* The token is answered whether or not the insert of its row was refused: what the
\* insert answers is read as a boolean.
Issue(c, saved) ==
    /\ call[c].pc = "issue" /\ issued < MaxTokens
    /\ IF saved THEN UNCHANGED codeFaults ELSE Fault
    /\ issued' = issued + 1
    /\ rows' = IF saved THEN rows \union {issued'} ELSE rows
    /\ parent' = [parent EXCEPT ![issued'] = call[c].token]
    /\ Goto(c, IF Kind[c] = "resend" THEN "replace" ELSE "revoke")
    /\ UNCHANGED <<replaced, code, sent, tried, guessed, open>>

\* Mutant of NotSent: a door whose code was not sent leaves its session.
NotSentKeepsTheSession(c) ==
    /\ call[c].pc = "send" /\ Fault
    /\ End(c, "none")
    /\ UNCHANGED <<rows, issued, parent, replaced, code, sent, tried, guessed, open>>

\* The send fails, or its answer is lost.
NotSent(c) ==
    /\ call[c].pc = "send" /\ Fault
    /\ IF Kind[c] = "resend" THEN End(c, "none") ELSE Goto(c, "revoke")
    /\ \/ UNCHANGED <<code, sent>>
       \/ sent' = sent + 1 /\ code' = sent'
    /\ UNCHANGED <<rows, issued, parent, replaced, tried, guessed, open>>

\* The resend deletes the row of the token it replaces and ignores what came of it.
Replace(c, ok) ==
    LET t == call[c].token IN
    /\ call[c].pc = "replace"
    /\ IF ok THEN UNCHANGED codeFaults ELSE Fault
    /\ rows' = IF ok THEN rows \ {t} ELSE rows
    /\ replaced' = IF ok /\ t \in rows
                   THEN replaced \union {u \in 1..issued : parent[u] = t} ELSE replaced
    /\ End(c, "none")
    /\ UNCHANGED <<issued, parent, code, sent, tried, guessed, open>>

\* GoTrue judges the code: the right one opens a session and is used up, and the account
\* turns out to be of this role or of another; or the answer is lost, or GoTrue not reached.
Verify(c) ==
    LET right == call[c].code = code /\ code # 0 IN
    /\ call[c].pc = "verify"
    /\ guessed' = [guessed EXCEPT ![call[c].token] = @ + 1]
    /\ \/ /\ right /\ code' = 0 /\ open' = open \union {c}
          /\ \/ (Goto(c, "consume") \/ Goto(c, "revoke")) /\ UNCHANGED codeFaults
             \/ End(c, "unheard") /\ Fault
       \/ /\ UNCHANGED <<code, open>> /\ End(c, "none")
          /\ IF right THEN Fault ELSE UNCHANGED codeFaults
    /\ UNCHANGED <<rows, issued, parent, replaced, sent, tried>>

\* The row is deleted while the device registers: a row that was not deleted, or not that one
\* knows, and a request without a device send the session back. A device that cannot be looked
\* up raises, past what would have revoked the session.
Consume(c, deleted, heard, device) ==
    LET t == call[c].token  consumed == t \in rows /\ deleted /\ heard IN
    /\ call[c].pc = "consume"
    /\ IF deleted /\ heard /\ device = "registered" THEN UNCHANGED codeFaults ELSE Fault
    /\ rows' = IF deleted THEN rows \ {t} ELSE rows
    /\ IF device = "raised" THEN End(c, "raised")
       ELSE IF consumed /\ device = "registered" THEN End(c, "session")
       ELSE Goto(c, "revoke")
    /\ UNCHANGED <<issued, parent, replaced, code, sent, tried, guessed, open>>

\* AccountRevocation.session: the logout of a session nobody was given. Its failure is
\* not noticed.
Revoke(c, ok) ==
    /\ call[c].pc = "revoke"
    /\ IF ok THEN open' = open \ {c} /\ UNCHANGED codeFaults ELSE UNCHANGED open /\ Fault
    /\ End(c, IF ok THEN "none" ELSE "lost")
    /\ UNCHANGED <<rows, issued, parent, replaced, code, sent, tried, guessed>>

Expire(t) ==
    /\ t \in rows /\ rows' = rows \ {t}
    /\ UNCHANGED <<issued, parent, replaced, code, sent, tried, guessed, call, open, codeFaults>>

Die(c) ==
    /\ ~Ended(c) /\ call[c].pc # "idle" /\ Fault /\ Goto(c, "dead")
    /\ UNCHANGED <<rows, issued, parent, replaced, code, sent, tried, guessed, open>>

Next ==
    \/ \E c \in Calls :
        \/ SignIn(c) \/ Budget(c) \/ Uncounted(c) \/ Exists(c)
        \/ Send(c) \/ NotSent(c) \/ Verify(c) \/ Die(c)
        \/ \E ok \in BOOLEAN : Issue(c, ok) \/ Replace(c, ok) \/ Revoke(c, ok)
        \/ \E deleted, heard \in BOOLEAN, device \in {"registered", "none", "raised"} :
              Consume(c, deleted, heard, device)
        \/ \E t \in Tokens, k \in {0, sent} : Ask(c, t, k)
    \/ \E t \in Tokens : Expire(t)

Spec == Init /\ [][Next]_otpVars

-----------------------------------------------------------------------------
\* The steps a call of each kind goes through.
StepsOf == [start  |-> {"idle", "send", "issue", "revoke", "done", "dead"},
            resend |-> {"idle", "budget", "exists", "send", "issue", "replace", "done", "dead"},
            verify |-> {"idle", "budget", "exists", "verify", "consume", "revoke", "done", "dead"}]
CallStates == [token: 0..MaxTokens, code: Nat, pc: UNION {StepsOf[k] : k \in DOMAIN StepsOf},
               out: {"none", "session", "lost", "unheard", "raised"}]

TypeOK ==
    /\ issued \in 0..MaxTokens /\ rows \subseteq 1..issued /\ replaced \subseteq 1..issued
    /\ sent \in Nat /\ code \in 0..sent /\ codeFaults \in 0..MaxFaults
    /\ parent \in [Tokens -> 0..MaxTokens] /\ \A t \in Tokens : parent[t] < t
    /\ guessed \in [Tokens -> Nat] /\ tried \in [{"resend", "verify"} -> [Tokens -> Nat]]
    /\ call \in [Calls -> CallStates]
    /\ \A c \in Calls : call[c].token \in 0..issued /\ call[c].code \in 0..sent
    /\ open \subseteq Calls

Signed(c) == Kind[c] = "verify" /\ call[c].out = "session"

\* A pending token is worth one session and at most Attempts guesses, however the
\* verifications of it interleave with each other, with a resend and with its expiry
\* (otp.ts verify, pending_token.ts consume).
TokenSpentOnce ==
    /\ \A c, d \in Calls : Signed(c) /\ Signed(d) /\ c # d => call[c].token # call[d].token
    /\ \A c \in Calls : Signed(c) => call[c].token \notin rows
    /\ \A t \in Tokens : guessed[t] <= Attempts

\* A token and those it took the place of, one resend after the other.
Lineage[t \in 0..MaxTokens] == IF t = 0 THEN {} ELSE {t} \union Lineage[parent[t]]

\* A challenge that was answered is answered again only by a token whose resend did not
\* delete the row of the token it came for: verified, expired or kept meanwhile.
SecondSessionOnlyPastALostReplace ==
    \A c, d \in Calls :
        Signed(c) /\ Signed(d) /\ c # d /\ call[c].token \in Lineage[call[d].token]
        => ~(Lineage[call[d].token] \ Lineage[call[c].token] \subseteq replaced)

\* No session outlives the call that opened it unless that call answered it: the
\* exceptions are a logout that failed, an answer of GoTrue that was lost, a device that could
\* not be looked up while the token was consumed, which verify does not catch, and a process
\* that died (runner.ts finally, otp.ts verify).
NoSessionLeftOpen ==
    \A c \in open :
        Ended(c) => Signed(c) \/ call[c].out \in {"lost", "unheard", "raised"} \/ call[c].pc = "dead"

\* Why those hold. A call is where its kind goes, with a token but for a door, and ends once.
Placed ==
    \A c \in Calls :
        /\ call[c].pc \in StepsOf[Kind[c]]
        /\ Kind[c] # "start" /\ call[c].pc # "idle" => call[c].token \in Tokens
        /\ call[c].out # "none" => call[c].pc = "done"

\* Who has a session open at GoTrue is on the way to answer it or to revoke it.
Held == \A c \in open : Kind[c] # "resend" /\ call[c].pc \notin {"idle", "budget", "exists", "verify"}

\* The verifications of a token its counter let through and GoTrue was not asked for yet.
Allowed(t) == {c \in Calls : Kind[c] = "verify" /\ call[c].token = t /\ call[c].pc \in {"exists", "verify"}}
Counted ==
    \A t \in Tokens :
        /\ IsFiniteSet(Allowed(t))
        /\ guessed[t] + Cardinality(Allowed(t)) <= tried["verify"][t]
        /\ guessed[t] + Cardinality(Allowed(t)) <= Attempts

\* A token whose row a resend deleted is not spent, then or later.
ReplacedUnspent ==
    \A u \in replaced : /\ parent[u] \in Tokens \ rows
                        /\ \A c \in Calls : Signed(c) => call[c].token # parent[u]

IInv == TypeOK /\ Placed /\ Held /\ Counted /\ TokenSpentOnce /\ ReplacedUnspent /\ NoSessionLeftOpen
=============================================================================
