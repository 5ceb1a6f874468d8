-------------------------------- MODULE SignUp --------------------------------
(* The sign-ups of one person (auth/lib/src/sign_up/runner.ts, doors.ts,       *)
(* declaration/account.ts create and forget, devices/devices.ts register): a   *)
(* user minted by GoTrue, the role stamped on it, the account and the row its  *)
(* role declares, and the device, in that order, by calls that race or are     *)
(* tried again. Whatever GoTrue refuses after the minting is undone; whatever  *)
(* a table refuses is not looked at, since the result of a write is truthy.    *)
EXTENDS Naturals

CONSTANTS
    Calls,
    Door,             \* [Calls -> {"email", "social"}]; a number goes as an address does
    Role,             \* [Calls -> STRING]: the declaration each call is of
    MaxIds,           \* bound: users minted
    MaxSignUpFaults   \* bound: calls of GoTrue and of tables that fail, deaths

SignUpAssumption ==
    /\ Door \in [Calls -> {"email", "social"}] /\ Role \in [Calls -> STRING]
    /\ {MaxIds, MaxSignUpFaults} \subseteq Nat /\ "nobody" \notin Calls

VARIABLES
    user,          \* the identifier GoTrue has for the person, or 0
    minted,        \* identifiers minted
    stamped,       \* the role in the metadata of the user
    account,       \* the row of __accounts__
    rows,          \* accounts that have their declared row
    token,         \* per account, the call whose token the row of the device keeps
    call,          \* per call: its step, its user, whether its device is known, writes it missed
    stranded,      \* ways a call ended without undoing
    met,           \* an undo removed what another call had, or was about to write under
    signUpFaults

signUpVars == <<user, minted, stamped, account, rows, token, call, stranded, met, signUpFaults>>

Ids == 1..MaxIds
NoAccount == [id |-> 0, role |-> "none"]
Nobody == "nobody"
Roles == {"none"} \union {Role[c] : c \in Calls}
Steps == {"issue", "stamp", "account", "rows", "look", "token", "forget", "delete"}

Init ==
    /\ user = 0 /\ minted = 0 /\ stamped = "none" /\ account = NoAccount /\ rows = {}
    /\ token = [i \in Ids |-> Nobody]
    /\ call = [c \in Calls |-> [pc |-> "issue", id |-> 0, known |-> FALSE, missed |-> {}]]
    /\ stranded = {} /\ met = FALSE /\ signUpFaults = 0

NoFault == UNCHANGED signUpFaults
Fault == signUpFaults < MaxSignUpFaults /\ signUpFaults' = signUpFaults + 1
May(ok) == IF ok THEN NoFault ELSE Fault
Goto(c, pc) == call' = [call EXCEPT ![c].pc = pc]
\* A write that did not happen is noted here and nowhere in the code.
Wrote(c, what, ok, pc) ==
    call' = [call EXCEPT ![c].pc = pc, ![c].missed = IF ok THEN @ ELSE @ \union {what}]

-----------------------------------------------------------------------------
\* A door mints a user or refuses; the social ones answer the user there is, as a sign-in does.
\* A limit, malformed credentials or a request without a device end the call before that.
Issue(c, taken, answered) ==
    /\ call[c].pc = "issue" /\ May(answered)
    /\ LET fresh == user = 0 /\ minted < MaxIds
           minting == taken /\ fresh
           id == IF minting THEN minted + 1 ELSE user
           accepted == taken /\ answered /\ id # 0 /\ (Door[c] = "social" \/ fresh)
       IN  /\ minted' = IF minting THEN minted + 1 ELSE minted
           /\ user' = IF minting THEN id ELSE user
           /\ stamped' = IF minting THEN "none" ELSE stamped
           /\ call' = [call EXCEPT ![c].pc = IF accepted THEN "stamp" ELSE "refused",
                                   ![c].id = IF accepted THEN id ELSE 0]
           /\ stranded' = stranded \union IF minting /\ ~answered THEN {"unanswered"} ELSE {}
    /\ UNCHANGED <<account, rows, token, met>>

\* Mutant of Stamp: a refused stamp ends the sign-up without undoing it.
StampOrEnd(c, taken, answered) ==
    /\ call[c].pc = "stamp" /\ May(taken /\ answered)
    /\ LET done == taken /\ user = call[c].id
       IN  /\ stamped' = IF done THEN Role[c] ELSE stamped
           /\ Goto(c, IF done /\ answered THEN "account" ELSE "refused")
    /\ UNCHANGED <<user, minted, account, rows, token, stranded, met>>

\* A refusal, or an answer that is lost, has everything undone.
Stamp(c, taken, answered) ==
    /\ call[c].pc = "stamp" /\ May(taken /\ answered)
    /\ LET done == taken /\ user = call[c].id
       IN  /\ stamped' = IF done THEN Role[c] ELSE stamped
           /\ Goto(c, IF done /\ answered THEN "account" ELSE "forget")
    /\ UNCHANGED <<user, minted, account, rows, token, stranded, met>>

\* The identifier is the key of the table, and an address is unique in it.
CreateAccount(c, taken) ==
    /\ call[c].pc = "account" /\ May(taken)
    /\ LET done == taken /\ account = NoAccount
       IN  /\ account' = IF done THEN [id |-> call[c].id, role |-> Role[c]] ELSE account
           /\ Wrote(c, "account", done, "rows")
    /\ UNCHANGED <<user, minted, stamped, rows, token, stranded, met>>

\* A declared row names its account by a foreign key.
CreateRows(c, taken) ==
    /\ call[c].pc = "rows" /\ May(taken)
    /\ LET done == taken /\ account.id = call[c].id
       IN  /\ rows' = IF done THEN rows \union {call[c].id} ELSE rows
           /\ Wrote(c, "rows", done, "look")
    /\ UNCHANGED <<user, minted, stamped, account, token, stranded, met>>

\* Reads whether the account knows the device; a read that fails raises out of the sign-up.
Look(c, answered) ==
    /\ call[c].pc = "look" /\ May(answered)
    /\ call' = [call EXCEPT ![c].known = answered /\ token[call[c].id] # Nobody,
                            ![c].pc = IF answered THEN "token" ELSE "raised"]
    /\ stranded' = stranded \union IF answered THEN {} ELSE {"raised"}
    /\ UNCHANGED <<user, minted, stamped, account, rows, token, met>>

\* Renews the row of the device, or writes it: both are answered with their token.
Register(c, taken) ==
    /\ call[c].pc = "token" /\ May(taken)
    /\ LET id == call[c].id
           there == IF call[c].known THEN token[id] # Nobody
                    ELSE token[id] = Nobody /\ account.id = id
           done == taken /\ there
       IN  /\ token' = IF done THEN [token EXCEPT ![id] = c] ELSE token
           /\ Wrote(c, "token", done, "ok")
    /\ UNCHANGED <<user, minted, stamped, account, rows, stranded, met>>

\* Removes the account of this role, and by the foreign keys its rows and devices; then the
\* user. Neither answer is looked at.
Forget(c, taken) ==
    /\ call[c].pc = "forget" /\ May(taken) /\ Goto(c, "delete")
    /\ LET id == call[c].id
           done == taken /\ account = [id |-> id, role |-> Role[c]]
       IN  /\ account' = IF done THEN NoAccount ELSE account
           /\ rows' = IF done THEN rows \ {id} ELSE rows
           /\ token' = IF done THEN [token EXCEPT ![id] = Nobody] ELSE token
           /\ met' = (met \/ \E d \in Calls \ {c} : call[d].id = id)
    /\ stranded' = stranded \union IF taken THEN {} ELSE {"undo"}
    /\ UNCHANGED <<user, minted, stamped>>

DeleteUser(c, taken) ==
    /\ call[c].pc = "delete" /\ May(taken) /\ Goto(c, "refused")
    /\ user' = IF taken /\ user = call[c].id THEN 0 ELSE user
    /\ met' = (met \/ \E d \in Calls \ {c} : call[d].id = call[c].id)
    /\ stranded' = stranded \union IF taken THEN {} ELSE {"undo"}
    /\ UNCHANGED <<minted, stamped, account, rows, token>>

Die(c) ==
    /\ call[c].pc \in Steps \ {"issue"} /\ Fault /\ Goto(c, "died")
    /\ stranded' = stranded \union {"died"}
    /\ UNCHANGED <<user, minted, stamped, account, rows, token, met>>

Next ==
    \E c \in Calls, taken \in BOOLEAN, answered \in BOOLEAN :
        \/ Issue(c, taken, answered) \/ Stamp(c, taken, answered)
        \/ CreateAccount(c, taken) \/ CreateRows(c, taken) \/ Look(c, answered)
        \/ Register(c, taken) \/ Forget(c, taken) \/ DeleteUser(c, taken) \/ Die(c)

Spec == Init /\ [][Next]_signUpVars

-----------------------------------------------------------------------------
TypeOK ==
    /\ user \in 0..minted /\ minted \in 0..MaxIds
    /\ account \in [id : 0..minted, role : Roles] /\ rows \subseteq {account.id} \intersect Ids
    /\ token \in [Ids -> Calls \union {Nobody}] /\ \A i \in Ids : token[i] # Nobody => account.id = i
    /\ call \in [Calls -> [pc : Steps \union {"ok", "refused", "raised", "died"}, id : 0..minted,
                           known : BOOLEAN, missed : SUBSET {"account", "rows", "token"}]]
    /\ stranded \subseteq {"unanswered", "raised", "undo", "died"} /\ met \in BOOLEAN
    /\ signUpFaults \in 0..MaxSignUpFaults

Whole(i) == account.id = i /\ user = i /\ i \in rows /\ token[i] # Nobody /\ stamped = account.role

\* When every sign-up is over the person is whole or unknown: a user nobody can undo, an account
\* without its rows, a role that is not that of the account come only of a call that ended
\* without undoing, of a write whose refusal was not looked at, or of an undo that met another
\* sign-up of the same user (sign_up/runner.ts "Everything is undone by removing the user").
NobodyLeftHalf ==
    (\A c \in Calls : call[c].pc \notin Steps) =>
        \/ user = 0 /\ account = NoAccount
        \/ Whole(user)
        \/ stranded # {} \/ met \/ \E c \in Calls : call[c].missed # {}

-----------------------------------------------------------------------------
(* Why that holds, of a person no undo met twice and no write was refused.    *)

Clean == stranded = {} /\ ~met /\ \A c \in Calls : call[c].missed = {}
Housed == {"rows", "look", "token", "ok"}
Bound == {"stamp", "account", "forget", "delete"} \union Housed

\* Who is past the door has a user.
Named == \A c \in Calls : call[c].pc \in Bound => call[c].id # 0

\* The user is that of every call on it, and the account that of the one that wrote it.
Held ==
    /\ \A c \in Calls : call[c].pc \in Bound => call[c].id = user
    /\ user # 0 => \E c \in Calls : call[c].pc \in Bound
    /\ \A c \in Calls : call[c].pc \in Housed => account = [id |-> call[c].id, role |-> Role[c]]
    /\ account # NoAccount => \E c \in Calls : call[c].pc \in Housed

\* A role that is not that of the account was stamped by a call that will be refused its own.
Stamped ==
    \A c \in Calls : call[c].pc \in {"account"} \union Housed =>
        \/ stamped = Role[c]
        \/ \E d \in Calls \ {c} :
               \/ call[d].pc \in {"account", "forget", "delete"}
               \/ call[d].pc \in Housed /\ call[c].pc = "account"

Written ==
    \A c \in Calls : /\ call[c].pc \in {"look", "token", "ok"} => call[c].id \in rows
                     /\ call[c].pc = "ok" => token[call[c].id] # Nobody

IInv == TypeOK /\ Named /\ (Clean => Held /\ Stamped /\ Written)
=============================================================================
