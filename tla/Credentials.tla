----------------------------- MODULE Credentials -----------------------------
(* What ends when the password or the identifiers of an account change        *)
(* (auth/lib/src: password.ts, identifier.ts, revocation.ts): the sessions    *)
(* GoTrue holds, and the rows of the devices, without which a session is not  *)
(* refreshed any more (devices/devices.ts verify). A change by who knows the  *)
(* password opens a session to prove it, and signs everybody out with it; a   *)
(* change by a proven reset or by an operator has no session to do that with. *)
(* Sign-ins go on meanwhile, and so do listings, which remember what they     *)
(* read: DeviceCaches is about that memory, here it answers what it may hold. *)
EXTENDS Naturals, FiniteSets

CONSTANTS
    Changes, KindOf,      \* calls, and "update", "reset" or "operator" of each
    Devices,
    MaxSessions,          \* bound: sessions GoTrue opens
    MaxCredentialFaults   \* bound: calls refused, answers lost, processes that die

CredentialsAssumption ==
    /\ KindOf \in [Changes -> {"update", "reset", "operator"}]
    /\ MaxSessions \in Nat /\ MaxCredentialFaults \in Nat /\ IsFiniteSet(Changes)

VARIABLES
    secret,     \* how often the credential was changed at GoTrue
    session,    \* each session: where it is, the device it is used from, the secret it was opened with
    device,     \* the devices that have a row
    change,     \* each call: where it is, its proof, the devices left to throw out, and
                \* the secret it replaced
    back,       \* per call: the devices registered since it looked for them
    shut,       \* the calls whose signing out GoTrue took
    spared,     \* the calls that passed a device over: its removal was refused, or the list
                \* that was remembered did not name it
    credentialFaults,
    tables      \* what the devices table has held, which a list that was remembered may say

credentialVars == <<secret, session, device, change, back, shut, spared, credentialFaults, tables>>

Sessions == 1..MaxSessions
Places == {"idle", "write", "revoke", "list", "kick", "close", "ok", "failed", "dead"}
Resting == [pc |-> "idle", proof |-> 0, todo |-> {}, was |-> 0]

Init ==
    /\ secret = 0 /\ device \in SUBSET Devices /\ tables = {device}
    /\ session = [s \in Sessions |-> [at |-> "none", from |-> 0, under |-> 0]]
    /\ change = [c \in Changes |-> Resting]
    /\ back = [c \in Changes |-> {}] /\ shut = {} /\ spared = {} /\ credentialFaults = 0

Fault == credentialFaults < MaxCredentialFaults /\ credentialFaults' = credentialFaults + 1
May(ok) == IF ok THEN UNCHANGED credentialFaults ELSE Fault
To(c, pc) == change' = [change EXCEPT ![c].pc = pc]
Opens(s, at, d) ==
    /\ session[s].at = "none" /\ \A r \in 1..(s - 1) : session[r].at # "none"
    /\ session' = [session EXCEPT ![s] = [at |-> at, from |-> d, under |-> secret]]
GoneFor(S) == [s \in Sessions |-> IF s \in S THEN [session[s] EXCEPT !.at = "gone"] ELSE session[s]]
ChangeKeeps == UNCHANGED <<change, shut, spared>>
Holds(rows) == device' = rows /\ tables' = tables \union {rows}

\* A sign-in opens its session, and registers its device later; then it answers.
SignIn(s, d) ==
    /\ Opens(s, "opened", d)
    /\ ChangeKeeps /\ UNCHANGED <<secret, device, back, credentialFaults, tables>>

Register(s) ==
    /\ session[s].at = "opened"
    /\ session' = [session EXCEPT ![s].at = "given"]
    /\ Holds(device \union {session[s].from})
    /\ back' = [c \in Changes |-> IF change[c].pc \in {"kick", "ok"} THEN back[c] \union {session[s].from}
                                                                   ELSE back[c]]
    /\ ChangeKeeps /\ UNCHANGED <<secret, credentialFaults>>

\* A session whose device has no row is signed out by the refresh that notices. One that finds
\* the hardware remembered goes on, and changes nothing (AccountAccess.KickedIsRefused says when
\* that entry outlives the row).
Refresh(s) ==
    /\ session[s].at = "given" /\ session[s].from \notin device
    /\ session' = GoneFor({s})
    /\ ChangeKeeps /\ UNCHANGED <<secret, device, back, credentialFaults, tables>>

\* AccountPassword.update signs in with the current password, within its limits; one that is
\* not in force opens nothing. A reset was proven before, an operator is trusted.
Prove(c, s) ==
    /\ change[c].pc = "idle"
    /\ IF KindOf[c] = "update"
       THEN Opens(s, "proof", 0) /\ change' = [change EXCEPT ![c] = [@ EXCEPT !.pc = "write", !.proof = s]]
       ELSE s = 1 /\ To(c, "write") /\ UNCHANGED session
    /\ UNCHANGED <<secret, device, back, shut, spared, credentialFaults, tables>>

\* GoTrue takes the change, or refuses it, or its answer is lost; without an answer nothing
\* else is done but to close the proof.
Write(c, took, ok) ==
    /\ change[c].pc = "write" /\ (ok => took) /\ May(ok)
    /\ secret' = IF took THEN secret + 1 ELSE secret
    /\ change' = [change EXCEPT ![c] = [@ EXCEPT !.was = secret,
                     !.pc = IF ok THEN "revoke" ELSE IF change[c].proof # 0 THEN "close" ELSE "failed"]]
    /\ UNCHANGED <<session, device, back, shut, spared, tables>>

\* Mutant of Revoke: only the session that asks is signed out.
RevokeHere(c, ok) ==
    LET p == change[c].proof IN
    /\ change[c].pc = "revoke"
    /\ IF ok THEN UNCHANGED credentialFaults
             ELSE p # 0 /\ IF session[p].at = "gone" THEN UNCHANGED credentialFaults ELSE Fault
    /\ session' = IF p # 0 /\ ok THEN GoneFor({p}) ELSE session
    /\ shut' = IF p # 0 /\ ok THEN shut \union {c} ELSE shut
    /\ To(c, "list")
    /\ UNCHANGED <<secret, device, back, spared, tables>>

\* AccountRevocation.sessions: the proof, if there is one, signs every session out; a refusal
\* is logged and nothing more. GoTrue may refuse a proof that another call signed out.
Revoke(c, ok) ==
    LET p == change[c].proof IN
    /\ change[c].pc = "revoke"
    /\ IF ok THEN UNCHANGED credentialFaults
             ELSE p # 0 /\ IF session[p].at = "gone" THEN UNCHANGED credentialFaults ELSE Fault
    /\ session' = IF p # 0 /\ ok THEN GoneFor({s \in Sessions : session[s].at # "none"}) ELSE session
    /\ shut' = IF p # 0 /\ ok THEN shut \union {c} ELSE shut
    /\ To(c, "list")
    /\ UNCHANGED <<secret, device, back, spared, tables>>

\* kickAll lists the devices: what the table holds, or the list a caller before it read, who
\* may have remembered it after the table changed, or whose entry no change could drop. Then it
\* removes one row after the other; one that is refused is passed over.
ListDevices(c, listed) ==
    /\ change[c].pc = "list" /\ listed \in tables
    /\ change' = [change EXCEPT ![c] = [@ EXCEPT !.pc = "kick", !.todo = listed]]
    /\ spared' = IF device \subseteq listed THEN spared ELSE spared \union {c}
    /\ UNCHANGED <<secret, session, device, back, shut, credentialFaults, tables>>

Kick(c, d, ok) ==
    /\ change[c].pc = "kick" /\ d \in change[c].todo /\ (ok \/ d \in device) /\ May(ok)
    /\ Holds(IF ok THEN device \ {d} ELSE device)
    /\ back' = IF ok THEN [back EXCEPT ![c] = @ \ {d}] ELSE back
    /\ spared' = IF ok THEN spared ELSE spared \union {c}
    /\ change' = [change EXCEPT ![c].todo = @ \ {d}]
    /\ UNCHANGED <<secret, session, shut>>

\* A listing or a look-up that raises leaves the rest in place and fails the call, which
\* closes its proof on the way out.
Raise(c) ==
    /\ change[c].pc \in {"list", "kick"} /\ Fault
    /\ To(c, IF change[c].proof # 0 THEN "close" ELSE "failed")
    /\ UNCHANGED <<secret, session, device, back, shut, spared, tables>>

Finish(c) ==
    /\ change[c].pc = "kick" /\ change[c].todo = {} /\ To(c, "ok")
    /\ UNCHANGED <<secret, session, device, back, shut, spared, credentialFaults, tables>>

\* Mutant of Close: a change that failed leaves its proof.
CloseNothing(c, ok) ==
    /\ change[c].pc = "close" /\ May(ok)
    /\ session' = session
    /\ spared' = IF ok THEN spared ELSE spared \union {c}
    /\ To(c, "failed")
    /\ UNCHANGED <<secret, device, back, shut, tables>>

\* The proof of a change that failed is signed out alone.
Close(c, ok) ==
    /\ change[c].pc = "close" /\ May(ok)
    /\ session' = IF ok THEN GoneFor({change[c].proof}) ELSE session
    /\ spared' = IF ok THEN spared ELSE spared \union {c}
    /\ To(c, "failed")
    /\ UNCHANGED <<secret, device, back, shut, tables>>

Die(c) ==
    /\ change[c].pc \notin {"idle", "ok", "failed", "dead"} /\ Fault /\ To(c, "dead")
    /\ UNCHANGED <<secret, session, device, back, shut, spared, tables>>

Next ==
    \/ \E s \in Sessions : Register(s) \/ Refresh(s) \/ \E d \in Devices : SignIn(s, d)
    \/ \E c \in Changes :
        \/ \E s \in Sessions : Prove(c, s)
        \/ \E listed \in tables : ListDevices(c, listed)
        \/ Raise(c) \/ Finish(c) \/ Die(c)
        \/ \E ok \in BOOLEAN :
            \/ \E took \in BOOLEAN : Write(c, took, ok)
            \/ Revoke(c, ok) \/ Close(c, ok)
            \/ \E d \in Devices : Kick(c, d, ok)

Spec == Init /\ [][Next]_credentialVars

-----------------------------------------------------------------------------
TypeOK ==
    /\ secret \in 0..Cardinality(Changes) /\ device \subseteq Devices
    /\ tables \subseteq SUBSET Devices
    /\ session \in [Sessions -> [at : {"none", "opened", "given", "proof", "gone"},
                                 from : {0} \union Devices, under : 0..secret]]
    /\ \A s \in Sessions : session[s].at \in {"opened", "given"} => session[s].from \in Devices
    /\ change \in [Changes -> [pc : Places, proof : {0} \union Sessions, todo : SUBSET Devices,
                               was : 0..secret]]
    /\ back \in [Changes -> SUBSET Devices]
    /\ shut \subseteq Changes /\ spared \subseteq Changes /\ credentialFaults \in 0..MaxCredentialFaults

Refreshed(s) == session[s].at = "given" /\ session[s].from \in device

\* "Both end the same way: every session goes and every device is thrown out" (password.ts):
\* once a change answered Ok, no session opened under what it replaced is refreshed again.
\* Exceptions: the device was registered after it was looked for, by a sign-in that was under
\* way or a later one, and nobody was signed out at GoTrue, for want of a session to do it
\* with or because GoTrue refused; a removal of a row that was refused; and a list that was
\* remembered and did not name the device.
OldSessionsGo ==
    \A c \in Changes, s \in Sessions :
        change[c].pc = "ok" /\ Refreshed(s) /\ session[s].under <= change[c].was
        => c \notin shut /\ (session[s].from \in back[c] \/ c \in spared)

\* The session that proved the password is "revoked on every path out" (password.ts update),
\* unless GoTrue refused to.
ProofsAreClosed ==
    \A c \in Changes : change[c].proof # 0 /\ session[change[c].proof].at # "gone"
        => /\ change[c].pc = "ok" => c \notin shut
           /\ change[c].pc = "failed" => c \in spared

-----------------------------------------------------------------------------
(* Why these hold: what a call keeps to, whatever the others do.              *)

\* Only who asked for it changed the credential, and once.
Counted == secret <= Cardinality({c \in Changes : change[c].pc \notin {"idle", "write"}})

Proven(c) == change[c].proof # 0 => session[change[c].proof].at # "none"

\* Whose signing out was taken replaced a secret, and finds no session of it any more.
SignedOut(c) ==
    c \in shut =>
        /\ change[c].pc \notin {"idle", "write", "revoke"} /\ change[c].was < secret
        /\ change[c].proof # 0 /\ session[change[c].proof].at = "gone"
        /\ \A s \in Sessions : session[s].at \notin {"none", "gone"} => session[s].under > change[c].was

Closed(c) ==
    /\ change[c].pc \in {"revoke", "list", "kick", "ok"} => change[c].was < secret
    /\ change[c].pc = "close" => change[c].proof # 0
    /\ change[c].pc = "failed" /\ change[c].proof # 0
       => session[change[c].proof].at = "gone" \/ c \in spared

\* A device that has a row is to be thrown out yet, or came after it was looked for.
Swept(c) ==
    /\ change[c].pc \in {"kick", "ok"} /\ c \notin spared => device \subseteq change[c].todo \union back[c]
    /\ change[c].pc = "ok" => change[c].todo = {}

Kept(c) == Proven(c) /\ SignedOut(c) /\ Closed(c) /\ Swept(c)

IInv == TypeOK /\ Counted /\ \A c \in Changes : Kept(c)
=============================================================================
