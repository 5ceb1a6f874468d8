------------------------------ MODULE SignIns ------------------------------
(***************************************************************************)
(* Sign-ins of one account from one device (auth: sign_in/runner.ts,       *)
(* sign_in/doors.ts, devices/devices.ts, devices/repository.ts).  A door   *)
(* asks GoTrue, which opens a session at once; what follows decides        *)
(* whether the caller is given it: the role, the ban, the trust of the     *)
(* device, the token of the device.  A session that is not given is        *)
(* revoked on the way out.                                                 *)
(*                                                                         *)
(* A call signs in with a password ("typed"), with a password at the door  *)
(* of another role ("foreign"), or with the identity another provider      *)
(* vouches for ("vouched"), which sends no code and aims at no recipient.  *)
(***************************************************************************)
EXTENDS Naturals, FiniteSets

CONSTANTS Calls, Limit, MaxTokens, MaxAttempts, MaxSignInFaults

SignInAssumption ==
    /\ IsFiniteSet(Calls)
    /\ Limit \in Nat \ {0}
    /\ MaxTokens \in Nat \ {0}
    /\ {MaxAttempts, MaxSignInFaults} \subseteq Nat

VARIABLES
    kind,       \* the door of each call
    at,         \* where each call is
    attempts,   \* how many each has begun
    session,    \* what became of the session GoTrue opened for it last
    token,      \* the device token its request shows, then the one it minted
    known,      \* the row of the device it found, or 0
    banned,     \* the account is banned, or not
    late,       \* the calls whose session was opened under the ban
    device,     \* the row of the device: itself and the digest it holds
    held,       \* the device token the client keeps
    tokens,     \* how many were minted
    strays,     \* the tokens that were no longer, or never, in the row when they were answered
    orphans,    \* the tokens in the row that were never answered
    measured,   \* what the limit on the recipient has counted
    guesses,    \* the passwords GoTrue refused, or accepted for another role
    excused,    \* the calls that died or whose logout was refused
    signInFaults

signInVars == <<kind, at, attempts, session, token, known, banned, late, device, held, tokens,
                strays, orphans, measured, guesses, excused, signInFaults>>

Kinds == {"typed", "foreign", "vouched"}
Guessing == {"typed", "foreign"}
Absent == [row |-> 0, digest |-> 0]
Present == device.row # 0

Init ==
    /\ kind \in [Calls -> Kinds]
    /\ at = [c \in Calls |-> "idle"]
    /\ attempts = [c \in Calls |-> 0]
    /\ session = [c \in Calls |-> "none"]
    /\ token = [c \in Calls |-> 0]
    /\ known = [c \in Calls |-> 0]
    /\ banned = FALSE /\ late = {}
    /\ \/ device = Absent /\ held = 0 /\ tokens = 0
       \/ device = [row |-> 1, digest |-> 1] /\ held = 1 /\ tokens = 1
    /\ strays = {} /\ orphans = {}
    /\ measured = [k \in Guessing |-> 0]
    /\ guesses = [k \in Guessing |-> 0]
    /\ excused = {} /\ signInFaults = 0

\* The hit past the limit lays the penalty, and a hit under it counts no more.
Blocked(k) == measured[k] > Limit
Measured(k) == IF Blocked(k) THEN measured ELSE [measured EXCEPT ![k] = @ + 1]

Goto(c, place) == at' = [at EXCEPT ![c] = place]
Fails ==
    /\ signInFaults < MaxSignInFaults
    /\ signInFaults' = signInFaults + 1

\* The caller is within its limit, what it sent can be read, and the recipient is not blocked.
\* The limit is only read here: a guess is counted once GoTrue has answered it.
Arrive(c) ==
    /\ at[c] = "idle" /\ attempts[c] < MaxAttempts
    /\ kind[c] \in Guessing => ~Blocked(kind[c])
    /\ attempts' = [attempts EXCEPT ![c] = @ + 1]
    /\ session' = [session EXCEPT ![c] = "none"]
    /\ token' = [token EXCEPT ![c] = IF kind[c] = "typed" THEN held ELSE 0]
    /\ late' = late \ {c} /\ excused' = excused \ {c}
    /\ Goto(c, "asking")
    /\ UNCHANGED <<kind, known, banned, device, held, tokens, strays, orphans, measured, guesses,
                   signInFaults>>

\* What a call has in hand goes with it.
Keeps == UNCHANGED <<kind, attempts, banned, device, held, tokens, strays, orphans>>
CallKeeps == Keeps /\ UNCHANGED <<token, known>>
CallDrops(c) ==
    Keeps /\ token' = [token EXCEPT ![c] = 0] /\ known' = [known EXCEPT ![c] = 0]

\* Mutant of Refused: a password GoTrue refused is not counted against its recipient.
RefusedUncounted(c) ==
    /\ at[c] = "refused"
    /\ measured' = measured
    /\ Goto(c, "idle")
    /\ CallDrops(c) /\ UNCHANGED <<session, late, guesses, excused, signInFaults>>

\* GoTrue refuses the password; the answer is counted on a later round trip.
Guess(c) ==
    /\ at[c] = "asking" /\ kind[c] \in Guessing
    /\ guesses' = [guesses EXCEPT ![kind[c]] = @ + 1]
    /\ Goto(c, "refused")
    /\ CallDrops(c) /\ UNCHANGED <<session, late, measured, excused, signInFaults>>

\* A count that Redis does not take is lost.
Refused(c) ==
    /\ at[c] = "refused"
    /\ \/ measured' = Measured(kind[c]) /\ UNCHANGED signInFaults
       \/ Fails /\ UNCHANGED measured
    /\ Goto(c, "idle")
    /\ CallDrops(c) /\ UNCHANGED <<session, late, guesses, excused>>

\* A session is opened at GoTrue, whatever becomes of the call.
Opened(c) ==
    /\ session' = [session EXCEPT ![c] = "open"]
    /\ late' = IF banned THEN late \cup {c} ELSE late
    /\ Goto(c, "opened")

\* GoTrue accepts the password, of an account of this role or of another.
Authenticate(c) ==
    /\ at[c] = "asking" /\ kind[c] \in Guessing
    /\ Opened(c)
    /\ guesses' = IF kind[c] = "foreign" THEN [guesses EXCEPT !["foreign"] = @ + 1] ELSE guesses
    /\ CallKeeps /\ UNCHANGED <<measured, excused, signInFaults>>

\* The identity another provider vouches for is exchanged, or refused, or the provider is not
\* configured; nothing is counted of it.
Vouch(c) ==
    /\ at[c] = "asking" /\ kind[c] = "vouched"
    /\ \/ Opened(c)
       \/ Goto(c, "idle") /\ UNCHANGED <<session, late>>
    /\ CallKeeps /\ UNCHANGED <<measured, guesses, excused, signInFaults>>

\* The role of the account is not the one of the door: a guess, and a session to revoke.
TurnAway(c) ==
    /\ at[c] = "opened" /\ kind[c] = "foreign"
    /\ measured' = Measured("foreign")
    /\ Goto(c, "closing")
    /\ CallKeeps /\ UNCHANGED <<session, late, guesses, excused, signInFaults>>

\* Mutant of Admit: what the account says of its ban is not asked.
AdmitAnyone(c) ==
    /\ at[c] = "opened" /\ kind[c] # "foreign"
    /\ Goto(c, IF kind[c] = "typed" THEN "checking" ELSE "known")
    /\ CallKeeps /\ UNCHANGED <<session, late, measured, guesses, excused, signInFaults>>

\* The account is read, and with it its ban; a condition of the role, a request without a device
\* and an account of another kind refuse as well.
Admit(c) ==
    /\ at[c] = "opened" /\ kind[c] # "foreign"
    /\ \/ ~banned /\ Goto(c, IF kind[c] = "typed" THEN "checking" ELSE "known")
       \/ Goto(c, "closing")
    /\ CallKeeps /\ UNCHANGED <<session, late, measured, guesses, excused, signInFaults>>

\* The request shows the token whose digest the row of its device holds.
Recognised(c) == token[c] # 0 /\ token[c] = device.digest

\* A device that is not trusted, or was not seen for a week, is sent a code, or could not be: its
\* session is revoked.
CheckTrust(c) ==
    /\ at[c] = "checking"
    /\ \/ Recognised(c) /\ Goto(c, "known")
       \/ Goto(c, "closing")
    /\ CallDrops(c) /\ UNCHANGED <<session, late, measured, guesses, excused, signInFaults>>

LookUp(c) ==
    /\ at[c] = "known" /\ tokens < MaxTokens
    /\ known' = [known EXCEPT ![c] = device.row]
    /\ tokens' = tokens + 1
    /\ token' = [token EXCEPT ![c] = tokens + 1]
    /\ Goto(c, "writing")
    /\ UNCHANGED <<kind, attempts, session, banned, late, device, held, strays, orphans,
                   measured, guesses, excused, signInFaults>>

\* What is about to be answered and what the client holds is no longer what the row has.
Overwritten == {token[d] : d \in {e \in Calls : at[e] = "written"}} \ {0}

\* Mutant of Write: a row that is known keeps the digest it has.
WriteNothingNew(c) ==
    /\ at[c] = "writing"
    /\ \/ /\ known[c] = device.row
          /\ device' = IF Present THEN device ELSE [row |-> token[c], digest |-> token[c]]
          /\ strays' = strays \cup Overwritten
          /\ orphans' = orphans \cup {token[c]}
          /\ UNCHANGED signInFaults
       \/ /\ known[c] # device.row
          /\ strays' = strays \cup {token[c]}
          /\ UNCHANGED <<device, orphans, signInFaults>>
       \/ /\ Fails
          /\ strays' = strays \cup {token[c]}
          /\ UNCHANGED <<device, orphans>>
    /\ Goto(c, "written")
    /\ UNCHANGED <<kind, attempts, session, token, known, banned, late, held, tokens,
                   measured, guesses, excused>>

\* A device that was found is updated where it still is, one that was not is inserted where none
\* is by then: a write that matched nothing, conflicted or was refused reads as done.
Write(c) ==
    /\ at[c] = "writing"
    /\ \/ /\ known[c] = device.row
          /\ device' = [row |-> IF Present THEN device.row ELSE token[c], digest |-> token[c]]
          /\ strays' = strays \cup Overwritten
          /\ orphans' = orphans \cup {token[c]}
          /\ UNCHANGED signInFaults
       \/ /\ known[c] # device.row
          /\ strays' = strays \cup {token[c]}
          /\ UNCHANGED <<device, orphans, signInFaults>>
       \/ /\ Fails
          /\ strays' = strays \cup {token[c]}
          /\ UNCHANGED <<device, orphans>>
    /\ Goto(c, "written")
    /\ UNCHANGED <<kind, attempts, session, token, known, banned, late, held, tokens,
                   measured, guesses, excused>>

\* What is cached of the device is dropped and the session answered with the token; a cache that
\* does not answer ends the call with the row written.
Answer(c) ==
    /\ at[c] = "written"
    /\ \/ /\ session' = [session EXCEPT ![c] = "kept"]
          /\ held' = token[c] /\ orphans' = orphans \ {token[c]}
          /\ Goto(c, "idle")
          /\ UNCHANGED signInFaults
       \/ /\ Fails
          /\ Goto(c, "closing")
          /\ UNCHANGED <<session, held, orphans>>
    /\ token' = [token EXCEPT ![c] = 0] /\ known' = [known EXCEPT ![c] = 0]
    /\ UNCHANGED <<kind, attempts, banned, late, device, tokens, strays, measured, guesses,
                   excused>>

\* Mutant of Close: a session that is not answered is left as it is.
CloseNothing(c) ==
    /\ at[c] = "closing" /\ Goto(c, "idle")
    /\ CallDrops(c) /\ UNCHANGED <<session, late, measured, guesses, excused, signInFaults>>

\* The session is signed out where it was opened. A refusal is only logged.
Close(c) ==
    /\ at[c] = "closing"
    /\ \/ session' = [session EXCEPT ![c] = "none"] /\ UNCHANGED <<excused, signInFaults>>
       \/ Fails /\ excused' = excused \cup {c} /\ UNCHANGED session
    /\ Goto(c, "idle")
    /\ CallDrops(c) /\ UNCHANGED <<late, measured, guesses>>

\* The process of a call dies with it, or the answer of GoTrue is lost on its way, before there is
\* anything the call would revoke.
Die(c) ==
    /\ at[c] # "idle" /\ Fails
    /\ Goto(c, "idle")
    /\ excused' = excused \cup {c}
    /\ CallDrops(c) /\ UNCHANGED <<session, late, measured, guesses>>

\* Others' doings: a ban, and the removal of the device.
Ban ==
    /\ ~banned /\ banned' = TRUE
    /\ UNCHANGED <<kind, at, attempts, session, token, known, late, device, held, tokens,
                   strays, orphans, measured, guesses, excused, signInFaults>>

Kick ==
    /\ Present /\ device' = Absent
    /\ UNCHANGED <<kind, at, attempts, session, token, known, banned, late, held, tokens,
                   strays, orphans, measured, guesses, excused, signInFaults>>

Call(c) ==
    \/ Arrive(c) \/ Guess(c) \/ Refused(c) \/ Authenticate(c) \/ Vouch(c) \/ TurnAway(c)
    \/ Admit(c) \/ CheckTrust(c) \/ LookUp(c) \/ Write(c) \/ Answer(c) \/ Close(c) \/ Die(c)

Next == (\E c \in Calls : Call(c)) \/ Ban \/ Kick

Spec == Init /\ [][Next]_signInVars

-----------------------------------------------------------------------------
TypeOK ==
    /\ kind \in [Calls -> Kinds]
    /\ at \in [Calls -> {"idle", "asking", "refused", "opened", "checking", "known", "writing",
                         "written", "closing"}]
    /\ attempts \in [Calls -> 0..MaxAttempts]
    /\ session \in [Calls -> {"none", "open", "kept"}]
    /\ token \in [Calls -> 0..MaxTokens]
    /\ known \in [Calls -> 0..MaxTokens]
    /\ banned \in BOOLEAN /\ {late, excused} \subseteq SUBSET Calls
    /\ device \in [row : 0..MaxTokens, digest : 0..MaxTokens]
    /\ held \in 0..MaxTokens /\ tokens \in 0..MaxTokens
    /\ {strays, orphans} \subseteq SUBSET (1..MaxTokens)
    /\ {measured, guesses} \subseteq [Guessing -> Nat]
    /\ signInFaults \in 0..MaxSignInFaults

\* A session that GoTrue opened is with its caller or revoked once the call is over, but for a
\* refused logout and a call that died; none that was opened under a ban is given away, nor one
\* of an account of another role (runner.ts: "The session the provider issues is revoked on every
\* path that does not return it").
NoSessionAstray ==
    \A c \in Calls :
        /\ at[c] = "idle" /\ session[c] = "open" => c \in excused
        /\ session[c] = "kept" => c \notin late /\ kind[c] # "foreign"

\* What a recipient can be guessed at is its limit, the hit that lays the penalty and what was
\* already asked when it was laid, or was never counted by a call that died (runner.ts: the limit
\* is read before GoTrue is asked and counted after it answered).
GuessesBounded ==
    \A k \in Guessing :
        guesses[k] <= Limit + signInFaults + Cardinality({c \in Calls : kind[c] = k})

\* The token a client keeps is the one whose digest the row holds, once no call is under way, but
\* for a write that was not made, one overwritten before it was answered, one that was never
\* answered (devices.ts: "A device already known is given a fresh token").
DeviceTokenKnown ==
    (\A c \in Calls : at[c] = "idle") /\ Present =>
        device.digest = held \/ held \in strays \/ device.digest \in orphans

-----------------------------------------------------------------------------
(* Why those hold.                                                            *)

\* The calls GoTrue has been asked by and not answered, and those whose guess it has
\* answered and the limit has yet to count.
Asking(k) == {c \in Calls : kind[c] = k /\ at[c] = "asking"}
Uncounted(k) == {c \in Calls : kind[c] = k /\ (at[c] = "refused" \/ (at[c] = "opened" /\ k = "foreign"))}

\* What is open is on its way to its caller or to being revoked, and a session that gets past
\* the account was not opened under a ban.
Owned ==
    /\ late # {} => banned
    /\ \A c \in Calls :
        /\ at[c] \in {"asking", "refused"} => session[c] = "none"
        /\ at[c] \in {"checking", "known", "writing", "written"} => c \notin late /\ kind[c] # "foreign"

\* A guess is counted, about to be, or lost to a fault; once the limit is reached what is
\* still asked is what it was aimed at before.
Counted ==
    \A k \in Guessing :
        /\ measured[k] <= Limit + 1
        /\ ~Blocked(k) => guesses[k] <= measured[k] + Cardinality(Uncounted(k)) + signInFaults
        /\ Blocked(k) => guesses[k] + Cardinality(Asking(k))
                            <= Limit + signInFaults + Cardinality({c \in Calls : kind[c] = k})

\* A token is in the row, a stray, or of a device that was removed before it was answered.
Minted ==
    /\ \A c \in Calls :
        /\ at[c] \in {"writing", "written"} => token[c] # 0
        /\ at[c] = "written" /\ Present => token[c] = device.digest \/ token[c] \in strays
    /\ Present => device.digest = held \/ held \in strays \/ device.digest \in orphans

IInv == TypeOK /\ NoSessionAstray /\ Owned /\ Counted /\ Minted
=============================================================================
