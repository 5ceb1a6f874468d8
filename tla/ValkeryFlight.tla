----------------------------- MODULE ValkeryFlight -----------------------------
(***************************************************************************)
(* The calls of a fleet that ask a cache for one key, and the computations *)
(* they share (foundation/lib/src/valkery).                                *)
(*                                                                         *)
(* On its replica a call joins the run under way or starts one. A run that *)
(* finds no entry competes for a lock in Redis: the winner computes and    *)
(* writes the entry, a loser waits for it and computes without the lock    *)
(* when its patience ends. A run that finds an entry close to expiring     *)
(* answers with it and refreshes it on its own.                            *)
(*                                                                         *)
(* The origin is a version. A project changes it, then removes the entry.  *)
(* Deadlines, leases and ttls are not measured: each may end at any time.  *)
(***************************************************************************)
EXTENDS Integers

CONSTANTS
    Calls,          \* calls of upsert
    Replicas,
    At,             \* [Calls -> Replicas]
    None,           \* no entry, no owner, no run
    MaxChanges,     \* bound: changes of the origin
    MaxFaults       \* bound: calls that fail, computations that raise or hang, deaths

\* What computes on behalf of a call: its run, or the refresh its run drew.
Works == Calls \X {"fill", "ahead"}

\* A token nobody knows it has set.
Owners == Calls \X {"fill", "ahead", "lost"}

ASSUME FlightAssumption ==
    /\ At \in [Calls -> Replicas]
    /\ None \notin Calls \cup Owners
    /\ {MaxChanges, MaxFaults} \subseteq Nat

VARIABLES
    origin,     \* the version of what is cached
    toForget,   \* versions whose entry is still to be removed
    forgotten,  \* the last version whose entry was removed
    entry,      \* what Redis holds under the key
    lock,       \* whose token is under the lock key
    inFlight,   \* the run each replica would join a call to
    replaced,   \* runs under way that a later one took the place of
    call,       \* what has become of each call
    joins,      \* the run each call has joined
    since,      \* forgotten, when each call that has not ended was made
    outdated,   \* calls answered a value removed before they were made, and not late
    stage,      \* where each run and each refresh is
    held,       \* the value each has computed
    locked,     \* those that were told they have the lock
    overran,    \* those of them whose lease ended
    hung,       \* those whose computation will not answer
    faults      \* faults so far

cached == <<origin, toForget, forgotten, entry>>
calls == <<call, joins, since, outdated, inFlight, replaced>>
works == <<stage, held, locked, overran, hung>>
vars == <<cached, lock, calls, works, faults>>

Init ==
    /\ origin = 0
    /\ toForget = {}
    /\ forgotten = 0
    /\ entry = None
    /\ lock = None
    /\ inFlight = [r \in Replicas |-> None]
    /\ replaced = {}
    /\ call = [c \in Calls |-> "out"]
    /\ joins = [c \in Calls |-> None]
    /\ since = [c \in Calls |-> 0]
    /\ outdated = {}
    /\ stage = [w \in Works |-> "idle"]
    /\ held = [w \in Works |-> None]
    /\ locked = {}
    /\ overran = {}
    /\ hung = {}
    /\ faults = 0

Fault == faults < MaxFaults /\ faults' = faults + 1

-----------------------------------------------------------------------------
(* A project and Redis.                                                    *)

Change ==
    /\ origin < MaxChanges
    /\ origin' = origin + 1
    /\ toForget' = toForget \cup {origin + 1}
    /\ UNCHANGED <<forgotten, entry, lock, calls, works, faults>>

\* A value older than the version whose entry is removed is late from then on.
Late(value, v) ==
    IF value # None /\ value.version < v THEN [value EXCEPT !.late = TRUE] ELSE value

\* Older than the version removed last, and not late.
Outdated(value, last) == value # None /\ ~value.late /\ value.version < last

\* Mutant of Forget: the key of the lock is removed.
ForgetTheLock(v) ==
    /\ v \in toForget
    /\ toForget' = toForget \ {v}
    /\ lock' = None
    /\ forgotten' = IF v > forgotten THEN v ELSE forgotten
    /\ held' = [w \in Works |-> Late(held[w], v)]
    /\ UNCHANGED <<origin, entry, calls, stage, locked, overran, hung, faults>>

\* delete(): the entry goes, and what is being computed does not know.
Forget(v) ==
    /\ v \in toForget
    /\ toForget' = toForget \ {v}
    /\ entry' = None
    /\ forgotten' = IF v > forgotten THEN v ELSE forgotten
    /\ held' = [w \in Works |-> Late(held[w], v)]
    /\ UNCHANGED <<origin, lock, calls, stage, locked, overran, hung, faults>>

\* Redis refused: reported, and the entry stays.
ForgetFails(v) ==
    /\ v \in toForget
    /\ Fault
    /\ toForget' = toForget \ {v}
    /\ UNCHANGED <<origin, forgotten, entry, lock, calls, works>>

Expires ==
    /\ entry # None
    /\ entry' = None
    /\ UNCHANGED <<origin, toForget, forgotten, lock, calls, works, faults>>

LeaseEnds ==
    /\ lock # None
    /\ lock' = None
    /\ overran' = overran \cup (locked \cap {lock})
    /\ UNCHANGED <<cached, calls, stage, held, locked, hung, faults>>

-----------------------------------------------------------------------------
(* The calls of one replica.                                               *)

\* The run of a call begins, in front of any other of this replica.
Begin(c) ==
    /\ call' = [call EXCEPT ![c] = "own"]
    /\ inFlight' = [inFlight EXCEPT ![At[c]] = c]
    /\ replaced' = replaced \cup ({inFlight[At[c]]} \ {None})
    /\ stage' = [stage EXCEPT ![<<c, "fill">>] = "read"]

\* No run, or one too old for a call to join.
Start(c) ==
    /\ call[c] = "out"
    /\ Begin(c)
    /\ since' = [since EXCEPT ![c] = forgotten]
    /\ UNCHANGED <<cached, lock, joins, outdated, held, locked, overran, hung, faults>>

Join(c) ==
    /\ call[c] = "out"
    /\ inFlight[At[c]] # None
    /\ call' = [call EXCEPT ![c] = "joined"]
    /\ joins' = [joins EXCEPT ![c] = inFlight[At[c]]]
    /\ since' = [since EXCEPT ![c] = forgotten]
    /\ UNCHANGED <<cached, lock, outdated, inFlight, replaced, works, faults>>

\* Mutant of Leave: a call waits for the run it joined, however long.
LeaveNever(c) == FALSE /\ UNCHANGED vars

\* The run a call joined has not answered within its budget.
Leave(c) ==
    /\ call[c] = "joined"
    /\ Begin(c)
    /\ joins' = [joins EXCEPT ![c] = None]
    /\ UNCHANGED <<cached, lock, since, outdated, held, locked, overran, hung, faults>>

Ended(cs) ==
    /\ call' = [c \in Calls |-> IF c \in cs THEN "ended" ELSE call[c]]
    /\ joins' = [c \in Calls |-> IF c \in cs THEN None ELSE joins[c]]
    /\ since' = [c \in Calls |-> IF c \in cs THEN 0 ELSE since[c]]

\* Mutant of Unregister: whatever run is registered is taken out.
UnregisterAny(c) == inFlight' = [inFlight EXCEPT ![At[c]] = None]

\* A run takes itself out, and no run that replaced it.
Unregister(c) == inFlight' = [inFlight EXCEPT ![At[c]] = IF @ = c THEN None ELSE @]

\* The run of c is over: its call and those that joined it have its value, or its error.
Answer(c, value) ==
    LET ended == {d \in Calls : d = c \/ (call[d] = "joined" /\ joins[d] = c)} IN
    /\ Ended(ended)
    /\ outdated' = outdated \cup {d \in ended : Outdated(value, since[d])}
    /\ Unregister(c)
    /\ replaced' = replaced \ {c}

-----------------------------------------------------------------------------
(* A run or a refresh.                                                     *)

IsFill(w) == w[2] = "fill"
Goes(w, to) == stage' = [stage EXCEPT ![w] = to]

\* The entry is answered, and refreshed by a run that drew it.
Hit(c) ==
    /\ stage[<<c, "fill">>] = "read"
    /\ entry # None
    /\ \/ Goes(<<c, "fill">>, "idle")
       \/ stage' = [stage EXCEPT ![<<c, "fill">>] = "idle", ![<<c, "ahead">>] = "lock"]
    /\ Answer(c, entry)
    /\ UNCHANGED <<cached, lock, held, locked, overran, hung, faults>>

\* No entry, or Redis does not answer.
Miss(c) ==
    /\ stage[<<c, "fill">>] = "read"
    /\ \/ entry = None /\ UNCHANGED faults
       \/ Fault
    /\ Goes(<<c, "fill">>, "lock")
    /\ UNCHANGED <<cached, lock, calls, held, locked, overran, hung>>

Acquire(w) ==
    /\ stage[w] = "lock"
    /\ lock = None
    /\ lock' = w
    /\ locked' = locked \cup {w}
    /\ Goes(w, "compute")
    /\ UNCHANGED <<cached, calls, held, overran, hung, faults>>

\* Mutant of Lose: a refresh waits for the winner as a run does.
LoseAndWait(w) ==
    /\ stage[w] = "lock"
    /\ lock # None
    /\ Goes(w, "wait")
    /\ UNCHANGED <<cached, lock, calls, held, locked, overran, hung, faults>>

\* Somebody has the lock: a run waits for what it writes, a refresh is given up.
Lose(w) ==
    /\ stage[w] = "lock"
    /\ lock # None
    /\ Goes(w, IF IsFill(w) THEN "wait" ELSE "idle")
    /\ UNCHANGED <<cached, lock, calls, held, locked, overran, hung, faults>>

\* Redis does not answer, whether it set the token or not: a run computes all the same.
LockFails(w) ==
    /\ stage[w] = "lock"
    /\ Fault
    /\ lock' \in {lock} \cup (IF lock = None THEN {<<w[1], "lost">>} ELSE {})
    /\ Goes(w, IF IsFill(w) THEN "compute" ELSE "idle")
    /\ UNCHANGED <<cached, calls, held, locked, overran, hung>>

\* A loser reads what the winner wrote.
ReadBack(c) ==
    /\ stage[<<c, "fill">>] = "wait"
    /\ entry # None
    /\ Goes(<<c, "fill">>, "idle")
    /\ Answer(c, entry)
    /\ UNCHANGED <<cached, lock, held, locked, overran, hung, faults>>

GiveUp(c) ==
    /\ stage[<<c, "fill">>] = "wait"
    /\ Goes(<<c, "fill">>, "compute")
    /\ UNCHANGED <<cached, lock, calls, held, locked, overran, hung, faults>>

Compute(w) ==
    /\ stage[w] = "compute" /\ w \notin hung
    /\ held' = [held EXCEPT ![w] = [version |-> origin, late |-> FALSE]]
    /\ Goes(w, "write")
    /\ UNCHANGED <<cached, lock, calls, locked, overran, hung, faults>>

\* The run or the refresh is over with what it holds.
Over(w) ==
    /\ Goes(w, "idle")
    /\ held' = [held EXCEPT ![w] = None]
    /\ locked' = locked \ {w}
    /\ overran' = overran \ {w}
    /\ IF IsFill(w) THEN Answer(w[1], held[w]) ELSE UNCHANGED calls

\* With the lock, it is released first.
Ends(w) ==
    IF w \in locked
      THEN Goes(w, "release") /\ UNCHANGED <<held, locked, overran, calls>>
      ELSE Over(w)

Raise(w) ==
    /\ stage[w] = "compute" /\ w \notin hung
    /\ Fault
    /\ Ends(w)
    /\ UNCHANGED <<cached, lock, hung>>

Hang(w) ==
    /\ stage[w] = "compute" /\ w \notin hung
    /\ Fault
    /\ hung' = hung \cup {w}
    /\ UNCHANGED <<cached, lock, calls, stage, held, locked, overran>>

\* The entry is written, or Redis refuses and nobody minds.
Write(w) ==
    /\ stage[w] = "write"
    /\ \/ entry' = held[w] /\ UNCHANGED faults
       \/ Fault /\ UNCHANGED entry
    /\ Ends(w)
    /\ UNCHANGED <<origin, toForget, forgotten, lock, hung>>

\* Mutant of Release: the key is removed whoever owns it.
ReleaseByKey(w) ==
    /\ stage[w] = "release"
    /\ lock' = None /\ UNCHANGED faults
    /\ Over(w)
    /\ UNCHANGED <<cached, hung>>

\* Compared and removed in one script: nothing of a successor is released.
Release(w) ==
    /\ stage[w] = "release"
    /\ \/ lock' = (IF lock = w THEN None ELSE lock) /\ UNCHANGED faults
       \/ Fault /\ UNCHANGED lock
    /\ Over(w)
    /\ UNCHANGED <<cached, hung>>

\* A replica dies with its calls. Its lock is left to the lease.
Crash(r) ==
    LET mine(w) == At[w[1]] = r IN
    /\ inFlight[r] # None \/ \E w \in Works : mine(w) /\ stage[w] # "idle"
    /\ Fault
    /\ Ended({c \in Calls : At[c] = r /\ call[c] \in {"own", "joined"}})
    /\ inFlight' = [inFlight EXCEPT ![r] = None]
    /\ replaced' = {c \in replaced : At[c] # r}
    /\ stage' = [w \in Works |-> IF mine(w) THEN "idle" ELSE stage[w]]
    /\ held' = [w \in Works |-> IF mine(w) THEN None ELSE held[w]]
    /\ locked' = {w \in locked : ~mine(w)}
    /\ overran' = {w \in overran : ~mine(w)}
    /\ hung' = {w \in hung : ~mine(w)}
    /\ UNCHANGED <<cached, lock, outdated>>

-----------------------------------------------------------------------------

Work(w) ==
    \/ Acquire(w) \/ Lose(w) \/ LockFails(w) \/ Compute(w) \/ Raise(w) \/ Write(w) \/ Release(w)
    \/ IsFill(w) /\ (Hit(w[1]) \/ Miss(w[1]) \/ ReadBack(w[1]) \/ GiveUp(w[1]))

Next ==
    \/ Change \/ Expires \/ LeaseEnds
    \/ \E v \in toForget : Forget(v) \/ ForgetFails(v)
    \/ \E c \in Calls : Start(c) \/ Join(c) \/ Leave(c)
    \/ \E w \in Works : Work(w) \/ Hang(w)
    \/ \E r \in Replicas : Crash(r)

Spec == Init /\ [][Next]_vars

(* A replica goes on with the runs it has started, and its timers fire. A   *)
(* refresh may take for ever: no call waits for it but through its lock.    *)
Fairness == \A c \in Calls : WF_vars(Leave(c) \/ Work(<<c, "fill">>))

FairSpec == Spec /\ Fairness

-----------------------------------------------------------------------------
(* Properties.                                                             *)

Values == [version : 0..MaxChanges, late : BOOLEAN]

Computing(w) == stage[w] \in {"compute", "write"}

TypeOK ==
    /\ origin \in 0..MaxChanges
    /\ toForget \subseteq 0..MaxChanges
    /\ forgotten \in 0..MaxChanges
    /\ entry \in Values \cup {None}
    /\ lock \in Owners \cup {None}
    /\ inFlight \in [Replicas -> Calls \cup {None}]
    /\ replaced \subseteq Calls
    /\ call \in [Calls -> {"out", "joined", "own", "ended"}]
    /\ joins \in [Calls -> Calls \cup {None}]
    /\ since \in [Calls -> 0..MaxChanges]
    /\ outdated \subseteq Calls
    /\ stage \in [Works -> {"idle", "read", "lock", "wait", "compute", "write", "release"}]
    /\ \A c \in Calls : stage[<<c, "ahead">>] \notin {"read", "wait"}
    /\ held \in [Works -> Values \cup {None}]
    /\ locked \subseteq {w \in Works : Computing(w) \/ stage[w] = "release"}
    /\ overran \subseteq locked
    /\ hung \subseteq Works
    /\ faults \in 0..MaxFaults

\* One computes at a time of those the lock was given to: of two, one has outlived its
\* lease, whatever the others release, lose, or give up waiting for.
AloneUnderTheLock ==
    \A u, w \in locked : u # w /\ Computing(u) /\ Computing(w) => overran \cap {u, w} # {}

UnderWay(c) == stage[<<c, "fill">>] # "idle"

\* "An entry lives exactly as long as the computation it stands for": a run can be joined
\* from when it starts until it answers or a later one takes its place, and no longer,
\* whichever of the runs of its replica answers first.
RegisteredWhileRunning ==
    /\ \A r \in Replicas : inFlight[r] # None => UnderWay(inFlight[r])
    /\ \A c \in Calls : UnderWay(c) => inFlight[At[c]] = c \/ c \in replaced

\* Once an entry is removed, neither the cache nor a call made afterwards answers an
\* older value, but one computed before the removal and not yet written at that time.
FreshAfterForget ==
    /\ ~Outdated(entry, forgotten)
    /\ outdated = {}

\* A computation that hangs takes no key out of service: each of the calls made ends,
\* but one whose own run hangs, whether it joined that run or waited for its lock.
EveryCallEnds ==
    <>[](\A c \in Calls : call[c] \in {"out", "ended"} \/ <<c, "fill">> \in hung)
-----------------------------------------------------------------------------
(* The inductive invariants behind the safety properties, each given       *)
(* TypeOK and those before it.                                             *)

\* A call has a run exactly while it is its own, and a refresh only once it has ended.
RunInv ==
    /\ \A c \in Calls : UnderWay(c) <=> call[c] = "own"
    /\ \A c \in Calls : call[c] # "ended" => stage[<<c, "ahead">>] = "idle"

\* Who was told it has the lock and is within its lease is the owner of the key.
LockInv == \A w \in locked \ overran : lock = w

\* The run a replica would join a call to is one of its own.
FlightInv ==
    /\ RegisteredWhileRunning
    /\ \A r \in Replicas : inFlight[r] # None => At[inFlight[r]] = r

\* What is written, or about to be, is late or no older than the last removal, which
\* removes no version the origin has not had, and every call was made before it or at it.
FreshInv ==
    /\ FreshAfterForget
    /\ forgotten <= origin
    /\ \A v \in toForget : v <= origin
    /\ \A w \in Works : ~Outdated(held[w], forgotten)
    /\ \A c \in Calls : since[c] <= forgotten
-----------------------------------------------------------------------------
(* A small instance, for TLC: two calls on one replica, one on the other.     *)
TwoAndOne == [c \in Calls |-> IF c = "third" THEN "other" ELSE "one"]
=============================================================================
