--------------------------- MODULE ValkeryEntries ---------------------------
(* The keys and entries of the caches of a fleet in one Redis: the names of   *)
(* namespaces and how one is swept, the entry that is dated by the replica    *)
(* that wrote it and judged by the one that reads it, the keys of workers     *)
(* (foundation/lib/src/valkery: key_space.ts, valkery_entry.ts,               *)
(* early_expiry.ts, ttl_jitter.ts, redis_valkery_store.ts, redis_valkeries.ts,*)
(* capability.ts). Who computes an entry is ValkeryFlight. A name is its      *)
(* sequence of characters, as far as they matter.                             *)
EXTENDS Integers, Sequences, SequencesExt

CONSTANTS
    Hosts,             \* replicas
    ClockAhead,        \* [Hosts -> how far the clock of each is ahead]
    Entries,           \* namespaces and identifiers, <<namespace, id>>
    OfWorkers,         \* namespaces and keys of workers, <<namespace, key>>
    Ttls,              \* the lives namespaces are declared with
    Spread,            \* the most that is added to one
    MaxDraw,           \* the furthest a reader refreshes, in costs of the value
    MaxInstant,        \* bound: time
    MaxWrites,         \* bound: writes
    MaxValkeryFaults   \* bound: calls of Redis that fail, expiries it loses

ValkeryEntriesAssumption ==
    /\ ClockAhead \in [Hosts -> Nat] /\ Ttls \subseteq Nat \ {0}
    /\ {Spread, MaxDraw, MaxInstant, MaxWrites, MaxValkeryFaults} \subseteq Nat
    /\ \A e \in Entries : ~IsPrefix(<<"lock", ":">>, e[1])   \* a lock key would be an entry's

VARIABLES
    store,       \* [key -> entry] of what Redis holds
    ttl,         \* the life each namespace has, by its newest declaration
    sweep,       \* the clear under way: its namespace and the keys it still has to reach
    instant,
    writes, valkeryFaults,
    late,        \* entries answered though their writer had dated them over, by more than the clocks differ
    strayed      \* keys a sweep or a removal took that were not its own

entryVars == <<store, ttl, sweep, instant, writes, valkeryFaults, late, strayed>>

-----------------------------------------------------------------------------
(* Keys.                                                                   *)

EscapedIn(chars, name) == FlattenSeq([i \in DOMAIN name |-> IF name[i] \in chars THEN <<"\\", name[i]>>
                                                           ELSE <<name[i]>>])
\* Mutant of Unnestable: the separator inside a namespace stays as it is.
Nestable(ns) == ns
Unnestable(ns) == EscapedIn({"\\", "/"}, ns)
KeyOf(e) == Unnestable(e[1]) \o <<"/">> \o e[2]
LockKeyOf(e) == <<"lock", ":">> \o KeyOf(e)

\* Mutant of AsGlobbed: a namespace is read as a pattern.
AsPattern(literal) == literal
AsGlobbed(literal) == EscapedIn({"\\", "*", "?", "[", "]"}, literal)
Pattern(ns) == AsGlobbed(Unnestable(ns)) \o <<"/", "*">>

\* Whether the glob p takes all of s: selects[i, j] is whether p from i on takes s from j on.
Globs(p, s) ==
    LET selects[i \in 1..Len(p) + 1, j \in 1..Len(s) + 1] ==
            IF i > Len(p) THEN j > Len(s)
            ELSE CASE p[i] = "*" -> selects[i + 1, j] \/ (j <= Len(s) /\ selects[i, j + 1])
                   [] p[i] = "\\" /\ i < Len(p) ->
                        j <= Len(s) /\ s[j] = p[i + 1] /\ selects[i + 2, j + 1]
                   [] OTHER -> j <= Len(s) /\ s[j] = p[i] /\ selects[i + 1, j + 1]
    IN  selects[1, 1]

\* A worker's key is joined by colons, whatever its names hold.
WorkerKey(w) == <<"worker", ":">> \o w[1] \o <<":">> \o w[2]
Prefixed(w) == WorkerKey(w) \o <<"*">>

\* The keys there can be that a pattern selects.
Keys == {KeyOf(e) : e \in Entries} \cup {LockKeyOf(e) : e \in Entries} \cup {WorkerKey(w) : w \in OfWorkers}
Patterns == {Pattern(e[1]) : e \in Entries} \cup {Prefixed(w) : w \in OfWorkers}
Selected == [p \in Patterns |-> {k \in Keys : Globs(p, k)}]

KeysOf(ns) == {KeyOf(e) : e \in {f \in Entries : f[1] = ns}}
Namespaces == {e[1] : e \in Entries}
\* Keys a namespace does not have, or not to itself.
Astray(ns, ks) == ~(ks \subseteq KeysOf(ns)) \/ (\E m \in Namespaces \ {ns} : ks \cap KeysOf(m) # {})

-----------------------------------------------------------------------------
(* Entries.                                                                *)

Clock(h) == instant + ClockAhead[h]
Never == MaxInstant + 100
Bare == 0 - 1
\* [dated: when its writer says it is over, or Bare; cost; until: when Redis drops it; by: its writer]
Entry(dated, cost, until, by) == [dated |-> dated, cost |-> cost, until |-> until, by |-> by]
There(k) == k \in DOMAIN store /\ store[k].until > instant

\* Mutant of Readable: what Redis holds is read.
ReadableIfHeld(h, k) == There(k)
\* An entry without an envelope dates from before there were any.
Readable(h, k) == There(k) /\ (store[k].dated = Bare \/ store[k].dated > Clock(h))

\* What is left of it to a reader: no more than the ttl.
ExpiresAt(h, k, t) ==
    IF store[k].dated = Bare \/ store[k].dated > Clock(h) + t THEN Clock(h) + t ELSE store[k].dated
\* Whether a reader may draw the refresh of it.
MayRefresh(h, k, t) ==
    store[k].cost > 0 /\ Clock(h) + store[k].cost * MaxDraw >= ExpiresAt(h, k, t)

Init ==
    /\ store = <<>> /\ ttl \in [Namespaces -> Ttls] /\ sweep = [of |-> <<>>, left |-> {}]
    /\ instant = 0 /\ writes = 0 /\ valkeryFaults = 0 /\ late = FALSE /\ strayed = FALSE

Fails == valkeryFaults < MaxValkeryFaults /\ valkeryFaults' = valkeryFaults + 1
Writes == writes < MaxWrites /\ writes' = writes + 1
Put(k, e) == store' = [x \in DOMAIN store \cup {k} |-> IF x = k THEN e ELSE store[x]]
Without(ks) == store' = [x \in DOMAIN store \ ks |-> store[x]]
SweepSees(k) == IF sweep.of # <<>> /\ ~There(k) THEN sweep.left \ {k} ELSE sweep.left

-----------------------------------------------------------------------------
(* The calls of a cache.                                                   *)

\* The newest declaration of a key is the one in force.
Declare(ns, t) ==
    /\ Writes /\ ttl[ns] # t /\ ttl' = [ttl EXCEPT ![ns] = t]
    /\ UNCHANGED <<store, sweep, instant, valkeryFaults, late, strayed>>

\* add, addMany and what upsert computed: spread out a little, and dated from one number.
Add(h, e, cost, more) ==
    LET lives == ttl[e[1]] + more IN
    /\ Writes /\ Put(KeyOf(e), Entry(Clock(h) + lives, cost, instant + lives, h))
    /\ sweep' = [sweep EXCEPT !.left = SweepSees(KeyOf(e))]
    /\ UNCHANGED <<ttl, instant, valkeryFaults, late, strayed>>

\* What a release before the envelope had written.
AddBare(e) ==
    /\ Writes /\ Put(KeyOf(e), Entry(Bare, 0, instant + ttl[e[1]], "none"))
    /\ sweep' = [sweep EXCEPT !.left = SweepSees(KeyOf(e))]
    /\ UNCHANGED <<ttl, instant, valkeryFaults, late, strayed>>

\* get, getMany, and upsert that finds one; a reader of an old entry may refresh it.
Get(h, e) ==
    LET k == KeyOf(e) IN
    /\ Readable(h, k)
    /\ late' = (late \/ (store[k].dated # Bare /\
                         instant + ClockAhead[store[k].by] >= store[k].dated
                                  + (IF ClockAhead[store[k].by] > ClockAhead[h]
                                       THEN ClockAhead[store[k].by] - ClockAhead[h] ELSE 0)))
    /\ UNCHANGED <<store, ttl, sweep, instant, writes, valkeryFaults, strayed>>

Refresh(h, e, cost, more) ==
    /\ Readable(h, KeyOf(e)) /\ MayRefresh(h, KeyOf(e), ttl[e[1]]) /\ Add(h, e, cost, more)

Delete(es) ==
    LET ks == {KeyOf(e) : e \in es} IN
    /\ ks \cap DOMAIN store # {} /\ Without(ks)
    /\ sweep' = [sweep EXCEPT !.left = @ \ ks]
    /\ UNCHANGED <<ttl, instant, writes, valkeryFaults, late, strayed>>

\* The lock over an entry, which a sweep of its namespace leaves.
Lock(e) ==
    /\ Writes /\ ~There(LockKeyOf(e))
    /\ Put(LockKeyOf(e), Entry(Bare, 0, Never, "none"))
    /\ UNCHANGED <<ttl, sweep, instant, valkeryFaults, late, strayed>>

Sweepable(ns) == DOMAIN store \cap Selected[Pattern(ns)]

Sweep(ns) ==
    /\ sweep.of = <<>> /\ Sweepable(ns) # {}
    /\ sweep' = [of |-> ns, left |-> {k \in KeysOf(ns) : There(k)}]
    /\ UNCHANGED <<store, ttl, instant, writes, valkeryFaults, late, strayed>>

\* Mutant of SweepOn: a page that holds no key is taken for the last.
SweepUntilEmpty(page) ==
    /\ (page = {} \/ sweep.left \subseteq page)
    /\ Without(page) /\ strayed' = (strayed \/ Astray(sweep.of, page) \/ (sweep.left \ page) # {})
    /\ sweep' = [of |-> <<>>, left |-> {}]
    /\ UNCHANGED <<ttl, instant, writes, valkeryFaults, late>>

\* A page of keys, until the cursor is back: all that were there from beginning to end were handed out.
SweepOn(page) ==
    /\ Without(page) /\ strayed' = (strayed \/ Astray(sweep.of, page))
    /\ \/ (sweep.left \subseteq page) /\ sweep' = [of |-> <<>>, left |-> {}]
       \/ page # {} /\ sweep' = [sweep EXCEPT !.left = @ \ page]
    /\ UNCHANGED <<ttl, instant, writes, valkeryFaults, late>>

\* A call Redis refused does nothing, but what a sweep took before.
Refused ==
    /\ Fails /\ sweep' = [of |-> <<>>, left |-> {}]
    /\ sweep.of # <<>>
    /\ UNCHANGED <<store, ttl, instant, writes, late, strayed>>

-----------------------------------------------------------------------------
(* Workers, Redis and time.                                                *)

WorkerSet(w) ==
    /\ Writes /\ Put(WorkerKey(w), Entry(Bare, 0, Never, "none"))
    /\ strayed' = (strayed \/ (\E v \in OfWorkers \ {w} :
                      WorkerKey(v) = WorkerKey(w) /\ ":" \notin ToSet(v[1] \o w[1])))
    /\ UNCHANGED <<ttl, sweep, instant, valkeryFaults, late>>

\* A key, or every key that begins like it; a name that holds a pattern is one.
WorkerDelete(w, prefix) ==
    LET gone == DOMAIN store \cap (IF prefix THEN Selected[Prefixed(w)] ELSE {WorkerKey(w)}) IN
    /\ gone # {} /\ Without(gone)
    /\ strayed' = (strayed \/ (\E k \in gone : ~IsPrefix(WorkerKey(w), k) /\ "*" \notin ToSet(w[1] \o w[2])))
    /\ sweep' = [sweep EXCEPT !.left = @ \ gone]
    /\ UNCHANGED <<ttl, instant, writes, valkeryFaults, late>>

\* A Redis that restarts may lose when a key was to expire.
LoseExpiry(k) ==
    /\ There(k) /\ store[k].until # Never /\ Fails
    /\ Put(k, [store[k] EXCEPT !.until = Never])
    /\ UNCHANGED <<ttl, sweep, instant, writes, late, strayed>>

Tick ==
    /\ instant < MaxInstant /\ instant' = instant + 1
    /\ LET over == {k \in DOMAIN store : store[k].until <= instant + 1} IN
       Without(over) /\ sweep' = [sweep EXCEPT !.left = @ \ over]
    /\ UNCHANGED <<ttl, writes, valkeryFaults, late, strayed>>

\* withJitter: what spreads the ends of the entries written together.
Jitter == 0..Spread

Next ==
    \/ \E h \in Hosts, e \in Entries :
          \/ Get(h, e)
          \/ \E cost \in {0, 1}, more \in Jitter : Add(h, e, cost, more) \/ Refresh(h, e, cost, more)
    \/ \E e \in Entries : AddBare(e) \/ Delete({e}) \/ Lock(e)
    \/ \E ns \in Namespaces : Sweep(ns) \/ \E t \in Ttls : Declare(ns, t)
    \/ sweep.of # <<>> /\ \E page \in SUBSET Sweepable(sweep.of) : SweepOn(page)
    \/ \E w \in OfWorkers : WorkerSet(w) \/ \E prefix \in BOOLEAN : WorkerDelete(w, prefix)
    \/ Refused \/ Tick \/ \E k \in DOMAIN store : LoseExpiry(k)

Spec == Init /\ [][Next]_entryVars

-----------------------------------------------------------------------------
TypeOK ==
    /\ \A k \in DOMAIN store : store[k].until > instant /\ store[k].by \in Hosts \cup {"none"}
    /\ ttl \in [Namespaces -> Ttls]
    /\ sweep.left \subseteq DOMAIN store /\ sweep.of \in Namespaces \cup {<<>>}
    /\ instant \in 0..MaxInstant /\ writes \in 0..MaxWrites /\ valkeryFaults \in 0..MaxValkeryFaults
    /\ {late, strayed} \subseteq BOOLEAN

(* An entry is answered until its writer dated it over and no longer than the *)
(* clocks of the two differ, whatever Redis does with its expiry.             *)
SpentIsGone == ~late

(* A sweep takes every entry of its namespace that was there all along, and   *)
(* nothing of another nor a lock; a worker reaches the keys it names, but for *)
(* a namespace that holds a colon and a prefix that holds a pattern.          *)
SweepsTakeTheirOwn == ~strayed
=============================================================================
