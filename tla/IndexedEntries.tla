---------------------------- MODULE IndexedEntries ----------------------------
(* Cached entries of one account and the Redis set that names them, so that a  *)
(* change of the account can drop them (foundation/lib/src/redis/key_index.ts).*)
(* Two caches are kept so: the roles an account is found to hold (auth/lib/src/*)
(* identity.ts), and the identities read from its access tokens, whose         *)
(* revocation also leaves a mark that sends later tokens back to GoTrue        *)
(* (foundation/lib/src/redis/identity_revocation.ts).                          *)
EXTENDS Naturals

CONSTANTS
    Entries,          \* one reader each
    Direct,           \* of the roles, the entries that are dropped by their name
    Lifetime,         \* [Entries -> Nat]: of an identity, that of its token
    RoleLife,         \* of every role, and of their index
    MaxChanges,       \* bound: changes of the account
    MaxTime,          \* bound
    MaxIndexFaults    \* bound: calls of Redis that fail, revocations that die

EntryAssumption ==
    /\ Direct \subseteq Entries /\ Lifetime \in [Entries -> Nat]
    /\ {RoleLife, MaxChanges, MaxTime, MaxIndexFaults} \subseteq Nat

VARIABLES
    cache,         \* which of the two: "role" or "identity"
    clock,
    truth,         \* changes of the account so far
    entry,         \* per entry: what it says and until when
    index,         \* the entries the set names, and until when it does
    mark,          \* the account is checked at GoTrue
    reader,        \* per entry: what is left to write, what was read, whether a revocation
                   \* read the set meanwhile
    revoker,       \* its step and the entries it read
    late,          \* entries whose reader a revocation passed when it read the set
    lost,          \* entries whose name was not written, or whose set ended before them
    indexFaults

entryVars == <<cache, clock, truth, entry, index, mark, reader, revoker, late, lost, indexFaults>>

Absent == [says |-> 0, until |-> 0]
Idle == [writes |-> {}, says |-> 0, passed |-> FALSE]
Resting == [pc |-> "rest", members |-> {}]

Init ==
    /\ cache \in {"role", "identity"} /\ clock = 0 /\ truth = 0
    /\ entry = [e \in Entries |-> Absent] /\ index = [names |-> {}, until |-> 0] /\ mark = FALSE
    /\ reader = [e \in Entries |-> Idle] /\ revoker = Resting
    /\ late = {} /\ lost = {} /\ indexFaults = 0

Named(e) == ~(cache = "role" /\ e \in Direct)
Life(e) == IF cache = "role" THEN RoleLife ELSE Lifetime[e]
Cached == {e \in Entries : entry[e].until > clock}
Names == IF index.until > clock THEN index.names ELSE {}
\* What outlives the set that names it.
LeftBehind(at) == {e \in Names : entry[e].until > at \/ "entry" \in reader[e].writes}
Fault == indexFaults < MaxIndexFaults /\ indexFaults' = indexFaults + 1
May(ok) == IF ok THEN UNCHANGED indexFaults ELSE Fault

-----------------------------------------------------------------------------
\* A miss: a role is read from its table, an identity from the token, which says what was true
\* when it was signed, unless the mark sends it to GoTrue. What reads identities is outside the
\* repository, and taken to call remember and recheckRequired as they ask to be.
Miss(e) ==
    /\ e \notin Cached /\ reader[e] = Idle
    /\ reader' = [reader EXCEPT ![e] =
           [writes |-> {"entry"} \union IF Named(e) THEN {"name"} ELSE {},
            says |-> IF cache = "role" \/ mark THEN truth ELSE 0,
            passed |-> cache = "identity" /\ revoker.pc \in {"drop", "forget", "mark"}]]
    /\ UNCHANGED <<cache, clock, truth, entry, index, mark, revoker, late, lost, indexFaults>>

Written(e, what) ==
    LET rest == reader[e].writes \ {what}
    IN  reader' = [reader EXCEPT ![e] = IF rest = {} THEN Idle ELSE [@ EXCEPT !.writes = rest]]

\* The entry and its name in the set are written side by side.
Add(e, ok) ==
    /\ "entry" \in reader[e].writes /\ May(ok) /\ Written(e, "entry")
    /\ entry' = IF ok THEN [entry EXCEPT ![e] = [says |-> reader[e].says, until |-> clock + Life(e)]]
                ELSE entry
    /\ late' = IF ok /\ reader[e].passed THEN late \union {e} ELSE late \ IF ok THEN {e} ELSE {}
    /\ UNCHANGED <<cache, clock, truth, index, mark, revoker, lost>>

\* The expiry of the set becomes that of the last name written, however long the others live.
Remember(e, ok) ==
    /\ "name" \in reader[e].writes /\ May(ok) /\ Written(e, "name")
    /\ index' = IF ok THEN [names |-> Names \union {e}, until |-> clock + Life(e)] ELSE index
    /\ lost' = IF ok THEN lost \ {e} ELSE lost \union {e}
    /\ UNCHANGED <<cache, clock, truth, entry, mark, revoker, late>>

\* The account changed, and whoever changed it drops what was cached.
Change ==
    /\ revoker = Resting /\ truth < MaxChanges
    /\ truth' = truth + 1 /\ revoker' = [pc |-> "members", members |-> {}]
    /\ UNCHANGED <<cache, clock, entry, index, mark, reader, late, lost, indexFaults>>

\* A set that cannot be read is one that names nothing.
Members(ok) ==
    /\ revoker.pc = "members" /\ May(ok)
    /\ revoker' = [pc |-> "drop", members |-> IF ok THEN Names ELSE {}]
    /\ reader' = [e \in Entries |-> IF reader[e] = Idle THEN Idle
                               ELSE [reader[e] EXCEPT !.passed = TRUE]]
    /\ late' = late \union {e \in Entries : reader[e].writes = {"name"}}
    /\ lost' = IF ok THEN lost ELSE lost \union Names
    /\ UNCHANGED <<cache, clock, truth, entry, index, mark>>

\* Mutant of Drop: the entries the set names stay.
DropTheDirect(failed) ==
    /\ revoker.pc = "drop" /\ May(failed = {})
    /\ LET asked == {e \in Entries : ~Named(e)}
           gone == asked \ failed
       IN  /\ failed \subseteq asked /\ (cache = "identity" => failed \in {{}, asked})
           /\ entry' = [e \in Entries |-> IF e \in gone THEN Absent ELSE entry[e]]
           /\ late' = late \ gone /\ lost' = lost \union failed
    /\ revoker' = IF cache = "identity" /\ failed # {} THEN Resting ELSE [revoker EXCEPT !.pc = "forget"]
    /\ UNCHANGED <<cache, clock, truth, index, mark, reader>>

\* The entries go, each with its own call or all with one. A call that fails is skipped by the
\* roles, and ends the revocation of an identity.
Drop(failed) ==
    /\ revoker.pc = "drop" /\ May(failed = {})
    /\ LET asked == revoker.members \union {e \in Entries : ~Named(e)}
           gone == asked \ failed
       IN  /\ failed \subseteq asked /\ (cache = "identity" => failed \in {{}, asked})
           /\ entry' = [e \in Entries |-> IF e \in gone THEN Absent ELSE entry[e]]
           /\ late' = late \ gone /\ lost' = lost \union failed
    /\ revoker' = IF cache = "identity" /\ failed # {} THEN Resting ELSE [revoker EXCEPT !.pc = "forget"]
    /\ UNCHANGED <<cache, clock, truth, index, mark, reader>>

\* The whole set goes, with the names written since it was read.
Forget(ok) ==
    /\ revoker.pc = "forget" /\ May(ok)
    /\ index' = IF ok THEN [names |-> {}, until |-> 0] ELSE index
    /\ revoker' = IF cache = "identity" THEN [revoker EXCEPT !.pc = "mark"] ELSE Resting
    /\ lost' = IF ok THEN lost \union LeftBehind(clock) ELSE lost
    /\ UNCHANGED <<cache, clock, truth, entry, mark, reader, late>>

Mark(ok) ==
    /\ revoker.pc = "mark" /\ May(ok) /\ mark' = (mark \/ ok) /\ revoker' = Resting
    /\ UNCHANGED <<cache, clock, truth, entry, index, reader, late, lost>>

\* The process dies with the revocation half done.
Die ==
    /\ revoker.pc \notin {"rest", "died"} /\ Fault /\ revoker' = [pc |-> "died", members |-> {}]
    /\ UNCHANGED <<cache, clock, truth, entry, index, mark, reader, late, lost>>

\* A set that ends names nothing, though entries it named may live on.
Tick ==
    /\ clock < MaxTime /\ clock' = clock + 1
    /\ lost' = IF index.until = clock + 1 THEN lost \union LeftBehind(clock + 1) ELSE lost
    /\ UNCHANGED <<cache, truth, entry, index, mark, reader, revoker, late, indexFaults>>

Next ==
    \/ \E e \in Entries, ok \in BOOLEAN : Miss(e) \/ Add(e, ok) \/ Remember(e, ok)
    \/ \E ok \in BOOLEAN : Members(ok) \/ Forget(ok) \/ Mark(ok)
    \/ \E failed \in SUBSET Entries : Drop(failed)
    \/ Change \/ Die \/ Tick

Spec == Init /\ [][Next]_entryVars

-----------------------------------------------------------------------------
TypeOK ==
    /\ cache \in {"role", "identity"} /\ clock \in 0..MaxTime /\ truth \in 0..MaxChanges
    /\ \A e \in Entries : /\ entry[e].says \in 0..truth /\ entry[e].until \in Nat
                          /\ reader[e].writes \subseteq {"entry", "name"}
                          /\ reader[e].says \in 0..truth /\ reader[e].passed \in BOOLEAN
    /\ index.names \subseteq Entries /\ index.until \in Nat /\ mark \in BOOLEAN
    /\ revoker.pc \in {"rest", "members", "drop", "forget", "mark", "died"}
    /\ revoker.members \subseteq Entries /\ late \cup lost \subseteq Entries
    /\ indexFaults \in 0..MaxIndexFaults

\* Once a revocation has run to its end, an entry says what was true before it only if it was
\* written by a reader the revocation had passed, or if the set did not name it when it was
\* read: the name was not written, went with those of a revocation before, or with a set that
\* ended first; or if the mark was not left (redis/key_index.ts, "a cache that has to drop everything held for
\* one user reads the set instead of scanning").
StaleOnlyPastTheIndex ==
    revoker = Resting =>
        \A e \in Cached : entry[e].says < truth => e \in late \cup lost \/ (cache = "identity" /\ ~mark)
=============================================================================
