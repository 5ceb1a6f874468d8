---------------------------- MODULE TriggerOutbox ----------------------------
(***************************************************************************)
(* The outbox of table changes and the replicas that drain it into the     *)
(* queues of the declared triggers (foundation/lib/src/trigger).           *)
(*                                                                         *)
(* A change is a row of __trigger_events__, committed by the transaction   *)
(* that made it. Every replica ticks: it claims the pass with a marker     *)
(* that is never released and only expires (DrainLock), reads the oldest   *)
(* rows, hands each to every declaration it concerns, and deletes the rows *)
(* every declaration took. A pass may outlive its marker, so two replicas  *)
(* can drain the same rows. The stream drops a second copy of a message id *)
(* it still remembers.                                                     *)
(*                                                                         *)
(* The clock is relative: lockLeft is what is left of the marker, age is   *)
(* how long ago a pass claimed it, saturating at LockHeldFor.              *)
(***************************************************************************)
EXTENDS Integers, FiniteSets, TLC

CONSTANTS
    Processes,      \* the replicas
    Events,         \* row identifiers, in the order the sequence gave them
    Triggers,       \* names of the declarations of this fleet
    Fields,         \* columns a declaration may watch
    Row,            \* stands for "field: null", a declaration watching the row
    Concerns,       \* [Events -> SUBSET Triggers]: same table, same operation
    Watches,        \* [Triggers -> SUBSET Fields], empty when it watches the row
    Moved,          \* [Events -> SUBSET Fields]: columns that changed value
    Queued,         \* declarations whose queue is in the registry
    Refused,        \* deliveries the stream never takes, such as one too large
    DrainBatch,     \* rows one pass reads
    LockHeldFor,    \* how long the marker lives, in clock units
    MaxCrashes,     \* bound: process deaths in a behaviour
    MaxClosings     \* bound: deliveries the duplicate window may forget, once each

ASSUME ConstantsAssumption ==
    /\ Events \subseteq Nat
    /\ IsFiniteSet(Events)
    /\ Row \notin Fields
    /\ Concerns \in [Events -> SUBSET Triggers]
    /\ Watches \in [Triggers -> SUBSET Fields]
    /\ Moved \in [Events -> SUBSET Fields]
    /\ Queued \subseteq Triggers
    /\ DrainBatch \in Nat \ {0}
    /\ LockHeldFor \in Nat \ {0}
    /\ MaxCrashes \in Nat
    /\ MaxClosings \in Nat

Deliveries == Triggers \X Events \X (Fields \cup {Row})

VARIABLES
    outbox,      \* the committed rows still in the table
    written,     \* the rows ever committed
    lockLeft,    \* what is left of the marker's life in Redis, 0 when it is free
    pc,          \* where the loop of each replica is
    age,         \* time since the pass of each replica claimed the marker
    batch,       \* rows of the pass not yet handled
    todo,        \* deliveries of the row under way not yet tried
    everyone,    \* whether every declaration took the row under way
    published,   \* rows of the pass that may leave the table
    taken,       \* _taken: declarations that took a row still unfinished
    window,      \* message ids the stream still remembers
    copies,      \* copies of each delivery the stream stored
    closings,    \* the deliveries the duplicate window has forgotten
    acked,       \* deliveries the living process was told are stored, until a
                 \* refused DELETE has their row handed over again
    repeated,    \* deliveries a process was told are stored twice over
    crashes      \* process deaths so far

pass == <<age, batch, todo, everyone, published>>
stream == <<window, copies, closings>>
handed == <<acked, repeated>>
vars == <<outbox, written, lockLeft, pc, pass, taken, stream, handed, crashes>>

Draining(p) == pc[p] \in {"read", "ensure", "publish", "forget"}

Init ==
    /\ outbox = {}
    /\ written = {}
    /\ lockLeft = 0
    /\ pc = [p \in Processes |-> "idle"]
    /\ age = [p \in Processes |-> 0]
    /\ batch = [p \in Processes |-> {}]
    /\ todo = [p \in Processes |-> {}]
    /\ everyone = [p \in Processes |-> TRUE]
    /\ published = [p \in Processes |-> {}]
    /\ taken = [p \in Processes |-> [e \in Events |-> {}]]
    /\ window = {}
    /\ copies = [d \in Deliveries |-> 0]
    /\ closings = {}
    /\ acked = [p \in Processes |-> {}]
    /\ repeated = {}
    /\ crashes = 0

-----------------------------------------------------------------------------
(* What one row asks for.                                                  *)

\* The columns a declaration is delivered once for, Row when it watches none.
FieldsOf(t, e) == IF Watches[t] = {} THEN {Row} ELSE Watches[t] \cap Moved[e]

\* Every delivery one row makes. An unreadable row concerns nobody.
MatchesOf(e) == {d \in Deliveries : /\ d[2] = e
                                    /\ d[1] \in Concerns[e]
                                    /\ d[3] \in FieldsOf(d[1], e)}

\* Mutant of MsgId: an id of its own for every process.
MsgIdOfTheProcess(p, d) == <<d[1], d[2], d[3], p>>

\* The message id a delivery is published under, the same on every replica.
MsgId(p, d) == <<d[1], d[2], d[3]>>

\* Mutant of PendingEvents: a cursor past the greatest identifier that left.
PendingPastTheCursor ==
    LET ahead == {e \in outbox : \A g \in written \ outbox : e > g}
    IN  {e \in ahead : Cardinality({f \in ahead : f < e}) < DrainBatch}

\* The oldest rows, with no cursor: identifiers commit out of order.
PendingEvents == {e \in outbox : Cardinality({f \in outbox : f < e}) < DrainBatch}

Oldest(rows) == CHOOSE e \in rows : \A f \in rows : e <= f

\* The row under way.
Current(p) == Oldest(batch[p])

-----------------------------------------------------------------------------
(* The tables and the clock.                                               *)

\* A transaction holding an identifier commits, in any order.
Commit(e) ==
    /\ e \notin written
    /\ written' = written \cup {e}
    /\ outbox' = outbox \cup {e}
    /\ UNCHANGED <<lockLeft, pc, pass, taken, stream, handed, crashes>>

\* Mutant of Tick: the age of a pass does not saturate.
AgeWithoutEnd ==
    /\ lockLeft > 0
    /\ lockLeft' = lockLeft - 1
    /\ age' = [p \in Processes |-> IF Draining(p) THEN age[p] + 1 ELSE age[p]]
    /\ UNCHANGED <<outbox, written, pc, batch, todo, everyone, published, taken,
                   stream, handed, crashes>>

Tick ==
    /\ lockLeft > 0
    /\ lockLeft' = lockLeft - 1
    /\ age' = [p \in Processes |->
                 IF Draining(p) /\ age[p] < LockHeldFor THEN age[p] + 1 ELSE age[p]]
    /\ UNCHANGED <<outbox, written, pc, batch, todo, everyone, published, taken,
                   stream, handed, crashes>>

\* The stream forgets a message id once its duplicate window has closed.
WindowCloses(d) ==
    /\ \E p \in Processes : MsgId(p, d) \in window
    /\ d \notin closings /\ Cardinality(closings) < MaxClosings
    /\ window' = window \ {MsgId(p, d) : p \in Processes}
    /\ closings' = closings \cup {d}
    /\ UNCHANGED <<outbox, written, lockLeft, pc, pass, taken, copies, handed, crashes>>

-----------------------------------------------------------------------------
(* One pass.                                                               *)

EndPass(p) ==
    /\ pc' = [pc EXCEPT ![p] = "idle"]
    /\ age' = [age EXCEPT ![p] = 0]
    /\ batch' = [batch EXCEPT ![p] = {}]
    /\ todo' = [todo EXCEPT ![p] = {}]
    /\ everyone' = [everyone EXCEPT ![p] = TRUE]
    /\ published' = [published EXCEPT ![p] = {}]

\* Mutant of Claim: SET without NX.
ClaimAnyway(p) ==
    /\ pc[p] = "idle"
    /\ lockLeft' = LockHeldFor
    /\ pc' = [pc EXCEPT ![p] = "read"]
    /\ UNCHANGED <<outbox, written, pass, taken, stream, handed, crashes>>

\* SET NX PX: the marker is taken only when nobody's is left.
Claim(p) ==
    /\ pc[p] = "idle"
    /\ lockLeft = 0
    /\ lockLeft' = LockHeldFor
    /\ pc' = [pc EXCEPT ![p] = "read"]
    /\ UNCHANGED <<outbox, written, pass, taken, stream, handed, crashes>>

\* The marker was set and its answer lost: nobody drains until it expires.
ClaimLost(p) ==
    /\ pc[p] = "idle"
    /\ lockLeft = 0
    /\ lockLeft' = LockHeldFor
    /\ UNCHANGED <<outbox, written, pc, pass, taken, stream, handed, crashes>>

ReadPending(p) ==
    /\ pc[p] = "read"
    /\ \/ /\ PendingEvents = {}
          /\ EndPass(p)
       \/ /\ PendingEvents # {}
          /\ batch' = [batch EXCEPT ![p] = PendingEvents]
          /\ pc' = [pc EXCEPT ![p] = "ensure"]
          /\ UNCHANGED <<age, todo, everyone, published>>
    /\ UNCHANGED <<outbox, written, lockLeft, taken, stream, handed, crashes>>

\* The topology is reached and the first row is under way. The rows were read
\* before this call, and may have left the table since.
EnsureTopology(p) ==
    /\ pc[p] = "ensure"
    /\ pc' = [pc EXCEPT ![p] = "publish"]
    /\ todo' = [todo EXCEPT ![p] = MatchesOf(Oldest(batch[p]))]
    /\ UNCHANGED <<outbox, written, lockLeft, age, batch, everyone, published, taken,
                   stream, handed, crashes>>

\* The read or the topology raised: the next tick starts over.
PassFails(p) ==
    /\ pc[p] \in {"read", "ensure"}
    /\ EndPass(p)
    /\ UNCHANGED <<outbox, written, lockLeft, taken, stream, handed, crashes>>

\* A declaration remembered as having taken the row is passed over.
SkipTaken(p, d) ==
    /\ pc[p] = "publish"
    /\ d \in todo[p]
    /\ d[1] \in taken[p][Current(p)]
    /\ todo' = [todo EXCEPT ![p] = @ \ {d}]
    /\ UNCHANGED <<outbox, written, lockLeft, pc, age, batch, everyone, published, taken,
                   stream, handed, crashes>>

Untaken(p, d) ==
    /\ pc[p] = "publish"
    /\ d \in todo[p]
    /\ d[1] \notin taken[p][Current(p)]

\* The stream keeps one copy of a message id for as long as it remembers it.
Store(p, d) ==
    /\ copies' = IF MsgId(p, d) \in window THEN copies ELSE [copies EXCEPT ![d] = @ + 1]
    /\ window' = window \cup {MsgId(p, d)}
    /\ UNCHANGED closings

\* Mutant of Remember: the declaration that took the row is not remembered.
RememberNothing(p, d) ==
    /\ todo' = [todo EXCEPT ![p] = @ \ {d}]
    /\ UNCHANGED <<taken, everyone>>

Remember(p, d) ==
    /\ taken' = [taken EXCEPT ![p][Current(p)] = @ \cup {d[1]}]
    /\ todo' = [todo EXCEPT ![p] = @ \ {d}]
    /\ UNCHANGED everyone

Delivered(p, d) ==
    /\ Untaken(p, d)
    /\ d[1] \in Queued
    /\ d \notin Refused
    /\ Store(p, d)
    /\ Remember(p, d)
    /\ acked' = [acked EXCEPT ![p] = @ \cup {d}]
    /\ repeated' = repeated \cup (acked[p] \cap {d})
    /\ UNCHANGED <<outbox, written, lockLeft, pc, age, batch, published, crashes>>

\* A declaration with no queue counts as reached: the event is dropped for it.
NoQueue(p, d) ==
    /\ Untaken(p, d)
    /\ d[1] \notin Queued
    /\ Remember(p, d)
    /\ UNCHANGED <<outbox, written, lockLeft, pc, age, batch, published, stream, handed,
                   crashes>>

\* Mutant of PublishFails: a refusal does not keep the row.
RefusalForgotten(p, d) ==
    /\ Untaken(p, d)
    /\ d[1] \in Queued
    /\ UNCHANGED stream
    /\ todo' = [todo EXCEPT ![p] = @ \ {d}]
    /\ UNCHANGED <<outbox, written, lockLeft, pc, age, batch, everyone, published, taken,
                   handed, crashes>>

\* The publish raised, whether the stream stored the message before or not.
PublishFails(p, d) ==
    /\ Untaken(p, d)
    /\ d[1] \in Queued
    /\ \/ d \notin Refused /\ Store(p, d)
       \/ UNCHANGED stream
    /\ todo' = [todo EXCEPT ![p] = @ \ {d}]
    /\ everyone' = [everyone EXCEPT ![p] = FALSE]
    /\ UNCHANGED <<outbox, written, lockLeft, pc, age, batch, published, taken, handed,
                   crashes>>

\* The next row is under way, or the rows of the pass are all handled.
NextRow(p, left, leaving) ==
    /\ batch' = [batch EXCEPT ![p] = left]
    /\ published' = [published EXCEPT ![p] = leaving]
    /\ everyone' = [everyone EXCEPT ![p] = TRUE]
    /\ todo' = [todo EXCEPT ![p] = IF left = {} THEN {} ELSE MatchesOf(Oldest(left))]
    /\ pc' = [pc EXCEPT ![p] = IF left = {} THEN "forget" ELSE "publish"]
    /\ UNCHANGED age

\* The row may leave once everyone took it, and what was remembered of it goes.
RowTaken(p) ==
    /\ pc[p] = "publish"
    /\ todo[p] = {}
    /\ everyone[p]
    /\ LET e == Oldest(batch[p]) IN
         /\ taken' = [taken EXCEPT ![p][e] = {}]
         /\ NextRow(p, batch[p] \ {e}, published[p] \cup {e})
    /\ UNCHANGED <<outbox, written, lockLeft, stream, handed, crashes>>

\* Mutant of RowKept: the pass stops at the first refused row.
PassStopsAtARefusal(p) ==
    /\ pc[p] = "publish"
    /\ todo[p] = {}
    /\ ~everyone[p]
    /\ IF published[p] = {} THEN EndPass(p) ELSE NextRow(p, {}, published[p])
    /\ UNCHANGED <<outbox, written, lockLeft, taken, stream, handed, crashes>>

\* Somebody refused the row: it stays. A pass that published no row ends here.
RowKept(p) ==
    /\ pc[p] = "publish"
    /\ todo[p] = {}
    /\ ~everyone[p]
    /\ LET left == batch[p] \ {Oldest(batch[p])} IN
         IF left = {} /\ published[p] = {}
           THEN EndPass(p)
           ELSE NextRow(p, left, published[p])
    /\ UNCHANGED <<outbox, written, lockLeft, taken, stream, handed, crashes>>

\* Mutant of ForgetEvents: a DELETE up to the last identifier published.
ForgetUpTo(p) ==
    /\ pc[p] = "forget"
    /\ outbox' = {e \in outbox : \A f \in published[p] : e > f}
    /\ taken' = [taken EXCEPT ![p] = [e \in Events |-> IF e \in published[p] THEN {} ELSE @[e]]]
    /\ EndPass(p)
    /\ UNCHANGED <<written, lockLeft, stream, handed, crashes>>

ForgetEvents(p) ==
    /\ pc[p] = "forget"
    /\ outbox' = outbox \ published[p]
    /\ taken' = [taken EXCEPT ![p] = [e \in Events |-> IF e \in published[p] THEN {} ELSE @[e]]]
    /\ EndPass(p)
    /\ UNCHANGED <<written, lockLeft, stream, handed, crashes>>

\* The DELETE was refused, or its answer was lost once it had gone through.
ForgetFails(p) ==
    /\ pc[p] = "forget"
    /\ outbox' \in {outbox, outbox \ published[p]}
    /\ acked' = [acked EXCEPT ![p] = {d \in @ : d[2] \notin published[p]}]
    /\ EndPass(p)
    /\ UNCHANGED <<written, lockLeft, taken, stream, repeated, crashes>>

\* The process dies anywhere and comes back with none of its memory.
Crash(p) ==
    /\ crashes < MaxCrashes
    /\ crashes' = crashes + 1
    /\ EndPass(p)
    /\ taken' = [taken EXCEPT ![p] = [e \in Events |-> {}]]
    /\ acked' = [acked EXCEPT ![p] = {}]
    /\ UNCHANGED <<outbox, written, lockLeft, stream, repeated>>

-----------------------------------------------------------------------------

Match(p) == \E d \in Deliveries : SkipTaken(p, d) \/ Delivered(p, d) \/ NoQueue(p, d)
                                    \/ PublishFails(p, d)

Loop(p) ==
    \/ Claim(p) \/ ClaimLost(p) \/ ReadPending(p) \/ EnsureTopology(p) \/ PassFails(p)
    \/ Match(p) \/ RowTaken(p) \/ RowKept(p)
    \/ ForgetEvents(p) \/ ForgetFails(p)

Next ==
    \/ \E e \in Events : Commit(e)
    \/ Tick
    \/ \E d \in Deliveries : WindowCloses(d)
    \/ \E p \in Processes : Loop(p) \/ Crash(p)

Spec == Init /\ [][Next]_vars

(* The loops keep ticking and time passes. What is asked over and over     *)
(* answers some of the time, whoever asks: the claim, the read, the        *)
(* topology, a publish the stream does not refuse for what it carries, the *)
(* DELETE.                                                                 *)
Fairness ==
    /\ WF_vars(Tick)
    /\ \A p \in Processes : WF_vars(Loop(p))
    /\ SF_vars(\E p \in Processes : Claim(p))
    /\ SF_vars(\E p \in Processes : ReadPending(p))
    /\ SF_vars(\E p \in Processes : EnsureTopology(p))
    /\ SF_vars(\E p \in Processes, d \in Deliveries : Delivered(p, d))
    /\ SF_vars(\E p \in Processes : ForgetEvents(p))

FairSpec == Spec /\ Fairness

-----------------------------------------------------------------------------
(* Properties.                                                             *)

TypeOK ==
    /\ outbox \subseteq Events
    /\ written \subseteq Events
    /\ lockLeft \in 0..LockHeldFor
    /\ pc \in [Processes -> {"idle", "read", "ensure", "publish", "forget"}]
    /\ age \in [Processes -> 0..LockHeldFor]
    /\ batch \in [Processes -> SUBSET Events]
    /\ todo \in [Processes -> SUBSET Deliveries]
    /\ everyone \in [Processes -> BOOLEAN]
    /\ published \in [Processes -> SUBSET Events]
    /\ taken \in [Processes -> [Events -> SUBSET Triggers]]
    /\ window \subseteq Deliveries
    /\ copies \in [Deliveries -> Nat]
    /\ closings \subseteq Deliveries
    /\ acked \in [Processes -> SUBSET Deliveries]
    /\ repeated \subseteq Deliveries
    /\ crashes \in 0..MaxCrashes

\* What the stream owes a row: the declarations it concerns that have a queue.
Owed(e) == {t \in Concerns[e] : t \in Queued /\ FieldsOf(t, e) # {}}

Reached(t, e) == \E f \in Fields \cup {Row} : copies[<<t, e, f>>] > 0

\* The outbox seen from outside: the changes committed and still in the table, and
\* which declarations the stream has had a change for.
Outside == INSTANCE ChangeDelivery WITH
    OwedTo <- [e \in Events |-> Owed(e)],
    waiting <- outbox,
    reached <- {x \in Triggers \X Events : Reached(x[1], x[2])}

\* The whole drain (passes that overlap, a marker that expires, a stream that drops and
\* forgets, deaths, lost answers) does from outside what ChangeDelivery says: a change
\* is written, reaches its declarations, and leaves once it reached them all.
DeliversChanges == Outside!Spec

\* A committed change is never lost: whatever replicas overlap, die, or are
\* refused, a row is gone from the table only once every declaration it concerns
\* that has a queue found it in the stream (publish first, delete second).
NoChangeLost ==
    \A e \in written \ outbox : \A t \in Owed(e) : Reached(t, e)

\* "A declaration watching several columns is delivered once per column": a row is
\* gone only once each column that moved reached each declaration watching it.
EveryColumnDelivered ==
    \A e \in written \ outbox : \A d \in MatchesOf(e) :
        d[1] \in Queued => copies[d] > 0

\* The marker keeps two replicas from draining together, except behind a pass that
\* outlived it: of two passes under way, one is at least LockHeldFor old.
OverlapOnlyPastTheMarker ==
    \A p, q \in Processes :
        p # q /\ Draining(p) /\ Draining(q) => LockHeldFor \in {age[p], age[q]}

\* A declaration that took an event is remembered, so no later pass of the same
\* process hands it that event again, refusals of the others notwithstanding. Only
\* a refused DELETE, which leaves the whole row to be published again, starts over.
HandedOverOnce == repeated = {}

\* The message id makes a republished change harmless while the duplicate window
\* lasts: across replicas, deaths, refused deletes and lost answers, the stream holds
\* one copy of a delivery, and a second only if the window closed on it.
OneCopyPerWindow ==
    \A d \in Deliveries : copies[d] <= IF d \in closings THEN 2 ELSE 1

\* Every change reaches each of its declarations the stream does not refuse, also
\* behind a declaration that is refused on every pass, and whatever the order the
\* identifiers committed in.
EveryDeclarationEventuallyReached ==
    \A e \in Events : \A d \in MatchesOf(e) \ Refused :
        d[1] \in Queued => ((e \in written) ~> (copies[d] > 0))

\* A change no declaration of which is refused leaves the table: refused rows in
\* front of it never keep it waiting while they are fewer than a batch.
EveryAcceptedRowLeaves ==
    \A e \in Events : MatchesOf(e) \cap Refused = {} =>
        ((e \in written) ~> (e \notin outbox))

-----------------------------------------------------------------------------
(* The inductive invariant behind the safety properties. Each part is      *)
(* inductive given TypeOK and the parts before it.                         *)

\* A pass that has read has a row under way until all its rows are handled.
UnderWay == \A p \in Processes : pc[p] \in {"ensure", "publish"} => batch[p] # {}

\* A pass younger than the marker's life is the one the marker was set for.
MarkerInv ==
    /\ \A p \in Processes : ~Draining(p) => age[p] = 0
    /\ \A p \in Processes :
           Draining(p) /\ age[p] < LockHeldFor => lockLeft = LockHeldFor - age[p]
    /\ OverlapOnlyPastTheMarker

\* A copy is accounted for by the window remembering it or having forgotten it.
WindowInv ==
    /\ \A d \in Deliveries :
           copies[d] <= (IF d \in window THEN 1 ELSE 0) + (IF d \in closings THEN 1 ELSE 0)
    /\ \A d \in window : copies[d] > 0

\* A pass holds committed rows, each still to handle or handled, and what is left
\* to try belongs to the row under way.
PassInv ==
    /\ outbox \subseteq written
    /\ \A p \in Processes :
         /\ pc[p] \in {"idle", "read", "ensure"} => published[p] = {}
         /\ batch[p] \subseteq written
         /\ published[p] \subseteq written
         /\ batch[p] \cap published[p] = {}
         /\ pc[p] = "publish" => todo[p] \subseteq MatchesOf(Current(p))

\* Who is remembered as having taken a row was reached, or has no queue.
RememberedInv ==
    \A p \in Processes, e \in Events : \A t \in taken[p][e] :
        t \in Queued => Reached(t, e)

\* A row that may leave the table reached everyone it is owed to.
LeavingInv ==
    \A p \in Processes : \A e \in published[p] : \A t \in Owed(e) : Reached(t, e)

\* The row under way reached whoever was tried, unless one of them refused.
TriedInv ==
    \A p \in Processes : pc[p] = "publish" /\ everyone[p] =>
        \A d \in MatchesOf(Current(p)) \ todo[p] : d[1] \in Queued => Reached(d[1], d[2])

\* What a process was told is stored is remembered, or its row is about to leave,
\* or has left and is not in the hands of this process.
HandedInv ==
    /\ HandedOverOnce
    /\ \A p \in Processes : \A d \in acked[p] :
         /\ d[2] \in written
         /\ \/ d[1] \in taken[p][d[2]]
            \/ d[2] \in published[p]
            \/ d[2] \notin outbox \cup batch[p]
-----------------------------------------------------------------------------
(* Small instances, for TLC. The first row concerns two declarations, the     *)
(* second the one on columns and one that was never given a queue: "mail" and *)
(* "ghost" watch the row, "audit" watches columns of it.                      *)
OneEvent == 1..1
TwoEvents == 1..2
FirstForBoth == [e \in Events |-> IF e = 1 THEN {"mail", "audit"} ELSE {"audit", "ghost"}]
OneColumn == [t \in Triggers |-> IF t # "audit" THEN {} ELSE {"status"}]
TwoColumns == [t \in Triggers |-> {"status", "total"}]
BothMoved == [e \in Events |-> Fields]
AnyReplica == Permutations(Processes)
NothingRefused == {}
\* The first row is too large for the queue of "mail".
FirstRefusedByMail == {<<"mail", 1, Row>>}
=============================================================================
