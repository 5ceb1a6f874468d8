----------------------------- MODULE DelayedJobs -----------------------------
(* Jobs pushed with a delay (foundation/lib/src/queue/delayed): members of one  *)
(* sorted set of Redis, which the promoter of every replica publishes to their *)
(* queue once due, then removes. The broker drops a copy whose idempotency key *)
(* it still remembers.                                                         *)
EXTENDS Naturals, FiniteSets

CONSTANTS
    Jobs,              \* by due date: 1 is due before 2
    Unreadable,        \* members that do not decode
    Promoters,         \* replicas
    PromoteBatch,      \* PROMOTE_BATCH
    MaxForgotten,      \* bound: keys the broker forgets
    MaxDelayedFaults   \* bound: calls that fail and replicas that die

DelayedAssumption ==
    /\ Jobs \subseteq Nat /\ IsFiniteSet(Jobs)
    /\ Unreadable \subseteq Jobs /\ PromoteBatch \in Nat \ {0}
    /\ MaxForgotten \in Nat /\ MaxDelayedFaults \in Nat

VARIABLES
    scheduled,   \* jobs whose push answered an id
    members,     \* the sorted set
    due,         \* jobs whose date has come
    promoter,    \* per replica: step, members read, published, to be dropped
    copies,      \* copies on the queue of a job
    keys,        \* idempotency keys the broker remembers
    forgotten,   \* keys it has forgotten
    promoted,    \* what every pass answered, added up
    delayedFaults

delayedVars == <<scheduled, members, due, promoter, copies, keys, forgotten, promoted, delayedFaults>>

Fault == delayedFaults < MaxDelayedFaults /\ delayedFaults' = delayedFaults + 1
Idle == [pc |-> "idle", todo |-> {}, published |-> {}, dropped |-> {}]

Init ==
    /\ scheduled = {} /\ members = {} /\ due = {}
    /\ promoter = [p \in Promoters |-> Idle]
    /\ copies = [j \in Jobs |-> 0] /\ keys = {} /\ forgotten = {}
    /\ promoted = 0 /\ delayedFaults = 0

\* pushDelayed: the id is answered once Redis has the member.
Schedule(j) ==
    /\ j \notin scheduled /\ j \notin due
    /\ scheduled' = scheduled \union {j} /\ members' = members \union {j}
    /\ UNCHANGED <<due, promoter, copies, keys, forgotten, promoted, delayedFaults>>

ComesDue(j) ==
    /\ j \notin due /\ \A i \in Jobs : i < j => i \in due
    /\ due' = due \union {j}
    /\ UNCHANGED <<scheduled, members, promoter, copies, keys, forgotten, promoted, delayedFaults>>

\* dueMembers: the first PROMOTE_BATCH of those due.
Read(p) ==
    LET ready == members \intersect due
        first == {j \in ready : Cardinality({i \in ready : i < j}) < PromoteBatch} IN
    /\ promoter[p].pc = "idle" /\ ready # {}
    /\ promoter' = [promoter EXCEPT ![p].pc = "publish", ![p].todo = first]
    /\ UNCHANGED <<scheduled, members, due, copies, keys, forgotten, promoted, delayedFaults>>

\* Mutant of Publish: a member whose publish failed leaves the set with the others.
PublishOrDrop(p, j, stored, ok) ==
    LET readable == j \notin Unreadable IN
    /\ promoter[p].pc = "publish" /\ j \in promoter[p].todo
    /\ IF ok THEN stored /\ UNCHANGED delayedFaults ELSE readable /\ Fault
    /\ copies' = [copies EXCEPT ![j] = IF readable /\ stored /\ j \notin keys THEN @ + 1 ELSE @]
    /\ keys' = IF readable /\ stored THEN keys \union {j} ELSE keys
    /\ promoter' = [promoter EXCEPT
         ![p].todo = @ \ {j},
         ![p].published = IF readable /\ ok THEN @ \union {j} ELSE @,
         ![p].dropped = IF readable /\ ok THEN @ ELSE @ \union {j},
         ![p].pc = IF promoter[p].todo = {j} THEN "forget" ELSE @]
    /\ UNCHANGED <<scheduled, members, due, forgotten, promoted>>

\* A member that does not decode is dropped; one whose publish fails is left for the next
\* pass. A publish may fail though the broker has the message.
Publish(p, j, stored, ok) ==
    LET readable == j \notin Unreadable IN
    /\ promoter[p].pc = "publish" /\ j \in promoter[p].todo
    /\ IF ok THEN stored /\ UNCHANGED delayedFaults ELSE readable /\ Fault
    /\ copies' = [copies EXCEPT ![j] = IF readable /\ stored /\ j \notin keys THEN @ + 1 ELSE @]
    /\ keys' = IF readable /\ stored THEN keys \union {j} ELSE keys
    /\ promoter' = [promoter EXCEPT
         ![p].todo = @ \ {j},
         ![p].published = IF readable /\ ok THEN @ \union {j} ELSE @,
         ![p].dropped = IF readable THEN @ ELSE @ \union {j},
         ![p].pc = IF promoter[p].todo = {j} THEN "forget" ELSE @]
    /\ UNCHANGED <<scheduled, members, due, forgotten, promoted>>

\* forgetAll: one zrem for the unreadable, one for the published, which says how many of
\* them were still there. Redis may fail, and the pass then answers 0.
Forget(p, ok) ==
    LET gone == promoter[p].published \union promoter[p].dropped IN
    /\ promoter[p].pc = "forget"
    /\ IF ok THEN UNCHANGED delayedFaults ELSE gone # {} /\ Fault
    /\ members' = IF ok THEN members \ gone ELSE members
    /\ promoted' = promoted + IF ok THEN Cardinality(members \intersect promoter[p].published) ELSE 0
    /\ promoter' = [promoter EXCEPT ![p] = Idle]
    /\ UNCHANGED <<scheduled, due, copies, keys, forgotten>>

\* The replica dies and starts again.
Die(p) ==
    /\ promoter[p].pc # "idle" /\ Fault
    /\ promoter' = [promoter EXCEPT ![p] = Idle]
    /\ UNCHANGED <<scheduled, members, due, copies, keys, forgotten, promoted>>

\* The duplicate window of the broker closes.
WindowCloses(j) ==
    /\ j \in keys /\ Cardinality(forgotten) < MaxForgotten
    /\ keys' = keys \ {j} /\ forgotten' = forgotten \union {j}
    /\ UNCHANGED <<scheduled, members, due, promoter, copies, promoted, delayedFaults>>

Next ==
    \/ \E j \in Jobs : Schedule(j) \/ ComesDue(j) \/ WindowCloses(j)
    \/ \E p \in Promoters :
        \/ Read(p) \/ Die(p)
        \/ \E ok \in BOOLEAN : Forget(p, ok)
        \/ \E j \in Jobs, stored, ok \in BOOLEAN : Publish(p, j, stored, ok)

Spec == Init /\ [][Next]_delayedVars

-----------------------------------------------------------------------------
Passes == [pc : {"idle", "publish", "forget"},
           todo : SUBSET Jobs, published : SUBSET Jobs, dropped : SUBSET Jobs]

TypeOK ==
    /\ members \subseteq scheduled /\ scheduled \subseteq Jobs /\ due \subseteq Jobs
    /\ promoter \in [Promoters -> Passes]
    /\ copies \in [Jobs -> Nat]
    /\ keys \subseteq Jobs /\ forgotten \subseteq Jobs
    /\ promoted \in 0..Cardinality(Jobs) /\ delayedFaults \in 0..MaxDelayedFaults

\* A job that was scheduled is on its queue before it leaves the set, never before it is
\* due, and once, however many replicas promote it and die over it, unless the broker
\* forgot its key between two publishes; and the passes count it once (promoteDue:
\* "a crash between the two leaves a job duplicated rather than lost").
PromotedOnce ==
    /\ \A j \in scheduled \ Unreadable : j \in members \/ copies[j] > 0
    /\ \A j \in Jobs : copies[j] > 0 => j \in due
    /\ \A j \in Jobs : copies[j] > 1 => j \in forgotten
    /\ promoted <= Cardinality({j \in Jobs : copies[j] > 0 /\ j \notin members})

-----------------------------------------------------------------------------
(* The inductive invariant.                                                   *)

\* What a pass has read was scheduled and due, what it published is on its queue, and what
\* it drops does not decode.
Reading ==
    \A p \in Promoters :
        /\ promoter[p].todo \subseteq scheduled \cap due
        /\ \A j \in promoter[p].published : copies[j] > 0
        /\ promoter[p].dropped \subseteq Unreadable

\* Only what was scheduled and due is on a queue, and the broker remembers its key or has
\* forgotten it.
Remembering ==
    \A j \in Jobs : /\ copies[j] > 0 => j \in scheduled \cap due /\ j \in keys \cup forgotten
                    /\ j \in keys => copies[j] > 0

IInv == TypeOK /\ Reading /\ Remembering /\ PromotedOnce

\* Everything it says, but for how many promotions were counted.
Settled ==
    /\ members \subseteq scheduled /\ scheduled \subseteq Jobs /\ due \subseteq Jobs
    /\ promoter \in [Promoters -> Passes]
    /\ copies \in [Jobs -> Nat]
    /\ keys \subseteq Jobs /\ forgotten \subseteq Jobs
    /\ delayedFaults \in 0..MaxDelayedFaults
    /\ Reading /\ Remembering
    /\ \A j \in scheduled \ Unreadable : j \in members \/ copies[j] > 0
    /\ \A j \in Jobs : copies[j] > 0 => j \in due
    /\ \A j \in Jobs : copies[j] > 1 => j \in forgotten

\* The jobs that are on a queue and no longer members, which the count is of.
Gone == {j \in Jobs : copies[j] > 0 /\ j \notin members}
=============================================================================
