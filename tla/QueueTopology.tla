---------------------------- MODULE QueueTopology ----------------------------
(* How replicas of several deployments bring the streams and consumers they    *)
(* share to what their queues need, before they push (foundation:              *)
(* queue/topology, queue/nats_connection.ts, queue/nats_queue_backend.ts,      *)
(* queue/queue_registry.ts). The three streams are provisioned alike and in    *)
(* one order: one stands for them.                                             *)
EXTENDS Integers, SequencesExt

CONSTANTS
    Replicas,
    Queues,              \* the names of the queues a replica may declare
    Dedicated,           \* those that asked for a consumer of their own
    Asked,               \* per replica and queue, [maxLen, maxRetries, concurrency]
    MaxRuns,             \* bound: provisionings
    MaxTopologyFaults    \* bound: calls of NATS that fail

Shared == "workers"

\* Shared and "stream" stand for what no queue has: the code keeps them under names of
\* their own.
TopologyAssumption ==
    /\ IsFiniteSet(Queues) /\ Dedicated \subseteq Queues /\ {"stream", Shared} \cap Queues = {}
    /\ Replicas # {}
    /\ \A r \in Replicas, q \in Queues :
          Asked[r][q] \in [maxLen: Nat \ {0}, maxRetries: Nat \ {0}, concurrency: Nat \ {0}]
    /\ MaxRuns \in Nat \ {0} /\ MaxTopologyFaults \in Nat \ {0}

VARIABLES
    stream,       \* messages a subject holds; 0 for a stream nobody added
    consumer,     \* per durable, what it grants; absent for one nobody added
    process,      \* per replica, what it declared, its connection and what it remembers
    provisioning, \* per number, whose it is and how far it got
    narrowed,     \* replicas whose widening of a consumer was refused: history
    raced,        \* whether a bound was written over what another had raised since: history
    topologyFaults

topologyVars == <<stream, consumer, process, provisioning, narrowed, raced, topologyFaults>>

Durables == {Shared} \cup Dedicated
Numbers == 1..MaxRuns

-----------------------------------------------------------------------------
(* planFor: a stream and a consumer are shared, so each number is what the    *)
(* most demanding queue asked for, above the defaults; what a consumer may    *)
(* leave unacknowledged is the sum of what its queues run at once.            *)
DefaultMaxLen == 1
DefaultMaxRetries == 1
DefaultMaxAckPending == 2
\* What the queues run at once, one by one.
Slots(r, qs) == UNION {{q} \X (1..Asked[r][q].concurrency) : q \in qs}

PlanFor(r, declared) ==
    [maxPerSubject |-> Max({DefaultMaxLen} \cup {Asked[r][q].maxLen : q \in declared}),
     maxDeliver |-> Max({DefaultMaxRetries} \cup {Asked[r][q].maxRetries : q \in declared}) + 1,
     maxAckPending |-> Max({DefaultMaxAckPending, Cardinality(Slots(r, declared))}),
     dedicated |-> declared \cap Dedicated]

\* What a provisioning is for: the queues that were declared when it began.
Plan(run) == PlanFor(run.by, run.queues)

\* What a plan is provisioned as, in this order.
Items(plan) == <<"stream", Shared>> \o SetToSeq(plan.dedicated)

Nothing == [deliver |-> 0, pending |-> 0]
NoRun == [by |-> CHOOSE r \in Replicas : TRUE, state |-> "unused", queues |-> {}, at |-> 0, held |-> Nothing]

Grants == [deliver : Nat, pending : Nat]
Runs == [by : Replicas, queues : SUBSET Queues, at : Nat, held : Grants,
         state : {"unused", "info", "write", "done", "failed"}]
TypeOK ==
    /\ stream \in Nat
    /\ consumer \in [Durables -> Grants]
    /\ process \in [Replicas -> [declared : SUBSET Queues, connection : {"none", "open", "rejected"},
                                ready : 0..MaxRuns]]
    /\ provisioning \in [Numbers -> Runs]
    /\ narrowed \subseteq Replicas
    /\ raced \in BOOLEAN
    /\ topologyFaults \in 0..MaxTopologyFaults

Init ==
    /\ stream = 0
    /\ consumer = [d \in Durables |-> Nothing]
    /\ process = [r \in Replicas |-> [declared |-> {}, connection |-> "none", ready |-> 0]]
    /\ provisioning = [n \in Numbers |-> NoRun]
    /\ narrowed = {}
    /\ raced = FALSE
    /\ topologyFaults = 0

\* A queue is declared, at boot or after its process has pushed already: a name once.
Declare(r, q) ==
    /\ q \notin process[r].declared
    /\ process' = [process EXCEPT ![r].declared = @ \cup {q}]
    /\ UNCHANGED <<stream, consumer, provisioning, narrowed, raced, topologyFaults>>

\* ensure: the provisioning of the plan that is remembered, or one of its own. What is
\* remembered is dropped by the failure of any, of an older plan too.
Unused == {n \in Numbers : provisioning[n].state = "unused"}
Ensure(r) ==
    LET p == process[r] IN
    /\ p.declared # {}
    /\ ~(p.ready # 0 /\ Plan(provisioning[p.ready]) = PlanFor(r, p.declared))
    /\ \E n \in Unused :
         /\ \A k \in Unused : n <= k
         /\ process' = [process EXCEPT ![r].ready = n]
         /\ provisioning' = [provisioning EXCEPT ![n] =
                                [by |-> r, state |-> "info", queues |-> p.declared, at |-> 1, held |-> Nothing]]
    /\ UNCHANGED <<stream, consumer, narrowed, raced, topologyFaults>>

\* The dial is made once and its answer kept, a refusal too.
Dial(r, ok) ==
    /\ process[r].connection = "none"
    /\ \E n \in Numbers : provisioning[n].by = r /\ provisioning[n].state = "info"
    /\ ok \/ topologyFaults < MaxTopologyFaults
    /\ process' = [process EXCEPT ![r].connection = IF ok THEN "open" ELSE "rejected"]
    /\ topologyFaults' = topologyFaults + IF ok THEN 0 ELSE 1
    /\ UNCHANGED <<stream, consumer, provisioning, narrowed, raced>>

\* Mutant of Failed: what failed is remembered.
FailedAndKept(n) ==
    /\ provisioning' = [provisioning EXCEPT ![n].state = "failed", ![n].held = Nothing]
    /\ process' = [process EXCEPT ![provisioning[n].by].ready = @]

\* Whatever a provisioning fails at, nothing is remembered and it may be tried again.
Failed(n) ==
    /\ provisioning' = [provisioning EXCEPT ![n].state = "failed", ![n].held = Nothing]
    /\ process' = [process EXCEPT ![provisioning[n].by].ready = 0]

NoManager(n) ==
    /\ provisioning[n].state = "info" /\ provisioning[n].at = 1
    /\ \/ process[provisioning[n].by].connection = "rejected" /\ UNCHANGED topologyFaults
       \/ /\ process[provisioning[n].by].connection = "open"
          /\ topologyFaults < MaxTopologyFaults /\ topologyFaults' = topologyFaults + 1
    /\ Failed(n)
    /\ UNCHANGED <<stream, consumer, narrowed, raced>>

Item(n) == Items(Plan(provisioning[n]))[provisioning[n].at]
Held(item) == IF item = "stream" THEN [deliver |-> stream, pending |-> 0] ELSE consumer[item]

\* info: a refusal reads as something nobody added.
Info(n, ok) ==
    /\ provisioning[n].state = "info"
    /\ process[provisioning[n].by].connection = "open"
    /\ ok \/ topologyFaults < MaxTopologyFaults
    /\ provisioning' = [provisioning EXCEPT ![n].state = "write",
                                            ![n].held = IF ok THEN Held(Item(n)) ELSE Nothing]
    /\ topologyFaults' = topologyFaults + IF ok THEN 0 ELSE 1
    /\ UNCHANGED <<stream, consumer, process, narrowed, raced>>

\* What the plan grants an item, and what is written of it: all of it where nothing was
\* found, and otherwise the bounds that are too low.
Granted(plan, item) ==
    IF item = "stream" THEN [deliver |-> plan.maxPerSubject, pending |-> 0]
    ELSE [deliver |-> plan.maxDeliver, pending |-> plan.maxAckPending]
\* Mutant of Widened: a bound above the plan is written as well.
Moved(plan, item, held) ==
    {f \in {"deliver", "pending"} : held[f] # Granted(plan, item)[f]}

Widened(plan, item, held) ==
    {f \in {"deliver", "pending"} : held[f] < Granted(plan, item)[f]}

Advance(n) ==
    LET run == provisioning[n]
        last == run.at = Len(Items(Plan(run)))
    IN provisioning' = [provisioning EXCEPT ![n].held = Nothing,
                                            ![n].at = IF last THEN run.at ELSE run.at + 1,
                                            ![n].state = IF last THEN "done" ELSE "info"]

\* add where nothing was found, which what exists with other bounds refuses; update where a
\* bound is too low, over whatever is there by now.
Write(n) ==
    LET run == provisioning[n]
        item == Item(n)
        found == run.held # Nothing
        widened == Widened(Plan(run), item, run.held)
        now == Held(item)
        after == [f \in {"deliver", "pending"} |->
                     IF f \in widened THEN Granted(Plan(run), item)[f] ELSE now[f]]
    IN /\ run.state = "write"
       /\ ~found => now \in {Nothing, after}
       /\ Advance(n)
       /\ stream' = IF item = "stream" THEN after.deliver ELSE stream
       /\ consumer' = IF item = "stream" THEN consumer ELSE [consumer EXCEPT ![item] = after]
       /\ raced' = (raced \/ (now # run.held /\ \E f \in widened : after[f] < now[f]))
       /\ UNCHANGED <<process, narrowed, topologyFaults>>

\* A consumer that could not be widened is left as it is, and so is the log; every other
\* refusal is the caller's.
WriteRefused(n) ==
    LET run == provisioning[n]
        item == Item(n)
        exists == run.held = Nothing /\ Held(item) \notin {Nothing, Granted(Plan(run), item)}
    IN /\ run.state = "write"
       /\ Widened(Plan(run), item, run.held) # {}
       /\ exists \/ topologyFaults < MaxTopologyFaults
       /\ IF item # "stream" /\ run.held # Nothing
          THEN Advance(n) /\ narrowed' = narrowed \cup {run.by} /\ UNCHANGED process
          ELSE Failed(n) /\ UNCHANGED narrowed
       /\ topologyFaults' = topologyFaults + IF exists THEN 0 ELSE 1
       /\ UNCHANGED <<stream, consumer, raced>>

Next ==
    \/ \E r \in Replicas, q \in Queues : Declare(r, q)
    \/ \E r \in Replicas : Ensure(r)
    \/ \E r \in Replicas, ok \in BOOLEAN : Dial(r, ok)
    \/ \E n \in Numbers : NoManager(n) \/ Write(n) \/ WriteRefused(n)
    \/ \E n \in Numbers, ok \in BOOLEAN : Info(n, ok)

Spec == Init /\ [][Next]_topologyVars

-----------------------------------------------------------------------------
(* What a replica remembers as ready did not fail. A provisioning that ended  *)
(* leaves a stream and consumers that keep what each of its queues asked for, *)
(* deliver past its retries, and let all that share a consumer run at once,   *)
(* unless its process could not widen a consumer, or a replica that had read  *)
(* a bound before another raised it wrote its own over it.                    *)
Remembered ==
    \A r \in Replicas : process[r].ready # 0 => provisioning[process[r].ready].state # "failed"

Fits(run) ==
    LET asked == Asked[run.by]
        sharing(d) == IF d = Shared THEN run.queues \ Dedicated ELSE {d} \cap run.queues
    IN /\ \A q \in run.queues : stream >= asked[q].maxLen
       /\ \A d \in Durables :
             /\ \A q \in sharing(d) : consumer[d].deliver > asked[q].maxRetries
             /\ consumer[d].pending >= Cardinality(Slots(run.by, sharing(d)))

QueuesGetWhatTheyAsked ==
    /\ Remembered
    /\ \A n \in Numbers :
          provisioning[n].state = "done" =>
             raced \/ provisioning[n].by \in narrowed \/ Fits(provisioning[n])

-----------------------------------------------------------------------------
(* The inductive invariant.                                                   *)
Within(low, high) == low.deliver <= high.deliver /\ low.pending <= high.pending

\* A replica remembers a provisioning of its own, under way or done.
OwnRemembered ==
    \A r \in Replicas : process[r].ready # 0 =>
        /\ provisioning[process[r].ready].by = r
        /\ provisioning[process[r].ready].state \in {"info", "write", "done"}

\* What each item has.
Bounds == [i \in {"stream"} \cup Durables |-> Held(i)]

\* A provisioning is at one of its items. Bounds only grow, but for a race: what it read of
\* an item is a lower one, and every item it is done with has what its plan grants, or its
\* replica could not widen a consumer.
Behind(run, i) == run.state = "done" \/ (run.state \in {"info", "write"} /\ i < run.at)
InOrder(run, bounds, race, kept) ==
    LET plan == Plan(run)
        items == Items(plan)
    IN /\ run.state \in {"info", "write"} => run.at \in 1..Len(items)
       /\ run.state = "write" => race \/ Within(run.held, bounds[items[run.at]])
       /\ \/ race \/ run.by \in kept
          \/ \A i \in 1..Len(items) : Behind(run, i) => Within(Granted(plan, items[i]), bounds[items[i]])

EachInOrder == \A n \in Numbers : InOrder(provisioning[n], Bounds, raced, narrowed)

IInv == TypeOK /\ OwnRemembered /\ EachInOrder /\ QueuesGetWhatTheyAsked
=============================================================================
