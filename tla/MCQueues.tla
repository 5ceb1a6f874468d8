------------------------------ MODULE MCQueues -------------------------------
(* Small instances of the queues, which share no state with one another. A    *)
(* behaviour is one of one of them, chosen in its first state: since no two   *)
(* ever run, they take the same variables, a name that two of them have the   *)
(* same one, and a state is as small as that of one.                          *)
EXTENDS Integers, Sequences, FiniteSets, TLC

CONSTANTS
    Which,              \* the queues a run is of
    Calls,              \* messages and promoters, which only differ in their names
    \* SqsQueue
    SqsRetries, Concurrency, MaxLoops, MaxLapses, MaxSqsFaults,
    \* PubSubQueue
    PubSubRetries, MaxStreams, MaxAttempts, MaxPubSubFaults,
    \* DelayedJobs
    Jobs, Unreadable, PromoteBatch, MaxForgotten, MaxDelayedFaults,
    \* RunnerLoops
    MaxStarts, MaxCrashes,
    \* QueueTopology and QueueDelivery
    Replicas, Queues, Dedicated, Asked, MaxRuns, MaxTopologyFaults,
    Batched, MaxRetries, DefaultRetries, Declares, MaxFaults

VARIABLES
    queues,   \* the one the behaviour is of
    v1, v2, v3, v4, v5, v6, v7, v8, v9, v10, v11, v12, v13

Symmetry == Permutations(Calls)

\* Two deployments that ask for different numbers of the queues they share: "new" mounts
\* every package, "old" only the one that declares "jobs".
Options(len, retries, runs) == [maxLen |-> len, maxRetries |-> retries, concurrency |-> runs]
AskedOf == [old |-> [jobs |-> Options(1, 2, 1), groups |-> Options(2, 1, 2)],
            new |-> [jobs |-> Options(3, 3, 3), groups |-> Options(1, 2, 2)]]
PartlyDeployed == [new |-> {"jobs", "groups"}, old |-> {"jobs"}]
Tries == [jobs |-> 1, groups |-> 2]

Sqs == INSTANCE SqsQueue WITH Msgs <- Calls, MaxRetries <- SqsRetries, mode <- v1,
    told <- v2, place <- v3, receipts <- v4, dead <- v5, stopped <- v6, loop <- v7,
    failed <- v8, served <- v9, lapsed <- v10, lapses <- v11, sqsFaults <- v12,
    unreadable <- v13
PubSub == INSTANCE PubSubQueue WITH Letters <- Calls, Retries <- PubSubRetries,
    kind <- v1, letter <- v2, attempt <- v3, copies <- v4, quiet <- v5, stream <- v6,
    known <- v7, buffer <- v8, running <- v9, settled <- v10, missed <- v11,
    pubSubFaults <- v12, unreadable <- v13
Delayed == INSTANCE DelayedJobs WITH Promoters <- Calls, scheduled <- v1, members <- v2,
    due <- v3, copies <- v4, promoter <- v5, keys <- v6, forgotten <- v7, promoted <- v8,
    delayedFaults <- v9
Loops == INSTANCE RunnerLoops WITH guard <- v1, wanted <- v2, generation <- v3,
    restarts <- v4, doubled <- v5, revived <- v6, loop <- v7, crashes <- v8, running <- v9
Topology == INSTANCE QueueTopology WITH consumer <- v1, process <- v2, provisioning <- v3,
    narrowed <- v4, raced <- v5, stream <- v6, topologyFaults <- v7
Delivery == INSTANCE QueueDelivery_proofs WITH Msgs <- Calls, queue <- v1,
    unreadable <- v2, server <- v3, count <- v4, copies <- v5, noted <- v6, dead <- v7,
    succeeded <- v8, tried <- v9, handed <- v10, misread <- v11, lost <- v12, faults <- v13

ASSUME QueuesAssumption ==
    /\ Sqs!SqsAssumption
    /\ PubSub!PubSubAssumption
    /\ Delayed!DelayedAssumption
    /\ Loops!LoopAssumption
    /\ Topology!TopologyAssumption
    /\ Delivery!QueueAssumption

\* What the behaviour has no use for is empty.
Unused == "unused"
NoneFrom10 == v10 = Unused /\ v11 = Unused /\ v12 = Unused /\ v13 = Unused
NoneFrom8 == v8 = Unused /\ v9 = Unused /\ NoneFrom10

Init ==
    /\ queues \in Which
    /\ \/ queues = "sqs" /\ Sqs!Init
       \/ queues = "pubSub" /\ PubSub!Init
       \/ queues = "delayed" /\ Delayed!Init /\ NoneFrom10
       \/ queues = "loops" /\ Loops!Init /\ NoneFrom10
       \/ queues = "topology" /\ Topology!Init /\ NoneFrom8
       \/ queues = "delivery" /\ Delivery!Init

\* A step of one; the others have no state of their own.
Of(name, rest) == queues = name /\ UNCHANGED <<queues, rest>>

Next ==
    \/ Of("sqs", <<>>) /\ Sqs!Next
    \/ Of("pubSub", <<>>) /\ PubSub!Next
    \/ Of("delayed", <<v10, v11, v12, v13>>) /\ Delayed!Next
    \/ Of("loops", <<v10, v11, v12, v13>>) /\ Loops!Next
    \/ Of("topology", <<v8, v9, v10, v11, v12, v13>>) /\ Topology!Next
    \/ Of("delivery", <<>>) /\ Delivery!Next

vars == <<queues, v1, v2, v3, v4, v5, v6, v7, v8, v9, v10, v11, v12, v13>>
Spec == Init /\ [][Next]_vars

-----------------------------------------------------------------------------
(* The type invariant of each.                                                *)
TypeOK ==
    /\ queues = "sqs" => Sqs!TypeOK
    /\ queues = "pubSub" => PubSub!TypeOK
    /\ queues = "delayed" => Delayed!TypeOK
    /\ queues = "loops" => Loops!TypeOK
    /\ queues = "topology" => Topology!TypeOK
    /\ queues = "delivery" => Delivery!TypeOK

(* What SQS accepted leaves its queue handled or filed as dead, after its     *)
(* runs, once, unless it lapsed; no message leaves a Pub/Sub subscription     *)
(* unhandled and no stream is left open that a stop could have seen           *)
(* (foundation: sqs_queue_backend.ts, pubsub_queue_backend.ts).               *)
QueuesLoseNothing ==
    /\ queues = "sqs" => Sqs!NothingLost /\ Sqs!DeadAfterItsRuns
    /\ queues = "pubSub" => PubSub!NothingLeaks

(* A delayed job is promoted when due, at least once, and once while the      *)
(* broker remembers its key (foundation: queue/delayed).                      *)
PromotedOnce == queues = "delayed" => Delayed!PromotedOnce

(* A runner that was started has one loop and a stopped one none, but for two *)
(* gaps of the loops that look at the flag alone (foundation: queue/runner,   *)
(* trigger_runner.ts, cron_runner.ts).                                        *)
LoopsFollowTheSwitch == queues = "loops" => Loops!LoopsFollowTheSwitch

(* What a deployment provisioned grants its queues the retries, the room and  *)
(* the concurrency they asked for, whoever provisions the same streams, and   *)
(* no failure is remembered as ready (foundation: queue/topology).            *)
QueuesGetWhatTheyAsked == queues = "topology" => Topology!QueuesGetWhatTheyAsked

(* The extra delivery of max_deliver pays for one that comes to nothing: a    *)
(* replica dead before it answered, a hand-back, a dead letter that refused.  *)
(* A message dropped without a trace had two (foundation: queue/topology).    *)
DroppedOnlyAfterTwoLosses == queues = "delivery" => Delivery!DroppedOnlyAfterTwoLosses

(* Hand-backs are not tries: a message filed in the dead letter was refused   *)
(* by a body as often as its queue allows, unless deliveries went unanswered  *)
(* or hand-backs uncounted (foundation: queue/runner/base_processor.ts).      *)
FiledAfterItsTries == queues = "delivery" => Delivery!FiledAfterItsTries

(* A job that succeeded is filed as a failure only when an answer to one of   *)
(* its own deliveries was refused, lost or late, whatever became of the       *)
(* others in its group (foundation: queue/runner).                            *)
SuccessFiledOnlyUnanswered == queues = "delivery" => Delivery!SuccessFiledOnlyUnanswered

(* Filing a message ends it: it is delivered again only if the answer that    *)
(* should have ended it failed or was lost (foundation: queue/runner).        *)
FiledForGood == [][queues = "delivery" => Delivery!FiledStaysFiled]_vars

(* "The server has to keep delivering for as long as FailurePolicy intends to *)
(* retry, or it would stop first and the message would be dropped", said of   *)
(* max_deliver: with no fault and no answer late, no message a body was tried *)
(* on is dropped with nothing in the dead letter (foundation: queue/topology).*)
NoSilentDrop == queues = "delivery" => Delivery!NoSilentDrop
=============================================================================
