\* Two of what calls, two deployments; every behaviour may come to an end.
SPECIFICATION Spec
CONSTANTS
    Which = {"sqs", "pubSub", "delayed", "loops", "topology", "delivery"}
    Calls = {c1, c2}
    SqsRetries = 2
    Concurrency = 1
    MaxLoops = 2
    MaxLapses = 1
    MaxSqsFaults = 1
    PubSubRetries = 2
    MaxStreams = 2
    MaxAttempts = 5
    MaxPubSubFaults = 1
    Jobs = {1, 2, 3}
    Unreadable = {3}
    PromoteBatch = 2
    MaxForgotten = 1
    MaxDelayedFaults = 1
    MaxStarts = 4
    MaxCrashes = 1
    Replicas = {"old", "new"}
    Queues = {"jobs", "groups"}
    Dedicated = {"groups"}
    Asked <- AskedOf
    MaxRuns = 2
    MaxTopologyFaults = 1
    Batched = {"groups"}
    MaxRetries <- Tries
    DefaultRetries = 1
    Declares <- PartlyDeployed
    MaxFaults = 2
SYMMETRY Symmetry
INVARIANTS
    TypeOK
    QueuesLoseNothing
    PromotedOnce
    LoopsFollowTheSwitch
    QueuesGetWhatTheyAsked
    DroppedOnlyAfterTwoLosses
    FiledAfterItsTries
    SuccessFiledOnlyUnanswered
PROPERTIES
    FiledForGood
CHECK_DEADLOCK FALSE
