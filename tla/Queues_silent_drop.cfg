\* One message, no fault at all, and a replica that does not declare its queue.
SPECIFICATION Spec
CONSTANTS
    Which = {"delivery"}
    Calls = {c1}
    SqsRetries = 2
    Concurrency = 1
    MaxLoops = 2
    MaxLapses = 1
    MaxSqsFaults = 1
    PubSubRetries = 2
    MaxStreams = 2
    MaxAttempts = 5
    MaxPubSubFaults = 1
    Jobs = {1, 2, 3}
    Unreadable = {3}
    PromoteBatch = 2
    MaxForgotten = 1
    MaxDelayedFaults = 1
    MaxStarts = 4
    MaxCrashes = 1
    Replicas = {"old", "new"}
    Queues = {"jobs", "groups"}
    Dedicated = {"groups"}
    Asked <- AskedOf
    MaxRuns = 2
    MaxTopologyFaults = 1
    Batched = {"groups"}
    MaxRetries <- Tries
    DefaultRetries = 1
    Declares <- PartlyDeployed
    MaxFaults = 0
INVARIANT NoSilentDrop
\* Every message may come to an end.
CHECK_DEADLOCK FALSE
