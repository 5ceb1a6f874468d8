\* Three calls of one key on two replicas, a change, a fault.
SPECIFICATION FairSpec
CONSTANTS
    None = None
    Calls = {"first", "second", "third"}
    Replicas = {"one", "other"}
    At <- TwoAndOne
    MaxChanges = 1
    MaxFaults = 1
INVARIANTS
    TypeOK
    AloneUnderTheLock
    RegisteredWhileRunning
    FreshAfterForget
PROPERTY EveryCallEnds
\* Every call may have ended.
CHECK_DEADLOCK FALSE
