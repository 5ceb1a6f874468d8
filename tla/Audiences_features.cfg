\* Two features that declare an audience of one name, on one replica; no fault.
SPECIFICATION Spec
CONSTANTS
    Features = {f1, f2}
    Replicas = {r1}
    MaxCalls = 3
    MaxNow = 1
    MaxAudienceFaults = 0
INVARIANTS FeaturesKeptApart
CHECK_DEADLOCK FALSE
