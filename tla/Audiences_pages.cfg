\* Five members of one audience, one of them expired; nothing changes and nothing fails.
SPECIFICATION Spec
CONSTANTS
    Names = {1, 2, 3, 4, 5}
    Limits = {2, 3}
    ScanMultiplier = 2
    MaxChanges = 0
    MaxListFaults = 0
INVARIANT EveryMemberListed
\* Every walk comes to an end.
CHECK_DEADLOCK FALSE
