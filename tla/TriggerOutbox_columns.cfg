\* One declaration watches two columns and one write moves both.
SPECIFICATION Spec
CONSTANTS
    Processes = {a, b}
    Events <- OneEvent
    Triggers = {"mail", "audit", "ghost"}
    Fields = {"status", "total"}
    Row = row
    Concerns <- FirstForBoth
    Watches <- TwoColumns
    Moved <- BothMoved
    Queued = {"mail", "audit"}
    Refused <- NothingRefused
    DrainBatch = 1
    LockHeldFor = 1
    MaxCrashes = 0
    MaxClosings = 0
INVARIANT EveryColumnDelivered
CHECK_DEADLOCK FALSE
