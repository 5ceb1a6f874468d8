\* Two replicas, two rows, a batch of one: overlapping passes, deaths, refused deletes.
SPECIFICATION Spec
CONSTANTS
    Processes = {a, b}
    Events <- TwoEvents
    Triggers = {"mail", "audit", "ghost"}
    Fields = {"status"}
    Row = row
    Concerns <- FirstForBoth
    Watches <- OneColumn
    Moved <- BothMoved
    Queued = {"mail", "audit"}
    Refused <- NothingRefused
    DrainBatch = 1
    LockHeldFor = 1
    MaxCrashes = 1
    MaxClosings = 1
INVARIANTS TypeOK NoChangeLost OverlapOnlyPastTheMarker HandedOverOnce OneCopyPerWindow
PROPERTIES DeliversChanges
SYMMETRY AnyReplica
