\* Two replicas, a declaration refused on every pass in front of an accepted row.
SPECIFICATION FairSpec
CONSTANTS
    Processes = {a, b}
    Events <- TwoEvents
    Triggers = {"mail", "audit", "ghost"}
    Fields = {"status"}
    Row = row
    Concerns <- FirstForBoth
    Watches <- OneColumn
    Moved <- BothMoved
    Queued = {"mail", "audit"}
    Refused <- FirstRefusedByMail
    DrainBatch = 2
    LockHeldFor = 1
    MaxCrashes = 0
    MaxClosings = 0
PROPERTIES EveryDeclarationEventuallyReached EveryAcceptedRowLeaves
