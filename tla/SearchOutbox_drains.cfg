\* Two drains that run together, an index nothing declares.
SPECIFICATION FairSpec
CONSTANTS
    Docs = {"post", "draft", "ghost"}
    IndexOf <- ByIndex
    Declared = {"posts"}
    Drains = {x, y}
    BatchSize = 2
    MaxAttempts = 2
    MinPasses = 1
    MaxChanges = 2
    MaxFaults = 1
INVARIANTS TypeOK OnlyARaceLosesAChange
PROPERTY LineEmpties
