\* A change queued while a drain holds the document.
SPECIFICATION Spec
CONSTANTS
    Docs = {"post", "draft"}
    IndexOf <- ByIndex
    Declared = {"posts"}
    Drains = {x}
    BatchSize = 1
    MaxAttempts = 2
    MinPasses = 1
    MaxChanges = 2
    MaxFaults = 0
INVARIANT SettledIsIndexed
