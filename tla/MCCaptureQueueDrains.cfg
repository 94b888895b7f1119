CONSTANTS
    Scopes = {a}
    NoScope = NoScope
    Sizes = {1, 2}
    Flushers = {f1, f2}
    MaxPushes = 2
    MaxFaults = 1
    MaxItems = 2
    MaxBytes = 2
    BatchSize = 1
SPECIFICATION FairSpec
INVARIANTS ByteLimit TrimMatchesLoop
PROPERTIES Drains
