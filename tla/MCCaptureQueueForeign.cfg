CONSTANTS
    Scopes = {a, b}
    NoScope = NoScope
    Sizes = {1}
    Flushers = {f1}
    MaxPushes = 1
    MaxFaults = 0
    MaxItems = 1
    MaxBytes = 1
    BatchSize = 1
SPECIFICATION Spec
INVARIANTS NoForeignReplay
