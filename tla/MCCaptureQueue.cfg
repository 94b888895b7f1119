CONSTANTS
    Scopes = {a}
    NoScope = NoScope
    Sizes = {1}
    Flushers = {f1, f2}
    MaxPushes = 3
    MaxFaults = 1
    MaxItems = 2
    MaxBytes = 3
    BatchSize = 2
SPECIFICATION Spec
SYMMETRY Symmetry
INVARIANTS TypeOK ItemLimit AcceptedIsDurable AcknowledgedIsReceived
PROPERTIES EntriesLeaveForAReason NoLostWakeUp
