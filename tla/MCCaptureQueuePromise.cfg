CONSTANTS
    Scopes = {a, b}
    NoScope = NoScope
    Sizes = {1}
    Flushers = {f1}
    MaxPushes = 2
    MaxFaults = 1
    MaxItems = 1
    MaxBytes = 2
    BatchSize = 2
SPECIFICATION Spec
SYMMETRY Symmetry
INVARIANTS AccountsAreApart
PROPERTIES KeepsPromise
