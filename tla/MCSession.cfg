CONSTANTS
    Users = {u1, u2}
    NoUser = NoUser
    MaxFailures = 2
SPECIFICATION Spec
SYMMETRY Symmetry
INVARIANTS TypeOK ExpiredIsStopped OnlyExpiredIsEnded TrackingIsShown BackendIsSpared ExpiryIsPending
PROPERTIES TrackingStartsInOrder
