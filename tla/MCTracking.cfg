CONSTANTS
    Users = {u1}
    NoUser = NoUser
    Windows = {w1, w2}
    NoWindow = NoWindow
    Timers = {i1, i2}
    NoTimer = NoTimer
    Throttle = 3
SPECIFICATION FairSpec
INVARIANTS NoOrphanTimer WindowsAreReported
PROPERTIES RepeatsAreSpaced ExclusionsTakeHold StoppedDiesAway TrackingEndsWithoutToken
