CONSTANTS
    Captures = {c1, c2}
    MaxAttempts = 2
    BaseDelay = 3
    MaxDelay = 2
SPECIFICATION FairSpec
CHECK_DEADLOCK FALSE
INVARIANTS TypeOK StopsOnce StoppedIsQuiet ExitIsClean
PROPERTIES OnlyForgottenServicesLose ShutdownEnds
