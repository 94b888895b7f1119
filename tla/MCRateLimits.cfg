CONSTANTS
    Loops = {l1, l2, l3}
    Endpoints = {e1}
    MaxRequests = 3
    MaxResets = 1
    MaxDelay = 3
    MaxBlock = 2
SPECIFICATION FairSpec
INVARIANTS TypeOK QueueIsServed NoRequestTwice FirstComeFirstServed
PROPERTIES EveryRequestSettles EveryBlockEnds
