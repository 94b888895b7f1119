CONSTANTS
    Ideas = {i1, i2, i3}
    MaxRecords = 3
SPECIFICATION Spec
SYMMETRY Symmetry
INVARIANTS AcceptedIdeaIsKept AtMostOneReplayIsRecorded
PROPERTIES QueueKeepsPromise
