CONSTANTS
    Ideas = {i1}
    MaxRecords = 3
SPECIFICATION Spec
INVARIANTS NoIdeaVanishes
