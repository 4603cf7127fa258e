SPECIFICATION Spec
CONSTANTS
    MaxLines = 2
    Skipped = {}
    BatchSize = 2
    Rotates = FALSE
    RotateSize = 100
    FaultKinds = {}
    MaxFaults = 0
INVARIANTS CountedOnce
