SPECIFICATION FairSpec
CONSTANTS
    MaxLines = 3
    Skipped = {1}
    BatchSize = 2
    Rotates = TRUE
    RotateSize = 2
    FaultKinds = {"crash", "insert", "rotate", "checkpoint"}
    MaxFaults = 2
INVARIANTS CheckpointIsInserted
PROPERTIES TruncatesOnlyInserted FindsTheFileAgain CheckpointedNotReinserted EveryLineSettles
