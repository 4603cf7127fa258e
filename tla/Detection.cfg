SPECIFICATION DetectionFairSpec
CONSTANTS
    Scans = {loop, op}
    Loop = loop
    Volumes = {0, 1}
    Window = 2
    Warning = 1
    Critical = 2
    Required = 2
    CloseAfter = 1
    MaxEvents = 6
    MaxDelay = 1
    MaxUpsets = 1
INVARIANTS EventPerScan
PROPERTIES MatchedIsKept DuplicateEnds AttackIsAuthorised
CHECK_DEADLOCK FALSE
