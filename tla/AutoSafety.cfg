SPECIFICATION Spec
CONSTANTS
    Anomalies = {a1}
    Keys = {k1}
    MaxUpdates = 1
    MaxJobs = 1
    MaxExecs = 2
    MaxAnns = 2
    MaxApplyRetries = 1
    MaxWithdrawRetries = 1
    MaxFaults = 1
INVARIANTS
    OneReservationPerKey
    AnnouncedOnce
    WithdrawnIsClosed
CHECK_DEADLOCK FALSE
