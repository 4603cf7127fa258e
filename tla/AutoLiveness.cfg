SPECIFICATION FairSpec
CONSTANTS
    Anomalies = {a1}
    Keys = {k1}
    MaxUpdates = 2
    MaxJobs = 1
    MaxExecs = 1
    MaxAnns = 1
    MaxApplyRetries = 1
    MaxWithdrawRetries = 1
    MaxFaults = 2
PROPERTIES
    ExecutionEnds
    JobEnds
CHECK_DEADLOCK FALSE
