SPECIFICATION ServicesFairSpec
CONSTANTS
    Connectors = {c1}
    MaxChecks = 1
    Requests = {r1, r2}
    CacheKeys = {k1}
    ItemSizes = {1, 2}
    Budgets = {0, 8}
    MaxItem = 2
    MaxEntries = 2
    PeakJobs = {j1, j2}
    Peaks = {p1}
    Runners = {sched, op1}
    Scheduler = sched
    Combinations = 1
    MaxRuns = 1
    MaxFailures = 1
    BgpConnectors = {1, 2}
    Operators = {}
    Kinds = {"dns_source"}
    MaxRules = 1
    MaxEdits = 0
    MaxTries = 2
    Imports = {1}
    Admins = {a1}
    Payloads <- MCPayloads
    Terms <- MCTerms
    MaxParses = 1
PROPERTIES LeaseEnds Answered DueJobRuns
CHECK_DEADLOCK FALSE
