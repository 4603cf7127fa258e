SPECIFICATION ServicesSpec
CONSTANTS
    Connectors = {c1}
    MaxChecks = 2
    Requests = {r1, r2}
    CacheKeys = {k1, k2}
    ItemSizes = {1, 2}
    Budgets = {0, 1, 2}
    MaxItem = 2
    MaxEntries = 2
    PeakJobs = {j1, j2}
    Peaks = {p1}
    Runners = {sched, op1}
    Scheduler = sched
    Combinations = 1
    MaxRuns = 2
    MaxFailures = 1
    BgpConnectors = {1, 2}
    Operators = {op2}
    Kinds = {"automatic_dns", "session", "dns_destination", "dns_source", "destination_port", "target_prefix", "port_only"}
    MaxRules = 1
    MaxEdits = 1
    MaxTries = 2
    Imports = {1, 2}
    Admins = {a1, a2}
    Payloads <- MCPayloads
    Terms <- MCTerms
    MaxParses = 1
INVARIANTS OneProbePerConnector VerdictInTime BudgetKept OneComputation PeakSavedOnce RunsAreCounted AppliedOnce LimitOnlyByHand SentIsDefensible PageIsHonoured AutomaticAsValidated OneSubscriber LiveIsActive
PROPERTIES SnapshotInOrder
CHECK_DEADLOCK FALSE
