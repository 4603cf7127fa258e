SPECIFICATION FairSpec
CONSTANTS
    MaxRows = 2
    Nlris = {n1}
    Actions = {discard}
    Operators = {}
    Reconcilers = {rec}
    Testers = {}
    Orchestrators = {}
    MaxFaults = 1
PROPERTIES
    LiveRouteEventuallyWithdrawn
    RequestEventuallySettled
CHECK_DEADLOCK FALSE
