SPECIFICATION Spec
CONSTANTS
    MaxRows = 2
    Nlris = {n1}
    Actions = {discard}
    Operators = {}
    Reconcilers = {rec}
    Testers = {}
    Orchestrators = {orch}
    MaxFaults = 0
PROPERTIES
    NoStolenRoute
CHECK_DEADLOCK FALSE
