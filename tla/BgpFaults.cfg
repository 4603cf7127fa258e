SPECIFICATION Spec
CONSTANTS
    MaxRows = 2
    Nlris = {n1}
    Actions = {discard}
    Operators = {op}
    Reconcilers = {rec}
    Testers = {}
    Orchestrators = {}
    MaxFaults = 2
INVARIANTS
    LiveRouteIsTracked
    AdvertisedIsTruthful
PROPERTIES
    KeepsReservations
CHECK_DEADLOCK FALSE
