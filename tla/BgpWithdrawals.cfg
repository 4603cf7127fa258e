SPECIFICATION Spec
CONSTANTS
    MaxRows = 2
    Nlris = {n1}
    Actions = {discard}
    Operators = {}
    Reconcilers = {rec}
    Testers = {t}
    Orchestrators = {orch}
    MaxFaults = 1
CONSTRAINT FaultsWithoutManualPage
INVARIANTS
    OneLiveRowPerKey
PROPERTIES
    ClosedIsFinal
    KeepsTable
    WithdrawsOwnRule
CHECK_DEADLOCK FALSE
