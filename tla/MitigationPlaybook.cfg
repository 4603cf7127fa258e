SPECIFICATION MitigationSpec
CONSTANTS
    BgpConnectors = {1}
    Operators = {op1}
    Kinds = {"destination_port"}
    MaxRules = 1
    MaxEdits = 0
    MaxTries = 1
INVARIANTS ManualOnlyNeverAutomatic
CHECK_DEADLOCK FALSE
