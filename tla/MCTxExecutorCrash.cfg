CONSTANTS
    a = a
    b = b
    None = None
    Executions = {e1}
    Chains = {a, b}
    MaxHistories = 1
    FinalizationRetries = 1
    MaxKills = 2
    Plans <- TwoTxs
SPECIFICATION Spec

PROPERTIES PreventedIsKept
CHECK_DEADLOCK FALSE
