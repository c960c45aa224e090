CONSTANTS
    a = a
    b = b
    None = None
    Executions = {e1}
    Chains = {a, b}
    MaxHistories = 1
    FinalizationRetries = 1
    MaxKills = 2
    Plans <- AllPlans
SPECIFICATION Spec
INVARIANTS TypeOK SentOnce NoLostWakeup BlockedIsFound CompletedIsCleared
PROPERTIES TxsInOrder
CHECK_DEADLOCK FALSE
