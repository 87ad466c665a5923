SPECIFICATION FairSpec
CONSTANTS
    Totals <- MCTotals
    MaxItems = 5
    PoolSizes <- MCPoolSizes
    Callers = {p, q}
    None = None
INVARIANTS
    CallbackOnce
    Accounted
    CallbackSeesResult
    AwaiterKept
PROPERTIES
    AwaiterServed
CHECK_DEADLOCK FALSE
