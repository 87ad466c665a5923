SPECIFICATION ExecFairSpec
CONSTANTS
    Callers = {c1, c2}
    Futures = {f1, f2}
    NoFuture = NoFuture
INVARIANTS
    Tracked
PROPERTIES
    ShutdownDrains
    FutureResolved
    ShutdownReturns
CHECK_DEADLOCK FALSE
