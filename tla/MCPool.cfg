SPECIFICATION FairSpec
CONSTANTS
    Tasks = {x1, x2}
    Background = {b1}
    Callers = {c1}
    MaxWorkers = 3
    TickPeriod = 1
    BatchMax = 1
    None = None
INVARIANTS
    IdleSound
    NoMissedUnpark
    Reachable
PROPERTIES
    StaleGuardHarmless
    ImplementsPool
    EventuallyRun
    ShutdownStops
CHECK_DEADLOCK FALSE
