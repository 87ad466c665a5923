SPECIFICATION MoveSpec
CONSTANTS
    Tasks = {x1, x2}
    Background = {b1}
    Callers = {c1, c2}
    MaxWorkers = 2
    TickPeriod = 2
    BatchMax = 1
    None = None
INVARIANTS
    Reachable
CHECK_DEADLOCK FALSE
