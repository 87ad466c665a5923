SPECIFICATION FairSpec
CONSTANTS
    Callers = {p, q}
    Requested <- MCRequested
    Env = {2}
    Cores = 1
    UsizeMax = 65535
    MaxSize = 2
    None = None
INVARIANTS
    OneRuntime
    QuietAfterZero
    NoThreadLost
    NoCircularJoin
PROPERTIES
    CallsReturn
CHECK_DEADLOCK FALSE
