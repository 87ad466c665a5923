SPECIFICATION FairSpec
CONSTANTS
    Workers = {a, b}
    NoGil = NoGil
    MaxSteps = 2
    None = None
PROPERTIES
    Completes
CHECK_DEADLOCK FALSE
