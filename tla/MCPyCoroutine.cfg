SPECIFICATION FairSpec
CONSTANTS
    Workers = {a, b}
    NoGil = NoGil
    MaxSteps = 4
    None = None
INVARIANTS
    HandleOnce
    ResumeRight
PROPERTIES
    CompletesOrStuck
CHECK_DEADLOCK FALSE
