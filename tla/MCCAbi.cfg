SPECIFICATION FairSpec
CONSTANTS
    Callers = {p, q}
    Workers = 2
    Counts <- MCCounts
    PoolSizes <- MCPoolSizes
    None = None
INVARIANTS
    AnswersAgree
    ParkedCovered
    BatchHonest
PROPERTIES
    CallsReturn
CHECK_DEADLOCK FALSE
