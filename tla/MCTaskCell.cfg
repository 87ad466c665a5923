SPECIFICATION FairSpec
CONSTANTS
    Threads = {t1, t2, t3}
    Joiners = {j1, j2}
    None = None
    MaxQueued = 0
INVARIANTS
    WakeRemembered
    FuturePresent
    PollExclusive
    FutureReleased
    JoinerWoken
PROPERTIES
    WakeServed
    JoinerServed
    ImplementsJoin
    UsesPool
