SPECIFICATION CloneSpec
CONSTANTS
    Threads = {t1, t2}
    Joiners = {j1}
    None = None
    MaxQueued = 0
INVARIANTS
    FuturePresent
