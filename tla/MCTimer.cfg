SPECIFICATION FairSpec
CONSTANTS
    Sleeps = {s1, s2}
    Tasks = {a, b}
    Durations <- MCDurations
    Slack = 1
    MaxTime = 4
    None = None
INVARIANTS
    Armed
    NeverOversleeps
PROPERTIES
    DriverServes
CHECK_DEADLOCK FALSE
