SPECIFICATION MoveSpec
CONSTANTS
    Sleeps = {s1}
    Tasks = {a, b}
    Durations <- MCDurations
    Slack = 0
    MaxTime = 3
    None = None
INVARIANTS
    Armed
CHECK_DEADLOCK FALSE
