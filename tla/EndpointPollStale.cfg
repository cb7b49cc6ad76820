\* The spec is edited while the timer polls the old address.
SPECIFICATION Spec
CONSTANTS
    TicksPerSecond = 2
    Base = 4
    Interval = 10
    Cap = 8
    MaxExponent = 1023
    MaxPoll = 3
    Health = {"readings", "BMCUnreachable"}
    MaxTime = 24
    MaxEdits = 1
    MaxChanges = 2
CHECK_DEADLOCK FALSE
PROPERTY LatestSpecWins
