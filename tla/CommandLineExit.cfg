\* The same instance; what the status of the process tells.
SPECIFICATION MainSpec
CONSTANTS
    Services = {"svcA", "svcB"}
    Primary = "svcA"
    Timeout = 5
    Interval = 2
    MaxProbe = 2
    MaxTurns = 4
INVARIANT ErrorExitsNonZero
