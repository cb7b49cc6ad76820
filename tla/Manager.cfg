\* Instances: three workers, two connections, one constructor that raises.
\* Standard poll: with and without a timeout of four ticks, for Running or for
\* the end.  Dell: the default arguments, and a caller that waits for a state and
\* for a code.  Two answers that do not show the task.  A call that has ended
\* stays ended.
SPECIFICATION ManagerSpec
CONSTANTS
    Workers = {w1, w2, w3}
    Connections = {b1, b2}
    MaxCtorFailures = 1
    MaxGlitches = 2
    Awaited = {"Running", "none"}
    Sleep = 2
    RetryAfter = {0, 3}
    MaxDelay = 3
    Timeout = 4
    PollTime = 1
    DellAwaited = {"Unknown", "Suspended"}
    Codes = {"none", "other"}
CHECK_DEADLOCK FALSE
INVARIANT OneInstancePerConnection
INVARIANT ReturnIsTrue
INVARIANT LateByOneDelay
INVARIANT EndIsTrue
PROPERTY EveryCallEnds
PROPERTY EndIsNoticed
PROPERTY DellEndIsNoticed
