\* The timer beside the change handler, times in half seconds: base 2 s,
\* interval 5 s, backoff up to 4 s, polls of up to 1 s.
SPECIFICATION Spec
CONSTANTS
    TicksPerSecond = 2
    Base = 4
    Interval = 10
    Cap = 8
    MaxExponent = 1023
    MaxPoll = 2
    Health = {"readings", "no firmware", "AuthenticationFailed", "exception"}
    MaxTime = 20
    MaxEdits = 1
    MaxChanges = 2
CHECK_DEADLOCK FALSE
INVARIANT ReadyAgrees
INVARIANT RecoversInTime
PROPERTY TimerKeepsItsDistance
PROPERTY TransitionTimesAreReal
