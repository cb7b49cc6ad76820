SPECIFICATION Spec
CONSTANTS
    Timers = {t1}
    Changes = {c1}
    Values <- MCValues
    Want = "want"
    Cleared = "other"
    DesiredSpecs <- MCTuning
    Serial = FALSE
    MaxEdits = 2
    MaxDrifts = 0
    MaxFailures = 1
    MaxTaskFails = 1
    MaxCrashes = 1
INVARIANTS
    ApprovedBeforeWritten
    ConsumedWasApplied
