SPECIFICATION FairSpec
CONSTANTS
    Timers = {t1}
    Changes = {c1}
    Values <- MCValues
    Want = "want"
    Cleared = "other"
    DesiredSpecs <- MCDesired
    Serial = FALSE
    MaxEdits = 1
    MaxDrifts = 1
    MaxFailures = 1
    MaxTaskFails = 0
    MaxCrashes = 0
INVARIANTS
    FailedWriteNeverRestarts
PROPERTIES
    ApprovedPlanIsApplied
    StatusConverges
