SPECIFICATION Spec
CONSTANTS
    Timers = {t1}
    Changes = {c1}
    Values <- MCValues
    Want = "want"
    Cleared = "other"
    DesiredSpecs <- MCDesired
    Serial = TRUE
    MaxEdits = 1
    MaxDrifts = 0
    MaxFailures = 1
    MaxTaskFails = 0
    MaxCrashes = 0
INVARIANTS
    OneAttemptPerApproval
