SPECIFICATION Spec
CONSTANTS
    Timers = {t1}
    Changes = {c1}
    Values <- MCValues
    Want = "want"
    Cleared = "other"
    DesiredSpecs <- MCAllBlocks
    Serial = TRUE
    MaxEdits = 3
    MaxDrifts = 0
    MaxFailures = 0
    MaxTaskFails = 0
    MaxCrashes = 0
INVARIANTS
    OneAttemptPerApproval
    WritesWithinApproval
    AppliedMeansInSync
PROPERTIES
    ConsumptionIsRemembered
    ImplementsOneShot
