SPECIFICATION Spec
CONSTANTS
    Timers = {t1}
    Changes = {c1}
    Values <- MCValues
    Want = "want"
    Cleared = "other"
    DesiredSpecs <- MCDesired
    Serial = FALSE
    MaxEdits = 2
    MaxDrifts = 0
    MaxFailures = 0
    MaxTaskFails = 0
    MaxCrashes = 0
PROPERTIES
    ConsumptionIsRemembered
