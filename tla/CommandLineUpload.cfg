\* The same instance; what a firmware update tells of its upload.
SPECIFICATION MainSpec
CONSTANTS
    Services = {"svcA", "svcB"}
    Primary = "svcA"
    Timeout = 5
    Interval = 2
    MaxProbe = 2
    MaxTurns = 4
INVARIANT UploadFailureIsReported
