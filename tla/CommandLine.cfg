\* Two resources that a command may act on; a wait of five ticks in which the BMC
\* turns up and down four times.
SPECIFICATION MainSpec
CONSTANTS
    Services = {"svcA", "svcB"}
    Primary = "svcA"
    Timeout = 5
    Interval = 2
    MaxProbe = 2
    MaxTurns = 4
INVARIANT PostsAreAuthorized
INVARIANT NoMaskedPayloadIsSent
INVARIANT ConfirmedRunIsNoPreview
INVARIANT ReportIsTrue
INVARIANT PostsWhereAsked
INVARIANT WritesAreConfirmed
INVARIANT RefusalIsReported
INVARIANT NothingOnTopOfARefusal
INVARIANT RestartsAreEarned
INVARIANT WaitReportIsTrue
