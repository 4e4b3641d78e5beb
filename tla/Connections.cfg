SPECIFICATION FairSpec
CONSTANTS
    c1 = c1
    c2 = c2
    Commands = {c1, c2}
    Verify = Verify
    NodeOf <- MCNodeOf
    LastFD = 7
    MaxFaults <- MCMaxFaults
    MaxReports = 2
INVARIANTS
    MonitoringExact
    NeverDeaf
    NoAbort
PROPERTIES
    EventReachesItsConnection
    EventuallyConnected
    EveryCommandAnswered
CHECK_DEADLOCK FALSE
