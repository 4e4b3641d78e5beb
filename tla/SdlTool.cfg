SPECIFICATION FairSpec
CONSTANTS
    Numbers = {"6379", "6380", "26379", "26380"}
    ServicePort <- MCServicePort
    LiteralIPv6 <- MCLiteralIPv6
    Histories <- MCHistories
    MaxServers = 3
    MaxObjects = 2
    MaxRequests = 2
    Namespaces <- MCNamespaces
    CRC32 <- MCCRC32
    Invocations <- MCInvocations
INVARIANTS
    RoutedAsConfigured
    SuccessMeansReady
PROPERTIES
    EveryRequestAnswered
    ToolEnds
CHECK_DEADLOCK FALSE
