SPECIFICATION FairSpec
CONSTANTS
    Deployments <- UntimedSetWithFailover
    MaxPosted = 2
    MaxFaults = 0
    MaxDiscoveries = 2
PROPERTY EveryCallReturns
CHECK_DEADLOCK FALSE
