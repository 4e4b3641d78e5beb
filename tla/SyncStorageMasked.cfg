SPECIFICATION FairSpec
CONSTANTS
    Deployments <- TimedSet
    MaxPosted = 2
    MaxFaults = 1
    MaxDiscoveries = 0
INVARIANT ReturnedApplied
