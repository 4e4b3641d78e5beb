SPECIFICATION FairSpec
CONSTANTS
    Deployments <- UntimedAndTimed
    MaxPosted = 2
    MaxFaults = 3
    MaxDiscoveries = 3
INVARIANTS
    NotConnectedNotApplied
    UntimedReturnedApplied
    ReadyWasUp
    NoLateAnswer
PROPERTY EveryCallReturns
