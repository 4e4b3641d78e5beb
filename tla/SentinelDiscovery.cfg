\* The discovery rests when nothing fails and the master stays.
SPECIFICATION FairSpec
CONSTANTS
    Monitoring = {{"own", "other"}, {"other"}}
    MaxMaster = 3
    MaxFaults = 2
INVARIANTS
    NeverSettlesWrong
    SubscriptionKept
PROPERTY CurrentUnlessMisled
CHECK_DEADLOCK FALSE
