SPECIFICATION FairSpec
CONSTANTS
    Monitoring = {{"own"}}
    MaxMaster = 2
    MaxFaults = 0
PROPERTY CurrentMasterReported
CHECK_DEADLOCK FALSE
