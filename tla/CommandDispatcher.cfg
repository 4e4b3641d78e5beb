SPECIFICATION FairSpec
CONSTANTS
    Commands = {c1, c2}
    Verifications = {v1, v2}
    MaxPosted = 2
    MaxFaults = 2
    MaxRefusals = 1
INVARIANTS
    ContextAlive
    OneContextAtATime
    NoInvalidCallback
    CallbackListExact
    NeverStranded
    OneAnswerPerCommand
    VerifiedBeforeUse
    NoDanglingThis
PROPERTIES
    EventuallyConnected
    EveryCommandAnswered
    WaitAcknowledged
