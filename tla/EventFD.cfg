SPECIFICATION FairSpec
CONSTANTS
    Threads = {loop, t1, t2}
    Loop = loop
    Callbacks = {a, stop}
    Stop = stop
    MaxQueued = 2
INVARIANTS
    WakeupPending
PROPERTIES
    PostedInOrder
    EveryCallbackExecuted
    StopEndsRun
