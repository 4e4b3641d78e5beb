SPECIFICATION FairSpec
CONSTANTS
    Timers = {a, b, c}
    Durations = {0, 1, 2}
    MaxTime = 4
INVARIANTS
    SetForFirst
    ArmedIffQueued
PROPERTIES
    ExpiresAsArmed
    EveryTimerExpires
