\* Two threads post before the EventFD exists.
SPECIFICATION Spec
CONSTANTS
    Threads = {t1, t2}
INVARIANTS
    PostCallbackThreadSafe
CHECK_DEADLOCK FALSE
