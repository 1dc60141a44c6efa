SPECIFICATION Spec
CONSTANTS
    NumberOfProcessors = 3
    Timeouts = {0, 1}
    MaxCalls = 3
    CallWhilePending = FALSE
    DisableBusy = FALSE
    SlowStart = FALSE
    KillInLock = FALSE
INVARIANTS TypeOK AllAccounted IdleIsHalted
PROPERTIES CallsEnd
