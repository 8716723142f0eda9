SPECIFICATION Spec
CONSTANTS
    SessionMod = 2
    PromptAbort = TRUE
    MaxAttempts = 2
    MaxConns = 2
    MaxUplinks = 3
    MaxDnmsgs = 1
    MaxMux = 2
INVARIANTS StampedWithSession StampedWithConfig SessionInv RefTimesIncrease
PROPERTIES PipeSpec
CHECK_DEADLOCK FALSE
