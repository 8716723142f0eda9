SPECIFICATION FairSpec
CONSTANTS
    SessionMod = 2
    PromptAbort = FALSE
    MaxAttempts = 2
    MaxConns = 2
    MaxUplinks = 2
    MaxDnmsgs = 1
    MaxMux = 1
PROPERTIES KeepsTrying LateSpec
CHECK_DEADLOCK FALSE
