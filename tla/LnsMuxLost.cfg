SPECIFICATION Spec
CONSTANTS
    SessionMod = 2
    PromptAbort = TRUE
    MaxAttempts = 1
    MaxConns = 1
    MaxUplinks = 1
    MaxDnmsgs = 0
    MaxMux = 2
PROPERTIES ClearsTheMuxTimeUsed
CHECK_DEADLOCK FALSE
