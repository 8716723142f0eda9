SPECIFICATION FairSpec
PROPERTIES SettlesThoughUnsaved
CONSTANTS
    Uris = {"u1"}
    Tokens = {"t1", "t2"}
    Certs = {}
    CupsCreds = {"k1"}
    ConfUri = "none"
    ConfCred = "conf"
    None = "none"
    MaxChanges = 2
    MaxFaults = 1
CHECK_DEADLOCK FALSE
