SPECIFICATION FairSpec
INVARIANTS CupsInv RestartRecovers TcCredSentOnce
PROPERTIES Settles
CONSTANTS
    Uris = {"u1", "u2"}
    Tokens = {"t1", "t2"}
    Certs = {"c1"}
    CupsCreds = {"k1"}
    ConfUri = "none"
    ConfCred = "conf"
    None = "none"
    MaxChanges = 2
    MaxFaults = 1
CHECK_DEADLOCK FALSE
