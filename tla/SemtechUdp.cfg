SPECIFICATION FairSpec
INVARIANTS SemtechInv InFlightIsCached RetriesFollowRejects OneIdentity
PROPERTIES RejectedIsRetried ServiceSpec
CHECK_DEADLOCK FALSE
CONSTANTS
    Frames = {"own", "plain", "sched"}
    DownlinkId <- Diids
    TokenMod = 4
    NumItems <- Windows
    Addrs = {"addr"}
    GatewayIds = {"gw1", "gw2"}
    ConfGatewayId = "unset"
    Unset = "unset"
    MaxItems = 3
    MaxPulls = 2
    MaxCopies = 2
