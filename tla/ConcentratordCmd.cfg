SPECIFICATION FairSpec
INVARIANTS CmdInv ReplyMatches FailsAfterFaults NewestInForce
PROPERTIES ServiceSpec
CONSTANTS
    MaxAttempts = 3
    MaxCmds = 2
    MaxBroken = 2
    Configs = {1, 2}
    MaxRestarts = 1
CHECK_DEADLOCK FALSE
