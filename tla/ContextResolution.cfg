SPECIFICATION Spec
CONSTANTS
    Sec = 2
    CountMod = 11
    Flag = 64
    SessionMod = 2
    TTL = 4
    SweepPeriod = 2
    MaxWindow = 3
    Offsets = {0, 1, 3}
    RxDelays = {1, 2, 4}
    Bases = {0, 8}
    MaxTime = 7
    MaxUplinks = 2
INVARIANTS DirectOnTime RightRelay CacheInv SyntheticKeysDistinct
CHECK_DEADLOCK FALSE
