SPECIFICATION Spec
INVARIANTS AnswerInRateOfUplink RelayAccepts ChannelsDistinct ItemsInTimeOrder DownlinkInv ScheduleIsAPrefix FramesEncode
CONSTANTS
    Configs <- SomeConfigs
    Radios <- SomeRadios
    Schedules <- SomeSchedules
    Word = 1000003
    Second = 1000000
    CountMod = 100000000
    Counts = {0, 96500000, 97999999, 99999999}
    Delays = {1, 15}
    GpsTimes <- SomeGpsTimes
CHECK_DEADLOCK FALSE
