CONSTANTS
    PollOn = 1
    PollOff = 5
    DebugPeriod = 4
    Timeout = 15
    ReplyWithin = 1
    MaxStall = 1
    MaxFaults = 0
SPECIFICATION FairSpec
PROPERTY DeadUnitIsNoticed
