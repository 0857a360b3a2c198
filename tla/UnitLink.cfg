\* One tick is one second: 1 s, 5 s, 4 s and 15 s are the code's periods.
CONSTANTS
    PollOn = 1
    PollOff = 5
    DebugPeriod = 4
    Timeout = 15
    ReplyWithin = 2
    MaxStall = 1
    MaxFaults = 1
SPECIFICATION FairSpec
INVARIANTS TypeOK InTurns ReadyMeansImageRead
PROPERTIES VerdictFinal HandshakeEnds SearchGoesOn CleanLineConnects
