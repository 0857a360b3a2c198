SPECIFICATION FairSpec
CONSTANTS
    b1 = b1
    b2 = b2
    s1 = s1
    Brokers = {b1, b2}
    Home = b1
    Serials = {s1}
    FailThreshold = 3
    MaxNews = 1
    MaxSerials = 1
    MaxFaults = 1
INVARIANTS TypeOK SelectedIsStored FlagIsTrue TopicsFollowSerial AcknowledgedIsReady
PROPERTY ReachesAnnounced
