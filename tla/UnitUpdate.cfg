CONSTANTS
    Tasks = {t1, t2}
    LastVersion = 2
    Chunks = 4
    MaxChecks = 3
    MaxResets = 2
    MaxFaults = 2
SPECIFICATION FairSpec
INVARIANTS TypeOK NoUpdateInBootloader StoredIsServed CheckStores
PROPERTY UnitIsServed
CONSTRAINT Explored
CHECK_DEADLOCK FALSE
