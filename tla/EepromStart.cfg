CONSTANTS
    Sections = {1, 5}
    Counted = {1}
    Apps = {ble}
    CntMod = 3
    Overlap = TRUE
    Torn = TRUE
    MaxWrites = 1
    MaxChanges = 2
    MaxFaults = 1
SPECIFICATION SpecStart
INVARIANTS StaleIsKnownOnceUp NotBlanked
CHECK_DEADLOCK FALSE
