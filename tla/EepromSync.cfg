\* Sections 1 and 2 are counted.
CONSTANTS
    Sections = {1, 2, 5}
    Counted = {1, 2}
    Apps = {ble}
    CntMod = 3
    Overlap = FALSE
    Torn = FALSE
    MaxWrites = 2
    MaxChanges = 1
    MaxFaults = 1
SPECIFICATION FairSpec
INVARIANT TypeOK
PROPERTIES WritesBack WriteLands CatchesUp
