CONSTANTS
    ImageParts = 3
    Others = {ssid}
    OtherParts = 1
    MaxWrites = 4
    MaxFaults = 1
SPECIFICATION Spec
INVARIANTS TypeOK ImageIsWhole ImageIsNewestUncut
