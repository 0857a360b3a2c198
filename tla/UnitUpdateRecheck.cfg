CONSTANTS
    Tasks = {t1}
    LastVersion = 3
    Chunks = 4
    MaxChecks = 2
    MaxResets = 0
    MaxFaults = 0
SPECIFICATION Spec
INVARIANTS SentIsServed
CHECK_DEADLOCK FALSE
