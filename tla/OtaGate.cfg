CONSTANTS
    LastVersion = 3
    MaxRetry = 3
    MaxLosses = 2
    MaxPublished = 3
SPECIFICATION FairSpec
INVARIANTS TypeOK GivesUp SkipEarned
PROPERTY RolloutEnds
