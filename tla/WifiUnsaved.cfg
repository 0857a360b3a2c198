SPECIFICATION Spec
CONSTANTS
    n1 = n1
    n2 = n2
    Networks = {n1, n2}
    Home = n1
    MaxLength = 1
    QueueLen = 1
    MaxRetry = 2
    MaxWrites = 2
    MaxFaults = 0
INVARIANT ProvisionedIsSaved
