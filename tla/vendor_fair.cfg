SPECIFICATION FairSpec
CONSTANTS
    j1 = j1
    j2 = j2
    k1 = k1
    k2 = k2
    n1 = n1
    n2 = n2
    Jobs <- TwoJobs
    Entries <- OneEntry
    Replicas <- TwoReplicas
    MaxFaults = 1
INVARIANT TypeOK
INVARIANT PackWasVerified
INVARIANT CompletedHasPack
PROPERTY OutcomeStands
PROPERTY EveryFetchEnds
CHECK_DEADLOCK FALSE
