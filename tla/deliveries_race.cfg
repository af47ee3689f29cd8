SPECIFICATION FairDeliveries
CONSTANTS
    m1 = m1
    m2 = m2
    w1 = w1
    w2 = w2
    a1 = a1
    a2 = a2
    j1 = j1
    j2 = j2
    k1 = k1
    k2 = k2
    lower1 = lower1
    upper1 = upper1
    lower2 = lower2
    Machines <- TwoMachines
    NoMAC <- TheNoMAC
    Wakes <- TwoWakes
    Sites <- TwoSites
    Agents <- TwoAgents
    AgentSite <- TheSites
    WakeLimit = 1
    Jobs <- TwoJobs
    Workers <- TwoWorkers
    NotifyLimit = 1
    Spellings <- TheSpellings
    Parse <- TheParse
    Lists <- TheLists
    Starts <- TheStarts
    BulkMax = 2
    MaxHours = 1
    MaxFaults = 1
INVARIANT AtMostOnce
INVARIANT BulkTellsAll
PROPERTY DeliveredOrLost
CHECK_DEADLOCK FALSE
