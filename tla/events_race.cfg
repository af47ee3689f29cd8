SPECIFICATION FairSpec
CONSTANTS
    e1 = e1
    e2 = e2
    e3 = e3
    n1 = n1
    n2 = n2
    s1 = s1
    Events <- TwoEvents
    Replicas <- MCReplicas
    Clients <- MCClients
    BufferSize = 1
    Faults = TRUE
INVARIANT TypeOK
INVARIANT OneOrdering
INVARIANT LossesAreKnown
PROPERTY LiveEventsArrive
