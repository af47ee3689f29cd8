SPECIFICATION FairSpec
CONSTANTS
    m1 = m1
    p1 = p1
    p2 = p2
    t1 = t1
    t2 = t2
    r1 = r1
    r2 = r2
    NoProfile = NoProfile
    MaxJobs = 1
    Machines <- MCMachines
    Profiles <- OneProfile
    DefaultProfile <- MCDefaultProfile
    MenuOpen = FALSE
    Tokens <- MCTokens
    Requests <- TwoRequests
    Kinds = {"phone", "cancel", "render", "redeem"}
    Faults = TRUE
PROPERTY CompletionUnlessContended
