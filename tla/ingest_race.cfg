SPECIFICATION Spec
CONSTANTS
    h1 = h1
    h2 = h2
    i1 = i1
    t1 = t1
    j1 = j1
    j2 = j2
    c1 = c1
    c2 = c2
    p1 = p1
    p2 = p2
    p3 = p3
    r1 = r1
    r2 = r2
    Shas <- TwoShas
    Files <- OneFile
    Images <- OneImage
    Linux <- OneImage
    Tags <- OneTag
    Captures <- TwoCaptures
    Target <- TheTargets
    Calls <- TwoCalls
    MaxOps = 2
    MaxFaults = 1
    Packs <- ThreePacks
    PackOf <- ThePacks
    Hardware <- TheHardware
    Unknown <- NoHardware
    Systems <- TheSystems
    Begins <- TheBeginnings
    Requests <- TwoRequests
    MaxChanges = 3
    PackSha <- ThePackShas
    Starts <- TheStarts
INVARIANT TypeOK
INVARIANT CaptureIsDeployable
INVARIANT DriversFollowPlan
SYMMETRY MCSymmetry
CHECK_DEADLOCK FALSE
