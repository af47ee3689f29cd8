SPECIFICATION Spec
CONSTANTS
    i1 = i1
    i2 = i2
    p1 = p1
    p2 = p2
    m1 = m1
    b1 = b1
    s1 = s1
    Images <- TwoImages
    Profiles <- TwoProfiles
    Machines <- OneMachine
    Sites <- OneSite
    Starts <- MCStarts
    Boots <- OneBoot
    MaxDeployments = 2
    MaxEdits = 1
    Faults = FALSE
INVARIANT CaptureNeverRestores
CHECK_DEADLOCK FALSE
