SPECIFICATION FairStartup
CONSTANTS
    p1 = p1
    p2 = p2
    p3 = p3
    Last = 2
    Repeatable <- TheRepeatable
    Procs <- ThreeProcs
    Command <- TheCommands
    MaxFaults = 1
INVARIANT ServesOnlyReady
PROPERTY ComesUp
CHECK_DEADLOCK FALSE
