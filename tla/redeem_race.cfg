SPECIFICATION FairSpec
CONSTANTS
    c1 = c1
    a1 = a1
    a2 = a2
    op1 = op1
    r1 = r1
    r2 = r2
    NoCode = NoCode
    NoIP = NoIP
    NoOp = NoOp
    Codes <- OneCode
    IPs <- TwoIPs
    Operators <- MCOperators
    Bindings <- OneBinding
    Requests <- TwoRequests
    RateRedeemPerIPHour = 0
    RateRedeemPerCode = 1
    RateIssuePerOpHour = 2
    MaxTries = 3
    Faults = TRUE
INVARIANT OneDeploymentPerCode
INVARIANT RedeemedFromBinding
INVARIANT BurnedOnlyByFailure
INVARIANT IPGate
PROPERTY LockedStaysUnredeemed
PROPERTY ImplementsSingleUse
PROPERTY ConsumedIsDelivered
CHECK_DEADLOCK FALSE
