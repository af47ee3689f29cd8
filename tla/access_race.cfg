SPECIFICATION Spec
CONSTANTS
    u1 = u1
    u2 = u2
    s1 = s1
    s2 = s2
    e1 = e1
    e2 = e2
    t1 = t1
    r1 = r1
    r2 = r2
    Users <- TwoUsers
    Subjects <- TwoSubjects
    Emails <- TwoEmails
    Tokens <- OneToken
    Requests <- TwoRequests
    MaxCalls = 5
PROPERTY RoleChangesByAdmins
PROPERTY LastAdminNeedsRace
PROPERTY TokenScopeWasHeld
SYMMETRY MCSymmetry
CHECK_DEADLOCK FALSE
