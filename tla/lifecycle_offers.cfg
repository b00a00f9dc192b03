SPECIFICATION FairSpec
CONSTANTS
    o1 = o1
    o2 = o2
    r1 = r1
    r2 = r2
    s1 = s1
    s2 = s2
    None = None
    Orders <- TwoOrders
    Riders <- TwoRiders
    Sessions <- TwoSessions
    CashOrders <- OneOrder
    Scheduled <- NoOrders
    Requests <- OfferHandlers
    Overlapping = TRUE
    MaxJobs = 1
    MaxAttempts = 1
    MaxIssues = 1
CHECK_DEADLOCK FALSE
INVARIANTS JobsWithinCap
PROPERTIES UnansweredIsDecided
