SPECIFICATION Spec
CONSTANTS
    o1 = o1
    o2 = o2
    r1 = r1
    r2 = r2
    s1 = s1
    s2 = s2
    None = None
    Orders <- OneOrder
    Riders <- TwoRiders
    Sessions <- TwoSessions
    CashOrders <- OneOrder
    Scheduled <- NoOrders
    Requests <- AllHandlers
    Overlapping = TRUE
    MaxJobs = 1
    MaxAttempts = 1
    MaxIssues = 2
SYMMETRY RaceSymmetry
CHECK_DEADLOCK FALSE
PROPERTIES CustomerCancelsOnlyPending
