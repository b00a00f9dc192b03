SPECIFICATION Spec
CONSTANTS
    o1 = o1
    o2 = o2
    r1 = r1
    r2 = r2
    s1 = s1
    s2 = s2
    None = None
    Orders <- TwoOrders
    Riders <- OneRider
    Sessions <- TwoSessions
    CashOrders <- OneOrder
    Scheduled <- SecondOrder
    Requests <- SerialHandlers
    Overlapping = FALSE
    MaxJobs = 1
    MaxAttempts = 1
    MaxIssues = 1
CHECK_DEADLOCK FALSE
INVARIANTS HistoryIsTrue BoardsAgree
PROPERTIES KeepsContract
