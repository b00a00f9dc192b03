SPECIFICATION FairSpec
CONSTANTS
    u1 = u1
    k1 = k1
    l1 = l1
    l2 = l2
    s1 = s1
    s2 = s2
    None = None
    Users <- OneUser
    Keys <- OneKey
    Owner <- OneOwner
    Lines <- TwoLines
    Eater <- OneEater
    Fickle <- OneLine
    Sessions <- TwoSessions
    Keyless = FALSE
    UsageLimit = 1
    PerUserLimit = 1
    BudgetCap = 1
    MaxExpiries = 1
CHECK_DEADLOCK FALSE
INVARIANTS OneOrderPerKey OrderedLeavesTheCart
PROPERTIES AnswersAreTrue RequestsEnd
