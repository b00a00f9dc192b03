SPECIFICATION Spec
CONSTANTS
    p1 = p1
    p2 = p2
    s1 = s1
    s2 = s2
    None = None
    Payees <- TwoPayees
    Sessions <- TwoSessions
    Minimum = 1
    MaxEarned = 2
    MaxPayouts = 3
SYMMETRY SessionSymmetry
CHECK_DEADLOCK FALSE
PROPERTIES KeepsLedger
