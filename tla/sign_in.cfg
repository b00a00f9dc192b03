SPECIFICATION Spec
CONSTANTS
    None = None
    mail = mail
    phone = phone
    tablet = tablet
    google = google
    s1 = s1
    s2 = s2
    Identifiers <- OneIdentifier
    Devices <- TwoDevices
    Subjects <- OneSubject
    GoogleEmail <- SameEmail
    Sessions <- TwoSessions
    Scenarios <- SomeScenarios
    MaxAttempts = 1
    MaxFailed = 1
    MaxAccounts = 2
    MaxCodes = 2
    MaxTokens = 3
    MaxTickets = 2
CHECK_DEADLOCK FALSE
INVARIANTS
    GoodOnce
    SessionsEndInTurn
    DeletedIsBlank
    NobodyEntersUnproved
