SPECIFICATION Spec
CONSTANTS
    s1 = s1
    None = None
    DayLength = 3
    DaysPerWeek = 2
    LeadMinutes = 1
    DaysAhead = 1
    Schedules <- TwoSchedules
    Sessions <- OneSession
    Migrated = FALSE
CHECK_DEADLOCK FALSE
INVARIANTS SweptIsCurrent TimesShownAreReal ToggleHolds
PROPERTIES DeletedNotReopened
