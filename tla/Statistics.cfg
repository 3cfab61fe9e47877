SPECIFICATION Spec
CONSTANTS
    TicksPerHour = 2
    HoursPerDay = 2
    RetentionDays = 1
    Start = 4
    MaxTicks = 10
    MaxRequests = 2
    MaxFailures = 1
    MaxCrashes = 1
    SelectMayFail = FALSE
    MaxLag = 2
INVARIANTS TypeOK HoursCounted DaysFromHours PercentilesRight
PROPERTIES AggregatesFinal HoursSettle
CHECK_DEADLOCK FALSE
