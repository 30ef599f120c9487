SPECIFICATION Spec
CONSTANTS
    k1 = k1
    k2 = k2
    route = route
    jan = jan
    feb = feb
    None = None
    StartDay = 1
    Records <- MCRecords
    Keys <- MCKeys
    Routes <- MCRoutes
    Days <- MCDays
    Months <- MCMonths
    MonthOf <- MCMonthOf
    Usage <- MCUsage
    QueueSize = 2
    MaxBoots = 0
    Unstamped = {}
INVARIANT GracefulShutdownLosesNothing
CHECK_DEADLOCK FALSE
