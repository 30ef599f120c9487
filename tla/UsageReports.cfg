SPECIFICATION Spec
CONSTANTS
    k1 = k1
    k2 = k2
    route = route
    None = None
    Unset = Unset
    Malformed = Malformed
    Records <- MCRecords
    Keys <- MCKeys
    Routes <- MCRoutes
    Days <- MCDays
    Months <- MCMonths
    MonthOf <- MCMonthOf
    Usage <- MCUsage
    YearOf <- MCYearOf
    StartDay = 2
    Stamps <- MCStamps
    DefaultCount = 2
    MaxCount = 2
    Calls = {c1, c2}
    Asked <- MCAsked
    Sent <- MCSent
SYMMETRY Symmetry
INVARIANT ReportIsAudit
INVARIANT LaterReportShowsMore
INVARIANT TodayIsComplete
CHECK_DEADLOCK FALSE
