SPECIFICATION FairSpec
CONSTANTS
    k1 = k1
    k2 = k2
    route = route
    jan = jan
    feb = feb
    None = None
    StartDay = 1
    Records <- MCRecords
    Keys <- MCKeys
    Routes <- MCRoutes
    Days <- MCDays
    Months <- MCMonths
    MonthOf <- MCMonthOf
    Usage <- MCUsage
    QueueSize = 2
    MaxBoots = 1
    Unstamped = {2}
INVARIANT TypeOK
INVARIANT CachesMatchLog
INVARIANT EveryRecordAccounted
INVARIANT ChargedInOrder
INVARIANT DroppedCountExact
INVARIANT StopDrains
PROPERTY ImplementsLedger
PROPERTY AcceptedSettles
PROPERTY StopReturns
CHECK_DEADLOCK FALSE
