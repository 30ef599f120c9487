SPECIFICATION Spec
CONSTANTS
    k1 = k1
    k2 = k2
    chat = chat
    code = code
    jan = jan
    feb = feb
    sha = sha
    None = None
    lastRequest = 3
    lastDay = 1
    streamRoute = chat
    mode = "shared"
    dailyLimit = 3
    monthlyLimit = 4
    StartDay = 1
    Records <- MCRecords
    Keys <- MCKeys
    Routes = {chat}
    Days <- MCDays
    Months <- MCMonths
    MonthOf <- MCMonthOf
    Usage <- MCUsage
    UUIDs = {u1, u2}
    RealKeys = {real1, real2}
    Hashes <- MCHashes
    Hash <- MCHash
    Quota <- MCQuota
    Estimate <- MCEstimate
    Streaming <- MCStreaming
SYMMETRY Symmetry
INVARIANT OverrunOnlyByOverlap
