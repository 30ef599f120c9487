SPECIFICATION FairSpec
CONSTANTS
    k1 = k1
    k2 = k2
    chat = chat
    code = code
    jan = jan
    feb = feb
    sha = sha
    None = None
    lastRequest = 2
    lastDay = 2
    streamRoute = code
    mode = "per_key"
    dailyLimit = 0
    monthlyLimit = 2
    StartDay = 1
    Records <- MCRecords
    Keys <- MCKeys
    Routes = {chat, code}
    Days <- MCDays
    Months <- MCMonths
    MonthOf <- MCMonthOf
    Usage <- MCUsage
    UUIDs = {u1, u2}
    RealKeys = {real1}
    Hashes <- MCHashes
    Hash <- MCHash
    Quota <- MCQuota
    Estimate <- MCEstimate
    Streaming <- MCStreaming
PROPERTY ServedIsSettled
