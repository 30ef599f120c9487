SPECIFICATION Spec
CONSTANTS
    k1 = k1
    k2 = k2
    chat = chat
    code = code
    jan = jan
    feb = feb
    sha = sha
    None = None
    lastRequest = 2
    lastDay = 3
    streamRoute = chat
    mode = "per_key"
    dailyLimit = 1
    monthlyLimit = 2
    StartDay = 1
    Records <- MCRecords
    Keys <- MCKeys
    Routes = {chat, code}
    Days <- MCDays
    Months <- MCMonths
    MonthOf <- MCMonthOf
    Usage <- MCUsage
    UUIDs = {u1, u2}
    RealKeys = {real1}
    Hashes <- MCHashes
    Hash <- MCHash
    Quota <- MCQuota
    Estimate <- MCEstimate
    Streaming <- MCStreaming
SYMMETRY Symmetry
INVARIANT TypeOK
INVARIANT ChargedWasServed
INVARIANT DenialJustified
INVARIANT OverrunOnlyByOverlap
