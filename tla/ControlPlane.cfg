SPECIFICATION FairSpec
CONSTANTS
    None = None
    NoRoute = NoRoute
    Blank = Blank
    sha = sha
    c1 = c1
    c2 = c2
    c3 = c3
    u1 = u1
    u2 = u2
    chat = chat
    r1 = r1
    Calls <- MCCalls
    Routes = {chat}
    RealKeys = {r1}
    UUIDs = {u1, u2}
    InternalKeys = {i1, i2}
    Hashes <- MCHashes
    Hash <- MCHash
    Script <- MCScript
    MaxRestarts = 1
INVARIANT ShownKeyWorks
INVARIANT DeletedForGood
INVARIANT RetryMakesNoSecondKey
INVARIANT DebugReplyExplained
PROPERTY EveryCommandEnds
PROPERTY ShutdownCompletes
CHECK_DEADLOCK FALSE
