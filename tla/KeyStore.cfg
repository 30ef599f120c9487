SPECIFICATION Spec
CONSTANTS
    None = None
    NoRoute = NoRoute
    Blank = Blank
    sha = sha
    c1 = c1
    c2 = c2
    c3 = c3
    c4 = c4
    u1 = u1
    u2 = u2
    u3 = u3
    i1 = i1
    i2 = i2
    i3 = i3
    chat = chat
    embed = embed
    r1 = r1
    r2 = r2
    Calls <- MCCalls
    Routes = {chat, embed}
    RealKeys = {r1, r2}
    UUIDs <- MCUUIDs
    InternalKeys <- MCInternalKeys
    Hashes <- MCHashes
    Hash <- MCHash
    Script <- MCScript
    MaxRestarts = 1
SYMMETRY Symmetry
INVARIANT IndexAgreement
INVARIANT NoDuplicateCredential
INVARIANT RevokedStaysRevoked
CHECK_DEADLOCK FALSE
