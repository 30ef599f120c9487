SPECIFICATION FairSpec
CONSTANTS
    None = None
    MaxPieces = 4
    BufferSize = 2
    Pieces <- MCPieces
    Configs <- MCConfigs
INVARIANT TypeOK
INVARIANT MeteredAsReference
INVARIANT DeliveredIsMetered
INVARIANT CutOnlyAtOverlongLine
PROPERTY EveryStreamCharged
PROPERTY TeeNeverStuck
CHECK_DEADLOCK FALSE
