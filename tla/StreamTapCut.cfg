SPECIFICATION Spec
CONSTANTS
    None = None
    MaxPieces = 4
    BufferSize = 2
    Pieces <- MCPieces
    Configs <- MCConfigs
INVARIANT ParsesUntilEOF
