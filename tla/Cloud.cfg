CONSTANTS
    Settings <- mcSettings
    MaxBlocks = 4
    MaxPeerBlocks = 1
    MaxStarts = 1
    MaxDials = 1
SPECIFICATION Spec
CHECK_DEADLOCK FALSE
INVARIANTS
    SentBlocksAreSound
    UncountedChainIsSound
    ShutdownKeepsTheChain
    StopLosesAtMostABatch
PROPERTIES
    StopEndsAutomine
