CONSTANTS
    Settings <- mcDialOnly
    MaxBlocks = 3
    MaxPeerBlocks = 1
    MaxStarts = 1
    MaxDials = 1
SPECIFICATION Spec
CHECK_DEADLOCK FALSE
PROPERTIES
    PeersMeetAVerifiedChain
