CONSTANTS
    n1 = n1
    n2 = n2
    n3 = n3
    g = g
    b1 = b1
    b2 = b2
    b3 = b3
    a1 = a1
    Nodes = {n1, n2, n3}
    NoNode = NoNode
    MaxConns = 3
    Blocks = {g, b1, b2, b3, a1}
    NoBlock = NoBlock
    ParentOf <- mcParentOf
    ChunkSize = 2
    Scenarios <- mcScenarios
SPECIFICATION Spec
CHECK_DEADLOCK FALSE

    
PROPERTIES
    NoGhostPeers
    
    ConversationsEnd
