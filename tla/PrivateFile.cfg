CONSTANTS
    Accounts <- mcAccounts
    Keys = {}
    Requests = {"r"}
    WordBits = 1
    MaxStackItems = 1
    SelfAddress = "self"
    AddressWord <- mcAddressWord
    Sha256 <- mcSha256
    Wallets <- mcAccounts
    Contracts = {}
    Nobody = "nobody"
    ProgramOf <- mcNothing
    MetadataOf <- mcNothing
    NoCode = "no code"
    ContractAddress <- mcNothing
    CommitWord <- mcCommitWord
    MiningReward = 2
    Precision = 10000
    MaxBlockTransactions = 3
    Hashes <- mcHashes
    NoHash = NoHash
    NoBlock = NoBlock
    Miners = {"alice"}
    Transactions <- mcTransactions
    PeerBodies <- mcPeerBodies
    MaxHeight = 2
    MaxPending = 2
    DifficultyBits = 1
    GenesisDifficultyBits = 0
    DifficultyGrowthFactor = 2
    DifficultyGrowthStartHeight = 8
    DifficultyGrowthBits = 1
    ScheduleActivationHeight = 0
    g = g
    p1 = p1
    p2 = p2
    q1 = q1
    x3 = x3
    r2 = r2
    m1 = m1
    m2 = m2
    GenesisHash = g
    PeerBlocks <- mcPeerBlocks
    Chunks <- mcChunks
    Wallet = "alice"
    PersistInterval = 2
    MaxRestarts <- mcPrivateRestarts
SPECIFICATION NodeSpec
CHECK_DEADLOCK FALSE
INVARIANTS
    FileLoads
