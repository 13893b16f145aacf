CONSTANTS
    Accounts <- mcAccounts
    Keys = {}
    Requests = {}
    WordBits = 1
    MaxStackItems = 1
    SelfAddress = "self"
    AddressWord <- mcAddressWord
    Sha256 <- mcSha256
    Wallets <- mcAccounts
    Contracts = {}
    Nobody = "nobody"
    ProgramOf <- mcNothing
    MetadataOf <- mcNothing
    NoCode = "no code"
    ContractAddress <- mcNothing
    CommitWord <- mcNothing
    MiningReward = 2
    Precision = 10000
    MaxBlockTransactions = 3
    Hashes = {h1, h2, h3, h4, h5}
    NoHash = NoHash
    NoBlock = NoBlock
    Miners = {"alice"}
    Transactions <- mcTransactions
    PeerBodies <- mcPeerBodies
    MaxHeight = 3
    MaxPending = 2
    DifficultyBits = 1
    GenesisDifficultyBits = 0
    DifficultyGrowthFactor = 2
    DifficultyGrowthStartHeight = 2
    DifficultyGrowthBits = 1
    ScheduleActivationHeight = 0
SPECIFICATION Spec
CHECK_DEADLOCK FALSE
SYMMETRY Symmetry
INVARIANTS
    NoTransactionTwice
    PoolApplies
    CandidateIsValid
    SelectionIsMaximal
    VerifyAgrees
PROPERTIES
    ImplementsLongestChain
    ReorgKeepsTransactions
