CONSTANTS
    h1 = h1
    h2 = h2
    h3 = h3
    Seed = 5
    OtherSeed = 6
    Game = "game code"
    Spend = "spend code"
    Accounts <- mcAccounts
    Keys = {"k"}
    Requests = {"r1"}
    WordBits = 6
    MaxStackItems = 3
    SelfAddress = "self"
    AddressWord <- mcAddressWord
    Sha256 <- mcSha256
    Wallets <- mcWallets
    Contracts = {"game"}
    Nobody = "nobody"
    ProgramOf <- mcProgramOf
    MetadataOf <- mcMetadataOf
    NoCode = "no code"
    ContractAddress <- mcContractAddress
    CommitWord <- mcCommitWord
    MiningReward = 300
    Precision = 10000
    MaxBlockTransactions = 4
    Hashes = {h1, h2, h3, h4}
    NoHash = NoHash
    NoBlock = NoBlock
    Miners = {"alice"}
    Transactions <- mcTransactionsSpend
    PeerBodies <- mcPeerBodies
    MaxHeight = 5
    MaxPending = 3
    DifficultyBits = 0
    GenesisDifficultyBits = 0
    DifficultyGrowthFactor = 10
    DifficultyGrowthStartHeight = 100
    DifficultyGrowthBits = 1
    ScheduleActivationHeight = 0
SPECIFICATION FundedSpec
CHECK_DEADLOCK FALSE
SYMMETRY Symmetry
INVARIANTS
    CandidateIsValid
