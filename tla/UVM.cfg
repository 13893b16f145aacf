CONSTANTS
    Accounts <- mcAccounts
    Keys = {"k", "owner"}
    Requests = {"r1"}
    WordBits = 3
    MaxStackItems = 3
    SelfAddress = "self"
    AddressWord <- mcAddressWord
    Sha256 <- mcSha256
    Calls <- mcCalls
SPECIFICATION Spec
CHECK_DEADLOCK FALSE
INVARIANTS
    ChangesConserveCoins
    WordArithmeticWraps
    NftMovesOnlyByItsOwner
    NftTransferSucceeds
PROPERTIES
    Terminates
