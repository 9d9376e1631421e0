SPECIFICATION FairNodeSpec
CONSTANTS
    GENESIS_HASH = "genesis"
    CurveX = {"x1"}
    Hash160 <- MCHash160
    U64_MAX = 3
    NoSigner = "nobody"
    Accounts <- MCAccounts
    Recorder = "recorder"
    Reverter = "reverter"
    Beneficiary = "coinbase"
    CALL_GAS = 5000
    GenesisBalance <- MCBalance
    Blocks <- MCBlocks
    ChainSpecs = {"genesis"}
    BLOCK_GAS = 50000
    MaxHeight = 4
    ClientRaws = {}
    OtherRaws <- LiveOtherRaws
    LogsOf <- MCLogsOf
    BASE_FEE = 1
    POLLS = 1
PROPERTIES
    Included
