SPECIFICATION Spec
CONSTANTS
    GENESIS_HASH = "genesis"
    CurveX = {"x1"}
    Hash160 <- MCHash160
    U64_MAX = 3
    NoSigner = "nobody"
    Accounts <- MCAccounts
    Recorder = "recorder"
    Reverter = "reverter"
    Beneficiary = "coinbase"
    CALL_GAS = 5000
    GenesisBalance <- MCBalance
    Blocks <- MCBlocks
    ChainSpecs = {"genesis", "other"}
    BLOCK_GAS = 60000
    MaxHeight = 3
INVARIANTS
    TypeOK
    AuthorizedHistory
    AuthorizedSpeculation
    NoPanic
    NonceDiscipline
    StorageFaithful
    ForeignGenesisFrozen
    ReplayEquivalence
PROPERTIES
    OnlySignersPay
    ImplementsLedger
