CONSTANTS
    Txs <- MCTxs
    InitialPools <- MCInitialPools
    Senders <- MCSenders
    ParentNonce <- MCParentNonce
    ParentBalance <- MCParentBalance
    GAS_LIMIT = 10
    TX_GAS_CAP = 6
    BASE_FEE = 1
    BLOB_PARAMS = 2
    MAX_RLP_BLOCK_SIZE = 1350
    WITHDRAWALS_LEN = 1
    BLOCK_OVERHEAD = 620
    Configs <- MCConfigs
    Sidecars = {"eip4844", "eip7594"}
    None = None
    MaxBuilds = 2
SPECIFICATION Spec
INVARIANTS TypeOK LimitsRespected PayloadReExecutes EnvelopeComplete NothingLeftOut
PROPERTIES BestImproves
CHECK_DEADLOCK FALSE
