SPECIFICATION Spec
CONSTANTS
    GENESIS_HASH = "genesis"
    CurveX = {"x1"}
    Hash160 <- MCHash160
    U64_MAX = 3
    NoSigner = "nobody"
    Txs <- MCTxs
    Sidecars <- MCSidecars
    Signers <- MCSigners
    disable_blobs_support = FALSE
    blobpool_max_count = 2
    ETH_LEN = 110
    MaxHeight = 2
INVARIANTS
    TypeOK
    BlobsAtHand
    ServedAsAnnounced
    NothingForgotten
