SPECIFICATION FairSpec
CONSTANTS
    GENESIS_HASH = "genesis"
    CurveX = {"x1"}
    Hash160 <- MCHash160
    U64_MAX = 3
    NoSigner = "nobody"
    Calls = {c1, c2, c3}
    Params <- LiveParams
    OtherRaws <- LiveOtherRaws
    PERMITS = 2
    POOL_LIMIT = 1
    Senders <- MCSenders
PROPERTIES
    CallsReturn
    CapacityReturns
CHECK_DEADLOCK FALSE
