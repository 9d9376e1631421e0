SPECIFICATION Spec
CONSTANTS
    GENESIS_HASH = "genesis"
    CurveX = {"x1"}
    Hash160 <- MCHash160
    U64_MAX = 3
    NoSigner = "nobody"
    Calls = {c1, c2, c3}
    Params <- MCParams
    OtherRaws <- MCOtherRaws
    PERMITS = 2
    POOL_LIMIT = 1
    Senders <- MCSenders
SYMMETRY Symmetry
INVARIANTS
    TypeOK
    PermitsAccounted
    BoundedOvershoot
    PoolAuthorized
    AnswerIsTrue
CHECK_DEADLOCK FALSE
