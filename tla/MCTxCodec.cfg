SPECIFICATION Spec
CONSTANTS
    GENESIS_HASH = "genesis"
    CurveX = {"x1"}
    Hash160 <- MCHash160
    U64_MAX = 7
    NoSigner = "nobody"
    RawInputs <- MCRawInputs
    RpcInputs <- MCRpcInputs
    MaxAccepted = 2
INVARIANTS
    IdentityKept
    NothingLost
    OneEncoding
    HonestAccepted
    HeldIsCanonical
