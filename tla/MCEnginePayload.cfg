SPECIFICATION Spec
CONSTANTS
    None = None
    BaseFees = {3, 4, 5}
    U64_MAX = 4
    Excess = {0, 1}
    NEXT_BASE_FEE = 4
    NEXT_EXCESS = 0
INVARIANTS
    SameExecution
    OwnPayloadAccepted
CHECK_DEADLOCK FALSE
