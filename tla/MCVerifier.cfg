SPECIFICATION Spec
CONSTANTS
    VK_FIXED_SIZE = 4
    G1_SIZE = 1
    MAX_PUBLIC_INPUTS = 2
    FR_MODULUS = 3
    Order = 3
    None = None
    Block <- MCBlock
    G1 <- MCG1
    G2 <- MCG1
    Plus <- MCPlus
    Times <- MCTimes
    ProductIsOne <- MCProductIsOne
    Body <- MCBody
    Payload <- MCPayload
INVARIANTS
    VerifyInv
    VerdictCorrect
    VerdictDecided
    InvalidPointMeansProof
    ChecksBeforeSyscalls
    MsmCost
PROPERTIES
    ImplementsGroth16
CHECK_DEADLOCK FALSE
