SPECIFICATION Spec
CONSTANTS
    VK_FIXED_SIZE = 4
    G1_SIZE = 1
    MAX_PUBLIC_INPUTS = 4
    FR_MODULUS = 2
    Block <- MCBlock
    G1 <- MCG1
    G2 <- MCG1
    Plus <- MCPlus
    Times <- MCTimes
    ProductIsOne <- MCProductIsOne
    Body <- MCBody
INVARIANTS
    ValidatedSoFar
    ValidationExact
    HalfTheCalls
PROPERTY
    Terminates
CHECK_DEADLOCK FALSE
