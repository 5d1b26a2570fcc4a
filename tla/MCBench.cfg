SPECIFICATION Spec
CONSTANTS
    VK_FIXED_SIZE = 4
    G1_SIZE = 1
    MAX_PUBLIC_INPUTS = 2
    FR_MODULUS = 3
    Block <- MCBlock
    G1 <- MCG1
    G2 <- MCG1
    Plus <- MCPlus
    Times <- MCTimes
    ProductIsOne <- MCProductIsOne
    Workload <- MCWorkload
INVARIANTS
    WorkloadKept
    StagesAddUp
    StagesAgree
CHECK_DEADLOCK FALSE
