SPECIFICATION Spec
CONSTANTS
    VK_FIXED_SIZE = 28
    G1_SIZE = 4
    MAX_PUBLIC_INPUTS = 1
    Radix = 8
    Q_MODULUS = 11
    R_MODULUS = 13
    OnCurve <- MCOnCurve
    InSubgroup <- MCInSubgroup
    File <- MCFile
INVARIANTS
    FlagInThreeBits
