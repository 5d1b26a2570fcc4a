SPECIFICATION Spec
CONSTANTS
    VK_FIXED_SIZE = 448
    G1_SIZE = 64
    MAX_PUBLIC_INPUTS = 151
    BodySizes <- MCBodySizes
INVARIANTS
    DocumentedBodySize
