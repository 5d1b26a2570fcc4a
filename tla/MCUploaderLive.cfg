SPECIFICATION UploadSpec
CONSTANTS
    VK_FIXED_SIZE = 2
    G1_SIZE = 1
    MAX_PUBLIC_INPUTS = 1
    MAX_PERMITTED_DATA_INCREASE = 8
    U64_MAX = 20
    MAX_ACCOUNTS = 5
    PROOF_SIZE = 1
    MaxInstructions = 1
    System = System
    Program = Program
    Loader = Loader
    alice = alice
    bob = bob
    stageA = stageA
    stageB = stageB
    SecondInputs = 1
    Wallet <- MCWallet
    Derived <- MCDerived
    Cell <- MCCell
    Bump <- MCBump
    Sha256 <- MCSha256
    CreateProgramAddress <- MCCreateProgramAddress
    OnCurve <- MCOnCurve
    MinimumBalance <- MCMinimumBalance
    Instruction = {}
    SystemInstruction = {}
    Header = {}
    Funds <- MCFunds
    ValidateForPublish <- MCValidateForPublish
    VerifyProof <- MCVerifyProof
    MCClient = {"alice"}
    Meddling = FALSE
    Client <- MCClient
    AtOnce = {}
    Jobs <- MCJobs
    Foreign <- MCForeign
    Proofs <- MCProofs
CHECK_DEADLOCK FALSE
PROPERTIES
    AllPublished
    RentReturns
