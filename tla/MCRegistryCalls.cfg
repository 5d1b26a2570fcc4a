SPECIFICATION Spec
CONSTANTS
    VK_FIXED_SIZE = 1
    G1_SIZE = 1
    MAX_PUBLIC_INPUTS = 1
    MAX_PERMITTED_DATA_INCREASE = 7
    U64_MAX = 20
    MAX_ACCOUNTS = 5
    PROOF_SIZE = 1
    MaxInstructions = 1
    System = System
    Program = Program
    Loader = Loader
    alice = alice
    bob = bob
    stage = stage
    Wallet <- MCWallet
    Derived <- MCDerived
    Cell <- MCCell
    Bump <- MCBump
    Sha256 <- MCSha256
    CreateProgramAddress <- MCCreateProgramAddress
    OnCurve <- MCOnCurve
    MinimumBalance <- MCMinimumBalance
    Instruction <- MCInstruction
    SystemInstruction <- MCSystemInstruction
    Header <- MCHeader
    Funds <- MCFunds
    ValidateForPublish <- MCValidateForPublish
    VerifyProof <- MCVerifyProof
    Sizes = {0, 1}
    Readonly = {alice, stage}
    Signatures = {{alice}, {alice, stage}, {bob, stage}, {alice, bob}}
    Donation = {1}
INVARIANTS
    AuthorityCanReclaim
    PublishNeverBlocked
    AlreadyPublishedMeansAvailable
    ChecksComplete
