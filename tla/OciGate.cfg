SPECIFICATION GateSpec
CONSTANTS
    BlockSize = 2
    Platforms = {"amd64", "arm64"}
    MaxNesting = 1
    Allowlist <- MCAllowlist
    Inputs <- MCInputs
    Archives <- MCArchives
CHECK_DEADLOCK FALSE
INVARIANTS
    ShippedIntact
    ShippedClean
    CleanPasses
    ReadsBack
    
