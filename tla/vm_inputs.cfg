SPECIFICATION MachineSpec
CONSTANTS
    W = 4
    Reg = {"x", "y", "z"}
    CReg = {"c", "d"}
    Programs <- AddedInputs
    Inputs <- Blank
    Tapes = {0}
    RandomBit <- MixedTape
    PrivateInputs <- TwoInputs
    BatchSize = 2
INVARIANTS
    RevealsResult
