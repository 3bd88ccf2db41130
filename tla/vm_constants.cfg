SPECIFICATION MachineSpec
CONSTANTS
    W = 4
    Reg = {"x", "y", "z"}
    CReg = {"c", "d"}
    Programs <- RevealedConstant
    Inputs <- Blank
    Tapes = {0}
    RandomBit <- MixedTape
    PrivateInputs <- NoInputs
    BatchSize = 2
INVARIANTS
    RevealsResult
