SPECIFICATION MachineSpec
CONSTANTS
    W = 4
    Reg = {"x", "y", "z"}
    CReg = {"c", "d"}
    Programs <- RevealedBit
    Inputs <- Blank
    Tapes = {0, 1, 2, 3}
    RandomBit <- MixedTape
    PrivateInputs <- NoInputs
    BatchSize = 2
INVARIANTS
    OpeningsAgree
