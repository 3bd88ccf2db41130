SPECIFICATION MachineSpec
CONSTANTS
    W = 64
    Reg = {"x", "y", "z"}
    CReg = {"c", "d"}
    Programs <- MachinePrograms
    Inputs <- Blank
    Tapes = {0, 1}
    RandomBit <- SampledTape
    PrivateInputs <- SampledInputs
    BatchSize = 2
INVARIANTS
    MachineTypeOK
    Barriers
    MachineSharesConsistent
    OpeningsAgree
    RandomBitsReplicated
    InputsPrivate
PROPERTIES
    ComputesProgram
