SPECIFICATION Spec
CONSTANTS
    W = 64
    Reg = {"x", "y"}
    Programs <- FiveProgram
    Inputs <- FiveInputs
    Tapes = {0}
    RandomBit <- MixedTape
INVARIANTS
    ExecutesInParallel
