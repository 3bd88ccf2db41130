SPECIFICATION Spec
CONSTANTS
    W = 512
    Reg = {"x", "y", "z"}
    Programs <- BatchPrograms
    Inputs <- NineBits
    Tapes = {0, 1}
    RandomBit <- BatchTape
INVARIANTS
    TypeOK
    SeedsPaired
    PrngsPaired
    BatchConsumed
    Lockstep
    SharesConsistent
    AndIsPrivate
PROPERTIES
    ComputesCircuit
