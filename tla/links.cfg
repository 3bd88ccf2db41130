SPECIFICATION LinksSpec
CONSTANTS
    Node = {0, 1, 2}
    Scripts <- ProtocolScripts
    Capacity = 3
    LENGTH_SIZE = 1
INVARIANTS
    LinksTypeOK
    OneThreadPerSocket
    LargeBatchesStall
PROPERTIES
    
    Completes
CHECK_DEADLOCK FALSE
