SPECIFICATION CollectionSpec
CONSTANTS
    o1 = o1
    o2 = o2
    k1 = k1
    k2 = k2
    k3 = k3
    k4 = k4
    Object = {o1, o2}
    Nil = Nil
    Hints <- SmallHints
    DefaultSize = 2
    MaxCount = 5
    Key = {k1, k2, k3, k4}
    HashFunctions <- SmallHashes
    DefaultCapacity = 3
    MaxCapacity = 6
SYMMETRY CollectionSymmetry
INVARIANTS
    QueueTypeOK
    
    TableSound
PROPERTIES
    IsFifo
    IsMap
CHECK_DEADLOCK FALSE
