SPECIFICATION Spec
CONSTANTS
    byteMover = byteMover
    metadata = metadata
    i1 = i1
    i2 = i2
    Class = {byteMover}
    IDs = {i1, i2}
    Admitters = {a1}
    Slots <- OneSlot
    QueueDepth = 1
    RetainCount = 0
    RetainTicks = 1
    MaxSeq = 2
    MaxNow = 2
SYMMETRY IDSymmetry
CHECK_DEADLOCK FALSE
INVARIANTS
    HookOnceAtTheEnd
    CancelIsHonest
    CloseLeavesNothing
PROPERTIES
    FinalIsFinal
    ImplementsLifecycle
