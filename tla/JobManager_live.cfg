SPECIFICATION FairSpec
CONSTANTS
    byteMover = byteMover
    metadata = metadata
    i1 = i1
    i2 = i2
    Class = {byteMover}
    IDs = {i1, i2}
    Admitters = {a1}
    Slots <- OneSlot
    QueueDepth = 2
    RetainCount = 1
    RetainTicks = 1
    MaxSeq = 2
    MaxNow = 0
CHECK_DEADLOCK FALSE
PROPERTIES
    CloseEndsEveryJob
    EveryJobEnds
INVARIANTS
    CountersExact
