SPECIFICATION MCSpec
CONSTANTS
    f = f  g = g  e1 = e1  e2 = e2  w1 = w1  w2 = w2  p1 = p1  p2 = p2  h = h
    NoDir = NoDir
    Publisher = {p1, p2}
    Foreign = {h}
    MaxPublishAttempts = 2
    OtherMoves = 2
    Item = {f, g}
    Folder = {f}
    Whole = 1
    Entry = {e1, e2}
    Worker = {w1, w2}
    MaxDirAttempts = 2
    Mishaps <- OneFailure
SYMMETRY BinSymmetry
INVARIANTS OnlyProvedDirectories RestorableUntilEmptied SizeSpeaksOfItsItem
CHECK_DEADLOCK FALSE
