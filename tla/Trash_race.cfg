SPECIFICATION Spec
CONSTANTS
    f = f  g = g  e1 = e1  e2 = e2  w1 = w1  w2 = w2  p1 = p1  p2 = p2  h = h
    NoDir = NoDir
    Publisher = {p1}
    Foreign = {h}
    MaxPublishAttempts = 1
    OtherMoves = 0
    Item = {f}
    Folder = {f}
    Whole = 1
    Entry = {e1}
    Worker = {w1, w2}
    MaxDirAttempts = 2
    Mishaps <- Quiet
INVARIANT NoNamelessPayload
CHECK_DEADLOCK FALSE
