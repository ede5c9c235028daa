SPECIFICATION FairSpec
CONSTANTS
    a = a  b = b  c = c  d = d  e = e
    None = None
    Request = {a, b, c, d, e}
    Safe = {d, e}
    Caller = {a, b, c, d, e}
    Line <- AllLines
    Depth = 1
    SyncWriters = 1
    MirrorDepth = 1
    Ttl = 1
    MaxSessions = 2
    MaxUploads = 1
    Scenes <- MCScenes
INVARIANTS TrailIsWhole ReadOnlyBinds GuardMatchesFile ConsentHolds FreshSignIn LogKeepsItsWord
PROPERTIES RequestsEnd
CHECK_DEADLOCK FALSE
