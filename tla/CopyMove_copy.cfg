CONSTANTS
    Node <- Nodes
    Name = {"r", "b", "x", "e"}
    Top = 0
    Stage = Stage
    None = None
    MaxClock = 2
    Layout <- Trees
    Scenarios <- Plans
    KeepBoth <- Tries
SPECIFICATION FairSpec
INVARIANT NeverCopiesItself
INVARIANT QuietMeansWhole
INVARIANT NamesShowWholeFiles
PROPERTY NothingIsLost
PROPERTY CopyEnds
CHECK_DEADLOCK FALSE
