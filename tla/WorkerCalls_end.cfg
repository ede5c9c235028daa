CONSTANTS
    o1 = o1
    j1 = j1
    j2 = j2
    bye1 = bye1
    n1 = n1
    Open <- OneOpen
    Job <- OneJob
    Bye = bye1
    JobID = {n1}
    NameOf <- NameOfOne
    Sem = 1
    MaxUp = 1
    JobFrames = 1
    Faults <- CrashOrStop
    MaxLive = 1
    None = None
SPECIFICATION FairSpec
INVARIANT NoDescriptorLeaks
PROPERTY FinishedIsNotLost
PROPERTY CallsEnd
CHECK_DEADLOCK FALSE
