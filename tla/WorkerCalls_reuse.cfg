CONSTANTS
    o1 = o1
    j1 = j1
    j2 = j2
    bye1 = bye1
    n1 = n1
    Open <- NoOpen
    Job <- TwoJobs
    Bye = bye1
    JobID = {n1}
    NameOf <- NameOfTwo
    Sem = 2
    MaxUp = 0
    JobFrames = 1
    Faults <- StopOrJam
    MaxLive = 2
    None = None
SPECIFICATION Spec
INVARIANT ReuseIsSafe
INVARIANT JobEndIsHonest
PROPERTY CancelReaches
CHECK_DEADLOCK FALSE
