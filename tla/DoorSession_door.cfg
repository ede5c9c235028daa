CONSTANTS
    Source = {s1, s2}
    Attempt = {a1, a2}
    InFlight = 2
    MaxSources = 1
    BucketCapacity = 1
    Refill = 1
    LockoutAfter = 1
    LockoutBase = 1
    LockoutCap = 2
    HalfRange = 8
    ClockLag = 0
    MaxFailures = 5
    Nobody = Nobody
    Password = {p1, p2}
    NoHash = NoHash
    Request = {r1}
    Session = {i1, i2}
    MaxSessions = 1
    Idle = 1
    Lifetime = 1
    MaxWrites = 1
SYMMETRY Alike
SPECIFICATION MCSpec
INVARIANT SlotsBalance
INVARIANT MilestonesPair
PROPERTY GuessesArePaced
PROPERTY NoSessionOutlivesItsPassword
CHECK_DEADLOCK FALSE
