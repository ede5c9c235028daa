SPECIFICATION Spec
CONSTANTS
    None = None
    c1 = c1
    c2 = c2
    c3 = c3
    k1 = k1
    k2 = k2
    g1 = g1
    g2 = g2
    x1 = x1
    x2 = x2
    Key = {k1}
    Cred <- Groups
    Client = {c1, c2}
    Call = {x1, x2}
    Handle = {}
    Max = 2
    Envs <- Cancelling
SYMMETRY PoolSymmetry
INVARIANTS
    NothingLeftToCancel
