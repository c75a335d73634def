CONSTANTS
    w1 = w1
    w2 = w2
    A = A
    B = B
    root = root
    k1 = k1
    g1 = g1
    g2 = g2
    sA = sA
    sB = sB
    s0 = s0
    Workers = {w1, w2}
    Projects = {A, B}
    ChosenKeys = {root, k1}
    Generated = {g1, g2}
    Spans = {sA, sB, s0}
    ProjectOf <- MCProjectOf
    MayFail = TRUE
SPECIFICATION Spec
SYMMETRY Symmetry
INVARIANTS TypeOK CreatedOnce IssuedOpens Isolation FailClosed
PROPERTY IdentityStays
