SPECIFICATION Spec
CONSTANTS
    m1 = m1
    m2 = m2
    m3 = m3
    m4 = m4
    Requests = {m1, m2, m3, m4}
    MaxRequests = 2
    Window = 2
    Horizon = 5
    MaxLives = 2
INVARIANTS
    ExactPerLife
    RefusalsAreEarned
SYMMETRY RequestSymmetry
CHECK_DEADLOCK FALSE
