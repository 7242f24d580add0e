SPECIFICATION Spec
CONSTANTS
    User = {u1}
    Writer = {w1, w2}
    Reader = {r1, r2}
    TTL = 2
    Budget = 1
    MaxTime = 6
    Faults = TRUE
SYMMETRY Symmetry
INVARIANTS
    TypeOK
    StalenessBounded
    StaleHasCause
