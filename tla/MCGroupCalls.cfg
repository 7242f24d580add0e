SPECIFICATION GSpec
CONSTANTS
    User = {u1, u2}
    Writer = {w1}
    Reader = {r1}
    CallReq = {c1}
    TTL = 1
    Budget = 1
    MaxTime = 2
    GrantTTL = 1
    Faults = FALSE
SYMMETRY Symmetry
INVARIANTS
    CallTypeOK
    InviteIsCurrent
    JoinBounded
