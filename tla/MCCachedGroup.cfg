SPECIFICATION CSpec
CONSTANTS
    User = {u1, u2}
    Group = {g1}
    TheGroup = g1
    Req = {r1}
    Reader = {q1}
    NoUser = NoUser
    TTL = 1
    Budget = 1
    MaxTime = 1
PROPERTY ImplementsMemberCache
