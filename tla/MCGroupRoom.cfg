SPECIFICATION RSpec
CONSTANTS
    User = {u1, u2}
    Req = {r1}
    Writer = {w1}
    MaxMsg = 1
    MaxFaults = 1
    Stay = {u1}
    TTL = 1
    Budget = 0
    MaxTime = 1
    Faults = TRUE
PROPERTIES
    ImplementsRoomActivity
    PostingBounded
    CountingBounded
