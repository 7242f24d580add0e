SPECIFICATION FairSpec
CONSTANTS
    User = {u1, u2}
    Conn = {c1, c2}
    Sender = {s1, s2}
    Capacity = 1
INVARIANTS
    TypeOK
    RegistryIsServed
PROPERTIES
    RegistryStableWhileRead
    Registers
    PushesEnd
    CleansUp
