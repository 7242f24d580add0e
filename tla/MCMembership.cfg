SPECIFICATION HSpec
CONSTANTS
    User = {u1, u2, u3}
    Group = {g1}
    Req = {r1, r2}
    NoUser = NoUser
SYMMETRY Symmetry
INVARIANTS
    TypeOK
    OwnerIsCreator
    WrongRemovalNeedsBothChanged
PROPERTIES
    OwnerOnlyDemotesItself
    EntersAsMember
