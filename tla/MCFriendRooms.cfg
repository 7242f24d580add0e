SPECIFICATION Spec
CONSTANTS
    User = {1, 2, 3}
    Req = {r1, r2}
    MaxRoom = 3
SYMMETRY Symmetry
INVARIANTS
    TypeOK
    RoomHasItsPair
    ExistingRoomIsReused
