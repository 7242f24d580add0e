SPECIFICATION Spec
CONSTANTS
    Req = {r1, r2}
    MaxUpdate = 3
SYMMETRY Symmetry
\* The server stops when MaxUpdate updates have come and gone.
CHECK_DEADLOCK FALSE
INVARIANTS
    TypeOK
    LostOnlyToRace
