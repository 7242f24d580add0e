SPECIFICATION Spec
CONSTANTS
    MaxMsg = 2
    Limit = 1
    Second = 2
    Window = 2
    Budget = 1
    MaxTime = 4
INVARIANTS
    TypeOK
    PagesNeitherSkipNorRepeat
    NothingMissed
    RecallsSeen
PROPERTY RecallInTime
