SPECIFICATION FairSpec
CONSTANTS
    Req = {r1, r2}
    Socket = {s1}
    Versions = 2
    Statements = 2
    MaxUpload = 2
    ApiBudget = 1
    UploadBudget = 4
    Grace = 2
INVARIANTS
    TypeOK
    ServesMigrated
    AnsweredIsStored
PROPERTIES
    ShutdownCutsOnly
    ShutdownEnds
