SPECIFICATION HSpec
CONSTANTS
    User = {u1, u2}
    Req = {r1, r2}
    MaxMsg = 2
    MaxFaults = 1
    Stay = {u1}
SYMMETRY Symmetry
CONSTRAINT OneTrouble
INVARIANTS
    TypeOK
    PreviewOlderOnlyByOverlap
    UnreadNeverOvercounts
    UnreadNeverUndercounts
