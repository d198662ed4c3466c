SPECIFICATION Spec
CONSTANTS
    p1 = p1
    p2 = p2
    old = old
    Nobody = Nobody
    Procs <- MCProcs
    Legacy <- MCLegacy
    MaxSockets = 4
SYMMETRY Symmetry
INVARIANTS
    TypeOK
    OneInstance
    UpIsReachable
    LiveSurvives
    RecordIsOwn
    ClaimFailsForCause
