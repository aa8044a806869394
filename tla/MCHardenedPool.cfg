CONSTANTS
    Threads = {t1, t2}
    N = 2
    Policies = {"locked", "lockfree"}
    MaxFaults = 3
SPECIFICATION Spec
SYMMETRY ThreadSymmetry
INVARIANTS
    TypeOK
    ReportsJustified
    FreeListContained
    DamageReported
PROPERTY WalkExact
CONSTRAINT NotBlind
CHECK_DEADLOCK FALSE
