CONSTANTS
    SizeMax = 31
    PtrBytes = 2
    POOL_ALIGNMENT = 4
    GuardBytes = 2
    Hardened = TRUE
SPECIFICATION Spec
INVARIANTS
    OverflowGuardExact
    CreationFits
    GrowthFits
    TypedSlotsValid
