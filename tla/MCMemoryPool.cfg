CONSTANTS
    SizeMax = 15
    PtrBytes = 1
    POOL_ALIGNMENT = 2
    GuardBytes = 1
    Hardened = FALSE
    AddrMax = 13
    BlockSizes = {2, 3, 4}
    BlockCounts = {0, 1, 2}
    Factors = {0, 1, 2, 3, 10}
    Junk = 99
SPECIFICATION Spec
INVARIANTS
    TypeOK
    FreeListExact
    BlocksSound
    LedgerExact
    GrowthGeometric
PROPERTY BlocksStay
