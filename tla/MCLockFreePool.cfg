CONSTANTS
    Threads = {t1, t2, t3}
    N = 2
    TagMod = 4
    UserData = {9}
    Spurious = TRUE
SPECIFICATION FairSpec
INVARIANTS
    TypeOK
    IInv
    FreeListExact
    OwnershipExclusive
    NoABA
PROPERTIES
    Linearizable
    LockFreedom
