CONSTANTS
    Objects = {o1, o2}
    MaxPools = 2
    BlockSizes = {1, 2}
    N = 1
    Factors = {0, 2}
    MaxSlots = 2
    MaxDepth = 2
    Sizes = {1, 2}
    Counts = {1, 2}
    SizeMax = 3
    Upstreams = {u1, u2}
    MaxPtrs = 1
SPECIFICATION Spec
SYMMETRY ObjectSymmetry
INVARIANTS
    TypeOK
    OwnedOnce
    DestroyedToldOnce
    CountersFollowPool
    BlocksAccounted
    ReturnedToSource
