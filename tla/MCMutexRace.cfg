CONSTANTS
    Threads = {t1, t2}
    N = 1
    Factor = 2
    MaxBlocks = 4
    UserData = {9}
SPECIFICATION Spec
INVARIANT GuardsReadImmutableFields
