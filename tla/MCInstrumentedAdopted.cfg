SPECIFICATION Spec
CONSTANTS
    Threads = {t1}
    N = 1
    Factor = 2
    MaxBlocks = 2
    CountMod = 3
    Adopted = 1
    Foreign = FALSE
INVARIANT GrewMeansGrown
