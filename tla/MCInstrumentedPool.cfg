SPECIFICATION Spec
CONSTANTS
    Threads = {t1, t2}
    N = 1
    Factor = 2
    MaxBlocks = 4
    CountMod = 3
    Adopted = 0
    Foreign = TRUE
SYMMETRY ThreadSymmetry
INVARIANTS TypeOK LiveNeverAhead PeakExact CountsAtRest GrowthReportedOnce
