CONSTANTS
    Threads = {t1}
    N = 2
    Policies = {"lockfree"}
    MaxFaults = 1
SPECIFICATION Spec
INVARIANT CorruptLinkCaught
CHECK_DEADLOCK FALSE
