\* Two threads append to one chain.
SPECIFICATION Spec
CONSTANTS
    Threads = {t1, t2}
    Keys = {1, 3, 5}
    HeadCapacity = 2
    TailCapacity = 4
    TagShift = 2
    TagWord = 16
    JumpChains = 3
    KindOf <- MCKindOf
    OneCallPerChain = FALSE
    FreeReserved = TRUE
    MaxReserves = 3
    MaxFrees = 0
INVARIANTS FindsReserved
CHECK_DEADLOCK FALSE
