\* Two threads on two chains of one table with three tails.
SPECIFICATION Spec
CONSTANTS
    Threads = {t1, t2}
    Keys = {1, 2, 3, 4, 5}
    HeadCapacity = 2
    TailCapacity = 4
    TagShift = 2
    TagWord = 16
    JumpChains = 2
    KindOf <- MCKindOf
    OneCallPerChain = TRUE
    FreeReserved = TRUE
    MaxReserves = 4
    MaxFrees = 2
INVARIANTS EntriesApart PoolWhole FindsReserved FindsNothingElse
SYMMETRY Symmetry
\* Beyond the bounds no call starts.
CHECK_DEADLOCK FALSE
