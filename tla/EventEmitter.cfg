CONSTANTS
    Threads = {t1, t2}
    PoolSize = 2
    Values = {{}, {0}, {1}, {0, 1}}
    Blank = {}
    Torn = Torn
    MaxCalls = 3
    MaxIds = 2
SPECIFICATION Spec
INVARIANTS WholeWhenFree ReadsRegular NothingLost EmitReaches OnceOnce
PROPERTIES CallsReturn
CHECK_DEADLOCK FALSE
