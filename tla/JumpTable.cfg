\* Two threads, three entries, bytes of two bits.
SPECIFICATION Spec
CONSTANTS
    Threads = {t1, t2}
    Objects = {o1, o2}
    NoObject = NoObject
    Capacity = 4
    BucketBits = 2
    Word = 8
    Counts = {1, 2}
    MaxFrees = 3
INVARIANTS TypeOK NoGapBehindHint ShortOnlyWhenFull ChainsApart ChainsLinked
SYMMETRY Symmetry
\* Beyond MaxFrees, all objects may have their chains.
CHECK_DEADLOCK FALSE
