\* Three threads, the first lap of a table of four entries.
SPECIFICATION Spec
CONSTANTS
    Threads = {t1, t2, t3}
    Keys = {k1, k2}
    NoKey = NoKey
    Capacity = 4
    MaxReservations = 3
    MaxEvictions = 2
INVARIANTS OneWriterPerSlot
PROPERTIES ImplementsLru RefusedOnlyWhenEmpty
SYMMETRY Symmetry
\* A thread beyond one of the two bounds stops.
CHECK_DEADLOCK FALSE
