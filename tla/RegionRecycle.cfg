\* Two threads fill, evict and refill a region of two fragments.
SPECIFICATION Spec
CONSTANTS
    Threads = {t1, t2}
    Keys = {k1, k2}
    NoKey = NoKey
    Capacity = 2
    BucketBits = 2
    Requests = {1, 2}
    WordSize = 64
    HalfSize = 8
    Sector = 4
    RegionHeader = 3
    TimeHeader = 2
    TimeEntrySize = 1
    MaxTimes = 4
    FragmentSize = 4
    TableHeader = 2
    FragmentEntrySize = 2
    JumpHeader = 11
    StateOffset = 1
    JumpEntrySize = 2
INVARIANTS Accounting
PROPERTIES ScansBounded
SYMMETRY Symmetry
