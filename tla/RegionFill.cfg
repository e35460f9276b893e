\* Two threads fill a region of three fragments whose bytes hold two bits.
SPECIFICATION FillSpec
CONSTANTS
    Threads = {t1, t2}
    Keys = {k1, k2, k3}
    NoKey = NoKey
    Capacity = 3
    BucketBits = 2
    Requests = {0, 1, 2}
    WordSize = 64
    HalfSize = 8
    Sector = 4
    RegionHeader = 3
    TimeHeader = 2
    TimeEntrySize = 1
    MaxTimes = 4
    FragmentSize = 4
    TableHeader = 2
    FragmentEntrySize = 2
    JumpHeader = 11
    StateOffset = 1
    JumpEntrySize = 2
INVARIANTS TypeOK DeliveredTaken NoGapBehindScan CounterMatchesBitmap BytesApart
SYMMETRY Symmetry
\* A filled region with no key left to store is at its end.
CHECK_DEADLOCK FALSE
