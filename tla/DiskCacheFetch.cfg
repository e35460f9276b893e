CONSTANTS
    s1 = s1
    s2 = s2
    s3 = s3
    Sessions = {s1, s2, s3}
    Stores <- MCStores
    Types = {1, 2}
    FragmentSize <- MCFragmentSize
    Header = 1
    Capacity <- MCCapacity
    MaxJump = 2
    JumpsPerEntry = 1
    CountSize = 5
    JumpCapacity = 5
    head_capacity = 7
    Precision = 16
    Scales = {1, 2, 4, 8, 16, 32, 64, 128, 256}
SPECIFICATION Spec
INVARIANTS FetchStored
CHECK_DEADLOCK FALSE
