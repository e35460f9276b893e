CONSTANTS
    Contents <- MCContents
    Truncated = Truncated
    NoContent = NoContent
    MaxWrites = 2
    Types = {1, 2}
    Requests = {r1}
    Paths = {"a", "b", "table"}
    NoRegion = NoRegion
    NoType = NoType
    Malformed = Malformed
    WordSize = 1048576
    NoPath = NoPath
    NoSize = NoSize
    MaxFragments = 2048
    MaxHeads = 4
    MaxTails = 2
    MaxJumps = 4
    TablePath = "table"
    MaxFaults = 1
SPECIFICATION Spec
INVARIANTS RegionsWhole CrashesOnlyInReload
PROPERTIES AppliesLast
CHECK_DEADLOCK FALSE
