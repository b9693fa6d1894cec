CONSTANTS
    build = build
    result = result
    first = first
    second = second
    Files = {build, result}
    Items = {first, second}
    After <- MCAfter
    Named <- MCNamed
    Pinned <- MCPinned
    Path <- MCPath
    SizeOf <- MCSizeOf
    Releasable <- MCReleasable
    Levels = {0, 1}
    Emergency = 1
    Floor = 2
    Ideal = 3
    Smoke = 1
    Urgent = 1
    Cold = 2
    Idle = 2
    Hours = 1
    Grace = 2
    MaxTime = 2
    Budget <- MCBudget
    Writes = 1
    Restores = 1
    Releases = 1
    Reads = 1
    Trains = 1
    Windows = 1
    Fails = 1
    Retries = 1
    Opens = 1
    Raises = 1
    Any = 1
SPECIFICATION FairSpec
INVARIANTS TypeOK
PROPERTIES NothingIsLost NamedStays PinnedStays Reclaims
CHECK_DEADLOCK FALSE
