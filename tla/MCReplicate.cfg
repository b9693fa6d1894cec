CONSTANTS
    f1 = f1
    f2 = f2
    narrow = narrow
    full = full
    c1 = c1
    c2 = c2
    c3 = c3
    Files = {f1, f2}
    Slices = {narrow, full}
    Wanted <- MCWanted
    Prefixes <- MCPrefixes
    Contents = {c1, c2, c3}
    Original <- MCOriginal
    SizeOf <- MCSizeOf
    Attempts = 2
    Budget <- MCBudget
    Changes = 1
    Overlaps = 1
    Cuts = 2
    Stalls = 1
    Kills = 1
    Gaps = 1
    Landings = 1
    Any = 1
    None = None
    Torn = Torn
    Mixed = Mixed
SPECIFICATION FairSpec
INVARIANTS StagedIsWhole VerifiedIsTheSource VerifiedIsComplete
PROPERTIES CommandsEnd
