CONSTANTS
    Files = {f1, f2}
    Contents = {1, 2}
    Original <- MCOriginal
    MaxTag = 7
    ByHand = {1}
    PerCommit = 1
    Budget <- MCBudget
    Writes = 1
    Backs = 0
    Fails = 1
    Kills = 1
    Hands = 1
    Overlaps = 0
    Replans = 0
    Restored = 1
    Any = 2
    None = None
SPECIFICATION FairSpec
INVARIANTS RemovedIsRestorable CoveredIsHeld
PROPERTIES EveryFileIsArchived
