CONSTANTS
    Fetches = {p,q}
    Files = {1, 2}
    HostContents = {x, y}
    First = x
    Produced <- MCProduced
    UserContents = {u}
    Rounds = 3
    Budget <- MCBudget
    Starts = 2
    HostChanges = 1
    Edits = 1
    Overlaps = 1
    WindowEdits = 1
    Cuts = 1
    Refusals = 1
    Busies = 1
    Lates = 1
    Crashes = 1
    Any = 1
    None = None
    Dir = Dir
SPECIFICATION FairSpec
PROPERTIES UsersWorkStays CountedIsThere ConflictsAreTheUsers FetchEnds
CHECK_DEADLOCK FALSE
