CONSTANTS
    First = a
    Second = b
    Items = {a, b}
    Deps <- MCDeps
    MaxJobs = 4
    Retries = 1
    Budget <- MCBudget
    Fails = 0
    Losses = 1
    Cancels = 0
    Taken = 0
    Crashes = 0
    Full = 0
    Refused = 0
    Unclear = 0
    Deaf = 0
    Any = 1
    None = None
SPECIFICATION FairSpec
PROPERTIES LostRunsAgain
CHECK_DEADLOCK FALSE
