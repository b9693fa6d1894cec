CONSTANTS
    First = a
    Second = b
    Items = {a, b}
    Deps <- MCDeps
    MaxJobs = 5
    Retries = 1
    Budget <- MCBudget
    Fails = 3
    Losses = 1
    Cancels = 1
    Taken = 1
    Crashes = 1
    Full = 1
    Refused = 1
    Unclear = 1
    Deaf = 1
    Any = 1
    None = None
SPECIFICATION FairSpec
INVARIANTS TypeOK OneWantedJob RunsAfterDeps
CHECK_DEADLOCK FALSE
PROPERTIES EveryItemSettled
