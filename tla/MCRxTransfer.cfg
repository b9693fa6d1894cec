CONSTANTS
    Blocks = {1, 2, 3, 4, 5, 6, 7}
    Versions <- MCVersions
    Output <- MCOutput
    Elsewhere <- MCElsewhere
    Sessions = {r1}
    MaxRounds = 6
    Faults = {"drop", "crash", "busy", "edit", "job"}
    Budget <- MCBudget
    Failures = 3
    Edits = 1
    Outputs = 1
    Pushed = 2
    None = None
    Hole = Hole
SPECIFICATION FairSpec
INVARIANTS LandedIsWhole IndexTruthful
PROPERTIES DoneMeansThere PushLands
CHECK_DEADLOCK FALSE
