CONSTANTS
    Blocks = {1, 2, 3, 4, 5, 6, 7}
    Versions <- MCVersions
    Output <- MCOutput
    Elsewhere <- MCElsewhere
    Sessions = {r1}
    MaxRounds = 6
    Faults = {"job"}
    Budget <- MCBudget
    Failures = 0
    Edits = 0
    Outputs = 1
    Pushed = 2
    None = None
    Hole = Hole
SPECIFICATION Spec
PROPERTIES OutputsSpared
CHECK_DEADLOCK FALSE
