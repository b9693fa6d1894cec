CONSTANTS
    Jobs = {1, 2}
    Sups = {s1, s2}
    Sessions = {r1}
    GPUs = {0, 1}
    Whole = 2
    Cpus = 4
    Assigns <- MCAssigns
    Decision <- MCDecision
    Faults = {"crash", "reboot", "lapse", "write"}
    KillOnClose = TRUE
    TimeLimited = {}
    Respawn = TRUE
    Free = Free
    NoJob = NoJob
SYMMETRY SupSymmetry
SPECIFICATION Spec
INVARIANTS ReservationsDisjoint OneCommand RerunsFollowACrash
PROPERTIES EndsAreKept
CHECK_DEADLOCK FALSE
