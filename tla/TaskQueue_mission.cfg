SPECIFICATION Spec
CONSTANTS
    p1 = p1
    p2 = p2
    Procs <- BothProcs
    Human = human
    r1 = r1
    cause = cause
    Tasks <- TwoTasks
    Repos = {r1}
    RepoOf <- Worktrees
    DependsOn <- Second
    Revs <- TwoRevs
    Mission = TRUE
    RootOf <- OneCause
    RepairLimit = 2
    Slots = 2
    None = none
    MaxStarts = 3
    MaxSpent = 2
    Retries <- AllOrNone
SYMMETRY Swapped
CHECK_DEADLOCK FALSE
INVARIANTS OneResumablePerRepository MissionLimitsHold NoSessionIsLost
PROPERTY StartsAreDue
