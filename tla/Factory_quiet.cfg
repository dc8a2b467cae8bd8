SPECIFICATION FairSpec
ACTION_CONSTRAINT Small
CONSTANTS
    p1 = p1
    p2 = p2
    a = a
    c = c
    Unknown = Unknown
    None = None
    Procs = {p1, p2}
    Items = {a, c}
    Origin <- Origin2
    Evidence <- Unproven
    Budget = 3
    Campaign = TRUE
    MaxRuns = 4
    MaxFaults = 1
    MaxCommands = 1
INVARIANTS RunIsOnRecord BudgetRespected SerialWork
PROPERTIES FollowsLifecycle OnlyClearedWorkRuns SignalledLeavesStopped BlockedIsReleased
