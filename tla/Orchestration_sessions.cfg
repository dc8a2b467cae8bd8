SPECIFICATION CarefulSpec
CONSTANTS
    p = p
    q = q
    Coordinators = {p, q}
    Ids = {"s", "t"}
    AgentOrder <- TwoAgents
    Preferred = "codex"
    Unenforced = {}
    Economical = {"claude"}
    Strong = {"codex"}
    Requests <- SomeRequests
    Failures = {"role"}
    Adjustments = {"none", "tests"}
    MaxRework = 1
    MaxTree = 2
    MaxCommands = 2
ACTION_CONSTRAINT Overlapping
CHECK_DEADLOCK FALSE
INVARIANTS OneCoordinator CompleteIsEarned
PROPERTY RunEnds
