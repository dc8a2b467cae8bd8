SPECIFICATION ReadinessSpec
CONSTANTS
    Agents = {"cursor", "claude"}
    Persistent = {"cursor"}
    Invocation = {}
    Folders = {"root", "tree"}
    Above <- MCAbove
    Inheritable = {"root"}
    Workspaces = {"tree"}
    Sessions = {"s1"}
    Models = {"m"}
    Any = "any"
    Policy <- MCPolicy
    Wary <- MCWary
    Window = 1
    MaxOutcomes = 2
    MaxDoctors = 1
    MaxPrepares = 1
    MaxSmokes = 1
CHECK_DEADLOCK FALSE
INVARIANT RecordMatchesObservations
PROPERTY AnswersOutrankStores
