SPECIFICATION FairSpec
CONSTANTS
  Providers = {1, 2, 3}
  Adapter <- MCAdapter
  Stall = 2
  Deadline = 2
  Signs = {"limit"}
  Paths <- MCPaths
  Folder <- MCFolder
  Top = "top"
  Internal = {}
  Large = {}
  Found <- MCFound
  Tools = {"edit", "delete", "add", "commit"}
  Allowed <- MCAllowed
  MaxAttempts = 2
  MaxFixes = 1
  MaxOps = 2
  MaxSigns = 1
  MaxFaults = 1
  Nobody = 0
INVARIANTS NoneOutlivesItsCall
PROPERTIES RollbackIsExact ImplementsLoop
CHECK_DEADLOCK FALSE
