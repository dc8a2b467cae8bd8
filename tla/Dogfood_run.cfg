SPECIFICATION DogfoodSpec
CONSTANTS
  Benchmarks = {1, 2}
  Clouds = {1, 2}
  Unsupported = {2}
  Artifacts <- MCArtifacts
  Template <- Good
  MaxRepairs = 1
  MaxFaults = 2
  MaxIterations = 1
  UntilExhausted = TRUE
  SafetyCeiling = 2
  Confirmations = 1
  LocalLimit = 1
  Avoided = 2
CHECK_DEADLOCK FALSE
INVARIANTS BundleIsAccepted SelfModificationEarned LocalBudgetHolds
