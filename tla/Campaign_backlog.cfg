SPECIFICATION FairSpec
CONSTANTS
  Tasks = {1, 2, 3, 4}
  Row <- ThreeRows
  Floor = 1
  Providers = {1, 2}
  Undelegated = {}
  MaxMerges = 1
  MaxPolls = 2
  Answers = {"unreadable", "checks"}
  Canary = 4
  MaxFaults = 2
  MaxTasks = 2
  Profiles = {TRUE}
CHECK_DEADLOCK FALSE
INVARIANTS RecordIsTrue BudgetHolds AttemptsDoNotMix
PROPERTY CampaignEnds
