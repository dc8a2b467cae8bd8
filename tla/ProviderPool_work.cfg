SPECIFICATION PoolFairSpec
CONSTANTS
  Resources = {1, 2}
  Pools = {p1}
  Profile <- TwoSubscriptions
  Configured = {}
  LocalOnly = FALSE
  AllowPaid = FALSE
  MaxMetered = 0
  SubscriptionFirst = TRUE
  ExternalFirst = TRUE
  PreferCapacity = TRUE
  Transient = 1
  Session = 1
  Quota = 1
  Strict = TRUE
  RetryHints = {}
  Worlds = {"READY", "MISSING_EXECUTABLE"}
  Evidence <- AllEvidence
  ReviewRoles <- OneRole
  MaxLaunches = 1
  MaxCrashes = 0
CHECK_DEADLOCK FALSE
INVARIANT OutageDeniesNobody
PROPERTIES OwnTroubleNeverBenches ExhaustionPasses
