SPECIFICATION FairSpec
CONSTANTS
  Providers = {p1, p2}
  Roles = {correctness}
  Correctness = correctness
  Person = person
  Nobody = nobody
  MaxAttempts = 2
  MaxRemediations = 1
  MaxEdits = 2
  MaxCrashes = 1
  MaxRuns = 2
CHECK_DEADLOCK FALSE
INVARIANTS VerifiedAsCompleted NoKnownSelfReview RejectedFragmentIsUndone
PROPERTY RunEnds
