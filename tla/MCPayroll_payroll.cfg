SPECIFICATION FairSpec
CONSTANTS
  j1 = j1
  j2 = j2
  acme = acme
  s1 = s1
  s2 = s2
  NoOne = NoOne
  Orphan = Orphan
  Jobs = {j1, j2}
  Employers = {acme}
  employer <- SameEmployer
  items <- Sizes
  Slots = {s1, s2}
  Attempts = 2
  MaxStalled = 1
  Faults = {"crash", "error", "outage", "stall", "lapse"}
  MaxFaults = 2
CHECK_DEADLOCK FALSE
INVARIANTS
  TypeOK
  OneJobPerEmployer
  ProgressIsTrue
  ListIsCurrent
  NoLineLost
  CompletedHasTransfer
  FailuresBurnAttempts
PROPERTIES
  Finishes
