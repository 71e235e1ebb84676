SPECIFICATION FairSpec
CONSTANTS
  u1 = u1
  u2 = u2
  h1 = h1
  h2 = h2
  User = {u1}
  Proc = {h1, h2}
  MaxChecks = 2
  MaxFaults = 1
INVARIANTS ApprovedIsCleared CounterIsBacked AttemptsBounded
PROPERTIES ApplicantStays VerdictArrives
CHECK_DEADLOCK FALSE
