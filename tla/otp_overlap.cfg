\* Sends, verifications and password changes of one user overlap.
SPECIFICATION Spec
CONSTANTS
  u1 = u1
  h1 = h1
  h2 = h2
  User = {u1}
  Proc = {h1, h2}
  Life = 0
  MaxTime = 1
  MaxOtp = 2
  MaxPassword = 3
INVARIANTS TypeOK AcceptedIsGone GoneStaysGone AcceptedWasIssued LastPasswordStays
CHECK_DEADLOCK FALSE
