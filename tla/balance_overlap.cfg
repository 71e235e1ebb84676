\* Withholdings and debits of one user, overlapping or not.
SPECIFICATION Spec
CONSTANTS
  u1 = u1
  h1 = h1
  h2 = h2
  Keep = Keep
  User = {u1}
  Proc = {h1, h2}
  Funds = 3
  Withholds <- WithholdSome
  Debits <- DebitBoth
  MaxRequests = 5
INVARIANTS NeverNegative HeldIsStored WithinFunds
PROPERTY Conserved
SYMMETRY Handlers
CHECK_DEADLOCK FALSE
