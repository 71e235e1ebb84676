\* Two users, three top-ups: overlapping confirmations against the ledger.
SPECIFICATION Spec
CONSTANTS
  u1 = u1
  u2 = u2
  t1 = t1
  t2 = t2
  t3 = t3
  Keep = Keep
  User = {u1, u2}
  Proc = {h1, h2}
  Txn = {t1, t2, t3}
  Owner <- OwnerThree
  Kind <- KindThree
  Price <- PriceThree
  MaxFaults = 1
  MaxApplied = 2
PROPERTY ImplementsLedger
SYMMETRY Handlers
CHECK_DEADLOCK FALSE
