\* Overlapping confirmations of one user's two top-ups, one crash or failure.
SPECIFICATION Spec
CONSTANTS
  u1 = u1
  u2 = u2
  t1 = t1
  t2 = t2
  t3 = t3
  Keep = Keep
  User = {u1}
  Proc = {h1, h2}
  Txn = {t1, t2}
  Owner <- OwnerShared
  Kind <- KindMixed
  Price <- PriceTwo
  MaxFaults = 1
  MaxApplied = 1
INVARIANTS TypeOK CreditsArePaid CompletedWasCredited BalanceBacked CreditsKept
SYMMETRY Handlers
CHECK_DEADLOCK FALSE
