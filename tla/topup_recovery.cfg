\* One Coinbase top-up: overlapping requests, redelivered webhooks, one crash
\* or failure.
SPECIFICATION FairSpec
CONSTANTS
  u1 = u1
  u2 = u2
  t1 = t1
  t2 = t2
  t3 = t3
  Keep = Keep
  User = {u1}
  Proc = {h1, h2}
  Txn = {t2}
  Owner <- OwnerOne
  Kind <- KindOne
  Price <- PriceOne
  MaxFaults = 1
  MaxApplied = 3
INVARIANT CreditsBounded
 
CHECK_DEADLOCK FALSE
