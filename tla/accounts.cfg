SPECIFICATION FairSpec
CONSTANTS
  admin = admin
  mixed = mixed
  a1 = a1
  h1 = h1
  h2 = h2
  None = None
  Boot = Boot
  Email = {admin, mixed}
  Lower <- LowerCase
  AdminEmail = admin
  Apple = {a1}
  Proc = {h1, h2}
  MaxAccounts = 2
  MaxFaults = 1
INVARIANTS TypeOK EmailUnique AppleUnique SignedUpLogsIn
PROPERTY AdminPresent
CHECK_DEADLOCK FALSE
