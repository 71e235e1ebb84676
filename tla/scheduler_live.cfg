\* Fair clock, cron and endpoints, overlapping executions, faults.
SPECIFICATION FairSpec
CONSTANTS
  e1 = e1
  e2 = e2
  x = x
  r1 = r1
  r2 = r2
  None = None
  Event = {e1, e2}
  Known = {e1, e2}
  Run = {r1, r2}
  MaxTime = 2
  MaxSchedules = 1
  MaxFaults = 2
  MayReject = FALSE
INVARIANTS RemovedWasTriggered OwedIsQueued
PROPERTIES EventuallyTriggered EventuallyRemoved
CHECK_DEADLOCK FALSE
