\* Executions overlap, a fault, error answers, and events scheduled again.
SPECIFICATION Spec
CONSTANTS
  e1 = e1
  e2 = e2
  x = x
  r1 = r1
  r2 = r2
  None = None
  Event = {e1, x}
  Known = {e1}
  Run = {r1, r2}
  MaxTime = 2
  MaxSchedules = 2
  MaxFaults = 2
  MayReject = TRUE
SYMMETRY RunSymmetry
INVARIANT OncePerSchedule
CHECK_DEADLOCK FALSE
