SPECIFICATION Spec
CONSTANTS
  Updates = {u1}
  Tasks = {t1, t2, t3}
  NoTask = NoTask
  MaxRetries = 1
  TTL = 2
  Retention = 4
  MaxFaults = 2
  Overrun = FALSE
SYMMETRY TaskSymmetry
INVARIANTS TypeOK SingleProcessor AppliedOncePerLoss NoSilentDrop
CHECK_DEADLOCK FALSE
