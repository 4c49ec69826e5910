SPECIFICATION Spec
CONSTANTS
  Updates = {u1}
  Tasks = {t1, t2, t3}
  NoTask = NoTask
  MaxRetries = 1
  TTL = 2
  Retention = 4
  MaxFaults = 1
  Overrun = FALSE
INVARIANTS NoOrphanedSlot
CHECK_DEADLOCK FALSE
