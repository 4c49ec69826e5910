SPECIFICATION FairSpec
CONSTANTS
  Updates = {u1}
  Tasks = {t1, t2, t3}
  NoTask = NoTask
  MaxRetries = 1
  TTL = 2
  Retention = 4
  MaxFaults = 0
  Overrun = TRUE
INVARIANTS ProcessedMeansApplied
PROPERTIES EveryUpdateDecided
CHECK_DEADLOCK FALSE
