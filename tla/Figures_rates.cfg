SPECIFICATION FiguresSpec
CONSTANTS
  Regulars = {u1, u2}
  DaysBack = 2
  RunTicks = 0
  RetainTicks = 4
  SweepBatch = 1
  Unseen = Unseen
  Diaries <- DayOfSales
INVARIANTS RatesAreRates
CHECK_DEADLOCK FALSE
