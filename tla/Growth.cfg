SPECIFICATION GrowthSpec
CONSTANTS
  ana = ana
  ben = ben
  g1 = g1
  g2 = g2
  g3 = g3
  g4 = g4
  sale = sale
  gift = gift
  wrong = wrong
  w1 = w1
  w2 = w2
  none = none
\* Arrivals
  People = {1, 2, 3}
  Crew = {w1, w2}
  PushMax = 2
  Batch = 2
  NoGuest = 0
  Visits <- NewVisits
\* QuestionBank
  Staff = {w1, w2}
  MixMode = "MIX"
  BankLevels = {1, 2}
  PositionLevels <- DayLevels
  CacheTime = 0
  Nobody = none
  Decks <- BankDecks
\* Figures
  Regulars = {ana, ben}
  DaysBack = 2
  RunTicks = 1
  RetainTicks = 4
  SweepBatch = 1
  Unseen = none
  Diaries <- DayDiaries
\* Offers
  Buyers = {ana, ben}
  Asks = {1, 2, 3}
  DayLen = 2
  BlockFor = 1
  RepeatFor = 2
  MuteFor = 4
  DayCap = 2
  Weekend = {1}
  MinShown = 2
  MinConverted = 10
  MaxDismissed = 60
  MaxPerUser = 1
  FunnelHours = 1
  Courses <- OfferCourses
  Nothing = none
\* Promo
  Persons = {ana, ben}
  Words = {sale, gift, wrong}
  MaxFailures = 2
  BlockTime = 1
  LimitTime = 2
  HoldTime = 1
  GuardTime = 1
  GuardFailures = 1
  GuardUsers = 2
  Plots <- PromoPlots
  NoTerm = none
\* Referrals
  Hosts = {ana}
  Guests = {g1, g2, g3, g4}
  StartsLimit = 2
  Window = 2
  MinAttempts = 3
  MinDays = 2
  Delay = 1
  PerReward = 2
  MonthCap = 1
  MonthDays = 3
  RewardDays = 2
  MinStarted = 1
  MaxRate = 50
  MaxRejected = 1
  SpikeAt = 2
  Tales <- HostTales
  Never = none
INVARIANTS ReferralsSound OffersSound BankSound ArrivalsSound FiguresSound
PROPERTIES QuizHolds PromoHolds
CHECK_DEADLOCK FALSE
