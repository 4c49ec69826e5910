SPECIFICATION GamesSpec
CONSTANTS
  creator = creator
  f1 = f1
  q1 = q1
  q2 = q2
  q3 = q3
  ana = ana
  ben = ben
  none = none
\* Lobby
  Friends = {ana, ben}
  FreeCreates = 1
  MaxActive = 2
  MaxNew = 2
  MaxPush = 1
  BestOf = 3
  PendingLife = 1
  AcceptedLife = 2
  LastChance = 1
  Stories <- LobbyStories
  NoFriend = none
\* Tournament
  Entrants = {1, 2, 3}
  MinEntrants = 2
  Capacity = 3
  PrivateRounds = 3
  CupRounds = 2
  BotScore = 1
  TopScore = 1
  Grace = 1
  Slot = 2
  Closes = 1
  LastHour = 4
  TourKinds = {"PRIVATE", "DAILY_ARENA"}
  NoOne = none
  NoTime = none
\* TourMessages
  Members = {1, 2}
  LastStage = 2
  Mailers = {1, 2}
  Trouble = 1
  Silences = {{}, {1}}
  NoId = none
INVARIANTS LobbySound MailSound
PROPERTIES StaysOver JoinedDuelEnds TourHolds TourEnds ResultSeen
CHECK_DEADLOCK FALSE
