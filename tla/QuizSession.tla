---------------------------- MODULE QuizSession -----------------------------
(***************************************************************************)
(* One player's quiz: questions from the menu that cost energy, the daily  *)
(* challenge, and what an answer does to streak and level.                 *)
(*                                                                         *)
(* A handler reads the clock, waits for the row of the player (a first     *)
(* transaction calls ensure_home_snapshot, which reads the clock again),   *)
(* and commits.  Handlers of one player therefore exclude each other, but  *)
(* may commit with clocks that are out of order, by up to lag.  After an   *)
(* answer the handler opens a second transaction for the next question,    *)
(* with the clock of the first; it may die in between, and the update may  *)
(* be handled again at any later time.                                     *)
(*                                                                         *)
(* Not modelled: which question is asked (its level is), questions of      *)
(* duels, and progress rows older than their table.                        *)
(***************************************************************************)
EXTENDS Energy, Streak, FiniteSets

CONSTANTS
  TapCount,       \* bound: callback queries of a player
  Profiles,       \* players to look at: what they own, press, and how late they run
  DailyLength,    \* DAILY_CHALLENGE_TOTAL_QUESTIONS
  MaxLevel,       \* last index of PERSISTENT_ADAPTIVE_LEVEL_CHAIN
  MaxMix,         \* max(MIX_STEP_WEIGHTS)
  CorrectPerStep, WarmUp,
  Horizon,        \* bound: ticks looked at
  NoRow           \* no such row

Daily == "DAILY_CHALLENGE"
AdaptiveModes == {"ARTIKEL_SPRINT", "QUICK_MIX_A1A2"}

VARIABLES
  tick,     \* the clock
  scope,    \* scope of the active premium entitlement
  player,   \* the rows of the player in all tables
  profile,  \* the modes this player presses, the taps, the lag of the handlers
  pressed,  \* what each tap asked for, repeated when its update is handled again
  next      \* taps whose answer is committed and whose handler goes on

\* History, never read by an action.
VARIABLES
  charged,  \* energy taken for each session key
  played    \* days on which an activity was recorded

quizVars == <<tick, scope, player, profile, pressed, next, charged, played>>

Days == 0..Day(Horizon)
Ticks == 0..Horizon
Levels == 0..MaxLevel
Taps == 1..TapCount  \* in the order in which they are first handled
Keys == {"start", "auto"} \X Taps
Modes == UNION {f.modes : f \in Profiles}

QuizSessions ==
  [mode : Modes, status : {"STARTED", "COMPLETED", "ABANDONED"}, cost : 0..1,
   level : Levels, run : Days \cup {NoDay}]

DailyRuns ==
  [current : 0..DailyLength, score : 0..DailyLength,
   status : {"IN_PROGRESS", "COMPLETED", "ABANDONED"}]

ModeProgressRows == [level : Levels, mix : 0..MaxMix, inMix : 0..CorrectPerStep]

QuizAttempts == [tap : Taps, session : Keys, mode : Modes, right : BOOLEAN, at : Ticks]

Requests ==
  [kind : {"start"}, mode : Modes]
    \cup [kind : {"answer"}, session : Keys, right : BOOLEAN]

Most == Horizon + FreeCap + Cardinality(Taps)

QuizTypeOK ==
  /\ tick \in Ticks
  /\ scope \in Scopes
  /\ player.energy \in EnergyRows(Days, Ticks, Most)
  /\ player.streak \in StreakRows(Days, Most)
  /\ player.ledger \subseteq Keys
  /\ player.sessions \in [Keys -> QuizSessions \cup {NoRow}]
  /\ player.runs \in [Days -> DailyRuns \cup {NoRow}]
  /\ player.progress \in ModeProgressRows \cup {NoRow}
  /\ player.attempts \in Seq(QuizAttempts)
  /\ profile \in Profiles
  /\ pressed \in [Taps -> Requests \cup {NoRow}]
  /\ DOMAIN next \subseteq Taps
  /\ charged \in [Keys -> 0..Most]
  /\ played \subseteq Days

NewPlayer(energy, streak) ==
  [energy |-> energy, streak |-> streak, ledger |-> {},
   sessions |-> [k \in Keys |-> NoRow], runs |-> [d \in Days |-> NoRow],
   progress |-> NoRow, attempts |-> <<>>]

QuizInit ==
  /\ tick = 0
  /\ \E f \in Profiles :
       /\ profile = f
       /\ scope = f.scope
       /\ player = NewPlayer([NewEnergy(0) EXCEPT !.free = f.free, !.paid = f.paid],
                             NewStreak(0, f.tokens))
  /\ pressed = [c \in Taps |-> NoRow]
  /\ next = <<>>
  /\ charged = [k \in Keys |-> 0]
  /\ played = {}

-----------------------------------------------------------------------------
(* What a transaction does to the rows of the player. *)

EnsureHome(p, t) ==
  [p EXCEPT !.energy = SyncEnergyClock(@, t, scope # "NONE"),
            !.streak = SyncRollover(@, Day(t), scope)]

SyncPlayerStreak(p, t) == [p EXCEPT !.streak = SyncRollover(@, Day(t), scope)]

RecordPlayerActivity(p, t) == [p EXCEPT !.streak = RecordActivity(@, Day(t), scope)]

\* The row of mode_progress a start finds or makes.
ProgressAtStart(p) ==
  IF p.progress = NoRow THEN [level |-> 0, mix |-> 0, inMix |-> 0] ELSE p.progress

\* A level handed over from the answer before switches the mix off.
AllowedLevels(row, handed) ==
  LET level == IF handed = NoRow THEN row.level ELSE handed
      mix == IF handed = NoRow THEN row.mix ELSE 0
  IN {level} \cup IF mix > 0 /\ level < MaxLevel THEN {level + 1} ELSE {}

\* Whether a question can be paid for, and what paying leaves.
ConsumeQuiz(p, key, t) ==
  IF scope # "NONE" THEN p
  ELSE LET e == SyncEnergyClock(p.energy, t, FALSE)
       IN IF key \in p.ledger \/ ConsumedAsset(e) = "NONE" THEN [p EXCEPT !.energy = e]
          ELSE [p EXCEPT !.energy = Spend(e), !.ledger = @ \cup {key}]

CanPay(p, key, t) ==
  scope # "NONE" \/ key \in p.ledger
    \/ ConsumedAsset(SyncEnergyClock(p.energy, t, FALSE)) # "NONE"

NewSession(p, key, mode, level, run) ==
  [p EXCEPT !.sessions[key] = [mode |-> mode, status |-> "STARTED", level |-> level,
                               cost |-> IF mode = Daily THEN 0 ELSE 1, run |-> run]]

\* The run of the day, made or taken up again.
RunAtStart(p, d) ==
  IF p.runs[d] = NoRow THEN [current |-> 0, score |-> 0, status |-> "IN_PROGRESS"]
  ELSE IF p.runs[d].status = "ABANDONED" THEN [p.runs[d] EXCEPT !.status = "IN_PROGRESS"]
  ELSE p.runs[d]

ActiveDaily(p, d) ==
  \E k \in Keys : /\ p.sessions[k] # NoRow
                  /\ p.sessions[k].run = d /\ p.sessions[k].status = "STARTED"

StartDailySession(p, key, t) ==
  LET d == Day(t)
      q == [p EXCEPT !.runs[d] = RunAtStart(p, d)]
  IN IF p.runs[d] # NoRow /\ p.runs[d].status = "COMPLETED" THEN p
     ELSE IF q.runs[d].current >= DailyLength
     THEN [q EXCEPT !.runs[d].status = "COMPLETED"]
     ELSE IF ActiveDaily(q, d) THEN q
     ELSE NewSession(q, key, Daily, 0, d)

\* A mutant of StartMenuSession: the session is not looked up by its key first.
StartMenuAgain(p, key, mode, handed, t) ==
  IF ~CanPay(p, key, t) THEN {ConsumeQuiz(p, key, t)}
  ELSE {NewSession(ConsumeQuiz(p, key, t), key, mode, 0, NoDay)}

StartMenuSession(p, key, mode, handed, t) ==
  IF p.sessions[key] # NoRow THEN {p}
  ELSE IF ~CanPay(p, key, t) THEN {ConsumeQuiz(p, key, t)}
  ELSE LET paid == ConsumeQuiz(p, key, t)
           row == ProgressAtStart(p)
       IN IF mode \in AdaptiveModes
          THEN {NewSession([paid EXCEPT !.progress = row], key, mode, level, NoDay) :
                  level \in AllowedLevels(row, handed)}
          ELSE {NewSession(paid, key, mode, 0, NoDay)}

\* start_session: the outcomes, by the level that is drawn.
StartSession(p, key, mode, handed, t) ==
  IF mode = Daily
  THEN {IF p.sessions[key] # NoRow THEN p ELSE StartDailySession(p, key, t)}
  ELSE StartMenuSession(p, key, mode, handed, t)

-----------------------------------------------------------------------------
(* Answers. *)

\* Attempts are read in the order of answered_at.
InsertAttempt(as, a) ==
  LET before == SelectSeq(as, LAMBDA b : b.at <= a.at)
      behind == SelectSeq(as, LAMBDA b : b.at > a.at)
  IN before \o <<a>> \o behind

RecentResults(as, mode) ==
  LET own == SelectSeq(as, LAMBDA a : a.mode = mode)
      n == Least(Len(own), WarmUp)
  IN [i \in 1..n |-> own[Len(own) + 1 - i].right]

RightAnswers(results) == Cardinality({i \in DOMAIN results : results[i]})

\* PROGRESSION_ACCURACY_THRESHOLD is 0.75.
AccurateEnough(results) == 4 * RightAnswers(results) >= 3 * Len(results)

\* A mutant of CheckAndAdvance: a wrong answer in the mix counts too.
AdvanceAnyway(p, mode) ==
  LET row == ProgressAtStart(p)
  IN IF row.level = MaxLevel THEN [p EXCEPT !.progress = row]
     ELSE [p EXCEPT !.progress =
             IF row.mix < MaxMix THEN [row EXCEPT !.mix = @ + 1]
             ELSE [level |-> row.level + 1, mix |-> 0, inMix |-> 0]]

CheckAndAdvance(p, mode) ==
  LET row == ProgressAtStart(p)
      recent == RecentResults(p.attempts, mode)
      stepDone == row.inMix + 1 >= CorrectPerStep
  IN [p EXCEPT !.progress =
        IF row.level = MaxLevel THEN [row EXCEPT !.mix = 0, !.inMix = 0]
        ELSE IF row.mix = 0
        THEN IF Len(recent) >= WarmUp /\ AccurateEnough(recent)
             THEN [row EXCEPT !.mix = 1, !.inMix = 0] ELSE row
        ELSE IF ~recent[1] THEN row
        ELSE IF ~stepDone THEN [row EXCEPT !.inMix = @ + 1]
        ELSE IF row.mix < MaxMix THEN [row EXCEPT !.mix = @ + 1, !.inMix = 0]
        ELSE [level |-> row.level + 1, mix |-> 0, inMix |-> 0]]

ApplyDailyAnswer(p, d, right, t) ==
  LET run == p.runs[d]
      answered == Least(DailyLength, run.current + 1)
      q == [p EXCEPT !.runs[d] =
              [current |-> answered,
               score |-> IF right THEN Least(DailyLength, run.score + 1) ELSE run.score,
               status |-> IF answered >= DailyLength THEN "COMPLETED" ELSE "IN_PROGRESS"]]
  IN IF run.status = "COMPLETED" THEN SyncPlayerStreak(p, t)
     ELSE IF answered >= DailyLength THEN RecordPlayerActivity(q, t)
     ELSE SyncPlayerStreak(q, t)

Answered(p, c) == \E i \in DOMAIN p.attempts : p.attempts[i].tap = c

\* A mutant of IsReplay: only the key of the answer is looked up.
ReplayByKey(p, c, key) == Answered(p, c)

\* An answer that was given, or a daily question that is no longer open.
IsReplay(p, c, key) ==
  \/ Answered(p, c)
  \/ p.sessions[key].mode = Daily /\ p.sessions[key].status # "STARTED"

StoreAttempt(p, c, key, right, t) ==
  [p EXCEPT !.attempts = InsertAttempt(@, [tap |-> c, session |-> key, right |-> right,
                                           mode |-> p.sessions[key].mode, at |-> t]),
            !.sessions[key].status = "COMPLETED"]

SubmitAnswer(p, c, key, right, t) ==
  LET row == p.sessions[key]
      stored == StoreAttempt(p, c, key, right, t)
  IN IF IsReplay(p, c, key) THEN SyncPlayerStreak(p, t)
     ELSE IF row.mode = Daily THEN ApplyDailyAnswer(stored, row.run, right, t)
     ELSE IF row.mode \in AdaptiveModes
     THEN CheckAndAdvance(RecordPlayerActivity(stored, t), row.mode)
     ELSE RecordPlayerActivity(stored, t)

\* What is recorded as an activity of the day.
RecordsActivity(p, c, key) ==
  /\ ~IsReplay(p, c, key)
  /\ p.sessions[key].mode = Daily =>
       LET run == p.runs[p.sessions[key].run]
       IN run.status # "COMPLETED" /\ run.current + 1 >= DailyLength

AbandonSession(p, key) ==
  LET row == p.sessions[key]
  IN IF row.status # "STARTED" THEN p
     ELSE [p EXCEPT !.sessions[key].status = "ABANDONED",
                    !.runs = IF row.run = NoDay \/ p.runs[row.run].status = "COMPLETED" THEN @
                             ELSE [@ EXCEPT ![row.run].status = "ABANDONED"]]

-----------------------------------------------------------------------------
(* Handlers. *)

EnergyTaken(p, q) == (p.energy.free + p.energy.paid) - (q.energy.free + q.energy.paid)

\* The clocks of a handler: its own, and the later one of ensure_home_snapshot.
ClockPairs == {w \in Ticks \X Ticks : w[1] <= w[2] /\ w[2] <= tick /\ w[1] + profile.lag >= tick}

StartFrom(p, key, mode, handed, t) ==
  \E q \in StartSession(p, key, mode, handed, t) :
    /\ player' = q
    /\ charged' = [charged EXCEPT ![key] =
                     IF mode = Daily THEN @
                     ELSE @ + EnergyTaken([p EXCEPT !.energy =
                                SyncEnergyClock(@, t, scope # "NONE")], q)]

\* A tap asks for the same whenever its update is handled.
AsksFor(c, request) ==
  /\ pressed[c] \in {NoRow, request}
  /\ c <= profile.taps /\ \A d \in 1..(c - 1) : pressed[d] # NoRow
  /\ pressed' = [pressed EXCEPT ![c] = request]

\* start_mode: the menu, a mode or the daily challenge is pressed.
StartMode(c, mode, t, h) ==
  LET request == [kind |-> "start", mode |-> mode]
  IN /\ AsksFor(c, request)
     /\ StartFrom(EnsureHome(player, h), <<"start", c>>, mode, NoRow, t)
     /\ UNCHANGED <<tick, scope, profile, next, played>>

\* How the handler goes on: a repeated answer of the daily challenge does not.
Following(p, q, c, key, t) ==
  LET row == p.sessions[key]
      level == IF row.mode \in AdaptiveModes /\ ~IsReplay(p, c, key)
               THEN q.progress.level ELSE NoRow
  IN IF row.mode = Daily /\ (IsReplay(p, c, key) \/ q.runs[row.run].status = "COMPLETED")
     THEN {}
     ELSE {[mode |-> row.mode, level |-> level, at |-> t]}

\* handle_answer up to its first commit.
Answer(c, key, right, t, h) ==
  LET request == [kind |-> "answer", session |-> key, right |-> right]
      p == EnsureHome(player, h)
      q == SubmitAnswer(p, c, key, right, t)
      on == Following(p, q, c, key, t)
  IN /\ player.sessions[key] # NoRow
     /\ AsksFor(c, request)
     /\ player' = q
     /\ next' = [d \in {e \in DOMAIN next : e # c} \cup {e \in {c} : on # {}} |->
                   IF d = c THEN CHOOSE f \in on : TRUE ELSE next[d]]
     /\ played' = played \cup {d \in {Day(t)} : RecordsActivity(p, c, key)}
     /\ UNCHANGED <<tick, scope, profile, charged>>

\* The second transaction of handle_answer: the next question.  The handler may
\* have died before it.
GoOn(c, h) ==
  /\ c \in DOMAIN next
  /\ h >= next[c].at
  /\ StartFrom(EnsureHome(player, h), <<"auto", c>>, next[c].mode, next[c].level, next[c].at)
  /\ next' = [d \in DOMAIN next \ {c} |-> next[d]]
  /\ UNCHANGED <<tick, scope, profile, pressed, played>>

\* "Stop" under a question; the only clock it keeps is completed_at.
Stop(key, h) ==
  /\ player.sessions[key] # NoRow
  /\ player' = AbandonSession(EnsureHome(player, h), key)
  /\ UNCHANGED <<tick, scope, profile, pressed, next, charged, played>>

Pass ==
  /\ tick < Horizon
  /\ tick' = tick + 1
  /\ next' = [c \in {d \in DOMAIN next : next[d].at + profile.lag > tick} |-> next[c]]
  /\ UNCHANGED <<scope, player, profile, pressed, charged, played>>

PremiumOver ==
  /\ scope # "NONE"
  /\ scope' = "NONE"
  /\ UNCHANGED <<tick, player, profile, pressed, next, charged, played>>

\* A saver is bought, and an operator refunds it, without settling the days before;
\* a bound: no second one while there is one.
SaverBought ==
  /\ profile.shop
  /\ player.streak.tokens = 0
  /\ player' = [player EXCEPT !.streak = AddSaverToken(@, Day(tick))]
  /\ UNCHANGED <<tick, scope, profile, pressed, next, charged, played>>

SaverRefunded ==
  /\ profile.shop
  /\ player.streak.tokens > 0
  /\ player' = [player EXCEPT !.streak = RemoveSaverTokens(@, 1, Day(tick))]
  /\ UNCHANGED <<tick, scope, profile, pressed, next, charged, played>>

QuizNext ==
  \/ \E c \in Taps, mode \in profile.modes, w \in ClockPairs : StartMode(c, mode, w[1], w[2])
  \/ \E c \in Taps, key \in Keys, right \in BOOLEAN, w \in ClockPairs :
       Answer(c, key, right, w[1], w[2])
  \/ \E c \in Taps, h \in {t \in Ticks : t <= tick /\ t + profile.lag >= tick} : GoOn(c, h)
  \/ \E key \in Keys, h \in {t \in Ticks : t <= tick /\ t + profile.lag >= tick} : Stop(key, h)
  \/ Pass
  \/ PremiumOver
  \/ SaverBought \/ SaverRefunded

QuizSpec == QuizInit /\ [][QuizNext]_quizVars

-----------------------------------------------------------------------------
(* Properties. *)

SessionsOf(d) ==
  {k \in Keys : player.sessions[k] # NoRow /\ player.sessions[k].run = d}

AttemptsOf(d) ==
  {i \in DOMAIN player.attempts : player.attempts[i].session \in SessionsOf(d)}

(* Whatever is pressed twice, late, or taken up again after a stop: the run
   of a day has one answer for each of its answered questions, its score is the
   number of right ones, at most one question is open, and it is COMPLETED
   exactly when all are answered (sessions_start_daily.py, apply_daily_answer). *)
DailyRunSound ==
  \A d \in Days :
    LET run == player.runs[d]
        having(status) == {k \in SessionsOf(d) : player.sessions[k].status = status}
    IN IF run = NoRow THEN SessionsOf(d) = {}
       ELSE /\ run.current = Cardinality(AttemptsOf(d))
            /\ run.current = Cardinality(having("COMPLETED"))
            /\ run.score = Cardinality({i \in AttemptsOf(d) : player.attempts[i].right})
            /\ Cardinality(having("STARTED")) <= 1
            /\ having("STARTED") # {} => run.status = "IN_PROGRESS"
            /\ run.status = "COMPLETED" <=> run.current = DailyLength

(* A streak of k days has k days that were played behind it, and every day
   missed since the first of them was paid for with a saver or a premium freeze
   (apply_day_end, rollover_to_local_date, record_activity).  It does not hold with
   handlers that commit out of the order of their clocks around midnight, nor with
   savers bought or refunded meanwhile, which mark days as settled that are not. *)
MissedDaysPaid ==
  LET s == player.streak
  IN profile.lag = 0 /\ ~profile.shop /\ s.current > 0 =>
       \E first \in played :
         /\ Cardinality({d \in played : d >= first}) = s.current
         /\ Cardinality((first..(s.synced - 1)) \ played) <= s.frozen

(* Every step of the mix and every level was earned with CorrectPerStep right
   answers of its own (check_and_advance). *)
LevelsEarned ==
  LET row == ProgressAtStart(player)
      right == {i \in DOMAIN player.attempts :
                  player.attempts[i].right /\ player.attempts[i].mode \in AdaptiveModes}
      steps == row.level * MaxMix + IF row.mix = 0 THEN 0 ELSE row.mix - 1
  IN profile.lag = 0 => Cardinality(right) >= steps * CorrectPerStep + row.inMix

RewardsEarned == MissedDaysPaid /\ LevelsEarned

(* Nobody plays for more than he was given: questions paid for and energy left
   are at most what he began with, one for each interval that passed and a full
   tank for each day, however late clocks and retries sync the row
   (apply_regen_tick, apply_daily_topup_berlin, consume_quiz). *)
EnergyCovers ==
  Cardinality({k \in Keys : charged[k] # 0}) + player.energy.free + player.energy.paid
    <= profile.free + profile.paid + tick + FreeCap * Day(tick)

(* Energy is taken for a question that did not exist before and never twice for
   one key, however often the update is handled again and whether premium ended
   in between (start_session, consume_quiz); a completed run of a day never
   changes (submit_answer, abandon_session). *)
QuizStep ==
  /\ \A k \in Keys : charged'[k] # charged[k] =>
       /\ charged'[k] = 1
       /\ player.sessions[k] = NoRow /\ player'.sessions[k] # NoRow
  /\ \A d \in Days : player.runs[d] # NoRow /\ player.runs[d].status = "COMPLETED" =>
       player'.runs[d] = player.runs[d]

\* What a learner is promised: his daily runs, his streak and levels, his energy.
QuizSound == QuizTypeOK /\ DailyRunSound /\ RewardsEarned /\ EnergyCovers
=============================================================================
