------------------------------- MODULE Streak -------------------------------
(***************************************************************************)
(* The rules of the streak: the end of a day, catching up on the days      *)
(* since the last write, a day that was played, and the saver tokens.      *)
(*                                                                         *)
(* A row knows which days it has settled only by the date of updated_at,   *)
(* here synced; every writer sets it, whether it settled the days or not.  *)
(* The field frozen is history, not in the row: days a token or a premium  *)
(* freeze has saved.                                                       *)
(***************************************************************************)
EXTENDS Naturals, SequencesExt

CONSTANTS
  WeekDays,     \* days of a week
  FreezeLimit,  \* MONTHLY_PREMIUM_FREEZE_LIMIT
  NoDay         \* NULL in a date

Scopes == {"NONE", "STARTER", "MONTHLY", "SEASON", "YEAR"}

StreakRows(days, most) ==
  [current : 0..most, best : 0..most, last : days \cup {NoDay},
   today : {"NO_ACTIVITY", "PLAYED", "FROZEN"}, tokens : 0..most,
   used : 0..most, week : days \cup {NoDay}, synced : days, frozen : 0..most]

NewStreak(d, tokens) ==
  [current |-> 0, best |-> 0, last |-> NoDay, today |-> "NO_ACTIVITY",
   tokens |-> tokens, used |-> 0, week |-> NoDay, synced |-> d, frozen |-> 0]

WeekStart(d) == (d \div WeekDays) * WeekDays

PremiumFreezeAllowed(s, d, scope) ==
  \/ scope \in {"SEASON", "YEAR"}
  \/ scope = "MONTHLY" /\ (s.week # WeekStart(d) \/ s.used < FreezeLimit)

ConsumePremiumFreeze(s, d) ==
  [s EXCEPT !.used = IF s.week = WeekStart(d) THEN @ + 1 ELSE 1, !.week = WeekStart(d)]

\* A mutant of ApplyDayEnd: a missed day is frozen without taking the token.
FreezeForFree(s, d, scope) ==
  IF s.today # "NO_ACTIVITY" \/ s.current = 0 THEN s
  ELSE IF s.tokens > 0 THEN [s EXCEPT !.today = "FROZEN"]
  ELSE [s EXCEPT !.current = 0]

\* A day is over: it was played, or a token or premium saves it, or the streak is lost.
ApplyDayEnd(s, d, scope) ==
  IF s.today # "NO_ACTIVITY" \/ s.current = 0 THEN s
  ELSE IF s.tokens > 0
  THEN [s EXCEPT !.tokens = @ - 1, !.today = "FROZEN", !.frozen = @ + 1]
  ELSE IF PremiumFreezeAllowed(s, d, scope)
  THEN [ConsumePremiumFreeze(s, d) EXCEPT !.today = "FROZEN", !.frozen = @ + 1]
  ELSE [s EXCEPT !.current = 0]

RolloverTo(s, d, scope) ==
  IF d <= s.synced THEN s
  ELSE FoldLeft(LAMBDA r, e : [ApplyDayEnd(r, e, scope) EXCEPT !.today = "NO_ACTIVITY"],
                s, [i \in 1..(d - s.synced) |-> s.synced + i - 1])

SyncRollover(s, d, scope) == [RolloverTo(s, d, scope) EXCEPT !.synced = d]

\* A mutant of Counted: every game of a day counts.
CountedAlways(s, d) ==
  [s EXCEPT !.current = @ + 1, !.best = IF s.current + 1 > @ THEN s.current + 1 ELSE @,
            !.last = d, !.today = "PLAYED"]

Counted(s, d) ==
  IF s.last = d /\ s.today = "PLAYED" THEN s
  ELSE [s EXCEPT !.current = @ + 1, !.best = IF s.current + 1 > @ THEN s.current + 1 ELSE @,
                 !.last = d, !.today = "PLAYED"]

RecordActivity(s, d, scope) == [Counted(RolloverTo(s, d, scope), d) EXCEPT !.synced = d]

\* Buying and refunding savers set updated_at without settling the days before.
AddSaverToken(s, d) == [s EXCEPT !.tokens = @ + 1, !.synced = d]

RemoveSaverTokens(s, n, d) ==
  IF n = 0 \/ s.tokens = 0 THEN s
  ELSE [s EXCEPT !.tokens = IF n > @ THEN 0 ELSE @ - n, !.synced = d]
=============================================================================
