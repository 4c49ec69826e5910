-------------------------------- MODULE Duel --------------------------------
(***************************************************************************)
(* One duel between friends: invitation, rounds, answers, deadline.        *)
(*                                                                         *)
(* Every action is one transaction of a handler or job.  All of them lock  *)
(* the row of the duel first, except the list "Meine Duelle": it loads     *)
(* rows without a lock and writes the expiry of overdue ones afterwards.   *)
(* A handler reads the clock before it waits for the lock, so it may still *)
(* believe that the deadline lies ahead: that is the parameter late.       *)
(* Handlers of one user exclude each other (ensure_home_snapshot updates   *)
(* the row of the user first); the deadline job runs whenever it likes.    *)
(* An exception of the duel is caught inside the transaction, which        *)
(* commits what was changed before it, an expiry for instance.             *)
(*                                                                         *)
(* Not modelled: duels of a tournament, reminders and their quota,         *)
(* current_round (only displayed), and the legacy status ACTIVE, which no  *)
(* code writes any more.                                                   *)
(***************************************************************************)
EXTENDS Naturals, FiniteSets

CONSTANTS
  Creator, Friends,   \* Friends: the users who have the invitation link
  NoUser,             \* NULL in opponent_user_id
  Rounds,             \* total_rounds
  Questions, NoQuestion,
  Plans,              \* values of question_ids to look at; a series game has none
  Retirable,          \* bound: questions that may be disabled or deleted meanwhile
  Listing             \* bound: players who open "Meine Duelle"

ASSUME PlayersAssumption == Creator \notin Friends /\ NoUser \notin Friends \cup {Creator}
ASSUME RoundsAssumption == Rounds \in Nat \ {0}
ASSUME QuestionsAssumption ==
  /\ NoQuestion \notin Questions
  /\ Retirable \subseteq Questions /\ Questions \ Retirable # {}
  /\ Plans \subseteq [1..Rounds -> Questions \cup {NoQuestion}]
ASSUME ListingAssumption == Listing \subseteq Friends \cup {Creator}

VARIABLES
  duel,     \* the row of friend_challenges
  due,      \* expires_at <= now()
  plan,     \* question_ids
  asked,    \* question_id of the quiz session of a player and a round
  retired,  \* questions no longer ACTIVE
  lists     \* rows loaded by "Meine Duelle" that are about to be expired, by user

\* History, never read by an action.
VARIABLE first  \* the first answer to a round while the player could play

vars == <<duel, due, plan, asked, retired, lists, first>>

Sides == {"creator", "opponent"}
Players == Friends \cup {Creator}

SideOf(u) == IF u = Creator THEN "creator" ELSE "opponent"
InDuel(d, u) == u = Creator \/ u = d.opponent

Playable == {"ACCEPTED", "CREATOR_DONE", "OPPONENT_DONE"}
Active == Playable \cup {"PENDING"}
Over == {"COMPLETED", "EXPIRED", "CANCELED", "WALKOVER"}

Rows == [status : Active \cup Over,
         opponent : Friends \cup {NoUser},
         score : [Sides -> 0..Rounds],
         answered : [Sides -> 0..Rounds],
         finished : [Sides -> BOOLEAN],
         winner : Sides \cup {"none"}]

TypeOK ==
  /\ duel \in Rows
  /\ due \in BOOLEAN
  /\ plan \in Plans
  /\ asked \in [Players -> [1..Rounds -> Questions \cup {NoQuestion}]]
  /\ retired \subseteq Questions
  /\ lists \subseteq [user : Players, row : Rows]
  /\ first \in [Players -> [1..Rounds -> {"none", "right", "wrong"}]]

NewRow(status, opponent) ==
  [status |-> status, opponent |-> opponent, winner |-> "none",
   score |-> [s \in Sides |-> 0], answered |-> [s \in Sides |-> 0],
   finished |-> [s \in Sides |-> FALSE]]

\* An invitation, or a rematch or series game whose opponent is known.
Init ==
  /\ \/ duel = NewRow("PENDING", NoUser)
     \/ \E u \in Friends : duel = NewRow("ACCEPTED", u)
  /\ due = FALSE
  /\ plan \in Plans
  /\ duel.opponent = NoUser => \A r \in 1..Rounds : plan[r] # NoQuestion
  /\ asked = [u \in Players |-> [r \in 1..Rounds |-> NoQuestion]]
  /\ retired = {}
  /\ lists = {}
  /\ first = [u \in Players |-> [r \in 1..Rounds |-> "none"]]

-----------------------------------------------------------------------------
(* What the handlers share. *)

PlayableFor(d, u) == d.status \in Playable \/ (d.status = "PENDING" /\ u = Creator)

Done(d, s) == d.finished[s] \/ d.answered[s] >= Rounds

\* A mutant of Leader: a draw goes to the creator.
LeaderOrCreator(score) ==
  IF score["opponent"] > score["creator"] THEN "opponent" ELSE "creator"

Leader(score) ==
  IF score["creator"] > score["opponent"] THEN "creator"
  ELSE IF score["opponent"] > score["creator"] THEN "opponent" ELSE "none"

\* A mutant of TechnicalWinner: the better score wins, finished or not.
WinnerOnPoints(d) == Leader(d.score)

\* The side that is done when the other is not.
TechnicalWinner(d) ==
  IF Done(d, "creator") /\ ~Done(d, "opponent") THEN "creator"
  ELSE IF Done(d, "opponent") /\ ~Done(d, "creator") THEN "opponent" ELSE "none"

Expired(d) ==
  IF d.status = "PENDING" THEN [d EXCEPT !.status = "EXPIRED", !.winner = "none"]
  ELSE [d EXCEPT !.status = "WALKOVER",
                 !.winner = TechnicalWinner(d),
                 !.score = [s \in Sides |-> IF s = TechnicalWinner(d) THEN @[s] ELSE 0]]

\* A mutant of Refreshed: without the check that the duel is not over.
RefreshedAlways(d, late) == IF late THEN Expired(d) ELSE d

\* Every handler that locks the row begins with this.
Refreshed(d, late) == IF d.status \in Active /\ late THEN Expired(d) ELSE d

\* The list of a user keeps the user's other handlers waiting.
Listed(u) == \E l \in lists : l.user = u

\* What the clock of a handler may say of the deadline.
Clock == IF due THEN BOOLEAN ELSE {FALSE}

\* A mutant of ChoiceFor: it does not look for the other player's session.
UnsharedChoiceFor(r) ==
  IF {plan[r]} \ ({NoQuestion} \cup retired) # {} THEN {plan[r]} ELSE Questions \ retired

\* The question of a round: that of the other player, else the planned one,
\* else any; one that is no longer ACTIVE is replaced by any other.
ChoiceFor(r) ==
  LET shared == {asked[u][r] : u \in Players} \ {NoQuestion}
      forced == IF shared # {} THEN shared ELSE {plan[r]} \ {NoQuestion}
  IN IF forced \ retired # {} THEN forced \ retired ELSE Questions \ retired

\* start_session, unless the player has the session already.
OpenRound(d, u) ==
  LET r == d.answered[SideOf(u)] + 1
  IN IF InDuel(d, u) /\ PlayableFor(d, u) /\ r <= Rounds /\ asked[u][r] = NoQuestion
       THEN \E q \in ChoiceFor(r) : asked' = [asked EXCEPT ![u][r] = q]
       ELSE UNCHANGED asked

\* A mutant of Counted: without the check that the round is unanswered.
CountedAgain(d, s, r, correct) ==
  [d EXCEPT !.answered[s] = r, !.score[s] = IF correct THEN @ + 1 ELSE @]

\* An answer counts once per round and side.
Counted(d, s, r, correct) ==
  IF d.answered[s] < r
    THEN [d EXCEPT !.answered[s] = r, !.score[s] = IF correct THEN @ + 1 ELSE @]
    ELSE d

\* finished_at, status and winner after an answer.
Settled(d) ==
  LET done == [s \in Sides |-> Done(d, s)]
  IN IF done["creator"] /\ done["opponent"]
       THEN [d EXCEPT !.finished = done, !.status = "COMPLETED", !.winner = Leader(d.score)]
       ELSE [d EXCEPT !.finished = done,
                      !.status = IF done["creator"] THEN "CREATOR_DONE"
                                 ELSE IF done["opponent"] THEN "OPPONENT_DONE"
                                 ELSE IF d.opponent # NoUser THEN "ACCEPTED" ELSE "PENDING"]

-----------------------------------------------------------------------------
(* The invitation link: take the free seat, then open the first round. *)

\* A mutant of Seated: the last friend to press the link gets the seat.
SeatedLast(d, u) ==
  IF d.status \in Active /\ u # Creator
    THEN [d EXCEPT !.opponent = u, !.status = "ACCEPTED"]
    ELSE d

\* A mutant of Seated: without the check that the duel is not over.
SeatedAfterwards(d, u) ==
  IF d.opponent = NoUser /\ u # Creator
    THEN [d EXCEPT !.opponent = u, !.status = "ACCEPTED"]
    ELSE d

Seated(d, u) ==
  IF d.status \in Active /\ d.opponent = NoUser /\ u # Creator
    THEN [d EXCEPT !.opponent = u, !.status = "ACCEPTED"]
    ELSE d

Join(u, late) ==
  LET d == Refreshed(duel, late)
  IN /\ ~Listed(u)
     /\ duel' = Seated(d, u)
     /\ due' = (due /\ Seated(d, u) = d)
     /\ OpenRound(Seated(d, u), u)
     /\ UNCHANGED <<plan, retired, lists, first>>

StartRound(u, late) ==
  /\ ~Listed(u)
  /\ duel' = Refreshed(duel, late)
  /\ OpenRound(Refreshed(duel, late), u)
  /\ UNCHANGED <<due, plan, retired, lists, first>>

\* Each press of a button is a new attempt: a session may be answered again.
Answer(u, r, correct, late) ==
  LET d == Refreshed(duel, late)
  IN /\ ~Listed(u)
     /\ asked[u][r] # NoQuestion
     /\ InDuel(d, u)
     /\ IF PlayableFor(d, u)
          THEN /\ duel' = Settled(Counted(d, SideOf(u), r, correct))
               /\ first' = [first EXCEPT ![u][r] =
                              IF @ # "none" THEN @ ELSE IF correct THEN "right" ELSE "wrong"]
          ELSE duel' = d /\ UNCHANGED first
     /\ UNCHANGED <<due, plan, asked, retired, lists>>

\* The creator deletes an invitation nobody took.
Cancel(late) ==
  LET d == Refreshed(duel, late)
  IN /\ ~Listed(Creator)
     /\ duel' = IF d.status = "EXPIRED" THEN [d EXCEPT !.status = "CANCELED"] ELSE d
     /\ UNCHANGED <<due, plan, asked, retired, lists, first>>

\* Handlers that change this duel only by its expiry: snapshot, series score,
\* repost, and the creation of a rematch or of a series game.  Some run outside
\* the transaction that holds the row of the user.
Refresh ==
  /\ due
  /\ duel' = Refreshed(duel, TRUE)
  /\ UNCHANGED <<due, plan, asked, retired, lists, first>>

\* A mutant of ExpireDue: the duels one player has finished are forgotten.
ExpireUnfinished ==
  /\ due
  /\ duel.status \in {"PENDING", "ACCEPTED"}
  /\ duel' = Refreshed(duel, TRUE)
  /\ UNCHANGED <<due, plan, asked, retired, lists, first>>

\* The deadline job: PENDING duels, and joined ones in a playable status.
ExpireDue ==
  /\ due
  /\ duel.status = "PENDING" \/ (duel.status \in Playable /\ duel.opponent # NoUser)
  /\ duel' = Refreshed(duel, TRUE)
  /\ UNCHANGED <<due, plan, asked, retired, lists, first>>

-----------------------------------------------------------------------------
(* "Meine Duelle". *)

LoadMyDuels(u) ==
  /\ due
  /\ InDuel(duel, u)
  /\ duel.status \in Active
  /\ ~Listed(u)
  /\ lists' = lists \cup {[user |-> u, row |-> duel]}
  /\ UNCHANGED <<duel, due, plan, asked, retired, first>>

\* The flush: an UPDATE of the columns that differ from the row as loaded.
Overwritten(current, loaded) ==
  LET new == Expired(loaded)
  IN [current EXCEPT
        !.status = new.status,
        !.winner = IF new.winner # loaded.winner THEN new.winner ELSE @,
        !.score = [s \in Sides |-> IF new.score[s] # loaded.score[s] THEN new.score[s] ELSE @[s]]]

WriteMyDuels(u) ==
  \E l \in lists :
    /\ l.user = u
    /\ duel' = Overwritten(duel, l.row)
    /\ lists' = lists \ {l}
    /\ UNCHANGED <<due, plan, asked, retired, first>>

-----------------------------------------------------------------------------

\* A deadline is hours away when it is set: no list stays open that long.
DeadlinePasses ==
  /\ ~due
  /\ lists = {}
  /\ due' = TRUE
  /\ UNCHANGED <<duel, plan, asked, retired, lists, first>>

\* A question is disabled, or deleted by an import of the question bank.
Retire(q) ==
  /\ q \notin retired
  /\ retired' = retired \cup {q}
  /\ UNCHANGED <<duel, due, plan, asked, lists, first>>

Play ==
  \E u \in Players, late \in Clock :
    \/ Join(u, late)
    \/ StartRound(u, late)
    \/ \E r \in 1..Rounds, correct \in BOOLEAN : Answer(u, r, correct, late)

Next ==
  \/ Play
  \/ \E late \in Clock : Cancel(late)
  \/ Refresh
  \/ ExpireDue
  \/ \E u \in Listing : LoadMyDuels(u) \/ WriteMyDuels(u)
  \/ DeadlinePasses
  \/ \E q \in Retirable : Retire(q)

\* Time passes, beat runs the deadline job every few minutes, and a transaction
\* that has loaded a list ends.  Players and the question bank owe the system
\* nothing.
Fairness ==
  /\ WF_vars(DeadlinePasses)
  /\ WF_vars(ExpireDue)
  /\ WF_vars(\E u \in Listing : WriteMyDuels(u))

Spec == Init /\ [][Next]_vars /\ Fairness

-----------------------------------------------------------------------------
(* Properties. *)

RightRounds(u) == {r \in 1..Rounds : first[u][r] = "right"}

\* A session of the duel belongs to one of its two players: a taken seat is
\* never given to somebody else, however many friends press the link at once
\* (friend_challenges_join.py, start_friend_challenge_round).
SeatKept == \A u \in Players, r \in 1..Rounds : asked[u][r] # NoQuestion => InDuel(duel, u)

\* The score is the number of rounds whose first answer was right, and no
\* round is skipped, whatever is answered twice, late or out of turn; only a
\* walkover forfeits points (_apply_friend_challenge_answer).
ScoresFaithful ==
  \A u \in Players : InDuel(duel, u) =>
    /\ \A r \in 1..Rounds : first[u][r] # "none" <=> r <= duel.answered[SideOf(u)]
    /\ duel.status # "WALKOVER" =>
         duel.score[SideOf(u)] = Cardinality(RightRounds(u))

\* A completed duel was played to the end by both and won by the better score;
\* a walkover is won only by the one who finished alone, and nobody else keeps
\* points; no other duel has a winner (sessions_submit_friend_challenge.py,
\* _expire_friend_challenge_if_due).
WinnerEarned ==
  /\ duel.status = "COMPLETED" =>
       /\ \A s \in Sides : duel.answered[s] = Rounds
       /\ duel.winner = Leader(duel.score)
  /\ duel.status = "WALKOVER" =>
       \A s \in Sides :
         /\ duel.winner = s <=> duel.answered[s] = Rounds /\ \E x \in Sides : duel.answered[x] < Rounds
         /\ duel.winner # s => duel.score[s] = 0
  /\ duel.status \notin {"COMPLETED", "WALKOVER"} => duel.winner = "none"

\* The two players of a round get the same question, unless the one that was
\* asked first has been withdrawn since (start_friend_challenge_round).
SameQuestion ==
  \A u, v \in Players, r \in 1..Rounds :
    asked[u][r] # NoQuestion /\ asked[v][r] # NoQuestion /\ asked[u][r] # asked[v][r]
      => {asked[u][r], asked[v][r]} \cap retired # {}

\* docs/archive/duel_turnier_v2_priority.md:31 and the share text "Same Questions
\* Duel": both players get the same questions.
SameQuestionAlways ==
  \A u, v \in Players, r \in 1..Rounds :
    asked[u][r] # NoQuestion /\ asked[v][r] # NoQuestion => asked[u][r] = asked[v][r]

\* A duel that is over never comes back to life, not even through a list that
\* was loaded before (_expire_friend_challenge_if_due, Meine Duelle).
StaysOver == [][duel.status \in Over => duel'.status \in Over]_vars

\* The result of a duel that is over stands; an expired invitation may still
\* be deleted by its creator.
ResultStands ==
  [][duel.status \in Over =>
       /\ duel'.winner = duel.winner
       /\ duel'.score = duel.score
       /\ \/ duel'.status = duel.status
          \/ duel.status = "EXPIRED" /\ duel'.status = "CANCELED"]_vars

\* IMPLEMENTATION_ARCHITECTURE.md:133-135, critical transactions lock what they
\* read: the result two players reached together is not written over.
CompletedStands == [][duel.status = "COMPLETED" => UNCHANGED duel]_vars

\* A duel somebody joined comes to an end, even if a player never answers
\* (run_friend_challenge_deadlines_async).
JoinedDuelEnds == duel.opponent # NoUser ~> duel.status \in Over

\* The duel implements what it promises its players.
Phase == IF duel.status \in Over THEN "over" ELSE IF duel.opponent = NoUser THEN "open" ELSE "running"

Promise == INSTANCE Match WITH
  phase <- Phase, played <- duel.answered, points <- duel.score, winner <- duel.winner

KeepsPromise == Promise!Spec
=============================================================================
