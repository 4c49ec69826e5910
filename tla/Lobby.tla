-------------------------------- MODULE Lobby --------------------------------
(***************************************************************************)
(* The duels of a few friends around the single duel of module Duel: who   *)
(* may create one and at whose expense, rematches and series, open duels,  *)
(* pushes, the deadline job and the proof cards.                           *)
(*                                                                         *)
(* A handler first writes the row of its user (ensure_home_snapshot), so   *)
(* handlers of one user follow one another.  Rematch, best of three and    *)
(* next game lock the finished duel, and then every game of its series;    *)
(* two of these steps of two users may interleave, and the database ends   *)
(* one of two that wait for each other.  A handler reads its clock before  *)
(* it waits.                                                               *)
(*                                                                         *)
(* One tick is half a day; midnight in Berlin comes a tick before midnight *)
(* in UTC.  A player's run through the rounds of a duel is one step.       *)
(***************************************************************************)
EXTENDS Naturals, Sequences, FiniteSets

CONSTANTS
  Friends,       \* users
  FreeCreates,   \* FRIEND_CHALLENGE_FREE_CREATES
  MaxActive,     \* DUEL_MAX_ACTIVE_PER_USER
  MaxNew,        \* DUEL_MAX_NEW_PER_DAY
  MaxPush,       \* DUEL_MAX_PUSH_PER_USER
  BestOf,        \* best_of of a series
  PendingLife,   \* DUEL_PENDING_TTL_SECONDS
  AcceptedLife,  \* DUEL_ACCEPTED_TTL_SECONDS
  LastChance,    \* LAST_CHANCE_SECONDS
  Stories,       \* bounds: what may happen in one behaviour
  NoFriend       \* NULL in a column of users

VARIABLES
  clock,   \* ticks
  duels,   \* rows of friend_challenges, in order of creation
  hands,   \* locked source rows of handlers under way, by user
  purse,   \* credited ticket purchases and premium, by user
  pings,   \* pushes of creators about to be reserved: a duel and the occasion
  story,   \* the bounds of this behaviour

\* History, never read by an action.
  bought,  \* ticket purchases ever credited
  told     \* messages delivered, by duel and side

lobbyVars == <<clock, duels, hands, purse, pings, story, bought, told>>

Sides == {"by", "with"}
Playable == {"ACCEPTED", "CREATOR_DONE", "OPPONENT_DONE"}
Live == Playable \cup {"PENDING"}
Ended == {"COMPLETED", "EXPIRED", "WALKOVER"}
Ids == DOMAIN duels

BerlinDay(t) == (t + 1) \div 2
UtcDay(t) == t \div 2

\* What a side of a duel may have been told: pushes out of its quota; and outside of it
\* the end by the deadline job, the invitation to a rematch or a next game, a result.
Untold == [push |-> 0, over |-> 0, invite |-> 0, result |-> FALSE]
Messages == [push : Nat, over : Nat, invite : Nat, result : BOOLEAN]

Row(by, with, open, access, now) ==
  [by |-> by, with |-> with, open |-> open, access |-> access, winner |-> NoFriend,
   status |-> IF with = NoFriend THEN "PENDING" ELSE "ACCEPTED",
   series |-> 0, game |-> 1, best |-> 1, made |-> now,
   ends |-> now + (IF with = NoFriend THEN PendingLife ELSE AcceptedLife),
   done |-> {}, pushed |-> [s \in Sides |-> 0], reminded |-> FALSE, cards |-> {}]

Rows ==
  [by : Friends, with : Friends \cup {NoFriend}, open : BOOLEAN,
   access : {"FREE", "PAID_TICKET", "PREMIUM"}, winner : Friends \cup {NoFriend},
   status : Live \cup Ended \cup {"CANCELED"},
   series : Nat, game : 1..BestOf, best : {1, BestOf}, made : Nat, ends : Nat,
   done : SUBSET Sides, pushed : [Sides -> 0..MaxPush], reminded : BOOLEAN,
   cards : SUBSET Sides]

\* A duel of the past took no ticket and no push, and opened its series if it has one.
PastRows(i) ==
  {d \in Rows : /\ d.access = "PREMIUM" /\ ~d.open /\ d.with # NoFriend
                /\ d.series \in {0, i} /\ d.game = 1 /\ d.made = 0
                /\ d.pushed = [s \in Sides |-> 0]}

ASSUME LobbyLimits ==
  /\ FreeCreates \in Nat /\ MaxActive \in Nat /\ MaxNew \in Nat /\ MaxPush \in Nat
  /\ BestOf \in Nat \ {0}
  /\ PendingLife \in Nat /\ AcceptedLife \in Nat /\ LastChance \in Nat
  /\ NoFriend \notin Friends

ASSUME StoriesPossible ==
  \A s \in Stories :
    /\ s.users \subseteq Friends /\ s.premium \subseteq Friends
    /\ s.ticks \in Nat /\ s.tickets \in Nat /\ s.lag \in Nat /\ s.duels \in Nat
    /\ s.past \in Seq(Rows) /\ Len(s.past) <= s.duels
    /\ \A i \in DOMAIN s.past : s.past[i] \in PastRows(i)

LobbyTypeOK ==
  /\ story \in Stories
  /\ clock \in 0..story.ticks
  /\ duels \in Seq(Rows) /\ Len(duels) <= story.duels
  /\ DOMAIN hands \subseteq Friends
  /\ \A u \in DOMAIN hands :
       hands[u] \in [kind : {"rematch", "best3", "next"}, source : Ids, now : 0..clock]
  /\ purse \in [Friends -> [tickets : 0..story.tickets, premium : BOOLEAN]]
  /\ pings \subseteq Ids \X {"join", "end"}
  /\ bought \in [Friends -> 0..story.tickets]
  /\ told \in [(1..story.duels) \X Sides -> Messages]

\* Some duels may lie in the past.
LobbyInit ==
  /\ story \in Stories
  /\ clock = 0
  /\ duels = story.past
  /\ hands = <<>>
  /\ purse = [u \in Friends |-> [tickets |-> 0, premium |-> u \in story.premium]]
  /\ pings = {}
  /\ bought = [u \in Friends |-> 0]
  /\ told = [x \in (1..story.duels) \X Sides |-> Untold]

-----------------------------------------------------------------------------
(* One row. *)

SideOf(d, u) == IF u = d.by THEN "by" ELSE "with"
UserOf(d, s) == IF s = "by" THEN d.by ELSE d.with
Others(d, u) == {d.by, d.with} \ {u, NoFriend}

\* The side that is done alone wins by walkover.
Expired(d) ==
  IF d.status = "PENDING" THEN [d EXCEPT !.status = "EXPIRED"]
  ELSE [d EXCEPT !.status = "WALKOVER",
                 !.winner = IF d.done = {"by"} THEN d.by
                            ELSE IF d.done = {"with"} THEN d.with ELSE NoFriend]

Refreshed(d, now) == IF d.status \in Live /\ d.ends <= now THEN Expired(d) ELSE d

Locked(i) == \E u \in DOMAIN hands : hands[u].source = i
Free(u) == u \notin DOMAIN hands

\* What the clock of a handler may say.
Clocks == {t \in (clock - story.lag)..clock : t >= 0}

Change(i, d) == duels' = [duels EXCEPT ![i] = d]

-----------------------------------------------------------------------------
(* Who may create a duel. *)

Made(u, times) == {i \in Ids : duels[i].by = u /\ duels[i].made \in times}
UtcToday(now) == {t \in 0..clock : UtcDay(t) >= UtcDay(now)}
BerlinToday(now) == {t \in 0..clock : BerlinDay(t) >= BerlinDay(now)}

\* A mutant of AccessFor: it forgets the tickets that were used before today.
AccessForToday(u, now) ==
  LET today(access) == {i \in Made(u, UtcToday(now)) : duels[i].access = access}
  IN IF purse[u].premium THEN {"PREMIUM"}
     ELSE IF Cardinality(today("FREE")) < FreeCreates THEN {"FREE"}
     ELSE IF Cardinality(today("PAID_TICKET")) < purse[u].tickets THEN {"PAID_TICKET"} ELSE {}

\* Premium, two a day for nothing, or a ticket for each further one; read under
\* the lock of the user.
AccessFor(u, now) ==
  LET today == {i \in Made(u, UtcToday(now)) : duels[i].access = "FREE"}
      paid == {i \in Made(u, 0..clock) : duels[i].access = "PAID_TICKET"}
  IN IF purse[u].premium THEN {"PREMIUM"}
     ELSE IF Cardinality(today) < FreeCreates THEN {"FREE"}
     ELSE IF Cardinality(paid) < purse[u].tickets THEN {"PAID_TICKET"} ELSE {}

LiveOf(rows, u) == {i \in Ids : rows[i].status \in Live /\ u \in {rows[i].by, rows[i].with}}
OpenOf(rows, u) == {i \in Ids : rows[i].status \in Live /\ rows[i].open /\ rows[i].by = u}
NewOf(u, now) == Made(u, BerlinToday(now))

\* create_friend_challenge: the duels it may add to the rows, none when it raises.
Creatable(rows, u, open, now) ==
  {Row(u, NoFriend, open, a, now) :
     a \in {x \in AccessFor(u, now) :
              /\ Cardinality(LiveOf(rows, u)) < MaxActive
              /\ open => OpenOf(rows, u) = {}
              /\ Cardinality(NewOf(u, now)) < MaxNew}}

Room == Len(duels) < story.duels

\* "Create a duel", for a friend or for anybody.
CreateSelected(u, open, now) ==
  /\ Free(u) /\ Room
  /\ \E d \in Creatable(duels, u, open, now) : duels' = Append(duels, d)
  /\ UNCHANGED <<clock, hands, purse, pings, story, bought, told>>

\* repost_friend_challenge_as_open, of an invitation nobody took.
Reposts(u, i, now) ==
  LET rows == [duels EXCEPT ![i] = Refreshed(@, now)]
  IN {Append(rows, new) :
        new \in {d \in Creatable(rows, u, TRUE, now) : rows[i].by = u /\ rows[i].status = "EXPIRED"}}

\* The creator offers an expired invitation to everybody, or deletes it.
Repost(u, i, now) ==
  /\ Free(u) /\ Room /\ ~Locked(i)
  /\ duels' \in Reposts(u, i, now)
  /\ UNCHANGED <<clock, hands, purse, pings, story, bought, told>>

CancelByCreator(u, i, now) ==
  LET d == Refreshed(duels[i], now)
  IN /\ Free(u) /\ ~Locked(i)
     /\ d.by = u /\ d.status = "EXPIRED"
     /\ Change(i, [d EXCEPT !.status = "CANCELED"])
     /\ UNCHANGED <<clock, hands, purse, pings, story, bought, told>>

-----------------------------------------------------------------------------
(* Rematches and series. *)

SeriesOf(d) == {i \in Ids : d.series # 0 /\ duels[i].series = d.series}

Wins(d, u) ==
  Cardinality({i \in SeriesOf(d) : duels[i].status \in Ended /\ duels[i].winner = u})

Decided(d) == \E u \in {d.by, d.with} \ {NoFriend} : Wins(d, u) >= d.best \div 2 + 1

\* A mutant of LastGame: the number of the game that was pressed.
LastGameSeen(d) == d.game

\* Read with every game of the series locked.
LastGame(d) ==
  CHOOSE n \in 1..BestOf : /\ \E i \in SeriesOf(d) : duels[i].game = n
                           /\ \A i \in SeriesOf(d) : duels[i].game <= n

Goes(d) == ~Decided(d) /\ LastGame(d) < d.best

\* The first lock: a finished duel of the user with somebody.
LockSource(u, kind, i, now) ==
  LET d == Refreshed(duels[i], now)
  IN /\ Free(u) /\ Room /\ ~Locked(i)
     /\ d.status \in Ended
     /\ u \in {d.by, d.with} /\ Others(d, u) # {}
     /\ hands' = [v \in DOMAIN hands \cup {u} |->
                    IF v = u THEN [kind |-> kind, source |-> i, now |-> now] ELSE hands[v]]
     /\ UNCHANGED <<clock, duels, purse, pings, story, bought, told>>

Rematch(u, i, now) == LockSource(u, "rematch", i, now)
BestOfThree(u, i, now) == LockSource(u, "best3", i, now)
NextGame(u, i, now) == LockSource(u, "next", i, now)

\* What is left to lock is not held by anybody else.
SeriesFree(u) ==
  LET d == duels[hands[u].source]
  IN hands[u].kind = "best3" \/ \A i \in SeriesOf(d), v \in DOMAIN hands \ {u} : hands[v].source # i

\* A rematch continues a series that is not decided, and else stands alone.
Placed(kind, d, new) ==
  IF kind = "best3"
    THEN {[new EXCEPT !.series = Len(duels) + 1, !.best = BestOf]}
  ELSE IF d.series # 0 /\ Goes(d)
    THEN {[new EXCEPT !.series = d.series, !.game = LastGame(d) + 1, !.best = d.best]}
  ELSE IF kind = "rematch" THEN {new} ELSE {}

\* The other player is told of the new duel after the commit, whatever his quota; the
\* message may be lost.
Invited(i) == {told, [told EXCEPT ![<<i, "with">>].invite = @ + 1]}

\* The rest of the transaction; when it raises, only the expiry is kept.
FinishSource(u) ==
  LET h == hands[u]
      d == Refreshed(duels[h.source], h.now)
      rows == UNION {UNION {Placed(h.kind, d, Row(u, v, FALSE, a, h.now)) : a \in AccessFor(u, h.now)}
                       : v \in Others(d, u)}
      kept == [duels EXCEPT ![h.source] = d]
  IN /\ SeriesFree(u)
     /\ \/ rows = {} /\ duels' = kept /\ told' = told
        \/ Room /\ (\E new \in rows : duels' = Append(kept, new)) /\ told' \in Invited(Len(duels) + 1)
     /\ hands' = [v \in DOMAIN hands \ {u} |-> hands[v]]
     /\ UNCHANGED <<clock, purse, pings, story, bought>>

\* Two wait for each other: the database rolls one of them back.
DeadlockEnds(u) ==
  /\ u \in DOMAIN hands
  /\ \A v \in DOMAIN hands : ~SeriesFree(v)
  /\ hands' = [v \in DOMAIN hands \ {u} |-> hands[v]]
  /\ UNCHANGED <<clock, duels, purse, pings, story, bought, told>>

-----------------------------------------------------------------------------
(* Joining and playing. *)

Pinged(new) == IF "push" \in story.does THEN pings \cup new ELSE pings

\* A friend takes the free seat; the creator is to be told.
Join(u, i, now) ==
  LET d == Refreshed(duels[i], now)
  IN /\ Free(u) /\ ~Locked(i)
     /\ d.status \in Live /\ d.with = NoFriend /\ u # d.by
     /\ Change(i, [d EXCEPT !.with = u, !.status = "ACCEPTED", !.ends = now + AcceptedLife])
     /\ pings' = Pinged({<<i, "join">>})
     /\ UNCHANGED <<clock, hands, purse, story, bought, told>>

\* handle_completed_friend_challenge: the answer of u found the duel over, so the other
\* player is told how it ended, outside the quota; the message may be lost.
ResultTold(i, d, u) ==
  {told} \cup {[told EXCEPT ![<<i, SideOf(d, v)>>].result = TRUE] : v \in Others(d, u)}

\* The last answer of a player.  The creator who has not begun is told again.
Finish(u, i, now, winner) ==
  LET d == Refreshed(duels[i], now)
      done == d.done \cup {SideOf(d, u)}
  IN /\ Free(u) /\ ~Locked(i)
     /\ u \in {d.by, d.with} /\ SideOf(d, u) \notin d.done
     /\ d.status \in Playable \/ (d.status = "PENDING" /\ u = d.by)
     /\ done # Sides => winner = NoFriend
     /\ Change(i, [d EXCEPT !.done = done, !.winner = winner,
                            !.status = IF done = Sides THEN "COMPLETED"
                                       ELSE IF done = {"by"} THEN "CREATOR_DONE" ELSE "OPPONENT_DONE"])
     /\ pings' = Pinged(IF done = {"with"} THEN {<<i, "end">>} ELSE {})
     /\ told' \in IF done = Sides THEN ResultTold(i, d, u) ELSE {told}
     /\ UNCHANGED <<clock, hands, purse, story, bought>>

\* An answer to a question that is still open comes when the duel is over: nothing
\* counts any more, but the other player is told the result, perhaps once more.
AnswerLate(u, i, now) ==
  LET d == Refreshed(duels[i], now)
  IN /\ Free(u) /\ ~Locked(i)
     /\ u \in {d.by, d.with} /\ d.status \notin Live
     /\ Change(i, d)
     /\ told' \in ResultTold(i, d, u)
     /\ UNCHANGED <<clock, hands, purse, pings, story, bought>>

\* A player looks at a duel: its time may be over.
Look(u, i, now) ==
  /\ Free(u) /\ ~Locked(i)
  /\ u \in {duels[i].by, duels[i].with}
  /\ Change(i, Refreshed(duels[i], now))
  /\ UNCHANGED <<clock, hands, purse, pings, story, bought, told>>

\* A mutant of MayPush: pushes are counted and never refused.
MayAlwaysPush(d, s) == TRUE

MayPush(d, s) == d.pushed[s] < MaxPush

\* A transaction of its own, after the one that is its occasion; then the message,
\* which may be lost.  A creator who has played by then does not hear of a join.
ReservePush(i, occasion, arrives) ==
  LET d == duels[i]
  IN /\ ~Locked(i)
     /\ pings' = pings \ {<<i, occasion>>}
     /\ IF (occasion = "join" => "by" \notin d.done) /\ MayPush(d, "by")
          THEN /\ Change(i, [d EXCEPT !.pushed["by"] = @ + 1])
               /\ told' = [told EXCEPT ![<<i, "by">>].push = @ + IF arrives THEN 1 ELSE 0]
          ELSE UNCHANGED <<duels, told>>
     /\ UNCHANGED <<clock, hands, purse, story, bought>>

-----------------------------------------------------------------------------
(* The deadline job: reminders, then the duels whose time is over. *)

\* The one the other waits for.
Awaited(d) ==
  {s \in Sides : /\ d.status = IF s = "with" THEN "CREATOR_DONE" ELSE "OPPONENT_DONE"
                 /\ UserOf(d, s) # NoFriend
                 /\ MayPush(d, s)}

Reminds(d) ==
  IF d.status \in Playable /\ d.ends > clock /\ d.ends <= clock + LastChance /\ ~d.reminded
    THEN Awaited(d) ELSE {}

\* PENDING duels, and those with both players.
Overdue(d) == d.ends <= clock /\ (d.status = "PENDING" \/ (d.status \in Playable /\ d.with # NoFriend))

Swept(d) ==
  IF Overdue(d) THEN Expired(d)
  ELSE [d EXCEPT !.reminded = @ \/ Reminds(d) # {},
                 !.pushed = [s \in Sides |-> IF s \in Reminds(d) THEN @[s] + 1 ELSE @[s]]]

\* Who is told that the job has ended a duel: the creator of an invitation nobody took,
\* else both players.
EndTold(d) ==
  IF ~Overdue(d) THEN {} ELSE IF d.status = "PENDING" THEN {"by"} ELSE Sides

\* send_deadline_notifications: the reminders were counted, the notices of the end are not.
Notified(rows) ==
  [x \in DOMAIN told |->
     LET due(who) == IF x[1] \in rows /\ x[2] \in who THEN 1 ELSE 0
     IN [told[x] EXCEPT !.push = @ + due(Reminds(duels[x[1]])),
                        !.over = @ + due(EndTold(duels[x[1]]))]]

\* It stamps and counts, commits, and sends afterwards: the messages may be lost.
RunDeadlines(arrive) ==
  LET rows == {i \in Ids : ~Locked(i)}
  IN /\ duels' = [i \in Ids |-> IF i \in rows THEN Swept(duels[i]) ELSE duels[i]]
     /\ duels' # duels
     /\ told' = IF arrive THEN Notified(rows) ELSE told
     /\ UNCHANGED <<clock, hands, purse, pings, story, bought>>

\* The proof cards of a finished duel go to both players, or to one who shares it.
CardsAsked == {Sides} \cup {{s} : s \in Sides}

\* A refusal ends the sending: that of the creator leaves the other without a card.
Taken(d, asked, refused) ==
  LET meant == {s \in asked : UserOf(d, s) # NoFriend}
  IN IF refused \in meant THEN {s \in meant : s = "by" /\ refused = "with"} ELSE meant

\* The pictures Telegram has taken are kept, to be sent again.
SendProofCards(i, asked, refused) ==
  /\ ~Locked(i)
  /\ duels[i].status \in Ended
  /\ Change(i, [duels[i] EXCEPT !.cards = @ \cup Taken(duels[i], asked, refused)])
  /\ UNCHANGED <<clock, hands, purse, pings, story, bought, told>>

-----------------------------------------------------------------------------
(* Tickets, premium and time. *)

TicketCredited(u) ==
  /\ bought[u] < story.tickets
  /\ purse' = [purse EXCEPT ![u].tickets = @ + 1]
  /\ bought' = [bought EXCEPT ![u] = @ + 1]
  /\ UNCHANGED <<clock, duels, hands, pings, story, told>>

TicketRefunded(u) ==
  /\ purse[u].tickets > 0
  /\ purse' = [purse EXCEPT ![u].tickets = @ - 1]
  /\ UNCHANGED <<clock, duels, hands, pings, story, bought, told>>

PremiumEnds(u) ==
  /\ purse[u].premium
  /\ purse' = [purse EXCEPT ![u].premium = FALSE]
  /\ UNCHANGED <<clock, duels, hands, pings, story, bought, told>>

\* A handler does not wait longer than its clock may lag behind.
Wait ==
  /\ clock < story.ticks
  /\ \A u \in DOMAIN hands : hands[u].now = clock
  /\ clock' = clock + 1
  /\ UNCHANGED <<duels, hands, purse, pings, story, bought, told>>

Presses ==
  \E u \in story.users, now \in Clocks :
    \/ /\ "create" \in story.does
       /\ \/ \E open \in BOOLEAN : CreateSelected(u, open, now)
          \/ \E i \in Ids : Repost(u, i, now) \/ CancelByCreator(u, i, now)
    \/ /\ "rematch" \in story.does
       /\ \E i \in Ids : Rematch(u, i, now) \/ BestOfThree(u, i, now) \/ NextGame(u, i, now)
    \/ /\ "play" \in story.does
       /\ \E i \in Ids :
            \/ Join(u, i, now)
            \/ \E winner \in {duels[i].by, duels[i].with, NoFriend} : Finish(u, i, now, winner)
    \/ "late" \in story.does /\ \E i \in Ids : AnswerLate(u, i, now)
    \/ \E i \in Ids : Look(u, i, now)

LobbyNext ==
  \/ Presses
  \/ \E u \in DOMAIN hands : FinishSource(u)
  \/ \E u \in Friends : DeadlockEnds(u)
  \/ /\ "push" \in story.does
     /\ \/ \E p \in pings, arrives \in BOOLEAN : ReservePush(p[1], p[2], arrives)
        \/ \E arrive \in BOOLEAN : RunDeadlines(arrive)
  \/ /\ "cards" \in story.does
     /\ \E i \in Ids, asked \in CardsAsked, refused \in Sides \cup {"none"} :
          SendProofCards(i, asked, refused)
  \/ /\ "spend" \in story.does
     /\ \E u \in story.users : TicketCredited(u) \/ TicketRefunded(u) \/ PremiumEnds(u)
  \/ Wait

LobbySpec == LobbyInit /\ [][LobbyNext]_lobbyVars

-----------------------------------------------------------------------------
(* Properties. *)

(* Nobody plays more than was free or paid for, whatever is created, reposted or
   rematched at once and on either side of the two midnights: the duels created
   with a ticket are at most the tickets ever credited, and at most FreeCreates
   of a day were free (_resolve_friend_challenge_access_type). *)
TicketsCover ==
  \A u \in Friends :
    LET by(access) == {i \in Ids : duels[i].by = u /\ duels[i].access = access}
    IN /\ Cardinality(by("PAID_TICKET")) <= bought[u]
       /\ \A i \in Ids : Cardinality({j \in by("FREE") :
            UtcDay(duels[j].made) = UtcDay(duels[i].made)}) <= FreeCreates

(* However both players press "rematch", "next game" and "best of three" on the
   games of a series: its games are numbered 1, 2, ... without gap or repetition
   up to best_of at most, and are all between the same two
   (create_friend_challenge_series_next_game, create_friend_challenge_rematch). *)
SeriesSound ==
  \A i \in Ids :
    LET games == SeriesOf(duels[i])
    IN games # {} =>
         /\ {duels[j].game : j \in games} = 1..Cardinality(games)
         /\ Cardinality(games) <= duels[i].best
         /\ \A j \in games : {duels[j].by, duels[j].with} = {duels[i].by, duels[i].with}

(* Reminders are rationed: the messages that take a push from the counters of a duel,
   for the join, for the end of the other's run and before the deadline, never reach a
   side more than MaxPush times (reserve_duel_push_slot, _notify_creator_about_join,
   run_friend_challenge_deadlines_async).  The other messages take none and are bounded
   only by what they tell of: a side hears of a new duel once, and from the deadline job
   of its end once (send_deadline_notifications); nobody is told of the end or of the
   result of a duel that goes on, or of an end by time where both played to the end.
   And a user has one open duel at most on offer, created or reposted. *)
QuotasKept ==
  /\ \A x \in DOMAIN told : /\ told[x].push <= MaxPush
                            /\ told[x].over <= 1 /\ told[x].invite <= 1
  /\ \A i \in 1..story.duels, s \in Sides :
       LET t == told[<<i, s>>]
       IN /\ t.over > 0 \/ t.result => i \in Ids /\ duels[i].status \notin Live
          /\ t.over > 0 => duels[i].status # "COMPLETED"
  /\ \A u \in Friends : Cardinality({i \in OpenOf(duels, u) : duels[i].with = NoFriend}) <= 1

\* What players are promised about duels: tickets, series, quiet.
LobbySound == LobbyTypeOK /\ TicketsCover /\ SeriesSound /\ QuotasKept
=============================================================================
