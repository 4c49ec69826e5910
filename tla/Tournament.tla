----------------------------- MODULE Tournament -----------------------------
(***************************************************************************)
(* One tournament: a private one among friends, or the daily cup.  Players *)
(* register, rounds are paired by score, every match is a duel, and a job  *)
(* looks for rounds whose time is up.                                      *)
(*                                                                         *)
(* An answer locks the duel and its match, reads the tournament without a  *)
(* lock, and in the cup, when it is the last or finds the time of the duel *)
(* over, settles the match and may start the next round; the job locks the *)
(* tournament first and then the matches.  Each is therefore two steps     *)
(* here: the locks it takes first, and the rest.  When both hold what the  *)
(* other needs, the database ends one of them.                             *)
(*                                                                         *)
(* A player's run through the questions of a duel is one answer, the last  *)
(* (the questions are the subject of Duel).  Scores are in half points.    *)
(***************************************************************************)
EXTENDS Naturals, SequencesExt

CONSTANTS
  Entrants,       \* users who come, 1..n
  MinEntrants,    \* TOURNAMENT_MIN_PARTICIPANTS
  Capacity,       \* max_participants
  PrivateRounds,  \* TOURNAMENT_MAX_ROUNDS
  CupRounds,      \* daily_cup_max_rounds_for_participants
  BotScore,       \* TOURNAMENT_SELF_BOT_DEFAULT_CORRECT_ANSWERS
  TopScore,       \* questions of a duel
  Grace,          \* DAILY_CUP_TURN_RESPONSE_GRACE_MINUTES
  Slot,           \* how long a round lasts
  Closes,         \* registration_deadline
  LastHour,       \* bound: the end of time, when every deadline is over
  TourKinds,      \* kinds of tournament to look at
  NoOne, NoTime   \* NULL in a column of users, of times

VARIABLES
  hour,   \* the clock
  tour,   \* the row of the tournament, its participants, matches and results
  turns,  \* answers under way: player -> the match locked, what was read, the clock read
  sweep   \* the job under way: the clock it read; NoTime: none

tourVars == <<hour, tour, turns, sweep>>

Hours == 0..LastHour
MaxRounds(t) == IF t.kind = "PRIVATE" THEN PrivateRounds ELSE CupRounds
Joined(t) == DOMAIN t.entry
Playing == {"ACCEPTED", "CREATOR_DONE", "OPPONENT_DONE"}
Most == 2 * (PrivateRounds + CupRounds)
Marks == 0..TopScore

Games ==
  [round : 1..Most, a : Entrants, b : Entrants \cup {NoOne},
   status : {"PENDING", "COMPLETED", "WALKOVER"}, winner : Entrants \cup {NoOne},
   deadline : Nat, expires : Nat, duel : Playing \cup {"COMPLETED", "WALKOVER"},
   mark : [{"a", "b"} -> Marks]]

TourTypeOK ==
  /\ hour \in Hours
  /\ tour.kind \in TourKinds
  /\ tour.status \in {"REGISTRATION", "ROUND", "COMPLETED", "CANCELED"}
  /\ tour.round \in 0..MaxRounds(tour)
  /\ tour.deadline \in Nat \cup {NoTime}
  /\ Joined(tour) \subseteq Entrants
  /\ \A p \in Joined(tour) :
       tour.entry[p] \in [score : 0..Most, tie : 0..Most * TopScore, joined : 1..Capacity]
  /\ tour.games \in Seq(Games)
  /\ tour.results \in [Entrants \X (1..MaxRounds(tour)) -> [points : 0..2, right : Marks] \cup {NoOne}]
  /\ DOMAIN turns \subseteq Entrants
  /\ \A p \in DOMAIN turns : turns[p].game \in 1..Len(tour.games)
  /\ sweep \in Hours \cup {NoTime}

Entry(n) == [score |-> 0, tie |-> 0, joined |-> n]

\* The creator of a private tournament takes part; the cup belongs to nobody.
NewTournament(k) ==
  [kind |-> k, status |-> "REGISTRATION", round |-> 0, deadline |-> NoTime,
   entry |-> IF k = "PRIVATE" THEN <<Entry(1)>> ELSE <<>>,
   games |-> <<>>, results |-> [x \in Entrants \X (1..MaxRounds([kind |-> k])) |-> NoOne]]

\* One cup for one deadline: an advisory lock keeps two jobs from making two.
TourInit ==
  /\ hour = 0
  /\ \E k \in TourKinds : tour = NewTournament(k)
  /\ turns = <<>>
  /\ sweep = NoTime

-----------------------------------------------------------------------------
(* Pairing. *)

\* By score, then tie break, then who came first.
Ahead(t, p, q) ==
  LET x == t.entry[p]  y == t.entry[q]
  IN \/ x.score > y.score
     \/ x.score = y.score /\ x.tie > y.tie
     \/ x.score = y.score /\ x.tie = y.tie /\ x.joined < y.joined

Opponents(t, p) ==
  {q \in Joined(t) : \E i \in DOMAIN t.games : {t.games[i].a, t.games[i].b} = {p, q} /\ p # q}

HadBye(t) == {t.games[i].a : i \in {j \in DOMAIN t.games : t.games[j].b = NoOne}}

\* The lowest score, then the lowest tie break; among equals, who came first.
Below(t, p, q) ==
  LET x == t.entry[p]  y == t.entry[q]
  IN \/ x.score < y.score
     \/ x.score = y.score /\ x.tie < y.tie
     \/ x.score = y.score /\ x.tie = y.tie /\ x.joined < y.joined

\* A mutant of ByePlayer: the lowest of all sits out, every time.
AlwaysLowest(t) ==
  IF Cardinality(Joined(t)) % 2 = 0 THEN {}
  ELSE {p \in Joined(t) : \A q \in Joined(t) \ {p} : Below(t, p, q)}

\* The lowest of those who have not sat out yet, or of all.
ByePlayer(t) ==
  IF Cardinality(Joined(t)) % 2 = 0 THEN {}
  ELSE LET fresh == Joined(t) \ HadBye(t)
           pool == IF fresh = {} THEN Joined(t) ELSE fresh
       IN {p \in pool : \A q \in pool \ {p} : Below(t, p, q)}

\* Ways to seat n players in pairs; the search tries partners from the top, so it finds
\* the first in this order.
Seatings(n) == {g \in [1..n -> 1..n] : \A i \in 1..n : g[i] # i /\ g[g[i]] = i}
FoundFirst(g, h) == \E i \in DOMAIN g : g[i] < h[i] /\ \A j \in 1..(i - 1) : g[j] = h[j]

Pairing(t) ==
  LET ranked == {SetToSortSeq(Joined(t) \ ByePlayer(t), LAMBDA p, q : Ahead(t, p, q))}
      fresh(o, g) == \A i \in DOMAIN o : o[g[i]] \notin Opponents(t, o[i])
      better(o, g, h) == \/ fresh(o, g) /\ ~fresh(o, h)
                         \/ fresh(o, g) = fresh(o, h) /\ FoundFirst(g, h)
  IN UNION {LET g == CHOOSE g \in Seatings(Len(o)) :
                       \A h \in Seatings(Len(o)) \ {g} : better(o, g, h)
            IN UNION {{<<o[i], o[k[i]]>> : i \in {j \in DOMAIN o : j < k[j]}} : k \in {g}}
              : o \in ranked}

NewGame(t, r, a, b, deadline) ==
  LET free == b = NoOne /\ t.kind = "PRIVATE"
  IN [round |-> r, a |-> a, b |-> b, deadline |-> deadline, expires |-> deadline,
      status |-> IF free THEN "WALKOVER" ELSE "PENDING",
      winner |-> IF free THEN a ELSE NoOne,
      duel |-> "ACCEPTED", mark |-> [s \in {"a", "b"} |-> 0]]

\* create_round_matches: a private bye is a point at once, a bye of the cup a duel with the bot.
StartRound(t, r, now) ==
  LET deadline == Min({LastHour, IF t.kind = "PRIVATE" THEN now + Slot ELSE Closes + r * Slot})
      byes == ByePlayer(t)
      start(new) ==
        [t EXCEPT
          !.status = "ROUND", !.round = r, !.deadline = deadline, !.games = @ \o new,
          !.entry = [p \in DOMAIN @ |->
            IF p \in byes /\ t.kind = "PRIVATE" THEN [@[p] EXCEPT !.score = @ + 2] ELSE @[p]]]
  IN CHOOSE u \in {start(SetToSeq({NewGame(t, r, x[1], x[2], deadline) : x \in pairs})) :
                   pairs \in {Pairing(t) \cup {<<p, NoOne>> : p \in byes}}} : TRUE

-----------------------------------------------------------------------------
(* Settling matches. *)

SideIn(g, p) == IF p = g.a THEN "a" ELSE "b"
Done(g, s) ==
  \/ g.duel = "COMPLETED"
  \/ s = "a" /\ g.duel = "CREATOR_DONE"
  \/ s = "b" /\ g.duel = "OPPONENT_DONE"
  \/ g.duel = "WALKOVER" /\ g.winner # NoOne /\ g.winner = (IF s = "a" THEN g.a ELSE g.b)

\* The duel ends at its time: who is done wins, everybody else's score is 0.
Timeout(g, now) ==
  IF g.duel \notin Playing \/ now < g.expires THEN g
  ELSE LET done(s) == Done(g, s)
       IN [g EXCEPT !.duel = "WALKOVER",
                    !.winner = IF done("a") THEN g.a ELSE IF done("b") THEN g.b ELSE NoOne,
                    !.mark = [s \in {"a", "b"} |-> IF done(s) THEN g.mark[s] ELSE 0]]

\* A mutant of Settled: whatever is open when the job comes is a walkover.
SettledAtOnce(g, now) ==
  LET e == Timeout([g EXCEPT !.expires = 0], now)
  IN IF g.status # "PENDING" THEN g ELSE [e EXCEPT !.status = e.duel]

\* A mutant of Settled: the job waits for the duel to end.
SettledIfPlayed(g, now) ==
  IF g.status # "PENDING" \/ g.duel \in Playing THEN g ELSE [g EXCEPT !.status = g.duel]

\* settle_pending_match_from_duel, the part about the match and its duel.
Settled(g, now) ==
  IF g.status # "PENDING" THEN g
  ELSE LET e == Timeout([g EXCEPT !.expires = IF @ > g.deadline THEN g.deadline ELSE @], now)
       IN IF e.duel \in Playing THEN e ELSE [e EXCEPT !.status = e.duel]

\* What a player gets for a match: two for a win, one for a draw.
Points(t, g, p) ==
  LET s == SideIn(g, p)
      mine == g.mark[s]
      other == g.mark[IF s = "a" THEN "b" ELSE "a"]
  IN IF t.kind = "PRIVATE"
     THEN IF g.winner = p THEN 2 ELSE IF g.winner = NoOne /\ g.status = "COMPLETED" THEN 1 ELSE 0
     ELSE IF ~Done(g, s) THEN 0 ELSE IF mine > other THEN 2 ELSE IF mine = other THEN 1 ELSE 0

\* The row of the cup's result is written over, and the total counted again; a private
\* tournament adds to the total.
Credited(t, settled) ==
  LET row(i, p) == [points |-> Points(t, t.games[i], p),
                    right |-> t.games[i].mark[SideIn(t.games[i], p)]]
      mine(p) == {i \in settled : p \in {t.games[i].a, t.games[i].b}}
      new(p) == row(CHOOSE i \in mine(p) : TRUE, p)
      results == [x \in DOMAIN t.results |->
                    IF t.kind = "DAILY_ARENA" /\ x[2] = t.round /\ mine(x[1]) # {}
                    THEN new(x[1]) ELSE t.results[x]]
      rows(p) == IF t.kind = "PRIVATE"
                 THEN {<<0, [points |-> t.entry[p].score, right |-> t.entry[p].tie]>>, <<1, new(p)>>}
                 ELSE {<<x[2], results[x]>> : x \in {y \in DOMAIN results :
                                                     y[1] = p /\ results[y] # NoOne}}
  IN [t EXCEPT !.results = results,
               !.entry = [p \in DOMAIN @ |->
                 IF mine(p) = {} THEN @[p]
                 ELSE [@[p] EXCEPT
                        !.score = MapThenSumSet(LAMBDA r : r[2].points, rows(p)),
                        !.tie = MapThenSumSet(LAMBDA r : r[2].right, rows(p))]]]

\* A mutant of SettleGames: a match is credited whenever a round is looked at.
CreditAlways(t, S, now) ==
  LET games == [i \in DOMAIN t.games |-> IF i \in S THEN Settled(t.games[i], now) ELSE t.games[i]]
  IN Credited([t EXCEPT !.games = games], {i \in S : games[i].status # "PENDING"})

SettleGames(t, S, now) ==
  LET games == [i \in DOMAIN t.games |-> IF i \in S THEN Settled(t.games[i], now) ELSE t.games[i]]
  IN Credited([t EXCEPT !.games = games],
              {i \in S : t.games[i].status = "PENDING" /\ games[i].status # "PENDING"})

OfRound(t) == {i \in DOMAIN t.games : t.games[i].round = t.round}
PendingLeft(t) == \E i \in OfRound(t) : t.games[i].status = "PENDING"

Advanced(t, now) ==
  IF PendingLeft(t) THEN t
  ELSE IF t.round >= MaxRounds(t) THEN [t EXCEPT !.status = "COMPLETED", !.deadline = NoTime]
  ELSE StartRound(t, t.round + 1, now)

\* A mutant of SettleRound: the round moves on without the matches still open.
SettleRoundHalf(t, now) ==
  LET u == SettleGames(t, OfRound(t), now)
  IN IF \A i \in OfRound(u) : u.games[i].status = "PENDING" THEN u
     ELSE IF u.round >= MaxRounds(u) THEN [u EXCEPT !.status = "COMPLETED", !.deadline = NoTime]
     ELSE StartRound(u, u.round + 1, now)

\* settle_round_and_advance
SettleRound(t, now) ==
  CHOOSE u \in {Advanced(v, now) : v \in {SettleGames(t, OfRound(t), now)}} : TRUE

-----------------------------------------------------------------------------
(* Registration. *)

MayJoin(t) ==
  t.status = "REGISTRATION" /\ hour < Closes /\ Cardinality(Joined(t)) < Capacity

\* Users are numbered in the order in which they join.
JoinTournament ==
  /\ MayJoin(tour)
  /\ LET n == Cardinality(Joined(tour)) + 1
     IN n \in Entrants /\ tour' = [tour EXCEPT !.entry = (n :> Entry(n)) @@ @]
  /\ UNCHANGED <<hour, turns, sweep>>

\* The creator may start late: nothing looks at the deadline of the registration.
MayStart(t) ==
  t.kind = "PRIVATE" /\ t.status = "REGISTRATION" /\ Cardinality(Joined(t)) >= MinEntrants

StartPrivate ==
  /\ MayStart(tour)
  /\ tour' = StartRound(tour, 1, hour)
  /\ UNCHANGED <<hour, turns, sweep>>

TooFew(t) == Cardinality(Joined(t)) < MinEntrants

\* The job of the private tournaments gives up those that stay small.
CancelPrivate ==
  /\ tour.kind = "PRIVATE" /\ tour.status = "REGISTRATION" /\ hour >= Closes
  /\ TooFew(tour)
  /\ tour' = [tour EXCEPT !.status = "CANCELED", !.deadline = NoTime]
  /\ UNCHANGED <<hour, turns, sweep>>

CloseCup ==
  /\ tour.kind = "DAILY_ARENA" /\ tour.status = "REGISTRATION" /\ hour >= Closes
  /\ tour' = IF TooFew(tour) THEN [tour EXCEPT !.status = "CANCELED", !.deadline = NoTime]
             ELSE StartRound(tour, 1, hour)
  /\ UNCHANGED <<hour, turns, sweep>>

-----------------------------------------------------------------------------
(* Playing, and the job. *)

\* The match whose questions a player has before him: of the current round, still open.
Offered(p) ==
  {i \in OfRound(tour) : LET g == tour.games[i]
                         IN p \in {g.a, g.b} /\ g.status = "PENDING" /\ ~Done(g, SideIn(g, p))}

GameLocks == {turns[q].game : q \in DOMAIN turns}

InTime(g, now) == g.duel \in Playing /\ now < g.expires

\* The duel and its match are locked; the tournament is read, but not locked.  The answer
\* may be late; in a private tournament it then does no more than LookAtGame.
BeginAnswer(p) ==
  /\ tour.status = "ROUND" /\ p \notin DOMAIN turns
  /\ \E i \in Offered(p) \ GameLocks :
       /\ tour.kind = "DAILY_ARENA" \/ InTime(tour.games[i], hour)
       /\ turns' = (p :> [game |-> i, now |-> hour, read |-> tour.deadline]) @@ turns
  /\ UNCHANGED <<hour, tour, sweep>>

\* Whoever looks at a duel whose time is over ends it; its match stays open.
LookAtGame(p) ==
  /\ \E i \in Offered(p) \ GameLocks :
       /\ tour.games[i].duel \in Playing /\ tour.games[i].expires <= hour
       /\ tour' = [tour EXCEPT !.games[i] = Timeout(@, hour)]
  /\ UNCHANGED <<hour, turns, sweep>>

\* The answer as the duel sees it; the bot answers a bye of the cup.
Answered(g, p, right) ==
  LET s == SideIn(g, p)
      mark == [g.mark EXCEPT ![s] = right]
      other == IF s = "a" THEN "b" ELSE "a"
      full == IF g.b = NoOne THEN [mark EXCEPT !["b"] = BotScore] ELSE mark
  IN IF g.b = NoOne \/ Done(g, other)
     THEN [g EXCEPT !.duel = "COMPLETED", !.mark = full,
                    !.winner = IF full["a"] > full["b"] THEN g.a
                               ELSE IF full["b"] > full["a"] THEN g.b ELSE NoOne]
     ELSE [g EXCEPT !.duel = IF s = "a" THEN "CREATOR_DONE" ELSE "OPPONENT_DONE", !.mark = mark]

\* What is left of the answer when the time of the duel is over: nothing counts.
Moved(g, p, right, now) ==
  IF InTime(g, now) THEN Answered(g, p, right) ELSE Timeout(g, now)

\* The other side gets Grace minutes; so does the tournament as it was read.
Tighten(t, i, turn) ==
  LET limit == Min({t.games[i].deadline, turn.now + Grace})
  IN [t EXCEPT !.games[i].deadline = limit,
               !.deadline = IF turn.read = NoTime \/ limit < turn.read THEN limit ELSE @]

\* handle_tournament_duel_progress: a duel that is over, played or not, settles its match.
AfterAnswer(t, i, turn) ==
  IF t.kind = "PRIVATE" THEN t
  ELSE IF t.games[i].duel \in Playing THEN Tighten(t, i, turn)
  ELSE CHOOSE x \in {IF u.status = "ROUND" /\ ~PendingLeft(u) THEN SettleRound(u, turn.now) ELSE u :
                     u \in {SettleGames(t, {i}, turn.now)}} : TRUE

\* The rest of the answer: it waits for the job when it needs the tournament.
FinishAnswer(p, right) ==
  /\ p \in DOMAIN turns
  /\ \E turn \in {turns[p]} :
     \E t \in {[tour EXCEPT !.games[turn.game] = Moved(@, p, right, turn.now)]} :
     \E u \in {AfterAnswer(t, turn.game, turn)} :
        /\ \/ sweep = NoTime \/ t.kind = "PRIVATE"
           \/ t.games[turn.game].duel \in Playing /\ u.deadline = t.deadline
        /\ tour' = u
  /\ turns' = [q \in DOMAIN turns \ {p} |-> turns[q]]
  /\ UNCHANGED <<hour, sweep>>

\* The database ends the answer; its update is handled again.
DropAnswer(p) ==
  /\ p \in DOMAIN turns /\ sweep # NoTime
  /\ turns' = [q \in DOMAIN turns \ {p} |-> turns[q]]
  /\ UNCHANGED <<hour, tour, sweep>>

\* list_due_round_deadline_for_update
RoundDue(t, now) ==
  /\ t.status = "ROUND" /\ t.deadline # NoTime
  /\ \/ t.deadline <= now
     \/ /\ t.kind = "DAILY_ARENA"
        /\ \E i \in OfRound(t) : t.games[i].status = "PENDING" /\ t.games[i].deadline <= now

BeginSweep ==
  /\ sweep = NoTime /\ RoundDue(tour, hour)
  /\ sweep' = hour
  /\ UNCHANGED <<hour, tour, turns>>

FinishSweep ==
  /\ sweep # NoTime
  /\ GameLocks \cap OfRound(tour) = {}
  /\ tour' = SettleRound(tour, sweep)
  /\ sweep' = NoTime
  /\ UNCHANGED <<hour, turns>>

\* The worker dies, or the database ends the job: the next run starts over.
DropSweep ==
  /\ sweep # NoTime /\ turns # <<>>
  /\ sweep' = NoTime
  /\ UNCHANGED <<hour, tour, turns>>

TourClock ==
  /\ hour < LastHour
  /\ hour' = hour + 1
  /\ UNCHANGED <<tour, turns, sweep>>

TourNext ==
  \/ JoinTournament \/ \E p \in Entrants : BeginAnswer(p) \/ LookAtGame(p) \/ DropAnswer(p)
  \/ \E p \in Entrants, right \in Marks : FinishAnswer(p, right)
  \/ StartPrivate \/ CancelPrivate \/ CloseCup
  \/ BeginSweep \/ FinishSweep \/ DropSweep
  \/ TourClock

\* The job runs every minute, and every transaction ends.  Since ending a transaction
\* disables it, two of these are WF of FinishSweep, and of FinishAnswer or DropAnswer.  An
\* update is tried a bounded number of times, so answers are not dropped for ever.
TourFairness ==
  /\ WF_tourVars(TourClock) /\ WF_tourVars(BeginSweep)
  /\ []<>(sweep = NoTime \/ GameLocks \cap OfRound(tour) # {})
  /\ \A p \in Entrants : []<>(p \notin DOMAIN turns)
  /\ <>[][\A p \in Entrants : ~DropAnswer(p)]_tourVars

TourSpec == TourInit /\ [][TourNext]_tourVars /\ TourFairness

-----------------------------------------------------------------------------
(* Properties. *)

GamesOf(t, p) == {i \in DOMAIN t.games : p \in {t.games[i].a, t.games[i].b}}
SettledGamesOf(t, p) == {i \in GamesOf(t, p) : t.games[i].status # "PENDING"}

\* The total of every player is the sum over the matches settled for him, each counted
\* once, whoever settled it: an answer, the job, or the pairing of a private bye.
TotalsMatchGames ==
  \A p \in Joined(tour) :
    /\ tour.entry[p].score = MapThenSumSet(LAMBDA i : Points(tour, tour.games[i], p),
                                            SettledGamesOf(tour, p))
    /\ tour.entry[p].tie = MapThenSumSet(LAMBDA i : tour.games[i].mark[SideIn(tour.games[i], p)],
                                          SettledGamesOf(tour, p))

\* Every player has one match in every round, and nothing of a round that is over is
\* open: two answers, or an answer and the job, never move a tournament on twice.
RoundsWhole ==
  /\ \A r \in 1..tour.round, p \in Joined(tour) :
       Cardinality({i \in GamesOf(tour, p) : tour.games[i].round = r}) = 1
  /\ \A i \in DOMAIN tour.games :
       tour.games[i].round < tour.round \/ tour.status = "COMPLETED"
         => tour.games[i].status # "PENDING"
  /\ tour.status = "COMPLETED" => tour.round = MaxRounds(tour)

\* The matches n players can have had after some rounds, however they scored: whom they
\* meet depends on who is ahead of whom, and who sits out on who is level with whom too.
Drawn(n, score, games) ==
  LET t == [entry |-> [p \in 1..n |-> [score |-> score[p], tie |-> 0, joined |-> p]],
            games |-> games]
  IN games \o SetToSeq({[a |-> x[1], b |-> x[2]] :
                         x \in Pairing(t) \cup {<<p, NoOne>> : p \in ByePlayer(t)}})
Draws(n, rounds) ==
  LET scores == {s \in [1..n -> 1..n] : n % 2 = 0 => IsInjective(s)}
      after[k \in 0..rounds] ==
        IF k = 0 THEN {<<>>} ELSE {Drawn(n, s, g) : g \in after[k - 1], s \in scores}
  IN after[rounds]

SeatedFairly(games, players) ==
  LET pair(i) == {games[i].a, games[i].b}
      byes(p) == {i \in DOMAIN games : pair(i) = {p, NoOne}}
  IN /\ \A p, q \in players : Cardinality(byes(p)) <= Cardinality(byes(q)) + 1
     /\ Cardinality(players) \in 3..4 => \A i, j \in DOMAIN games : pair(i) = pair(j) => i = j

EveryDrawFair == \A n \in 2..4 : \A games \in Draws(n, 3) : SeatedFairly(games, 1..n)

\* Nobody sits out twice before everybody has, and among three or four players nobody
\* meets twice within three rounds: in the tournament as it is played, and in every draw
\* of three rounds for up to four players, whatever they score (build_swiss_pairs).
PairingFair ==
  /\ tour.round <= 3 => SeatedFairly(tour.games, Joined(tour))
  /\ EveryDrawFair

\* Nobody joins or leaves a tournament that has started, points are never taken away, a
\* settled match stands, rounds follow one another, and a match that not everybody has
\* played is settled only after its own deadline, whatever the deadline of the round.
TourStep ==
  LET t == tour  u == tour'
  IN /\ t.status # "REGISTRATION" => Joined(u) = Joined(t) /\ u.status # "REGISTRATION"
     /\ t.status \in {"COMPLETED", "CANCELED"} => u = t
     /\ u.round \in {t.round, t.round + 1}
     /\ \A p \in Joined(t) : u.entry[p].score >= t.entry[p].score
     /\ \A i \in DOMAIN t.games :
          IF t.games[i].status # "PENDING" THEN u.games[i] = t.games[i]
          ELSE u.games[i].status = "WALKOVER" => hour >= t.games[i].deadline

\* What a tournament promises its players.
TourSound == TourTypeOK /\ TotalsMatchGames /\ RoundsWhole /\ PairingFair

\* A tournament that has started ends, whoever stops playing, dies or is in the way.
TourEnds == tour.status = "ROUND" ~> tour.status = "COMPLETED"
=============================================================================
