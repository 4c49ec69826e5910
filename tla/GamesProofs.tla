------------------------------ MODULE GamesProofs ------------------------------
(* What players are promised about their duels (Lobby), the messages of a tournament          *)
(* (TourMessages) and their energy (QuizSession, Energy), for any number of friends, duels,   *)
(* members, workers and taps and any limits.                                                  *)
EXTENDS Lobby, TourMessages, QuizSession, FiniteSetTheorems, SequenceTheorems, WellFoundedInduction,
        TLAPS

-----------------------------------------------------------------------------
(* The lobby. *)

LEMMA Part ==
  ASSUME NEW S, IsFiniteSet(S), NEW T, T \subseteq S
  PROVE  /\ IsFiniteSet(T) /\ Cardinality(T) \in Nat /\ Cardinality(S) \in Nat
         /\ Cardinality(T) <= Cardinality(S)
         /\ Cardinality(T) = Cardinality(S) => T = S
<1>1. T \in SUBSET S
  OBVIOUS
<1>2. QED
  BY <1>1, FS_Subset, FS_CardinalityType

LEMMA OneMore ==
  ASSUME NEW S, IsFiniteSet(S), NEW x, x \notin S
  PROVE  /\ IsFiniteSet(S \cup {x}) /\ Cardinality(S) \in Nat
         /\ Cardinality(S \cup {x}) = Cardinality(S) + 1
BY FS_AddElement, FS_CardinalityType

-----------------------------------------------------------------------------
(* What the steps of the lobby do to the rows. *)

\* The table holds rows, made before now; no ticket is refunded that was not bought.
TableInv ==
  /\ LobbyTypeOK
  /\ \A i \in Ids : duels[i].made <= clock
  /\ \A u \in Friends : purse[u].tickets <= bought[u]

\* Whoever is in the middle of a rematch plays the duel he pressed, and its seats are taken.
HandsInv ==
  \A u \in DOMAIN hands :
    LET d == duels[hands[u].source]
    IN u \in {d.by, d.with} /\ Others(d, u) # {}

\* What stays of a row whatever is done to it.
Keeps(d, e) ==
  /\ e \in Rows
  /\ e.by = d.by /\ e.access = d.access /\ e.made = d.made /\ e.open = d.open
  /\ e.series = d.series /\ e.game = d.game /\ e.best = d.best
  /\ d.with # NoFriend => e.with = d.with
  /\ e.status \in Live => d.status \in Live
  /\ e.status = "COMPLETED" => d.status \in Live \/ d.status = "COMPLETED"
  /\ \A s \in Sides : d.pushed[s] <= e.pushed[s]

\* A new row that its creator may afford, with nothing played or pushed.
Affords(d) ==
  /\ d \in Rows /\ d.made \in 0..clock
  /\ d.access \in AccessFor(d.by, d.made)
  /\ d.pushed = [s \in Sides |-> 0]

\* A duel of its own.
Single(d) == d.series = 0

\* The first game of a new series.
Opens(d, i) ==
  /\ d.series = i /\ d.game = 1 /\ d.best = BestOf
  /\ d.with # NoFriend /\ ~d.open

\* The next game of the series of d.
Continues(d, e) ==
  /\ d.series # 0 /\ LastGame(d) < d.best
  /\ e.series = d.series /\ e.game = LastGame(d) + 1 /\ e.best = d.best
  /\ e.with # NoFriend /\ ~e.open
  /\ {e.by, e.with} = {d.by, d.with}

LEMMA KeepsItself == \A d \in Rows : Keeps(d, d)
BY DEF Keeps, Rows

LEMMA RefreshedKeeps ==
  ASSUME NEW d \in Rows, NEW now PROVE Keeps(d, Refreshed(d, now))
<1>1. d.pushed \in [Sides -> 0..MaxPush]
  BY DEF Rows
<1>2. \A s \in Sides : d.pushed[s] <= d.pushed[s]
  BY <1>1, LobbyLimits
<1>3. CASE Refreshed(d, now) = d
  BY <1>3, KeepsItself
<1>4. CASE Refreshed(d, now) = Expired(d) /\ d.status \in Live
  <2>1. Expired(d) \in Rows
    BY DEF Expired, Rows, Ended
  <2>2. Expired(d).status \notin Live /\ Expired(d).status # "COMPLETED"
    BY DEF Expired, Live, Playable, Rows
  <2>3. /\ Expired(d).by = d.by /\ Expired(d).access = d.access /\ Expired(d).made = d.made
        /\ Expired(d).open = d.open /\ Expired(d).series = d.series /\ Expired(d).game = d.game
        /\ Expired(d).best = d.best /\ Expired(d).with = d.with /\ Expired(d).pushed = d.pushed
    BY DEF Expired, Rows
  <2>4. QED
    BY <1>2, <1>4, <2>1, <2>2, <2>3 DEF Keeps
<1>5. QED
  BY <1>3, <1>4 DEF Refreshed

LEMMA NewRow ==
  ASSUME TableInv, NEW u \in Friends, NEW v \in Friends \cup {NoFriend}, NEW open \in BOOLEAN,
         NEW now \in 0..clock, NEW a \in AccessFor(u, now), NEW d, d = Row(u, v, open, a, now)
  PROVE  Affords(d) /\ Single(d) /\ d.by = u /\ d.with = v /\ d.open = open /\ d.game = 1
<1>1. a \in {"FREE", "PAID_TICKET", "PREMIUM"}
  BY DEF AccessFor
<1>2. clock \in Nat
  BY StoriesPossible DEF TableInv, LobbyTypeOK
<1>3. now \in Nat /\ now + PendingLife \in Nat /\ now + AcceptedLife \in Nat
  BY <1>2, LobbyLimits
<1>4. d \in Rows
  BY <1>1, <1>3, LobbyLimits DEF Row, Rows, Live, Playable
<1>5. QED
  BY <1>4 DEF Row, Affords, Single

\* The games G among the rows are the series of d: numbered without a gap, between the
\* same two.
Numbered(rows, G, d) ==
  /\ {rows[j].game : j \in G} = 1..Cardinality(G)
  /\ Cardinality(G) <= d.best
  /\ \A j \in G : /\ {rows[j].by, rows[j].with} = {d.by, d.with}
                  /\ rows[j].best = d.best
                  /\ rows[j].with # NoFriend

\* A series has the number of the row that opened it.
SeriesInv ==
  \A i \in Ids :
    /\ duels[i].series <= i
    /\ SeriesOf(duels[i]) # {} => Numbered(duels, SeriesOf(duels[i]), duels[i])

\* The rows after a step: those there were, with what Keeps says, and one more at most.
Rewritten(kept) ==
  kept \in Seq(Rows) /\ Len(kept) = Len(duels) /\ \A i \in Ids : Keeps(duels[i], kept[i])

Adds(kept, new) ==
  /\ duels' = Append(kept, new) /\ Len(duels) < story.duels
  /\ Affords(new)
  /\ \/ Single(new) /\ (new.open => new.with = NoFriend /\ OpenOf(kept, new.by) = {})
     \/ Opens(new, Len(duels) + 1)
     \/ \E i \in Ids : Continues(duels[i], new)

RowsStep == \E kept : Rewritten(kept) /\ (duels' = kept \/ \E new : Adds(kept, new))

LEMMA Table ==
  ASSUME TableInv
  PROVE  /\ duels \in Seq(Rows) /\ Ids = 1..Len(duels) /\ Len(duels) \in Nat
         /\ \A i \in Ids : duels[i] \in Rows
         /\ IsFiniteSet(Ids) /\ clock \in Nat /\ story.duels \in Nat
<1>1. duels \in Seq(Rows) /\ clock \in 0..story.ticks /\ story \in Stories
  BY DEF TableInv, LobbyTypeOK
<1>2. Ids = 1..Len(duels) /\ Len(duels) \in Nat /\ \A i \in Ids : duels[i] \in Rows
  BY <1>1 DEF Ids
<1>3. IsFiniteSet(Ids)
  BY <1>2, FS_Interval
<1>4. QED
  BY <1>1, <1>2, <1>3, StoriesPossible

\* The number of the last game of a series is how many games it has.
LEMMA LastGameIs ==
  ASSUME TableInv, SeriesInv, NEW i \in Ids, duels[i].series # 0
  PROVE  /\ i \in SeriesOf(duels[i]) /\ IsFiniteSet(SeriesOf(duels[i]))
         /\ LastGame(duels[i]) = Cardinality(SeriesOf(duels[i]))
         /\ LastGame(duels[i]) \in 1..duels[i].best /\ duels[i].best \in 1..BestOf
<1> DEFINE d == duels[i]  games == SeriesOf(d)
<1>1. i \in games /\ IsFiniteSet(games)
  BY Table, Part DEF SeriesOf
<1>2. Cardinality(games) \in Nat
  BY <1>1, FS_CardinalityType
<1>3. PICK n \in Nat : n = Cardinality(games)
  BY <1>2
<1>4. {duels[j].game : j \in games} = 1..n /\ n <= d.best
  BY <1>1, <1>3 DEF SeriesInv, Numbered
<1>5. d.best \in 1..BestOf
  <2>1. d \in Rows
    BY Table
  <2>2. d.best \in {1, BestOf}
    BY <2>1 DEF Rows
  <2>3. QED
    BY <2>2, LobbyLimits
<1> HIDE DEF games
<1>6. n >= 1
  <2>1. duels[i].game \in 1..n
    BY <1>1, <1>4
  <2>2. QED
    BY <2>1
<1>7. \A k \in 1..BestOf : (/\ \E j \in games : duels[j].game = k
                            /\ \A j \in games : duels[j].game <= k) <=> k = n
  BY <1>4, <1>5, <1>6
<1>8. n \in 1..BestOf
  BY <1>4, <1>5, <1>6, LobbyLimits
<1>9. LastGame(d) = n
  BY <1>7, <1>8 DEF LastGame, games
<1>10. n \in 1..d.best
  BY <1>4, <1>5, <1>6, LobbyLimits
<1>11. QED
  BY <1>1, <1>3, <1>5, <1>9, <1>10 DEF games

LEMMA SameRows ==
  ASSUME TableInv PROVE Rewritten(duels)
BY Table, KeepsItself DEF Rewritten

LEMMA Changed ==
  ASSUME TableInv, NEW i \in Ids, NEW d, Keeps(duels[i], d)
  PROVE  Rewritten([duels EXCEPT ![i] = d])
<1>1. d \in Rows
  BY DEF Keeps
<1>2. QED
  BY <1>1, Table, KeepsItself DEF Rewritten

\* A duel its creator opens alone.
LEMMA Created ==
  ASSUME TableInv, NEW u \in Friends, NEW open \in BOOLEAN, NEW now \in 0..clock,
         NEW rows, NEW new \in Creatable(rows, u, open, now)
  PROVE  /\ Affords(new) /\ Single(new) /\ new.by = u /\ new.with = NoFriend
         /\ new.open => OpenOf(rows, u) = {}
<1>1. PICK a \in AccessFor(u, now) : new = Row(u, NoFriend, open, a, now)
                                   /\ (open => OpenOf(rows, u) = {})
  BY DEF Creatable
<1>2. NoFriend \in Friends \cup {NoFriend}
  OBVIOUS
<1>3. /\ Affords(new) /\ Single(new) /\ new.by = u /\ new.with = NoFriend
      /\ new.open = open /\ new.game = 1
  BY <1>1, <1>2, NewRow
<1>4. QED
  BY <1>1, <1>3

LEMMA CreateStep ==
  ASSUME TableInv, NEW u \in Friends, NEW open \in BOOLEAN, NEW now \in 0..clock,
         NEW kept, Rewritten(kept), NEW new \in Creatable(kept, u, open, now), Room,
         duels' = Append(kept, new)
  PROVE  RowsStep
<1>1. /\ Affords(new) /\ Single(new) /\ new.by = u /\ new.with = NoFriend
      /\ new.open => OpenOf(kept, u) = {}
  BY Created
<1>2. new.open => new.with = NoFriend /\ OpenOf(kept, new.by) = {}
  BY <1>1
<1>3. Adds(kept, new)
  BY <1>1, <1>2 DEF Adds, Room
<1>4. QED
  BY <1>3 DEF RowsStep

LEMMA ChangeStep ==
  ASSUME TableInv, NEW i \in Ids, NEW d, Keeps(duels[i], d), Change(i, d)
  PROVE  RowsStep
BY Changed DEF Change, RowsStep

\* Two changes of a row in one step.
LEMMA KeepsBoth ==
  ASSUME NEW c \in Rows, NEW d, NEW e, Keeps(c, d), Keeps(d, e) PROVE Keeps(c, e)
<1>1. c.pushed \in [Sides -> 0..MaxPush] /\ d.pushed \in [Sides -> 0..MaxPush]
      /\ e.pushed \in [Sides -> 0..MaxPush]
  BY DEF Keeps, Rows
<1>2. \A s \in Sides : c.pushed[s] <= e.pushed[s]
  BY <1>1, LobbyLimits DEF Keeps
<1>3. QED
  BY <1>2 DEF Keeps

LEMMA PressedSteps ==
  ASSUME TableInv, NEW u \in story.users, NEW now \in Clocks
  PROVE  /\ \A open \in BOOLEAN : CreateSelected(u, open, now) => RowsStep
         /\ \A i \in Ids : Repost(u, i, now) \/ CancelByCreator(u, i, now) => RowsStep
         /\ \A i \in Ids : Join(u, i, now) \/ Look(u, i, now) \/ AnswerLate(u, i, now) => RowsStep
         /\ \A i \in Ids : \A winner \in {duels[i].by, duels[i].with, NoFriend} :
              Finish(u, i, now, winner) => RowsStep
<1>1. u \in Friends /\ now \in 0..clock /\ now \in Nat /\ now + AcceptedLife \in Nat
  <2>1. u \in Friends /\ clock \in Nat /\ story.lag \in Nat
    BY Table, StoriesPossible DEF TableInv, LobbyTypeOK
  <2>2. now \in 0..clock
    BY <2>1 DEF Clocks
  <2>3. QED
    BY <2>1, <2>2, LobbyLimits
<1>2. ASSUME NEW open \in BOOLEAN, CreateSelected(u, open, now) PROVE RowsStep
  <2>1. PICK d \in Creatable(duels, u, open, now) : duels' = Append(duels, d)
    BY <1>2 DEF CreateSelected
  <2>2. Room
    BY <1>2 DEF CreateSelected
  <2>3. QED
    BY <1>1, <2>1, <2>2, SameRows, CreateStep
<1>3. ASSUME NEW i \in Ids, Repost(u, i, now) PROVE RowsStep
  <2> DEFINE kept == [duels EXCEPT ![i] = Refreshed(@, now)]
  <2>1. PICK new \in Creatable(kept, u, TRUE, now) : duels' = Append(kept, new)
    BY <1>3 DEF Repost, Reposts
  <2>2. Rewritten(kept)
    BY Table, RefreshedKeeps, Changed
  <2>3. Room
    BY <1>3 DEF Repost
  <2> HIDE DEF kept
  <2>4. QED
    BY <1>1, <2>1, <2>2, <2>3, CreateStep
<1>4. ASSUME NEW i \in Ids, CancelByCreator(u, i, now) PROVE RowsStep
  <2> DEFINE c == duels[i]  d == Refreshed(c, now)  e == [d EXCEPT !.status = "CANCELED"]
  <2>1. c \in Rows /\ Keeps(c, d)
    BY Table, RefreshedKeeps
  <2>2. Change(i, e)
    BY <1>4 DEF CancelByCreator
  <2> HIDE DEF c, d
  <2>3. d \in Rows
    BY <2>1 DEF Keeps
  <2>4. Keeps(c, e)
    BY <2>1, <2>3 DEF Keeps, Rows, Live, Playable
  <2>5. QED
    BY <2>2, <2>4, ChangeStep DEF c
<1>5. ASSUME NEW i \in Ids, Join(u, i, now) PROVE RowsStep
  <2> DEFINE c == duels[i]  d == Refreshed(c, now)
             e == [d EXCEPT !.with = u, !.status = "ACCEPTED", !.ends = now + AcceptedLife]
  <2>1. c \in Rows /\ Keeps(c, d)
    BY Table, RefreshedKeeps
  <2>2. Change(i, e) /\ d.status \in Live /\ d.with = NoFriend
    BY <1>5 DEF Join
  <2> HIDE DEF c, d
  <2>3. d \in Rows
    BY <2>1 DEF Keeps
  <2>4. e \in Rows
    BY <1>1, <2>3 DEF Rows, Live, Playable
  <2>5. Keeps(d, e)
    <3>1. /\ e.by = d.by /\ e.access = d.access /\ e.made = d.made /\ e.open = d.open
          /\ e.series = d.series /\ e.game = d.game /\ e.best = d.best /\ e.pushed = d.pushed
      BY <2>3 DEF Rows
    <3>2. \A s \in Sides : d.pushed[s] <= d.pushed[s]
      BY <2>3, KeepsItself DEF Keeps
    <3> HIDE DEF e
    <3>3. QED
      BY <2>2, <2>4, <3>1, <3>2 DEF Keeps
  <2>6. QED
    BY <2>1, <2>2, <2>5, KeepsBoth, ChangeStep DEF c
<1>6. ASSUME NEW i \in Ids, Look(u, i, now) \/ AnswerLate(u, i, now) PROVE RowsStep
  BY <1>6, Table, RefreshedKeeps, ChangeStep DEF Look, AnswerLate
<1>7. ASSUME NEW i \in Ids, NEW winner \in {duels[i].by, duels[i].with, NoFriend},
             Finish(u, i, now, winner)
      PROVE  RowsStep
  <2> DEFINE c == duels[i]  d == Refreshed(c, now)  done == d.done \cup {SideOf(d, u)}
             st == IF done = Sides THEN "COMPLETED"
                   ELSE IF done = {"by"} THEN "CREATOR_DONE" ELSE "OPPONENT_DONE"
             e == [d EXCEPT !.done = done, !.winner = winner, !.status = st]
  <2>1. c \in Rows /\ Keeps(c, d)
    BY Table, RefreshedKeeps
  <2>2. Change(i, e) /\ d.status \in Live
    BY <1>7 DEF Finish, Live
  <2>3. winner \in Friends \cup {NoFriend}
    BY <2>1 DEF Rows
  <2> HIDE DEF c, d
  <2>4. d \in Rows
    BY <2>1 DEF Keeps
  <2>5. done \subseteq Sides /\ st \in Live \cup Ended
    BY <2>4 DEF Rows, SideOf, Sides, Live, Playable, Ended
  <2> HIDE DEF done, st
  <2>6. e \in Rows
    BY <2>3, <2>4, <2>5 DEF Rows
  <2>7. Keeps(d, e)
    <3>1. /\ e.by = d.by /\ e.access = d.access /\ e.made = d.made /\ e.open = d.open
          /\ e.series = d.series /\ e.game = d.game /\ e.best = d.best /\ e.pushed = d.pushed
          /\ e.with = d.with
      BY <2>4 DEF Rows
    <3>2. \A s \in Sides : d.pushed[s] <= d.pushed[s]
      BY <2>4, KeepsItself DEF Keeps
    <3> HIDE DEF e
    <3>3. QED
      BY <2>2, <2>6, <3>1, <3>2 DEF Keeps
  <2>8. QED
    BY <2>1, <2>2, <2>7, KeepsBoth, ChangeStep DEF c
<1>8. QED
  BY <1>2, <1>3, <1>4, <1>5, <1>6, <1>7

LEMMA JobSteps ==
  ASSUME TableInv
  PROVE  /\ \A p \in pings, arrives \in BOOLEAN : ReservePush(p[1], p[2], arrives) => RowsStep
         /\ \A arrive \in BOOLEAN : RunDeadlines(arrive) => RowsStep
         /\ \A i \in Ids, asked \in CardsAsked, refused \in Sides \cup {"none"} :
              SendProofCards(i, asked, refused) => RowsStep
<1>1. ASSUME NEW p \in pings, NEW arrives \in BOOLEAN, ReservePush(p[1], p[2], arrives) PROVE RowsStep
  <2> DEFINE i == p[1]  d == duels[i]  e == [d EXCEPT !.pushed["by"] = @ + 1]
  <2>1. i \in Ids /\ d \in Rows
    BY Table DEF TableInv, LobbyTypeOK
  <2>2. CASE duels' = duels
    BY <2>2, SameRows DEF RowsStep
  <2>3. CASE Change(i, e) /\ MayPush(d, "by")
    <3> HIDE DEF d
    <3>1. Keeps(d, e)
      <4>1. d.pushed \in [Sides -> 0..MaxPush] /\ "by" \in Sides /\ d.pushed["by"] < MaxPush
        BY <2>1, <2>3 DEF Rows, Sides, MayPush
      <4>2. e.pushed \in [Sides -> 0..MaxPush] /\ \A s \in Sides : d.pushed[s] <= e.pushed[s]
        BY <2>1, <4>1, LobbyLimits DEF Rows
      <4>3. /\ e.by = d.by /\ e.access = d.access /\ e.made = d.made /\ e.open = d.open
            /\ e.series = d.series /\ e.game = d.game /\ e.best = d.best
            /\ e.with = d.with /\ e.status = d.status
        BY <2>1 DEF Rows
      <4>4. e \in Rows
        BY <2>1, <4>2 DEF Rows
      <4> HIDE DEF e
      <4>5. QED
        BY <4>2, <4>3, <4>4 DEF Keeps
    <3>2. QED
      BY <2>1, <2>3, <3>1, ChangeStep DEF d
  <2>4. QED
    BY <1>1, <2>2, <2>3 DEF ReservePush
<1>2. ASSUME NEW arrive \in BOOLEAN, RunDeadlines(arrive) PROVE RowsStep
  <2> DEFINE kept == [i \in Ids |-> IF ~Locked(i) THEN Swept(duels[i]) ELSE duels[i]]
  <2>1. duels' = kept
    BY <1>2 DEF RunDeadlines
  <2>2. ASSUME NEW d \in Rows PROVE Keeps(d, Swept(d))
    <3> DEFINE e == [d EXCEPT !.reminded = @ \/ Reminds(d) # {},
                              !.pushed = [s \in Sides |-> IF s \in Reminds(d) THEN @[s] + 1 ELSE @[s]]]
    <3>1. CASE Overdue(d)
      <4>1. Overdue(d) => d.status \in Live
        BY DEF Overdue, Live
      <4>2. Expired(d) = Refreshed(d, d.ends)
        BY <3>1, <4>1 DEF Refreshed, Rows
      <4>3. QED
        BY <3>1, <4>2, RefreshedKeeps DEF Swept
    <3>2. CASE ~Overdue(d)
      <4>1. Swept(d) = e
        BY <3>2 DEF Swept
      <4>2. \A s \in Reminds(d) : s \in Sides /\ d.pushed[s] < MaxPush
        BY DEF Reminds, Awaited, MayPush
      <4>3. d.pushed \in [Sides -> 0..MaxPush]
        BY DEF Rows
      <4>4. /\ e.pushed = [s \in Sides |-> IF s \in Reminds(d) THEN d.pushed[s] + 1 ELSE d.pushed[s]]
            /\ e.reminded = (d.reminded \/ Reminds(d) # {})
            /\ e.by = d.by /\ e.access = d.access /\ e.made = d.made /\ e.open = d.open
            /\ e.series = d.series /\ e.game = d.game /\ e.best = d.best
            /\ e.with = d.with /\ e.status = d.status /\ e.winner = d.winner
            /\ e.ends = d.ends /\ e.done = d.done /\ e.cards = d.cards
            /\ DOMAIN e = DOMAIN d
        BY DEF Rows
      <4>5. e.pushed \in [Sides -> 0..MaxPush] /\ \A s \in Sides : d.pushed[s] <= e.pushed[s]
        BY <4>2, <4>3, <4>4, LobbyLimits
      <4>6. e \in Rows
        BY <4>5, ZenonT(60) DEF Rows
      <4> HIDE DEF e
      <4>7. QED
        BY <4>1, <4>4, <4>5, <4>6 DEF Keeps
    <3>3. QED
      BY <3>1, <3>2
  <2>3. Rewritten(kept)
    <3>1. \A i \in Ids : Keeps(duels[i], kept[i])
      BY <2>2, Table, KeepsItself
    <3>2. \A i \in Ids : kept[i] \in Rows
      BY <3>1 DEF Keeps
    <3>3. kept \in [1..Len(duels) -> Rows]
      BY <3>2, Table
    <3>4. kept \in Seq(Rows) /\ Len(kept) = Len(duels)
      BY <3>3, Table
    <3>5. QED
      BY <3>1, <3>4 DEF Rewritten
  <2>4. QED
    BY <2>1, <2>3 DEF RowsStep
<1>3. ASSUME NEW i \in Ids, NEW asked \in CardsAsked, NEW refused \in Sides \cup {"none"},
             SendProofCards(i, asked, refused)
      PROVE  RowsStep
  <2> DEFINE d == duels[i]  e == [d EXCEPT !.cards = @ \cup Taken(d, asked, refused)]
  <2>1. d \in Rows
    BY Table
  <2>2. Taken(d, asked, refused) \subseteq Sides
    BY DEF Taken, CardsAsked
  <2>3. Change(i, e)
    BY <1>3 DEF SendProofCards
  <2> HIDE DEF d
  <2>4. e \in Rows
    BY <2>1, <2>2 DEF Rows
  <2>5. Keeps(d, e)
    <3>1. /\ e.by = d.by /\ e.access = d.access /\ e.made = d.made /\ e.open = d.open
          /\ e.series = d.series /\ e.game = d.game /\ e.best = d.best /\ e.pushed = d.pushed
          /\ e.with = d.with /\ e.status = d.status
      BY <2>1 DEF Rows
    <3>2. \A s \in Sides : d.pushed[s] <= d.pushed[s]
      BY <2>1, KeepsItself DEF Keeps
    <3> HIDE DEF e
    <3>3. QED
      BY <2>4, <3>1, <3>2 DEF Keeps
  <2>6. QED
    BY <2>3, <2>5, ChangeStep DEF d
<1>4. QED
  BY <1>1, <1>2, <1>3

LEMMA FinishStep ==
  ASSUME TableInv, HandsInv, SeriesInv, NEW u \in DOMAIN hands, FinishSource(u)
  PROVE  RowsStep
<1> DEFINE h == hands[u]  i == h.source  c == duels[i]  d == Refreshed(c, h.now)
           kept == [duels EXCEPT ![i] = d]
<1>1. /\ u \in Friends /\ i \in Ids /\ h.now \in 0..clock
      /\ h.kind \in {"rematch", "best3", "next"}
  BY DEF TableInv, LobbyTypeOK
<1>2. c \in Rows /\ Keeps(c, d) /\ d \in Rows
  BY <1>1, Table, RefreshedKeeps DEF Keeps
<1>3. Rewritten(kept)
  BY <1>1, <1>2, Changed
<1>4. /\ d.series = c.series /\ d.best = c.best /\ d.by = c.by
      /\ u \in {c.by, c.with} /\ Others(c, u) # {}
  BY <1>2 DEF Keeps, HandsInv
<1>5. d.with = c.with
  <2>1. c.with # NoFriend \/ c.with = NoFriend
    OBVIOUS
  <2>2. c.with # NoFriend
    BY <1>1, <1>4, LobbyLimits DEF Others
  <2>3. QED
    BY <1>2, <2>2 DEF Keeps
<1>6. SeriesOf(d) = SeriesOf(c) /\ LastGame(d) = LastGame(c) /\ Others(d, u) = Others(c, u)
  BY <1>4, <1>5 DEF SeriesOf, LastGame, Others
<1>7. CASE duels' = kept
  BY <1>3, <1>7 DEF RowsStep
<1>8. ASSUME Room, NEW v \in Others(d, u), NEW a \in AccessFor(u, h.now),
             NEW new \in Placed(h.kind, d, Row(u, v, FALSE, a, h.now)), duels' = Append(kept, new)
      PROVE  RowsStep
  <2> DEFINE r == Row(u, v, FALSE, a, h.now)
  <2>1. v \in Friends /\ v # NoFriend /\ {u, v} = {c.by, c.with}
    BY <1>2, <1>4, <1>5, LobbyLimits DEF Others, Rows
  <2>2. Affords(r) /\ Single(r) /\ r.by = u /\ r.with = v /\ ~r.open /\ r.game = 1
    <3>1. h.now \in 0..clock /\ u \in Friends /\ v \in Friends \cup {NoFriend} /\ FALSE \in BOOLEAN
          /\ a \in AccessFor(u, h.now)
      BY <1>1, <2>1
    <3> HIDE DEF h, d, c, i, kept
    <3>2. \A open \in BOOLEAN :
            \A e : e = Row(u, v, open, a, h.now) =>
              Affords(e) /\ Single(e) /\ e.by = u /\ e.with = v /\ e.open = open /\ e.game = 1
      BY <3>1, NewRow
    <3>3. /\ Affords(r) /\ Single(r) /\ r.by = u /\ r.with = v /\ r.open = FALSE /\ r.game = 1
      BY <3>2, Zenon
    <3>4. QED
      BY <3>3
  <2>3. r \in Rows
    BY <2>2 DEF Affords
  <2>4. Len(duels) \in Nat
    BY Table
  <2> HIDE DEF r, d, c, i, kept
  <2>5. CASE new = [r EXCEPT !.series = Len(duels) + 1, !.best = BestOf]
    <3>1. new \in Rows /\ Affords(new)
      <4>1. Len(duels) + 1 \in Nat /\ BestOf \in {1, BestOf}
        BY <2>4
      <4>2. new \in Rows
        BY <2>3, <2>5, <4>1 DEF Rows
      <4>3. /\ new.made = r.made /\ new.access = r.access /\ new.by = r.by
            /\ new.pushed = r.pushed
        BY <2>3, <2>5 DEF Rows
      <4>4. QED
        BY <2>2, <4>2, <4>3 DEF Affords
    <3>2. Opens(new, Len(duels) + 1)
      BY <2>1, <2>2, <2>3, <2>5 DEF Opens, Rows
    <3>3. QED
      BY <1>3, <1>8, <3>1, <3>2 DEF Adds, RowsStep, Room
  <2>6. CASE d.series # 0 /\ Goes(d)
             /\ new = [r EXCEPT !.series = d.series, !.game = LastGame(d) + 1, !.best = d.best]
    <3>1. LastGame(c) < c.best /\ LastGame(c) \in 1..c.best /\ c.best \in 1..BestOf /\ c.series # 0
      BY <1>1, <1>4, <1>6, <2>6, LastGameIs DEF Goes, c
    <3>2. LastGame(c) + 1 \in 1..BestOf
      BY <3>1, LobbyLimits
    <3>3. d.series \in Nat /\ d.best \in {1, BestOf}
      BY <1>2 DEF Rows
    <3>4. new \in Rows /\ Affords(new)
      BY <1>6, <2>2, <2>3, <2>6, <3>2, <3>3 DEF Affords, Rows
    <3>5. /\ new.series = c.series /\ new.game = LastGame(c) + 1 /\ new.best = c.best
          /\ new.with = v /\ ~new.open /\ new.by = u
      BY <1>4, <1>6, <2>2, <2>3, <2>6 DEF Rows
    <3>6. Continues(c, new)
      BY <2>1, <3>1, <3>5 DEF Continues
    <3>7. QED
      BY <1>1, <1>3, <1>8, <3>4, <3>6 DEF Adds, RowsStep, Room, c
  <2>7. CASE new = r
    BY <1>3, <1>8, <2>2, <2>7 DEF Adds, RowsStep, Room
  <2>8. QED
    BY <1>8, <2>5, <2>6, <2>7 DEF Placed, r
<1>9. QED
  <2> DEFINE rows == UNION {UNION {Placed(h.kind, d, Row(u, v, FALSE, a, h.now)) : a \in AccessFor(u, h.now)}
                              : v \in Others(d, u)}
  <2>1. \/ duels' = kept
        \/ Room /\ \E new \in rows : duels' = Append(kept, new)
    BY DEF FinishSource
  <2> HIDE DEF h, d, kept
  <2>2. ASSUME NEW new \in rows
        PROVE  \E v \in Others(d, u), a \in AccessFor(u, h.now) :
                 new \in Placed(h.kind, d, Row(u, v, FALSE, a, h.now))
    <3> DEFINE by(v) == UNION {Placed(h.kind, d, Row(u, v, FALSE, a, h.now)) : a \in AccessFor(u, h.now)}
    <3>1. PICK v \in Others(d, u) : new \in by(v)
      BY <2>2
    <3>2. PICK a \in AccessFor(u, h.now) : new \in Placed(h.kind, d, Row(u, v, FALSE, a, h.now))
      BY <3>1
    <3>3. QED
      BY <3>2
  <2>3. QED
    BY <1>7, <1>8, <2>1, <2>2

\* A step of any kind writes the rows over, or adds one that its creator may have.
LEMMA StepRows ==
  ASSUME TableInv, HandsInv, SeriesInv, [LobbyNext]_lobbyVars PROVE RowsStep
<1>1. CASE UNCHANGED lobbyVars
  BY <1>1, SameRows DEF lobbyVars, RowsStep
<1>2. CASE duels' = duels
  BY <1>2, SameRows DEF RowsStep
<1>3. CASE Presses
  <2>1. \A u \in story.users, now \in Clocks, i \in Ids :
          Rematch(u, i, now) \/ BestOfThree(u, i, now) \/ NextGame(u, i, now) => RowsStep
    BY <1>2 DEF Rematch, BestOfThree, NextGame, LockSource
  <2>2. QED
    BY <1>3, <2>1, PressedSteps DEF Presses
<1>4. CASE \E u \in DOMAIN hands : FinishSource(u)
  BY <1>4, FinishStep
<1>5. CASE \E u \in Friends : DeadlockEnds(u)
  BY <1>2, <1>5 DEF DeadlockEnds
<1>6. CASE \/ \E p \in pings, arrives \in BOOLEAN : ReservePush(p[1], p[2], arrives)
           \/ \E arrive \in BOOLEAN : RunDeadlines(arrive)
  BY <1>6, JobSteps
<1>7. CASE \E i \in Ids, asked \in CardsAsked, refused \in Sides \cup {"none"} :
             SendProofCards(i, asked, refused)
  BY <1>7, JobSteps
<1>8. CASE \E u \in story.users : TicketCredited(u) \/ TicketRefunded(u) \/ PremiumEnds(u)
  BY <1>2, <1>8 DEF TicketCredited, TicketRefunded, PremiumEnds
<1>9. CASE Wait
  BY <1>2, <1>9 DEF Wait
<1>10. QED
  BY <1>1, <1>3, <1>4, <1>5, <1>6, <1>7, <1>8, <1>9 DEF LobbyNext

-----------------------------------------------------------------------------
(* The same, in terms of the table after the step. *)

\* At most one row is new, and what is said of it above holds.
LEMMA RowsAfter ==
  ASSUME TableInv, RowsStep
  PROVE  /\ duels' \in Seq(Rows) /\ Ids \subseteq Ids'
         /\ \A i \in Ids : Keeps(duels[i], duels'[i])
         /\ \/ Ids' = Ids /\ Len(duels') = Len(duels)
            \/ \E new \in Rows, n \in Nat :
                 /\ n = Len(duels) + 1 /\ n \notin Ids /\ Ids' = Ids \cup {n} /\ Len(duels') = n
                 /\ n <= story.duels
                 /\ duels'[n] = new /\ Affords(new)
                 /\ \/ /\ Single(new)
                       /\ new.open => \A i \in Ids :
                            ~(duels'[i].status \in Live /\ duels'[i].open /\ duels'[i].by = new.by)
                    \/ Opens(new, n)
                    \/ \E i \in Ids : Continues(duels[i], new)
<1>1. PICK kept : Rewritten(kept) /\ (duels' = kept \/ \E new : Adds(kept, new))
  BY DEF RowsStep
<1>2. /\ kept \in Seq(Rows) /\ Len(kept) = Len(duels) /\ DOMAIN kept = Ids
      /\ \A i \in Ids : Keeps(duels[i], kept[i])
  BY <1>1, Table, SMTT(30) DEF Rewritten
<1>3. CASE duels' = kept
  BY <1>2, <1>3 DEF Ids
<1>4. CASE \E new : Adds(kept, new)
  <2>1. PICK new : Adds(kept, new)
    BY <1>4
  <2>2. new \in Rows /\ duels' = Append(kept, new) /\ Affords(new)
    BY <2>1 DEF Adds, Affords
  <2>3. PICK n \in Nat : n = Len(duels) + 1
    BY Table
  <2>4. /\ duels' \in Seq(Rows) /\ Len(duels') = n /\ Ids' = Ids \cup {n} /\ n \notin Ids
        /\ duels'[n] = new /\ \A i \in Ids : duels'[i] = kept[i]
    <3>1. duels' \in Seq(Rows) /\ Len(duels') = n
      BY <1>2, <2>2, <2>3, Table
    <3>2. Ids' = 1..n /\ Ids = 1..(n - 1)
      BY <2>3, <3>1, Table DEF Ids
    <3>3. duels'[n] = new /\ \A i \in 1..(n - 1) : duels'[i] = kept[i]
      BY <1>2, <2>2, <2>3, Table
    <3>4. QED
      BY <2>3, <3>1, <3>2, <3>3
  <2>5. n <= story.duels
    BY <2>1, <2>3, Table DEF Adds
  <2>6. new.open /\ OpenOf(kept, new.by) = {} => \A i \in Ids :
          ~(duels'[i].status \in Live /\ duels'[i].open /\ duels'[i].by = new.by)
    BY <2>4 DEF OpenOf
  <2>7. \/ Single(new) /\ (new.open => new.with = NoFriend /\ OpenOf(kept, new.by) = {})
        \/ Opens(new, n)
        \/ \E i \in Ids : Continues(duels[i], new)
    BY <2>1, <2>3 DEF Adds
  <2> HIDE DEF Ids
  <2>8. QED
    BY <1>2, <2>2, <2>3, <2>4, <2>5, <2>6, <2>7
<1>5. QED
  BY <1>1, <1>3, <1>4

-----------------------------------------------------------------------------
(* What the steps do to everything else. *)

\* A side is told the result of a duel that is over.
ResultHeard ==
  \E i \in Ids, s \in Sides : /\ told' = [told EXCEPT ![<<i, s>>].result = TRUE]
                            /\ duels'[i].status \notin Live

\* A side is told of the duel that is new.
InviteHeard ==
  /\ told' = [told EXCEPT ![<<Len(duels) + 1, "with">>].invite = @ + 1]
  /\ Len(duels') = Len(duels) + 1

\* A row is written and nothing else, but for a push that is now due or a result.
RowsOnly ==
  /\ UNCHANGED <<clock, hands, purse, story, bought>>
  /\ pings' \subseteq pings \cup (Ids \X {"join", "end"})
  /\ told' = told \/ ResultHeard

\* A hand lets go.
HandFalls ==
  /\ \E u \in DOMAIN hands : hands' = [v \in DOMAIN hands \ {u} |-> hands[v]]
  /\ UNCHANGED <<clock, purse, pings, story, bought>>
  /\ told' = told \/ InviteHeard

LEMMA ResultOf ==
  ASSUME NEW i \in Ids, NEW c, NEW d, NEW u, Change(i, c), c.status \notin Live,
         told' \in ResultTold(i, d, u)
  PROVE  told' = told \/ ResultHeard
<1>1. duels'[i] = c
  BY DEF Change, Ids
<1>2. CASE \E v \in Others(d, u) : told' = [told EXCEPT ![<<i, SideOf(d, v)>>].result = TRUE]
  <2>1. PICK v \in Others(d, u) : told' = [told EXCEPT ![<<i, SideOf(d, v)>>].result = TRUE]
    BY <1>2
  <2>2. SideOf(d, v) \in Sides
    BY DEF SideOf, Sides
  <2>3. QED
    BY <1>1, <2>1, <2>2 DEF ResultHeard
<1>3. QED
  BY <1>2 DEF ResultTold

LEMMA StepKinds ==
  ASSUME TableInv, [LobbyNext]_lobbyVars
  PROVE  \/ RowsOnly \/ HandFalls \/ Wait
         \/ \E u \in story.users, i \in Ids, now \in Clocks, kind \in {"rematch", "best3", "next"} :
              LockSource(u, kind, i, now)
         \/ \E p \in pings, arrives \in BOOLEAN : ReservePush(p[1], p[2], arrives)
         \/ \E arrive \in BOOLEAN : RunDeadlines(arrive)
         \/ \E u \in story.users : TicketCredited(u) \/ TicketRefunded(u) \/ PremiumEnds(u)
<1>1. CASE UNCHANGED lobbyVars
  BY <1>1 DEF lobbyVars, RowsOnly
<1>2. CASE Presses
  <2>1. PICK u \in story.users, now \in Clocks :
          \/ \E open \in BOOLEAN : CreateSelected(u, open, now)
          \/ \E i \in Ids : Repost(u, i, now) \/ CancelByCreator(u, i, now)
          \/ \E i \in Ids : Rematch(u, i, now) \/ BestOfThree(u, i, now) \/ NextGame(u, i, now)
          \/ \E i \in Ids : Join(u, i, now) \/ Look(u, i, now)
          \/ \E i \in Ids : AnswerLate(u, i, now)
          \/ \E i \in Ids : \E winner \in {duels[i].by, duels[i].with, NoFriend} :
               Finish(u, i, now, winner)
    BY <1>2 DEF Presses
  <2>2. CASE \E open \in BOOLEAN : CreateSelected(u, open, now)
    BY <2>2 DEF CreateSelected, RowsOnly
  <2>3. CASE \E i \in Ids : Repost(u, i, now) \/ CancelByCreator(u, i, now)
    BY <2>3 DEF Repost, CancelByCreator, RowsOnly
  <2>4. CASE \E i \in Ids : Rematch(u, i, now) \/ BestOfThree(u, i, now) \/ NextGame(u, i, now)
    BY <2>1, <2>4 DEF Rematch, BestOfThree, NextGame
  <2>5. CASE \E i \in Ids : Join(u, i, now) \/ Look(u, i, now)
    BY <2>5 DEF Join, Look, RowsOnly, Pinged
  <2>6. ASSUME NEW i \in Ids, NEW winner, Finish(u, i, now, winner) PROVE RowsOnly
    <3> DEFINE d == Refreshed(duels[i], now)  done == d.done \cup {SideOf(d, u)}
               e == [d EXCEPT !.done = done, !.winner = winner, !.status = "COMPLETED"]
    <3>1. UNCHANGED <<clock, hands, purse, story, bought>>
      BY <2>6 DEF Finish
    <3>2. pings' = Pinged({<<i, "end">>}) \/ pings' = Pinged({})
      BY <2>6 DEF Finish
    <3>3. CASE done = Sides
      <4>1. told' \in ResultTold(i, d, u) /\ Change(i, e)
        BY <2>6, <3>3 DEF Finish
      <4>2. d \in Rows
        BY Table, RefreshedKeeps DEF Keeps
      <4>3. e.status \notin Live
        BY <4>2 DEF Rows, Live, Playable
      <4> HIDE DEF d, e
      <4>4. told' = told \/ ResultHeard
        BY <4>1, <4>3, ResultOf
      <4>5. QED
        BY <3>1, <3>2, <4>4 DEF RowsOnly, Pinged
    <3>4. CASE done # Sides
      <4>1. told' = told
        BY <2>6, <3>4 DEF Finish
      <4>2. QED
        BY <3>1, <3>2, <4>1 DEF RowsOnly, Pinged
    <3>5. QED
      BY <3>3, <3>4
  <2>7. ASSUME NEW i \in Ids, AnswerLate(u, i, now) PROVE RowsOnly
    <3>1. told' = told \/ ResultHeard
      BY <2>7, ResultOf DEF AnswerLate
    <3>2. QED
      BY <2>7, <3>1 DEF AnswerLate, RowsOnly
  <2>8. QED
    BY <2>1, <2>2, <2>3, <2>4, <2>5, <2>6, <2>7
<1>3. ASSUME NEW u \in DOMAIN hands, FinishSource(u) PROVE HandFalls
  <2> DEFINE kept == [duels EXCEPT ![hands[u].source] = Refreshed(duels[hands[u].source], hands[u].now)]
  <2>1. /\ hands' = [v \in DOMAIN hands \ {u} |-> hands[v]]
        /\ UNCHANGED <<clock, purse, pings, story, bought>>
        /\ \/ told' = told
           \/ (\E new : duels' = Append(kept, new)) /\ told' \in Invited(Len(duels) + 1)
    BY <1>3 DEF FinishSource
  <2>2. Len(kept) = Len(duels) /\ kept \in Seq(Rows)
    <3>1. hands[u].source \in Ids
      BY DEF TableInv, LobbyTypeOK
    <3>2. Keeps(duels[hands[u].source], Refreshed(duels[hands[u].source], hands[u].now))
      BY <3>1, Table, RefreshedKeeps
    <3>3. QED
      BY <3>1, <3>2, Changed DEF Rewritten
  <2> HIDE DEF kept
  <2>3. ASSUME NEW new, duels' = Append(kept, new) PROVE Len(duels') = Len(duels) + 1
    BY <2>2, <2>3
  <2>4. told' = told \/ InviteHeard
    BY <2>1, <2>3 DEF Invited, InviteHeard
  <2>5. QED
    BY <2>1, <2>4 DEF HandFalls
<1>4. CASE \E u \in Friends : DeadlockEnds(u)
  BY <1>4 DEF DeadlockEnds, HandFalls
<1>5. CASE \E i \in Ids, asked \in CardsAsked, refused \in Sides \cup {"none"} :
             SendProofCards(i, asked, refused)
  BY <1>5 DEF SendProofCards, RowsOnly
<1>6. QED
  BY <1>1, <1>2, <1>3, <1>4, <1>5 DEF LobbyNext

LEMMA TimePasses ==
  ASSUME TableInv, [LobbyNext]_lobbyVars
  PROVE  story' = story /\ clock' \in 0..story.ticks /\ clock <= clock'
<1>1. clock \in 0..story.ticks /\ story.ticks \in Nat
  BY StoriesPossible DEF TableInv, LobbyTypeOK
<1>2. story' = story /\ (clock' = clock \/ Wait)
  BY StepKinds DEF RowsOnly, HandFalls, LockSource, ReservePush, RunDeadlines, TicketCredited,
                   TicketRefunded, PremiumEnds, Wait
<1>3. QED
  BY <1>1, <1>2 DEF Wait

\* A hand is let go, or reaches for one finished duel.
LEMMA HandsStep ==
  ASSUME TableInv, [LobbyNext]_lobbyVars
  PROVE  \/ hands' = hands
         \/ \E u \in DOMAIN hands : hands' = [v \in DOMAIN hands \ {u} |-> hands[v]]
         \/ \E u \in story.users, i \in Ids, now \in Clocks, kind \in {"rematch", "best3", "next"} :
              LockSource(u, kind, i, now)
BY StepKinds DEF RowsOnly, HandFalls, ReservePush, RunDeadlines, TicketCredited,
                 TicketRefunded, PremiumEnds, Wait

LEMMA PurseStep ==
  ASSUME TableInv, [LobbyNext]_lobbyVars
  PROVE  \/ purse' = purse /\ bought' = bought
         \/ \E u \in story.users : TicketCredited(u) \/ TicketRefunded(u) \/ PremiumEnds(u)
BY StepKinds DEF RowsOnly, HandFalls, LockSource, ReservePush, RunDeadlines, Wait

LEMMA PingsStep ==
  ASSUME TableInv, [LobbyNext]_lobbyVars
  PROVE  pings' \subseteq pings \cup (Ids \X {"join", "end"})
BY StepKinds DEF RowsOnly, HandFalls, LockSource, ReservePush, RunDeadlines, TicketCredited,
                 TicketRefunded, PremiumEnds, Wait

LEMMA ToldStep ==
  ASSUME TableInv, [LobbyNext]_lobbyVars
  PROVE  \/ told' = told \/ ResultHeard \/ InviteHeard
         \/ \E p \in pings, arrives \in BOOLEAN : ReservePush(p[1], p[2], arrives)
         \/ \E arrive \in BOOLEAN : RunDeadlines(arrive)
BY StepKinds DEF RowsOnly, HandFalls, LockSource, TicketCredited,
                 TicketRefunded, PremiumEnds, Wait

-----------------------------------------------------------------------------
(* Each part of the invariant is kept. *)

\* Who is named by the story or by a clock is known.
LEMMA Known ==
  ASSUME TableInv
  PROVE  /\ story \in Stories /\ story.ticks \in Nat /\ story.duels \in Nat /\ story.tickets \in Nat
         /\ \A u \in story.users : u \in Friends
         /\ \A now \in Clocks : now \in 0..clock
         /\ \A u \in Friends : /\ purse[u].tickets \in Nat /\ bought[u] \in Nat
                               /\ purse[u] \in [tickets : 0..story.tickets, premium : BOOLEAN]
                               /\ bought[u] \in 0..story.tickets /\ purse[u].tickets <= bought[u]
<1>1. story \in Stories /\ clock \in 0..story.ticks
  BY DEF TableInv, LobbyTypeOK
<1>2. story.ticks \in Nat /\ story.duels \in Nat /\ story.tickets \in Nat /\ story.lag \in Nat
  BY <1>1, StoriesPossible
<1>3. \A u \in story.users : u \in Friends
  BY <1>1, StoriesPossible
<1>4. \A now \in Clocks : now \in 0..clock
  BY <1>1, <1>2 DEF Clocks
<1>5. \A u \in Friends : /\ purse[u].tickets \in Nat /\ bought[u] \in Nat
                         /\ purse[u] \in [tickets : 0..story.tickets, premium : BOOLEAN]
                         /\ bought[u] \in 0..story.tickets /\ purse[u].tickets <= bought[u]
  BY <1>2 DEF TableInv, LobbyTypeOK
<1>6. QED
  BY <1>1, <1>2, <1>3, <1>4, <1>5

LEMMA AccountsKept ==
  ASSUME TableInv, [LobbyNext]_lobbyVars
  PROVE  /\ purse' \in [Friends -> [tickets : 0..story.tickets, premium : BOOLEAN]]
         /\ bought' \in [Friends -> 0..story.tickets]
         /\ \A u \in Friends : /\ purse'[u].tickets <= bought'[u]
                               /\ bought[u] <= bought'[u]
<1>1. /\ purse \in [Friends -> [tickets : 0..story.tickets, premium : BOOLEAN]]
      /\ bought \in [Friends -> 0..story.tickets]
      /\ \A u \in Friends : purse[u].tickets <= bought[u]
  BY DEF TableInv, LobbyTypeOK
<1>2. CASE purse' = purse /\ bought' = bought
  BY <1>1, <1>2, Known
<1>3. ASSUME NEW u \in Friends, TicketCredited(u)
      PROVE  /\ purse' \in [Friends -> [tickets : 0..story.tickets, premium : BOOLEAN]]
             /\ bought' \in [Friends -> 0..story.tickets]
             /\ \A v \in Friends : purse'[v].tickets <= bought'[v] /\ bought[v] <= bought'[v]
  <2>1. /\ bought[u] < story.tickets
        /\ purse' = [purse EXCEPT ![u].tickets = @ + 1] /\ bought' = [bought EXCEPT ![u] = @ + 1]
    BY <1>3 DEF TicketCredited
  <2>2. purse[u].tickets + 1 \in 0..story.tickets /\ bought[u] + 1 \in 0..story.tickets
    BY <2>1, Known
  <2>3. QED
    BY <1>1, <2>1, <2>2, Known
<1>4. ASSUME NEW u \in Friends, TicketRefunded(u)
      PROVE  /\ purse' \in [Friends -> [tickets : 0..story.tickets, premium : BOOLEAN]]
             /\ bought' = bought /\ \A v \in Friends : purse'[v].tickets <= bought[v]
  <2>1. /\ purse[u].tickets > 0 /\ bought' = bought
        /\ purse' = [purse EXCEPT ![u].tickets = @ - 1]
    BY <1>4 DEF TicketRefunded
  <2>2. purse[u].tickets - 1 \in 0..story.tickets
    BY <2>1, Known
  <2>3. QED
    BY <1>1, <2>1, <2>2, Known
<1>5. ASSUME NEW u \in Friends, PremiumEnds(u)
      PROVE  /\ purse' \in [Friends -> [tickets : 0..story.tickets, premium : BOOLEAN]]
             /\ bought' = bought /\ \A v \in Friends : purse'[v].tickets <= bought[v]
  BY <1>1, <1>5 DEF PremiumEnds
<1>6. QED
  BY <1>1, <1>2, <1>3, <1>4, <1>5, PurseStep, Known

\* What Notified writes.
LEMMA NotifiedIs ==
  ASSUME TableInv, NEW rows, NEW x \in DOMAIN told
  PROVE  /\ Notified(rows)[x] \in Messages
         /\ Notified(rows)[x].push =
              told[x].push + IF x[1] \in rows /\ x[2] \in Reminds(duels[x[1]]) THEN 1 ELSE 0
         /\ Notified(rows)[x].over =
              told[x].over + IF x[1] \in rows /\ x[2] \in EndTold(duels[x[1]]) THEN 1 ELSE 0
         /\ Notified(rows)[x].invite = told[x].invite /\ Notified(rows)[x].result = told[x].result
<1> DEFINE p == IF x[1] \in rows /\ x[2] \in Reminds(duels[x[1]]) THEN 1 ELSE 0
           o == IF x[1] \in rows /\ x[2] \in EndTold(duels[x[1]]) THEN 1 ELSE 0
<1>1. told[x] \in Messages
  BY DEF TableInv, LobbyTypeOK
<1>2. Notified(rows)[x] = [told[x] EXCEPT !.push = @ + p, !.over = @ + o]
  BY DEF Notified
<1>3. p \in Nat /\ o \in Nat
  OBVIOUS
<1> HIDE DEF p, o
<1>4. /\ Notified(rows)[x] \in Messages
      /\ Notified(rows)[x].push = told[x].push + p /\ Notified(rows)[x].over = told[x].over + o
      /\ Notified(rows)[x].invite = told[x].invite /\ Notified(rows)[x].result = told[x].result
  <2>1. PICK m \in Messages : m = told[x]
    BY <1>1
  <2>2. m.push + p \in Nat /\ m.over + o \in Nat
    BY <1>3 DEF Messages
  <2>3. Notified(rows)[x] = [m EXCEPT !.push = @ + p, !.over = @ + o]
    BY <1>2, <2>1
  <2>4. QED
    BY <2>1, <2>2, <2>3 DEF Messages
<1>5. QED
  BY <1>4 DEF p, o

LEMMA ToldKept ==
  ASSUME TableInv, [LobbyNext]_lobbyVars
  PROVE  told' \in [(1..story.duels) \X Sides -> Messages]
<1>1. told \in [(1..story.duels) \X Sides -> Messages]
  BY DEF TableInv, LobbyTypeOK
<1>2. ASSUME NEW m \in Messages, NEW n \in {0, 1}
      PROVE  /\ [m EXCEPT !.result = TRUE] \in Messages
             /\ [m EXCEPT !.invite = @ + 1] \in Messages
             /\ [m EXCEPT !.push = @ + n] \in Messages
  <2>1. m.push + n \in Nat /\ m.invite + 1 \in Nat
    BY DEF Messages
  <2>2. QED
    BY <2>1 DEF Messages
<1>3. ASSUME NEW x, NEW m, x \in DOMAIN told => m \in Messages, told' = [told EXCEPT ![x] = m]
      PROVE  told' \in [(1..story.duels) \X Sides -> Messages]
  BY <1>1, <1>3
<1>4. CASE ResultHeard \/ InviteHeard
  <2>1. PICK x, m : /\ told' = [told EXCEPT ![x] = m]
                    /\ m = [told[x] EXCEPT !.result = TRUE] \/ m = [told[x] EXCEPT !.invite = @ + 1]
    BY <1>4 DEF ResultHeard, InviteHeard
  <2>2. x \in DOMAIN told => m \in Messages
    BY <1>1, <1>2, <2>1
  <2>3. QED
    BY <1>3, <2>1, <2>2
<1>5. ASSUME NEW p \in pings, NEW arrives \in BOOLEAN, ReservePush(p[1], p[2], arrives)
      PROVE  told' \in [(1..story.duels) \X Sides -> Messages]
  <2>1. CASE told' = told
    BY <1>1, <2>1
  <2>2. ASSUME NEW n \in {0, 1}, told' = [told EXCEPT ![<<p[1], "by">>].push = @ + n]
        PROVE  told' \in [(1..story.duels) \X Sides -> Messages]
    <3> DEFINE x == <<p[1], "by">>  m == [told[x] EXCEPT !.push = @ + n]
    <3>1. x \in DOMAIN told => m \in Messages
      BY <1>1, <1>2
    <3>2. told' = [told EXCEPT ![x] = m]
      BY <2>2
    <3> HIDE DEF x, m
    <3>3. QED
      BY <1>3, <3>1, <3>2
  <2>3. QED
    BY <1>5, <2>1, <2>2 DEF ReservePush
<1>6. ASSUME NEW arrive \in BOOLEAN, RunDeadlines(arrive)
      PROVE  told' \in [(1..story.duels) \X Sides -> Messages]
  <2>1. told' = told \/ \E rows : told' = Notified(rows)
    BY <1>6 DEF RunDeadlines
  <2>2. ASSUME NEW rows PROVE Notified(rows) \in [(1..story.duels) \X Sides -> Messages]
    <3>1. \A x \in DOMAIN told : Notified(rows)[x] \in Messages
      BY NotifiedIs
    <3>2. Notified(rows) = [x \in DOMAIN told |-> Notified(rows)[x]]
      BY DEF Notified
    <3>3. QED
      BY <1>1, <3>1, <3>2
  <2>3. QED
    BY <1>1, <2>1, <2>2
<1>7. QED
  BY <1>1, <1>3, <1>4, <1>5, <1>6, ToldStep

LEMMA HandsTyped ==
  ASSUME TableInv, RowsStep, [LobbyNext]_lobbyVars
  PROVE  /\ DOMAIN hands' \subseteq Friends
         /\ \A u \in DOMAIN hands' :
              hands'[u] \in [kind : {"rematch", "best3", "next"}, source : Ids', now : 0..clock']
<1>1. /\ DOMAIN hands \subseteq Friends
      /\ \A u \in DOMAIN hands :
           hands[u] \in [kind : {"rematch", "best3", "next"}, source : Ids, now : 0..clock]
  BY DEF TableInv, LobbyTypeOK
<1>2. Ids \subseteq Ids' /\ clock <= clock' /\ clock \in Nat /\ clock' \in Nat
  <2>1. Ids \subseteq Ids'
    BY RowsAfter
  <2>2. QED
    BY <2>1, TimePasses, Table, Known
<1>3. \A u \in DOMAIN hands :
        hands[u] \in [kind : {"rematch", "best3", "next"}, source : Ids', now : 0..clock']
  <2> HIDE DEF Ids
  <2>1. \A n \in 0..clock : n \in 0..clock'
    BY <1>2
  <2>2. QED
    BY <1>1, <1>2, <2>1
<1>4. CASE hands' = hands
  BY <1>1, <1>3, <1>4
<1>5. CASE \E u \in DOMAIN hands : hands' = [v \in DOMAIN hands \ {u} |-> hands[v]]
  BY <1>1, <1>3, <1>5
<1>6. ASSUME NEW u \in story.users, NEW i \in Ids, NEW now \in Clocks,
             NEW kind \in {"rematch", "best3", "next"}, LockSource(u, kind, i, now)
      PROVE  /\ DOMAIN hands' \subseteq Friends
             /\ \A v \in DOMAIN hands' :
                  hands'[v] \in [kind : {"rematch", "best3", "next"}, source : Ids', now : 0..clock']
  <2>1. hands' = [v \in DOMAIN hands \cup {u} |->
                    IF v = u THEN [kind |-> kind, source |-> i, now |-> now] ELSE hands[v]]
    BY <1>6 DEF LockSource
  <2>2. u \in Friends /\ i \in Ids' /\ now \in 0..clock'
    BY <1>2, Known
  <2> HIDE DEF Ids
  <2>3. QED
    BY <1>1, <1>3, <2>1, <2>2
<1>7. QED
  BY <1>4, <1>5, <1>6, HandsStep

LEMMA TableKept ==
  ASSUME TableInv, RowsStep, [LobbyNext]_lobbyVars PROVE TableInv'
<1>1. story' = story /\ story \in Stories /\ clock' \in 0..story.ticks /\ clock <= clock' /\ clock \in Nat
      /\ clock' \in Nat
  BY TimePasses, Known, Table
<1>2. duels' \in Seq(Rows) /\ Len(duels') <= story.duels /\ Ids \subseteq Ids'
  <2>1. Len(duels) <= story.duels
    BY DEF TableInv, LobbyTypeOK
  <2>2. QED
    BY <2>1, RowsAfter
<1>3. pings' \subseteq Ids' \X {"join", "end"}
  <2>1. pings \subseteq Ids \X {"join", "end"}
    BY DEF TableInv, LobbyTypeOK
  <2> HIDE DEF Ids
  <2>2. QED
    BY <1>2, <2>1, PingsStep
<1>4. \A i \in Ids' : duels'[i].made <= clock'
  <2>1. ASSUME NEW i \in Ids, Keeps(duels[i], duels'[i]) PROVE duels'[i].made <= clock'
    <3>1. duels[i].made \in Nat /\ duels[i].made <= clock
      BY Table DEF TableInv, Rows
    <3>2. QED
      BY <1>1, <2>1, <3>1 DEF Keeps
  <2>2. ASSUME NEW new, Affords(new) PROVE new.made <= clock'
    BY <1>1, <2>2 DEF Affords
  <2> HIDE DEF Ids
  <2>3. QED
    BY <2>1, <2>2, RowsAfter
<1>5. LobbyTypeOK'
  BY <1>1, <1>2, <1>3, AccountsKept, ToldKept, HandsTyped DEF LobbyTypeOK
<1>6. QED
  BY <1>4, <1>5, AccountsKept DEF TableInv

\* The seats of a duel are those of the row it becomes, once both are taken.
LEMMA SeatsStay ==
  ASSUME NEW d \in Rows, NEW e, Keeps(d, e), NEW u \in Friends, u \in {d.by, d.with}, Others(d, u) # {}
  PROVE  u \in {e.by, e.with} /\ Others(e, u) # {}
<1>1. d.with # NoFriend
  BY LobbyLimits DEF Others
<1>2. e.by = d.by /\ e.with = d.with
  BY <1>1 DEF Keeps
<1>3. QED
  BY <1>2 DEF Others

LEMMA HandsKept ==
  ASSUME TableInv, HandsInv, RowsStep, [LobbyNext]_lobbyVars PROVE HandsInv'
<1> DEFINE Held(d, u) == u \in {d.by, d.with} /\ Others(d, u) # {}
<1>1. /\ DOMAIN hands \subseteq Friends
      /\ \A u \in DOMAIN hands : hands[u].source \in Ids /\ Held(duels[hands[u].source], u)
  BY DEF TableInv, LobbyTypeOK, HandsInv
<1>2. \A i \in Ids : duels[i] \in Rows /\ Keeps(duels[i], duels'[i])
  BY Table, RowsAfter
<1>3. \A u \in DOMAIN hands : Held(duels'[hands[u].source], u)
  <2> HIDE DEF Ids
  <2>1. QED
    BY <1>1, <1>2, SeatsStay
<1>4. SUFFICES \A u \in DOMAIN hands' : Held(duels'[hands'[u].source], u)
  BY DEF HandsInv, Others
<1>5. CASE hands' = hands
  BY <1>3, <1>5
<1>6. CASE \E u \in DOMAIN hands : hands' = [v \in DOMAIN hands \ {u} |-> hands[v]]
  <2> HIDE DEF Held
  <2>1. QED
    BY <1>3, <1>6
<1>7. ASSUME NEW u \in story.users, NEW i \in Ids, NEW now \in Clocks,
             NEW kind \in {"rematch", "best3", "next"}, LockSource(u, kind, i, now)
      PROVE  \A v \in DOMAIN hands' : Held(duels'[hands'[v].source], v)
  <2>1. /\ hands' = [v \in DOMAIN hands \cup {u} |->
                       IF v = u THEN [kind |-> kind, source |-> i, now |-> now] ELSE hands[v]]
        /\ duels' = duels /\ Held(Refreshed(duels[i], now), u)
    BY <1>7 DEF LockSource
  <2>2. Refreshed(duels[i], now).by = duels[i].by /\ Refreshed(duels[i], now).with = duels[i].with
    BY <1>2 DEF Refreshed, Expired, Rows
  <2>3. Held(duels'[i], u)
    BY <2>1, <2>2 DEF Others
  <2> HIDE DEF Held
  <2>4. QED
    BY <1>3, <2>1, <2>3
<1>8. QED
  BY <1>5, <1>6, <1>7, HandsStep

-----------------------------------------------------------------------------
(* The series. *)

Group(s) == {i \in Ids : duels[i].series = s}

LEMMA NumberedStays ==
  ASSUME NEW rows, NEW newer, NEW G, NEW d \in Rows, NEW e, Numbered(rows, G, d), Keeps(d, e), d.with # NoFriend,
         \A j \in G : Keeps(rows[j], newer[j])
  PROVE  Numbered(newer, G, e)
<1>1. \A j \in G : newer[j].game = rows[j].game
  BY DEF Keeps
<1>2. {newer[j].game : j \in G} = {rows[j].game : j \in G}
  BY <1>1
<1>3. e.best = d.best /\ e.by = d.by /\ e.with = d.with
  BY DEF Keeps
<1>4. \A j \in G : /\ {newer[j].by, newer[j].with} = {e.by, e.with}
                   /\ newer[j].best = e.best /\ newer[j].with # NoFriend
  BY <1>3 DEF Numbered, Keeps
<1>5. QED
  BY <1>2, <1>3, <1>4 DEF Numbered

\* One game more.
LEMMA NumberedGrows ==
  ASSUME NEW rows, NEW G, IsFiniteSet(G), NEW d \in Rows, Numbered(rows, G, d), NEW n, n \notin G,
         Cardinality(G) < d.best, rows[n].game = Cardinality(G) + 1, rows[n].best = d.best,
         {rows[n].by, rows[n].with} = {d.by, d.with}, rows[n].with # NoFriend
  PROVE  Numbered(rows, G \cup {n}, d)
<1>1. Cardinality(G \cup {n}) = Cardinality(G) + 1 /\ Cardinality(G) \in Nat
  BY OneMore
<1>2. d.best \in Nat
  BY LobbyLimits DEF Rows
<1>3. PICK c \in Nat : c = Cardinality(G)
  BY <1>1
<1>4. {rows[j].game : j \in G} = 1..c
  BY <1>3 DEF Numbered
<1>5. {rows[j].game : j \in G \cup {n}} = 1..c \cup {c + 1}
  BY <1>3, <1>4
<1>6. 1..c \cup {c + 1} = 1..(c + 1)
  OBVIOUS
<1>7. Cardinality(G \cup {n}) <= d.best
  BY <1>1, <1>2
<1>8. \A j \in G \cup {n} : /\ {rows[j].by, rows[j].with} = {d.by, d.with}
                            /\ rows[j].best = d.best /\ rows[j].with # NoFriend
  BY DEF Numbered
<1>9. QED
  BY <1>1, <1>3, <1>5, <1>6, <1>7, <1>8 DEF Numbered

LEMMA SeriesKept ==
  ASSUME TableInv, SeriesInv, RowsStep PROVE SeriesInv'
<1>1. \A i \in Ids : /\ duels[i] \in Rows /\ Keeps(duels[i], duels'[i])
                     /\ duels'[i].series = duels[i].series /\ duels[i].series \in Nat
                     /\ i \in Nat
  <2>1. \A i \in Ids : duels[i] \in Rows /\ i \in Nat
    BY Table
  <2>2. \A i \in Ids : Keeps(duels[i], duels'[i])
    BY RowsAfter
  <2> HIDE DEF Ids
  <2>3. QED
    BY <2>1, <2>2 DEF Keeps, Rows
<1>2. \A i \in Ids : duels[i].series # 0 =>
        LET G == Group(duels[i].series)
        IN /\ SeriesOf(duels[i]) = G /\ i \in G /\ Numbered(duels, G, duels[i])
           /\ duels[i].with # NoFriend /\ IsFiniteSet(G)
  <2> SUFFICES ASSUME NEW i \in Ids, duels[i].series # 0
               PROVE  LET G == Group(duels[i].series)
                      IN /\ SeriesOf(duels[i]) = G /\ i \in G /\ Numbered(duels, G, duels[i])
                         /\ duels[i].with # NoFriend /\ IsFiniteSet(G)
    OBVIOUS
  <2> DEFINE G == Group(duels[i].series)
  <2>1. SeriesOf(duels[i]) = G /\ i \in G
    BY DEF SeriesOf, Group
  <2>2. Numbered(duels, G, duels[i])
    BY <2>1 DEF SeriesInv
  <2>3. duels[i].with # NoFriend
    BY <2>1, <2>2 DEF Numbered
  <2>4. IsFiniteSet(G)
    BY <2>1, LastGameIs
  <2>5. QED
    BY <2>1, <2>2, <2>3, <2>4
<1>3. \A i \in Ids : duels[i].series # 0 => Numbered(duels', Group(duels[i].series), duels'[i])
  <2> SUFFICES ASSUME NEW i \in Ids, duels[i].series # 0
               PROVE  Numbered(duels', Group(duels[i].series), duels'[i])
    OBVIOUS
  <2>1. \A j \in Group(duels[i].series) : Keeps(duels[j], duels'[j])
    BY <1>1 DEF Group
  <2>2. QED
    BY <1>1, <1>2, <2>1, NumberedStays
<1>4. SUFFICES ASSUME NEW i \in Ids'
               PROVE  /\ duels'[i].series <= i
                      /\ LET G == {j \in Ids' : duels'[j].series = duels'[i].series}
                         IN duels'[i].series # 0 => Numbered(duels', G, duels'[i])
  <2>1. \A i \in Ids' : (SeriesOf(duels[i]))' # {} =>
          /\ duels'[i].series # 0
          /\ (SeriesOf(duels[i]))' = {j \in Ids' : duels'[j].series = duels'[i].series}
    BY DEF SeriesOf
  <2>2. QED
    BY <1>4, <2>1 DEF SeriesInv, Numbered
<1>5. CASE Ids' = Ids
  <2>1. duels'[i].series <= i
    BY <1>1, <1>5 DEF SeriesInv
  <2>2. {j \in Ids' : duels'[j].series = duels'[i].series} = Group(duels[i].series)
    BY <1>1, <1>5 DEF Group
  <2>3. QED
    BY <1>1, <1>3, <1>5, <2>1, <2>2
<1>6. ASSUME NEW new \in Rows, NEW n \in Nat, n = Len(duels) + 1, n \notin Ids, Ids' = Ids \cup {n},
             duels'[n] = new,
             Single(new) \/ Opens(new, n) \/ \E k \in Ids : Continues(duels[k], new)
      PROVE  /\ duels'[i].series <= i
             /\ LET G == {j \in Ids' : duels'[j].series = duels'[i].series}
                IN duels'[i].series # 0 => Numbered(duels', G, duels'[i])
  <2> DEFINE G == {j \in Ids' : duels'[j].series = duels'[i].series}
  <2>1. \A j \in Ids : duels[j].series <= j /\ j < n
    BY <1>6, Table DEF SeriesInv
  <2>2. CASE i \in Ids /\ new.series # duels[i].series
    <3>1. duels'[i].series <= i
      BY <1>1, <2>1, <2>2
    <3>2. G = Group(duels[i].series)
      BY <1>1, <1>6, <2>2 DEF Group
    <3>3. QED
      BY <1>1, <1>3, <2>2, <3>1, <3>2
  <2>3. CASE new.series = 0
    <3>1. CASE i = n
      BY <1>6, <2>3, <3>1
    <3>2. CASE i \in Ids /\ duels[i].series = 0
      BY <1>1, <3>2
    <3>3. QED
      BY <1>6, <2>2, <2>3, <3>1, <3>2
  <2>4. CASE Opens(new, n)
    <3>1. new.series = n /\ new.game = 1 /\ new.best = BestOf /\ new.with # NoFriend
      BY <2>4 DEF Opens
    <3>2. CASE i \in Ids
      <4>1. new.series # duels[i].series
        BY <1>1, <2>1, <3>1, <3>2
      <4>2. QED
        BY <2>2, <3>2, <4>1
    <3>3. CASE i = n
      <4>1. G = {n}
        <5>1. duels'[i].series = n /\ i \in Ids' /\ \A j \in Ids' : j = n \/ j \in Ids
          BY <1>6, <3>1, <3>3
        <5>2. \A j \in Ids : duels'[j].series # n
          BY <1>1, <2>1
        <5> HIDE DEF Ids
        <5>3. QED
          BY <3>3, <5>1, <5>2
      <4>2. Cardinality({n}) = 1
        BY FS_Singleton
      <4>3. {duels'[j].game : j \in {n}} = 1..1
        BY <1>6, <3>1
      <4>4. Numbered(duels', {n}, new)
        BY <1>6, <3>1, <4>2, <4>3, LobbyLimits DEF Numbered
      <4>5. Numbered(duels', G, duels'[i])
        BY <1>6, <3>3, <4>1, <4>4
      <4>6. duels'[i].series <= i
        BY <1>6, <3>1, <3>3
      <4>7. QED
        BY <4>5, <4>6
    <3>4. QED
      BY <1>6, <3>2, <3>3
  <2>5. ASSUME NEW k \in Ids, Continues(duels[k], new)
        PROVE  duels'[i].series <= i /\ (duels'[i].series # 0 => Numbered(duels', G, duels'[i]))
    <3> DEFINE d == duels[k]  S == Group(d.series)
    <3>1. /\ d.series # 0 /\ LastGame(d) < d.best /\ new.series = d.series
          /\ new.game = LastGame(d) + 1 /\ new.best = d.best /\ new.with # NoFriend
          /\ {new.by, new.with} = {d.by, d.with}
      BY <2>5 DEF Continues
    <3>2. LastGame(d) = Cardinality(S) /\ IsFiniteSet(S) /\ k \in S
      BY <1>2, <3>1, LastGameIs
    <3>3. Numbered(duels', S, duels'[k]) /\ d.with # NoFriend
      BY <1>2, <1>3, <3>1
    <3>4. /\ duels'[k].best = d.best /\ duels'[k].by = d.by /\ duels'[k].with = d.with
          /\ duels'[k] \in Rows
      BY <1>1, <3>3 DEF Keeps
    <3>5. n \notin S
      BY <1>6 DEF Group
    <3> HIDE DEF S, d
    <3>6. Numbered(duels', S \cup {n}, duels'[k])
      BY <1>6, <3>1, <3>2, <3>3, <3>4, <3>5, NumberedGrows
    <3>7. CASE duels'[i].series = d.series
      <4>1. G = S \cup {n}
        BY <1>1, <1>6, <3>1, <3>7 DEF S, Group
      <4>2. duels'[i].best = duels'[k].best
            /\ {duels'[i].by, duels'[i].with} = {duels'[k].by, duels'[k].with}
        <5>1. i \in S \cup {n}
          BY <3>7, <4>1
        <5>2. QED
          BY <3>6, <5>1 DEF Numbered
      <4>3. Numbered(duels', G, duels'[i])
        BY <3>6, <4>1, <4>2 DEF Numbered
      <4>4. duels'[i].series <= i
        <5>1. d.series <= k /\ k < n /\ d.series \in Nat /\ k \in Nat
          BY <1>1, <2>1 DEF d
        <5>2. CASE i = n
          BY <3>7, <5>1, <5>2
        <5>3. CASE i \in Ids
          BY <1>1, <2>1, <5>3
        <5>4. QED
          BY <1>6, <5>2, <5>3
      <4>5. QED
        BY <4>3, <4>4
    <3>8. CASE duels'[i].series # d.series
      <4>1. i \in Ids /\ new.series # duels[i].series
        BY <1>1, <1>6, <3>1, <3>8
      <4>2. QED
        BY <2>2, <4>1
    <3>9. QED
      BY <3>7, <3>8
  <2>6. QED
    BY <1>6, <2>3, <2>4, <2>5 DEF Single
<1>7. QED
  BY <1>5, <1>6, RowsAfter

-----------------------------------------------------------------------------
(* Tickets and free duels. *)

Spent(u) == {i \in Ids : duels[i].by = u /\ duels[i].access = "PAID_TICKET"}
FreeOn(u, day) ==
  {i \in Ids : duels[i].by = u /\ duels[i].access = "FREE" /\ UtcDay(duels[i].made) = day}

CountsInv ==
  \A u \in Friends : /\ Cardinality(Spent(u)) <= bought[u]
                     /\ \A day \in Nat : Cardinality(FreeOn(u, day)) <= FreeCreates

LEMMA DayNat == \A t \in Nat : UtcDay(t) \in Nat
BY DEF UtcDay

\* Whoever may create with a ticket has one left, and who may for nothing has not had all.
LEMMA MayAfford ==
  ASSUME TableInv, NEW u \in Friends, NEW now \in 0..clock
  PROVE  /\ "PAID_TICKET" \in AccessFor(u, now) => Cardinality(Spent(u)) < bought[u]
         /\ "FREE" \in AccessFor(u, now) => Cardinality(FreeOn(u, UtcDay(now))) < FreeCreates
<1> DEFINE today == {i \in Made(u, UtcToday(now)) : duels[i].access = "FREE"}
           paid == {i \in Made(u, 0..clock) : duels[i].access = "PAID_TICKET"}
<1>1. \A i \in Ids : duels[i].made \in 0..clock /\ duels[i].made \in Nat
  BY Table DEF TableInv, Rows
<1>2. paid = Spent(u)
  BY <1>1 DEF Made, Spent
<1>3. now \in Nat /\ UtcDay(now) \in Nat /\ clock \in Nat
  BY Table, DayNat
<1>4. FreeOn(u, UtcDay(now)) \subseteq today /\ today \subseteq Ids /\ Spent(u) \subseteq Ids
  BY <1>1, <1>3 DEF FreeOn, Made, UtcToday, Spent
<1>5. /\ Cardinality(FreeOn(u, UtcDay(now))) <= Cardinality(today)
      /\ Cardinality(FreeOn(u, UtcDay(now))) \in Nat /\ Cardinality(today) \in Nat
      /\ Cardinality(Spent(u)) \in Nat
  <2>1. IsFiniteSet(today) /\ Cardinality(Spent(u)) \in Nat
    BY <1>4, Table, Part
  <2> HIDE DEF today
  <2>2. QED
    BY <1>4, <2>1, Part
<1>6. purse[u].tickets \in Nat /\ bought[u] \in Nat /\ purse[u].tickets <= bought[u]
  BY Known
<1>7. "PAID_TICKET" \in AccessFor(u, now) => Cardinality(paid) < purse[u].tickets
  BY DEF AccessFor
<1>8. "FREE" \in AccessFor(u, now) => Cardinality(today) < FreeCreates
  BY DEF AccessFor
<1> HIDE DEF today, paid
<1>9. QED
  BY <1>2, <1>5, <1>6, <1>7, <1>8, LobbyLimits

LEMMA CountsKept ==
  ASSUME TableInv, CountsInv, RowsStep, [LobbyNext]_lobbyVars PROVE CountsInv'
<1>1. \A i \in Ids : /\ duels'[i].by = duels[i].by /\ duels'[i].access = duels[i].access
                     /\ duels'[i].made = duels[i].made
  BY RowsAfter DEF Keeps
<1>2. SUFFICES ASSUME NEW u \in Friends
               PROVE  /\ Cardinality(Spent(u)') <= bought'[u]
                      /\ \A day \in Nat : Cardinality(FreeOn(u, day)') <= FreeCreates
  BY DEF CountsInv
<1>3. /\ Cardinality(Spent(u)) <= bought[u] /\ bought[u] <= bought'[u]
      /\ bought[u] \in Nat /\ bought'[u] \in Nat
  <2>1. story.tickets \in Nat
    BY Known
  <2>2. QED
    BY <2>1, AccountsKept, Known DEF CountsInv
<1>4. /\ IsFiniteSet(Spent(u)) /\ Cardinality(Spent(u)) \in Nat
      /\ \A day \in Nat : /\ IsFiniteSet(FreeOn(u, day)) /\ Cardinality(FreeOn(u, day)) \in Nat
                          /\ Cardinality(FreeOn(u, day)) <= FreeCreates
  BY Part, Table DEF Spent, FreeOn, CountsInv
<1>5. CASE Ids' = Ids
  <2>1. Spent(u)' = Spent(u)
    BY <1>1, <1>5 DEF Spent
  <2>2. \A day \in Nat : FreeOn(u, day)' = FreeOn(u, day)
    BY <1>1, <1>5 DEF FreeOn
  <2>3. QED
    BY <1>3, <1>4, <2>1, <2>2
<1>6. ASSUME NEW new \in Rows, NEW n \in Nat, n \notin Ids, Ids' = Ids \cup {n}, duels'[n] = new, Affords(new)
      PROVE  /\ Cardinality(Spent(u)') <= bought'[u]
             /\ \A day \in Nat : Cardinality(FreeOn(u, day)') <= FreeCreates
  <2>1. new.by \in Friends /\ new.made \in 0..clock /\ new.access \in AccessFor(new.by, new.made)
    BY <1>6 DEF Affords, Rows
  <2>2. Cardinality(Spent(u)') <= bought'[u]
    <3>1. CASE new.by = u /\ new.access = "PAID_TICKET"
      <4>1. Spent(u)' = Spent(u) \cup {n} /\ n \notin Spent(u)
        BY <1>1, <1>6, <3>1 DEF Spent
      <4>2. Cardinality(Spent(u)) < bought[u]
        BY <2>1, <3>1, MayAfford
      <4>3. Cardinality(Spent(u) \cup {n}) = Cardinality(Spent(u)) + 1
        BY <1>4, <4>1, OneMore
      <4>4. QED
        BY <1>3, <1>4, <4>1, <4>2, <4>3
    <3>2. CASE ~(new.by = u /\ new.access = "PAID_TICKET")
      <4>1. Spent(u)' = Spent(u)
        BY <1>1, <1>6, <3>2 DEF Spent
      <4>2. QED
        BY <1>3, <1>4, <4>1
    <3>3. QED
      BY <3>1, <3>2
  <2>3. ASSUME NEW day \in Nat PROVE Cardinality(FreeOn(u, day)') <= FreeCreates
    <3> DEFINE hit == new.by = u /\ new.access = "FREE" /\ UtcDay(new.made) = day
    <3>1. CASE hit
      <4>1. FreeOn(u, day)' = FreeOn(u, day) \cup {n} /\ n \notin FreeOn(u, day)
        BY <1>1, <1>6, <3>1 DEF FreeOn
      <4>2. Cardinality(FreeOn(u, day)) < FreeCreates
        BY <2>1, <3>1, MayAfford
      <4>3. Cardinality(FreeOn(u, day) \cup {n}) = Cardinality(FreeOn(u, day)) + 1
        BY <1>4, <4>1, OneMore
      <4>4. QED
        BY <1>4, <4>1, <4>2, <4>3, LobbyLimits
    <3>2. CASE ~hit
      <4>1. FreeOn(u, day)' = FreeOn(u, day)
        BY <1>1, <1>6, <3>2 DEF FreeOn
      <4>2. QED
        BY <1>4, <4>1
    <3>3. QED
      BY <3>1, <3>2
  <2>4. QED
    BY <2>2, <2>3
<1>7. QED
  BY <1>5, <1>6, RowsAfter

-----------------------------------------------------------------------------
(* Pushes and open invitations. *)

\* Every push that arrived was counted.
CountedInv ==
  \A i \in 1..story.duels, s \in Sides :
    told[<<i, s>>].push <= IF i \in Ids THEN duels[i].pushed[s] ELSE 0

\* Nothing is told of a duel before it exists, nor of its end before it is over.
Fits(t, there, status) ==
  /\ t.over <= 1 /\ t.invite <= 1
  /\ ~there => t = Untold
  /\ t.over > 0 \/ t.result => there /\ status \notin Live
  /\ t.over > 0 => status # "COMPLETED"

NoticesInv ==
  \A i \in 1..story.duels, s \in Sides : Fits(told[<<i, s>>], i \in Ids, duels[i].status)

Waits(d) == d.status \in Live /\ d.open /\ d.with = NoFriend

WaitsInv ==
  \A i, j \in Ids : Waits(duels[i]) /\ Waits(duels[j]) /\ duels[i].by = duels[j].by => i = j

LEMMA WaitsKept ==
  ASSUME TableInv, SeriesInv, WaitsInv, RowsStep PROVE WaitsInv'
<1>1. \A i \in Ids : /\ duels'[i].by = duels[i].by
                     /\ Waits(duels'[i]) => Waits(duels[i])
  BY RowsAfter DEF Keeps, Waits
<1> DEFINE At(d, e) == Waits(d) /\ Waits(e) /\ d.by = e.by
<1>2. SUFFICES ASSUME NEW i \in Ids', NEW j \in Ids', At(duels'[i], duels'[j]) PROVE i = j
  BY DEF WaitsInv, Waits
<1>3. CASE i \in Ids /\ j \in Ids
  <2>1. Waits(duels'[i]) /\ Waits(duels'[j]) /\ duels'[i].by = duels'[j].by
    BY <1>2
  <2>2. Waits(duels[i]) /\ Waits(duels[j])
    BY <1>1, <1>3, <2>1 DEF Waits
  <2>3. duels[i].by = duels[j].by
    BY <1>1, <1>3, <2>1
  <2>4. QED
    BY <1>3, <2>2, <2>3 DEF WaitsInv, Waits
<1>4. ASSUME NEW new \in Rows, NEW n \in Nat, Ids' = Ids \cup {n}, duels'[n] = new,
             \/ new.open => \A k \in Ids :
                  ~(duels'[k].status \in Live /\ duels'[k].open /\ duels'[k].by = new.by)
             \/ new.with # NoFriend
      PROVE  i = j
  <2>1. \A k \in Ids : ~At(duels'[k], new) /\ ~At(new, duels'[k])
    BY <1>4 DEF Waits
  <2>2. (i = n \/ i \in Ids) /\ (j = n \/ j \in Ids)
    BY <1>4
  <2> HIDE DEF At
  <2>3. QED
    BY <1>2, <1>3, <1>4, <2>1, <2>2
<1>5. \A new : Opens(new, Len(duels) + 1) => new.with # NoFriend
  BY DEF Opens
<1>6. \A k \in Ids : \A new : Continues(duels[k], new) => new.with # NoFriend
  BY DEF Continues
<1>7. QED
  BY <1>3, <1>4, <1>5, <1>6, RowsAfter

LEMMA CountedKept ==
  ASSUME TableInv, CountedInv, RowsStep, [LobbyNext]_lobbyVars PROVE CountedInv'
<1>1. /\ \A i \in Ids : duels[i] \in Rows /\ Keeps(duels[i], duels'[i])
      /\ Ids \subseteq Ids' /\ duels' \in Seq(Rows)
  BY RowsAfter, Table
<1>2. \A i \in Ids, s \in Sides : /\ duels[i].pushed[s] \in Nat /\ duels'[i].pushed[s] \in Nat
                                  /\ duels[i].pushed[s] <= duels'[i].pushed[s]
  <2>1. ASSUME NEW d \in Rows, NEW e, Keeps(d, e), NEW s \in Sides
        PROVE  d.pushed[s] \in Nat /\ e.pushed[s] \in Nat /\ d.pushed[s] <= e.pushed[s]
    <3>1. d.pushed \in [Sides -> 0..MaxPush] /\ e.pushed \in [Sides -> 0..MaxPush]
      BY <2>1 DEF Keeps, Rows
    <3>2. QED
      BY <2>1, <3>1, LobbyLimits DEF Keeps
  <2>2. QED
    BY <1>1, <2>1
<1>3. \A i \in Ids', s \in Sides : duels'[i].pushed[s] \in Nat
  <2>1. \A d \in Rows, s \in Sides : d.pushed[s] \in Nat
    BY LobbyLimits DEF Rows
  <2>2. \A i \in Ids' : duels'[i] \in Rows
    BY <1>1 DEF Ids
  <2>3. QED
    BY <2>1, <2>2
<1>4. story' = story /\ told \in [(1..story.duels) \X Sides -> Messages]
  BY TimePasses DEF TableInv, LobbyTypeOK
<1> DEFINE count(i, s) == IF i \in Ids THEN duels[i].pushed[s] ELSE 0
           newer(i, s) == IF i \in Ids' THEN duels'[i].pushed[s] ELSE 0
<1>5. \A i \in 1..story.duels, s \in Sides :
        count(i, s) \in Nat /\ newer(i, s) \in Nat /\ count(i, s) <= newer(i, s)
  <2> HIDE DEF Ids
  <2>1. QED
    BY <1>1, <1>2, <1>3
<1>6. \A i \in 1..story.duels, s \in Sides : told[<<i, s>>].push \in Nat /\ told[<<i, s>>].push <= count(i, s)
  BY <1>4 DEF CountedInv, Messages
<1>7. SUFFICES \A i \in 1..story.duels, s \in Sides : told'[<<i, s>>].push <= newer(i, s)
  BY <1>4 DEF CountedInv
<1>8. CASE told' = told \/ ResultHeard \/ InviteHeard
  <2> SUFFICES ASSUME NEW i \in 1..story.duels, NEW s \in Sides PROVE told'[<<i, s>>].push <= newer(i, s)
    OBVIOUS
  <2>1. told[<<i, s>>].push \in Nat /\ told[<<i, s>>].push <= count(i, s)
    BY <1>6
  <2>2. count(i, s) \in Nat /\ newer(i, s) \in Nat /\ count(i, s) <= newer(i, s)
    BY <1>5
  <2>3. told'[<<i, s>>].push = told[<<i, s>>].push
    <3>1. \A m \in Messages : [m EXCEPT !.result = TRUE].push = m.push
                            /\ [m EXCEPT !.invite = @ + 1].push = m.push
      BY DEF Messages
    <3>2. CASE ResultHeard
      BY <1>4, <3>1, <3>2 DEF ResultHeard
    <3>3. CASE InviteHeard
      BY <1>4, <3>1, <3>3 DEF InviteHeard
    <3>4. QED
      BY <1>8, <3>2, <3>3
  <2> HIDE DEF count, newer
  <2>4. QED
    BY <2>1, <2>2, <2>3
<1>9. ASSUME NEW p \in pings, NEW arrives \in BOOLEAN, ReservePush(p[1], p[2], arrives), told' # told
      PROVE  \A i \in 1..story.duels, s \in Sides : told'[<<i, s>>].push <= newer(i, s)
  <2> DEFINE j == p[1]
  <2>1. /\ told' = [told EXCEPT ![<<j, "by">>].push = @ + IF arrives THEN 1 ELSE 0]
        /\ Change(j, [duels[j] EXCEPT !.pushed["by"] = @ + 1])
    BY <1>9 DEF ReservePush
  <2>2. j \in Ids /\ duels[j] \in Rows /\ "by" \in Sides
    BY <1>1 DEF TableInv, LobbyTypeOK, Sides
  <2>3. newer(j, "by") = count(j, "by") + 1
    <3>1. duels'[j] = [duels[j] EXCEPT !.pushed["by"] = @ + 1]
      <4> DEFINE d == [duels[j] EXCEPT !.pushed["by"] = @ + 1]
      <4>1. duels' = [duels EXCEPT ![j] = d]
        BY <2>1 DEF Change
      <4> HIDE DEF d
      <4>2. duels'[j] = d
        BY <2>2, <4>1 DEF Ids
      <4>3. QED
        BY <4>2 DEF d
    <3>2. duels'[j].pushed["by"] = duels[j].pushed["by"] + 1
      BY <2>2, <3>1 DEF Rows
    <3>3. QED
      BY <1>1, <2>2, <3>2
  <2> SUFFICES ASSUME NEW i \in 1..story.duels, NEW s \in Sides PROVE told'[<<i, s>>].push <= newer(i, s)
    OBVIOUS
  <2> HIDE DEF count, newer, j
  <2>4. CASE i = j /\ s = "by"
    <3>1. told'[<<i, s>>].push = told[<<i, s>>].push + IF arrives THEN 1 ELSE 0
      BY <1>4, <2>1, <2>4 DEF Messages
    <3>2. QED
      BY <1>6, <1>5, <2>3, <2>4, <3>1
  <2>5. CASE ~(i = j /\ s = "by")
    <3>1. told'[<<i, s>>].push = told[<<i, s>>].push
      BY <1>4, <2>1, <2>5
    <3>2. QED
      BY <1>5, <1>6, <3>1
  <2>6. QED
    BY <2>4, <2>5
<1>10. ASSUME NEW arrive \in BOOLEAN, RunDeadlines(arrive), told' # told
       PROVE  \A i \in 1..story.duels, s \in Sides : told'[<<i, s>>].push <= newer(i, s)
  <2> DEFINE rows == {i \in Ids : ~Locked(i)}
  <2>1. /\ duels' = [i \in Ids |-> IF i \in rows THEN Swept(duels[i]) ELSE duels[i]]
        /\ told' = Notified(rows)
    BY <1>10 DEF RunDeadlines
  <2> SUFFICES ASSUME NEW i \in 1..story.duels, NEW s \in Sides PROVE told'[<<i, s>>].push <= newer(i, s)
    OBVIOUS
  <2>2. told'[<<i, s>>].push = told[<<i, s>>].push + IF i \in rows /\ s \in Reminds(duels[i]) THEN 1 ELSE 0
    BY <1>4, <2>1, NotifiedIs
  <2>3. CASE i \in rows /\ s \in Reminds(duels[i])
    <3>1. i \in Ids /\ duels'[i] = Swept(duels[i]) /\ duels[i] \in Rows
      BY <1>1, <2>1, <2>3
    <3>2. ~Overdue(duels[i])
      <4>1. duels[i].ends > clock /\ duels[i].ends \in Nat /\ clock \in Nat
        BY <2>3, <3>1, Table DEF Reminds, Rows
      <4>2. QED
        BY <4>1 DEF Overdue
    <3>3. duels'[i].pushed[s] = duels[i].pushed[s] + 1
      BY <2>3, <3>1, <3>2 DEF Swept, Rows
    <3>4. count(i, s) + 1 = newer(i, s)
      BY <1>1, <3>1, <3>3
    <3> HIDE DEF count, newer
    <3>5. QED
      BY <1>5, <1>6, <2>2, <2>3, <3>4
  <2>4. CASE ~(i \in rows /\ s \in Reminds(duels[i]))
    <3> HIDE DEF count, newer
    <3>1. QED
      BY <1>5, <1>6, <2>2, <2>4
  <2>5. QED
    BY <2>3, <2>4
<1>11. QED
  BY <1>8, <1>9, <1>10, ToldStep

LEMMA NoticesKept ==
  ASSUME TableInv, NoticesInv, RowsStep, [LobbyNext]_lobbyVars PROVE NoticesInv'
<1>1. /\ Ids \subseteq Ids' /\ duels' \in Seq(Rows)
      /\ \A i \in Ids : /\ duels[i] \in Rows
                        /\ duels[i].status \notin Live => duels'[i].status \notin Live
                        /\ duels[i].status \notin Live /\ duels[i].status # "COMPLETED"
                             => duels'[i].status # "COMPLETED"
  BY RowsAfter, Table DEF Keeps
<1>2. /\ story' = story
      /\ told \in [(1..story.duels) \X Sides -> Messages]
      /\ told' \in [(1..story.duels) \X Sides -> Messages]
  BY TimePasses, ToldKept DEF TableInv, LobbyTypeOK
<1>3. SUFFICES ASSUME NEW i \in 1..story.duels, NEW s \in Sides
               PROVE  Fits(told'[<<i, s>>], i \in Ids', duels'[i].status)
  BY <1>2 DEF NoticesInv
<1>4. PICK t, n : t = told[<<i, s>>] /\ n = told'[<<i, s>>]
  OBVIOUS
<1>there. PICK past \in BOOLEAN, there \in BOOLEAN : (past <=> i \in Ids) /\ (there <=> i \in Ids')
  <2> HIDE DEF Ids
  <2>1. \E past \in BOOLEAN : past <=> i \in Ids
    <3>1. CASE i \in Ids
      <4>1. TRUE <=> i \in Ids
        BY <3>1
      <4>2. QED
        BY <4>1
    <3>2. CASE i \notin Ids
      <4>1. FALSE <=> i \in Ids
        BY <3>2
      <4>2. QED
        BY <4>1
    <3>3. QED
      BY <3>1, <3>2
  <2>2. \E there \in BOOLEAN : there <=> i \in Ids'
    <3>1. CASE i \in Ids'
      <4>1. TRUE <=> i \in Ids'
        BY <3>1
      <4>2. QED
        BY <4>1
    <3>2. CASE i \notin Ids'
      <4>1. FALSE <=> i \in Ids'
        BY <3>2
      <4>2. QED
        BY <4>1
    <3>3. QED
      BY <3>1, <3>2
  <2>3. QED
    BY <2>1, <2>2, Zenon
<1>5. PICK old, now : /\ (past <=> i \in Ids) /\ (there <=> i \in Ids')
                      /\ old = duels[i].status /\ now = duels'[i].status
  BY <1>there, Zenon
<1>6. /\ t \in Messages /\ n \in Messages /\ Fits(t, past, old)
      /\ past => /\ there /\ (old \notin Live => now \notin Live)
                 /\ old \notin Live /\ old # "COMPLETED" => now # "COMPLETED"
  <2>1. t \in Messages /\ n \in Messages
    BY <1>2, <1>4
  <2>2. Fits(told[<<i, s>>], i \in Ids, duels[i].status)
    BY DEF NoticesInv
  <2>3. Fits(t, past, old)
    BY <1>4, <1>5, <2>2
  <2> HIDE DEF Ids
  <2>4. QED
    BY <1>1, <1>5, <2>1, <2>3
<1>7. SUFFICES Fits(n, there, now)
  BY <1>4, <1>5
\* Nothing but pushes is new.
<1>8. CASE /\ n.over = t.over /\ n.invite = t.invite /\ n.result = t.result
           /\ ~past => n.push = t.push
  <2>1. ~past => n = t
    BY <1>6, <1>8 DEF Messages
  <2>2. QED
    BY <1>6, <1>8, <2>1 DEF Fits
<1>9. CASE ResultHeard
  <2>1. PICK j \in Ids, q \in Sides : /\ told' = [told EXCEPT ![<<j, q>>].result = TRUE]
                                      /\ duels'[j].status \notin Live
    BY <1>9 DEF ResultHeard
  <2>2. CASE <<i, s>> = <<j, q>>
    <3>1. n = [t EXCEPT !.result = TRUE] /\ past /\ now \notin Live
      BY <1>2, <1>4, <1>5, <2>1, <2>2
    <3>2. n.over = t.over /\ n.invite = t.invite /\ n.over \in Nat
      BY <1>6, <3>1 DEF Messages
    <3>3. QED
      BY <1>6, <3>1, <3>2 DEF Fits
  <2>3. CASE <<i, s>> # <<j, q>>
    <3>1. n = t
      BY <1>2, <1>4, <2>1, <2>3
    <3>2. QED
      BY <1>8, <3>1
  <2>4. QED
    BY <2>2, <2>3
<1>10. CASE InviteHeard
  <2>1. /\ told' = [told EXCEPT ![<<Len(duels) + 1, "with">>].invite = @ + 1]
        /\ Len(duels') = Len(duels) + 1
    BY <1>10 DEF InviteHeard
  <2>2. CASE <<i, s>> = <<Len(duels) + 1, "with">>
    <3>1. n = [t EXCEPT !.invite = @ + 1]
      BY <1>2, <1>4, <2>1, <2>2
    <3>2. ~past /\ there
      <4>1. i = Len(duels) + 1 /\ Len(duels) \in Nat /\ Ids = 1..Len(duels)
        BY <2>2, Table
      <4>2. Ids' = 1..Len(duels')
        BY <1>1 DEF Ids
      <4>3. QED
        BY <1>5, <2>1, <4>1, <4>2
    <3>3. t = Untold
      BY <1>6, <3>2 DEF Fits
    <3>4. n.over = 0 /\ n.invite = 1 /\ n.result = FALSE
      BY <3>1, <3>3 DEF Untold
    <3>5. QED
      BY <3>2, <3>4 DEF Fits
  <2>3. CASE <<i, s>> # <<Len(duels) + 1, "with">>
    <3>1. n = t
      BY <1>2, <1>4, <2>1, <2>3
    <3>2. QED
      BY <1>8, <3>1
  <2>4. QED
    BY <2>2, <2>3
<1>11. ASSUME NEW p \in pings, NEW arrives \in BOOLEAN, ReservePush(p[1], p[2], arrives)
      PROVE  Fits(n, there, now)
  <2>1. p[1] \in Ids
    BY DEF TableInv, LobbyTypeOK
  <2>2. told' = told \/ told' = [told EXCEPT ![<<p[1], "by">>].push = @ + IF arrives THEN 1 ELSE 0]
    BY <1>11 DEF ReservePush
  <2>3. \/ n = t
        \/ past /\ n = [t EXCEPT !.push = @ + IF arrives THEN 1 ELSE 0]
    <3>1. CASE told' = told
      BY <1>4, <3>1
    <3>2. CASE told' # told /\ <<i, s>> = <<p[1], "by">>
      <4>1. i = p[1]
        BY <3>2
      <4>2. told'[<<i, s>>] = [told[<<i, s>>] EXCEPT !.push = @ + IF arrives THEN 1 ELSE 0]
        BY <1>2, <2>2, <3>2
      <4>3. QED
        BY <1>4, <1>5, <2>1, <4>1, <4>2
    <3>3. CASE <<i, s>> # <<p[1], "by">>
      BY <1>2, <1>4, <2>2, <3>3
    <3>4. QED
      BY <3>1, <3>2, <3>3
  <2>4. n.over = t.over /\ n.invite = t.invite /\ n.result = t.result
    BY <1>6, <2>3 DEF Messages
  <2>5. QED
    BY <1>8, <2>3, <2>4
<1>12. ASSUME NEW arrive \in BOOLEAN, RunDeadlines(arrive), told' # told
      PROVE  Fits(n, there, now)
  <2> DEFINE rows == {j \in Ids : ~Locked(j)}
  <2>1. /\ duels' = [j \in Ids |-> IF j \in rows THEN Swept(duels[j]) ELSE duels[j]]
        /\ told' = Notified(rows)
    BY <1>12 DEF RunDeadlines
  <2>2. /\ n.push = t.push + IF i \in rows /\ s \in Reminds(duels[i]) THEN 1 ELSE 0
        /\ n.over = t.over + IF i \in rows /\ s \in EndTold(duels[i]) THEN 1 ELSE 0
        /\ n.invite = t.invite /\ n.result = t.result
    BY <1>2, <1>4, <2>1, NotifiedIs
  <2>3. CASE i \in rows /\ s \in EndTold(duels[i])
    <3>1. i \in Ids /\ Overdue(duels[i]) /\ duels[i] \in Rows
      BY <1>1, <2>3 DEF EndTold
    <3>2. duels[i].status \in Live
      BY <3>1 DEF Overdue, Live
    <3>3. duels'[i] = Expired(duels[i])
      BY <2>1, <2>3, <3>1 DEF Swept
    <3>4. past /\ old \in Live /\ now \notin Live /\ now # "COMPLETED"
      <4>1. Expired(duels[i]).status \in {"EXPIRED", "WALKOVER"}
        BY <3>1 DEF Expired, Rows
      <4>2. now \in {"EXPIRED", "WALKOVER"} /\ old \in Live /\ past
        BY <1>5, <3>1, <3>2, <3>3, <4>1
      <4>3. QED
        BY <4>2 DEF Live, Playable
    <3>5. t.over = 0 /\ t.result = FALSE
      BY <1>6, <3>4 DEF Messages, Fits
    <3>6. n.over = 1 /\ n.invite = t.invite
      BY <2>2, <2>3, <3>5
    <3>7. QED
      BY <1>6, <3>4, <3>6 DEF Fits
  <2>4. CASE ~(i \in rows /\ s \in EndTold(duels[i]))
    <3>1. n.over = t.over
      BY <1>6, <2>2, <2>4 DEF Messages
    <3>2. ~past => n.push = t.push
      <4>1. ~past => i \notin rows
        BY <1>5
      <4> HIDE DEF rows
      <4>2. QED
        BY <1>6, <2>2, <4>1 DEF Messages
    <3>3. QED
      BY <1>8, <2>2, <3>1, <3>2
  <2>5. QED
    BY <2>3, <2>4
<1>13. CASE told' = told
  BY <1>4, <1>8, <1>13
<1>14. QED
  BY <1>9, <1>10, <1>11, <1>12, <1>13, ToldStep

-----------------------------------------------------------------------------
(* The inductive invariant, and what follows from it. *)

LobbyInv ==
  TableInv /\ HandsInv /\ SeriesInv /\ CountsInv /\ CountedInv /\ NoticesInv /\ WaitsInv

LEMMA LobbyStarts == LobbyInit => LobbyInv
<1> SUFFICES ASSUME LobbyInit PROVE LobbyInv
  OBVIOUS
<1>1. /\ story \in Stories /\ duels = story.past /\ clock = 0 /\ hands = <<>> /\ pings = {}
      /\ purse = [u \in Friends |-> [tickets |-> 0, premium |-> u \in story.premium]]
      /\ bought = [u \in Friends |-> 0]
      /\ told = [x \in (1..story.duels) \X Sides |-> Untold]
  BY DEF LobbyInit
<1>2. /\ story.ticks \in Nat /\ story.tickets \in Nat /\ story.duels \in Nat
      /\ duels \in Seq(Rows) /\ Len(duels) <= story.duels
      /\ \A i \in Ids : duels[i] \in PastRows(i)
  BY <1>1, StoriesPossible DEF Ids
<1>3. Ids = 1..Len(duels) /\ Len(duels) \in Nat
  BY <1>2 DEF Ids
<1>4. \A i \in Ids : /\ duels[i] \in Rows /\ duels[i].access = "PREMIUM" /\ ~duels[i].open
                     /\ duels[i].with # NoFriend /\ duels[i].series \in {0, i}
                     /\ duels[i].game = 1 /\ duels[i].made = 0
                     /\ duels[i].pushed = [s \in Sides |-> 0]
  BY <1>2 DEF PastRows
<1>5. TableInv
  <2>1. DOMAIN hands = {}
    BY <1>1
  <2>2. purse \in [Friends -> [tickets : 0..story.tickets, premium : BOOLEAN]]
    BY <1>1, <1>2
  <2>3. bought \in [Friends -> 0..story.tickets] /\ told \in [(1..story.duels) \X Sides -> Messages]
    BY <1>1, <1>2 DEF Untold, Messages
  <2>4. LobbyTypeOK
    BY <1>1, <1>2, <2>1, <2>2, <2>3 DEF LobbyTypeOK
  <2>5. \A u \in Friends : purse[u].tickets <= bought[u]
    BY <1>1
  <2>6. QED
    BY <1>1, <1>4, <2>4, <2>5 DEF TableInv
<1>6. HandsInv
  BY <1>1 DEF HandsInv
<1>7. SeriesInv
  <2> SUFFICES ASSUME NEW i \in Ids
               PROVE  /\ duels[i].series <= i
                      /\ SeriesOf(duels[i]) # {} => Numbered(duels, SeriesOf(duels[i]), duels[i])
    BY DEF SeriesInv
  <2>1. duels[i].series <= i /\ i \in Nat /\ i # 0
    BY <1>3, <1>4
  <2>2. CASE SeriesOf(duels[i]) # {}
    <3>1. duels[i].series = i
      BY <1>4, <2>2 DEF SeriesOf
    <3>2. \A j \in Ids : duels[j].series = i <=> j = i
      BY <1>4, <2>1, <3>1
    <3>3. SeriesOf(duels[i]) = {i}
      BY <2>1, <3>1, <3>2 DEF SeriesOf
    <3>4. Cardinality({i}) = 1
      BY FS_Singleton
    <3>5. {duels[j].game : j \in {i}} = 1..1
      BY <1>4
    <3>6. duels[i].best \in Nat /\ duels[i].best >= 1
      BY <1>4, LobbyLimits DEF Rows
    <3>7. Numbered(duels, {i}, duels[i])
      BY <1>4, <3>4, <3>5, <3>6 DEF Numbered
    <3>8. QED
      BY <2>1, <3>3, <3>7
  <2>3. QED
    BY <2>1, <2>2
<1>8. CountsInv
  <2> SUFFICES ASSUME NEW u \in Friends
               PROVE  /\ Cardinality(Spent(u)) <= bought[u]
                      /\ \A day \in Nat : Cardinality(FreeOn(u, day)) <= FreeCreates
    BY DEF CountsInv
  <2>1. Spent(u) = {} /\ \A day \in Nat : FreeOn(u, day) = {}
    BY <1>4 DEF Spent, FreeOn
  <2>2. Cardinality(Spent(u)) = 0 /\ \A day \in Nat : Cardinality(FreeOn(u, day)) = 0
    BY <2>1, FS_EmptySet
  <2>3. bought[u] = 0
    BY <1>1
  <2>4. QED
    BY <2>2, <2>3, LobbyLimits
<1>9. CountedInv
  BY <1>1, <1>4 DEF CountedInv, Untold
<1>10. NoticesInv
  BY <1>1 DEF NoticesInv, Untold, Fits
<1>11. WaitsInv
  BY <1>4 DEF WaitsInv, Waits
<1>12. QED
  BY <1>5, <1>6, <1>7, <1>8, <1>9, <1>10, <1>11 DEF LobbyInv

LEMMA LobbyStays == LobbyInv /\ [LobbyNext]_lobbyVars => LobbyInv'
<1> SUFFICES ASSUME LobbyInv, [LobbyNext]_lobbyVars PROVE LobbyInv'
  OBVIOUS
<1> USE DEF LobbyInv
<1>1. RowsStep
  BY StepRows
<1>2. TableInv'
  BY <1>1, TableKept
<1>3. HandsInv'
  BY <1>1, HandsKept
<1>4. SeriesInv'
  BY <1>1, SeriesKept
<1>5. CountsInv'
  BY <1>1, CountsKept
<1>6. CountedInv'
  BY <1>1, CountedKept
<1>7. NoticesInv'
  BY <1>1, NoticesKept
<1>8. WaitsInv'
  BY <1>1, WaitsKept
<1>9. QED
  BY <1>2, <1>3, <1>4, <1>5, <1>6, <1>7, <1>8

LEMMA LobbyHolds == LobbySpec => []LobbyInv
<1>1. LobbyInit => LobbyInv
  BY LobbyStarts
<1>2. LobbyInv /\ [LobbyNext]_lobbyVars => LobbyInv'
  BY LobbyStays
<1>3. QED
  BY <1>1, <1>2, PTL DEF LobbySpec

LEMMA TicketsFollow == LobbyInv => TicketsCover
<1> SUFFICES ASSUME LobbyInv, NEW u \in Friends
             PROVE  LET by(access) == {i \in Ids : duels[i].by = u /\ duels[i].access = access}
                    IN /\ Cardinality(by("PAID_TICKET")) <= bought[u]
                       /\ \A i \in Ids : Cardinality({j \in by("FREE") :
                            UtcDay(duels[j].made) = UtcDay(duels[i].made)}) <= FreeCreates
  BY DEF TicketsCover
<1> DEFINE by(access) == {i \in Ids : duels[i].by = u /\ duels[i].access = access}
<1>1. by("PAID_TICKET") = Spent(u)
  BY DEF Spent
<1>2. ASSUME NEW i \in Ids
      PROVE  Cardinality({j \in by("FREE") : UtcDay(duels[j].made) = UtcDay(duels[i].made)}) <= FreeCreates
  <2>1. {j \in by("FREE") : UtcDay(duels[j].made) = UtcDay(duels[i].made)} = FreeOn(u, UtcDay(duels[i].made))
    BY DEF FreeOn
  <2>2. UtcDay(duels[i].made) \in Nat
    <3>1. duels[i].made \in Nat
      BY Table DEF LobbyInv, Rows
    <3>2. QED
      BY <3>1, DayNat
  <2>3. QED
    BY <2>1, <2>2 DEF LobbyInv, CountsInv
<1>3. QED
  BY <1>1, <1>2 DEF LobbyInv, CountsInv

LEMMA SeriesFollow == LobbyInv => SeriesSound
<1>1. ASSUME LobbyInv, NEW i \in Ids, SeriesOf(duels[i]) # {}
      PROVE  LET games == SeriesOf(duels[i])
             IN /\ {duels[j].game : j \in games} = 1..Cardinality(games)
                /\ Cardinality(games) <= duels[i].best
                /\ \A j \in games : {duels[j].by, duels[j].with} = {duels[i].by, duels[i].with}
  <2>1. Numbered(duels, SeriesOf(duels[i]), duels[i])
    BY <1>1 DEF LobbyInv, SeriesInv
  <2>2. QED
    BY <2>1 DEF Numbered
<1>2. QED
  BY <1>1 DEF SeriesSound

LEMMA QuotasFollow == LobbyInv => QuotasKept
<1> SUFFICES ASSUME LobbyInv PROVE QuotasKept
  OBVIOUS
<1>1. told \in [(1..story.duels) \X Sides -> Messages] /\ \A i \in Ids : duels[i] \in Rows
  BY Table DEF LobbyInv, TableInv, LobbyTypeOK
<1>2. ASSUME NEW i \in 1..story.duels, NEW s \in Sides PROVE told[<<i, s>>].push <= MaxPush
  <2>1. told[<<i, s>>].push \in Nat
    BY <1>1 DEF Messages
  <2>2. CASE i \in Ids
    <3>1. duels[i].pushed[s] \in 0..MaxPush
      BY <1>1, <2>2 DEF Rows
    <3>2. told[<<i, s>>].push <= duels[i].pushed[s]
      BY <2>2 DEF LobbyInv, CountedInv
    <3>3. QED
      BY <2>1, <3>1, <3>2, LobbyLimits
  <2>3. CASE i \notin Ids
    <3>1. told[<<i, s>>].push <= 0
      BY <2>3 DEF LobbyInv, CountedInv
    <3>2. QED
      BY <2>1, <3>1, LobbyLimits
  <2>4. QED
    BY <2>2, <2>3
<1>3. ASSUME NEW u \in Friends
      PROVE  Cardinality({i \in OpenOf(duels, u) : duels[i].with = NoFriend}) <= 1
  <2> DEFINE S == {i \in OpenOf(duels, u) : duels[i].with = NoFriend}
  <2>1. \A i, j \in S : i = j
    BY DEF OpenOf, LobbyInv, WaitsInv, Waits
  <2>2. CASE S = {}
    BY <2>2, FS_EmptySet
  <2>3. ASSUME NEW i, S = {i} PROVE Cardinality(S) <= 1
    <3>1. Cardinality({i}) = 1
      BY FS_Singleton
    <3>2. QED
      BY <2>3, <3>1
  <2> HIDE DEF S
  <2>4. QED
    BY <2>1, <2>2, <2>3 DEF S
<1>4. /\ \A x \in DOMAIN told : /\ told[x].push <= MaxPush
                               /\ told[x].over <= 1 /\ told[x].invite <= 1
      /\ \A i \in 1..story.duels, s \in Sides :
           LET t == told[<<i, s>>]
           IN /\ t.over > 0 \/ t.result => i \in Ids /\ duels[i].status \notin Live
              /\ t.over > 0 => duels[i].status # "COMPLETED"
  <2>1. \A x \in DOMAIN told : \E i \in 1..story.duels, s \in Sides : x = <<i, s>>
    BY <1>1
  <2> HIDE DEF Ids
  <2>2. QED
    BY <1>2, <2>1 DEF LobbyInv, NoticesInv, Fits
<1>5. QED
  BY <1>3, <1>4 DEF QuotasKept

\* Rows, hands, purses and counters keep their types, for any number of friends, duels and
\* limits, whatever stories of the past a table begins with (friend_challenges.py).
THEOREM LobbyTyped == LobbySpec => []LobbyTypeOK
<1>1. LobbyInv => LobbyTypeOK
  BY DEF LobbyInv, TableInv
<1>2. QED
  BY <1>1, LobbyHolds, PTL

\* Nobody has more duels than were free or paid for: those with a ticket are at most the
\* tickets credited, also when one was refunded after it was used, and no UTC day has more
\* free ones than the limit, although handlers read their clocks before they wait
\* (_resolve_friend_challenge_access_type).
THEOREM TicketsCoverThm == LobbySpec => []TicketsCover
BY TicketsFollow, LobbyHolds, PTL

\* Every series is games 1, 2, ... of the same two players and no more than best_of, for
\* any best_of and however "rematch", "next game" and "best of three" meet
\* (create_friend_challenge_series_next_game, create_friend_challenge_rematch).
THEOREM SeriesSoundThm == LobbySpec => []SeriesSound
BY SeriesFollow, LobbyHolds, PTL

\* The messages that take a push from the counters of a duel never reach a side more often
\* than the quota, from handlers and job together; those outside of it are bounded by what
\* they tell of: a new duel once, its end by the job once, a result only when it is over.
\* And nobody offers two open duels at a time (reserve_duel_push_slot,
\* send_deadline_notifications).
THEOREM QuotasKeptThm == LobbySpec => []QuotasKept
BY QuotasFollow, LobbyHolds, PTL

\* All that players are promised about their duels.
THEOREM LobbySoundThm == LobbySpec => []LobbySound
<1>1. LobbyInv => LobbySound
  BY TicketsFollow, SeriesFollow, QuotasFollow DEF LobbyInv, TableInv, LobbySound
<1>2. QED
  BY <1>1, LobbyHolds, PTL

-----------------------------------------------------------------------------
(* The messages of a tournament. *)

\* The first player of those that are left is one of them.
LEMMA FirstOfThem ==
  ASSUME NEW S \in SUBSET Members, S # {}
  PROVE  Min(S) \in S
<1> DEFINE T == {0..x : x \in S}
<1>1. \A x \in S : x \in Nat
  BY MailLimits
<1>2. \A x \in S : 0..x \in FiniteSubsetsOf(Nat)
  BY <1>1, FS_Interval DEF FiniteSubsetsOf
<1>3. T \subseteq FiniteSubsetsOf(Nat) /\ T # {}
  BY <1>2
<1>4. PICK I \in T : \A J \in T : ~ (<<J, I>> \in StrictSubsetOrdering(Nat))
  BY <1>3, FS_StrictSubsetOrderingWellFounded, WFMin, Zenon
<1>5. PICK x \in S : I = 0..x
  OBVIOUS
<1>6. ASSUME NEW y \in S PROVE x <= y
  <2>1. SUFFICES ASSUME y < x PROVE FALSE
    BY <1>1
  <2>2. 0..y \in T /\ ~ (<<0..y, 0..x>> \in StrictSubsetOrdering(Nat))
    BY <1>4, <1>5
  <2>3. 0..y \subseteq 0..x /\ x \in 0..x /\ x \notin 0..y
    BY <1>1, <2>1
  <2>4. 0..y \in SUBSET Nat /\ 0..x \in SUBSET Nat
    BY <1>1
  <2>5. QED
    BY <2>2, <2>3, <2>4 DEF StrictSubsetOrdering
<1>7. QED
  BY <1>6 DEF Min

-----------------------------------------------------------------------------
(* What the workers have in hand. *)

\* A worker rests, or has a job whose fields have their types.
AtWork(w) == mailers[w].do # "rest"
IsJob(j) == \E who \in SUBSET Members : j \in Jobs(who)

\* The worker w is free afterwards; nobody else is touched.
Frees(w) == mailers' = [mailers EXCEPT ![w] = Resting]

LEMMA JobFields ==
  ASSUME NEW j, IsJob(j)
  PROVE  /\ j.do \in MailKinds /\ j.task \in Tasks /\ j.stage \in 0..LastStage
         /\ j.ids \in [Members -> Nat \cup {NoId}]
         /\ j.carded \in SUBSET Members /\ j.left \in SUBSET Members
         /\ DOMAIN j.sent \in SUBSET Members /\ \A p \in DOMAIN j.sent : j.sent[p] \in Nat
BY DEF IsJob, Jobs

LEMMA RestOrWork ==
  ASSUME MailTypeOK, NEW w \in Mailers
  PROVE  /\ AtWork(w) <=> mailers[w] # Resting
         /\ AtWork(w) => IsJob(mailers[w])
         /\ mailers[w].do \in MailKinds => AtWork(w)
<1>1. mailers[w] = Resting \/ IsJob(mailers[w])
  BY DEF MailTypeOK, IsJob
<1>2. IsJob(mailers[w]) => AtWork(w) /\ mailers[w].do \in MailKinds
  BY JobFields DEF AtWork, MailKinds
<1>3. QED
  BY <1>1, <1>2 DEF Resting, AtWork, MailKinds

LEMMA FreesOne ==
  ASSUME MailTypeOK, NEW w \in Mailers, Frees(w)
  PROVE  /\ DOMAIN mailers' = Mailers
         /\ mailers'[w] = Resting /\ mailers'[w].do = "rest"
         /\ \A v \in Mailers \ {w} : mailers'[v] = mailers[v]
BY DEF MailTypeOK, Frees, Resting

\* A message to p is done with; its id is kept when it has one.
LEMMA SendsOne ==
  ASSUME MailTypeOK, NEW w \in Mailers, AtWork(w), NEW p \in Members,
         NEW id \in Nat \cup {NoId}, Send(w, p, id)
  PROVE  LET j == mailers[w]  k == mailers'[w]
         IN /\ DOMAIN mailers' = Mailers
            /\ \A v \in Mailers \ {w} : mailers'[v] = mailers[v]
            /\ IsJob(k)
            /\ k.do = j.do /\ k.ids = j.ids /\ k.stage = j.stage /\ k.carded = j.carded
            /\ k.left = j.left \ {p}
            /\ id = NoId => k.sent = j.sent
            /\ id # NoId => /\ DOMAIN k.sent = DOMAIN j.sent \cup {p}
                            /\ k.sent[p] = id
                            /\ \A q \in DOMAIN j.sent \ {p} : k.sent[q] = j.sent[q]
<1> DEFINE j == mailers[w]
           s == IF id = NoId THEN j.sent
                ELSE [q \in DOMAIN j.sent \cup {p} |-> IF q = p THEN id ELSE j.sent[q]]
<1>1. IsJob(j)
  BY RestOrWork
<1>2. PICK who \in SUBSET Members : j \in Jobs(who)
  BY <1>1 DEF IsJob
<1>3. j.sent \in [who -> Nat] /\ j.left \in SUBSET Members
  BY <1>2 DEF Jobs
<1>4. mailers' = [mailers EXCEPT ![w].left = @ \ {p}, ![w].sent = s]
  BY DEF Send
<1>5. DOMAIN mailers = Mailers
  BY DEF MailTypeOK
<1>6. \E them \in SUBSET Members : s \in [them -> Nat]
  <2>1. CASE id = NoId
    BY <1>3, <2>1
  <2>2. CASE id # NoId
    <3>1. who \cup {p} \in SUBSET Members /\ s \in [who \cup {p} -> Nat]
      BY <1>3, <2>2
    <3>2. QED
      BY <3>1
  <2>3. QED
    BY <2>1, <2>2
<1> HIDE DEF s
<1>7. /\ mailers'[w] = [j EXCEPT !.left = j.left \ {p}, !.sent = s]
      /\ DOMAIN mailers' = Mailers
      /\ \A v \in Mailers \ {w} : mailers'[v] = mailers[v]
  BY <1>4, <1>5
<1>8. /\ IsJob(mailers'[w])
      /\ mailers'[w].left = j.left \ {p} /\ mailers'[w].sent = s
      /\ mailers'[w].do = j.do /\ mailers'[w].ids = j.ids
      /\ mailers'[w].stage = j.stage /\ mailers'[w].carded = j.carded
  BY <1>2, <1>6, <1>7 DEF IsJob, Jobs
<1>9. QED
  BY <1>3, <1>7, <1>8 DEF s

-----------------------------------------------------------------------------
(* Every step keeps the types. *)

ChatRows == [boards : Seq(0..LastStage), cards : Nat, pushes : Nat, nudges : Nat]
Counts ==
  [deaths : Nat, overlaps : Nat, failures : Nat, lost : Nat, deletions : Nat, extras : Nat,
   lapses : Nat]
BoardTyped == board \in BoardRows /\ (board.moving \in {"early", "late"} => ~Over)
MailersTyped == DOMAIN mailers = Mailers /\ \A w \in Mailers : mailers[w] = Resting \/ IsJob(mailers[w])

LEMMA TypeParts ==
  MailTypeOK <=> /\ BoardTyped /\ chats \in [Members -> ChatRows] /\ mails \subseteq Tasks
                 /\ MailersTyped /\ mishaps \in Counts
BY DEF MailTypeOK, BoardTyped, ChatRows, MailersTyped, IsJob, Counts

LEMMA TypesAgain ==
  ASSUME BoardTyped', chats' \in [Members -> ChatRows], mails' \subseteq Tasks,
         MailersTyped', mishaps' \in Counts
  PROVE  MailTypeOK'
BY DEF MailTypeOK, BoardTyped, ChatRows, MailersTyped, IsJob, Counts

LEMMA NewTask ==
  /\ \A k \in MailKinds, who \in SUBSET Members,
        from \in {"move", "match", "evening", "player", "clock"} : Mail(k, who, from) \in Tasks
  /\ \A n : News(n) \in Tasks
BY DEF Mail, Tasks, News, MailKinds

LEMMA TypeMoves ==
  ASSUME MailTypeOK, OpenMove \/ CommitMove \/ Announce \/ Forget \/ PublishFinal \/ StampLapses
  PROVE  MailTypeOK'
<1>1. LastStage \in Nat
  BY MailLimits
<1>2. board \in BoardRows /\ (board.moving \in {"early", "late"} => ~Over)
  BY DEF MailTypeOK
<1>3. CASE OpenMove
  <2>1. BoardTyped'
    BY <1>2, <1>3 DEF OpenMove, BoardTyped, BoardRows, Over
  <2>2. mails' \subseteq Tasks
    BY <1>3, NewTask, TypeParts DEF OpenMove
  <2>3. QED
    BY <1>3, <2>1, <2>2, TypeParts, TypesAgain DEF OpenMove, MailersTyped
<1>4. CASE CommitMove
  <2>1. board.stage \in 0..LastStage /\ board.stage # LastStage
    BY <1>2, <1>4 DEF CommitMove, BoardRows, Over
  <2>2. board.stage + 1 \in 0..LastStage
    BY <1>1, <2>1
  <2>3. board' = [board EXCEPT !.stage = board.stage + 1, !.stamped = FALSE,
                               !.moving = IF board.moving = "early" THEN "no" ELSE "owed"]
    BY <1>4 DEF CommitMove
  <2>4. BoardTyped'
    BY <1>2, <2>2, <2>3 DEF BoardTyped, BoardRows
  <2>5. QED
    BY <1>4, <2>4, TypeParts, TypesAgain DEF CommitMove, MailersTyped
<1>5. CASE Announce
  <2>1. BoardTyped'
    BY <1>2, <1>5 DEF Announce, BoardTyped, BoardRows
  <2>2. mails' \subseteq Tasks
    BY <1>5, NewTask, TypeParts DEF Announce, MailKinds
  <2>3. QED
    BY <1>5, <2>1, <2>2, TypeParts, TypesAgain DEF Announce, MailersTyped
<1>6. CASE Forget
  <2>1. BoardTyped'
    BY <1>2, <1>6 DEF Forget, BoardTyped, BoardRows
  <2>2. mishaps' \in Counts
    BY <1>6, TypeParts DEF Forget, Counts
  <2>3. QED
    BY <1>6, <2>1, <2>2, TypeParts, TypesAgain DEF Forget, MailersTyped
<1>7. CASE PublishFinal
  <2>1. BoardTyped'
    BY <1>2, <1>7 DEF PublishFinal, BoardTyped, BoardRows, Over
  <2>2. mails' \subseteq Tasks
    BY <1>7, NewTask, TypeParts DEF PublishFinal, MailKinds
  <2>3. QED
    BY <1>7, <2>1, <2>2, TypeParts, TypesAgain DEF PublishFinal, MailersTyped
<1>8. CASE StampLapses
  <2>1. BoardTyped'
    BY <1>2, <1>8 DEF StampLapses, BoardTyped, BoardRows, Over
  <2>2. mails' \subseteq Tasks
    BY <1>8, NewTask, TypeParts DEF StampLapses, MailKinds
  <2>3. mishaps' \in Counts
    BY <1>8, TypeParts DEF StampLapses, Counts
  <2>4. QED
    BY <1>8, <2>1, <2>2, <2>3, TypeParts, TypesAgain DEF StampLapses, MailersTyped
<1>9. QED
  BY <1>3, <1>4, <1>5, <1>6, <1>7, <1>8

\* Players and the clock ask for tasks.
Requested ==
  \/ PostMatch \/ SchedulePush \/ ScheduleReminder
  \/ \E p \in Members : RequestCard(p) \/ ShareResult(p)

LEMMA AsksTyped ==
  ASSUME MailTypeOK, NEW tasks \in SUBSET Tasks, Asks(tasks), UNCHANGED <<board, chats, mailers>>
  PROVE  MailTypeOK' /\ mishaps' = [mishaps EXCEPT !.extras = @ + 1]
<1>1. mishaps' \in Counts /\ mails' \subseteq Tasks
  BY TypeParts DEF Asks, Counts
<1>2. QED
  BY <1>1, TypeParts, TypesAgain DEF Asks, BoardTyped, Over, MailersTyped

LEMMA RequestedAsks ==
  ASSUME Requested
  PROVE  \E tasks \in SUBSET Tasks : Asks(tasks) /\ UNCHANGED <<board, chats, mailers>>
BY NewTask DEF Requested, PostMatch, SchedulePush, ScheduleReminder, RequestCard, ShareResult, MailKinds

LEMMA AudienceThere ==
  ASSUME NEW t \in Tasks PROVE Audience(t) \in SUBSET Members
BY DEF Audience, Tasks

\* The worker w starts on the task t, unless there is nobody to write to.
Starts(w, t) ==
  /\ mails' = mails \ {t}
  /\ mailers' = [mailers EXCEPT ![w] =
       [do |-> t.do, task |-> t, stage |-> board.stage, ids |-> board.ids,
        carded |-> board.carded, left |-> Audience(t), sent |-> <<>>]]
  /\ \/ /\ \A v \in Mailers : Family(mailers[v].do) # Family(t.do)
        /\ UNCHANGED mishaps
     \/ mishaps' = [mishaps EXCEPT !.overlaps = @ + 1]

LEMMA StartsOne ==
  ASSUME MailTypeOK, NEW w \in Mailers, NEW t \in mails, Starts(w, t)
  PROVE  LET k == mailers'[w]
         IN /\ DOMAIN mailers' = Mailers
            /\ \A v \in Mailers \ {w} : mailers'[v] = mailers[v]
            /\ IsJob(k)
            /\ k.do = t.do /\ k.ids = board.ids /\ k.stage = board.stage
            /\ k.carded = board.carded /\ k.left = Audience(t) /\ DOMAIN k.sent = {}
<1> DEFINE k == [do |-> t.do, task |-> t, stage |-> board.stage, ids |-> board.ids,
                 carded |-> board.carded, left |-> Audience(t), sent |-> <<>>]
<1>1. t \in Tasks /\ board \in BoardRows /\ DOMAIN mailers = Mailers
  BY DEF MailTypeOK
<1>2. Audience(t) \in SUBSET Members
  BY <1>1, AudienceThere
<1>3. <<>> \in [{} -> Nat] /\ DOMAIN <<>> = {}
  OBVIOUS
<1>4. t.do \in MailKinds
  BY <1>1 DEF Tasks
<1>5. k \in Jobs({})
  BY <1>1, <1>2, <1>3, <1>4 DEF Jobs, BoardRows
<1>6. IsJob(k)
  BY <1>5 DEF IsJob
<1>7. mailers'[w] = k /\ DOMAIN mailers' = Mailers
      /\ \A v \in Mailers \ {w} : mailers'[v] = mailers[v]
  BY <1>1 DEF Starts
<1>8. QED
  BY <1>3, <1>6, <1>7

LEMMA TypeBegin ==
  ASSUME MailTypeOK, NEW w \in Mailers, BeginMail(w)
  PROVE  /\ MailTypeOK'
         /\ chats' = chats /\ ~AtWork(w)
         /\ \E t \in mails :
              /\ board' = IF Stamped(t) /\ Audience(t) # {} THEN [board EXCEPT !.stamped = TRUE]
                         ELSE board
              /\ IF Audience(t) = {} THEN UNCHANGED <<mailers, mishaps>>
                 ELSE Starts(w, t)
<1>1. PICK t \in mails :
        /\ mails' = mails \ {t}
        /\ board' = IF Stamped(t) /\ Audience(t) # {} THEN [board EXCEPT !.stamped = TRUE] ELSE board
        /\ IF Audience(t) = {} THEN UNCHANGED <<mailers, mishaps>> ELSE Starts(w, t)
  BY DEF BeginMail, Starts
<1>2. BoardTyped'
  BY <1>1, TypeParts DEF BoardTyped, BoardRows, Over
<1>3. chats' = chats /\ ~AtWork(w)
  BY RestOrWork DEF BeginMail
<1>4. mails' \subseteq Tasks
  BY <1>1, TypeParts
<1>5. MailersTyped' /\ mishaps' \in Counts
  <2>1. CASE Audience(t) = {}
    BY <1>1, <2>1, TypeParts DEF MailersTyped
  <2>2. CASE Audience(t) # {}
    <3>1. Starts(w, t)
      BY <1>1, <2>2
    <3>2. MailersTyped'
      BY <3>1, StartsOne, TypeParts DEF MailersTyped
    <3>3. mishaps' \in Counts
      BY <3>1, TypeParts DEF Starts, Counts
    <3>4. QED
      BY <3>2, <3>3
  <2>3. QED
    BY <2>1, <2>2
<1>6. MailTypeOK'
  BY <1>2, <1>3, <1>4, <1>5, TypeParts, TypesAgain
<1>7. QED
  BY <1>1, <1>3, <1>6

-----------------------------------------------------------------------------
(* What it can mean that a worker turns to the next player. *)

\* The task as a whole gives up, or what is left of it, or it passes over the player.
GivesUp(w) ==
  /\ Frees(w) /\ mishaps' = [mishaps EXCEPT !.failures = @ + 1] /\ UNCHANGED <<board, chats>>
Rests(w) ==
  /\ mailers' = [mailers EXCEPT ![w].left = {}] /\ UNCHANGED <<board, chats, mishaps>>
Skips(w, p) ==
  /\ Send(w, p, NoId) /\ UNCHANGED <<board, chats, mishaps>>

\* A board is edited, or a new one sent.
EditsBoard(w, p, id) ==
  /\ id \in DOMAIN chats[p].boards /\ chats[p].boards[id] # 0 /\ id = mailers[w].ids[p]
  /\ chats' = [chats EXCEPT ![p].boards = [@ EXCEPT ![id] = mailers[w].stage]]
  /\ Send(w, p, NoId) /\ UNCHANGED <<board, mishaps>>
NewBoard(w, p) ==
  /\ LET id == mailers[w].ids[p] IN id # NoId => chats[p].boards[id] = 0
  /\ chats' = [chats EXCEPT ![p].boards = Append(@, mailers[w].stage)]
  /\ Send(w, p, Len(chats[p].boards) + 1) /\ UNCHANGED <<board, mishaps>>

LEMMA RefusedSkips ==
  ASSUME MailTypeOK, NEW w \in Mailers, AtWork(w), NEW p \in Members, Refused(w, p),
         mailers[w].do \notin {"round", "final"}
  PROVE  Skips(w, p)
<1>1. mailers' = [mailers EXCEPT ![w].left = @ \ {p}]
  BY DEF Refused
<1>2. PICK who \in SUBSET Members : mailers[w] \in Jobs(who)
  BY RestOrWork DEF IsJob
<1>3. mailers'[w].do = mailers[w].do /\ DOMAIN mailers = Mailers
  BY <1>1, <1>2 DEF MailTypeOK, Jobs
<1>4. mailers'[w] # Resting
  BY <1>3 DEF AtWork, Resting
<1>5. mishaps' = mishaps
  BY <1>4 DEF Refused
<1>6. Send(w, p, NoId)
  BY <1>1, <1>2, <1>3 DEF Send, Jobs
<1>7. QED
  BY <1>5, <1>6 DEF Skips, Refused

SendsCard(w, p) ==
  /\ board.kind = "DAILY_ARENA" => p \notin mailers[w].carded
  /\ chats' = [chats EXCEPT ![p].cards = @ + 1]
  /\ Send(w, p, 1) /\ UNCHANGED <<board, mishaps>>
Pushes(w, p) ==
  /\ p \notin board.pushed /\ board' = [board EXCEPT !.pushed = @ \cup {p}]
  /\ chats' \in {chats, [chats EXCEPT ![p].pushes = @ + 1]}
  /\ Send(w, p, NoId) /\ UNCHANGED mishaps
Nudges(w, p) ==
  /\ chats' = [chats EXCEPT ![p].nudges = @ + 1]
  /\ Send(w, p, NoId) /\ UNCHANGED <<board, mishaps>>

\* The tasks that write boards.
Boards(w) == mailers[w].do \in {"round", "final"}

\* An id that is stored, or in hand, is that of a message that was sent.
Heard(p, id) == id # NoId => id \in DOMAIN chats[p].boards

\* One that waits to be stored belongs to a message nobody else knows of.
Fresh(p, w) ==
  LET id == mailers[w].sent[p]
  IN /\ id \in DOMAIN chats[p].boards /\ id # board.ids[p]
     /\ \A v \in Mailers : Boards(v) =>
          /\ id # mailers[v].ids[p]
          /\ v # w /\ p \in DOMAIN mailers[v].sent => id # mailers[v].sent[p]

IdsInv ==
  \A p \in Members :
    /\ Heard(p, board.ids[p])
    /\ \A w \in Mailers : Boards(w) =>
         /\ Heard(p, mailers[w].ids[p])
         /\ p \in DOMAIN mailers[w].sent => Fresh(p, w)

LEMMA PostsOne ==
  ASSUME MailTypeOK, IdsInv, NEW w \in Mailers, Post(w)
  PROVE  /\ AtWork(w) /\ mails' = mails
         /\ \E p \in mailers[w].left :
              \/ /\ Boards(w)
                 /\ \/ GivesUp(w) \/ Rests(w) \/ NewBoard(w, p)
                    \/ \E id \in DOMAIN chats[p].boards : EditsBoard(w, p, id)
              \/ ~Boards(w) /\ Skips(w, p)
              \/ mailers[w].do = "cards" /\ SendsCard(w, p)
              \/ mailers[w].do = "push" /\ Pushes(w, p)
              \/ mailers[w].do = "remind" /\ Nudges(w, p)
<1>1. AtWork(w) /\ mails' = mails /\ mailers[w].left # {}
  BY RestOrWork DEF Post, Busy
<1>2. IsJob(mailers[w])
  BY <1>1, RestOrWork
<1>3. mailers[w].left \in SUBSET Members /\ mailers[w].do \in MailKinds
  BY <1>2, JobFields
<1> DEFINE p == Min(mailers[w].left)
<1>4. p \in mailers[w].left /\ p \in Members
  BY <1>1, <1>3, FirstOfThem
<1>5. /\ Boards(w) => PostBoard(w, p)
      /\ mailers[w].do = "cards" => PostCard(w, p)
      /\ mailers[w].do = "push" => PostPush(w, p)
      /\ mailers[w].do = "remind" => PostNudge(w, p)
  BY DEF Post, Boards
<1> HIDE DEF p
<1>6. CASE Boards(w)
  <2>1. CASE p \in board.silent
    <3>1. Refused(w, p)
      BY <1>5, <1>6, <2>1 DEF PostBoard
    <3>2. CASE board.kind # "PRIVATE"
      <4>1. mailers' = [mailers EXCEPT ![w] = Resting]
        BY <1>6, <3>1, <3>2 DEF Refused, Boards
      <4>2. mailers'[w] = Resting
        BY <4>1 DEF MailTypeOK
      <4>3. GivesUp(w)
        BY <3>1, <4>1, <4>2 DEF Refused, GivesUp, Frees
      <4>4. QED
        BY <1>1, <1>4, <1>6, <4>3
    <3>3. CASE board.kind = "PRIVATE"
      <4>1. mailers' = [mailers EXCEPT ![w].left = {}]
        BY <1>6, <3>1, <3>3 DEF Refused, Boards
      <4>2. PICK who \in SUBSET Members : mailers[w] \in Jobs(who)
        BY <1>2 DEF IsJob
      <4>3. mailers'[w].do = mailers[w].do
        BY <4>1, <4>2 DEF MailTypeOK, Jobs
      <4>4. mailers'[w] # Resting
        BY <1>1, <4>3 DEF AtWork, Resting
      <4>5. Rests(w)
        BY <3>1, <4>1, <4>4 DEF Refused, Rests
      <4>6. QED
        BY <1>1, <1>4, <1>6, <4>5
    <3>4. QED
      BY <3>2, <3>3
  <2>2. CASE p \notin board.silent
    <3> DEFINE id == mailers[w].ids[p]
    <3>1. CASE id # NoId /\ chats[p].boards[id] # 0
      <4>1. id \in DOMAIN chats[p].boards
        BY <1>4, <1>6, <3>1 DEF IdsInv, Heard
      <4>2. EditsBoard(w, p, id)
        BY <1>5, <1>6, <2>2, <3>1, <4>1 DEF PostBoard, EditsBoard
      <4>3. QED
        BY <1>1, <1>4, <1>6, <4>1, <4>2
    <3>2. CASE ~(id # NoId /\ chats[p].boards[id] # 0)
      <4>1. NewBoard(w, p)
        BY <1>5, <1>6, <2>2, <3>2 DEF PostBoard, NewBoard
      <4>2. QED
        BY <1>1, <1>4, <1>6, <4>1
    <3>3. QED
      BY <3>1, <3>2
  <2>3. QED
    BY <2>1, <2>2
<1>7. CASE mailers[w].do = "cards"
  <2>1. ~Boards(w) /\ mailers[w].do \notin {"round", "final"}
    BY <1>7 DEF Boards
  <2>2. Skips(w, p) \/ SendsCard(w, p)
    BY <1>1, <1>4, <1>5, <1>7, <2>1, RefusedSkips DEF PostCard, SendCard, Skips, SendsCard
  <2>3. QED
    BY <1>1, <1>4, <1>7, <2>1, <2>2
<1>8. CASE mailers[w].do = "push"
  <2>1. ~Boards(w)
    BY <1>8 DEF Boards
  <2>2. Skips(w, p) \/ Pushes(w, p)
    BY <1>5, <1>8 DEF PostPush, Claimed, Skips, Pushes
  <2>3. QED
    BY <1>1, <1>4, <1>8, <2>1, <2>2
<1>9. CASE mailers[w].do = "remind"
  <2>1. ~Boards(w) /\ mailers[w].do \notin {"round", "final"}
    BY <1>9 DEF Boards
  <2>2. Skips(w, p) \/ Nudges(w, p)
    BY <1>1, <1>4, <1>5, <1>9, <2>1, RefusedSkips DEF PostNudge, Nudges
  <2>3. QED
    BY <1>1, <1>4, <1>9, <2>1, <2>2
<1>10. QED
  BY <1>3, <1>6, <1>7, <1>8, <1>9 DEF MailKinds, Boards

LEMMA MailersAgain ==
  ASSUME MailersTyped, NEW w \in Mailers, DOMAIN mailers' = Mailers,
         \A v \in Mailers \ {w} : mailers'[v] = mailers[v],
         mailers'[w] = Resting \/ IsJob(mailers'[w])
  PROVE  MailersTyped'
BY DEF MailersTyped

\* What is left of a task that gives up what is left of it.
LEMMA RestsOne ==
  ASSUME MailTypeOK, NEW w \in Mailers, AtWork(w), Rests(w)
  PROVE  LET j == mailers[w]  k == mailers'[w]
         IN /\ DOMAIN mailers' = Mailers
            /\ \A v \in Mailers \ {w} : mailers'[v] = mailers[v]
            /\ IsJob(k)
            /\ k.do = j.do /\ k.ids = j.ids /\ k.stage = j.stage /\ k.carded = j.carded
            /\ k.left = {} /\ k.sent = j.sent
<1>1. PICK who \in SUBSET Members : mailers[w] \in Jobs(who)
  BY RestOrWork DEF IsJob
<1>2. /\ mailers'[w] = [mailers[w] EXCEPT !.left = {}] /\ DOMAIN mailers' = Mailers
      /\ \A v \in Mailers \ {w} : mailers'[v] = mailers[v]
  BY DEF MailTypeOK, Rests
<1>3. QED
  BY <1>1, <1>2 DEF IsJob, Jobs

LEMMA BoardWritten ==
  ASSUME MailTypeOK, NEW p \in Members, NEW n \in 0..LastStage, NEW b \in Seq(0..LastStage),
         b = Append(chats[p].boards, n)
         \/ \E i \in DOMAIN chats[p].boards : b = [chats[p].boards EXCEPT ![i] = n],
         chats' = [chats EXCEPT ![p].boards = b]
  PROVE  chats' \in [Members -> ChatRows]
BY TypeParts DEF ChatRows

LEMMA OneMoreSent ==
  ASSUME MailTypeOK, NEW p \in Members
  PROVE  /\ [chats EXCEPT ![p].cards = @ + 1] \in [Members -> ChatRows]
         /\ [chats EXCEPT ![p].pushes = @ + 1] \in [Members -> ChatRows]
         /\ [chats EXCEPT ![p].nudges = @ + 1] \in [Members -> ChatRows]
<1> DEFINE r == chats[p]
<1>1. chats \in [Members -> ChatRows] /\ r \in ChatRows
  BY TypeParts
<1>2. r.cards \in Nat /\ r.pushes \in Nat /\ r.nudges \in Nat
  BY <1>1 DEF ChatRows
<1>3. r.cards + 1 \in Nat /\ r.pushes + 1 \in Nat /\ r.nudges + 1 \in Nat
  BY <1>2
<1>4. \A n \in Nat : /\ [r EXCEPT !.cards = n] \in ChatRows /\ [r EXCEPT !.pushes = n] \in ChatRows
                     /\ [r EXCEPT !.nudges = n] \in ChatRows
  BY <1>1 DEF ChatRows
<1>5. /\ [chats EXCEPT ![p].cards = @ + 1] = [chats EXCEPT ![p] = [r EXCEPT !.cards = r.cards + 1]]
      /\ [chats EXCEPT ![p].pushes = @ + 1] = [chats EXCEPT ![p] = [r EXCEPT !.pushes = r.pushes + 1]]
      /\ [chats EXCEPT ![p].nudges = @ + 1] = [chats EXCEPT ![p] = [r EXCEPT !.nudges = r.nudges + 1]]
  OBVIOUS
<1> HIDE DEF r
<1>6. \A s \in ChatRows : [chats EXCEPT ![p] = s] \in [Members -> ChatRows]
  BY <1>1
<1>7. QED
  BY <1>3, <1>4, <1>5, <1>6

LEMMA BoardSeq ==
  ASSUME MailTypeOK, NEW p \in Members, NEW n \in 0..LastStage
  PROVE  /\ Append(chats[p].boards, n) \in Seq(0..LastStage)
         /\ \A i \in DOMAIN chats[p].boards :
              [chats[p].boards EXCEPT ![i] = n] \in Seq(0..LastStage)
<1>1. chats[p].boards \in Seq(0..LastStage)
  BY TypeParts DEF ChatRows
<1>2. DOMAIN chats[p].boards = 1..Len(chats[p].boards)
  BY <1>1
<1>3. Append(chats[p].boards, n) \in Seq(0..LastStage)
  BY <1>1, AppendProperties
<1>4. QED
  BY <1>1, <1>2, <1>3, ExceptSeq

LEMMA TypePost ==
  ASSUME MailTypeOK, IdsInv, NEW w \in Mailers, Post(w)
  PROVE  MailTypeOK'
<1>1. PICK p \in mailers[w].left :
        \/ /\ Boards(w)
           /\ \/ GivesUp(w) \/ Rests(w) \/ NewBoard(w, p)
              \/ \E id \in DOMAIN chats[p].boards : EditsBoard(w, p, id)
        \/ ~Boards(w) /\ Skips(w, p)
        \/ mailers[w].do = "cards" /\ SendsCard(w, p)
        \/ mailers[w].do = "push" /\ Pushes(w, p)
        \/ mailers[w].do = "remind" /\ Nudges(w, p)
  BY PostsOne
<1>2. AtWork(w) /\ mails' = mails
  BY PostsOne
<1>3. IsJob(mailers[w])
  BY <1>2, RestOrWork
<1>4. p \in Members /\ mailers[w].stage \in 0..LastStage
  BY <1>1, <1>3, JobFields
<1>5. mails' \subseteq Tasks
  BY <1>2, TypeParts
<1>6. CASE GivesUp(w)
  <2>1. MailersTyped' /\ mishaps' \in Counts
    BY <1>6, FreesOne, MailersAgain, TypeParts DEF GivesUp, Counts
  <2>2. QED
    BY <1>5, <1>6, <2>1, TypeParts, TypesAgain DEF GivesUp, BoardTyped, Over
<1>7. CASE Rests(w)
  <2>1. MailersTyped'
    BY <1>2, <1>7, RestsOne, MailersAgain, TypeParts
  <2>2. QED
    BY <1>5, <1>7, <2>1, TypeParts, TypesAgain DEF Rests, BoardTyped, Over
<1>8. ASSUME NEW id \in Nat \cup {NoId}, Send(w, p, id) PROVE MailersTyped'
  BY <1>2, <1>4, <1>8, SendsOne, MailersAgain, TypeParts
<1>9. CASE NewBoard(w, p)
  <2>1. Len(chats[p].boards) + 1 \in Nat
    BY <1>4, TypeParts DEF ChatRows
  <2>2. MailersTyped'
    BY <1>8, <1>9, <2>1 DEF NewBoard
  <2>3. chats' \in [Members -> ChatRows]
    BY <1>4, <1>9, BoardSeq, BoardWritten DEF NewBoard
  <2>4. QED
    BY <1>5, <1>9, <2>2, <2>3, TypeParts, TypesAgain DEF NewBoard, BoardTyped, Over
<1>10. ASSUME NEW id \in DOMAIN chats[p].boards, EditsBoard(w, p, id) PROVE MailTypeOK'
  <2>1. MailersTyped'
    BY <1>8, <1>10 DEF EditsBoard
  <2>2. chats' \in [Members -> ChatRows]
    BY <1>4, <1>10, BoardSeq, BoardWritten DEF EditsBoard
  <2>3. QED
    BY <1>5, <1>10, <2>1, <2>2, TypeParts, TypesAgain DEF EditsBoard, BoardTyped, Over
<1>11. CASE Skips(w, p)
  <2>1. MailersTyped'
    BY <1>8, <1>11 DEF Skips
  <2>2. QED
    BY <1>5, <1>11, <2>1, TypeParts, TypesAgain DEF Skips, BoardTyped, Over
<1>12. CASE SendsCard(w, p)
  <2>1. MailersTyped'
    BY <1>8, <1>12 DEF SendsCard
  <2>2. chats' \in [Members -> ChatRows]
    BY <1>4, <1>12, OneMoreSent, TypeParts DEF SendsCard
  <2>3. QED
    BY <1>5, <1>12, <2>1, <2>2, TypeParts, TypesAgain DEF SendsCard, BoardTyped, Over
<1>13. CASE Pushes(w, p)
  <2>1. MailersTyped'
    BY <1>8, <1>13 DEF Pushes
  <2>2. chats' \in [Members -> ChatRows]
    BY <1>4, <1>13, OneMoreSent, TypeParts DEF Pushes
  <2>3. BoardTyped'
    BY <1>4, <1>13, TypeParts DEF Pushes, BoardTyped, BoardRows, Over
  <2>4. QED
    BY <1>5, <1>13, <2>1, <2>2, <2>3, TypeParts, TypesAgain DEF Pushes
<1>14. CASE Nudges(w, p)
  <2>1. MailersTyped'
    BY <1>8, <1>14 DEF Nudges
  <2>2. chats' \in [Members -> ChatRows]
    BY <1>4, <1>14, OneMoreSent, TypeParts DEF Nudges
  <2>3. QED
    BY <1>5, <1>14, <2>1, <2>2, TypeParts, TypesAgain DEF Nudges, BoardTyped, Over
<1>15. QED
  BY <1>1, <1>6, <1>7, <1>9, <1>10, <1>11, <1>12, <1>13, <1>14

LEMMA TypeStore ==
  ASSUME MailTypeOK, NEW w \in Mailers, StoreMail(w)
  PROVE  MailTypeOK' /\ AtWork(w) /\ Frees(w)
<1>1. AtWork(w) /\ Frees(w)
  BY RestOrWork DEF StoreMail, Frees
<1>2. MailersTyped'
  BY <1>1, FreesOne, MailersAgain, TypeParts
<1> DEFINE j == mailers[w]
<1>3. IsJob(j)
  BY <1>1, RestOrWork
<1>4. /\ DOMAIN j.sent \in SUBSET Members /\ \A p \in DOMAIN j.sent : j.sent[p] \in Nat
      /\ j.task \in Tasks
  BY <1>3, JobFields
<1>5. board \in BoardRows
  BY DEF MailTypeOK
<1>6. StoredIds(j) \in [Members -> Nat \cup {NoId}]
  BY <1>4, <1>5 DEF StoredIds, BoardRows
<1>7. board.carded \cup DOMAIN j.sent \in SUBSET Members
  BY <1>4, <1>5 DEF BoardRows
<1>8. board' \in {board, [board EXCEPT !.ids = StoredIds(j)],
                  [board EXCEPT !.carded = @ \cup DOMAIN j.sent]}
  BY DEF StoreMail
<1>9. BoardTyped'
  BY <1>5, <1>6, <1>7, <1>8 DEF MailTypeOK, BoardTyped, BoardRows, Over
<1>10. Followups(j) \subseteq Tasks
  <2>1. j.task.from \in {"move", "match", "evening", "player", "clock"}
    BY <1>4 DEF Tasks
  <2>2. \A from \in {"move", "match", "evening", "player", "clock"} :
          Mail("cards", Members, from) \in Tasks
    BY DEF Mail, Tasks, MailKinds
  <2>3. Mail("cards", Members, j.task.from) \in Tasks
    BY <2>1, <2>2
  <2>4. QED
    BY <2>3 DEF Followups
<1>11. mails' \subseteq Tasks
  BY <1>10, TypeParts DEF StoreMail
<1>12. QED
  BY <1>1, <1>2, <1>9, <1>11, TypeParts, TypesAgain DEF StoreMail

\* A worker that dies leaves the chats and the tournament as they are, or a push behind.
LEMMA TypeDies ==
  ASSUME MailTypeOK, NEW w \in Mailers, MailerDies(w) \/ PusherDies(w)
  PROVE  /\ MailTypeOK' /\ AtWork(w) /\ Frees(w) /\ board' = board
         /\ mishaps'.deaths = mishaps.deaths + 1 /\ mishaps'.overlaps = mishaps.overlaps
         /\ mishaps'.failures = mishaps.failures
         /\ \/ chats' = chats
            \/ \E p \in Members : chats' = [chats EXCEPT ![p].pushes = @ + 1]
<1>1. AtWork(w) /\ Frees(w) /\ board' = board
  BY RestOrWork DEF MailerDies, PusherDies, Frees, Busy
<1>2. IsJob(mailers[w])
  BY <1>1, RestOrWork
<1>3. mailers[w].task \in Tasks /\ mailers[w].left \in SUBSET Members
  BY <1>2, JobFields
<1>4. mails' \subseteq Tasks
  BY <1>3, TypeParts DEF MailerDies, PusherDies
<1>5. /\ mishaps' \in Counts
      /\ mishaps'.deaths = mishaps.deaths + 1 /\ mishaps'.overlaps = mishaps.overlaps
      /\ mishaps'.failures = mishaps.failures
  <2>1. mishaps \in Counts
    BY TypeParts
  <2>2. mishaps.deaths + 1 \in Nat /\ mishaps.lost + 1 \in Nat
    BY <2>1 DEF Counts
  <2>3. \/ mishaps' = [mishaps EXCEPT !.deaths = mishaps.deaths + 1]
        \/ mishaps' = [mishaps EXCEPT !.deaths = mishaps.deaths + 1, !.lost = mishaps.lost + 1]
    BY DEF MailerDies, PusherDies
  <2>4. QED
    BY <2>1, <2>2, <2>3 DEF Counts
<1>6. MailersTyped'
  BY <1>1, FreesOne, MailersAgain, TypeParts
<1>7. chats' = chats \/ \E p \in Members : chats' = [chats EXCEPT ![p].pushes = @ + 1]
  <2>1. CASE MailerDies(w)
    BY <2>1 DEF MailerDies
  <2>2. CASE PusherDies(w)
    <3>1. Min(mailers[w].left) \in Members
      BY <1>3, <2>2, FirstOfThem DEF PusherDies, Busy
    <3>2. QED
      BY <2>2, <3>1 DEF PusherDies
  <2>3. QED
    BY <2>1, <2>2
<1>8. chats' \in [Members -> ChatRows]
  BY <1>7, OneMoreSent, TypeParts
<1>9. MailTypeOK'
  BY <1>1, <1>4, <1>5, <1>6, <1>8, TypeParts, TypesAgain DEF BoardTyped, Over
<1>10. QED
  BY <1>1, <1>5, <1>7, <1>9

\* A board that a player deletes is the only thing that changes.
Deletes(p, i) ==
  /\ chats[p].boards[i] # 0 /\ chats' = [chats EXCEPT ![p].boards = [@ EXCEPT ![i] = 0]]
  /\ mishaps' = [mishaps EXCEPT !.deletions = @ + 1]
  /\ UNCHANGED <<board, mails, mailers>>

LEMMA TypeDeletes ==
  ASSUME MailTypeOK, NEW p \in Members, PlayerDeletes(p)
  PROVE  MailTypeOK' /\ \E i \in DOMAIN chats[p].boards : Deletes(p, i)
<1>1. PICK i \in DOMAIN chats[p].boards :
        chats[p].boards[i] # 0 /\ chats' = [chats EXCEPT ![p].boards[i] = 0]
  BY DEF PlayerDeletes
<1>2. Deletes(p, i)
  BY <1>1 DEF PlayerDeletes, Deletes
<1>3. 0 \in 0..LastStage
  BY MailLimits
<1>4. chats' \in [Members -> ChatRows]
  BY <1>2, <1>3, BoardSeq, BoardWritten DEF Deletes
<1>5. mishaps' \in Counts
  BY <1>2, TypeParts DEF Deletes, Counts
<1>6. QED
  BY <1>2, <1>4, <1>5, TypeParts, TypesAgain DEF Deletes, BoardTyped, Over, MailersTyped

-----------------------------------------------------------------------------
(* The ids of the boards. *)

\* Boards may come, tasks may end, but nothing is stored and no id is new.
LEMMA IdsStay ==
  ASSUME IdsInv, board'.ids = board.ids,
         \A p \in Members : DOMAIN chats[p].boards \subseteq DOMAIN chats'[p].boards,
         \A w \in Mailers :
           Boards(w)' => /\ Boards(w) /\ mailers'[w].ids = mailers[w].ids
                         /\ \A p \in DOMAIN mailers'[w].sent :
                              /\ p \in DOMAIN mailers[w].sent
                              /\ mailers'[w].sent[p] = mailers[w].sent[p]
  PROVE  IdsInv'
<1> SUFFICES ASSUME NEW p \in Members
             PROVE  /\ Heard(p, board.ids[p])'
                    /\ \A w \in Mailers : Boards(w)' =>
                         /\ Heard(p, mailers[w].ids[p])'
                         /\ p \in DOMAIN mailers'[w].sent => Fresh(p, w)'
  BY DEF IdsInv
<1>1. Heard(p, board.ids[p])'
  BY DEF IdsInv, Heard
<1>2. ASSUME NEW w \in Mailers, Boards(w)'
      PROVE  /\ Heard(p, mailers[w].ids[p])'
             /\ p \in DOMAIN mailers'[w].sent => Fresh(p, w)'
  <2>1. /\ Boards(w) /\ mailers'[w].ids = mailers[w].ids
        /\ Heard(p, mailers[w].ids[p])
        /\ p \in DOMAIN mailers[w].sent => Fresh(p, w)
    BY <1>2 DEF IdsInv
  <2>2. Heard(p, mailers[w].ids[p])'
    BY <2>1 DEF Heard
  <2>3. ASSUME p \in DOMAIN mailers'[w].sent PROVE Fresh(p, w)'
    <3>1. Fresh(p, w) /\ mailers'[w].sent[p] = mailers[w].sent[p]
      BY <1>2, <2>1, <2>3
    <3>2. QED
      BY <3>1 DEF Fresh
  <2>4. QED
    BY <2>2, <2>3
<1>3. QED
  BY <1>1, <1>2

LEMMA IdsStart ==
  ASSUME MailTypeOK, IdsInv, NEW w \in Mailers, NEW t \in mails, Starts(w, t), chats' = chats,
         board'.ids = board.ids
  PROVE  IdsInv'
<1>1. /\ \A v \in Mailers \ {w} : mailers'[v] = mailers[v]
      /\ mailers'[w].ids = board.ids /\ DOMAIN mailers'[w].sent = {}
  BY StartsOne
<1> SUFFICES ASSUME NEW p \in Members
             PROVE  /\ Heard(p, board.ids[p])'
                    /\ \A v \in Mailers : Boards(v)' =>
                         /\ Heard(p, mailers[v].ids[p])'
                         /\ p \in DOMAIN mailers'[v].sent => Fresh(p, v)'
  BY DEF IdsInv
<1>2. Heard(p, board.ids[p]) /\ Heard(p, board.ids[p])'
  BY DEF IdsInv, Heard
<1>3. ASSUME NEW v \in Mailers, Boards(v)'
      PROVE  /\ Heard(p, mailers[v].ids[p])'
             /\ p \in DOMAIN mailers'[v].sent => Fresh(p, v)'
  <2>1. CASE v = w
    BY <1>1, <1>2, <2>1 DEF Heard
  <2>2. CASE v # w
    <3>1. /\ mailers'[v] = mailers[v] /\ Boards(v)
          /\ Heard(p, mailers[v].ids[p])
          /\ p \in DOMAIN mailers[v].sent => Fresh(p, v)
      BY <1>1, <1>3, <2>2 DEF IdsInv, Boards
    <3>2. Fresh(p, v) /\ p \in DOMAIN mailers[v].sent => Fresh(p, v)'
      BY <1>1, <3>1 DEF Fresh, Boards
    <3>3. QED
      BY <3>1, <3>2 DEF Heard
  <2>3. QED
    BY <2>1, <2>2
<1>4. QED
  BY <1>2, <1>3

LEMMA NewBoardLast ==
  ASSUME MailTypeOK, NEW w \in Mailers, NEW p \in Members, NewBoard(w, p),
         mailers[w].stage \in 0..LastStage
  PROVE  LET n == Len(chats[p].boards) + 1
         IN /\ n \in Nat /\ n \notin DOMAIN chats[p].boards
            /\ DOMAIN chats'[p].boards = DOMAIN chats[p].boards \cup {n}
            /\ \A i \in DOMAIN chats[p].boards : chats'[p].boards[i] = chats[p].boards[i]
            /\ chats'[p].boards[n] = mailers[w].stage
            /\ \A q \in Members \ {p} : chats'[q].boards = chats[q].boards
<1> DEFINE b == chats[p].boards
<1>1. b \in Seq(0..LastStage) /\ DOMAIN b = 1..Len(b) /\ Len(b) \in Nat
  BY TypeParts DEF ChatRows
<1>2. chats'[p].boards = Append(b, mailers[w].stage)
      /\ \A q \in Members \ {p} : chats'[q].boards = chats[q].boards
  BY TypeParts DEF NewBoard, ChatRows
<1>3. /\ Append(b, mailers[w].stage) \in Seq(0..LastStage)
      /\ Len(Append(b, mailers[w].stage)) = Len(b) + 1
      /\ \A i \in 1..Len(b) : Append(b, mailers[w].stage)[i] = b[i]
      /\ Append(b, mailers[w].stage)[Len(b) + 1] = mailers[w].stage
  BY <1>1, AppendProperties
<1>4. DOMAIN chats'[p].boards = 1..(Len(b) + 1)
  BY <1>2, <1>3
<1>5. 1..(Len(b) + 1) = 1..Len(b) \cup {Len(b) + 1}
  BY <1>1
<1>6. QED
  BY <1>1, <1>2, <1>3, <1>4, <1>5

LEMMA IdsNew ==
  ASSUME MailTypeOK, IdsInv, NEW w \in Mailers, AtWork(w), NEW p \in mailers[w].left,
         NewBoard(w, p)
  PROVE  IdsInv'
<1> DEFINE n == Len(chats[p].boards) + 1
<1>1. IsJob(mailers[w]) /\ p \in Members /\ mailers[w].stage \in 0..LastStage
  BY RestOrWork, JobFields
<1>2. /\ n \in Nat /\ n \notin DOMAIN chats[p].boards /\ n # NoId
      /\ DOMAIN chats'[p].boards = DOMAIN chats[p].boards \cup {n}
      /\ \A q \in Members \ {p} : chats'[q].boards = chats[q].boards
  BY <1>1, NewBoardLast, MailLimits
<1> HIDE DEF n
<1>3. Send(w, p, n) /\ board' = board
  BY DEF NewBoard, n
<1>4. /\ \A v \in Mailers \ {w} : mailers'[v] = mailers[v]
      /\ mailers'[w].do = mailers[w].do /\ mailers'[w].ids = mailers[w].ids
      /\ DOMAIN mailers'[w].sent = DOMAIN mailers[w].sent \cup {p}
      /\ mailers'[w].sent[p] = n
      /\ \A q \in DOMAIN mailers[w].sent \ {p} : mailers'[w].sent[q] = mailers[w].sent[q]
  BY <1>1, <1>2, <1>3, SendsOne
<1>5. \A v \in Mailers : /\ Boards(v)' <=> Boards(v)
                         /\ mailers'[v].ids = mailers[v].ids
  BY <1>4 DEF Boards
<1> SUFFICES ASSUME NEW q \in Members
             PROVE  /\ Heard(q, board.ids[q])'
                    /\ \A v \in Mailers : Boards(v)' =>
                         /\ Heard(q, mailers[v].ids[q])'
                         /\ q \in DOMAIN mailers'[v].sent => Fresh(q, v)'
  BY DEF IdsInv
<1>6. DOMAIN chats[q].boards \subseteq DOMAIN chats'[q].boards
  BY <1>2
<1>7. Heard(q, board.ids[q])'
  BY <1>3, <1>6 DEF IdsInv, Heard
<1>8. ASSUME NEW v \in Mailers, Boards(v)
      PROVE  /\ Heard(q, mailers[v].ids[q])'
             /\ q \in DOMAIN mailers'[v].sent => Fresh(q, v)'
  <2>1. Heard(q, mailers[v].ids[q])'
    BY <1>5, <1>6, <1>8 DEF IdsInv, Heard
  <2>2. ASSUME q \in DOMAIN mailers'[v].sent PROVE Fresh(q, v)'
    <3>1. CASE q # p
      <4>1. \A u \in Mailers : /\ q \in DOMAIN mailers'[u].sent <=> q \in DOMAIN mailers[u].sent
                               /\ q \in DOMAIN mailers[u].sent
                                    => mailers'[u].sent[q] = mailers[u].sent[q]
        BY <1>4, <3>1
      <4>2. Fresh(q, v)
        BY <1>8, <2>2, <4>1 DEF IdsInv
      <4>3. QED
        BY <1>3, <1>5, <1>6, <2>2, <4>1, <4>2 DEF Fresh
    <3>2. CASE q = p /\ v = w
      <4>1. \A u \in Mailers : Boards(u) =>
              /\ n # mailers[u].ids[p]
              /\ u # w /\ p \in DOMAIN mailers[u].sent => n # mailers[u].sent[p]
        <5>1. ASSUME NEW u \in Mailers, Boards(u)
              PROVE  /\ Heard(p, mailers[u].ids[p])
                     /\ p \in DOMAIN mailers[u].sent => Fresh(p, u)
          BY <1>1, <5>1 DEF IdsInv
        <5>2. QED
          BY <1>2, <5>1 DEF Heard, Fresh
      <4>2. n # board.ids[p]
        <5>1. Heard(p, board.ids[p])
          BY <1>1 DEF IdsInv
        <5>2. QED
          BY <1>2, <5>1 DEF Heard
      <4>3. QED
        BY <1>2, <1>3, <1>4, <1>5, <3>2, <4>1, <4>2 DEF Fresh
    <3>3. CASE q = p /\ v # w
      <4>1. Fresh(p, v) /\ mailers'[v] = mailers[v] /\ mailers[v].sent[p] # n
        BY <1>1, <1>2, <1>4, <1>8, <2>2, <3>3 DEF IdsInv, Fresh
      <4>2. \A u \in Mailers \ {w} : mailers'[u] = mailers[u]
        BY <1>4
      <4>3. QED
        BY <1>2, <1>3, <1>4, <1>5, <1>6, <3>3, <4>1, <4>2 DEF Fresh
    <3>4. QED
      BY <3>1, <3>2, <3>3
  <2>3. QED
    BY <2>1, <2>2
<1>9. QED
  BY <1>5, <1>7, <1>8

LEMMA IdsStore ==
  ASSUME MailTypeOK, IdsInv, NEW w \in Mailers, Boards(w), StoreMail(w)
  PROVE  IdsInv'
<1>1. /\ \A v \in Mailers \ {w} : mailers'[v] = mailers[v]
      /\ mailers'[w].do = "rest"
  BY TypeStore, FreesOne
<1>2. board'.ids = StoredIds(mailers[w]) /\ chats' = chats
  BY DEF StoreMail, Boards, MailTypeOK, BoardRows
<1>3. ~Boards(w)' /\ \A v \in Mailers : Boards(v)' => v # w /\ Boards(v) /\ mailers'[v] = mailers[v]
  BY <1>1 DEF Boards
<1> SUFFICES ASSUME NEW p \in Members
             PROVE  /\ Heard(p, board.ids[p])'
                    /\ \A v \in Mailers : Boards(v)' =>
                         /\ Heard(p, mailers[v].ids[p])'
                         /\ p \in DOMAIN mailers'[v].sent => Fresh(p, v)'
  BY DEF IdsInv
<1>4. \/ board'.ids[p] = board.ids[p]
      \/ p \in DOMAIN mailers[w].sent /\ board'.ids[p] = mailers[w].sent[p]
  BY <1>2 DEF StoredIds
<1>5. Heard(p, board.ids[p])'
  BY <1>2, <1>4 DEF IdsInv, Heard, Fresh
<1>6. ASSUME NEW v \in Mailers, Boards(v)'
      PROVE  /\ Heard(p, mailers[v].ids[p])'
             /\ p \in DOMAIN mailers'[v].sent => Fresh(p, v)'
  <2>1. v # w /\ Boards(v) /\ mailers'[v] = mailers[v]
    BY <1>3, <1>6
  <2>2. Heard(p, mailers[v].ids[p])'
    BY <1>2, <2>1 DEF IdsInv, Heard
  <2>3. ASSUME p \in DOMAIN mailers[v].sent PROVE Fresh(p, v)'
    <3>1. Fresh(p, v)
      BY <2>1, <2>3 DEF IdsInv
    <3>2. mailers[v].sent[p] # board'.ids[p]
      BY <1>4, <2>1, <2>3, <3>1 DEF Fresh
    <3>3. QED
      BY <1>2, <1>3, <2>1, <3>1, <3>2 DEF Fresh
  <2>4. QED
    BY <2>1, <2>2, <2>3
<1>7. QED
  BY <1>5, <1>6

-----------------------------------------------------------------------------
(* How many boards stand in a chat. *)

\* The boards of p that he has not deleted, and the tasks that have still to turn to him.
Standing(p) == {i \in DOMAIN chats[p].boards : chats[p].boards[i] # 0}
Posters(p) == {w \in Mailers : Boards(w) /\ p \in mailers[w].left}
Load(p) == Cardinality(Standing(p)) + Cardinality(Posters(p))

\* What has gone wrong that can cost a player a board too many.
Excused == mishaps.deaths + mishaps.overlaps + mishaps.failures

\* One of these tasks knows a board that it can edit; one knows the board that is stored.
Edits(p) == \E w \in Posters(p) : mailers[w].ids[p] \in Standing(p)
Follows(p) == \E w \in Posters(p) : mailers[w].ids[p] = board.ids[p]

\* The board that w has sent to p will be stored when nothing else happens.
Sent(w, p) == Boards(w) /\ p \in DOMAIN mailers[w].sent
Replaces(w, p) == Sent(w, p) /\ (board.ids[p] = NoId \/ mailers[w].ids[p] # NoId)

\* A board that stands is stored, or will be; one that was sent is gone before it is stored.
Kept(p) ==
  \/ board.ids[p] \in Standing(p)
  \/ \E w \in Mailers : Replaces(w, p) /\ mailers[w].sent[p] \in Standing(p)
Gone(p) == \E w \in Mailers : Sent(w, p) /\ mailers[w].sent[p] \notin Standing(p)

One(b) == IF b THEN 1 ELSE 0

\* The boards of p and those to come are paid for: one is free, and one more when a task
\* will edit instead of sending; but none is free once a board is sent that nobody keeps.
Balanced(p) ==
  /\ Load(p) <= Excused + 1 + One(Edits(p))
  /\ Gone(p) => Load(p) <= Excused + One(Edits(p))
  /\ ~Kept(p) => Load(p) <= Excused + One(Edits(p) \/ Follows(p))

LoadInv == \A p \in Members : Balanced(p)

LEMMA LoadTyped ==
  ASSUME MailTypeOK, NEW p \in Members
  PROVE  /\ IsFiniteSet(Standing(p)) /\ IsFiniteSet(Posters(p))
         /\ Cardinality(Standing(p)) \in Nat /\ Cardinality(Posters(p)) \in Nat
         /\ Load(p) \in Nat /\ Excused \in Nat
<1>1. chats[p].boards \in Seq(0..LastStage)
  BY TypeParts DEF ChatRows
<1>2. DOMAIN chats[p].boards = 1..Len(chats[p].boards) /\ Len(chats[p].boards) \in Nat
  BY <1>1
<1>3. IsFiniteSet(DOMAIN chats[p].boards)
  BY <1>2, FS_Interval
<1>4. Standing(p) \in SUBSET DOMAIN chats[p].boards /\ Posters(p) \in SUBSET Mailers
  BY DEF Standing, Posters
<1>5. IsFiniteSet(Standing(p)) /\ IsFiniteSet(Posters(p))
  BY <1>3, <1>4, MailLimits, FS_Subset
<1>6. Cardinality(Standing(p)) \in Nat /\ Cardinality(Posters(p)) \in Nat
  BY <1>5, FS_CardinalityType
<1>7. Excused \in Nat
  BY TypeParts DEF Excused, Counts
<1>8. QED
  BY <1>5, <1>6, <1>7 DEF Load

\* The balance stays: nothing is added that is not excused, what was kept is kept.
LEMMA BalanceStays ==
  ASSUME NEW p \in Members, Balanced(p), Load(p) \in Nat, Load(p)' \in Nat,
         Excused \in Nat, Excused' \in Nat,
         Load(p)' + Excused + One(Edits(p)) <= Load(p) + Excused' + One(Edits(p)'),
         Gone(p)' => Gone(p),
         \/ Kept(p)'
         \/ /\ ~Kept(p)
            /\ Load(p)' + Excused + One(Edits(p) \/ Follows(p))
                 <= Load(p) + Excused' + One(Edits(p)' \/ Follows(p)')
  PROVE  Balanced(p)'
BY DEF Balanced, One

\* A mishap that adds nothing pays for whatever is lost with it.
LEMMA MishapPays ==
  ASSUME NEW p \in Members, Balanced(p), Load(p) \in Nat, Load(p)' \in Nat,
         Excused \in Nat, Excused' \in Nat, Excused + 1 <= Excused',
         Load(p)' + One(Edits(p)) <= Load(p) + One(Edits(p)')
  PROVE  Balanced(p)'
BY DEF Balanced, One

\* What the balance of p looks at.
SameWorkers(p) ==
  \A w \in Mailers :
    /\ Boards(w)' <=> Boards(w)
    /\ Boards(w) => /\ mailers'[w].ids = mailers[w].ids
                    /\ p \in mailers'[w].left <=> p \in mailers[w].left
                    /\ p \in DOMAIN mailers'[w].sent <=> p \in DOMAIN mailers[w].sent
                    /\ p \in DOMAIN mailers[w].sent => mailers'[w].sent[p] = mailers[w].sent[p]

LEMMA NothingNew ==
  ASSUME MailTypeOK, NEW p \in Members, Balanced(p), SameWorkers(p),
         Excused' \in Nat, Excused <= Excused',
         chats'[p].boards = chats[p].boards, board'.ids[p] = board.ids[p]
  PROVE  Balanced(p)'
<1>1. Standing(p)' = Standing(p)
  BY DEF Standing
<1>2. Posters(p)' = Posters(p)
  BY DEF Posters, SameWorkers
<1>3. Load(p)' = Load(p) /\ Load(p) \in Nat /\ Excused \in Nat
  BY <1>1, <1>2, LoadTyped DEF Load
<1>4. \A w \in Posters(p) : Boards(w) /\ w \in Mailers
  BY DEF Posters
<1>5. (Edits(p)' <=> Edits(p)) /\ (Follows(p)' <=> Follows(p))
  BY <1>1, <1>2, <1>4 DEF Edits, Follows, SameWorkers
<1>6. (Gone(p)' <=> Gone(p)) /\ (Kept(p)' <=> Kept(p))
  BY <1>1 DEF Gone, Kept, Sent, Replaces, SameWorkers
<1>7. QED
  BY <1>3, <1>5, <1>6, BalanceStays DEF One

\* A board tells of a round: none is written before the first.
StageInv == \A w \in Mailers : Boards(w) => mailers[w].stage # 0

LEMMA WorkerGone ==
  ASSUME MailTypeOK, NEW p \in Members, NEW w \in Mailers, Standing(p)' = Standing(p),
         Posters(p)' = Posters(p) \ {w}
  PROVE  /\ Load(p)' = Load(p) - One(w \in Posters(p)) /\ Load(p)' \in Nat
         /\ Load(p) \in Nat /\ Excused \in Nat
<1>1. /\ IsFiniteSet(Posters(p)) /\ Load(p) \in Nat /\ Excused \in Nat
      /\ Cardinality(Standing(p)) \in Nat /\ Cardinality(Posters(p)) \in Nat
  BY LoadTyped
<1>2. Cardinality(Posters(p) \ {w}) = Cardinality(Posters(p)) - One(w \in Posters(p))
      /\ Cardinality(Posters(p) \ {w}) \in Nat
  BY <1>1, FS_RemoveElement, FS_CardinalityType DEF One
<1>3. QED
  BY <1>1, <1>2 DEF Load, One

LEMMA BalanceStop ==
  ASSUME MailTypeOK, NEW p \in Members, Balanced(p), NEW w \in Mailers, Frees(w),
         Excused' \in Nat, Excused + 1 <= Excused', chats'[p].boards = chats[p].boards
  PROVE  Balanced(p)'
<1>1. Standing(p)' = Standing(p)
  BY DEF Standing
<1>2. mailers'[w].do = "rest" /\ \A v \in Mailers \ {w} : mailers'[v] = mailers[v]
  BY FreesOne
<1>3. Posters(p)' = Posters(p) \ {w}
  BY <1>2 DEF Posters, Boards
<1>4. /\ Load(p)' = Load(p) - One(w \in Posters(p)) /\ Load(p)' \in Nat
      /\ Load(p) \in Nat /\ Excused \in Nat
  BY <1>1, <1>3, WorkerGone
<1>5. w \notin Posters(p) => (Edits(p) => Edits(p)')
  BY <1>1, <1>2, <1>3 DEF Edits, Posters
<1>6. Load(p)' + One(Edits(p)) <= Load(p) + One(Edits(p)')
  BY <1>4, <1>5 DEF One
<1>7. QED
  BY <1>4, <1>6, MishapPays

\* The worker w has turned to p without leaving him a board more.
LEMMA BalanceTurn ==
  ASSUME MailTypeOK, NEW p \in Members, Balanced(p), NEW w \in Mailers, Boards(w),
         Standing(p)' = Standing(p), board'.ids = board.ids, mishaps' = mishaps,
         \A v \in Mailers \ {w} : mailers'[v] = mailers[v],
         mailers'[w].do = mailers[w].do, mailers'[w].ids = mailers[w].ids,
         mailers'[w].sent = mailers[w].sent, p \notin mailers'[w].left
  PROVE  Balanced(p)'
<1>1. \A v \in Mailers : /\ Boards(v)' <=> Boards(v)
                         /\ mailers'[v].ids = mailers[v].ids
                         /\ mailers'[v].sent = mailers[v].sent
  BY DEF Boards
<1>2. Posters(p)' = Posters(p) \ {w}
  BY <1>1 DEF Posters
<1>3. /\ Load(p)' = Load(p) - One(w \in Posters(p)) /\ Load(p)' \in Nat
      /\ Load(p) \in Nat /\ Excused \in Nat
  BY <1>2, WorkerGone
<1>4. Excused' = Excused
  BY DEF Excused
<1>5. /\ w \notin Posters(p) => (Edits(p) => Edits(p)')
      /\ w \notin Posters(p) => (Follows(p) => Follows(p)')
  BY <1>1, <1>2 DEF Edits, Follows, Posters
<1>6. (Gone(p)' <=> Gone(p)) /\ (Kept(p)' <=> Kept(p))
  BY <1>1 DEF Gone, Kept, Sent, Replaces
<1>7. Load(p)' + Excused + One(Edits(p)) <= Load(p) + Excused' + One(Edits(p)')
  BY <1>3, <1>4, <1>5 DEF One
<1>8. Load(p)' + Excused + One(Edits(p) \/ Follows(p))
        <= Load(p) + Excused' + One(Edits(p)' \/ Follows(p)')
  BY <1>3, <1>4, <1>5 DEF One
<1>9. QED
  BY <1>3, <1>4, <1>6, <1>7, <1>8, BalanceStays

LEMMA BalanceRests ==
  ASSUME MailTypeOK, NEW p \in Members, Balanced(p), NEW w \in Mailers, Boards(w), Rests(w)
  PROVE  Balanced(p)'
<1>1. AtWork(w)
  BY DEF Boards, AtWork
<1>2. Standing(p)' = Standing(p) /\ board' = board /\ mishaps' = mishaps
  BY DEF Rests, Standing
<1>3. QED
  BY <1>1, <1>2, RestsOne, BalanceTurn

LEMMA BalanceEdits ==
  ASSUME MailTypeOK, StageInv, NEW q \in Members, Balanced(q), NEW w \in Mailers, Boards(w),
         NEW p \in Members, NEW id \in DOMAIN chats[p].boards, EditsBoard(w, p, id)
  PROVE  Balanced(q)'
<1>1. AtWork(w) /\ Send(w, p, NoId) /\ board' = board /\ mishaps' = mishaps
  BY DEF Boards, AtWork, EditsBoard
<1>2. /\ \A v \in Mailers \ {w} : mailers'[v] = mailers[v]
      /\ mailers'[w].do = mailers[w].do /\ mailers'[w].ids = mailers[w].ids
      /\ mailers'[w].sent = mailers[w].sent /\ mailers'[w].left = mailers[w].left \ {p}
  BY <1>1, SendsOne
<1>3. CASE q = p
  <2>1. chats'[p].boards = [chats[p].boards EXCEPT ![id] = mailers[w].stage]
    BY TypeParts DEF EditsBoard, ChatRows
  <2>2. mailers[w].stage # 0 /\ chats[p].boards[id] # 0
    BY DEF StageInv, EditsBoard
  <2>3. Standing(p)' = Standing(p)
    BY <2>1, <2>2 DEF Standing
  <2>4. QED
    BY <1>1, <1>2, <1>3, <2>3, BalanceTurn
<1>4. CASE q # p
  <2>1. chats'[q].boards = chats[q].boards
    BY <1>4, TypeParts DEF EditsBoard
  <2>2. SameWorkers(q)
    BY <1>2, <1>4 DEF SameWorkers, Boards
  <2>3. Excused' = Excused /\ Excused \in Nat
    BY <1>1, LoadTyped DEF Excused
  <2>4. QED
    BY <1>1, <2>1, <2>2, <2>3, NothingNew
<1>5. QED
  BY <1>3, <1>4

LEMMA BalanceNew ==
  ASSUME MailTypeOK, IdsInv, StageInv, NEW q \in Members, Balanced(q),
         NEW w \in Mailers, Boards(w), NEW p \in mailers[w].left, NewBoard(w, p)
  PROVE  Balanced(q)'
<1> DEFINE n == Len(chats[p].boards) + 1
<1>1. AtWork(w) /\ board' = board /\ mishaps' = mishaps
  BY DEF Boards, AtWork, NewBoard
<1>2. IsJob(mailers[w]) /\ p \in Members /\ mailers[w].stage \in 0..LastStage
  BY <1>1, RestOrWork, JobFields
<1>3. /\ n \in Nat /\ n \notin DOMAIN chats[p].boards /\ n # NoId
      /\ DOMAIN chats'[p].boards = DOMAIN chats[p].boards \cup {n}
      /\ \A i \in DOMAIN chats[p].boards : chats'[p].boards[i] = chats[p].boards[i]
      /\ chats'[p].boards[n] = mailers[w].stage
      /\ \A u \in Members \ {p} : chats'[u].boards = chats[u].boards
  BY <1>2, NewBoardLast, MailLimits
<1>4. Send(w, p, n)
  BY DEF NewBoard
<1> HIDE DEF n
<1>5. /\ \A v \in Mailers \ {w} : mailers'[v] = mailers[v]
      /\ mailers'[w].do = mailers[w].do /\ mailers'[w].ids = mailers[w].ids
      /\ mailers'[w].left = mailers[w].left \ {p}
      /\ DOMAIN mailers'[w].sent = DOMAIN mailers[w].sent \cup {p}
      /\ mailers'[w].sent[p] = n
      /\ \A u \in DOMAIN mailers[w].sent \ {p} : mailers'[w].sent[u] = mailers[w].sent[u]
  BY <1>1, <1>2, <1>3, <1>4, SendsOne
<1>6. Excused' = Excused /\ Excused \in Nat
  BY <1>1, <1>2, LoadTyped DEF Excused
<1>7. CASE q # p
  <2>1. SameWorkers(q)
    BY <1>5, <1>7 DEF SameWorkers, Boards
  <2>2. QED
    BY <1>1, <1>3, <1>6, <1>7, <2>1, NothingNew
<1>8. CASE q = p
  <2>1. Standing(p)' = Standing(p) \cup {n} /\ n \notin Standing(p)
    BY <1>3 DEF Standing, StageInv
  <2>2. Posters(p)' = Posters(p) \ {w} /\ w \in Posters(p)
    BY <1>5 DEF Posters, Boards
  <2>3. Load(p)' = Load(p) /\ Load(p) \in Nat
    <3>1. /\ IsFiniteSet(Standing(p)) /\ IsFiniteSet(Posters(p)) /\ Load(p) \in Nat
          /\ Cardinality(Standing(p)) \in Nat /\ Cardinality(Posters(p)) \in Nat
      BY <1>2, LoadTyped
    <3>2. Cardinality(Standing(p) \cup {n}) = Cardinality(Standing(p)) + 1
      BY <2>1, <3>1, FS_AddElement
    <3>3. Cardinality(Posters(p) \ {w}) = Cardinality(Posters(p)) - 1
      BY <2>2, <3>1, FS_RemoveElement
    <3>4. QED
      BY <2>1, <2>2, <3>1, <3>2, <3>3 DEF Load
  <2>4. \A v \in Posters(p) : v # w => /\ v \in Posters(p)' /\ mailers'[v] = mailers[v]
    BY <1>5, <2>2 DEF Posters
  <2>5. mailers[w].ids[p] \notin Standing(p)
    <3>1. Heard(p, mailers[w].ids[p])
      BY <1>2 DEF IdsInv
    <3>2. \A i \in Standing(p) : i \in DOMAIN chats[p].boards /\ chats[p].boards[i] # 0
      BY DEF Standing
    <3>3. CASE mailers[w].ids[p] = NoId
      <4>1. NoId \notin DOMAIN chats[p].boards
        BY <1>2, MailLimits, TypeParts DEF ChatRows
      <4>2. QED
        BY <3>2, <3>3, <4>1
    <3>4. CASE mailers[w].ids[p] # NoId
      BY <3>2, <3>4 DEF NewBoard
    <3>5. QED
      BY <3>3, <3>4
  <2>6. Edits(p) => Edits(p)'
    BY <2>1, <2>4, <2>5 DEF Edits
  <2>7. Gone(p)' => Gone(p)
    BY <1>3, <1>5, <2>1 DEF Gone, Sent, Boards
  <2>8. Kept(p)' \/ (~Kept(p) /\ (Follows(p) => Follows(p)'))
    <3>1. CASE Replaces(w, p)' \/ Kept(p)
      BY <1>1, <1>5, <2>1, <3>1, <1>3 DEF Kept, Replaces, Sent, Boards
    <3>2. CASE ~Replaces(w, p)' /\ ~Kept(p)
      <4>1. board.ids[p] # NoId /\ mailers[w].ids[p] = NoId
        BY <1>1, <1>5, <3>2 DEF Replaces, Sent, Boards
      <4>2. Follows(p) => Follows(p)'
        BY <1>1, <2>4, <4>1 DEF Follows
      <4>3. QED
        BY <3>2, <4>2
    <3>3. QED
      BY <3>1, <3>2
  <2>9. One(Edits(p)) <= One(Edits(p)')
        /\ (Follows(p) => Follows(p)') => One(Edits(p) \/ Follows(p)) <= One(Edits(p)' \/ Follows(p)')
    BY <2>6 DEF One
  <2>10. Balanced(p)'
    BY <1>2, <1>6, <1>8, <2>3, <2>6, <2>7, <2>8, <2>9, BalanceStays DEF One
  <2>11. QED
    BY <1>8, <2>10
<1>9. QED
  BY <1>7, <1>8

LEMMA BalanceDeletes ==
  ASSUME MailTypeOK, IdsInv, NEW q \in Members, Balanced(q),
         NEW p \in Members, NEW i \in DOMAIN chats[p].boards, Deletes(p, i)
  PROVE  Balanced(q)'
<1>1. board' = board /\ mailers' = mailers
  BY DEF Deletes
<1>2. Excused' = Excused /\ Excused \in Nat
  BY LoadTyped, TypeParts DEF Excused, Deletes, Counts
<1>3. CASE q # p
  <2>1. SameWorkers(q)
    BY <1>1 DEF SameWorkers, Boards
  <2>2. chats'[q].boards = chats[q].boards
    BY <1>3, TypeParts DEF Deletes
  <2>3. QED
    BY <1>1, <1>2, <2>1, <2>2, NothingNew
<1>4. CASE q = p
  <2>1. chats'[p].boards = [chats[p].boards EXCEPT ![i] = 0] /\ chats[p].boards[i] # 0
    BY TypeParts DEF Deletes, ChatRows
  <2>2. Standing(p)' = Standing(p) \ {i} /\ i \in Standing(p)
    BY <2>1 DEF Standing
  <2>3. Posters(p)' = Posters(p)
    BY <1>1 DEF Posters, Boards
  <2>4. Load(p)' + 1 = Load(p) /\ Load(p)' \in Nat /\ Load(p) \in Nat
    <3>1. /\ IsFiniteSet(Standing(p)) /\ Load(p) \in Nat
          /\ Cardinality(Standing(p)) \in Nat /\ Cardinality(Posters(p)) \in Nat
      BY LoadTyped
    <3>2. Cardinality(Standing(p) \ {i}) = Cardinality(Standing(p)) - 1
          /\ Cardinality(Standing(p) \ {i}) \in Nat
      BY <2>2, <3>1, FS_RemoveElement, FS_CardinalityType
    <3>3. QED
      BY <2>2, <2>3, <3>1, <3>2 DEF Load
  <2>5. \A w \in Mailers : Sent(w, p) => \A v \in Posters(p) : mailers[w].sent[p] # mailers[v].ids[p]
    BY DEF Sent, IdsInv, Fresh, Posters
  <2>6. \A w \in Mailers : Sent(w, p) /\ mailers[w].sent[p] = i => (Edits(p) => Edits(p)')
    BY <1>1, <2>2, <2>3, <2>5 DEF Edits
  <2>7. Gone(p)' /\ ~Gone(p) => (Edits(p) => Edits(p)')
    BY <1>1, <2>2, <2>6 DEF Gone, Sent, Boards
  <2>8. Kept(p)' => Kept(p)
    BY <1>1, <2>2 DEF Kept, Replaces, Sent, Boards
  <2>9. Kept(p) /\ ~Kept(p)' => (Edits(p) => Edits(p)' \/ Follows(p)')
    <3>1. SUFFICES ASSUME Kept(p), ~Kept(p)', Edits(p) PROVE Edits(p)' \/ Follows(p)'
      OBVIOUS
    <3>2. PICK v \in Posters(p) : mailers[v].ids[p] \in Standing(p)
      BY <3>1 DEF Edits
    <3>3. CASE mailers[v].ids[p] # i
      BY <1>1, <2>2, <2>3, <3>2, <3>3 DEF Edits
    <3>4. CASE mailers[v].ids[p] = i
      <4>1. \A w \in Mailers : Replaces(w, p) /\ mailers[w].sent[p] \in Standing(p) => FALSE
        <5>1. SUFFICES ASSUME NEW w \in Mailers, Replaces(w, p), mailers[w].sent[p] \in Standing(p)
                       PROVE  FALSE
          OBVIOUS
        <5>2. mailers[w].sent[p] # i
          BY <2>5, <3>2, <3>4, <5>1 DEF Replaces
        <5>3. Replaces(w, p)' /\ mailers'[w].sent[p] \in Standing(p)'
          BY <1>1, <2>2, <5>1, <5>2 DEF Replaces, Sent, Boards
        <5>4. QED
          BY <3>1, <5>3 DEF Kept
      <4>2. board.ids[p] \in Standing(p)
        BY <3>1, <4>1 DEF Kept
      <4>3. board.ids[p] = i
        BY <1>1, <2>2, <3>1, <4>2 DEF Kept
      <4>4. QED
        BY <1>1, <2>3, <3>2, <3>4, <4>3 DEF Follows
    <3>5. QED
      BY <3>3, <3>4
  <2>10. /\ Load(p) <= Excused + 1 + One(Edits(p))
         /\ Gone(p) => Load(p) <= Excused + One(Edits(p))
         /\ ~Kept(p) => Load(p) <= Excused + One(Edits(p) \/ Follows(p))
    BY <1>4 DEF Balanced
  <2>11. /\ Load(p)' <= Excused + 1 + One(Edits(p)')
         /\ Gone(p)' => Load(p)' <= Excused + One(Edits(p)')
    BY <1>2, <2>4, <2>7, <2>10 DEF One
  <2>12. ~Kept(p)' => Load(p)' <= Excused + One(Edits(p)' \/ Follows(p)')
    BY <1>2, <2>4, <2>9, <2>10 DEF One
  <2>13. QED
    BY <1>2, <1>4, <2>11, <2>12 DEF Balanced
<1>5. QED
  BY <1>3, <1>4

LEMMA BalanceStore ==
  ASSUME MailTypeOK, NEW p \in Members, Balanced(p), NEW w \in Mailers, Boards(w), StoreMail(w)
  PROVE  Balanced(p)'
<1>1. /\ \A v \in Mailers \ {w} : mailers'[v] = mailers[v]
      /\ mailers'[w].do = "rest"
  BY TypeStore, FreesOne
<1>2. /\ board'.ids = StoredIds(mailers[w]) /\ chats' = chats /\ mishaps' = mishaps
      /\ mailers[w].left = {}
  BY DEF StoreMail, Boards, MailTypeOK, BoardRows
<1>3. Standing(p)' = Standing(p) /\ Excused' = Excused
  BY <1>2 DEF Standing, Excused
<1>4. Posters(p)' = Posters(p) /\ w \notin Posters(p)
  BY <1>1, <1>2 DEF Posters, Boards
<1>5. Load(p)' = Load(p) /\ Load(p) \in Nat /\ Excused \in Nat
  BY <1>3, <1>4, LoadTyped DEF Load
<1>6. Edits(p)' <=> Edits(p)
  BY <1>1, <1>3, <1>4 DEF Edits, Posters
<1>7. Gone(p)' => Gone(p)
  BY <1>1, <1>3 DEF Gone, Sent, Boards
<1>8. board'.ids[p] = IF Replaces(w, p) THEN mailers[w].sent[p] ELSE board.ids[p]
  BY <1>2 DEF StoredIds, Replaces, Sent
<1>9. CASE Replaces(w, p) /\ mailers[w].sent[p] \in Standing(p)
  <2>1. Kept(p)'
    BY <1>3, <1>8, <1>9 DEF Kept
  <2>2. QED
    BY <1>3, <1>5, <1>6, <1>7, <2>1, BalanceStays DEF One
<1>10. CASE Replaces(w, p) /\ mailers[w].sent[p] \notin Standing(p)
  <2>1. Load(p) <= Excused + One(Edits(p))
    <3>1. Gone(p)
      BY <1>10 DEF Gone, Replaces
    <3>2. QED
      BY <3>1 DEF Balanced
  <2>2. QED
    BY <1>3, <1>5, <1>6, <2>1 DEF Balanced, One
<1>11. CASE ~Replaces(w, p)
  <2>1. board'.ids[p] = board.ids[p]
    BY <1>8, <1>11
  <2>2. Kept(p)' <=> Kept(p)
    BY <1>1, <1>3, <1>11, <2>1 DEF Kept, Replaces, Sent, Boards
  <2>3. Follows(p)' <=> Follows(p)
    BY <1>1, <1>4, <2>1 DEF Follows, Posters
  <2>4. QED
    BY <1>3, <1>5, <1>6, <1>7, <2>2, <2>3, BalanceStays DEF One
<1>12. QED
  BY <1>9, <1>10, <1>11

LEMMA BalanceStart ==
  ASSUME MailTypeOK, NEW p \in Members, Balanced(p), NEW w \in Mailers, ~AtWork(w),
         NEW t \in mails, Starts(w, t), t.do \in {"round", "final"},
         chats' = chats, board'.ids = board.ids
  PROVE  Balanced(p)'
<1>1. /\ \A v \in Mailers \ {w} : mailers'[v] = mailers[v]
      /\ mailers'[w].do = t.do /\ mailers'[w].ids = board.ids
      /\ mailers'[w].left = Audience(t) /\ DOMAIN mailers'[w].sent = {}
  BY StartsOne
<1>2. ~Boards(w) /\ Boards(w)' /\ w \notin Posters(p)
  BY <1>1 DEF Boards, AtWork, Posters
<1>3. Standing(p)' = Standing(p)
  BY DEF Standing
<1>4. Posters(p)' = IF p \in Audience(t) THEN Posters(p) \cup {w} ELSE Posters(p)
  BY <1>1, <1>2 DEF Posters, Boards
<1>5. /\ IsFiniteSet(Posters(p)) /\ Load(p) \in Nat /\ Excused \in Nat
      /\ Cardinality(Standing(p)) \in Nat /\ Cardinality(Posters(p)) \in Nat
  BY LoadTyped
<1>6. Cardinality(Posters(p)') = Cardinality(Posters(p)) + One(p \in Audience(t))
  <2>1. CASE p \in Audience(t)
    BY <1>2, <1>4, <1>5, <2>1, FS_AddElement DEF One
  <2>2. CASE p \notin Audience(t)
    BY <1>4, <1>5, <2>2 DEF One
  <2>3. QED
    BY <2>1, <2>2
<1>7. Load(p)' = Load(p) + One(p \in Audience(t)) /\ Load(p)' \in Nat
  <2>1. Load(p)' = Cardinality(Standing(p)) + (Cardinality(Posters(p)) + One(p \in Audience(t)))
    BY <1>3, <1>6 DEF Load
  <2>2. One(p \in Audience(t)) \in Nat
    BY DEF One
  <2>3. QED
    BY <1>5, <2>1, <2>2 DEF Load
<1>8. \A v \in Posters(p) : v \in Posters(p)' /\ mailers'[v] = mailers[v]
  <2>1. \A v \in Posters(p) : v \in Mailers \ {w}
    BY <1>2 DEF Posters
  <2>2. QED
    BY <1>1, <1>4, <2>1
<1>9. (Edits(p) => Edits(p)') /\ (Follows(p) => Follows(p)')
  BY <1>3, <1>8 DEF Edits, Follows
<1>10. Gone(p)' => Gone(p)
  BY <1>1, <1>3 DEF Gone, Sent, Boards
<1>11. Kept(p) <=> Kept(p)'
  BY <1>1, <1>2, <1>3 DEF Kept, Replaces, Sent, Boards
<1>12. CASE mishaps' = [mishaps EXCEPT !.overlaps = @ + 1]
  <2>1. Excused' = Excused + 1
    BY <1>12, TypeParts DEF Excused, Counts
  <2>2. QED
    BY <1>5, <1>7, <1>9, <1>10, <1>11, <2>1, BalanceStays DEF One
<1>13. CASE /\ mishaps' = mishaps
            /\ \A v \in Mailers : Family(mailers[v].do) # Family(t.do)
  <2>1. \A v \in Mailers : ~Boards(v)
    BY <1>13 DEF Family, Boards
  <2>2. Excused' = Excused
    BY <1>13 DEF Excused
  <2>3. ~Edits(p) /\ ~Follows(p) /\ ~Gone(p) /\ (Kept(p) <=> board.ids[p] \in Standing(p))
    BY <2>1 DEF Edits, Follows, Posters, Gone, Kept, Replaces, Sent
  <2>4. p \in Audience(t) => w \in Posters(p)' /\ Follows(p)' /\ (Kept(p) => Edits(p)')
    BY <1>1, <1>3, <1>4, <2>3 DEF Follows, Edits
  <2>5. /\ Load(p) <= Excused + 1
        /\ ~Kept(p) => Load(p) <= Excused
    BY <1>5, <2>3 DEF Balanced, One
  <2>6. Load(p)' <= Excused + 1 + One(Edits(p)')
    BY <1>5, <1>7, <2>4, <2>5 DEF One
  <2>7. ~Kept(p)' => Load(p)' <= Excused + One(Edits(p)' \/ Follows(p)')
    BY <1>5, <1>7, <1>11, <2>4, <2>5 DEF One
  <2>8. QED
    BY <1>10, <2>2, <2>3, <2>6, <2>7 DEF Balanced
<1>14. QED
  BY <1>12, <1>13 DEF Starts

-----------------------------------------------------------------------------
(* Reminders and pushes. *)

\* The reminders of the round are under way or done once it is stamped; a stamp that has
\* lapsed was counted, and makes room for the next.
Nudgers(p) == {w \in Mailers : mailers[w].do = "remind" /\ p \in mailers[w].left}
Due == mishaps.lapses + IF board.stamped \/ board.stage = 0 THEN board.stage ELSE board.stage - 1
Nudged(p) == chats[p].nudges + Cardinality(Nudgers(p)) <= Due
NudgesInv == \A p \in Members : Nudged(p)

PushesInv == \A p \in Members : chats[p].pushes <= mishaps.deaths + One(p \in board.pushed)

LEMMA NudgesTyped ==
  ASSUME MailTypeOK, NEW p \in Members
  PROVE  /\ IsFiniteSet(Nudgers(p)) /\ Cardinality(Nudgers(p)) \in Nat
         /\ chats[p].nudges \in Nat /\ chats[p].pushes \in Nat /\ chats[p].cards \in Nat
         /\ board.stage \in Nat /\ board.stamped \in BOOLEAN /\ mishaps.lapses \in Nat
         /\ Due \in Int
<1>1. Nudgers(p) \in SUBSET Mailers
  BY DEF Nudgers
<1>2. IsFiniteSet(Nudgers(p))
  BY <1>1, MailLimits, FS_Subset
<1>3. Cardinality(Nudgers(p)) \in Nat
  BY <1>2, FS_CardinalityType
<1>4. chats[p] \in ChatRows
  BY TypeParts
<1>5. board.stage \in 0..LastStage /\ board.stamped \in BOOLEAN /\ mishaps.lapses \in Nat
  BY TypeParts DEF BoardTyped, BoardRows, Counts
<1>6. QED
  BY <1>2, <1>3, <1>4, <1>5 DEF ChatRows, Due

LEMMA NudgesFewer ==
  ASSUME MailTypeOK, NEW p \in Members, Nudged(p), Nudgers(p)' \subseteq Nudgers(p),
         chats'[p].nudges = chats[p].nudges, Due' \in Int, Due <= Due'
  PROVE  Nudged(p)'
<1>1. IsFiniteSet(Nudgers(p)) /\ Cardinality(Nudgers(p)) \in Nat
      /\ chats[p].nudges \in Nat /\ Due \in Int
  BY NudgesTyped
<1>2. Cardinality(Nudgers(p)') <= Cardinality(Nudgers(p)) /\ Cardinality(Nudgers(p)') \in Nat
  BY <1>1, FS_Subset, FS_CardinalityType
<1>3. QED
  BY <1>1, <1>2 DEF Nudged

\* Nobody has more reminders to send than before.
LEMMA NudgesKept ==
  ASSUME MailTypeOK, NEW p \in Members, Nudged(p), chats'[p].nudges = chats[p].nudges,
         board'.stage = board.stage, board'.stamped = board.stamped,
         mishaps'.lapses = mishaps.lapses,
         \A w \in Mailers : mailers'[w].do = "remind" =>
           mailers[w].do = "remind" /\ mailers'[w].left \subseteq mailers[w].left
  PROVE  Nudged(p)'
<1>1. Nudgers(p)' \subseteq Nudgers(p)
  BY DEF Nudgers
<1>2. Due' = Due /\ Due \in Int
  BY NudgesTyped DEF Due
<1>3. QED
  BY <1>1, <1>2, NudgesFewer

LEMMA NudgesCommit ==
  ASSUME MailTypeOK, NEW p \in Members, Nudged(p), CommitMove
  PROVE  Nudged(p)'
<1>1. board.stage \in Nat /\ mishaps.lapses \in Nat /\ mishaps' = mishaps
  BY NudgesTyped DEF CommitMove
<1>2. board'.stage = board.stage + 1 /\ board'.stamped = FALSE
  BY TypeParts DEF CommitMove, BoardTyped, BoardRows
<1>3. Due' \in Int /\ Due <= Due'
  BY <1>1, <1>2 DEF Due
<1>4. Nudgers(p)' = Nudgers(p) /\ chats' = chats
  BY DEF CommitMove, Nudgers
<1>5. QED
  BY <1>3, <1>4, NudgesFewer

LEMMA NudgesLapse ==
  ASSUME MailTypeOK, NEW p \in Members, Nudged(p), StampLapses
  PROVE  Nudged(p)'
<1>1. board.stage \in Nat \ {0} /\ mishaps.lapses \in Nat /\ board.stamped
  BY NudgesTyped DEF StampLapses
<1>2. board'.stage = board.stage /\ board'.stamped = FALSE /\ mishaps'.lapses = mishaps.lapses + 1
  BY TypeParts DEF StampLapses, BoardTyped, BoardRows, Counts
<1>3. Due' \in Int /\ Due <= Due'
  BY <1>1, <1>2 DEF Due
<1>4. Nudgers(p)' = Nudgers(p) /\ chats' = chats
  BY DEF StampLapses, Nudgers
<1>5. QED
  BY <1>3, <1>4, NudgesFewer

LEMMA NudgesStart ==
  ASSUME MailTypeOK, NEW p \in Members, Nudged(p), NEW w \in Mailers, ~AtWork(w),
         NEW t \in mails, Starts(w, t), chats' = chats, Audience(t) # {},
         board' = IF Stamped(t) /\ Audience(t) # {} THEN [board EXCEPT !.stamped = TRUE] ELSE board
  PROVE  Nudged(p)'
<1>1. /\ \A v \in Mailers \ {w} : mailers'[v] = mailers[v]
      /\ mailers'[w].do = t.do /\ mailers'[w].left = Audience(t)
  BY StartsOne
<1>2. /\ IsFiniteSet(Nudgers(p)) /\ Cardinality(Nudgers(p)) \in Nat
      /\ chats[p].nudges \in Nat /\ board.stage \in Nat /\ Due \in Int
      /\ mishaps.lapses \in Nat /\ mishaps'.lapses = mishaps.lapses
  BY NudgesTyped, TypeParts DEF Starts, Counts
<1>3. CASE t.do # "remind"
  <2>1. board' = board
    BY <1>3 DEF Stamped
  <2>2. QED
    BY <1>1, <1>2, <1>3, <2>1, NudgesKept
<1>4. CASE t.do = "remind"
  <2>1. board.stage \in 1..(LastStage - 1) /\ ~board.stamped
    BY <1>4 DEF Audience
  <2>2. board'.stage = board.stage /\ board'.stamped
    BY <1>4, TypeParts DEF Stamped, BoardTyped, BoardRows
  <2>3. Due' = Due + 1
    BY <1>2, <2>1, <2>2 DEF Due
  <2>4. w \notin Nudgers(p)
    BY DEF Nudgers, AtWork
  <2>5. Nudgers(p)' \subseteq Nudgers(p) \cup {w}
    BY <1>1 DEF Nudgers
  <2>6. IsFiniteSet(Nudgers(p) \cup {w})
        /\ Cardinality(Nudgers(p) \cup {w}) = Cardinality(Nudgers(p)) + 1
    BY <1>2, <2>4, FS_AddElement
  <2>7. Cardinality(Nudgers(p)') <= Cardinality(Nudgers(p)) + 1 /\ Cardinality(Nudgers(p)') \in Nat
    BY <2>5, <2>6, FS_Subset, FS_CardinalityType
  <2>8. QED
    BY <1>2, <2>3, <2>7 DEF Nudged
<1>5. QED
  BY <1>3, <1>4

LEMMA NudgesSend ==
  ASSUME MailTypeOK, NEW q \in Members, Nudged(q), NEW w \in Mailers, mailers[w].do = "remind",
         NEW p \in mailers[w].left, Nudges(w, p)
  PROVE  Nudged(q)'
<1>1. AtWork(w) /\ Send(w, p, NoId) /\ board' = board /\ mishaps' = mishaps
  BY DEF AtWork, Nudges
<1>2. p \in Members
  BY <1>1, RestOrWork, JobFields
<1>3. /\ \A v \in Mailers \ {w} : mailers'[v] = mailers[v]
      /\ mailers'[w].do = mailers[w].do /\ mailers'[w].left = mailers[w].left \ {p}
  BY <1>1, <1>2, SendsOne
<1>4. CASE q # p
  <2>1. chats'[q].nudges = chats[q].nudges
    BY <1>4, TypeParts DEF Nudges
  <2>2. QED
    BY <1>1, <1>3, <2>1, NudgesKept
<1>5. CASE q = p
  <2>1. chats'[p].nudges = chats[p].nudges + 1
    BY <1>2, TypeParts DEF Nudges, ChatRows
  <2>2. Nudgers(p)' = Nudgers(p) \ {w} /\ w \in Nudgers(p)
    BY <1>3 DEF Nudgers
  <2>3. /\ IsFiniteSet(Nudgers(p)) /\ Cardinality(Nudgers(p)) \in Nat
        /\ chats[p].nudges \in Nat /\ Due \in Int
    BY <1>2, NudgesTyped
  <2>4. Cardinality(Nudgers(p)') = Cardinality(Nudgers(p)) - 1
    BY <2>2, <2>3, FS_RemoveElement
  <2>5. Due' = Due
    BY <1>1 DEF Due
  <2>6. QED
    BY <1>5, <2>1, <2>3, <2>4, <2>5 DEF Nudged
<1>6. QED
  BY <1>4, <1>5

\* Only a push, its claim or the death of a worker changes what is said of pushes.
LEMMA PushesKept ==
  ASSUME MailTypeOK, PushesInv, mishaps'.deaths \in Nat, mishaps.deaths <= mishaps'.deaths,
         board.pushed \subseteq board'.pushed,
         \A p \in Members : chats'[p].pushes = chats[p].pushes
  PROVE  PushesInv'
<1> SUFFICES ASSUME NEW p \in Members
             PROVE  chats'[p].pushes <= mishaps'.deaths + One(p \in board'.pushed)
  BY DEF PushesInv
<1>1. chats[p].pushes \in Nat /\ mishaps.deaths \in Nat
  BY TypeParts DEF ChatRows, Counts
<1>2. chats[p].pushes <= mishaps.deaths + One(p \in board.pushed)
  BY DEF PushesInv
<1>3. QED
  BY <1>1, <1>2 DEF One

LEMMA PushesSend ==
  ASSUME MailTypeOK, PushesInv, NEW w \in Mailers, NEW p \in Members, Pushes(w, p)
  PROVE  PushesInv'
<1> SUFFICES ASSUME NEW q \in Members
             PROVE  chats'[q].pushes <= mishaps'.deaths + One(q \in board'.pushed)
  BY DEF PushesInv
<1>1. chats[q].pushes \in Nat /\ mishaps.deaths \in Nat /\ mishaps' = mishaps
  BY TypeParts DEF ChatRows, Counts, Pushes
<1>2. chats[q].pushes <= mishaps.deaths + One(q \in board.pushed)
  BY DEF PushesInv
<1>3. board'.pushed = board.pushed \cup {p} /\ p \notin board.pushed
  BY TypeParts DEF Pushes, BoardTyped, BoardRows
<1>4. chats'[q].pushes = chats[q].pushes \/ (q = p /\ chats'[q].pushes = chats[q].pushes + 1)
  BY TypeParts DEF Pushes, ChatRows
<1>5. QED
  BY <1>1, <1>2, <1>3, <1>4 DEF One

LEMMA PushesDie ==
  ASSUME MailTypeOK, PushesInv, board' = board, mishaps'.deaths = mishaps.deaths + 1,
         chats' = chats \/ \E p \in Members : chats' = [chats EXCEPT ![p].pushes = @ + 1]
  PROVE  PushesInv'
<1> SUFFICES ASSUME NEW q \in Members
             PROVE  chats'[q].pushes <= mishaps'.deaths + One(q \in board'.pushed)
  BY DEF PushesInv
<1>1. chats[q].pushes \in Nat /\ mishaps.deaths \in Nat
  BY TypeParts DEF ChatRows, Counts
<1>2. chats[q].pushes <= mishaps.deaths + One(q \in board.pushed)
  BY DEF PushesInv
<1>3. chats'[q].pushes = chats[q].pushes \/ chats'[q].pushes = chats[q].pushes + 1
  BY TypeParts DEF ChatRows
<1>4. QED
  BY <1>1, <1>2, <1>3 DEF One

-----------------------------------------------------------------------------
(* The proof cards of the cup. *)

Paid == mishaps.deaths + mishaps.overlaps

\* The tasks that have still to send p a card, as far as they have read.
CardsFor(p) ==
  {w \in Mailers : mailers[w].do = "cards" /\ p \in mailers[w].left \ mailers[w].carded}

\* Neither stored nor on the way: p has no card but those that are paid for.
Cardless(p) ==
  /\ p \notin board.carded /\ CardsFor(p) = {}
  /\ \A w \in Mailers : mailers[w].do = "cards" => p \notin DOMAIN mailers[w].sent

CardsPaid(p) ==
  /\ chats[p].cards + Cardinality(CardsFor(p)) <= Paid + 1
  /\ Cardless(p) => chats[p].cards <= Paid

CardsInv == board.kind = "DAILY_ARENA" => \A p \in Members : CardsPaid(p)

LEMMA CardsTyped ==
  ASSUME MailTypeOK, NEW p \in Members
  PROVE  /\ IsFiniteSet(CardsFor(p)) /\ Cardinality(CardsFor(p)) \in Nat
         /\ chats[p].cards \in Nat /\ Paid \in Nat
<1>1. CardsFor(p) \in SUBSET Mailers
  BY DEF CardsFor
<1>2. IsFiniteSet(CardsFor(p))
  BY <1>1, MailLimits, FS_Subset
<1>3. Cardinality(CardsFor(p)) \in Nat
  BY <1>2, FS_CardinalityType
<1>4. QED
  BY <1>2, <1>3, TypeParts DEF ChatRows, Paid, Counts

LEMMA CardsKept ==
  ASSUME MailTypeOK, NEW p \in Members, CardsPaid(p), chats'[p].cards = chats[p].cards,
         Paid' \in Nat, Paid <= Paid', board'.carded = board.carded,
         \A w \in Mailers :
           /\ mailers'[w].do = "cards" <=> mailers[w].do = "cards"
           /\ mailers[w].do = "cards" =>
                /\ mailers'[w].carded = mailers[w].carded
                /\ p \in mailers'[w].left <=> p \in mailers[w].left
                /\ p \in DOMAIN mailers'[w].sent <=> p \in DOMAIN mailers[w].sent
  PROVE  CardsPaid(p)'
<1>1. CardsFor(p)' = CardsFor(p)
  BY DEF CardsFor
<1>2. Cardless(p)' => Cardless(p)
  BY <1>1 DEF Cardless
<1>3. Cardinality(CardsFor(p)) \in Nat /\ chats[p].cards \in Nat /\ Paid \in Nat
  BY CardsTyped
<1>4. QED
  BY <1>1, <1>2, <1>3 DEF CardsPaid

LEMMA CardsStop ==
  ASSUME MailTypeOK, NEW p \in Members, CardsPaid(p), NEW w \in Mailers, Frees(w),
         chats'[p].cards = chats[p].cards, Paid' \in Nat, Paid + 1 <= Paid'
  PROVE  CardsPaid(p)'
<1>1. mailers'[w].do = "rest" /\ \A v \in Mailers \ {w} : mailers'[v] = mailers[v]
  BY FreesOne
<1>2. CardsFor(p)' \subseteq CardsFor(p)
  BY <1>1 DEF CardsFor
<1>3. /\ IsFiniteSet(CardsFor(p)) /\ Cardinality(CardsFor(p)) \in Nat
      /\ chats[p].cards \in Nat /\ Paid \in Nat
  BY CardsTyped
<1>4. Cardinality(CardsFor(p)') <= Cardinality(CardsFor(p)) /\ Cardinality(CardsFor(p)') \in Nat
  BY <1>2, <1>3, FS_Subset, FS_CardinalityType
<1>5. QED
  BY <1>3, <1>4 DEF CardsPaid

\* A task that passes over a player, or sends him his card.
LEMMA CardsTurn ==
  ASSUME MailTypeOK, NEW q \in Members, CardsPaid(q), board.kind = "DAILY_ARENA",
         NEW w \in Mailers, mailers[w].do = "cards", NEW p \in mailers[w].left,
         Skips(w, p) \/ SendsCard(w, p)
  PROVE  CardsPaid(q)'
<1> DEFINE id == IF Skips(w, p) THEN NoId ELSE 1
<1>1. AtWork(w) /\ Send(w, p, id) /\ id \in Nat \cup {NoId} /\ board' = board /\ mishaps' = mishaps
  BY DEF AtWork, Skips, SendsCard
<1>2. id # NoId <=> ~Skips(w, p)
  BY MailLimits
<1> HIDE DEF id
<1>3. p \in Members
  BY <1>1, RestOrWork, JobFields
<1>4. /\ \A v \in Mailers \ {w} : mailers'[v] = mailers[v]
      /\ mailers'[w].do = mailers[w].do /\ mailers'[w].carded = mailers[w].carded
      /\ mailers'[w].left = mailers[w].left \ {p}
      /\ id = NoId => mailers'[w].sent = mailers[w].sent
      /\ id # NoId => DOMAIN mailers'[w].sent = DOMAIN mailers[w].sent \cup {p}
  BY <1>1, <1>3, SendsOne
<1>5. Paid' = Paid /\ Paid \in Nat
  BY <1>1, <1>3, CardsTyped DEF Paid
<1>6. CASE q # p
  <2>1. chats'[q].cards = chats[q].cards
    BY <1>6, TypeParts DEF Skips, SendsCard
  <2>2. p # q /\ (q \in DOMAIN mailers'[w].sent <=> q \in DOMAIN mailers[w].sent)
    BY <1>4, <1>6
  <2>3. \A v \in Mailers :
           /\ mailers'[v].do = "cards" <=> mailers[v].do = "cards"
           /\ mailers[v].do = "cards" =>
                /\ mailers'[v].carded = mailers[v].carded
                /\ q \in mailers'[v].left <=> q \in mailers[v].left
                /\ q \in DOMAIN mailers'[v].sent <=> q \in DOMAIN mailers[v].sent
    BY <1>4, <1>6, <2>2
  <2>4. QED
    BY <1>1, <1>5, <2>1, <2>3, CardsKept
<1>7. CASE q = p
  <2>1. CardsFor(p)' = CardsFor(p) \ {w}
    BY <1>4 DEF CardsFor
  <2>2. /\ IsFiniteSet(CardsFor(p)) /\ Cardinality(CardsFor(p)) \in Nat /\ chats[p].cards \in Nat
    BY <1>3, CardsTyped
  <2>3. Cardinality(CardsFor(p)') = Cardinality(CardsFor(p)) - One(w \in CardsFor(p))
        /\ Cardinality(CardsFor(p)') \in Nat
    BY <2>1, <2>2, FS_RemoveElement, FS_CardinalityType DEF One
  <2>4. CASE Skips(w, p)
    <3>1. chats' = chats /\ mailers'[w].sent = mailers[w].sent
      BY <1>2, <1>4, <2>4 DEF Skips
    <3>2. CASE w \in CardsFor(p)
      BY <1>5, <1>7, <2>2, <2>3, <3>1, <3>2 DEF CardsPaid, One
    <3>3. CASE w \notin CardsFor(p)
      <4>1. Cardless(p)' => Cardless(p)
        BY <1>1, <1>4, <2>1, <3>1, <3>3 DEF Cardless
      <4>2. QED
        BY <1>5, <1>7, <2>2, <2>3, <3>1, <3>3, <4>1 DEF CardsPaid, One
    <3>4. QED
      BY <3>2, <3>3
  <2>5. CASE ~Skips(w, p)
    <3>1. chats'[p].cards = chats[p].cards + 1 /\ w \in CardsFor(p)
      BY <1>3, <2>5, TypeParts DEF SendsCard, CardsFor, ChatRows
    <3>2. ~Cardless(p)'
      BY <1>2, <1>4, <2>5 DEF Cardless
    <3>3. QED
      BY <1>5, <1>7, <2>2, <2>3, <3>1, <3>2 DEF CardsPaid, One
  <2>6. QED
    BY <2>4, <2>5
<1>8. QED
  BY <1>6, <1>7

LEMMA CardsStore ==
  ASSUME MailTypeOK, NEW p \in Members, CardsPaid(p), NEW w \in Mailers,
         mailers[w].do = "cards", StoreMail(w)
  PROVE  CardsPaid(p)'
<1>1. /\ \A v \in Mailers \ {w} : mailers'[v] = mailers[v]
      /\ mailers'[w].do = "rest"
  BY TypeStore, FreesOne
<1>2. /\ board'.carded = board.carded \cup DOMAIN mailers[w].sent
      /\ chats' = chats /\ mishaps' = mishaps /\ mailers[w].left = {}
  BY DEF StoreMail, MailTypeOK, BoardRows
<1>3. CardsFor(p)' = CardsFor(p)
  BY <1>1, <1>2 DEF CardsFor
<1>4. Cardless(p)' => Cardless(p)
  BY <1>1, <1>2, <1>3 DEF Cardless
<1>5. Paid' = Paid
  BY <1>2 DEF Paid
<1>6. QED
  BY <1>2, <1>3, <1>4, <1>5 DEF CardsPaid

LEMMA CardsStart ==
  ASSUME MailTypeOK, NEW p \in Members, CardsPaid(p), NEW w \in Mailers, ~AtWork(w),
         NEW t \in mails, Starts(w, t), t.do = "cards", chats' = chats, board'.carded = board.carded
  PROVE  CardsPaid(p)'
<1>1. /\ \A v \in Mailers \ {w} : mailers'[v] = mailers[v]
      /\ mailers'[w].do = t.do /\ mailers'[w].carded = board.carded
      /\ mailers'[w].left = Audience(t) /\ DOMAIN mailers'[w].sent = {}
  BY StartsOne
<1>2. /\ IsFiniteSet(CardsFor(p)) /\ Cardinality(CardsFor(p)) \in Nat
      /\ chats[p].cards \in Nat /\ Paid \in Nat
  BY CardsTyped
<1>3. w \notin CardsFor(p) /\ mailers[w].do # "cards"
  BY DEF CardsFor, AtWork
<1>4. CardsFor(p)' = IF p \in Audience(t) \ board.carded THEN CardsFor(p) \cup {w} ELSE CardsFor(p)
  BY <1>1, <1>3 DEF CardsFor
<1>5. Cardinality(CardsFor(p)') = Cardinality(CardsFor(p)) + One(p \in Audience(t) \ board.carded)
  <2>1. CASE p \in Audience(t) \ board.carded
    BY <1>2, <1>3, <1>4, <2>1, FS_AddElement DEF One
  <2>2. CASE p \notin Audience(t) \ board.carded
    BY <1>2, <1>4, <2>2 DEF One
  <2>3. QED
    BY <2>1, <2>2
<1>6. Cardless(p)' => Cardless(p)
  <2>1. SUFFICES ASSUME Cardless(p)' PROVE Cardless(p)
    OBVIOUS
  <2>2. p \notin board.carded /\ CardsFor(p) = {}
    BY <1>4, <2>1 DEF Cardless
  <2>3. ASSUME NEW v \in Mailers, mailers[v].do = "cards" PROVE p \notin DOMAIN mailers[v].sent
    BY <1>1, <1>3, <2>1, <2>3 DEF Cardless
  <2>4. QED
    BY <2>2, <2>3 DEF Cardless
<1>7. CASE mishaps' = [mishaps EXCEPT !.overlaps = @ + 1]
  <2>1. Paid' = Paid + 1
    BY <1>7, TypeParts DEF Paid, Counts
  <2>2. QED
    BY <1>2, <1>5, <1>6, <2>1 DEF CardsPaid, One
<1>8. CASE mishaps' = mishaps /\ \A v \in Mailers : Family(mailers[v].do) # Family(t.do)
  <2>1. \A v \in Mailers : mailers[v].do # "cards"
    BY <1>8
  <2>2. CardsFor(p) = {} /\ (p \notin board.carded => Cardless(p))
    BY <2>1 DEF CardsFor, Cardless
  <2>3. Paid' = Paid
    BY <1>8 DEF Paid
  <2>4. Cardinality(CardsFor(p)) = 0
    BY <2>2, FS_EmptySet
  <2>5. p \in Audience(t) \ board.carded => chats[p].cards <= Paid
    BY <2>2 DEF CardsPaid
  <2>6. chats[p].cards + Cardinality(CardsFor(p)) <= Paid + 1 /\ (Cardless(p) => chats[p].cards <= Paid)
    BY DEF CardsPaid
  <2>7. chats'[p].cards + Cardinality(CardsFor(p)') <= Paid' + 1
    BY <1>2, <1>5, <2>3, <2>4, <2>5, <2>6 DEF One
  <2>8. QED
    BY <1>6, <2>3, <2>6, <2>7 DEF CardsPaid
<1>9. QED
  BY <1>7, <1>8 DEF Starts

-----------------------------------------------------------------------------
(* The invariant. *)

BoardsInv == IdsInv /\ StageInv /\ LoadInv
MailInv == MailTypeOK /\ BoardsInv /\ CardsInv /\ PushesInv /\ NudgesInv

LEMMA CountsNat ==
  /\ mishaps \in Counts => Excused \in Nat /\ Paid \in Nat
  /\ mishaps' \in Counts => Excused' \in Nat /\ Paid' \in Nat
BY DEF Counts, Excused, Paid

\* The boards are as they were when only a worker moves that has nothing to do with them.
LEMMA BoardsElsewhere ==
  ASSUME MailTypeOK, BoardsInv, Excused' \in Nat, Excused <= Excused', board'.ids = board.ids,
         \A p \in Members : chats'[p].boards = chats[p].boards,
         \A w \in Mailers : \/ mailers'[w] = mailers[w]
                            \/ ~Boards(w) /\ ~Boards(w)'
  PROVE  BoardsInv'
<1>1. \A w \in Mailers : /\ Boards(w)' <=> Boards(w)
                         /\ Boards(w) => mailers'[w] = mailers[w]
  BY DEF Boards
<1>2. IdsInv'
  BY <1>1, IdsStay DEF BoardsInv
<1>3. StageInv'
  BY <1>1 DEF BoardsInv, StageInv
<1>4. \A p \in Members : SameWorkers(p)
  BY <1>1 DEF SameWorkers
<1>5. LoadInv'
  BY <1>4, NothingNew DEF BoardsInv, LoadInv
<1>6. QED
  BY <1>2, <1>3, <1>5 DEF BoardsInv

\* So are the cards.
LEMMA CardsElsewhere ==
  ASSUME MailTypeOK, CardsInv, Paid' \in Nat, Paid <= Paid', board'.kind = board.kind,
         board'.carded = board.carded, \A p \in Members : chats'[p].cards = chats[p].cards,
         \A w \in Mailers : \/ mailers'[w] = mailers[w]
                            \/ mailers[w].do # "cards" /\ mailers'[w].do # "cards"
  PROVE  CardsInv'
BY CardsKept DEF CardsInv

\* Nothing moves but the tournament and the queue.
LEMMA QuietHolds ==
  ASSUME MailInv, MailTypeOK', UNCHANGED <<chats, mailers>>, board'.ids = board.ids,
         board'.kind = board.kind, board'.carded = board.carded, board'.pushed = board.pushed,
         mishaps'.deaths >= mishaps.deaths, mishaps'.overlaps = mishaps.overlaps,
         mishaps'.failures = mishaps.failures, NudgesInv'
  PROVE  MailInv'
<1>1. mishaps \in Counts /\ mishaps' \in Counts
  BY TypeParts DEF MailInv, MailTypeOK, Counts
<1>2. Excused' \in Nat /\ Excused <= Excused' /\ Paid' \in Nat /\ Paid <= Paid'
      /\ mishaps'.deaths \in Nat /\ mishaps.deaths <= mishaps'.deaths
  BY <1>1 DEF Excused, Paid, Counts
<1>3. BoardsInv'
  BY <1>2, BoardsElsewhere DEF MailInv
<1>4. CardsInv'
  BY <1>2, CardsElsewhere DEF MailInv
<1>5. PushesInv'
  BY <1>2, PushesKept DEF MailInv
<1>6. QED
  BY <1>3, <1>4, <1>5 DEF MailInv

LEMMA MovesHold ==
  ASSUME MailInv, OpenMove \/ CommitMove \/ Announce \/ Forget \/ PublishFinal \/ StampLapses
  PROVE  MailInv'
<1>1. MailTypeOK' /\ board \in BoardRows /\ mishaps \in Counts
  BY TypeMoves, TypeParts DEF MailInv, MailTypeOK
<1>2. UNCHANGED <<chats, mailers>>
  BY DEF OpenMove, CommitMove, Announce, Forget, PublishFinal, StampLapses
<1>3. /\ board'.ids = board.ids /\ board'.kind = board.kind
      /\ board'.carded = board.carded /\ board'.pushed = board.pushed
  BY <1>1 DEF OpenMove, CommitMove, Announce, Forget, PublishFinal, StampLapses, BoardRows
<1>4. /\ mishaps'.deaths >= mishaps.deaths /\ mishaps'.overlaps = mishaps.overlaps
      /\ mishaps'.failures = mishaps.failures
  BY <1>1 DEF OpenMove, CommitMove, Announce, Forget, PublishFinal, StampLapses, Counts
<1>5. NudgesInv'
  <2>1. CASE CommitMove
    BY <2>1, NudgesCommit DEF MailInv, NudgesInv
  <2>2. CASE StampLapses
    BY <2>2, NudgesLapse DEF MailInv, NudgesInv
  <2>3. CASE OpenMove \/ Announce \/ Forget \/ PublishFinal
    <3>1. board'.stage = board.stage /\ board'.stamped = board.stamped
      BY <1>1, <2>3 DEF OpenMove, Announce, Forget, PublishFinal, BoardRows
    <3>2. mishaps'.lapses = mishaps.lapses
      BY <1>1, <2>3 DEF OpenMove, Announce, Forget, PublishFinal, Counts
    <3>3. QED
      BY <1>2, <3>1, <3>2, NudgesKept DEF MailInv, NudgesInv
  <2>4. QED
    BY <2>1, <2>2, <2>3
<1>6. QED
  BY <1>1, <1>2, <1>3, <1>4, <1>5, QuietHolds

LEMMA RequestedHolds ==
  ASSUME MailInv, Requested
  PROVE  MailInv'
<1>1. PICK tasks \in SUBSET Tasks : Asks(tasks) /\ UNCHANGED <<board, chats, mailers>>
  BY RequestedAsks
<1>2. MailTypeOK' /\ mishaps' = [mishaps EXCEPT !.extras = @ + 1] /\ mishaps \in Counts
  BY <1>1, AsksTyped, TypeParts DEF MailInv
<1>3. /\ mishaps'.deaths >= mishaps.deaths /\ mishaps'.overlaps = mishaps.overlaps
      /\ mishaps'.failures = mishaps.failures /\ mishaps'.lapses = mishaps.lapses
  BY <1>2 DEF Counts
<1>4. NudgesInv'
  BY <1>1, <1>3, NudgesKept DEF MailInv, NudgesInv
<1>5. QED
  BY <1>1, <1>2, <1>3, <1>4, QuietHolds

LEMMA StutterHolds ==
  ASSUME MailInv, UNCHANGED mailVars
  PROVE  MailInv'
<1>1. UNCHANGED <<board, chats, mails, mailers, mishaps>>
  BY DEF mailVars
<1>2. MailTypeOK' /\ mishaps \in Counts
  BY <1>1, TypeParts, TypesAgain DEF MailInv, BoardTyped, Over, MailersTyped
<1>3. NudgesInv'
  BY <1>1, NudgesKept DEF MailInv, NudgesInv
<1>4. mishaps'.deaths >= mishaps.deaths
  BY <1>1, <1>2 DEF Counts
<1>5. QED
  BY <1>1, <1>2, <1>3, <1>4, QuietHolds

LEMMA BeginHolds ==
  ASSUME MailInv, NEW w \in Mailers, BeginMail(w)
  PROVE  MailInv'
<1>1. MailTypeOK /\ MailTypeOK' /\ chats' = chats /\ ~AtWork(w) /\ mishaps \in Counts /\ mishaps' \in Counts
  BY TypeBegin, TypeParts DEF MailInv, MailTypeOK, Counts
<1>2. PICK t \in mails :
        /\ board' = IF Stamped(t) /\ Audience(t) # {} THEN [board EXCEPT !.stamped = TRUE] ELSE board
        /\ IF Audience(t) = {} THEN UNCHANGED <<mailers, mishaps>> ELSE Starts(w, t)
  BY TypeBegin DEF MailInv
<1>3. /\ board'.ids = board.ids /\ board'.kind = board.kind
      /\ board'.carded = board.carded /\ board'.pushed = board.pushed
  BY <1>1, <1>2, TypeParts DEF BoardTyped, BoardRows
<1>4. CASE Audience(t) = {}
  <2>1. UNCHANGED <<board, mailers, mishaps>>
    BY <1>2, <1>4
  <2>2. NudgesInv'
    BY <1>1, <2>1, NudgesKept DEF MailInv, NudgesInv
  <2>3. mishaps'.deaths >= mishaps.deaths
    BY <1>1, <2>1 DEF Counts
  <2>4. QED
    BY <1>1, <2>1, <2>2, <2>3, QuietHolds
<1>5. CASE Audience(t) # {}
  <2>1. Starts(w, t)
    BY <1>2, <1>5
  <2>2. /\ \A v \in Mailers \ {w} : mailers'[v] = mailers[v]
        /\ mailers'[w].do = t.do /\ mailers'[w].stage = board.stage /\ t \in Tasks
    BY <1>1, <2>1, StartsOne, TypeParts
  <2>3. /\ Excused \in Nat /\ Excused' \in Nat /\ Excused <= Excused'
        /\ Paid \in Nat /\ Paid' \in Nat /\ Paid <= Paid'
        /\ mishaps'.deaths \in Nat /\ mishaps.deaths <= mishaps'.deaths
    <3>1. mishaps' = mishaps \/ mishaps' = [mishaps EXCEPT !.overlaps = mishaps.overlaps + 1]
      BY <2>1 DEF Starts
    <3>2. mishaps.deaths \in Nat /\ mishaps.overlaps \in Nat /\ mishaps.failures \in Nat
      BY <1>1 DEF Counts
    <3>3. /\ mishaps'.deaths = mishaps.deaths /\ mishaps'.failures = mishaps.failures
          /\ mishaps'.overlaps \in {mishaps.overlaps, mishaps.overlaps + 1}
      BY <1>1, <3>1 DEF Counts
    <3>4. QED
      BY <3>2, <3>3 DEF Excused, Paid
  <2>4. BoardsInv'
    <3>1. CASE t.do \in {"round", "final"}
      <4>1. IdsInv'
        BY <1>1, <1>3, <2>1, IdsStart DEF MailInv, BoardsInv
      <4>2. board.stage # 0
        BY <1>1, <1>5, <3>1, NudgesTyped DEF Audience
      <4>3. StageInv'
        BY <2>2, <4>2 DEF MailInv, BoardsInv, StageInv, Boards
      <4>4. LoadInv'
        BY <1>1, <1>3, <2>1, <3>1, BalanceStart DEF MailInv, BoardsInv, LoadInv
      <4>5. QED
        BY <4>1, <4>3, <4>4 DEF BoardsInv
    <3>2. CASE t.do \notin {"round", "final"}
      <4>1. ~Boards(w) /\ ~Boards(w)'
        BY <1>1, <2>2, <3>2 DEF Boards, AtWork
      <4>2. \A v \in Mailers : mailers'[v] = mailers[v] \/ (~Boards(v) /\ ~Boards(v)')
        BY <2>2, <4>1
      <4>3. QED
        BY <1>1, <1>3, <2>3, <4>2, BoardsElsewhere DEF MailInv
    <3>3. QED
      BY <3>1, <3>2
  <2>5. CardsInv'
    <3>1. CASE t.do = "cards"
      BY <1>1, <1>3, <2>1, <3>1, CardsStart DEF MailInv, CardsInv
    <3>2. CASE t.do # "cards"
      <4>1. \A v \in Mailers : \/ mailers'[v] = mailers[v]
                               \/ mailers[v].do # "cards" /\ mailers'[v].do # "cards"
        BY <1>1, <2>2, <3>2 DEF AtWork
      <4>2. QED
        BY <1>1, <1>3, <2>3, <4>1, CardsElsewhere DEF MailInv
    <3>3. QED
      BY <3>1, <3>2
  <2>6. PushesInv'
    BY <1>1, <1>3, <2>3, PushesKept DEF MailInv
  <2>7. NudgesInv'
    BY <1>1, <1>2, <1>5, <2>1, NudgesStart DEF MailInv, NudgesInv
  <2>8. QED
    BY <1>1, <2>4, <2>5, <2>6, <2>7 DEF MailInv
<1>6. QED
  BY <1>4, <1>5

\* A worker that stops for good leaves nothing behind that is not paid for.
LEMMA StopHolds ==
  ASSUME MailInv, MailTypeOK', NEW w \in Mailers, AtWork(w), Frees(w), board' = board,
         mishaps'.lapses = mishaps.lapses, Excused + 1 <= Excused',
         \/ Paid + 1 <= Paid'
         \/ Paid <= Paid' /\ Boards(w),
         PushesInv',
         \A p \in Members : /\ chats'[p].boards = chats[p].boards
                            /\ chats'[p].cards = chats[p].cards
                            /\ chats'[p].nudges = chats[p].nudges
  PROVE  MailInv'
<1>1. MailTypeOK /\ mishaps \in Counts /\ mishaps' \in Counts
  BY TypeParts DEF MailInv, MailTypeOK, Counts
<1>2. Excused \in Nat /\ Excused' \in Nat /\ Paid \in Nat /\ Paid' \in Nat
  BY <1>1, CountsNat
<1>3. mailers'[w].do = "rest" /\ \A v \in Mailers \ {w} : mailers'[v] = mailers[v]
  BY <1>1, FreesOne
<1>4. IdsInv'
  <2>1. \A v \in Mailers : Boards(v)' => Boards(v) /\ mailers'[v] = mailers[v]
    BY <1>3 DEF Boards
  <2>2. QED
    BY <2>1, IdsStay DEF MailInv, BoardsInv
<1>5. StageInv'
  BY <1>3 DEF MailInv, BoardsInv, StageInv, Boards
<1>6. LoadInv'
  BY <1>1, <1>2, BalanceStop DEF MailInv, BoardsInv, LoadInv
<1>7. CardsInv'
  <2>1. CASE Paid + 1 <= Paid'
    BY <1>1, <1>2, <2>1, CardsStop DEF MailInv, CardsInv
  <2>2. CASE Paid <= Paid' /\ Boards(w)
    <3>1. mailers[w].do # "cards"
      BY <2>2 DEF Boards
    <3>2. \A v \in Mailers : \/ mailers'[v] = mailers[v]
                             \/ mailers[v].do # "cards" /\ mailers'[v].do # "cards"
      BY <1>3, <3>1
    <3>3. QED
      BY <1>1, <1>2, <2>2, <3>2, CardsElsewhere DEF MailInv
  <2>3. QED
    BY <2>1, <2>2
<1>8. NudgesInv'
  <2>1. \A v \in Mailers : mailers'[v].do = "remind" => mailers'[v] = mailers[v]
    BY <1>3
  <2>2. QED
    BY <1>1, <2>1, NudgesKept DEF MailInv, NudgesInv
<1>9. QED
  BY <1>4, <1>5, <1>6, <1>7, <1>8 DEF MailInv, BoardsInv

LEMMA DiesHolds ==
  ASSUME MailInv, NEW w \in Mailers, MailerDies(w) \/ PusherDies(w)
  PROVE  MailInv'
<1>1. /\ MailTypeOK /\ MailTypeOK' /\ AtWork(w) /\ Frees(w) /\ board' = board
      /\ mishaps'.deaths = mishaps.deaths + 1 /\ mishaps'.overlaps = mishaps.overlaps
      /\ mishaps'.failures = mishaps.failures
      /\ \/ chats' = chats
         \/ \E p \in Members : chats' = [chats EXCEPT ![p].pushes = @ + 1]
  BY TypeDies DEF MailInv
<1>2. mishaps \in Counts /\ mishaps'.lapses = mishaps.lapses
  BY <1>1, TypeParts DEF MailerDies, PusherDies, Counts
<1>3. Excused + 1 <= Excused' /\ Paid + 1 <= Paid'
  BY <1>1, <1>2 DEF Excused, Paid, Counts
<1>4. PushesInv'
  BY <1>1, PushesDie DEF MailInv
<1>5. \A p \in Members : /\ chats'[p].boards = chats[p].boards
                         /\ chats'[p].cards = chats[p].cards
                         /\ chats'[p].nudges = chats[p].nudges
  BY <1>1, TypeParts, SMTT(30) DEF ChatRows
<1>6. QED
  BY <1>1, <1>2, <1>3, <1>4, <1>5, StopHolds

LEMMA StoreHolds ==
  ASSUME MailInv, NEW w \in Mailers, StoreMail(w)
  PROVE  MailInv'
<1>1. MailTypeOK /\ MailTypeOK' /\ AtWork(w) /\ Frees(w) /\ chats' = chats /\ mishaps' = mishaps
  BY TypeStore DEF MailInv, StoreMail
<1>2. mailers'[w].do = "rest" /\ \A v \in Mailers \ {w} : mailers'[v] = mailers[v]
  BY <1>1, FreesOne
<1>3. /\ board'.kind = board.kind /\ board'.pushed = board.pushed
      /\ board'.stage = board.stage /\ board'.stamped = board.stamped
      /\ ~Boards(w) => board'.ids = board.ids
      /\ mailers[w].do # "cards" => board'.carded = board.carded
  BY <1>1, TypeParts DEF StoreMail, Boards, BoardTyped, BoardRows
<1>4. /\ Excused' = Excused /\ Paid' = Paid /\ Excused \in Nat /\ Paid \in Nat
      /\ mishaps.deaths \in Nat /\ mishaps'.deaths = mishaps.deaths
  BY <1>1, TypeParts, CountsNat DEF Excused, Paid, Counts
<1>5. BoardsInv'
  <2>1. CASE Boards(w)
    <3>1. IdsInv'
      BY <1>1, <2>1, IdsStore DEF MailInv, BoardsInv
    <3>2. StageInv'
      BY <1>2 DEF MailInv, BoardsInv, StageInv, Boards
    <3>3. LoadInv'
      BY <1>1, <2>1, BalanceStore DEF MailInv, BoardsInv, LoadInv
    <3>4. QED
      BY <3>1, <3>2, <3>3 DEF BoardsInv
  <2>2. CASE ~Boards(w)
    <3>1. ~Boards(w)'
      BY <1>2 DEF Boards
    <3>2. \A v \in Mailers : mailers'[v] = mailers[v] \/ (~Boards(v) /\ ~Boards(v)')
      BY <1>2, <2>2, <3>1
    <3>3. QED
      BY <1>1, <1>3, <1>4, <2>2, <3>2, BoardsElsewhere DEF MailInv
  <2>3. QED
    BY <2>1, <2>2
<1>6. CardsInv'
  <2>1. CASE mailers[w].do = "cards"
    BY <1>1, <1>3, <2>1, CardsStore DEF MailInv, CardsInv
  <2>2. CASE mailers[w].do # "cards"
    <3>1. \A v \in Mailers : \/ mailers'[v] = mailers[v]
                             \/ mailers[v].do # "cards" /\ mailers'[v].do # "cards"
      BY <1>2, <2>2
    <3>2. QED
      BY <1>1, <1>3, <1>4, <2>2, <3>1, CardsElsewhere DEF MailInv
  <2>3. QED
    BY <2>1, <2>2
<1>7. PushesInv'
  BY <1>1, <1>3, <1>4, PushesKept DEF MailInv
<1>8. NudgesInv'
  <2>1. \A v \in Mailers : mailers'[v].do = "remind" => mailers'[v] = mailers[v]
    BY <1>2
  <2>2. QED
    BY <1>1, <1>3, <2>1, NudgesKept DEF MailInv, NudgesInv
<1>9. QED
  BY <1>1, <1>5, <1>6, <1>7, <1>8 DEF MailInv

LEMMA DeletesHolds ==
  ASSUME MailInv, NEW p \in Members, PlayerDeletes(p)
  PROVE  MailInv'
<1>1. MailTypeOK /\ MailTypeOK' /\ mishaps \in Counts
  BY TypeDeletes, TypeParts DEF MailInv
<1>2. PICK i \in DOMAIN chats[p].boards : Deletes(p, i)
  BY TypeDeletes DEF MailInv
<1>3. board' = board /\ mailers' = mailers
  BY <1>2 DEF Deletes
<1>4. /\ mishaps'.deaths = mishaps.deaths /\ mishaps.deaths \in Nat
      /\ Paid' = Paid /\ Paid \in Nat /\ mishaps'.lapses = mishaps.lapses
  BY <1>1, <1>2 DEF Deletes, Paid, Counts
<1>5. \A q \in Members : /\ DOMAIN chats'[q].boards = DOMAIN chats[q].boards
                         /\ chats'[q].cards = chats[q].cards
                         /\ chats'[q].nudges = chats[q].nudges
                         /\ chats'[q].pushes = chats[q].pushes
  BY <1>1, <1>2, TypeParts DEF Deletes, ChatRows
<1>6. IdsInv'
  BY <1>3, <1>5, IdsStay DEF MailInv, BoardsInv, Boards
<1>7. StageInv'
  BY <1>3 DEF MailInv, BoardsInv, StageInv, Boards
<1>8. LoadInv'
  BY <1>1, <1>2, BalanceDeletes DEF MailInv, BoardsInv, LoadInv
<1>9. CardsInv'
  BY <1>1, <1>3, <1>4, <1>5, CardsElsewhere DEF MailInv
<1>10. PushesInv'
  BY <1>1, <1>3, <1>4, <1>5, PushesKept DEF MailInv
<1>11. NudgesInv'
  BY <1>1, <1>3, <1>4, <1>5, NudgesKept DEF MailInv, NudgesInv
<1>12. QED
  BY <1>1, <1>6, <1>7, <1>8, <1>9, <1>10, <1>11 DEF MailInv, BoardsInv

\* A message of one kind leaves what is counted of the others.
LEMMA OneKind ==
  ASSUME MailTypeOK, NEW p \in Members, NEW q \in Members
  PROVE  /\ chats' = [chats EXCEPT ![p].cards = @ + 1] =>
              /\ chats'[q].boards = chats[q].boards /\ chats'[q].pushes = chats[q].pushes
              /\ chats'[q].nudges = chats[q].nudges
         /\ chats' = [chats EXCEPT ![p].pushes = @ + 1] =>
              /\ chats'[q].boards = chats[q].boards /\ chats'[q].cards = chats[q].cards
              /\ chats'[q].nudges = chats[q].nudges
         /\ chats' = [chats EXCEPT ![p].nudges = @ + 1] =>
              /\ chats'[q].boards = chats[q].boards /\ chats'[q].cards = chats[q].cards
              /\ chats'[q].pushes = chats[q].pushes
         /\ \A b : chats' = [chats EXCEPT ![p].boards = b] =>
              /\ chats'[q].cards = chats[q].cards /\ chats'[q].pushes = chats[q].pushes
              /\ chats'[q].nudges = chats[q].nudges
              /\ chats'[q].boards = IF q = p THEN b ELSE chats[q].boards
<1>1. chats \in [Members -> ChatRows] /\ chats[q] \in ChatRows /\ chats[p] \in ChatRows
  BY TypeParts
<1>2. CASE q = p
  BY <1>1, <1>2 DEF ChatRows
<1>3. CASE q # p
  BY <1>1, <1>3
<1>4. QED
  BY <1>2, <1>3

\* A worker that turns to a player, for whom it has no board.
LEMMA OtherPostHolds ==
  ASSUME MailInv, MailTypeOK', NEW w \in Mailers, AtWork(w), ~Boards(w),
         NEW p \in mailers[w].left,
         \/ Skips(w, p)
         \/ mailers[w].do = "cards" /\ SendsCard(w, p)
         \/ mailers[w].do = "push" /\ Pushes(w, p)
         \/ mailers[w].do = "remind" /\ Nudges(w, p)
  PROVE  MailInv'
<1>1. MailTypeOK /\ mishaps' = mishaps /\ mishaps \in Counts
  BY TypeParts DEF MailInv, Skips, SendsCard, Pushes, Nudges
<1>2. p \in Members
  BY <1>1, RestOrWork, JobFields
<1>3. PICK id \in Nat \cup {NoId} : Send(w, p, id)
  BY DEF Skips, SendsCard, Pushes, Nudges
<1>4. /\ \A v \in Mailers \ {w} : mailers'[v] = mailers[v]
      /\ mailers'[w].do = mailers[w].do /\ mailers'[w].left = mailers[w].left \ {p}
  BY <1>1, <1>2, <1>3, SendsOne
<1>5. /\ board'.ids = board.ids /\ board'.kind = board.kind /\ board'.carded = board.carded
      /\ board'.stage = board.stage /\ board'.stamped = board.stamped
      /\ ~Pushes(w, p) => board'.pushed = board.pushed
  BY <1>1, TypeParts DEF Skips, SendsCard, Pushes, Nudges, BoardTyped, BoardRows
<1>6. /\ Excused' = Excused /\ Paid' = Paid /\ Excused \in Nat /\ Paid \in Nat
      /\ mishaps.deaths \in Nat /\ mishaps'.deaths = mishaps.deaths
  BY <1>1, CountsNat DEF Excused, Paid, Counts
<1>7. \A q \in Members :
        /\ chats'[q].boards = chats[q].boards
        /\ ~SendsCard(w, p) => chats'[q].cards = chats[q].cards
        /\ ~Pushes(w, p) => chats'[q].pushes = chats[q].pushes
        /\ ~Nudges(w, p) => chats'[q].nudges = chats[q].nudges
  <2>1. CASE Skips(w, p)
    BY <2>1 DEF Skips
  <2>2. CASE SendsCard(w, p)
    BY <1>1, <1>2, <2>2, OneKind DEF SendsCard
  <2>3. CASE Pushes(w, p)
    BY <1>1, <1>2, <2>3, OneKind DEF Pushes
  <2>4. CASE Nudges(w, p)
    BY <1>1, <1>2, <2>4, OneKind DEF Nudges
  <2>5. QED
    BY <2>1, <2>2, <2>3, <2>4
<1>8. BoardsInv'
  <2>1. ~Boards(w)'
    BY <1>4 DEF Boards
  <2>2. \A v \in Mailers : mailers'[v] = mailers[v] \/ (~Boards(v) /\ ~Boards(v)')
    BY <1>4, <2>1
  <2>3. QED
    BY <1>1, <1>5, <1>6, <1>7, <2>2, BoardsElsewhere DEF MailInv
<1>9. CardsInv'
  <2>1. CASE mailers[w].do = "cards"
    <3>1. Skips(w, p) \/ SendsCard(w, p)
      BY <2>1
    <3>2. QED
      BY <1>1, <1>5, <2>1, <3>1, CardsTurn DEF MailInv, CardsInv
  <2>2. CASE mailers[w].do # "cards"
    <3>1. \A v \in Mailers :
            \/ mailers'[v] = mailers[v]
            \/ mailers[v].do # "cards" /\ mailers'[v].do # "cards"
      BY <1>4, <2>2
    <3>2. \A q \in Members : chats'[q].cards = chats[q].cards
      BY <1>1, <1>2, <2>2, OneKind DEF Skips, Pushes, Nudges
    <3>3. QED
      BY <1>1, <1>5, <1>6, <3>1, <3>2, CardsElsewhere DEF MailInv
  <2>3. QED
    BY <2>1, <2>2
<1>10. PushesInv'
  <2>1. CASE Pushes(w, p)
    BY <1>1, <1>2, <2>1, PushesSend DEF MailInv
  <2>2. CASE ~Pushes(w, p)
    BY <1>1, <1>5, <1>6, <1>7, <2>2, PushesKept DEF MailInv
  <2>3. QED
    BY <2>1, <2>2
<1>11. NudgesInv'
  <2>1. CASE mailers[w].do = "remind" /\ Nudges(w, p)
    BY <1>1, <2>1, NudgesSend DEF MailInv, NudgesInv
  <2>2. CASE ~(mailers[w].do = "remind" /\ Nudges(w, p))
    <3>1. \A q \in Members : chats'[q].nudges = chats[q].nudges
      BY <1>1, <1>2, <2>2, OneKind DEF Skips, SendsCard, Pushes
    <3>2. \A v \in Mailers : mailers'[v].do = "remind" =>
            mailers[v].do = "remind" /\ mailers'[v].left \subseteq mailers[v].left
      BY <1>4
    <3>3. QED
      BY <1>1, <1>5, <3>1, <3>2, NudgesKept DEF MailInv, NudgesInv
  <2>3. QED
    BY <2>1, <2>2
<1>12. QED
  BY <1>8, <1>9, <1>10, <1>11 DEF MailInv

LEMMA BoardPostHolds ==
  ASSUME MailInv, MailTypeOK', NEW w \in Mailers, Boards(w), NEW p \in mailers[w].left,
         \/ GivesUp(w) \/ Rests(w) \/ NewBoard(w, p)
         \/ \E id \in DOMAIN chats[p].boards : EditsBoard(w, p, id)
  PROVE  MailInv'
<1>1. MailTypeOK /\ IdsInv /\ StageInv /\ mishaps \in Counts /\ AtWork(w)
  BY TypeParts DEF MailInv, BoardsInv, Boards, AtWork
<1>2. p \in Members /\ mailers[w].do # "cards" /\ mailers[w].do # "remind"
  BY <1>1, RestOrWork, JobFields DEF Boards
<1>3. CASE GivesUp(w)
  <2>1. Frees(w) /\ board' = board /\ chats' = chats
        /\ mishaps' = [mishaps EXCEPT !.failures = mishaps.failures + 1]
    BY <1>3 DEF GivesUp
  <2>2. /\ Excused + 1 <= Excused' /\ Paid <= Paid'
        /\ mishaps'.deaths \in Nat /\ mishaps.deaths <= mishaps'.deaths
        /\ mishaps'.lapses = mishaps.lapses
    BY <1>1, <2>1 DEF Excused, Paid, Counts
  <2>3. PushesInv'
    BY <1>1, <2>1, <2>2, PushesKept DEF MailInv
  <2>4. QED
    BY <1>1, <2>1, <2>2, <2>3, StopHolds
<1>4. CASE ~GivesUp(w)
  <2>1. board' = board /\ mishaps' = mishaps
    BY <1>4 DEF Rests, NewBoard, EditsBoard
  <2>2. /\ \A v \in Mailers \ {w} : mailers'[v] = mailers[v]
        /\ mailers'[w].do = mailers[w].do /\ mailers'[w].ids = mailers[w].ids
        /\ mailers'[w].stage = mailers[w].stage
        /\ NewBoard(w, p) \/ mailers'[w].sent = mailers[w].sent
    <3>1. CASE Rests(w)
      BY <1>1, <3>1, RestsOne
    <3>2. CASE NewBoard(w, p)
      <4>1. Len(chats[p].boards) + 1 \in Nat
        BY <1>1, <1>2, TypeParts DEF ChatRows
      <4>2. Send(w, p, Len(chats[p].boards) + 1)
        BY <3>2 DEF NewBoard
      <4>3. QED
        BY <1>1, <1>2, <3>2, <4>1, <4>2, SendsOne
    <3>3. CASE \E id \in DOMAIN chats[p].boards : EditsBoard(w, p, id)
      <4>1. Send(w, p, NoId)
        BY <3>3 DEF EditsBoard
      <4>2. QED
        BY <1>1, <1>2, <4>1, SendsOne
    <3>4. QED
      BY <1>4, <3>1, <3>2, <3>3
  <2>3. \A q \in Members :
          /\ chats'[q].cards = chats[q].cards /\ chats'[q].pushes = chats[q].pushes
          /\ chats'[q].nudges = chats[q].nudges
    BY <1>1, <1>4, TypeParts DEF Rests, NewBoard, EditsBoard, ChatRows
  <2>4. IdsInv'
    <3>1. CASE NewBoard(w, p)
      BY <1>1, <3>1, IdsNew
    <3>2. CASE ~NewBoard(w, p)
      <4>1. \A q \in Members : DOMAIN chats[q].boards \subseteq DOMAIN chats'[q].boards
        <5>1. CASE Rests(w)
          BY <5>1 DEF Rests
        <5>2. CASE \E id \in DOMAIN chats[p].boards : EditsBoard(w, p, id)
          <6>1. PICK id \in DOMAIN chats[p].boards :
                  chats' = [chats EXCEPT ![p].boards = [chats[p].boards EXCEPT ![id] = mailers[w].stage]]
            BY <5>2 DEF EditsBoard
          <6> DEFINE b == [chats[p].boards EXCEPT ![id] = mailers[w].stage]
          <6>2. DOMAIN b = DOMAIN chats[p].boards /\ chats' = [chats EXCEPT ![p].boards = b]
            BY <6>1
          <6> HIDE DEF b
          <6>3. \A q \in Members : chats'[q].boards = IF q = p THEN b ELSE chats[q].boards
            BY <1>1, <1>2, <6>2, TypeParts DEF ChatRows
          <6>4. QED
            BY <6>2, <6>3
        <5>3. QED
          BY <1>4, <3>2, <5>1, <5>2
      <4>2. \A v \in Mailers :
              Boards(v)' => /\ Boards(v) /\ mailers'[v].ids = mailers[v].ids
                            /\ mailers'[v].sent = mailers[v].sent
        BY <2>2, <3>2 DEF Boards
      <4>3. QED
        BY <1>1, <2>1, <4>1, <4>2, IdsStay
    <3>3. QED
      BY <3>1, <3>2
  <2>5. StageInv'
    BY <1>1, <2>2 DEF StageInv, Boards
  <2>6. LoadInv'
    BY <1>1, <1>2, <1>4, BalanceRests, BalanceNew, BalanceEdits DEF MailInv, BoardsInv, LoadInv
  <2>7. mishaps'.deaths \in Nat /\ mishaps.deaths <= mishaps'.deaths /\ Paid' = Paid /\ Paid \in Nat
    BY <1>1, <2>1, CountsNat DEF Paid, Counts
  <2>8. CardsInv'
    <3>1. \A v \in Mailers :
            \/ mailers'[v] = mailers[v]
            \/ mailers[v].do # "cards" /\ mailers'[v].do # "cards"
      BY <1>2, <2>2
    <3>2. QED
      BY <1>1, <2>1, <2>3, <2>7, <3>1, CardsElsewhere DEF MailInv
  <2>9. PushesInv'
    BY <1>1, <2>1, <2>3, <2>7, PushesKept DEF MailInv
  <2>10. NudgesInv'
    <3>1. \A v \in Mailers : mailers'[v].do = "remind" => mailers'[v] = mailers[v]
      BY <1>2, <2>2
    <3>2. QED
      BY <1>1, <2>1, <2>3, <3>1, NudgesKept DEF MailInv, NudgesInv
  <2>11. QED
    BY <2>4, <2>5, <2>6, <2>8, <2>9, <2>10 DEF MailInv, BoardsInv
<1>5. QED
  BY <1>3, <1>4

LEMMA PostHolds ==
  ASSUME MailInv, NEW w \in Mailers, Post(w)
  PROVE  MailInv'
<1>1. MailTypeOK' /\ AtWork(w)
  BY TypePost, PostsOne DEF MailInv, BoardsInv
<1>2. PICK p \in mailers[w].left :
        \/ /\ Boards(w)
           /\ \/ GivesUp(w) \/ Rests(w) \/ NewBoard(w, p)
              \/ \E id \in DOMAIN chats[p].boards : EditsBoard(w, p, id)
        \/ ~Boards(w) /\ Skips(w, p)
        \/ mailers[w].do = "cards" /\ SendsCard(w, p)
        \/ mailers[w].do = "push" /\ Pushes(w, p)
        \/ mailers[w].do = "remind" /\ Nudges(w, p)
  BY PostsOne DEF MailInv, BoardsInv
<1>3. CASE Boards(w)
  <2>1. mailers[w].do \notin {"cards", "push", "remind"}
    BY <1>3 DEF Boards
  <2>2. \/ GivesUp(w) \/ Rests(w) \/ NewBoard(w, p)
        \/ \E id \in DOMAIN chats[p].boards : EditsBoard(w, p, id)
    BY <1>2, <1>3, <2>1
  <2>3. QED
    BY <1>1, <1>3, <2>2, BoardPostHolds
<1>4. CASE ~Boards(w)
  BY <1>1, <1>2, <1>4, OtherPostHolds
<1>5. QED
  BY <1>3, <1>4

LEMMA MailStarts ==
  ASSUME MailInit
  PROVE  MailInv
<1> USE DEF MailInit
<1>1. PICK k \in {"PRIVATE", "DAILY_ARENA"}, off \in Silences :
        board = [kind |-> k, stage |-> 0, moving |-> "no", forgot |-> FALSE, published |-> FALSE,
                 ids |-> [p \in Members |-> NoId], carded |-> {}, pushed |-> {},
                 stamped |-> FALSE, silent |-> off]
  OBVIOUS
<1>2. \A w \in Mailers : mailers[w] = Resting /\ mailers[w].do = "rest"
  BY DEF Resting
<1>3. \A p \in Members : chats[p] = [boards |-> <<>>, cards |-> 0, pushes |-> 0, nudges |-> 0]
  OBVIOUS
<1>4. BoardTyped
  BY <1>1, MailLimits DEF BoardTyped, BoardRows, Over
<1>5. chats \in [Members -> ChatRows]
  <2>1. [boards |-> <<>>, cards |-> 0, pushes |-> 0, nudges |-> 0] \in ChatRows
    BY EmptySeq DEF ChatRows
  <2>2. QED
    BY <2>1
<1>6. MailTypeOK
  BY <1>2, <1>4, <1>5, TypeParts DEF MailersTyped, Counts
<1>7. \A w \in Mailers : ~Boards(w) /\ mailers[w].do \notin {"cards", "remind"}
  BY <1>2 DEF Boards
<1>8. \A p \in Members : /\ board.ids[p] = NoId /\ chats[p].boards = <<>> /\ chats[p].cards = 0
                         /\ chats[p].pushes = 0 /\ chats[p].nudges = 0
  BY <1>1, <1>3
<1>9. mishaps.deaths = 0 /\ mishaps.overlaps = 0 /\ mishaps.failures = 0 /\ mishaps.lapses = 0
  OBVIOUS
<1> HIDE DEF MailInit
<1>10. \A p \in Members : Posters(p) = {} /\ Standing(p) = {} /\ CardsFor(p) = {} /\ Nudgers(p) = {}
  BY <1>7, <1>8 DEF Posters, Standing, CardsFor, Nudgers
<1>11. Cardinality({}) = 0
  BY FS_EmptySet
<1>12. IdsInv /\ StageInv
  BY <1>7, <1>8 DEF IdsInv, StageInv, Heard
<1>13. LoadInv
  <2>1. ASSUME NEW p \in Members PROVE Balanced(p)
    <3>1. Cardinality(Standing(p)) = 0 /\ Cardinality(Posters(p)) = 0
      BY <1>10, <1>11
    <3>2. Load(p) = 0 /\ Excused = 0
      BY <1>9, <3>1 DEF Load, Excused
    <3>3. QED
      BY <3>2 DEF Balanced, One
  <2>2. QED
    BY <2>1 DEF LoadInv
<1>14. CardsInv
  <2>1. ASSUME NEW p \in Members PROVE CardsPaid(p)
    <3>1. Cardinality(CardsFor(p)) = 0
      BY <1>10, <1>11
    <3>2. chats[p].cards = 0
      BY <1>8
    <3>3. Paid = 0
      BY <1>9 DEF Paid
    <3>4. QED
      BY <3>1, <3>2, <3>3 DEF CardsPaid
  <2>2. QED
    BY <2>1 DEF CardsInv
<1>15. PushesInv
  BY <1>8, <1>9 DEF PushesInv, One
<1>16. NudgesInv
  <2>1. ASSUME NEW p \in Members PROVE Nudged(p)
    <3>1. Cardinality(Nudgers(p)) = 0 /\ chats[p].nudges = 0
      BY <1>8, <1>10, <1>11
    <3>2. Due = 0
      <4>1. board.stage = 0
        BY <1>1
      <4>2. QED
        BY <1>9, <4>1 DEF Due
    <3>3. QED
      BY <3>1, <3>2 DEF Nudged
  <2>2. QED
    BY <2>1 DEF NudgesInv
<1>17. QED
  BY <1>6, <1>12, <1>13, <1>14, <1>15, <1>16 DEF MailInv, BoardsInv

LEMMA MailStays ==
  ASSUME MailInv, [MailNext]_mailVars
  PROVE  MailInv'
<1>1. CASE OpenMove \/ CommitMove \/ Announce \/ Forget \/ PublishFinal \/ StampLapses
  BY <1>1, MovesHold
<1>2. CASE Requested
  BY <1>2, RequestedHolds
<1>3. ASSUME NEW p \in Members, PlayerDeletes(p) PROVE MailInv'
  BY <1>3, DeletesHolds
<1>4. ASSUME NEW w \in Mailers, BeginMail(w) PROVE MailInv'
  BY <1>4, BeginHolds
<1>5. ASSUME NEW w \in Mailers, Post(w) PROVE MailInv'
  BY <1>5, PostHolds
<1>6. ASSUME NEW w \in Mailers, StoreMail(w) PROVE MailInv'
  BY <1>6, StoreHolds
<1>7. ASSUME NEW w \in Mailers, MailerDies(w) \/ PusherDies(w) PROVE MailInv'
  BY <1>7, DiesHolds
<1>8. CASE UNCHANGED mailVars
  BY <1>8, StutterHolds
<1>9. QED
  BY <1>1, <1>2, <1>3, <1>4, <1>5, <1>6, <1>7, <1>8 DEF MailNext, Requested

LEMMA MailHolds == MailSpec => []MailInv
<1>1. MailInit => MailInv
  BY MailStarts
<1>2. MailInv /\ [MailNext]_mailVars => MailInv'
  BY MailStays
<1>3. QED
  BY <1>1, <1>2, PTL DEF MailSpec

\* The tournament, the chats, the queue and the workers keep their types.
THEOREM MailTyped == MailSpec => []MailTypeOK
<1>1. MailInv => MailTypeOK
  BY DEF MailInv
<1>2. QED
  BY <1>1, MailHolds, PTL

\* Whatever a player has once too often is paid for by a death, an overlap or a failure,
\* whatever the tasks, the players and the workers do to each other; and no death, overlap
\* or failure adds a reminder to one for every round and one for every stamp that lapsed.
THEOREM NothingTwiceThm == MailSpec => []NothingTwice
<1>1. MailInv => NothingTwice
  <2>1. SUFFICES ASSUME MailInv, NEW p \in Members
                 PROVE  /\ Cardinality(Standing(p)) <= 1 + Paid + mishaps.failures
                        /\ board.kind = "DAILY_ARENA" => chats[p].cards <= 1 + Paid
                        /\ chats[p].pushes <= 1 + mishaps.deaths
                        /\ chats[p].nudges <= board.stage + mishaps.lapses
    BY DEF NothingTwice, Standing, Paid
  <2>2. MailTypeOK /\ mishaps \in Counts
    BY <2>1, TypeParts DEF MailInv
  <2>3. Cardinality(Standing(p)) <= 1 + Paid + mishaps.failures
    <3>1. /\ Cardinality(Standing(p)) \in Nat /\ Cardinality(Posters(p)) \in Nat /\ Excused \in Nat
          /\ IsFiniteSet(Posters(p))
      BY <2>2, LoadTyped
    <3>2. Load(p) <= Excused + 1 + One(Edits(p))
      BY <2>1 DEF MailInv, BoardsInv, LoadInv, Balanced
    <3>3. Edits(p) => Cardinality(Posters(p)) # 0
      BY <3>1, FS_EmptySet DEF Edits
    <3>4. Cardinality(Standing(p)) <= 1 + Excused
      BY <3>1, <3>2, <3>3 DEF Load, One
    <3>5. QED
      BY <2>2, <3>4 DEF Excused, Paid, Counts
  <2>4. board.kind = "DAILY_ARENA" => chats[p].cards <= 1 + Paid
    <3>1. /\ Cardinality(CardsFor(p)) \in Nat /\ chats[p].cards \in Nat /\ Paid \in Nat
      BY <2>2, CardsTyped
    <3>2. QED
      BY <2>1, <3>1 DEF MailInv, CardsInv, CardsPaid
  <2>5. chats[p].pushes <= 1 + mishaps.deaths
    <3>1. chats[p].pushes \in Nat /\ mishaps.deaths \in Nat
      BY <2>2, TypeParts DEF ChatRows, Counts
    <3>2. QED
      BY <2>1, <3>1 DEF MailInv, PushesInv, One
  <2>6. chats[p].nudges <= board.stage + mishaps.lapses
    <3>1. /\ Cardinality(Nudgers(p)) \in Nat /\ chats[p].nudges \in Nat /\ board.stage \in Nat
          /\ mishaps.lapses \in Nat
      BY <2>2, NudgesTyped
    <3>2. QED
      BY <2>1, <3>1 DEF MailInv, NudgesInv, Nudged, Due
  <2>7. QED
    BY <2>3, <2>4, <2>5, <2>6
<1>2. QED
  BY <1>1, MailHolds, PTL

\* The messages of a tournament are sound.
THEOREM MailSoundThm == MailSpec => []MailSound
<1>1. MailTypeOK /\ NothingTwice => MailSound
  BY DEF MailSound
<1>2. QED
  BY <1>1, MailTyped, NothingTwiceThm, PTL

-----------------------------------------------------------------------------
(* One learner: what his questions cost. *)

\* What the code's settings are: a full tank, the intervals of a day, the levels of the
\* chain; a learner begins with some energy.
QuizLimits ==
  /\ FreeCap \in Nat /\ DayTicks \in Nat \ {0} /\ Horizon \in Nat
  /\ MaxLevel \in Nat /\ TapCount \in Nat
  /\ NoRow \notin QuizSessions
  /\ \A f \in Profiles : f.free \in Nat /\ f.paid \in Nat

Tanks == [free : Nat, paid : Nat, regenAt : Nat, topup : Nat]
ProgressRows == [level : Levels, mix : Nat, inMix : Nat]

\* The rows of a learner, as far as they matter here.
Learns(p) ==
  /\ p \in [energy : Tanks, streak : {p.streak}, ledger : SUBSET Keys,
            sessions : [Keys -> QuizSessions \cup {NoRow}], runs : {p.runs},
            progress : ProgressRows \cup {NoRow}, attempts : {p.attempts}]
  /\ DOMAIN p.runs = Days

\* No session is deleted, and a run that is completed stays as it is.
Carries(p, q) ==
  /\ \A k \in Keys : p.sessions[k] # NoRow => q.sessions[k] # NoRow
  /\ \A d \in Days : p.runs[d] # NoRow /\ p.runs[d].status = "COMPLETED" => q.runs[d] = p.runs[d]

\* A step that leaves the energy alone.
FreeStep(p, q) == Learns(q) /\ Carries(p, q) /\ q.energy = p.energy

LEMMA CarriesOn ==
  ASSUME NEW p, NEW q, NEW r, Carries(p, q), Carries(q, r) PROVE Carries(p, r)
BY DEF Carries

LEMMA DayTyped ==
  ASSUME QuizLimits, NEW t \in Nat PROVE Day(t) \in Nat
BY DEF Day, QuizLimits

\* Later clocks show the same day or a later one.
LEMMA DaysInOrder ==
  ASSUME QuizLimits, NEW t \in Nat, NEW h \in Nat, t <= h PROVE Day(t) <= Day(h)
<1> DEFINE a == t \div DayTicks  b == h \div DayTicks
<1>1. DayTicks \in Nat \ {0} /\ a \in Nat /\ b \in Nat
  BY DEF QuizLimits
<1>2. DayTicks * a <= t /\ h < DayTicks * b + DayTicks
  BY <1>1, SMT
<1>3. SUFFICES ASSUME b + 1 <= a PROVE FALSE
  BY <1>1 DEF Day
<1>4. a - (b + 1) \in Nat /\ a = b + 1 + (a - (b + 1))
  BY <1>1, <1>3
<1>5. PICK n \in Nat : a = b + 1 + n
  BY <1>4
<1>6. DayTicks * n \in Nat /\ DayTicks * a = DayTicks * b + DayTicks + DayTicks * n
  <2>1. DayTicks * (b + 1 + n) = DayTicks * b + DayTicks + DayTicks * n
    <3> HIDE DEF a, b
    <3> QED
    BY <1>1, SMT
  <2> QED
    BY <1>1, <1>5, <2>1
<1>7. DayTicks * b \in Nat /\ DayTicks * a \in Nat
  BY <1>1
<1> HIDE DEF a, b
<1>8. QED
  BY <1>1, <1>2, <1>6, <1>7

\* A day that is later is worth a full tank more.
LEMMA TankPerDay ==
  ASSUME QuizLimits, NEW c \in Nat, NEW d \in Nat
  PROVE  /\ FreeCap * c \in Nat
         /\ c <= d => FreeCap * c <= FreeCap * d
         /\ c < d => FreeCap * c + FreeCap <= FreeCap * d
<1>1. FreeCap \in Nat
  BY DEF QuizLimits
<1>2. \A n \in Nat : FreeCap * (c + n) = FreeCap * c + FreeCap * n /\ FreeCap * n \in Nat
  BY <1>1, SMT
<1>3. \A n \in Nat : FreeCap * (c + 1 + n) = FreeCap * c + FreeCap + FreeCap * n
  BY <1>1, SMT
<1>4. FreeCap * c \in Nat
  BY <1>1, SMT
<1>5. ASSUME c <= d PROVE FreeCap * c <= FreeCap * d
  <2>1. d - c \in Nat /\ d = c + (d - c)
    BY <1>5
  <2> QED
    BY <1>1, <1>2, <1>4, <2>1
<1>6. ASSUME c < d PROVE FreeCap * c + FreeCap <= FreeCap * d
  <2>1. d - (c + 1) \in Nat /\ d = c + 1 + (d - (c + 1))
    BY <1>6
  <2> QED
    BY <1>1, <1>2, <1>3, <1>4, <2>1
<1> QED
  BY <1>4, <1>5, <1>6

\* What was ever given to a tank, counted by its two anchors.
Given(e) == e.regenAt + FreeCap * e.topup

LEMMA GivenTyped ==
  ASSUME QuizLimits, NEW e \in Tanks PROVE Given(e) \in Nat
<1>1. e.topup \in Nat /\ e.regenAt \in Nat
  BY DEF Tanks
<1>2. FreeCap * e.topup \in Nat
  BY <1>1, TankPerDay
<1> QED
  BY <1>1, <1>2 DEF Given

\* Neither regeneration nor the top-up gives more than the anchors move; and nothing is
\* given twice for the same time.
LEMMA SyncGives ==
  ASSUME QuizLimits, NEW e \in Tanks, NEW t \in Nat, NEW premium \in BOOLEAN
  PROVE  LET f == SyncEnergyClock(e, t, premium) IN
         /\ f \in Tanks /\ f.paid = e.paid
         /\ f.free + Given(e) <= e.free + Given(f)
         /\ f.regenAt = IF t <= e.regenAt THEN e.regenAt ELSE t
         /\ f.topup = IF Day(t) <= e.topup THEN e.topup ELSE Day(t)
         /\ t <= e.regenAt /\ Day(t) <= e.topup => f = e
<1> DEFINE g == Regen(e, t, premium)  f == TopUp(g, t)
<1>1. FreeCap \in Nat /\ Day(t) \in Nat
  BY DayTyped DEF QuizLimits
<1>2. /\ g \in Tanks /\ g.paid = e.paid /\ g.topup = e.topup
      /\ g.free <= e.free + (g.regenAt - e.regenAt)
      /\ g.regenAt = IF t <= e.regenAt THEN e.regenAt ELSE t
      /\ t <= e.regenAt => g = e
  <2>1. CASE t <= e.regenAt
    <3>1. g = e
      BY <2>1 DEF Regen
    <3> HIDE DEF g
    <3> QED
      BY <2>1, <3>1 DEF Tanks
  <2>2. CASE ~(t <= e.regenAt)
    <3> DEFINE more == IF premium THEN e.free ELSE Least(FreeCap, e.free + (t - e.regenAt))
    <3>1. more \in Nat /\ more <= e.free + (t - e.regenAt)
      BY <1>1, <2>2 DEF Least, Tanks
    <3>2. g = [e EXCEPT !.regenAt = t, !.free = more]
      BY <2>2 DEF Regen
    <3> HIDE DEF g, more
    <3> QED
      BY <2>2, <3>1, <3>2 DEF Tanks
  <2> QED
    BY <2>1, <2>2
<1>3. /\ f \in Tanks /\ f.paid = g.paid /\ f.regenAt = g.regenAt
      /\ f.topup = IF Day(t) <= g.topup THEN g.topup ELSE Day(t)
      /\ f.free = IF Day(t) <= g.topup THEN g.free ELSE FreeCap
      /\ Day(t) <= g.topup => f = g
  <2> HIDE DEF g
  <2> QED
    BY <1>1, <1>2 DEF TopUp, Tanks
<1>4. /\ FreeCap * e.topup \in Nat /\ FreeCap * f.topup \in Nat
      /\ f.topup # e.topup => FreeCap * e.topup + FreeCap <= FreeCap * f.topup
  <2>1. e.topup \in Nat /\ f.topup \in Nat /\ (f.topup # e.topup => e.topup < f.topup)
    <3> HIDE DEF f, g
    <3> QED
      BY <1>1, <1>2, <1>3 DEF Tanks
  <2> HIDE DEF f, g
  <2> QED
    BY <2>1, TankPerDay
<1>5. f.free + Given(e) <= e.free + Given(f)
  <2> HIDE DEF f, g
  <2> QED
    BY <1>1, <1>2, <1>3, <1>4 DEF Given, Tanks
<1>6. f = SyncEnergyClock(e, t, premium)
  BY DEF SyncEnergyClock
<1> HIDE DEF f, g
<1>7. QED
  BY <1>2, <1>3, <1>5, <1>6

LEMMA SpendTakesOne ==
  ASSUME NEW e \in Tanks, ConsumedAsset(e) # "NONE"
  PROVE  /\ Spend(e) \in Tanks /\ Spend(e).regenAt = e.regenAt /\ Spend(e).topup = e.topup
         /\ (Spend(e).free + Spend(e).paid) + 1 = e.free + e.paid
<1>1. CASE e.free > 0
  <2>1. Spend(e) = [e EXCEPT !.free = @ - 1]
    BY <1>1 DEF Spend, ConsumedAsset
  <2> QED
    BY <1>1, <2>1 DEF Tanks
<1>2. CASE ~(e.free > 0)
  <2>1. e.paid > 0 /\ Spend(e) = [e EXCEPT !.paid = @ - 1]
    BY <1>2 DEF Spend, ConsumedAsset
  <2> QED
    BY <2>1 DEF Tanks
<1> QED
  BY <1>1, <1>2

\* What ensure_home_snapshot leaves: the tank as of h, everything else as it was.
LEMMA HomeSynced ==
  ASSUME QuizLimits, NEW p, Learns(p), NEW h \in Nat
  PROVE  LET q == EnsureHome(p, h) IN
         /\ Learns(q) /\ Carries(p, q)
         /\ q.energy = SyncEnergyClock(p.energy, h, scope # "NONE")
         /\ q.sessions = p.sessions /\ q.runs = p.runs /\ q.progress = p.progress
<1> DEFINE e == SyncEnergyClock(p.energy, h, scope # "NONE")
           s == SyncRollover(p.streak, Day(h), scope)
<1>1. e \in Tanks
  <2>1. p.energy \in Tanks /\ (scope # "NONE") \in BOOLEAN
    BY DEF Learns
  <2> QED
    BY <2>1, SyncGives
<1>2. EnsureHome(p, h) = [p EXCEPT !.energy = e, !.streak = s]
  BY DEF EnsureHome, Learns
<1> HIDE DEF e, s
<1>3. QED
  <2> DEFINE q == EnsureHome(p, h)
  <2>1. /\ q.energy = e /\ q.sessions = p.sessions /\ q.runs = p.runs /\ q.progress = p.progress
        /\ Learns(q)
    BY <1>1, <1>2 DEF Learns
  <2>2. Carries(p, q)
    <3> HIDE DEF q
    <3> QED
      BY <2>1 DEF Carries
  <2> HIDE DEF q
  <2>3. q.energy = SyncEnergyClock(p.energy, h, scope # "NONE")
    BY <2>1 DEF e
  <2> QED
    BY <2>1, <2>2, <2>3 DEF q

\* A learner whose tank is as of h or later, seen by a clock that is not.
SyncedTo(p, h) == Learns(p) /\ h <= p.energy.regenAt /\ Day(h) <= p.energy.topup

\* A question takes one unit for a key that was not paid for, or nothing.
LEMMA ConsumeKinds ==
  ASSUME QuizLimits, NEW p, NEW key \in Keys, NEW t \in Nat, SyncedTo(p, t)
  PROVE  LET q == ConsumeQuiz(p, key, t) IN
         /\ Learns(q) /\ q.sessions = p.sessions /\ q.runs = p.runs /\ q.progress = p.progress
         /\ \/ q.energy = p.energy
            \/ ConsumedAsset(p.energy) # "NONE" /\ q.energy = Spend(p.energy)
         /\ ~CanPay(p, key, t) => q.energy = p.energy
<1>1. p.energy \in Tanks
  BY DEF Learns, SyncedTo
<1>2. SyncEnergyClock(p.energy, t, FALSE) = p.energy
  BY <1>1, SyncGives DEF SyncedTo
<1>3. CASE scope # "NONE"
  BY <1>3 DEF ConsumeQuiz, SyncedTo
<1>4. CASE scope = "NONE" /\ (key \in p.ledger \/ ConsumedAsset(p.energy) = "NONE")
  <2>1. ConsumeQuiz(p, key, t) = [p EXCEPT !.energy = p.energy]
    BY <1>2, <1>4 DEF ConsumeQuiz
  <2> QED
    BY <2>1 DEF SyncedTo, Learns
<1>5. CASE scope = "NONE" /\ ~(key \in p.ledger \/ ConsumedAsset(p.energy) = "NONE")
  <2>1. ConsumeQuiz(p, key, t) = [p EXCEPT !.energy = Spend(p.energy), !.ledger = p.ledger \cup {key}]
    BY <1>2, <1>5 DEF ConsumeQuiz, SyncedTo, Learns
  <2>2. Spend(p.energy) \in Tanks
    BY <1>1, <1>5, SpendTakesOne
  <2>3. CanPay(p, key, t)
    BY <1>2, <1>5 DEF CanPay
  <2> DEFINE q == ConsumeQuiz(p, key, t)  e == Spend(p.energy)
  <2>4. q = [p EXCEPT !.energy = e, !.ledger = p.ledger \cup {key}] /\ e \in Tanks
    BY <2>1, <2>2
  <2> HIDE DEF q, e
  <2>5. /\ Learns(q) /\ q.sessions = p.sessions /\ q.runs = p.runs /\ q.progress = p.progress
        /\ q.energy = e
    BY <2>4 DEF SyncedTo, Learns
  <2> QED
    BY <1>5, <2>3, <2>5 DEF q, e
<1> QED
  BY <1>3, <1>4, <1>5

LEMMA NewSessionKept ==
  ASSUME QuizLimits, NEW p, Learns(p), NEW key \in Keys, p.sessions[key] = NoRow,
         NEW mode \in Modes, NEW level \in Levels, NEW run \in Days \cup {NoDay}
  PROVE  LET q == NewSession(p, key, mode, level, run) IN
         FreeStep(p, q) /\ q.sessions[key] # NoRow
<1> DEFINE s == [mode |-> mode, status |-> "STARTED", level |-> level,
                 cost |-> IF mode = Daily THEN 0 ELSE 1, run |-> run]
           q == NewSession(p, key, mode, level, run)
<1>1. s \in QuizSessions /\ s # NoRow
  BY DEF QuizSessions, QuizLimits
<1>2. q = [p EXCEPT !.sessions = [p.sessions EXCEPT ![key] = s]]
  BY DEF NewSession, Learns
<1> HIDE DEF s, q
<1>3. /\ Learns(q) /\ q.energy = p.energy /\ q.runs = p.runs
      /\ q.sessions = [p.sessions EXCEPT ![key] = s]
  BY <1>1, <1>2 DEF Learns
<1>4. \A k \in Keys : q.sessions[k] = IF k = key THEN s ELSE p.sessions[k]
  BY <1>3 DEF Learns
<1>5. QED
  BY <1>1, <1>3, <1>4 DEF FreeStep, Carries, q

\* What becomes of one run of a day: nothing when it is completed.
LEMMA RunKept ==
  ASSUME NEW p, Learns(p), NEW d, NEW r,
         p.runs[d] # NoRow /\ p.runs[d].status = "COMPLETED" => r = p.runs[d]
  PROVE  LET q == [p EXCEPT !.runs = [p.runs EXCEPT ![d] = r]] IN
         FreeStep(p, q) /\ q.sessions = p.sessions
<1> DEFINE q == [p EXCEPT !.runs = [p.runs EXCEPT ![d] = r]]
<1>1. /\ Learns(q) /\ q.energy = p.energy /\ q.sessions = p.sessions
      /\ q.runs = [p.runs EXCEPT ![d] = r]
  BY DEF Learns
<1> HIDE DEF q
<1>2. \A x \in Days : p.runs[x] # NoRow /\ p.runs[x].status = "COMPLETED" => q.runs[x] = p.runs[x]
  BY <1>1 DEF Learns
<1>3. QED
  BY <1>1, <1>2 DEF FreeStep, Carries, q

LEMMA StartsDaily ==
  ASSUME QuizLimits, NEW p, Learns(p), NEW key \in Keys, p.sessions[key] = NoRow,
         NEW t \in Nat, Day(t) \in Days, Daily \in Modes
  PROVE  FreeStep(p, StartDailySession(p, key, t))
<1> DEFINE d == Day(t)
           r == RunAtStart(p, d)
           q == [p EXCEPT !.runs = [p.runs EXCEPT ![d] = r]]
           z == [q EXCEPT !.runs = [q.runs EXCEPT ![d] = [q.runs[d] EXCEPT !.status = "COMPLETED"]]]
           n == NewSession(q, key, Daily, 0, d)
<1>1. StartDailySession(p, key, t) \in {p, z, q, n}
  BY DEF StartDailySession, Learns
<1>2. FreeStep(p, p)
  BY DEF FreeStep, Carries
<1>3. CASE p.runs[d] # NoRow /\ p.runs[d].status = "COMPLETED"
  BY <1>2, <1>3 DEF StartDailySession
<1>4. CASE ~(p.runs[d] # NoRow /\ p.runs[d].status = "COMPLETED")
  <2> HIDE DEF r
  <2>1. FreeStep(p, q) /\ q.sessions = p.sessions
    BY <1>4, RunKept
  <2>2. Learns(q) /\ 0 \in Levels /\ d \in Days \cup {NoDay}
    BY <2>1 DEF FreeStep, Levels, QuizLimits
  <2>3. FreeStep(q, n)
    <3> HIDE DEF q, d
    <3> QED
      BY <2>1, <2>2, NewSessionKept DEF d
  <2>4. z = [p EXCEPT !.runs = [p.runs EXCEPT ![d] = [q.runs[d] EXCEPT !.status = "COMPLETED"]]]
    BY DEF Learns
  <2>5. FreeStep(p, z)
    BY <1>4, <2>4, RunKept
  <2>6. FreeStep(p, n)
    <3> HIDE DEF q, n
    <3> QED
      BY <2>1, <2>3, CarriesOn DEF FreeStep
  <2> HIDE DEF q, n, z
  <2> QED
    BY <1>1, <1>2, <2>1, <2>5, <2>6
<1> QED
  BY <1>3, <1>4

\* A start pays for one new question, or takes nothing.
Starts1(p, q, key) ==
  /\ Learns(q) /\ Carries(p, q)
  /\ \/ q.energy = p.energy
     \/ /\ ConsumedAsset(p.energy) # "NONE" /\ q.energy = Spend(p.energy)
        /\ p.sessions[key] = NoRow /\ q.sessions[key] # NoRow

LEMMA StartsFromMenu ==
  ASSUME QuizLimits, NEW p, NEW key \in Keys, NEW t \in Nat, SyncedTo(p, t),
         NEW mode \in Modes, NEW handed \in Levels \cup {NoRow},
         NEW q \in StartMenuSession(p, key, mode, handed, t)
  PROVE  Starts1(p, q, key)
<1> DEFINE paid == ConsumeQuiz(p, key, t)
           row == ProgressAtStart(p)
           more == [paid EXCEPT !.progress = row]
<1>1. Learns(p)
  BY DEF SyncedTo
<1>2. CASE p.sessions[key] # NoRow
  BY <1>1, <1>2 DEF StartMenuSession, Starts1, Carries
<1>3. CASE p.sessions[key] = NoRow
  <2>1. /\ Learns(paid) /\ paid.sessions = p.sessions /\ paid.runs = p.runs
        /\ paid.progress = p.progress
        /\ \/ paid.energy = p.energy
           \/ ConsumedAsset(p.energy) # "NONE" /\ paid.energy = Spend(p.energy)
        /\ ~CanPay(p, key, t) => paid.energy = p.energy
    BY ConsumeKinds
  <2>2. CASE ~CanPay(p, key, t)
    <3>1. q = paid
      BY <1>3, <2>2 DEF StartMenuSession
    <3> HIDE DEF paid
    <3> QED
      BY <2>1, <2>2, <3>1 DEF Starts1, Carries
  <2>3. CASE CanPay(p, key, t)
    <3>1. row \in ProgressRows
      BY <1>1 DEF ProgressAtStart, ProgressRows, Learns, Levels, QuizLimits
    <3>2. \E level \in Levels, base \in {paid, more} : q = NewSession(base, key, mode, level, NoDay)
      <4>1. CASE mode \in AdaptiveModes
        <5>1. PICK level \in AllowedLevels(row, handed) : q = NewSession(more, key, mode, level, NoDay)
          BY <1>3, <2>3, <4>1 DEF StartMenuSession
        <5>2. level \in Levels
          <6> HIDE DEF row
          <6> QED
            BY <3>1, QuizLimits DEF AllowedLevels, Levels, ProgressRows, QuizLimits
        <5> QED
          BY <5>1, <5>2
      <4>2. CASE mode \notin AdaptiveModes
        <5>1. q = NewSession(paid, key, mode, 0, NoDay) /\ 0 \in Levels
          BY <1>3, <2>3, <4>2 DEF StartMenuSession, Levels, QuizLimits
        <5> QED
          BY <5>1
      <4> QED
        BY <4>1, <4>2
    <3>3. PICK level \in Levels, base \in {paid, more} : q = NewSession(base, key, mode, level, NoDay)
      BY <3>2
    <3>4. /\ Learns(base) /\ base.sessions = p.sessions /\ base.runs = p.runs
          /\ base.energy = paid.energy
      <4> HIDE DEF paid, row
      <4> QED
        BY <2>1, <3>1 DEF Learns
    <3>5. FreeStep(base, q) /\ q.sessions[key] # NoRow
      <4> HIDE DEF paid, more
      <4> QED
        BY <1>3, <3>3, <3>4, NewSessionKept
    <3> HIDE DEF paid, more
    <3> QED
      BY <1>3, <2>1, <3>4, <3>5 DEF Starts1, FreeStep, Carries
  <2> QED
    BY <2>2, <2>3
<1> QED
  BY <1>2, <1>3

LEMMA SessionStarts ==
  ASSUME QuizLimits, NEW p, NEW key \in Keys, NEW t \in Nat, Day(t) \in Days, SyncedTo(p, t),
         NEW mode \in Modes, NEW handed \in Levels \cup {NoRow},
         NEW q \in StartSession(p, key, mode, handed, t)
  PROVE  Starts1(p, q, key) /\ (mode = Daily => q.energy = p.energy)
<1>1. CASE mode = Daily
  <2>1. FreeStep(p, q)
    <3>1. CASE p.sessions[key] # NoRow
      BY <1>1, <3>1 DEF StartSession, FreeStep, Carries, SyncedTo
    <3>2. CASE p.sessions[key] = NoRow
      BY <1>1, <3>2, StartsDaily DEF StartSession, SyncedTo
    <3> QED
      BY <3>1, <3>2
  <2> QED
    BY <2>1 DEF Starts1, FreeStep
<1>2. CASE mode # Daily
  BY <1>2, StartsFromMenu DEF StartSession
<1> QED
  BY <1>1, <1>2

LEMMA StreakOnly ==
  ASSUME NEW p, Learns(p), NEW s
  PROVE  LET q == [p EXCEPT !.streak = s] IN FreeStep(p, q) /\ q.progress = p.progress
BY DEF FreeStep, Carries, Learns

LEMMA StreakWritten ==
  ASSUME NEW p, Learns(p), NEW t
  PROVE  LET q == SyncPlayerStreak(p, t)  r == RecordPlayerActivity(p, t) IN
         FreeStep(p, q) /\ FreeStep(p, r) /\ q.progress = p.progress /\ r.progress = p.progress
<1>1. /\ SyncPlayerStreak(p, t) = [p EXCEPT !.streak = SyncRollover(p.streak, Day(t), scope)]
      /\ RecordPlayerActivity(p, t) = [p EXCEPT !.streak = RecordActivity(p.streak, Day(t), scope)]
  BY DEF SyncPlayerStreak, RecordPlayerActivity, Learns
<1> QED
  BY <1>1, StreakOnly

LEMMA FreeSteps ==
  ASSUME NEW p, NEW q, NEW r, FreeStep(p, q), FreeStep(q, r) PROVE FreeStep(p, r)
BY CarriesOn DEF FreeStep

\* The status of a session changes, and it stays a session.
LEMMA StatusSet ==
  ASSUME QuizLimits, NEW p, Learns(p), NEW key \in Keys, p.sessions[key] # NoRow,
         NEW status \in {"STARTED", "COMPLETED", "ABANDONED"}
  PROVE  FreeStep(p, [p EXCEPT !.sessions = [p.sessions EXCEPT ![key] = [p.sessions[key] EXCEPT !.status = status]]])
<1> DEFINE s == [p.sessions[key] EXCEPT !.status = status]
           q == [p EXCEPT !.sessions = [p.sessions EXCEPT ![key] = s]]
<1>1. s \in QuizSessions /\ s # NoRow
  <2>1. p.sessions[key] \in QuizSessions
    BY DEF Learns
  <2>2. s \in QuizSessions
    BY <2>1 DEF QuizSessions
  <2> HIDE DEF s
  <2> QED
    BY <2>2 DEF QuizLimits
<1> HIDE DEF s
<1>2. /\ Learns(q) /\ q.energy = p.energy /\ q.runs = p.runs
      /\ q.sessions = [p.sessions EXCEPT ![key] = s]
  BY <1>1 DEF Learns
<1> HIDE DEF q
<1>3. \A k \in Keys : q.sessions[k] = IF k = key THEN s ELSE p.sessions[k]
  BY <1>2 DEF Learns
<1>4. QED
  BY <1>1, <1>2, <1>3 DEF FreeStep, Carries, q, s

LEMMA AttemptStored ==
  ASSUME QuizLimits, NEW p, Learns(p), NEW c, NEW key \in Keys, p.sessions[key] # NoRow,
         NEW right, NEW t
  PROVE  FreeStep(p, StoreAttempt(p, c, key, right, t))
<1> DEFINE a == InsertAttempt(p.attempts, [tap |-> c, session |-> key, right |-> right,
                                           mode |-> p.sessions[key].mode, at |-> t])
           q == [p EXCEPT !.sessions = [p.sessions EXCEPT ![key] = [p.sessions[key] EXCEPT !.status = "COMPLETED"]]]
           r == [q EXCEPT !.attempts = a]
<1>1. StoreAttempt(p, c, key, right, t) = r
  BY DEF StoreAttempt, Learns
<1>2. FreeStep(p, q)
  BY StatusSet
<1>3. FreeStep(q, r)
  <2> HIDE DEF q, a
  <2> QED
    BY <1>2 DEF FreeStep, Carries, Learns
<1> QED
  BY <1>1, <1>2, <1>3, FreeSteps

LEMMA DailyAnswered ==
  ASSUME NEW p, Learns(p), NEW d, NEW right, NEW t
  PROVE  FreeStep(p, ApplyDailyAnswer(p, d, right, t))
<1> DEFINE run == p.runs[d]
           answered == Least(DailyLength, run.current + 1)
           r == [current |-> answered,
                 score |-> IF right THEN Least(DailyLength, run.score + 1) ELSE run.score,
                 status |-> IF answered >= DailyLength THEN "COMPLETED" ELSE "IN_PROGRESS"]
           q == [p EXCEPT !.runs = [p.runs EXCEPT ![d] = r]]
<1>1. CASE run.status = "COMPLETED"
  BY <1>1, StreakWritten DEF ApplyDailyAnswer
<1>2. CASE run.status # "COMPLETED"
  <2>1. ApplyDailyAnswer(p, d, right, t) \in {RecordPlayerActivity(q, t), SyncPlayerStreak(q, t)}
    BY <1>2 DEF ApplyDailyAnswer, Learns
  <2> HIDE DEF r
  <2>2. FreeStep(p, q)
    BY <1>2, RunKept
  <2> HIDE DEF q
  <2> QED
    BY <2>1, <2>2, StreakWritten, FreeSteps DEF FreeStep
<1> QED
  BY <1>1, <1>2

LEMMA Advances ==
  ASSUME QuizLimits, NEW p, Learns(p), NEW mode
  PROVE  LET q == CheckAndAdvance(p, mode) IN FreeStep(p, q) /\ q.progress \in ProgressRows
<1> DEFINE row == ProgressAtStart(p)
           q == CheckAndAdvance(p, mode)
<1>1. row \in ProgressRows
  BY DEF ProgressAtStart, ProgressRows, Learns, Levels, QuizLimits
<1> DEFINE recent == RecentResults(p.attempts, mode)
           up == [level |-> row.level + 1, mix |-> 0, inMix |-> 0]
           e == IF row.level = MaxLevel THEN [row EXCEPT !.mix = 0, !.inMix = 0]
                ELSE IF row.mix = 0
                THEN IF Len(recent) >= WarmUp /\ AccurateEnough(recent)
                     THEN [row EXCEPT !.mix = 1, !.inMix = 0] ELSE row
                ELSE IF ~recent[1] THEN row
                ELSE IF ~(row.inMix + 1 >= CorrectPerStep) THEN [row EXCEPT !.inMix = @ + 1]
                ELSE IF row.mix < MaxMix THEN [row EXCEPT !.mix = @ + 1, !.inMix = 0]
                ELSE up
<1>2. q = [p EXCEPT !.progress = e]
  BY DEF CheckAndAdvance
<1> HIDE DEF row, recent, q
<1>3. row.level # MaxLevel => up \in ProgressRows
  BY <1>1 DEF ProgressRows, Levels, QuizLimits
<1>4. /\ [row EXCEPT !.mix = 0, !.inMix = 0] \in ProgressRows
      /\ [row EXCEPT !.mix = 1, !.inMix = 0] \in ProgressRows
  BY <1>1 DEF ProgressRows
<1>5. /\ [row EXCEPT !.inMix = @ + 1] \in ProgressRows
      /\ [row EXCEPT !.mix = @ + 1, !.inMix = 0] \in ProgressRows
  <2>1. \A n \in Nat : /\ [row EXCEPT !.inMix = n] \in ProgressRows
                       /\ [row EXCEPT !.mix = n, !.inMix = 0] \in ProgressRows
    BY <1>1 DEF ProgressRows
  <2>2. row.inMix + 1 \in Nat /\ row.mix + 1 \in Nat
    BY <1>1 DEF ProgressRows
  <2> QED
    BY <2>1, <2>2
<1> HIDE DEF up
<1>6. e \in ProgressRows
  BY <1>1, <1>3, <1>4, <1>5
<1> HIDE DEF e
<1>7. QED
  BY <1>2, <1>6 DEF FreeStep, Carries, Learns, q

LEMMA AnswerKept ==
  ASSUME QuizLimits, NEW p, Learns(p), NEW c, NEW key \in Keys, p.sessions[key] # NoRow,
         NEW right, NEW t
  PROVE  LET q == SubmitAnswer(p, c, key, right, t) IN
         /\ FreeStep(p, q)
         /\ p.sessions[key].mode \in AdaptiveModes /\ ~IsReplay(p, c, key) => q.progress \in ProgressRows
<1> DEFINE q == SubmitAnswer(p, c, key, right, t)
           mode == p.sessions[key].mode
           stored == StoreAttempt(p, c, key, right, t)
           active == RecordPlayerActivity(stored, t)
<1>1. FreeStep(p, stored) /\ Learns(stored)
  BY AttemptStored DEF FreeStep
<1>2. FreeStep(p, active) /\ Learns(active)
  <2>1. FreeStep(stored, active)
    <3> HIDE DEF stored
    <3> QED
      BY <1>1, StreakWritten
  <2> HIDE DEF stored, active
  <2> QED
    BY <1>1, <2>1, FreeSteps DEF FreeStep
<1>3. Daily \notin AdaptiveModes
  BY DEF Daily, AdaptiveModes
<1>4. CASE IsReplay(p, c, key)
  BY <1>4, StreakWritten DEF SubmitAnswer
<1>5. CASE ~IsReplay(p, c, key) /\ mode = Daily
  <2>1. q = ApplyDailyAnswer(stored, p.sessions[key].run, right, t)
    BY <1>5 DEF SubmitAnswer
  <2>2. FreeStep(stored, q)
    <3> HIDE DEF stored, q
    <3> QED
      BY <1>1, <2>1, DailyAnswered
  <2> HIDE DEF stored
  <2> QED
    BY <1>1, <1>3, <1>5, <2>2, FreeSteps
<1>6. CASE ~IsReplay(p, c, key) /\ mode # Daily /\ mode \in AdaptiveModes
  <2>1. q = CheckAndAdvance(active, mode)
    BY <1>6 DEF SubmitAnswer
  <2>2. FreeStep(active, q) /\ q.progress \in ProgressRows
    <3> HIDE DEF active, q, mode
    <3> QED
      BY <1>2, <2>1, Advances
  <2> HIDE DEF active
  <2> QED
    BY <1>2, <2>2, FreeSteps
<1>7. CASE ~IsReplay(p, c, key) /\ mode # Daily /\ mode \notin AdaptiveModes
  BY <1>2, <1>7 DEF SubmitAnswer
<1> QED
  BY <1>4, <1>5, <1>6, <1>7

LEMMA StopKept ==
  ASSUME QuizLimits, NEW p, Learns(p), NEW key \in Keys, p.sessions[key] # NoRow
  PROVE  FreeStep(p, AbandonSession(p, key))
<1> DEFINE row == p.sessions[key]
           q == [p EXCEPT !.sessions = [p.sessions EXCEPT ![key] = [p.sessions[key] EXCEPT !.status = "ABANDONED"]]]
           r == [q EXCEPT !.runs = [q.runs EXCEPT ![row.run] = [q.runs[row.run] EXCEPT !.status = "ABANDONED"]]]
<1>1. FreeStep(p, p)
  BY DEF FreeStep, Carries
<1>2. FreeStep(p, q) /\ q.runs = p.runs
  BY StatusSet DEF Learns
<1>3. CASE row.status # "STARTED"
  BY <1>1, <1>3 DEF AbandonSession
<1>4. CASE row.status = "STARTED" /\ (row.run = NoDay \/ p.runs[row.run].status = "COMPLETED")
  <2>1. AbandonSession(p, key) = q
    BY <1>4 DEF AbandonSession, Learns
  <2> QED
    BY <1>2, <2>1
<1>5. CASE row.status = "STARTED" /\ ~(row.run = NoDay \/ p.runs[row.run].status = "COMPLETED")
  <2>1. AbandonSession(p, key) = r
    BY <1>5 DEF AbandonSession, Learns
  <2>2. FreeStep(q, r)
    <3> HIDE DEF q, row
    <3> QED
      BY <1>2, <1>5, RunKept DEF FreeStep
  <2> HIDE DEF q, r
  <2> QED
    BY <1>2, <2>1, <2>2, FreeSteps
<1> QED
  BY <1>3, <1>4, <1>5

-----------------------------------------------------------------------------
(* Every step of a learner. *)

PaidKeys == {k \in Keys : charged[k] # 0}

NextRows == [mode : Modes, level : Levels \cup {NoRow}, at : Ticks]

\* What was paid and what is left is at most what was given until the anchors of the tank;
\* and these do not run ahead of the clock.
TankInv ==
  /\ player.energy.regenAt <= tick /\ player.energy.topup <= Day(tick)
  /\ Cardinality(PaidKeys) + (player.energy.free + player.energy.paid)
       <= (profile.free + profile.paid) + Given(player.energy)

\* A key that was charged has its session.
ChargesInv ==
  charged \in [Keys -> {0, 1}] /\ \A k \in Keys : charged[k] # 0 => player.sessions[k] # NoRow

LearnerInv ==
  /\ tick \in Ticks /\ profile \in Profiles /\ Learns(player)
  /\ \A c \in DOMAIN next : c \in Taps /\ next[c] \in NextRows
  /\ ChargesInv /\ TankInv

LEMMA KeysFinite ==
  ASSUME QuizLimits
  PROVE  IsFiniteSet(PaidKeys) /\ Cardinality(PaidKeys) \in Nat
<1>1. IsFiniteSet(Taps) /\ IsFiniteSet({"start", "auto"})
  <2>1. IsFiniteSet(Taps)
    BY FS_Interval DEF Taps, QuizLimits
  <2>2. IsFiniteSet({"start"}) /\ IsFiniteSet({"start"} \cup {"auto"})
    BY FS_Singleton, FS_AddElement
  <2>3. {"start"} \cup {"auto"} = {"start", "auto"}
    OBVIOUS
  <2> QED
    BY <2>1, <2>2, <2>3
<1>2. IsFiniteSet(Keys)
  BY <1>1, FS_Product DEF Keys
<1> QED
  BY <1>2, FS_Subset, FS_CardinalityType DEF PaidKeys

LEMMA DayKnown ==
  ASSUME QuizLimits, tick \in Ticks, NEW t \in Nat, t <= tick
  PROVE  t \in Ticks /\ Day(t) \in Days /\ Day(t) <= Day(tick)
<1>1. tick \in Nat /\ t \in Ticks /\ t <= Horizon
  BY DEF Ticks, QuizLimits
<1>2. Day(t) \in Nat /\ Day(t) <= Day(Horizon) /\ Day(t) <= Day(tick) /\ Day(Horizon) \in Nat
  BY <1>1, DayTyped, DaysInOrder DEF QuizLimits
<1> QED
  BY <1>1, <1>2 DEF Days

\* The row of the learner as a handler finds it.
LEMMA HomeKept ==
  ASSUME QuizLimits, LearnerInv, NEW h \in Nat, h <= tick, NEW t \in Nat, t <= h
  PROVE  LET p == EnsureHome(player, h) IN
         /\ SyncedTo(p, t) /\ Carries(player, p)
         /\ p.sessions = player.sessions
         /\ p.energy.regenAt <= tick /\ p.energy.topup <= Day(tick)
         /\ Cardinality(PaidKeys) + (p.energy.free + p.energy.paid)
              <= (profile.free + profile.paid) + Given(p.energy)
<1> DEFINE p == EnsureHome(player, h)
<1>1. Learns(p) /\ Carries(player, p) /\ p.sessions = player.sessions
      /\ p.energy = SyncEnergyClock(player.energy, h, scope # "NONE")
  BY HomeSynced DEF LearnerInv
<1>2. player.energy \in Tanks /\ p.energy \in Tanks
  BY <1>1 DEF Learns, LearnerInv
<1> HIDE DEF p
<1>3. /\ p.energy.paid = player.energy.paid
      /\ p.energy.free + Given(player.energy) <= player.energy.free + Given(p.energy)
      /\ p.energy.regenAt = IF h <= player.energy.regenAt THEN player.energy.regenAt ELSE h
      /\ p.energy.topup = IF Day(h) <= player.energy.topup THEN player.energy.topup ELSE Day(h)
  <2> DEFINE premium == scope # "NONE"
             e == player.energy
  <2>1. premium \in BOOLEAN /\ e \in Tanks /\ p.energy = SyncEnergyClock(e, h, premium)
    BY <1>1, <1>2
  <2> HIDE DEF premium, e
  <2>2. /\ p.energy.paid = e.paid /\ p.energy.free + Given(e) <= e.free + Given(p.energy)
        /\ p.energy.regenAt = IF h <= e.regenAt THEN e.regenAt ELSE h
        /\ p.energy.topup = IF Day(h) <= e.topup THEN e.topup ELSE Day(h)
    BY <2>1, SyncGives
  <2> QED
    BY <2>2 DEF e
<1>4. tick \in Nat /\ Day(h) \in Nat /\ Day(t) \in Nat /\ Day(t) <= Day(h) /\ Day(h) <= Day(tick)
      /\ Day(tick) \in Nat
  BY DayTyped, DaysInOrder DEF LearnerInv, Ticks, QuizLimits
<1>5. SyncedTo(p, t)
  BY <1>1, <1>2, <1>3, <1>4 DEF SyncedTo, Tanks
<1>6. p.energy.regenAt <= tick /\ p.energy.topup <= Day(tick)
  BY <1>2, <1>3, <1>4 DEF LearnerInv, TankInv, Tanks
<1>7. Given(p.energy) \in Nat /\ Given(player.energy) \in Nat
  BY <1>2, GivenTyped
<1>8. Cardinality(PaidKeys) + (p.energy.free + p.energy.paid)
              <= (profile.free + profile.paid) + Given(p.energy)
  <2>1. Cardinality(PaidKeys) \in Nat /\ profile.free \in Nat /\ profile.paid \in Nat
    BY KeysFinite DEF LearnerInv, QuizLimits
  <2> QED
    BY <1>2, <1>3, <1>7, <2>1 DEF LearnerInv, TankInv, Tanks
<1>9. QED
  BY <1>1, <1>5, <1>6, <1>8 DEF p

\* The properties of a step that takes no energy for a question.
LEMMA Unpaid ==
  ASSUME QuizLimits, LearnerInv, NEW h \in Nat, h <= tick,
         FreeStep(EnsureHome(player, h), player'),
         UNCHANGED <<tick, profile, charged>>
  PROVE  Learns(player)' /\ ChargesInv' /\ TankInv' /\ QuizStep
<1> DEFINE p == EnsureHome(player, h)
<1>1. /\ SyncedTo(p, h) /\ Carries(player, p) /\ p.energy.regenAt <= tick /\ p.energy.topup <= Day(tick)
      /\ Cardinality(PaidKeys) + (p.energy.free + p.energy.paid)
              <= (profile.free + profile.paid) + Given(p.energy)
  BY HomeKept
<1> HIDE DEF p
<1>2. Learns(player)' /\ Carries(player, player') /\ player'.energy = p.energy
  BY <1>1, CarriesOn DEF FreeStep, p
<1>3. PaidKeys' = PaidKeys
  BY DEF PaidKeys
<1>4. Day(tick)' = Day(tick) /\ Given(player.energy)' = Given(p.energy)
  BY <1>2 DEF Day, Given
<1>5. TankInv'
  BY <1>1, <1>2, <1>3, <1>4 DEF TankInv
<1>6. ChargesInv'
  BY <1>2 DEF ChargesInv, LearnerInv, Carries
<1>7. QuizStep
  BY <1>2 DEF QuizStep, Carries
<1>8. QED
  BY <1>2, <1>5, <1>6, <1>7

\* A start, from the menu or after an answer.
LEMMA StartPaid ==
  ASSUME QuizLimits, LearnerInv, NEW h \in Nat, h <= tick, NEW t \in Nat, t <= h,
         NEW key \in Keys, NEW mode \in Modes, NEW handed \in Levels \cup {NoRow},
         StartFrom(EnsureHome(player, h), key, mode, handed, t),
         UNCHANGED <<tick, profile>>
  PROVE  Learns(player)' /\ ChargesInv' /\ TankInv' /\ QuizStep
<1> DEFINE p == EnsureHome(player, h)
           q == player'
<1>1. /\ SyncedTo(p, t) /\ Carries(player, p) /\ p.sessions = player.sessions
      /\ p.energy.regenAt <= tick /\ p.energy.topup <= Day(tick)
      /\ Cardinality(PaidKeys) + (p.energy.free + p.energy.paid)
              <= (profile.free + profile.paid) + Given(p.energy)
  BY HomeKept
<1>2. q \in StartSession(p, key, mode, handed, t)
      /\ charged' = [charged EXCEPT ![key] =
                     IF mode = Daily THEN @
                     ELSE @ + EnergyTaken([p EXCEPT !.energy =
                                SyncEnergyClock(@, t, scope # "NONE")], q)]
  BY DEF StartFrom
<1> HIDE DEF p
<1>3. Learns(p) /\ p.energy \in Tanks /\ Day(t) \in Days
  BY <1>1, DayKnown DEF SyncedTo, Learns, LearnerInv, Ticks, QuizLimits
<1>4. SyncEnergyClock(p.energy, t, scope # "NONE") = p.energy
  BY <1>1, <1>3, SyncGives DEF SyncedTo
<1>5. [p EXCEPT !.energy = SyncEnergyClock(@, t, scope # "NONE")] = p
  BY <1>3, <1>4 DEF Learns
<1>6. charged' = [charged EXCEPT ![key] = IF mode = Daily THEN charged[key] ELSE charged[key] + EnergyTaken(p, q)]
  BY <1>2, <1>5
<1>7. Starts1(p, q, key) /\ (mode = Daily => q.energy = p.energy)
  BY <1>1, <1>2, <1>3, SessionStarts
<1>8. charged \in [Keys -> {0, 1}] /\ charged[key] \in {0, 1}
  BY DEF LearnerInv, ChargesInv
<1>9. CASE q.energy = p.energy
  <2>1. EnergyTaken(p, q) = 0
    BY <1>3, <1>9 DEF EnergyTaken, Tanks
  <2>2. charged' = charged
    BY <1>6, <1>8, <2>1
  <2>3. FreeStep(p, q)
    BY <1>7, <1>9 DEF Starts1, FreeStep
  <2> QED
    BY <2>2, <2>3, Unpaid DEF p
<1>10. CASE q.energy # p.energy
  <2>1. /\ ConsumedAsset(p.energy) # "NONE" /\ q.energy = Spend(p.energy)
        /\ p.sessions[key] = NoRow /\ q.sessions[key] # NoRow /\ mode # Daily
        /\ Learns(q) /\ Carries(p, q)
    BY <1>7, <1>10 DEF Starts1
  <2>2. /\ q.energy \in Tanks /\ q.energy.regenAt = p.energy.regenAt /\ q.energy.topup = p.energy.topup
        /\ (q.energy.free + q.energy.paid) + 1 = p.energy.free + p.energy.paid
    BY <1>3, <2>1, SpendTakesOne
  <2>3. EnergyTaken(p, q) = 1
    BY <1>3, <2>2 DEF EnergyTaken, Tanks
  <2>4. charged[key] = 0
    BY <1>1, <1>8, <2>1 DEF LearnerInv, ChargesInv
  <2>5. charged' = [charged EXCEPT ![key] = 1]
    BY <1>6, <2>1, <2>3, <2>4
  <2>6. Carries(player, q)
    BY <1>1, <2>1, CarriesOn
  <2>7. \A k \in Keys : charged'[k] = IF k = key THEN 1 ELSE charged[k]
    BY <1>8, <2>5
  <2>8. ChargesInv'
    <3>1. charged' \in [Keys -> {0, 1}]
      BY <1>8, <2>5
    <3> QED
      BY <2>1, <2>6, <2>7, <3>1 DEF ChargesInv, LearnerInv, Carries
  <2>9. QuizStep
    BY <1>1, <2>1, <2>6, <2>7 DEF QuizStep, Carries
  <2>10. Cardinality(PaidKeys') = Cardinality(PaidKeys) + 1
    <3>1. key \notin PaidKeys /\ PaidKeys' = PaidKeys \cup {key}
      BY <2>4, <2>7 DEF PaidKeys
    <3> QED
      BY <3>1, KeysFinite, OneMore
  <2>11. TankInv'
    <3>1. Day(tick)' = Day(tick) /\ Given(player.energy)' = Given(p.energy)
      BY <2>2 DEF Day, Given
    <3>2. /\ Cardinality(PaidKeys) \in Nat /\ profile.free \in Nat /\ profile.paid \in Nat
          /\ Given(p.energy) \in Nat
      BY <1>3, KeysFinite, GivenTyped DEF LearnerInv, QuizLimits
    <3> QED
      BY <1>1, <1>3, <2>2, <2>10, <3>1, <3>2 DEF TankInv, Tanks
  <2> QED
    BY <2>1, <2>8, <2>9, <2>11
<1> QED
  BY <1>9, <1>10

LEMMA LearnerBegins ==
  ASSUME QuizLimits, QuizInit PROVE LearnerInv
<1>1. PICK f \in Profiles :
        /\ profile = f
        /\ player = NewPlayer([NewEnergy(0) EXCEPT !.free = f.free, !.paid = f.paid],
                              NewStreak(0, f.tokens))
  BY DEF QuizInit
<1> DEFINE n == NewEnergy(0)
           e == [n EXCEPT !.free = f.free, !.paid = f.paid]
           s == NewStreak(0, f.tokens)
<1>2. player = NewPlayer(e, s)
  BY <1>1
<1>3. e \in Tanks /\ Day(0) \in Nat /\ e.free = f.free /\ e.paid = f.paid /\ e.regenAt = 0 /\ e.topup = Day(0)
  <2>1. n \in Tanks /\ n.regenAt = 0 /\ n.topup = Day(0) /\ Day(0) \in Nat
    BY DayTyped DEF NewEnergy, Tanks, QuizLimits
  <2>2. f.free \in Nat /\ f.paid \in Nat
    BY DEF QuizLimits
  <2> HIDE DEF n
  <2> QED
    BY <2>1, <2>2 DEF Tanks
<1> HIDE DEF e, s
<1>4. Learns(player) /\ player.energy = e
  BY <1>2, <1>3 DEF NewPlayer, Learns
<1>5. ChargesInv /\ PaidKeys = {}
  BY DEF ChargesInv, PaidKeys, QuizInit
<1>6. Cardinality(PaidKeys) = 0
  BY <1>5, FS_EmptySet
<1>7. tick = 0 /\ tick \in Ticks
  BY DEF QuizInit, Ticks, QuizLimits
<1>8. /\ e.free = profile.free /\ e.paid = profile.paid /\ e.regenAt = 0 /\ e.topup = Day(0)
      /\ profile.free \in Nat /\ profile.paid \in Nat /\ Given(e) \in Nat
  BY <1>1, <1>3, GivenTyped DEF QuizLimits
<1>9. TankInv
  BY <1>3, <1>4, <1>6, <1>7, <1>8 DEF TankInv
<1>10. QED
  BY <1>1, <1>4, <1>5, <1>7, <1>9 DEF LearnerInv, QuizInit

\* A handler's clocks are not ahead.
LEMMA ClocksBehind ==
  ASSUME QuizLimits, tick \in Ticks, NEW w \in ClockPairs
  PROVE  w[1] \in Nat /\ w[2] \in Nat /\ w[1] \in Ticks /\ w[1] <= w[2] /\ w[2] <= tick
BY DEF ClockPairs, Ticks, QuizLimits

LEMMA ModeKnown ==
  ASSUME LearnerInv, NEW mode \in profile.modes PROVE mode \in Modes
BY DEF LearnerInv, Modes

LEMMA LearnerSteps ==
  ASSUME QuizLimits, LearnerInv, [QuizNext]_quizVars
  PROVE  LearnerInv' /\ (QuizStep \/ UNCHANGED quizVars)
<1> USE QuizLimits
<1>1. tick \in Ticks /\ tick \in Nat /\ Learns(player) /\ profile \in Profiles
  BY DEF LearnerInv, Ticks, QuizLimits
<1>2. ASSUME NEW c \in Taps, NEW mode \in profile.modes, NEW w \in ClockPairs,
             StartMode(c, mode, w[1], w[2])
      PROVE  LearnerInv' /\ QuizStep
  <2>1. <<"start", c>> \in Keys /\ NoRow \in Levels \cup {NoRow} /\ mode \in Modes
    BY <1>2, ModeKnown DEF Keys
  <2>2. w[1] \in Nat /\ w[2] \in Nat /\ w[1] <= w[2] /\ w[2] <= tick
    BY <1>1, <1>2, ClocksBehind
  <2>3. /\ StartFrom(EnsureHome(player, w[2]), <<"start", c>>, mode, NoRow, w[1])
        /\ UNCHANGED <<tick, profile, next>>
    BY <1>2 DEF StartMode
  <2>4. Learns(player)' /\ ChargesInv' /\ TankInv' /\ QuizStep
    BY <2>1, <2>2, <2>3, StartPaid
  <2> QED
    BY <1>1, <2>3, <2>4 DEF LearnerInv
<1>3. ASSUME NEW c \in Taps, NEW key \in Keys, NEW right \in BOOLEAN, NEW w \in ClockPairs,
             Answer(c, key, right, w[1], w[2])
      PROVE  LearnerInv' /\ QuizStep
  <2> DEFINE p == EnsureHome(player, w[2])
             on == Following(p, player', c, key, w[1])
  <2>1. w[1] \in Nat /\ w[2] \in Nat /\ w[1] <= w[2] /\ w[2] <= tick /\ w[1] \in Ticks
    BY <1>1, <1>3, ClocksBehind
  <2>2. /\ player.sessions[key] # NoRow
        /\ player' = SubmitAnswer(p, c, key, right, w[1])
        /\ UNCHANGED <<tick, profile, charged>>
        /\ next' = [d \in {e \in DOMAIN next : e # c} \cup {e \in {c} : on # {}} |->
                   IF d = c THEN CHOOSE f \in on : TRUE ELSE next[d]]
    BY <1>3 DEF Answer
  <2>3. SyncedTo(p, w[1]) /\ Learns(p) /\ p.sessions = player.sessions
    BY <2>1, HomeKept DEF SyncedTo
  <2>4. /\ FreeStep(p, player')
        /\ p.sessions[key].mode \in AdaptiveModes /\ ~IsReplay(p, c, key) => player'.progress \in ProgressRows
    <3> HIDE DEF p, on
    <3> QED
      BY <2>2, <2>3, AnswerKept
  <2>5. Learns(player)' /\ ChargesInv' /\ TankInv' /\ QuizStep
    BY <2>1, <2>2, <2>4, Unpaid
  <2>6. on \subseteq NextRows
    <3>1. p.sessions[key] \in QuizSessions
      <4> HIDE DEF p, on
      <4> QED
        BY <2>2, <2>3 DEF Learns
    <3> DEFINE level == IF p.sessions[key].mode \in AdaptiveModes /\ ~IsReplay(p, c, key)
                        THEN player'.progress.level ELSE NoRow
    <3>2. p.sessions[key].mode \in Modes
      BY <3>1 DEF QuizSessions
    <3>3. level \in Levels \cup {NoRow}
      <4> HIDE DEF p, on
      <4> QED
        BY <2>4 DEF ProgressRows
    <3>4. on \subseteq {[mode |-> p.sessions[key].mode, level |-> level, at |-> w[1]]}
      BY DEF Following
    <3> HIDE DEF p, on, level
    <3> QED
      BY <2>1, <3>2, <3>3, <3>4 DEF NextRows
  <2>7. \A d \in DOMAIN next' : d \in Taps /\ next'[d] \in NextRows
    <3> HIDE DEF p, on
    <3>1. on # {} => (CHOOSE f \in on : TRUE) \in NextRows
      BY <2>6
    <3> QED
      BY <2>2, <3>1 DEF LearnerInv
  <2> QED
    BY <1>1, <2>2, <2>5, <2>7 DEF LearnerInv
<1>4. ASSUME NEW c \in Taps, NEW h \in {t \in Ticks : t <= tick /\ t + profile.lag >= tick}, GoOn(c, h)
      PROVE  LearnerInv' /\ QuizStep
  <2>1. /\ c \in DOMAIN next /\ h >= next[c].at
        /\ StartFrom(EnsureHome(player, h), <<"auto", c>>, next[c].mode, next[c].level, next[c].at)
        /\ next' = [d \in DOMAIN next \ {c} |-> next[d]]
        /\ UNCHANGED <<tick, profile>>
    BY <1>4 DEF GoOn
  <2>2. next[c] \in NextRows
    BY <2>1 DEF LearnerInv
  <2>3. /\ next[c].at \in Nat /\ next[c].mode \in Modes /\ next[c].level \in Levels \cup {NoRow}
        /\ h \in Nat /\ h <= tick /\ <<"auto", c>> \in Keys /\ next[c].at <= h
    BY <1>4, <2>1, <2>2 DEF NextRows, Ticks, Keys, QuizLimits
  <2>4. Learns(player)' /\ ChargesInv' /\ TankInv' /\ QuizStep
    BY <2>1, <2>3, StartPaid
  <2>5. \A d \in DOMAIN next' : d \in Taps /\ next'[d] \in NextRows
    BY <2>1 DEF LearnerInv
  <2> QED
    BY <1>1, <2>1, <2>4, <2>5 DEF LearnerInv
<1>5. ASSUME NEW key \in Keys, NEW h \in {t \in Ticks : t <= tick /\ t + profile.lag >= tick}, Stop(key, h)
      PROVE  LearnerInv' /\ QuizStep
  <2> DEFINE p == EnsureHome(player, h)
  <2>1. h \in Nat /\ h <= tick
    BY <1>5 DEF Ticks, QuizLimits
  <2>2. /\ player.sessions[key] # NoRow /\ player' = AbandonSession(p, key)
        /\ UNCHANGED <<tick, profile, charged, next>>
    BY <1>5 DEF Stop
  <2>3. Learns(p) /\ p.sessions = player.sessions
    BY <2>1, HomeKept DEF SyncedTo
  <2>4. FreeStep(p, player')
    <3> HIDE DEF p
    <3> QED
      BY <2>2, <2>3, StopKept
  <2>5. Learns(player)' /\ ChargesInv' /\ TankInv' /\ QuizStep
    BY <2>1, <2>2, <2>4, Unpaid
  <2> QED
    BY <1>1, <2>2, <2>5 DEF LearnerInv
<1>6. ASSUME Pass PROVE LearnerInv' /\ QuizStep
  <2>1. /\ tick < Horizon /\ tick' = tick + 1 /\ UNCHANGED <<player, profile, charged>>
        /\ next' = [c \in {d \in DOMAIN next : next[d].at + profile.lag > tick} |-> next[c]]
    BY <1>6 DEF Pass
  <2>2. tick' \in Ticks /\ tick' \in Nat /\ tick <= tick'
    BY <1>1, <2>1 DEF Ticks, QuizLimits
  <2>3. Day(tick) \in Nat /\ Day(tick') \in Nat /\ Day(tick) <= Day(tick')
    BY <1>1, <2>2, DayTyped, DaysInOrder
  <2>4. player.energy \in Tanks
    BY <1>1 DEF Learns
  <2>5. Day(tick)' = Day(tick') /\ Given(player.energy)' = Given(player.energy) /\ PaidKeys' = PaidKeys
    BY <2>1 DEF Day, Given, PaidKeys
  <2>6. TankInv'
    BY <1>1, <2>1, <2>2, <2>3, <2>4, <2>5 DEF TankInv, LearnerInv, Tanks
  <2>7. ChargesInv'
    BY <2>1 DEF ChargesInv, LearnerInv
  <2>8. \A d \in DOMAIN next' : d \in Taps /\ next'[d] \in NextRows
    BY <2>1 DEF LearnerInv
  <2>9. QuizStep
    BY <2>1 DEF QuizStep
  <2> QED
    BY <1>1, <2>1, <2>2, <2>6, <2>7, <2>8, <2>9 DEF LearnerInv
<1>7. ASSUME PremiumOver PROVE LearnerInv' /\ QuizStep
  <2>1. UNCHANGED <<tick, player, profile, next, charged>>
    BY <1>7 DEF PremiumOver
  <2> QED
    BY <2>1 DEF LearnerInv, ChargesInv, TankInv, PaidKeys, Given, Day, QuizStep, Learns
<1>8. ASSUME SaverRefunded PROVE LearnerInv' /\ QuizStep
  <2> DEFINE s == RemoveSaverTokens(player.streak, 1, Day(tick))
  <2>1. /\ player' = [player EXCEPT !.streak = s]
        /\ UNCHANGED <<tick, profile, next, charged>>
    BY <1>8 DEF SaverRefunded
  <2> HIDE DEF s
  <2>2. FreeStep(player, player')
    BY <1>1, <2>1, StreakOnly
  <2>3. TankInv'
    BY <2>1, <2>2 DEF LearnerInv, TankInv, PaidKeys, Given, Day, FreeStep
  <2>4. ChargesInv'
    BY <2>1, <2>2 DEF LearnerInv, ChargesInv, FreeStep, Carries
  <2>5. QuizStep
    BY <2>1, <2>2 DEF QuizStep, FreeStep, Carries
  <2> QED
    BY <1>1, <2>1, <2>2, <2>3, <2>4, <2>5 DEF LearnerInv, FreeStep
<1>9. ASSUME SaverBought PROVE LearnerInv' /\ QuizStep
  <2> DEFINE s == AddSaverToken(player.streak, Day(tick))
  <2>1. /\ player' = [player EXCEPT !.streak = s]
        /\ UNCHANGED <<tick, profile, next, charged>>
    BY <1>9 DEF SaverBought
  <2> HIDE DEF s
  <2>2. FreeStep(player, player')
    BY <1>1, <2>1, StreakOnly
  <2>3. TankInv'
    BY <2>1, <2>2 DEF LearnerInv, TankInv, PaidKeys, Given, Day, FreeStep
  <2>4. ChargesInv'
    BY <2>1, <2>2 DEF LearnerInv, ChargesInv, FreeStep, Carries
  <2>5. QuizStep
    BY <2>1, <2>2 DEF QuizStep, FreeStep, Carries
  <2> QED
    BY <1>1, <2>1, <2>2, <2>3, <2>4, <2>5 DEF LearnerInv, FreeStep
<1>10. ASSUME UNCHANGED quizVars PROVE LearnerInv'
  BY <1>10 DEF quizVars, LearnerInv, ChargesInv, TankInv, PaidKeys, Given, Day, Learns
<1>11. QED
  BY <1>2, <1>3, <1>4, <1>5, <1>6, <1>7, <1>8, <1>9, <1>10 DEF QuizNext

LEMMA LearnerAlways == ASSUME QuizLimits PROVE QuizSpec => []LearnerInv
<1>1. QuizInit => LearnerInv
  BY LearnerBegins
<1>2. LearnerInv /\ [QuizNext]_quizVars => LearnerInv'
  BY LearnerSteps
<1>3. QED
  BY <1>1, <1>2, PTL DEF QuizSpec

\* Nobody plays for more energy than he was given: what he began with, a unit for each
\* interval and a full tank for each day; whatever clocks the handlers have and however
\* often their updates are handled again.
THEOREM EnergyCoversThm == ASSUME QuizLimits PROVE QuizSpec => []EnergyCovers
<1>1. LearnerInv => EnergyCovers
  <2> SUFFICES ASSUME LearnerInv PROVE EnergyCovers
    OBVIOUS
  <2> DEFINE e == player.energy
  <2>1. e \in Tanks /\ tick \in Nat /\ Day(tick) \in Nat
    BY DayTyped DEF LearnerInv, Learns, Ticks, QuizLimits
  <2>2. /\ FreeCap * e.topup \in Nat /\ FreeCap * Day(tick) \in Nat
        /\ FreeCap * e.topup <= FreeCap * Day(tick)
    <3>1. e.topup \in Nat /\ e.topup <= Day(tick)
      BY <2>1 DEF LearnerInv, TankInv, Tanks
    <3> QED
      BY <2>1, <3>1, TankPerDay
  <2>3. /\ Cardinality(PaidKeys) \in Nat /\ profile.free \in Nat /\ profile.paid \in Nat
    BY KeysFinite DEF LearnerInv, QuizLimits
  <2>4. Cardinality(PaidKeys) + e.free + e.paid
          <= profile.free + profile.paid + tick + FreeCap * Day(tick)
    BY <2>1, <2>2, <2>3 DEF LearnerInv, TankInv, Given, Tanks
  <2> QED
    BY <2>4 DEF EnergyCovers, PaidKeys
<1>2. QED
  BY <1>1, LearnerAlways, PTL

\* Energy is taken only for a question that was not there, once for its key, and a run of a
\* day that is completed stays as it is.
THEOREM QuizStepThm == ASSUME QuizLimits PROVE QuizSpec => [][QuizStep]_quizVars
<1>1. LearnerInv /\ [QuizNext]_quizVars => [QuizStep]_quizVars
  BY LearnerSteps
<1>2. QED
  BY <1>1, LearnerAlways, PTL DEF QuizSpec
=============================================================================
