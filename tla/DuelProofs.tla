----------------------------- MODULE DuelProofs -----------------------------
(***************************************************************************)
(* Theorems about Duel, for all sets of friends, questions and plans and   *)
(* any number of rounds.  What the row of a duel must look like (RowOK) is *)
(* shown of each helper the handlers share; the actions follow from that.  *)
(* The theorems that assume Listing = {} are false with the list "Meine    *)
(* Duelle", which writes over what it has not locked.                      *)
(***************************************************************************)
EXTENDS Duel, FiniteSetTheorems, TLAPS

\* A row no side of which has more points than answers.
Fits(d) == d \in Rows /\ \A s \in Sides : d.score[s] <= d.answered[s]

\* WinnerEarned, as a predicate on a row.
WinnerFits(d) ==
  /\ d.status = "COMPLETED" =>
       /\ \A s \in Sides : d.answered[s] = Rounds
       /\ d.winner = Leader(d.score)
  /\ d.status = "WALKOVER" =>
       \A s \in Sides :
         /\ d.winner = s <=> d.answered[s] = Rounds /\ \E x \in Sides : d.answered[x] < Rounds
         /\ d.winner # s => d.score[s] = 0
  /\ d.status \notin {"COMPLETED", "WALKOVER"} => d.winner = "none"

\* What the status says of the seats and of the answers.
StatusFits(d) ==
  /\ d.status = "PENDING" => d.opponent = NoUser /\ d.answered["creator"] < Rounds
  /\ d.status \in Playable /\ d.opponent = NoUser => d.answered["creator"] = Rounds
  /\ d.status \in Active => \E s \in Sides : d.answered[s] < Rounds

RowOK(d) ==
  /\ Fits(d)
  /\ \A s \in Sides : d.finished[s] => d.answered[s] = Rounds
  /\ d.opponent = NoUser => d.answered["opponent"] = 0 /\ d.score["opponent"] = 0
  /\ StatusFits(d)
  /\ WinnerFits(d)

-----------------------------------------------------------------------------
(* What the helpers do to a row. *)

LEMMA NewRowOK ==
  ASSUME NEW st, NEW o, \/ st = "PENDING" /\ o = NoUser
                        \/ st = "ACCEPTED" /\ o \in Friends
  PROVE  RowOK(NewRow(st, o))
BY RoundsAssumption, PlayersAssumption
   DEF RowOK, Fits, WinnerFits, StatusFits, NewRow, Rows, Sides, Active, Playable, Over

LEMMA ExpiredFits ==
  ASSUME NEW d, Fits(d)
  PROVE  /\ Fits(Expired(d))
         /\ Expired(d).opponent = d.opponent
         /\ Expired(d).answered = d.answered
         /\ Expired(d).finished = d.finished
         /\ Expired(d).status = IF d.status = "PENDING" THEN "EXPIRED" ELSE "WALKOVER"
         /\ \A s \in Sides : Expired(d).score[s] \in {0, d.score[s]}
<1>1. TechnicalWinner(d) \in Sides \cup {"none"} BY DEF TechnicalWinner, Sides
<1>2. CASE d.status = "PENDING"
  BY <1>2 DEF Fits, Expired, Rows, Over, Sides
<1>3. CASE d.status # "PENDING"
  <2> DEFINE forfeited == [s \in Sides |-> IF s = TechnicalWinner(d) THEN d.score[s] ELSE 0]
  <2>1. Expired(d) = [d EXCEPT !.status = "WALKOVER", !.winner = TechnicalWinner(d),
                               !.score = forfeited]
    BY <1>3 DEF Expired
  <2>2. /\ forfeited \in [Sides -> 0..Rounds]
        /\ \A s \in Sides : forfeited[s] \in {0, d.score[s]} /\ forfeited[s] <= d.answered[s]
    BY RoundsAssumption DEF Fits, Rows
  <2> HIDE DEF forfeited
  <2> QED BY <1>1, <1>3, <2>1, <2>2 DEF Fits, Rows, Over
<1> QED BY <1>2, <1>3

LEMMA RefreshedFits ==
  ASSUME NEW d, NEW late \in BOOLEAN, Fits(d)
  PROVE  /\ Fits(Refreshed(d, late))
         /\ Refreshed(d, late).opponent = d.opponent
         /\ Refreshed(d, late).answered = d.answered
         /\ \/ Refreshed(d, late) = d
            \/ d.status \in Active /\ Refreshed(d, late) = Expired(d)
         /\ Refreshed(d, late).status \in Active => Refreshed(d, late) = d
BY ExpiredFits DEF Refreshed, Active, Playable

LEMMA SeatedFits ==
  ASSUME NEW d, NEW u \in Players, Fits(d)
  PROVE  /\ Fits(Seated(d, u))
         /\ Seated(d, u).answered = d.answered
         /\ Seated(d, u).score = d.score
         /\ d.opponent # NoUser => Seated(d, u) = d
         /\ d.status \notin Active => Seated(d, u) = d
BY PlayersAssumption DEF Fits, Seated, Rows, Active, Playable, Players

LEMMA CountedFits ==
  ASSUME NEW d, NEW s \in Sides, NEW r \in 1..Rounds, NEW correct \in BOOLEAN, Fits(d)
  PROVE  /\ Fits(Counted(d, s, r, correct))
         /\ Counted(d, s, r, correct).status = d.status
         /\ Counted(d, s, r, correct).opponent = d.opponent
         /\ Counted(d, s, r, correct).winner = d.winner
         /\ Counted(d, s, r, correct).finished = d.finished
         /\ Counted(d, s, r, correct).answered =
              [d.answered EXCEPT ![s] = IF d.answered[s] < r THEN r ELSE @]
         /\ Counted(d, s, r, correct).score =
              [d.score EXCEPT ![s] = IF d.answered[s] < r /\ correct THEN @ + 1 ELSE @]
<1>1. CASE d.answered[s] < r
  <2>1. /\ d \in Rows /\ d.score[s] \in 0..Rounds /\ d.answered[s] \in 0..Rounds
        /\ d.score \in [Sides -> 0..Rounds] /\ d.answered \in [Sides -> 0..Rounds]
    BY DEF Fits, Rows
  <2> DEFINE points == IF correct THEN d.score[s] + 1 ELSE d.score[s]
             score == [d.score EXCEPT ![s] = points]
             answered == [d.answered EXCEPT ![s] = r]
  <2>2. points \in 0..Rounds /\ points <= r
    BY <1>1, <2>1, RoundsAssumption DEF Fits
  <2>3. /\ score \in [Sides -> 0..Rounds] /\ answered \in [Sides -> 0..Rounds]
        /\ \A x \in Sides : score[x] <= answered[x]
    BY <2>1, <2>2, RoundsAssumption DEF Fits
  <2>4. Counted(d, s, r, correct) = [d EXCEPT !.answered = answered, !.score = score]
    BY <1>1, <2>1 DEF Counted, Rows
  <2>5. /\ answered = [d.answered EXCEPT ![s] = IF d.answered[s] < r THEN r ELSE @]
        /\ score = [d.score EXCEPT ![s] = IF d.answered[s] < r /\ correct THEN @ + 1 ELSE @]
    BY <1>1
  <2> HIDE DEF score, answered
  <2> QED BY <2>1, <2>3, <2>4, <2>5 DEF Fits, Rows
<1>2. CASE ~(d.answered[s] < r)
  <2>1. /\ d.answered = [d.answered EXCEPT ![s] = IF d.answered[s] < r THEN r ELSE @]
        /\ d.score = [d.score EXCEPT ![s] = IF d.answered[s] < r /\ correct THEN @ + 1 ELSE @]
    BY <1>2 DEF Fits, Rows
  <2> QED BY <1>2, <2>1 DEF Counted
<1> QED BY <1>1, <1>2

LEMMA SettledFits ==
  ASSUME NEW d, Fits(d)
  PROVE  /\ Fits(Settled(d))
         /\ Settled(d).opponent = d.opponent
         /\ Settled(d).answered = d.answered
         /\ Settled(d).score = d.score
         /\ Settled(d).status \in Active \cup {"COMPLETED"}
<1>1. Leader(d.score) \in Sides \cup {"none"} BY DEF Leader, Sides
<1>2. \A s \in Sides : Done(d, s) \in BOOLEAN BY DEF Done, Fits, Rows
<1> QED BY <1>1, <1>2 DEF Fits, Settled, Rows, Sides, Active, Playable, Over

-----------------------------------------------------------------------------
(* What the helpers keep of RowOK. *)

LEMMA DoneMeansAnswered ==
  ASSUME NEW d, RowOK(d), NEW s \in Sides
  PROVE  Done(d, s) <=> d.answered[s] = Rounds
BY RoundsAssumption DEF RowOK, Fits, Done, Rows

LEMMA TechnicalWinnerIsSole ==
  ASSUME NEW d, RowOK(d)
  PROVE  /\ TechnicalWinner(d) \in Sides \cup {"none"}
         /\ \A s \in Sides : TechnicalWinner(d) = s
              <=> d.answered[s] = Rounds /\ \E x \in Sides : d.answered[x] < Rounds
<1>1. /\ d.answered["creator"] \in 0..Rounds
      /\ d.answered["opponent"] \in 0..Rounds
  BY DEF RowOK, Fits, Rows, Sides
<1>2. /\ Done(d, "creator") <=> d.answered["creator"] = Rounds
      /\ Done(d, "opponent") <=> d.answered["opponent"] = Rounds
  BY DoneMeansAnswered DEF Sides
<1> QED BY <1>1, <1>2, RoundsAssumption DEF TechnicalWinner, Sides

LEMMA ExpiredOK ==
  ASSUME NEW d, RowOK(d), d.status \in Active
  PROVE  RowOK(Expired(d))
<1>1. Fits(d) BY DEF RowOK
<1>2. Expired(d).opponent = NoUser => Expired(d).score["opponent"] = 0
  BY <1>1, ExpiredFits DEF RowOK, Sides
<1>3. WinnerFits(Expired(d))
  <2>1. CASE d.status = "PENDING"
    BY <2>1, <1>1, ExpiredFits DEF Expired, WinnerFits, Fits, Rows
  <2>2. CASE d.status # "PENDING"
    <3>1. Expired(d).winner = TechnicalWinner(d) /\ Expired(d).status = "WALKOVER"
      BY <2>2, <1>1 DEF Expired, Fits, Rows
    <3>2. \A s \in Sides : TechnicalWinner(d) # s => Expired(d).score[s] = 0
      BY <2>2, <1>1 DEF Expired, Fits, Rows
    <3> QED BY <3>1, <3>2, <1>1, TechnicalWinnerIsSole, ExpiredFits DEF WinnerFits
  <2> QED BY <2>1, <2>2
<1> QED BY <1>1, <1>2, <1>3, ExpiredFits DEF RowOK, StatusFits, Active, Playable

LEMMA RefreshedOK ==
  ASSUME NEW d, RowOK(d), NEW late \in BOOLEAN
  PROVE  RowOK(Refreshed(d, late))
BY ExpiredOK, RefreshedFits DEF RowOK

LEMMA SeatedOK ==
  ASSUME NEW d, RowOK(d), NEW u \in Players
  PROVE  RowOK(Seated(d, u))
<1>1. CASE d.status \in Active /\ d.opponent = NoUser /\ u # Creator
  <2>1. /\ Seated(d, u).status = "ACCEPTED" /\ Seated(d, u).opponent = u
        /\ Seated(d, u).winner = d.winner /\ Seated(d, u).finished = d.finished
    BY <1>1 DEF Seated, RowOK, Fits, Rows
  <2>2. d.winner = "none" /\ u # NoUser /\ \E s \in Sides : d.answered[s] < Rounds
    BY <1>1, PlayersAssumption DEF RowOK, WinnerFits, StatusFits, Active, Playable, Players
  <2>3. Fits(d) BY DEF RowOK
  <2>4. StatusFits(Seated(d, u)) /\ WinnerFits(Seated(d, u))
    BY <2>1, <2>2, <2>3, SeatedFits DEF StatusFits, WinnerFits
  <2> QED BY <2>1, <2>2, <2>3, <2>4, SeatedFits DEF RowOK
<1>2. CASE ~(d.status \in Active /\ d.opponent = NoUser /\ u # Creator)
  BY <1>2 DEF Seated
<1> QED BY <1>1, <1>2

LEMMA AnsweredOK ==
  ASSUME NEW d, RowOK(d), NEW u \in Players, InDuel(d, u), PlayableFor(d, u),
         NEW r \in 1..Rounds, NEW correct \in BOOLEAN
  PROVE  RowOK(Settled(Counted(d, SideOf(u), r, correct)))
<1> DEFINE c == Counted(d, SideOf(u), r, correct)
<1>1. Fits(d) /\ SideOf(u) \in Sides BY DEF RowOK, SideOf, Sides
<1>2. /\ Fits(c) /\ c.opponent = d.opponent /\ c.finished = d.finished /\ c.winner = d.winner
      /\ c.answered = [d.answered EXCEPT ![SideOf(u)] = IF d.answered[SideOf(u)] < r THEN r ELSE @]
      /\ c.score = [d.score EXCEPT ![SideOf(u)] = IF d.answered[SideOf(u)] < r /\ correct THEN @ + 1 ELSE @]
  BY <1>1, CountedFits
<1> HIDE DEF c
<1>3. \A s \in Sides : c.finished[s] => c.answered[s] = Rounds
  BY <1>1, <1>2, RoundsAssumption DEF RowOK, Fits, Rows
<1>4. \A s \in Sides : Done(c, s) <=> c.answered[s] = Rounds
  BY <1>2, <1>3, RoundsAssumption DEF Fits, Rows, Done
<1>5. d.opponent = NoUser => u = Creator /\ SideOf(u) = "creator"
  BY PlayersAssumption DEF InDuel, SideOf, Players
<1>6. c.opponent = NoUser => c.answered["opponent"] = 0 /\ c.score["opponent"] = 0
  BY <1>1, <1>2, <1>5 DEF RowOK, Fits, Rows, Sides
<1>7. d.winner = "none"
  BY DEF PlayableFor, Playable, RowOK, WinnerFits
<1>8. \A s \in Sides : c.answered[s] \in 0..Rounds BY <1>2 DEF Fits, Rows
<1> DEFINE t == Settled(c)
<1>9. /\ Fits(t) /\ t.opponent = c.opponent /\ t.answered = c.answered /\ t.score = c.score
  BY <1>2, SettledFits
<1>10. \A s \in Sides : t.finished[s] <=> c.answered[s] = Rounds
  BY <1>2, <1>4 DEF Settled, Fits, Rows
<1>11. ASSUME \A s \in Sides : c.answered[s] = Rounds PROVE RowOK(t)
  <2>1. Done(c, "creator") /\ Done(c, "opponent")
    BY <1>4, <1>11 DEF Sides
  <2>2. t.status = "COMPLETED" /\ t.winner = Leader(c.score)
    BY <2>1, <1>2 DEF Settled, Fits, Rows, Sides
  <2> HIDE DEF t
  <2> QED BY <2>2, <1>6, <1>9, <1>10, <1>11 DEF RowOK, StatusFits, WinnerFits, Active, Playable
<1>12. ASSUME \E s \in Sides : c.answered[s] < Rounds PROVE RowOK(t)
  <2>0. ~(Done(c, "creator") /\ Done(c, "opponent"))
    BY <1>4, <1>8, <1>12, RoundsAssumption DEF Sides
  <2>1. /\ t.winner = "none"
        /\ t.status = IF c.answered["creator"] = Rounds THEN "CREATOR_DONE"
                      ELSE IF c.answered["opponent"] = Rounds THEN "OPPONENT_DONE"
                      ELSE IF c.opponent # NoUser THEN "ACCEPTED" ELSE "PENDING"
    BY <2>0, <1>2, <1>4, <1>7 DEF Settled, Fits, Rows, Sides
  <2>2. WinnerFits(t) BY <2>1 DEF WinnerFits
  <2>3. StatusFits(t)
    BY <2>1, <1>6, <1>8, <1>9, <1>12, RoundsAssumption DEF StatusFits, Playable, Active, Sides
  <2> HIDE DEF t
  <2> QED BY <2>2, <2>3, <1>6, <1>9, <1>10 DEF RowOK
<1> QED BY <1>8, <1>11, <1>12, RoundsAssumption DEF c

LEMMA CanceledOK ==
  ASSUME NEW d, RowOK(d), d.status = "EXPIRED"
  PROVE  RowOK([d EXCEPT !.status = "CANCELED"])
<1> DEFINE e == [d EXCEPT !.status = "CANCELED"]
<1>1. /\ e.status = "CANCELED" /\ e.winner = d.winner /\ e.score = d.score
      /\ e.answered = d.answered /\ e.finished = d.finished /\ e.opponent = d.opponent
      /\ Fits(e)
  BY DEF RowOK, Fits, Rows, Over
<1> HIDE DEF e
<1>2. RowOK(e)
  BY <1>1 DEF RowOK, StatusFits, WinnerFits, Active, Playable
<1> QED BY <1>2 DEF e

LEMMA OverwrittenFits ==
  ASSUME NEW d, NEW e, Fits(d), Fits(e)
  PROVE  /\ Fits(Overwritten(d, e))
         /\ Overwritten(d, e).opponent = d.opponent
         /\ Overwritten(d, e).answered = d.answered
         /\ Overwritten(d, e).status \in Over
<1> DEFINE new == Expired(e)
           winner == IF new.winner # e.winner THEN new.winner ELSE d.winner
           score == [s \in Sides |-> IF new.score[s] # e.score[s] THEN new.score[s] ELSE d.score[s]]
<1>1. /\ Fits(new) /\ new.status \in {"EXPIRED", "WALKOVER"}
      /\ \A s \in Sides : new.score[s] \in {0, e.score[s]}
  BY ExpiredFits
<1>2. Overwritten(d, e) = [d EXCEPT !.status = new.status, !.winner = winner, !.score = score]
  BY DEF Overwritten
<1> HIDE DEF new
<1>3. winner \in Sides \cup {"none"} BY <1>1 DEF Fits, Rows
<1>4. /\ score \in [Sides -> 0..Rounds]
      /\ \A s \in Sides : score[s] <= d.answered[s]
  BY <1>1, RoundsAssumption DEF Fits, Rows
<1> HIDE DEF winner, score
<1> QED BY <1>1, <1>2, <1>3, <1>4 DEF Fits, Rows, Over

-----------------------------------------------------------------------------
(* Types. *)

TypeInv ==
  /\ TypeOK
  /\ Fits(duel)
  /\ \A l \in lists : Fits(l.row)

LEMMA ChoiceInBank ==
  ASSUME TypeOK, NEW r \in 1..Rounds
  PROVE  ChoiceFor(r) \subseteq Questions
<1>1. plan[r] \in Questions \cup {NoQuestion} BY QuestionsAssumption DEF TypeOK
<1>2. \A u \in Players : asked[u][r] \in Questions \cup {NoQuestion} BY DEF TypeOK
<1> QED BY <1>1, <1>2 DEF ChoiceFor

\* What opening a round does, on whatever row the handler has.
LEMMA RoundOpened ==
  ASSUME TypeOK, NEW d, Fits(d), NEW u \in Players, OpenRound(d, u)
  PROVE  \/ asked' = asked
         \/ \E r \in 1..Rounds, q \in Questions :
              /\ q \in ChoiceFor(r)
              /\ r = d.answered[SideOf(u)] + 1
              /\ InDuel(d, u)
              /\ asked[u][r] = NoQuestion
              /\ asked' = [asked EXCEPT ![u][r] = q]
<1>1. SideOf(u) \in Sides BY DEF SideOf, Sides
<1>2. d.answered[SideOf(u)] \in 0..Rounds BY <1>1 DEF Fits, Rows
<1> QED BY <1>2, ChoiceInBank, RoundsAssumption DEF OpenRound

LEMMA AskedType ==
  ASSUME TypeOK, NEW d, Fits(d), NEW u \in Players, OpenRound(d, u)
  PROVE  asked' \in [Players -> [1..Rounds -> Questions \cup {NoQuestion}]]
<1>1. CASE asked' = asked BY <1>1 DEF TypeOK
<1>2. ASSUME NEW r \in 1..Rounds, NEW q \in Questions, asked' = [asked EXCEPT ![u][r] = q]
      PROVE  asked' \in [Players -> [1..Rounds -> Questions \cup {NoQuestion}]]
  BY <1>2 DEF TypeOK
<1> QED BY <1>1, <1>2, RoundOpened

LEMMA TypeInit == Init => TypeInv
<1> SUFFICES ASSUME Init PROVE TypeInv OBVIOUS
<1>1. RowOK(duel) BY NewRowOK DEF Init
<1> QED BY <1>1 DEF Init, TypeInv, TypeOK, RowOK, Fits

LEMMA TypeNext == TypeInv /\ [Next]_vars => TypeInv'
<1> SUFFICES ASSUME TypeInv, [Next]_vars PROVE TypeInv' OBVIOUS
<1> USE DEF TypeInv
<1>1. TypeOK /\ Fits(duel) OBVIOUS
<1>2. \A late \in BOOLEAN : Fits(Refreshed(duel, late)) BY RefreshedFits
<1>3. ASSUME NEW u \in Players, NEW late \in Clock, Join(u, late) PROVE TypeInv'
  <2>1. late \in BOOLEAN BY <1>3 DEF Clock
  <2>2. Fits(Seated(Refreshed(duel, late), u)) BY <1>2, <2>1, SeatedFits
  <2>3. asked' \in [Players -> [1..Rounds -> Questions \cup {NoQuestion}]]
    BY <1>3, <2>2, AskedType DEF Join
  <2>4. duel' = Seated(Refreshed(duel, late), u) /\ due' \in BOOLEAN
    BY <1>3 DEF Join, TypeOK
  <2> QED BY <1>3, <2>2, <2>3, <2>4 DEF Join, TypeOK, Fits
<1>4. ASSUME NEW u \in Players, NEW late \in Clock, StartRound(u, late) PROVE TypeInv'
  <2>1. late \in BOOLEAN BY <1>4 DEF Clock
  <2>2. asked' \in [Players -> [1..Rounds -> Questions \cup {NoQuestion}]]
    BY <1>2, <1>4, <2>1, AskedType DEF StartRound
  <2> QED BY <1>2, <1>4, <2>1, <2>2 DEF StartRound, TypeOK, Fits
<1>5. ASSUME NEW u \in Players, NEW late \in Clock, NEW r \in 1..Rounds,
             NEW correct \in BOOLEAN, Answer(u, r, correct, late)
      PROVE  TypeInv'
  <2>1. late \in BOOLEAN BY <1>5 DEF Clock
  <2>2. SideOf(u) \in Sides BY DEF SideOf, Sides
  <2>3. Fits(Settled(Counted(Refreshed(duel, late), SideOf(u), r, correct)))
    BY <1>2, <2>1, <2>2, CountedFits, SettledFits
  <2>4. Fits(duel') BY <1>2, <1>5, <2>1, <2>3 DEF Answer
  <2>5. first' \in [Players -> [1..Rounds -> {"none", "right", "wrong"}]]
    <3>1. first \in [Players -> [1..Rounds -> {"none", "right", "wrong"}]] BY DEF TypeOK
    <3>2. \/ first' = first
          \/ \E answer \in {"none", "right", "wrong"} : first' = [first EXCEPT ![u][r] = answer]
      BY <1>5, <3>1 DEF Answer
    <3>3. ASSUME NEW answer \in {"none", "right", "wrong"}, first' = [first EXCEPT ![u][r] = answer]
          PROVE  first' \in [Players -> [1..Rounds -> {"none", "right", "wrong"}]]
      BY <3>1, <3>3
    <3> QED BY <3>1, <3>2, <3>3
  <2> QED BY <1>5, <2>4, <2>5 DEF Answer, TypeOK, Fits
<1>6. ASSUME NEW late \in Clock, Cancel(late) PROVE TypeInv'
  <2>1. late \in BOOLEAN BY <1>6 DEF Clock
  <2>2. Fits(Refreshed(duel, late)) BY <1>2, <2>1
  <2>3. \/ duel' = Refreshed(duel, late)
        \/ duel' = [Refreshed(duel, late) EXCEPT !.status = "CANCELED"]
    BY <1>6 DEF Cancel
  <2>4. Fits(duel')
    <3> HIDE DEF TypeInv
    <3> QED BY <2>2, <2>3 DEF Fits, Rows, Over
  <2> QED BY <1>6, <2>4 DEF Cancel, TypeOK, Fits
<1>7. CASE Refresh BY <1>2, <1>7 DEF Refresh, TypeOK, Fits
<1>8. CASE ExpireDue BY <1>2, <1>8 DEF ExpireDue, TypeOK, Fits
<1>9. ASSUME NEW u \in Listing, LoadMyDuels(u) PROVE TypeInv'
  BY <1>9, ListingAssumption DEF LoadMyDuels, TypeOK, Fits, Players
<1>10. ASSUME NEW u \in Listing, WriteMyDuels(u) PROVE TypeInv'
  <2>1. PICK l \in lists : duel' = Overwritten(duel, l.row) BY <1>10 DEF WriteMyDuels
  <2>2. Fits(duel') BY <1>1, <2>1, OverwrittenFits
  <2>3. lists' \subseteq lists BY <1>10 DEF WriteMyDuels
  <2> QED BY <1>10, <2>2, <2>3 DEF WriteMyDuels, TypeOK, Fits
<1>11. CASE DeadlinePasses BY <1>11 DEF DeadlinePasses, TypeOK
<1>12. ASSUME NEW q \in Retirable, Retire(q) PROVE TypeInv'
  BY <1>12, QuestionsAssumption DEF Retire, TypeOK
<1>13. CASE UNCHANGED vars BY <1>13 DEF vars, TypeOK, Fits
<1> QED BY <1>3, <1>4, <1>5, <1>6, <1>7, <1>8, <1>9, <1>10, <1>11, <1>12, <1>13 DEF Next, Play

LEMMA TypeInvariant == Spec => []TypeInv
BY TypeInit, TypeNext, PTL DEF Spec

\* Every column keeps its type, whatever lists are written over it: no score
\* runs past the number of rounds.
THEOREM TypeCorrect == Spec => []TypeOK
<1>1. TypeInv => TypeOK BY DEF TypeInv
<1> QED BY <1>1, TypeInvariant, PTL

-----------------------------------------------------------------------------
(* What a step may do to the row, the sessions and the history.  The        *)
(* invariants below are shown of these four kinds of steps.                 *)

\* A handler opens a round on the row d it leaves behind.
Opened(d, u) == duel' = d /\ OpenRound(d, u) /\ first' = first

\* A handler or the job refreshes the row and changes nothing else that counts.
Untouched == asked' = asked /\ first' = first

LEMMA StepKinds ==
  ASSUME TypeInv, [Next]_vars
  PROVE  \/ \E u \in Players, late \in BOOLEAN : Opened(Seated(Refreshed(duel, late), u), u)
         \/ \E u \in Players, late \in BOOLEAN : Opened(Refreshed(duel, late), u)
         \/ \E u \in Players, r \in 1..Rounds, correct, late \in BOOLEAN :
              Answer(u, r, correct, late) /\ PlayableFor(Refreshed(duel, late), u)
         \/ Untouched /\ \E late \in BOOLEAN :
              \/ duel' = Refreshed(duel, late)
              \/ /\ Refreshed(duel, late).status = "EXPIRED"
                 /\ duel' = [Refreshed(duel, late) EXCEPT !.status = "CANCELED"]
         \/ Untouched /\ \E l \in lists : duel' = Overwritten(duel, l.row)
         \/ Untouched /\ duel' = duel
<1>1. Clock \subseteq BOOLEAN BY DEF Clock
<1>2. ASSUME NEW u \in Players, NEW late \in Clock, Join(u, late)
      PROVE  Opened(Seated(Refreshed(duel, late), u), u)
  BY <1>2 DEF Join, Opened
<1>3. ASSUME NEW u \in Players, NEW late \in Clock, StartRound(u, late)
      PROVE  Opened(Refreshed(duel, late), u)
  BY <1>3 DEF StartRound, Opened
<1>4. ASSUME NEW u \in Players, NEW late \in Clock, NEW r \in 1..Rounds,
             NEW correct \in BOOLEAN, Answer(u, r, correct, late)
      PROVE  \/ PlayableFor(Refreshed(duel, late), u)
             \/ Untouched /\ duel' = Refreshed(duel, late)
  BY <1>4 DEF Answer, Untouched
<1>5. ASSUME NEW late \in Clock, Cancel(late)
      PROVE  /\ Untouched
             /\ \/ duel' = Refreshed(duel, late)
                \/ /\ Refreshed(duel, late).status = "EXPIRED"
                   /\ duel' = [Refreshed(duel, late) EXCEPT !.status = "CANCELED"]
  BY <1>5 DEF Cancel, Untouched
<1>6. CASE Refresh \/ ExpireDue BY <1>6 DEF Refresh, ExpireDue, Untouched
<1>7. ASSUME NEW u \in Listing, WriteMyDuels(u)
      PROVE  Untouched /\ \E l \in lists : duel' = Overwritten(duel, l.row)
  BY <1>7 DEF WriteMyDuels, Untouched
<1>8. CASE \/ \E u \in Listing : LoadMyDuels(u)
           \/ DeadlinePasses
           \/ \E q \in Retirable : Retire(q)
           \/ UNCHANGED vars
  BY <1>8 DEF LoadMyDuels, DeadlinePasses, Retire, vars, Untouched
<1> QED BY <1>1, <1>2, <1>3, <1>4, <1>5, <1>6, <1>7, <1>8 DEF Next, Play

LEMMA SideOfIsSide == \A u \in Players : SideOf(u) \in Sides BY DEF SideOf, Sides

\* The row after an answer that a playing player gave.
LEMMA AnsweredFits ==
  ASSUME TypeInv, NEW u \in Players, NEW r \in 1..Rounds, NEW correct \in BOOLEAN,
         NEW late \in BOOLEAN, Answer(u, r, correct, late),
         PlayableFor(Refreshed(duel, late), u)
  PROVE  /\ duel' = Settled(Counted(duel, SideOf(u), r, correct))
         /\ duel.status \in Active /\ duel'.status \in Active \cup {"COMPLETED"}
         /\ InDuel(duel, u) /\ PlayableFor(duel, u) /\ asked[u][r] # NoQuestion /\ asked' = asked
         /\ duel'.opponent = duel.opponent
         /\ duel'.answered = [duel.answered EXCEPT ![SideOf(u)] =
                                IF duel.answered[SideOf(u)] < r THEN r ELSE @]
         /\ duel'.score = [duel.score EXCEPT ![SideOf(u)] =
                             IF duel.answered[SideOf(u)] < r /\ correct THEN @ + 1 ELSE @]
<1>1. Fits(duel) BY DEF TypeInv
<1>2. Refreshed(duel, late) = duel
  BY <1>1, RefreshedFits DEF PlayableFor, Active
<1>3. duel' = Settled(Counted(duel, SideOf(u), r, correct))
  BY <1>2 DEF Answer
<1>4. Fits(Counted(duel, SideOf(u), r, correct)) BY <1>1, SideOfIsSide, CountedFits
<1>5. duel.status \in Active BY <1>2 DEF PlayableFor, Active
<1>6. InDuel(duel, u) /\ PlayableFor(duel, u) /\ asked[u][r] # NoQuestion /\ asked' = asked
  BY <1>2 DEF Answer
<1> QED BY <1>1, <1>3, <1>4, <1>5, <1>6, SideOfIsSide, CountedFits, SettledFits

\* Seats are kept and answers are never taken back.
LEMMA RowGrows ==
  ASSUME TypeInv, [Next]_vars
  PROVE  /\ duel.opponent # NoUser => duel'.opponent = duel.opponent
         /\ \A s \in Sides : duel.answered[s] <= duel'.answered[s]
<1>1. Fits(duel) /\ \A l \in lists : Fits(l.row) BY DEF TypeInv
<1>2. \A s \in Sides : duel.answered[s] \in 0..Rounds BY <1>1 DEF Fits, Rows
<1>3. \A late \in BOOLEAN : /\ Fits(Refreshed(duel, late))
                          /\ Refreshed(duel, late).opponent = duel.opponent
                          /\ Refreshed(duel, late).answered = duel.answered
  BY <1>1, RefreshedFits
<1>4. ASSUME NEW u \in Players, NEW late \in BOOLEAN, duel' = Seated(Refreshed(duel, late), u)
      PROVE  /\ duel.opponent # NoUser => duel'.opponent = duel.opponent
             /\ duel'.answered = duel.answered
  BY <1>3, <1>4, SeatedFits
<1>5. ASSUME NEW u \in Players, NEW r \in 1..Rounds, NEW correct \in BOOLEAN,
             NEW late \in BOOLEAN, Answer(u, r, correct, late),
             PlayableFor(Refreshed(duel, late), u)
      PROVE  /\ duel'.opponent = duel.opponent
             /\ \A s \in Sides : duel.answered[s] <= duel'.answered[s]
  <2>1. duel'.opponent = duel.opponent BY <1>5, AnsweredFits
  <2>2. duel'.answered = [duel.answered EXCEPT ![SideOf(u)] =
                           IF duel.answered[SideOf(u)] < r THEN r ELSE @]
    BY <1>5, AnsweredFits
  <2>3. duel.answered \in [Sides -> 0..Rounds] BY <1>1 DEF Fits, Rows
  <2> QED BY <2>1, <2>2, <2>3, <1>2
<1>6. ASSUME NEW late \in BOOLEAN,
             duel' \in {Refreshed(duel, late), [Refreshed(duel, late) EXCEPT !.status = "CANCELED"]}
      PROVE  duel'.opponent = duel.opponent /\ duel'.answered = duel.answered
  BY <1>3, <1>6 DEF Fits, Rows
<1>7. ASSUME NEW l \in lists, duel' = Overwritten(duel, l.row)
      PROVE  duel'.opponent = duel.opponent /\ duel'.answered = duel.answered
  BY <1>1, <1>7, OverwrittenFits
<1> QED BY <1>2, <1>3, <1>4, <1>5, <1>6, <1>7, StepKinds DEF Opened

LEMMA MembersStay ==
  ASSUME TypeInv, [Next]_vars, NEW u \in Players, InDuel(duel, u)
  PROVE  InDuel(duel', u)
BY RowGrows, PlayersAssumption DEF InDuel, Players

-----------------------------------------------------------------------------
(* Seats and questions. *)

\* A handler opens a round only for a player of the duel it leaves behind.
LEMMA AskedSteps ==
  ASSUME TypeInv, [Next]_vars
  PROVE  \/ asked' = asked
         \/ \E u \in Players, r \in 1..Rounds, q \in Questions :
              /\ q \in ChoiceFor(r)
              /\ r = duel'.answered[SideOf(u)] + 1
              /\ InDuel(duel', u)
              /\ asked[u][r] = NoQuestion
              /\ asked' = [asked EXCEPT ![u][r] = q]
<1>1. Fits(duel) /\ TypeOK BY DEF TypeInv
<1>2. \A u \in Players, late \in BOOLEAN :
        Fits(Refreshed(duel, late)) /\ Fits(Seated(Refreshed(duel, late), u))
  BY <1>1, RefreshedFits, SeatedFits
<1>3. ASSUME NEW u \in Players, NEW d, Fits(d), Opened(d, u)
      PROVE  \/ asked' = asked
             \/ \E r \in 1..Rounds, q \in Questions :
                  /\ q \in ChoiceFor(r)
                  /\ r = duel'.answered[SideOf(u)] + 1
                  /\ InDuel(duel', u)
                  /\ asked[u][r] = NoQuestion
                  /\ asked' = [asked EXCEPT ![u][r] = q]
  BY <1>1, <1>3, RoundOpened DEF Opened
<1>4. \A u \in Players, r \in 1..Rounds, correct, late \in BOOLEAN :
        Answer(u, r, correct, late) => asked' = asked
  BY DEF Answer
<1> QED BY <1>2, <1>3, <1>4, StepKinds DEF Untouched

LEMMA SeatKeptNext == TypeInv /\ SeatKept /\ [Next]_vars => SeatKept'
<1> SUFFICES ASSUME TypeInv, SeatKept, [Next]_vars,
                    NEW v \in Players, NEW x \in 1..Rounds, asked'[v][x] # NoQuestion
             PROVE  InDuel(duel', v)
  BY DEF SeatKept
<1>1. CASE asked[v][x] # NoQuestion BY <1>1, MembersStay DEF SeatKept
<1>2. CASE asked[v][x] = NoQuestion
  <2>1. PICK u \in Players, r \in 1..Rounds, q \in Questions :
          InDuel(duel', u) /\ asked' = [asked EXCEPT ![u][r] = q]
    BY <1>2, AskedSteps
  <2>2. u = v BY <1>2, <2>1 DEF TypeInv, TypeOK
  <2> QED BY <2>1, <2>2
<1> QED BY <1>1, <1>2

\* Nobody but the two players of a duel ever gets one of its questions, however
\* many friends press the link and whatever else happens to the row.
THEOREM SeatKeptThm == Spec => []SeatKept
<1>1. Init => SeatKept BY DEF Init, SeatKept
<1> QED BY <1>1, SeatKeptNext, TypeInvariant, PTL DEF Spec

LEMMA SameQuestionNext == TypeInv /\ SameQuestion /\ [Next]_vars => SameQuestion'
<1> SUFFICES ASSUME TypeInv, SameQuestion, [Next]_vars PROVE SameQuestion' OBVIOUS
<1>1. retired \subseteq retired'
  <2>1. ASSUME NEW q \in Retirable, Retire(q) PROVE retired \subseteq retired'
    BY <2>1 DEF Retire
  <2>2. CASE UNCHANGED vars BY <2>2 DEF vars
  <2>3. CASE Next /\ ~\E q \in Retirable : Retire(q)
    BY <2>3 DEF Next, Play, Join, StartRound, Answer, Cancel, Refresh, ExpireDue,
                LoadMyDuels, WriteMyDuels, DeadlinePasses
  <2> QED BY <2>1, <2>2, <2>3
<1>2. CASE asked' = asked BY <1>1, <1>2 DEF SameQuestion
<1>3. ASSUME NEW u \in Players, NEW r \in 1..Rounds, NEW q \in ChoiceFor(r), q \in Questions,
             asked[u][r] = NoQuestion, asked' = [asked EXCEPT ![u][r] = q]
      PROVE  SameQuestion'
  <2>1. \A v \in Players, x \in 1..Rounds :
          asked'[v][x] = IF v = u /\ x = r THEN q ELSE asked[v][x]
    BY <1>3 DEF TypeInv, TypeOK
  <2>2. ASSUME NEW v \in Players, asked[v][r] # NoQuestion, asked[v][r] # q
        PROVE  {asked[v][r], q} \cap retired # {}
    <3> DEFINE shared == {asked[w][r] : w \in Players} \ {NoQuestion}
    <3>1. asked[v][r] \in shared BY <2>2
    <3>2. CASE shared \ retired # {}
      <4>1. q \in shared \ retired BY <1>3, <3>1, <3>2 DEF ChoiceFor
      <4>2. PICK w \in Players : asked[w][r] = q BY <4>1
      <4> QED BY <2>2, <4>1, <4>2 DEF SameQuestion
    <3>3. CASE shared \ retired = {} BY <3>1, <3>3
    <3> QED BY <3>2, <3>3
  <2> QED BY <1>1, <2>1, <2>2 DEF SameQuestion
<1> QED BY <1>2, <1>3, AskedSteps

\* The players of a round get the same question unless it was withdrawn between
\* them, in every plan, also in a series game that has none.
THEOREM SameQuestionThm == Spec => []SameQuestion
<1>1. Init => SameQuestion BY DEF Init, SameQuestion
<1> QED BY <1>1, SameQuestionNext, TypeInvariant, PTL DEF Spec

-----------------------------------------------------------------------------
(* A duel that is over. *)

LEMMA OverIsNotActive == \A st \in Over : st \notin Active
BY DEF Over, Active, Playable

\* A duel that is over is not taken up again, not even by a list that was
\* loaded before: what a list writes is the end of a duel too.
THEOREM StaysOverThm == Spec => StaysOver
<1>1. ASSUME TypeInv, [Next]_vars, duel.status \in Over PROVE duel'.status \in Over
  <2>1. Fits(duel) /\ \A l \in lists : Fits(l.row) BY <1>1 DEF TypeInv
  <2>2. \A late \in BOOLEAN : Refreshed(duel, late) = duel
    BY <1>1, OverIsNotActive DEF Refreshed
  <2>3. \A u \in Players : Seated(duel, u) = duel /\ ~PlayableFor(duel, u)
    BY <1>1, <2>1, SeatedFits, OverIsNotActive DEF PlayableFor, Active
  <2>4. \A l \in lists : Overwritten(duel, l.row).status \in Over
    BY <2>1, OverwrittenFits
  <2>5. [duel EXCEPT !.status = "CANCELED"].status \in Over
    BY <2>1 DEF Fits, Rows, Over
  <2> QED BY <1>1, <2>2, <2>3, <2>4, <2>5, StepKinds DEF Opened
<1> QED BY <1>1, TypeInvariant, PTL DEF Spec, StaysOver

-----------------------------------------------------------------------------
(* From here on nobody opens the list. *)

RowInv == TypeInv /\ lists = {} /\ RowOK(duel)

LEMMA RowInvNext == ASSUME Listing = {}, RowInv, [Next]_vars PROVE RowInv'
<1> USE DEF RowInv
<1>1. TypeInv' BY TypeNext
<1>2. lists' = {}
  <2>1. ~\E u \in Listing : LoadMyDuels(u) \/ WriteMyDuels(u) OBVIOUS
  <2>2. \A q \in Retirable : Retire(q) => lists' = lists BY DEF Retire
  <2>3. \A u \in Players, late \in Clock :
          /\ Join(u, late) => lists' = lists
          /\ StartRound(u, late) => lists' = lists
          /\ \A r \in 1..Rounds, correct \in BOOLEAN : Answer(u, r, correct, late) => lists' = lists
    BY DEF Join, StartRound, Answer
  <2>4. (\/ \E late \in Clock : Cancel(late)
         \/ Refresh
         \/ ExpireDue
         \/ DeadlinePasses
         \/ UNCHANGED vars) => lists' = lists
    BY DEF Cancel, Refresh, ExpireDue, DeadlinePasses, vars
  <2> QED BY <2>1, <2>2, <2>3, <2>4 DEF Next, Play
<1>3. \A late \in BOOLEAN : RowOK(Refreshed(duel, late)) BY RefreshedOK
<1>4. \A u \in Players, late \in BOOLEAN : RowOK(Seated(Refreshed(duel, late), u))
  BY <1>3, SeatedOK
<1>5. ASSUME NEW u \in Players, NEW r \in 1..Rounds, NEW correct \in BOOLEAN,
             NEW late \in BOOLEAN, Answer(u, r, correct, late),
             PlayableFor(Refreshed(duel, late), u)
      PROVE  RowOK(duel')
  <2>1. Refreshed(duel, late) = duel
    BY <1>5, RefreshedFits DEF PlayableFor, Active, TypeInv
  <2>2. InDuel(duel, u) /\ PlayableFor(duel, u) BY <1>5, <2>1 DEF Answer
  <2>3. duel' = Settled(Counted(duel, SideOf(u), r, correct)) BY <1>5, <2>1 DEF Answer
  <2> QED BY <2>2, <2>3, AnsweredOK
<1>6. \A late \in BOOLEAN : Refreshed(duel, late).status = "EXPIRED" =>
        RowOK([Refreshed(duel, late) EXCEPT !.status = "CANCELED"])
  BY <1>3, CanceledOK
<1>7. RowOK(duel') BY <1>3, <1>4, <1>5, <1>6, StepKinds DEF Opened
<1> QED BY <1>1, <1>2, <1>7

LEMMA RowInvariant == ASSUME Listing = {} PROVE Spec => []RowInv
<1>1. Init => RowInv
  <2> SUFFICES ASSUME Init PROVE RowInv OBVIOUS
  <2> QED BY TypeInit, NewRowOK DEF Init, RowInv
<1> QED BY <1>1, RowInvNext, PTL DEF Spec

\* Who wins has earned it: by the better score when both have played to the
\* end, by being the only one who did when time ran out.
THEOREM WinnerEarnedThm == ASSUME Listing = {} PROVE Spec => []WinnerEarned
<1>1. RowInv => WinnerEarned BY DEF RowInv, RowOK, WinnerFits, WinnerEarned
<1> QED BY <1>1, RowInvariant, PTL

\* The result of a duel stands.
THEOREM ResultStandsThm == ASSUME Listing = {} PROVE Spec => ResultStands
<1>1. ASSUME RowInv, [Next]_vars, duel.status \in Over
      PROVE  /\ duel'.winner = duel.winner
             /\ duel'.score = duel.score
             /\ \/ duel'.status = duel.status
                \/ duel.status = "EXPIRED" /\ duel'.status = "CANCELED"
  <2>1. Fits(duel) /\ lists = {} BY <1>1 DEF RowInv, TypeInv
  <2>2. \A late \in BOOLEAN : Refreshed(duel, late) = duel
    BY <1>1, OverIsNotActive DEF Refreshed
  <2>3. \A u \in Players : Seated(duel, u) = duel /\ ~PlayableFor(duel, u)
    BY <1>1, <2>1, SeatedFits, OverIsNotActive DEF PlayableFor, Active
  <2>4. duel' = duel \/ (duel.status = "EXPIRED" /\ duel' = [duel EXCEPT !.status = "CANCELED"])
    BY <1>1, <2>1, <2>2, <2>3, StepKinds DEF Opened, RowInv
  <2> QED BY <2>1, <2>4 DEF Fits, Rows
<1> QED BY <1>1, RowInvariant, PTL DEF Spec, ResultStands

-----------------------------------------------------------------------------
(* The score. *)

\* A player gets round after round.
AskedInTurn ==
  \A u \in Players, r \in 1..Rounds :
    asked[u][r] # NoQuestion => r <= duel.answered[SideOf(u)] + 1

\* Only the players of the duel have answered anything.
FirstSeated ==
  \A u \in Players, r \in 1..Rounds : first[u][r] # "none" => InDuel(duel, u)

ScoreInv == RowInv /\ SeatKept /\ AskedInTurn /\ FirstSeated /\ ScoresFaithful

\* A step that is no answer touches the score only to forfeit it.
LEMMA AnswerOrQuiet ==
  ASSUME RowInv, [Next]_vars
  PROVE  \/ \E u \in Players, r \in 1..Rounds, correct, late \in BOOLEAN :
              Answer(u, r, correct, late) /\ PlayableFor(Refreshed(duel, late), u)
         \/ /\ first' = first
            /\ duel'.answered = duel.answered
            /\ duel'.status # "WALKOVER" =>
                 duel'.score = duel.score /\ duel.status # "WALKOVER"
<1>1. Fits(duel) /\ TypeInv /\ lists = {} BY DEF RowInv, TypeInv
<1>2. ASSUME NEW late \in BOOLEAN
      PROVE  /\ Fits(Refreshed(duel, late))
             /\ Refreshed(duel, late).answered = duel.answered
             /\ Refreshed(duel, late).status # "WALKOVER" =>
                  /\ Refreshed(duel, late).score = duel.score
                  /\ duel.status # "WALKOVER"
  <2>1. CASE Refreshed(duel, late) = duel BY <1>1, <2>1
  <2>2. CASE duel.status \in Active /\ Refreshed(duel, late) = Expired(duel)
    <3>1. Fits(Expired(duel)) /\ Expired(duel).answered = duel.answered
      BY <1>1, ExpiredFits
    <3>2. duel.status # "WALKOVER" BY <2>2 DEF Active, Playable
    <3>3. Expired(duel).status # "WALKOVER" => Expired(duel).score = duel.score
      BY <1>1 DEF Expired, Fits, Rows
    <3> QED BY <2>2, <3>1, <3>2, <3>3
  <2> QED BY <1>1, <2>1, <2>2, RefreshedFits
<1>3. ASSUME NEW u \in Players, NEW d, Fits(d)
      PROVE  /\ Seated(d, u).answered = d.answered /\ Seated(d, u).score = d.score
             /\ Seated(d, u).status # "WALKOVER" => d.status # "WALKOVER"
  BY <1>3, SeatedFits DEF Active, Playable
<1>4. ASSUME NEW d, Fits(d), d.status = "EXPIRED"
      PROVE  /\ [d EXCEPT !.status = "CANCELED"].answered = d.answered
             /\ [d EXCEPT !.status = "CANCELED"].score = d.score
  BY <1>4 DEF Fits, Rows
<1>5. CASE \E u \in Players, late \in BOOLEAN :
             \/ Opened(Seated(Refreshed(duel, late), u), u)
             \/ Opened(Refreshed(duel, late), u)
  BY <1>2, <1>3, <1>5 DEF Opened
<1>6. CASE Untouched /\ \E late \in BOOLEAN :
             \/ duel' = Refreshed(duel, late)
             \/ /\ Refreshed(duel, late).status = "EXPIRED"
                /\ duel' = [Refreshed(duel, late) EXCEPT !.status = "CANCELED"]
  BY <1>2, <1>4, <1>6 DEF Untouched
<1>7. CASE Untouched /\ duel' = duel BY <1>7 DEF Untouched
<1> QED BY <1>1, <1>5, <1>6, <1>7, StepKinds

LEMMA ScoresAfterAnswer ==
  ASSUME ScoreInv, NEW u \in Players, NEW r \in 1..Rounds, NEW correct \in BOOLEAN,
         NEW late \in BOOLEAN, Answer(u, r, correct, late),
         PlayableFor(Refreshed(duel, late), u)
  PROVE  ScoresFaithful' /\ FirstSeated'
<1> DEFINE s == SideOf(u)
<1>1. Fits(duel) /\ TypeInv /\ TypeOK BY DEF ScoreInv, RowInv, TypeInv
<1>2. Refreshed(duel, late) = duel BY <1>1, RefreshedFits DEF PlayableFor, Active
<1>3. InDuel(duel, u) /\ PlayableFor(duel, u) /\ asked[u][r] # NoQuestion
  BY <1>2 DEF Answer
<1>4. /\ duel'.opponent = duel.opponent
      /\ duel'.answered = [duel.answered EXCEPT ![s] = IF duel.answered[s] < r THEN r ELSE @]
      /\ duel'.score = [duel.score EXCEPT ![s] = IF duel.answered[s] < r /\ correct THEN @ + 1 ELSE @]
  BY <1>1, AnsweredFits
<1>5. first' = [first EXCEPT ![u][r] =
                  IF @ # "none" THEN @ ELSE IF correct THEN "right" ELSE "wrong"]
  BY <1>2, <1>3 DEF Answer
<1>6. /\ s \in Sides /\ duel.answered[s] \in 0..Rounds
      /\ duel.answered \in [Sides -> 0..Rounds] /\ duel.score \in [Sides -> 0..Rounds]
      /\ first \in [Players -> [1..Rounds -> {"none", "right", "wrong"}]]
  BY <1>1, SideOfIsSide DEF Fits, Rows, TypeOK
<1> HIDE DEF s
<1>7. r <= duel.answered[s] + 1 BY <1>3 DEF ScoreInv, AskedInTurn, s
<1>8. duel.status # "WALKOVER" BY <1>3 DEF PlayableFor, Playable
<1>9. /\ \A x \in 1..Rounds : first[u][x] # "none" <=> x <= duel.answered[s]
      /\ duel.score[s] = Cardinality(RightRounds(u))
  BY <1>3, <1>8 DEF ScoreInv, ScoresFaithful, s
<1>10. \A v \in Players, x \in 1..Rounds : ~(v = u /\ x = r) => first'[v][x] = first[v][x]
  BY <1>5, <1>6
<1>11. ASSUME NEW x \in 1..Rounds PROVE first'[u][x] # "none" <=> x <= duel'.answered[s]
  <2>1. first[u][x] # "none" <=> x <= duel.answered[s] BY <1>9
  <2>2. CASE x = r
    <3>1. first'[u][x] # "none" BY <1>5, <1>6, <2>2
    <3>2. duel'.answered[s] = IF duel.answered[s] < r THEN r ELSE duel.answered[s] BY <1>4, <1>6
    <3> QED BY <1>6, <2>2, <3>1, <3>2
  <2>3. CASE x # r
    <3>1. first'[u][x] = first[u][x] BY <1>10, <2>3
    <3>2. duel'.answered[s] = IF duel.answered[s] < r THEN r ELSE duel.answered[s] BY <1>4, <1>6
    <3>3. x <= duel'.answered[s] <=> x <= duel.answered[s] BY <1>6, <1>7, <2>3, <3>2
    <3> QED BY <2>1, <3>1, <3>3
  <2> QED BY <2>2, <2>3
<1>12. duel'.score[s] = Cardinality(RightRounds(u)')
  <2>1. IsFiniteSet(RightRounds(u))
    <3>1. IsFiniteSet(1..Rounds) BY FS_Interval, RoundsAssumption
    <3>2. RightRounds(u) \in SUBSET (1..Rounds) BY DEF RightRounds
    <3> QED BY <3>1, <3>2, FS_Subset
  <2>2. CASE duel.answered[s] < r /\ correct
    <3>0. first[u][r] # "none" <=> r <= duel.answered[s] BY <1>9
    <3>a. first[u][r] = "none" BY <1>6, <2>2, <3>0
    <3>b. first'[u][r] = IF first[u][r] # "none" THEN first[u][r]
                         ELSE IF correct THEN "right" ELSE "wrong"
      BY <1>5, <1>6
    <3>1. first[u][r] = "none" /\ first'[u][r] = "right" BY <2>2, <3>a, <3>b
    <3>2. RightRounds(u)' = RightRounds(u) \cup {r} /\ r \notin RightRounds(u)
      BY <1>10, <3>1 DEF RightRounds
    <3>3. Cardinality(RightRounds(u)') = Cardinality(RightRounds(u)) + 1
      BY <2>1, <3>2, FS_AddElement
    <3> QED BY <1>4, <1>6, <1>9, <2>2, <3>3
  <2>3. CASE ~(duel.answered[s] < r /\ correct)
    <3>0. first[u][r] # "none" <=> r <= duel.answered[s] BY <1>9
    <3>1. first'[u][r] = "right" <=> first[u][r] = "right"
      BY <1>5, <1>6, <2>3, <3>0
    <3>2. RightRounds(u)' = RightRounds(u) BY <1>10, <3>1 DEF RightRounds
    <3> QED BY <1>4, <1>6, <1>9, <2>3, <3>2
  <2> QED BY <2>2, <2>3
<1>13. ASSUME NEW v \in Players, v # u, InDuel(duel', v)
       PROVE  /\ \A x \in 1..Rounds : first'[v][x] # "none" <=> x <= duel'.answered[SideOf(v)]
              /\ duel'.score[SideOf(v)] = Cardinality(RightRounds(v)')
  <2>1. InDuel(duel, v) /\ SideOf(v) # s /\ SideOf(v) \in Sides
    BY <1>3, <1>4, <1>13, SideOfIsSide DEF InDuel, SideOf, s
  <2>2. RightRounds(v)' = RightRounds(v) BY <1>10, <1>13 DEF RightRounds
  <2>3. duel'.answered[SideOf(v)] = duel.answered[SideOf(v)] /\ duel'.score[SideOf(v)] = duel.score[SideOf(v)]
    BY <1>4, <1>6, <2>1
  <2> QED BY <1>8, <1>10, <1>13, <2>1, <2>2, <2>3 DEF ScoreInv, ScoresFaithful
<1>14. ScoresFaithful' BY <1>11, <1>12, <1>13 DEF ScoresFaithful, s
<1>15. FirstSeated'
  <2> SUFFICES ASSUME NEW v \in Players, NEW x \in 1..Rounds, first'[v][x] # "none"
               PROVE  InDuel(duel', v)
    BY DEF FirstSeated
  <2>1. InDuel(duel, v) BY <1>3, <1>10 DEF ScoreInv, FirstSeated
  <2> QED BY <1>4, <2>1 DEF InDuel
<1> QED BY <1>14, <1>15

LEMMA ScoreNext == ASSUME Listing = {}, ScoreInv, [Next]_vars PROVE ScoreInv'
<1>1. RowInv /\ RowInv' BY RowInvNext DEF ScoreInv
<1>2. TypeInv /\ TypeInv' BY <1>1 DEF RowInv
<1>3. SeatKept' BY <1>2, SeatKeptNext DEF ScoreInv
<1>4. AskedInTurn'
  <2> SUFFICES ASSUME NEW v \in Players, NEW x \in 1..Rounds, asked'[v][x] # NoQuestion
               PROVE  x <= duel'.answered[SideOf(v)] + 1
    BY DEF AskedInTurn
  <2>1. /\ duel.answered[SideOf(v)] \in 0..Rounds /\ duel'.answered[SideOf(v)] \in 0..Rounds
        /\ duel.answered[SideOf(v)] <= duel'.answered[SideOf(v)]
    BY <1>2, RowGrows, SideOfIsSide DEF TypeInv, Fits, Rows
  <2>2. CASE asked[v][x] # NoQuestion
    BY <2>1, <2>2, RoundsAssumption DEF ScoreInv, AskedInTurn
  <2>3. CASE asked[v][x] = NoQuestion
    <3>1. PICK u \in Players, r \in 1..Rounds, q \in Questions :
            r = duel'.answered[SideOf(u)] + 1 /\ asked' = [asked EXCEPT ![u][r] = q]
      BY <1>2, <2>3, AskedSteps
    <3>2. v = u /\ x = r BY <1>2, <2>3, <3>1 DEF TypeInv, TypeOK
    <3> QED BY <2>1, <3>1, <3>2
  <2> QED BY <2>2, <2>3
<1>5. ASSUME NEW u \in Players, NEW r \in 1..Rounds, NEW correct \in BOOLEAN,
             NEW late \in BOOLEAN, Answer(u, r, correct, late),
             PlayableFor(Refreshed(duel, late), u)
      PROVE  ScoresFaithful' /\ FirstSeated'
  BY <1>5, ScoresAfterAnswer
<1>6. ASSUME first' = first,
             duel'.answered = duel.answered,
             duel'.status # "WALKOVER" => duel'.score = duel.score /\ duel.status # "WALKOVER"
      PROVE  ScoresFaithful' /\ FirstSeated'
  <2>1. FirstSeated' BY <1>2, <1>6, MembersStay DEF ScoreInv, FirstSeated
  <2>2. \A v \in Players : RightRounds(v)' = RightRounds(v) BY <1>6 DEF RightRounds
  <2>3. ASSUME NEW v \in Players, InDuel(duel', v)
        PROVE  /\ \A x \in 1..Rounds : first'[v][x] # "none" <=> x <= duel'.answered[SideOf(v)]
               /\ duel'.status # "WALKOVER" =>
                    duel'.score[SideOf(v)] = Cardinality(RightRounds(v)')
    <3>1. CASE InDuel(duel, v)
      BY <1>6, <2>2, <3>1 DEF ScoreInv, ScoresFaithful
    <3>2. CASE ~InDuel(duel, v)
      <4>1. duel.opponent = NoUser /\ SideOf(v) = "opponent"
        BY <1>2, <2>3, <3>2, RowGrows DEF InDuel, SideOf
      <4>2. duel.answered["opponent"] = 0 /\ duel.score["opponent"] = 0
        BY <1>1, <4>1 DEF RowInv, RowOK
      <4>3. \A x \in 1..Rounds : first[v][x] = "none"
        BY <3>2 DEF ScoreInv, FirstSeated
      <4>4. RightRounds(v) = {} BY <4>3 DEF RightRounds
      <4>5. Cardinality(RightRounds(v)') = 0 BY <2>2, <4>4, FS_EmptySet
      <4> QED BY <1>6, <4>1, <4>2, <4>3, <4>5, RoundsAssumption
    <3> QED BY <3>1, <3>2
  <2>4. ScoresFaithful' BY <2>3 DEF ScoresFaithful
  <2> QED BY <2>1, <2>4
<1>7. ScoresFaithful' /\ FirstSeated' BY <1>1, <1>5, <1>6, AnswerOrQuiet
<1> QED BY <1>1, <1>3, <1>4, <1>7 DEF ScoreInv

LEMMA ScoreInit == Init => SeatKept /\ AskedInTurn /\ FirstSeated /\ ScoresFaithful
<1> SUFFICES ASSUME Init PROVE SeatKept /\ AskedInTurn /\ FirstSeated /\ ScoresFaithful OBVIOUS
<1>1. /\ duel.answered = [s \in Sides |-> 0] /\ duel.score = [s \in Sides |-> 0]
      /\ first = [u \in Players |-> [r \in 1..Rounds |-> "none"]]
      /\ asked = [u \in Players |-> [r \in 1..Rounds |-> NoQuestion]]
  BY DEF Init, NewRow
<1>2. SeatKept /\ AskedInTurn /\ FirstSeated BY <1>1 DEF SeatKept, AskedInTurn, FirstSeated
<1>3. \A u \in Players : Cardinality(RightRounds(u)) = 0
  <2> SUFFICES ASSUME NEW u \in Players PROVE Cardinality(RightRounds(u)) = 0 OBVIOUS
  <2>1. RightRounds(u) = {} BY <1>1 DEF RightRounds
  <2> QED BY <2>1, FS_EmptySet
<1>4. ScoresFaithful
  BY <1>1, <1>3, SideOfIsSide, RoundsAssumption DEF ScoresFaithful
<1> QED BY <1>2, <1>4

\* The score of a player is the number of rounds whose first answer was right,
\* and answered rounds are exactly the first ones of the duel.
THEOREM ScoresFaithfulThm == ASSUME Listing = {} PROVE Spec => []ScoresFaithful
<1>1. Init /\ RowInv => ScoreInv BY ScoreInit DEF ScoreInv
<1>2. ScoreInv /\ [Next]_vars => ScoreInv' BY ScoreNext
<1>3. ScoreInv => ScoresFaithful BY DEF ScoreInv
<1> QED BY <1>1, <1>2, <1>3, RowInvariant, PTL DEF Spec

-----------------------------------------------------------------------------
(* The duel implements Match. *)

LEMMA RowPhase ==
  ASSUME NEW d, RowOK(d)
  PROVE  d.status \in Over <=> d.status \notin Active
BY DEF RowOK, Fits, Rows, Over, Active, Playable

\* The deadline on any row: withdrawn if nobody came, forfeit otherwise.
LEMMA ExpiryInMatch ==
  ASSUME RowOK(duel), duel.status \in Active, NEW d, RowOK(d),
         duel'.winner = d.winner, duel'.score = d.score, duel'.answered = d.answered,
         duel'.status \in Over, d = Expired(duel)
  PROVE  Promise!Next
<1>1. Fits(duel) /\ duel.status \notin Over /\ Phase' = "over" BY RowPhase DEF RowOK, Phase
<1>2. d.answered = duel.answered BY <1>1, ExpiredFits
<1>3. CASE duel.status = "PENDING"
  <2>1. Phase = "open" /\ duel.answered["creator"] < Rounds
    BY <1>1, <1>3 DEF Phase, RowOK, StatusFits
  <2>2. d.winner = duel.winner /\ d.score = duel.score
    BY <1>1, <1>3 DEF Expired, Fits, Rows, RowOK, WinnerFits
  <2>3. Promise!Withdraw BY <1>1, <1>2, <2>1, <2>2 DEF Promise!Withdraw
  <2> QED BY <2>3 DEF Promise!Next
<1>4. CASE duel.status # "PENDING"
  <2>1. Phase = "running" \/ (Phase = "open" /\ duel.answered["creator"] = Rounds)
    BY <1>1, <1>4 DEF Phase, RowOK, StatusFits, Active
  <2>2. d.winner = TechnicalWinner(duel)
        /\ d.score = [s \in Sides |-> IF s = TechnicalWinner(duel) THEN duel.score[s] ELSE 0]
    BY <1>1, <1>4 DEF Expired, Fits, Rows
  <2>3. TechnicalWinner(duel) = Promise!SoleFinisher(duel.answered)
    <3>1. duel.answered["creator"] \in 0..Rounds /\ duel.answered["opponent"] \in 0..Rounds
      BY <1>1 DEF Fits, Rows, Sides
    <3>2. /\ Done(duel, "creator") <=> duel.answered["creator"] = Rounds
          /\ Done(duel, "opponent") <=> duel.answered["opponent"] = Rounds
      BY DoneMeansAnswered DEF Sides
    <3> QED BY <3>1, <3>2, RoundsAssumption DEF TechnicalWinner, Promise!SoleFinisher
  <2>4. Promise!Forfeit
    BY <1>1, <1>2, <2>1, <2>2, <2>3 DEF Promise!Forfeit, Promise!Sides, Sides
  <2> QED BY <2>4 DEF Promise!Next
<1> QED BY <1>3, <1>4

MatchView(d) == <<d.status \in Over, d.opponent = NoUser, d.answered, d.score, d.winner>>

\* What the row keeps of these five, the match keeps.
LEMMA SameView ==
  ASSUME MatchView(duel)' = MatchView(duel)
  PROVE  UNCHANGED Promise!matchVars
BY DEF MatchView, Phase, Promise!matchVars

LEMMA AnswerInMatch ==
  ASSUME ScoreInv, RowOK(duel'), NEW u \in Players, NEW r \in 1..Rounds,
         NEW correct \in BOOLEAN, NEW late \in BOOLEAN, Answer(u, r, correct, late),
         PlayableFor(Refreshed(duel, late), u)
  PROVE  [Promise!Next]_(Promise!matchVars)
<1> DEFINE s == SideOf(u)
           gain == IF correct THEN 1 ELSE 0
<1>1. Fits(duel) /\ TypeInv /\ RowOK(duel) BY DEF ScoreInv, RowInv, TypeInv
<1>2. Refreshed(duel, late) = duel BY <1>1, RefreshedFits DEF PlayableFor, Active
<1>3. InDuel(duel, u) /\ PlayableFor(duel, u) /\ asked[u][r] # NoQuestion
  BY <1>2 DEF Answer
<1>4. /\ duel'.opponent = duel.opponent
      /\ duel'.answered = [duel.answered EXCEPT ![s] = IF duel.answered[s] < r THEN r ELSE @]
      /\ duel'.score = [duel.score EXCEPT ![s] = IF duel.answered[s] < r /\ correct THEN @ + 1 ELSE @]
      /\ duel.status \in Active /\ duel'.status \in Active \cup {"COMPLETED"}
  BY <1>1, AnsweredFits
<1>5. /\ s \in Sides /\ duel.answered[s] \in 0..Rounds /\ r <= duel.answered[s] + 1
      /\ duel.answered \in [Sides -> 0..Rounds] /\ duel.score \in [Sides -> 0..Rounds]
  BY <1>1, <1>3, SideOfIsSide DEF Fits, Rows, ScoreInv, AskedInTurn
<1>6. \A x \in Sides : duel'.answered[x] \in 0..Rounds
  BY DEF RowOK, Fits, Rows
<1>7. duel.winner = "none" /\ duel.status \notin Over
  BY <1>1, <1>4, RowPhase DEF RowOK, WinnerFits, Active, Playable
<1>8. CASE \A x \in Sides : duel'.answered[x] = Rounds
  <2>1. duel'.status = "COMPLETED" /\ duel'.winner = Leader(duel'.score)
    BY <1>4, <1>6, <1>8, RoundsAssumption DEF RowOK, StatusFits, WinnerFits
  <2>2. duel.answered[s] < r
    <3>1. \E x \in Sides : duel.answered[x] < Rounds
      BY <1>1, <1>4 DEF RowOK, StatusFits
    <3>2. CASE ~(duel.answered[s] < r)
      <4>1. duel'.answered = duel.answered BY <1>4, <1>5, <3>2
      <4> QED BY <1>6, <1>8, <3>1, <4>1, RoundsAssumption
    <3> QED BY <3>2
  <2>3. r = duel.answered[s] + 1 BY <1>5, <2>2
  <2>4. /\ duel'.answered = [duel.answered EXCEPT ![s] = @ + 1]
        /\ duel'.score = [duel.score EXCEPT ![s] = @ + gain]
    BY <1>4, <1>5, <2>2, <2>3
  <2>5. Phase' = "over" BY <2>1 DEF Phase, Over
  <2>6. Phase = "running" \/ (Phase = "open" /\ s = "creator")
    BY <1>3, <1>7, PlayersAssumption DEF Phase, InDuel, SideOf, Players
  <2>7. Promise!Play(s, gain)
    BY <1>5, <1>8, <2>1, <2>2, <2>4, <2>5, <2>6, RoundsAssumption
       DEF Promise!Play, Promise!Leader, Promise!Sides, Leader, Sides
  <2> QED BY <1>5, <2>7 DEF Promise!Next, Promise!Sides, Sides
<1>9. CASE ~\A x \in Sides : duel'.answered[x] = Rounds
  <2>1. duel'.status \in Active /\ duel'.winner = "none" /\ duel'.status \notin Over
    BY <1>4, <1>9, RowPhase DEF RowOK, WinnerFits, Active, Playable
  <2>2. Phase' = Phase BY <1>4, <1>7, <2>1 DEF Phase
  <2>3. CASE duel.answered[s] < r
    <3>1. r = duel.answered[s] + 1 BY <1>5, <2>3
    <3>2. /\ duel'.answered = [duel.answered EXCEPT ![s] = @ + 1]
          /\ duel'.score = [duel.score EXCEPT ![s] = @ + gain]
      BY <1>4, <1>5, <2>3, <3>1
    <3>3. Phase = "running" \/ (Phase = "open" /\ s = "creator")
      BY <1>3, <1>7, PlayersAssumption DEF Phase, InDuel, SideOf, Players
    <3>4. Promise!Play(s, gain)
      BY <1>5, <1>7, <1>9, <2>1, <2>2, <2>3, <3>1, <3>2, <3>3, RoundsAssumption
         DEF Promise!Play, Promise!Sides, Sides
    <3> QED BY <1>5, <3>4 DEF Promise!Next, Promise!Sides, Sides
  <2>4. CASE ~(duel.answered[s] < r)
    <3>1. duel'.answered = duel.answered /\ duel'.score = duel.score BY <1>4, <1>5, <2>4
    <3> QED BY <1>7, <2>1, <2>2, <3>1 DEF Promise!matchVars
  <2> QED BY <2>3, <2>4
<1> QED BY <1>8, <1>9

LEMMA MatchStep ==
  ASSUME ScoreInv, RowOK(duel'), [Next]_vars
  PROVE  [Promise!Next]_(Promise!matchVars)
<1>1. Fits(duel) /\ TypeInv /\ RowOK(duel) /\ lists = {} BY DEF ScoreInv, RowInv, TypeInv
<1>2. CASE duel' = duel BY <1>2, SameView DEF MatchView
<1>3. ASSUME NEW late \in BOOLEAN, Refreshed(duel, late) # duel, duel' = Refreshed(duel, late)
      PROVE  Promise!Next
  <2>1. duel.status \in Active /\ duel' = Expired(duel) BY <1>1, <1>3, RefreshedFits
  <2>2. duel'.status \in Over BY <1>1, <2>1, ExpiredFits DEF Over
  <2> QED BY <1>1, <2>1, <2>2, ExpiryInMatch, ExpiredOK
<1>4. ASSUME NEW late \in BOOLEAN, Refreshed(duel, late).status = "EXPIRED",
             duel' = [Refreshed(duel, late) EXCEPT !.status = "CANCELED"]
      PROVE  [Promise!Next]_(Promise!matchVars)
  <2> DEFINE d == Refreshed(duel, late)
  <2>1. Fits(d) /\ RowOK(d) BY <1>1, RefreshedFits, RefreshedOK
  <2>2. /\ duel'.status = "CANCELED" /\ duel'.opponent = d.opponent /\ duel'.winner = d.winner
        /\ duel'.score = d.score /\ duel'.answered = d.answered
    BY <1>4, <2>1 DEF Fits, Rows
  <2>3. CASE d = duel
    <3>1. duel.status \in Over /\ duel'.status \in Over BY <1>4, <2>2, <2>3 DEF Over
    <3> QED BY <2>2, <2>3, <3>1, SameView DEF MatchView
  <2>4. CASE d # duel
    <3>1. duel.status \in Active /\ d = Expired(duel) BY <1>1, <2>4, RefreshedFits
    <3>2. duel'.status \in Over BY <2>2 DEF Over
    <3>3. Promise!Next BY <1>1, <2>1, <2>2, <3>1, <3>2, ExpiryInMatch
    <3> QED BY <3>3
  <2> QED BY <2>3, <2>4
<1>5. ASSUME NEW u \in Players, duel' = Seated(duel, u) PROVE [Promise!Next]_(Promise!matchVars)
  <2>1. CASE duel.status \in Active /\ duel.opponent = NoUser /\ u # Creator
    <3>1. duel' = [duel EXCEPT !.opponent = u, !.status = "ACCEPTED"] BY <1>5, <2>1 DEF Seated
    <3>2. /\ duel'.opponent = u /\ duel'.status = "ACCEPTED" /\ duel'.winner = duel.winner
          /\ duel'.score = duel.score /\ duel'.answered = duel.answered
      BY <1>1, <3>1 DEF Fits, Rows
    <3>3. Phase = "open" /\ Phase' = "running"
      BY <1>1, <2>1, <3>2, RowPhase, PlayersAssumption DEF Phase, Players, Over
    <3>4. Promise!Accept BY <3>2, <3>3 DEF Promise!Accept
    <3> QED BY <3>4 DEF Promise!Next
  <2>2. CASE ~(duel.status \in Active /\ duel.opponent = NoUser /\ u # Creator)
    BY <1>2, <1>5, <2>2 DEF Seated
  <2> QED BY <2>1, <2>2
<1>6. ASSUME NEW u \in Players, NEW late \in BOOLEAN, duel' = Seated(Refreshed(duel, late), u)
      PROVE  [Promise!Next]_(Promise!matchVars)
  <2>1. CASE Refreshed(duel, late) = duel BY <1>5, <1>6, <2>1
  <2>2. CASE Refreshed(duel, late) # duel
    <3>1. Fits(Refreshed(duel, late)) /\ Refreshed(duel, late).status \notin Active
      BY <1>1, <2>2, RefreshedFits
    <3>2. duel' = Refreshed(duel, late) BY <1>6, <3>1, SeatedFits
    <3> QED BY <1>3, <2>2, <3>2
  <2> QED BY <2>1, <2>2
<1>7. ASSUME NEW late \in BOOLEAN, duel' = Refreshed(duel, late)
      PROVE  [Promise!Next]_(Promise!matchVars)
  BY <1>2, <1>3, <1>7
<1>8. ASSUME NEW u \in Players, NEW r \in 1..Rounds, NEW correct \in BOOLEAN,
             NEW late \in BOOLEAN, Answer(u, r, correct, late),
             PlayableFor(Refreshed(duel, late), u)
      PROVE  [Promise!Next]_(Promise!matchVars)
  BY <1>8, AnswerInMatch
<1> QED BY <1>1, <1>2, <1>4, <1>6, <1>7, <1>8, StepKinds DEF Opened

\* Whatever is pressed, delayed or expired, the two players see a match: each
\* round played once, the better score wins, who does not finish forfeits.
THEOREM KeepsPromiseThm == ASSUME Listing = {} PROVE Spec => KeepsPromise
<1>1. Init => Promise!Init
  <2> SUFFICES ASSUME Init PROVE Promise!Init OBVIOUS
  <2>1. /\ duel.answered = [s \in Sides |-> 0] /\ duel.score = [s \in Sides |-> 0]
        /\ duel.winner = "none" /\ duel.status \in {"PENDING", "ACCEPTED"}
    BY DEF Init, NewRow
  <2> QED BY <2>1 DEF Promise!Init, Promise!Sides, Sides, Phase, Over
<1>2. Init /\ RowInv => ScoreInv BY ScoreInit DEF ScoreInv
<1>3. ScoreInv /\ [Next]_vars => ScoreInv' BY ScoreNext
<1>4. ScoreInv /\ ScoreInv' /\ [Next]_vars => [Promise!Next]_(Promise!matchVars)
  BY MatchStep DEF ScoreInv, RowInv
<1> QED BY <1>1, <1>2, <1>3, <1>4, RowInvariant, PTL DEF Spec, KeepsPromise, Promise!Spec
=============================================================================
