---------------------------- MODULE OffersProofs ----------------------------
(***************************************************************************)
(* What Offers guarantees for every set of players and occasions, every    *)
(* length of the windows and every course of events.                       *)
(***************************************************************************)
EXTENDS Offers, FiniteSetTheorems, SequenceTheorems, TLAPS

-----------------------------------------------------------------------------
(* Days and tables. *)

\* Days are counted by natural numbers, and what happens on one day lies less
\* than a day apart.
LEMMA DayLength ==
  ASSUME NEW s \in Nat, NEW t \in Nat
  PROVE  /\ DayOf(s) \in Nat
         /\ s <= t /\ DayOf(s) = DayOf(t) => t < s + DayLen
<1>1. DayLen \in Nat /\ DayLen > 0
  BY WindowsAssumption
<1>2. \A x \in Nat : /\ x \div DayLen \in Nat
                     /\ DayLen * (x \div DayLen) <= x /\ x < DayLen * (x \div DayLen) + DayLen
  BY <1>1
<1>3. QED
  BY <1>1, <1>2 DEF DayOf

\* An element of a sequence over S is in S.
LEMMA Elements ==
  ASSUME NEW S, NEW s \in Seq(S) PROVE \A k \in DOMAIN s : s[k] \in S
BY LenProperties, ElementOfSeq

LEMMA Tables ==
  ASSUME OfferTypeOK
  PROVE  /\ course \in Courses /\ moment \in Nat
         /\ Ids = 1..Len(offers) /\ Len(offers) \in Nat /\ IsFiniteSet(Ids)
         /\ \A i \in Ids : offers[i] \in Rows
         /\ DOMAIN carts = 1..Len(carts) /\ Len(carts) \in Nat
         /\ \A c \in DOMAIN carts : carts[c] \in Carts /\ carts[c].offer \in Ids \cup {Nothing}
<1>1. offers \in Seq(Rows) /\ carts \in Seq(Carts) /\ course \in Courses /\ moment \in 0..course.end
  BY DEF OfferTypeOK
<1>2. Ids = 1..Len(offers) /\ Len(offers) \in Nat /\ DOMAIN carts = 1..Len(carts) /\ Len(carts) \in Nat
  BY <1>1, LenProperties DEF Ids
<1>3. \A i \in Ids : offers[i] \in Rows
  BY <1>1, Elements DEF Ids
<1>4. \A c \in DOMAIN carts : carts[c] \in Carts
  BY <1>1, Elements
<1>5. moment \in Nat
  BY <1>1, CoursesAssumption
<1>6. IsFiniteSet(Ids)
  BY <1>2, FS_Interval
<1>7. QED
  BY <1>1, <1>2, <1>3, <1>4, <1>5, <1>6 DEF OfferTypeOK

LEMMA CodeNames ==
  Codes = {"ENERGY_ZERO", "STREAK_RISK", "STARTER_EXPIRED", "COMEBACK", "SECOND_ENERGY",
           "MONTH_EXPIRING", "ENERGY_LOW", "STREAK_30", "STREAK_GT7", "WEEKEND"}
<1>1. /\ DOMAIN Ranked = 1..10
      /\ Ranked[1] = "ENERGY_ZERO" /\ Ranked[2] = "STREAK_RISK" /\ Ranked[3] = "STARTER_EXPIRED"
      /\ Ranked[4] = "COMEBACK" /\ Ranked[5] = "SECOND_ENERGY" /\ Ranked[6] = "MONTH_EXPIRING"
      /\ Ranked[7] = "ENERGY_LOW" /\ Ranked[8] = "STREAK_30" /\ Ranked[9] = "STREAK_GT7"
      /\ Ranked[10] = "WEEKEND"
  BY DEF Ranked
<1>2. 1..10 = {1, 2, 3, 4, 5, 6, 7, 8, 9, 10}
  OBVIOUS
<1>3. Codes = {Ranked[n] : n \in {1, 2, 3, 4, 5, 6, 7, 8, 9, 10}}
  BY <1>1, <1>2 DEF Codes
<1>4. QED
  BY <1>1, <1>3

LEMMA TriggersAreCodes ==
  ASSUME NEW b PROVE Triggers(b) \subseteq Codes
<1>1. EnergyTriggers(b) \subseteq Codes
  BY CodeNames DEF EnergyTriggers
<1>2. StreakTriggers(b) \subseteq Codes
  BY CodeNames DEF StreakTriggers
<1>3. PlanTriggers(b) \subseteq Codes
  BY CodeNames DEF PlanTriggers
<1>4. WeekendFlash \subseteq Codes
  BY CodeNames DEF WeekendFlash
<1>5. QED
  BY <1>1, <1>2, <1>3, <1>4 DEF Triggers

\* A row is written over.
LEMMA Written ==
  ASSUME OfferTypeOK, NEW i \in Ids, NEW row \in Rows, offers' = [offers EXCEPT ![i] = row]
  PROVE  /\ offers' \in Seq(Rows) /\ Ids' = Ids /\ offers'[i] = row
         /\ \A j \in Ids \ {i} : offers'[j] = offers[j]
<1>1. offers \in Seq(Rows) /\ Ids = 1..Len(offers)
  BY Tables DEF OfferTypeOK
<1>2. /\ offers' \in Seq(Rows) /\ Len(offers') = Len(offers)
      /\ \A j \in 1..Len(offers) : offers'[j] = IF j = i THEN row ELSE offers[j]
  BY <1>1, ExceptSeq
<1>3. Ids' = 1..Len(offers')
  BY <1>2, LenProperties DEF Ids
<1>4. QED
  BY <1>1, <1>2, <1>3

\* What no step changes of an impression.
Stands == /\ Ids' = Ids
          /\ \A i \in Ids : /\ offers'[i].buyer = offers[i].buyer
                            /\ offers'[i].code = offers[i].code
                            /\ offers'[i].at = offers[i].at
                            /\ offers'[i].key = offers[i].key

-----------------------------------------------------------------------------
(* What each step does. *)

\* A new impression.
Shows(b, key, code) ==
  /\ course.owner[key] = b /\ Logged(key) = {} /\ code \in Showable(b)
  /\ offers' = Append(offers, Impression(b, key, code))
  /\ answered' = answered \cup {[key |-> key, id |-> Len(offers) + 1, code |-> code]}
  /\ UNCHANGED <<moment, carts, life, course, report, refused>>

\* An impression that is returned again.
Returns(i) ==
  /\ answered' = answered \cup {[key |-> offers[i].key, id |-> i, code |-> offers[i].code]}
  /\ UNCHANGED <<moment, offers, carts, life, course, report, refused>>

LEMMA AskEffect ==
  ASSUME OfferTypeOK, NEW b \in Buyers, NEW key \in Asks, Ask(b, key)
  PROVE  \/ \E code \in Codes : Shows(b, key, code)
         \/ \E i \in Ids : Returns(i)
         \/ UNCHANGED offerVars
<1>1. CASE Replay(b, key)
  <2>1. PICK i \in Logged(key) : Answer(key, i, offers[i].code)
    BY <1>1 DEF Replay
  <2>2. i \in Ids /\ offers[i].key = key
    BY DEF Logged
  <2>3. Returns(i)
    BY <1>1, <2>1, <2>2 DEF Ask, Replay, Answer, Returns
  <2>4. QED
    BY <2>2, <2>3
<1>2. CASE Show(b, key) /\ Showable(b) = {}
  BY <1>2 DEF Ask, Show, offerVars
<1>3. CASE Show(b, key) /\ Showable(b) # {}
  <2>1. PICK code \in Best(Showable(b)) :
          /\ offers' = Append(offers, Impression(b, key, code))
          /\ Answer(key, Len(offers) + 1, code)
    BY <1>3 DEF Show
  <2>2. code \in Showable(b)
    BY DEF Best
  <2>3. code \in Codes
    BY <2>2, TriggersAreCodes DEF Showable
  <2>4. Shows(b, key, code)
    BY <1>3, <2>1, <2>2 DEF Ask, Show, Answer, Shows
  <2>5. QED
    BY <2>3, <2>4
<1>4. QED
  BY <1>1, <1>2, <1>3 DEF Ask

\* A new row follows the others.
LEMMA ShowsRow ==
  ASSUME OfferTypeOK, NEW b \in Buyers, NEW key \in Asks, NEW code \in Codes, Shows(b, key, code)
  PROVE  /\ offers' \in Seq(Rows) /\ Ids' = Ids \cup {Len(offers) + 1} /\ Len(offers) + 1 \notin Ids
         /\ offers'[Len(offers) + 1] = Impression(b, key, code)
         /\ \A i \in Ids : offers'[i] = offers[i] /\ i < Len(offers) + 1
<1>1. Impression(b, key, code) \in Rows
  BY Tables DEF Impression, Rows
<1>2. offers \in Seq(Rows) /\ Ids = 1..Len(offers) /\ Len(offers) \in Nat
  BY Tables DEF OfferTypeOK
<1>3. offers' = Append(offers, Impression(b, key, code))
  BY DEF Shows
<1>4. /\ offers' \in Seq(Rows) /\ Len(offers') = Len(offers) + 1
      /\ \A i \in 1..Len(offers) : offers'[i] = offers[i]
      /\ offers'[Len(offers) + 1] = Impression(b, key, code)
  BY <1>1, <1>2, <1>3, AppendProperties
<1>5. Ids' = 1..Len(offers')
  BY <1>4, LenProperties DEF Ids
<1>6. QED
  BY <1>2, <1>4, <1>5

LEMMA DismissEffect ==
  ASSUME OfferTypeOK, NEW b \in Buyers, NEW i \in Ids, Dismiss(b, i)
  PROVE  /\ offers' \in Seq(Rows) /\ Stands
         /\ offers'[i].dismissed = moment /\ offers'[i].bought = offers[i].bought
         /\ \A j \in Ids \ {i} : offers'[j] = offers[j]
         /\ carts' = carts /\ moment' = moment /\ answered' = answered
<1> DEFINE row == [offers[i] EXCEPT !.dismissed = moment]
<1>1. offers[i] \in Rows /\ moment \in Nat
  BY Tables
<1>2. row \in Rows /\ row.dismissed = moment /\ row.bought = offers[i].bought
      /\ row.buyer = offers[i].buyer /\ row.code = offers[i].code
      /\ row.at = offers[i].at /\ row.key = offers[i].key
  BY <1>1 DEF Rows
<1>3. offers' = [offers EXCEPT ![i] = row]
  BY DEF Dismiss
<1> HIDE DEF row
<1>4. /\ offers' \in Seq(Rows) /\ Ids' = Ids /\ offers'[i] = row
      /\ \A j \in Ids \ {i} : offers'[j] = offers[j]
  BY <1>2, <1>3, Written
<1>5. Stands
  BY <1>2, <1>4 DEF Stands
<1>6. QED
  BY <1>2, <1>4, <1>5 DEF Dismiss

\* An open invoice is used again, or one is added that nobody has paid.
LEMMA InvoiceEffect ==
  ASSUME OfferTypeOK, NEW b \in Buyers, NEW p \in Products, NEW o \in Nat \cup {Nothing},
         Invoice(b, p, o)
  PROVE  /\ carts' \in Seq(Carts) /\ DOMAIN carts \subseteq DOMAIN carts'
         /\ \A c \in DOMAIN carts : carts'[c] = carts[c]
         /\ \A c \in DOMAIN carts' \ DOMAIN carts :
              carts'[c] = [buyer |-> b, product |-> p, offer |-> o, paid |-> FALSE]
<1> DEFINE new == [buyer |-> b, product |-> p, offer |-> o, paid |-> FALSE]
<1>1. carts \in Seq(Carts) /\ DOMAIN carts = 1..Len(carts) /\ Len(carts) \in Nat
  BY Tables DEF OfferTypeOK
<1>2. new \in Carts
  BY DEF Carts
<1>3. CASE carts' = carts
  BY <1>1, <1>3
<1>4. CASE carts' = Append(carts, new)
  <2> HIDE DEF new
  <2>1. /\ carts' \in Seq(Carts) /\ Len(carts') = Len(carts) + 1
        /\ \A c \in 1..Len(carts) : carts'[c] = carts[c]
        /\ carts'[Len(carts) + 1] = new
    BY <1>1, <1>2, <1>4, AppendProperties
  <2>2. DOMAIN carts' = 1..Len(carts')
    BY <2>1, LenProperties
  <2>3. \A c \in DOMAIN carts' \ DOMAIN carts : c = Len(carts) + 1
    BY <1>1, <2>1, <2>2
  <2>4. \A c \in DOMAIN carts' \ DOMAIN carts : carts'[c] = new
    BY <2>1, <2>3
  <2>5. DOMAIN carts \subseteq DOMAIN carts'
    BY <1>1, <2>1, <2>2
  <2>6. QED
    BY <1>1, <2>1, <2>4, <2>5 DEF new
<1>5. QED
  BY <1>3, <1>4 DEF Invoice

LEMMA ProductNames == \A code \in Codes : Buttons(code) \subseteq Products
<1> SUFFICES ASSUME NEW code \in Codes PROVE Buttons(code) \subseteq Products
  OBVIOUS
<1> USE DEF Buttons, Products
<1>1. CASE code = "ENERGY_ZERO"
  BY <1>1
<1>2. CASE code = "ENERGY_LOW"
  BY <1>2
<1>3. CASE code \in {"SECOND_ENERGY", "STREAK_GT7", "COMEBACK", "WEEKEND"}
  BY <1>3
<1>4. CASE code = "STREAK_RISK"
  BY <1>4
<1>5. CASE code = "STREAK_30"
  BY <1>5
<1>6. CASE code = "STARTER_EXPIRED"
  BY <1>6
<1>7. CASE code = "MONTH_EXPIRING"
  BY <1>7
<1>8. QED
  BY <1>1, <1>2, <1>3, <1>4, <1>5, <1>6, <1>7, CodeNames

LEMMA PressEffect ==
  ASSUME OfferTypeOK, NEW b \in Buyers, NEW i \in Ids, Press(b, i)
  PROVE  /\ offers' \in Seq(Rows) /\ Stands
         /\ \A j \in Ids : /\ offers'[j].dismissed = offers[j].dismissed
                           /\ offers'[j].bought = offers[j].bought
         /\ moment' = moment /\ answered' = answered /\ refused' = refused
         /\ offers[i].buyer = b
         /\ \E p \in Buttons(offers[i].code) : p \in Products /\ Invoice(b, p, i)
<1> DEFINE row == [offers[i] EXCEPT !.clicked = TRUE]
<1>1. offers[i] \in Rows /\ \A j \in Ids : offers[j] \in Rows
  BY Tables
<1>2. /\ row \in Rows /\ row.dismissed = offers[i].dismissed /\ row.bought = offers[i].bought
      /\ row.buyer = offers[i].buyer /\ row.code = offers[i].code
      /\ row.at = offers[i].at /\ row.key = offers[i].key
  BY <1>1 DEF Rows
<1>3. PICK p \in Buttons(offers[i].code) : Clicked(i) /\ Invoice(b, p, i)
  BY DEF Press
<1>4. p \in Products
  BY <1>1, ProductNames DEF Rows
<1>5. offers' \in Seq(Rows) /\ Stands
      /\ \A j \in Ids : /\ offers'[j].dismissed = offers[j].dismissed
                        /\ offers'[j].bought = offers[j].bought
  <2>1. CASE offers' = offers
    BY <2>1 DEF OfferTypeOK, Stands, Ids
  <2>2. CASE offers' = [offers EXCEPT ![i] = row]
    <3> HIDE DEF row
    <3>1. /\ offers' \in Seq(Rows) /\ Ids' = Ids /\ offers'[i] = row
          /\ \A j \in Ids \ {i} : offers'[j] = offers[j]
      BY <1>2, <2>2, Written
    <3>2. QED
      BY <1>2, <3>1 DEF Stands
  <2>3. offers' = offers \/ offers' = [offers EXCEPT ![i] = row]
    BY <1>3 DEF Clicked
  <2>4. QED
    BY <2>1, <2>2, <2>3
<1>6. QED
  BY <1>3, <1>4, <1>5 DEF Press

LEMMA PayEffect ==
  ASSUME OfferTypeOK, NEW c \in DOMAIN carts, Pay(c)
  PROVE  /\ offers' \in Seq(Rows) /\ Stands
         /\ carts' \in Seq(Carts) /\ DOMAIN carts' = DOMAIN carts
         /\ carts'[c] = [carts[c] EXCEPT !.paid = TRUE]
         /\ \A d \in DOMAIN carts \ {c} : carts'[d] = carts[d]
         /\ \A j \in Ids : /\ offers'[j].dismissed = offers[j].dismissed
                           /\ \/ offers'[j].bought = offers[j].bought
                              \/ offers[j].bought = Nothing /\ carts[c].offer = j /\ offers'[j].bought = c
         /\ carts[c].offer # Nothing => offers'[carts[c].offer].bought # Nothing
         /\ moment' = moment /\ answered' = answered /\ refused' = refused
<1> DEFINE o == carts[c].offer
           row == [offers[o] EXCEPT !.bought = c]
           bill == [carts[c] EXCEPT !.paid = TRUE]
<1>1. /\ carts \in Seq(Carts) /\ DOMAIN carts = 1..Len(carts) /\ carts[c] \in Carts
      /\ o \in Ids \cup {Nothing} /\ \A j \in Ids : offers[j] \in Rows
      /\ c \in Nat
  BY Tables DEF OfferTypeOK
<1>2. bill \in Carts
  BY <1>1 DEF Carts
<1>3. carts' = [carts EXCEPT ![c] = bill]
  BY DEF Pay
<1>4. /\ carts' \in Seq(Carts) /\ DOMAIN carts' = DOMAIN carts
      /\ carts'[c] = bill /\ \A d \in DOMAIN carts \ {c} : carts'[d] = carts[d]
  <2> HIDE DEF bill
  <2>1. /\ carts' \in Seq(Carts) /\ Len(carts') = Len(carts)
        /\ \A d \in 1..Len(carts) : carts'[d] = IF d = c THEN bill ELSE carts[d]
    BY <1>1, <1>2, <1>3, ExceptSeq
  <2>2. DOMAIN carts' = 1..Len(carts')
    BY <2>1, LenProperties
  <2>3. QED
    BY <1>1, <2>1, <2>2
<1>5. Nothing \notin Nat
  BY CoursesAssumption
<1>6. /\ offers' \in Seq(Rows) /\ Stands
      /\ \A j \in Ids : /\ offers'[j].dismissed = offers[j].dismissed
                        /\ \/ offers'[j].bought = offers[j].bought
                           \/ offers[j].bought = Nothing /\ o = j /\ offers'[j].bought = c
      /\ o # Nothing => offers'[o].bought # Nothing
  <2>1. CASE o = Nothing \/ (o \in Ids /\ offers[o].bought # Nothing)
    <3>1. offers' = offers
      BY <2>1 DEF Pay, Converts
    <3>2. QED
      BY <2>1, <3>1 DEF OfferTypeOK, Stands, Ids
  <2>2. CASE o \in Ids /\ offers[o].bought = Nothing
    <3>1. o # Nothing
      BY <1>5, <2>2, Tables
    <3>2. offers' = [offers EXCEPT ![o] = row]
      BY <2>2, <3>1 DEF Pay, Converts
    <3>3. /\ row \in Rows /\ row.dismissed = offers[o].dismissed /\ row.bought = c
          /\ row.buyer = offers[o].buyer /\ row.code = offers[o].code
          /\ row.at = offers[o].at /\ row.key = offers[o].key
      BY <1>1, <2>2 DEF Rows
    <3> HIDE DEF row, o
    <3>4. /\ offers' \in Seq(Rows) /\ Ids' = Ids /\ offers'[o] = row
          /\ \A j \in Ids \ {o} : offers'[j] = offers[j]
      BY <2>2, <3>2, <3>3, Written
    <3>5. QED
      BY <1>1, <1>5, <2>2, <3>3, <3>4 DEF Stands
  <2>3. QED
    BY <1>1, <2>1, <2>2
<1>7. QED
  BY <1>4, <1>6 DEF Pay

\* Time, what changes of a player, and who looks at the funnel leave the tables
\* alone.
Rests == UNCHANGED <<offers, carts, answered, refused>> /\ moment <= moment'

LEMMA StepCases ==
  ASSUME OfferTypeOK, [OfferNext]_offerVars
  PROVE  /\ course' = course
         /\ \/ \E b \in Buyers, key \in Asks, code \in Codes : Shows(b, key, code)
            \/ \E i \in Ids : Returns(i)
            \/ \E b \in Buyers, i \in Ids : Dismiss(b, i)
            \/ \E b \in Buyers, i \in Ids : Press(b, i)
            \/ \E b \in Buyers : Shop(b)
            \/ \E c \in DOMAIN carts : Pay(c)
            \/ Rests
<1>1. moment \in Nat
  BY Tables
<1>2. CASE Watch \/ Dashboard \/ Pass
  BY <1>1, <1>2 DEF Watch, Dashboard, Pass, Rests
<1>3. CASE \E c \in DOMAIN carts : Pay(c)
  BY <1>3 DEF Pay
<1>4. ASSUME NEW b \in Buyers, Live(b) \/ Shop(b)
      PROVE  course' = course /\ (Shop(b) \/ Rests)
  BY <1>1, <1>4 DEF Live, Shop, Rests
<1>5. ASSUME NEW b \in Buyers, NEW key \in Asks, Ask(b, key)
      PROVE  course' = course /\ \/ \E code \in Codes : Shows(b, key, code)
                                 \/ \E i \in Ids : Returns(i)
                                 \/ Rests
  BY <1>1, <1>5, AskEffect DEF Ask, Rests, offerVars
<1>6. ASSUME NEW b \in Buyers, NEW i \in Ids, Dismiss(b, i) \/ Press(b, i)
      PROVE  course' = course
  BY <1>6 DEF Dismiss, Press
<1>7. CASE UNCHANGED offerVars
  BY <1>1, <1>7 DEF offerVars, Rests
<1>8. QED
  BY <1>2, <1>3, <1>4, <1>5, <1>6, <1>7 DEF OfferNext

LEMMA ShopEffect ==
  ASSUME OfferTypeOK, NEW b \in Buyers, Shop(b)
  PROVE  /\ UNCHANGED <<moment, offers, answered, refused, life>>
         /\ \E p \in Products : Invoice(b, p, Nothing)
<1>1. course.shop \subseteq Products
  BY CoursesAssumption DEF OfferTypeOK
<1>2. QED
  BY <1>1 DEF Shop

-----------------------------------------------------------------------------
(* Types. *)

LEMMA InitTypes == OfferInit => OfferTypeOK
<1> SUFFICES ASSUME OfferInit PROVE OfferTypeOK
  OBVIOUS
<1>1. course \in Courses /\ course.end \in Nat /\ course.first \in course.lives
  BY CoursesAssumption DEF OfferInit
<1>2. moment \in 0..course.end
  BY <1>1 DEF OfferInit
<1>3. offers \in Seq(Rows) /\ carts \in Seq(Carts) /\ DOMAIN carts = {}
  BY DEF OfferInit
<1>4. life \in [Buyers -> course.lives]
  BY <1>1 DEF OfferInit
<1>5. answered = {} /\ refused = {}
  BY DEF OfferInit
<1>6. QED
  BY <1>1, <1>2, <1>3, <1>4, <1>5 DEF OfferTypeOK

\* Every invoice names an impression there is.
LEMMA OffersNamed ==
  ASSUME OfferTypeOK, NEW b \in Buyers, NEW p \in Products, NEW o \in Ids \cup {Nothing},
         Invoice(b, p, o)
  PROVE  /\ carts' \in Seq(Carts)
         /\ \A c \in DOMAIN carts' : carts'[c].offer \in Ids \cup {Nothing}
<1>1. o \in Nat \cup {Nothing}
  BY Tables
<1>2. /\ carts' \in Seq(Carts) /\ \A c \in DOMAIN carts : carts'[c] = carts[c]
      /\ \A c \in DOMAIN carts' \ DOMAIN carts :
           carts'[c] = [buyer |-> b, product |-> p, offer |-> o, paid |-> FALSE]
  BY <1>1, InvoiceEffect
<1>3. \A c \in DOMAIN carts' \ DOMAIN carts : carts'[c].offer = o
  BY <1>2
<1>4. QED
  BY <1>2, <1>3, Tables

LEMMA StepTypes == OfferTypeOK /\ [OfferNext]_offerVars => OfferTypeOK'
<1> SUFFICES ASSUME OfferTypeOK, [OfferNext]_offerVars PROVE OfferTypeOK'
  OBVIOUS
<1>1. course' = course /\ course \in Courses /\ moment \in Nat /\ Ids \subseteq Nat
  BY StepCases, Tables
<1>2. CASE \E b \in Buyers, key \in Asks, code \in Codes : Shows(b, key, code)
  <2>1. PICK b \in Buyers, key \in Asks, code \in Codes : Shows(b, key, code)
    BY <1>2
  <2>2. offers' \in Seq(Rows) /\ Ids \subseteq Ids' /\ Len(offers) + 1 \in Nat
    BY <2>1, ShowsRow, Tables
  <2>3. answered' \subseteq Answers
    BY <2>1, <2>2 DEF Shows, OfferTypeOK, Answers
  <2>4. QED
    BY <1>1, <2>1, <2>2, <2>3 DEF OfferTypeOK, Shows
<1>3. CASE \E i \in Ids : Returns(i)
  <2>1. PICK i \in Ids : Returns(i)
    BY <1>3
  <2>2. offers[i] \in Rows /\ i \in Nat
    BY <1>1, Tables
  <2>3. answered' \subseteq Answers
    BY <2>1, <2>2 DEF Returns, OfferTypeOK, Answers, Rows
  <2>4. QED
    BY <1>1, <2>1, <2>3 DEF OfferTypeOK, Returns, Ids
<1>4. CASE \E b \in Buyers, i \in Ids : Dismiss(b, i)
  <2>1. PICK b \in Buyers, i \in Ids : Dismiss(b, i)
    BY <1>4
  <2>2. offers' \in Seq(Rows) /\ Ids' = Ids
    BY <2>1, DismissEffect DEF Stands
  <2>3. [buyer |-> b, code |-> offers[i].code, id |-> i, at |-> moment, seen |-> Len(offers)] \in Refusals
    BY <1>1, Tables DEF Refusals, Rows
  <2>4. refused' \subseteq Refusals
    BY <2>1, <2>3 DEF Dismiss, OfferTypeOK
  <2>5. QED
    BY <1>1, <2>1, <2>2, <2>4 DEF OfferTypeOK, Dismiss
<1>5. CASE \E b \in Buyers, i \in Ids : Press(b, i)
  <2>1. PICK b \in Buyers, i \in Ids : Press(b, i)
    BY <1>5
  <2>2. PICK p \in Products : Invoice(b, p, i)
    BY <2>1, PressEffect
  <2>3. carts' \in Seq(Carts) /\ \A c \in DOMAIN carts' : carts'[c].offer \in Ids \cup {Nothing}
    BY <2>2, OffersNamed
  <2>4. offers' \in Seq(Rows) /\ Ids' = Ids
    BY <2>1, PressEffect DEF Stands
  <2>5. QED
    BY <1>1, <2>1, <2>3, <2>4 DEF OfferTypeOK, Press
<1>6. CASE \E b \in Buyers : Shop(b)
  <2>1. PICK b \in Buyers : Shop(b)
    BY <1>6
  <2>2. PICK p \in Products : Invoice(b, p, Nothing)
    BY <2>1, ShopEffect
  <2>3. carts' \in Seq(Carts) /\ \A c \in DOMAIN carts' : carts'[c].offer \in Ids \cup {Nothing}
    BY <2>2, OffersNamed
  <2>4. QED
    BY <1>1, <2>1, <2>3, ShopEffect DEF OfferTypeOK, Ids
<1>7. CASE \E c \in DOMAIN carts : Pay(c)
  <2>1. PICK c \in DOMAIN carts : Pay(c)
    BY <1>7
  <2>2. /\ offers' \in Seq(Rows) /\ Ids' = Ids /\ carts' \in Seq(Carts) /\ DOMAIN carts' = DOMAIN carts
        /\ carts'[c] = [carts[c] EXCEPT !.paid = TRUE]
        /\ \A d \in DOMAIN carts \ {c} : carts'[d] = carts[d]
    BY <2>1, PayEffect DEF Stands
  <2>3. carts'[c].offer = carts[c].offer
    BY <2>2, Tables DEF Carts
  <2>4. \A d \in DOMAIN carts' : carts'[d].offer \in Ids' \cup {Nothing}
    BY <2>2, <2>3, Tables
  <2>5. QED
    BY <1>1, <2>1, <2>2, <2>4 DEF OfferTypeOK, Pay
<1>8. CASE Rests /\ ~\E c \in DOMAIN carts : Pay(c)
  <2>1. moment' \in 0..course.end /\ life' \in [Buyers -> course.lives]
    <3>1. CASE \E b \in Buyers : Live(b)
      BY <3>1 DEF Live, OfferTypeOK
    <3>2. CASE Pass
      BY <1>1, <3>2, CoursesAssumption DEF Pass, OfferTypeOK
    <3>3. CASE moment' = moment /\ life' = life
      BY <3>3 DEF OfferTypeOK
    <3>4. Pass \/ (\E b \in Buyers : Live(b)) \/ (moment' = moment /\ life' = life)
      BY <1>8 DEF OfferNext, Watch, Dashboard, Shop, Ask, Dismiss, Press, offerVars
    <3>5. QED
      BY <3>1, <3>2, <3>3, <3>4
  <2>2. QED
    BY <1>1, <1>8, <2>1 DEF OfferTypeOK, Rests, Ids
<1>9. QED
  BY StepCases, <1>2, <1>3, <1>4, <1>5, <1>6, <1>7, <1>8

\* Every row, invoice and answer keeps its type, for any number of players,
\* occasions and purchases.
THEOREM TypeCorrect == OfferSpec => []OfferTypeOK
BY InitTypes, StepTypes, PTL DEF OfferSpec

-----------------------------------------------------------------------------
(* NotPestered.  The selection looks at impressions that are at most        *)
(* MuteFor old: every other window and the rest of the day lie within.      *)

\* No time of a row lies ahead.
Stamped ==
  \A i \in Ids : /\ offers[i].at <= moment
                 /\ offers[i].dismissed # Nothing => offers[i].dismissed <= moment

LEMMA StampedStep ==
  ASSUME OfferTypeOK, OfferTypeOK', Stamped, [OfferNext]_offerVars
  PROVE  Stamped'
<1>1. moment \in Nat /\ moment' \in Nat /\ Nothing \notin Nat
      /\ \A i \in Ids : offers[i].at \in Nat /\ offers[i].dismissed \in Nat \cup {Nothing}
  <2>1. moment \in Nat /\ \A i \in Ids : offers[i] \in Rows
    BY Tables
  <2>2. course' \in Courses /\ moment' \in 0..course'.end
    BY DEF OfferTypeOK
  <2>3. QED
    BY <2>1, <2>2, CoursesAssumption DEF Rows
<1>2. CASE \E b \in Buyers, key \in Asks, code \in Codes : Shows(b, key, code)
  <2>1. PICK b \in Buyers, key \in Asks, code \in Codes : Shows(b, key, code)
    BY <1>2
  <2>2. /\ Ids' = Ids \cup {Len(offers) + 1} /\ \A i \in Ids : offers'[i] = offers[i]
        /\ offers'[Len(offers) + 1] = Impression(b, key, code) /\ moment' = moment
    BY <2>1, ShowsRow DEF Shows
  <2>3. QED
    BY <1>1, <2>2 DEF Stamped, Impression
<1>3. CASE \E i \in Ids : Returns(i)
  BY <1>3 DEF Returns, Stamped, Ids
<1>4. CASE \E b \in Buyers, i \in Ids : Dismiss(b, i)
  BY <1>1, <1>4, DismissEffect DEF Stands, Stamped
<1>5. CASE \E b \in Buyers, i \in Ids : Press(b, i)
  BY <1>5, PressEffect DEF Stands, Stamped
<1>6. CASE \E b \in Buyers : Shop(b)
  BY <1>6, ShopEffect DEF Stamped, Ids
<1>7. CASE \E c \in DOMAIN carts : Pay(c)
  <2>1. PICK c \in DOMAIN carts : Pay(c)
    BY <1>7
  <2>2. Stands /\ moment' = moment /\ \A j \in Ids : offers'[j].dismissed = offers[j].dismissed
    BY <2>1, PayEffect
  <2>3. QED
    BY <2>2 DEF Stands, Stamped
<1>8. CASE Rests
  BY <1>1, <1>8 DEF Rests, Stamped, Ids
<1>9. QED
  BY StepCases, <1>2, <1>3, <1>4, <1>5, <1>6, <1>7, <1>8

ShownOn(b, d) == {i \in Shown(b) : DayOf(offers[i].at) = d}

\* NotPestered, for every day and not only for those that have begun.
CapKept == \A b \in Buyers, d \in Nat : Cardinality(ShownOn(b, d)) <= DayCap
Spaced ==
  \A b \in Buyers : \A i, j \in Shown(b) :
    i < j =>
      /\ offers[i].code = offers[j].code => offers[j].at > offers[i].at + RepeatFor
      /\ {offers[i].code, offers[j].code} \subseteq Blocking => offers[j].at > offers[i].at + BlockFor

\* What is recent enough to matter is among the recent ones.
LEMMA Remembered ==
  ASSUME OfferTypeOK, Stamped, NEW b, NEW i \in Shown(b), NEW span \in Nat, span <= MuteFor,
         Since(offers[i].at, span)
  PROVE  i \in Recent(b)
<1>1. i \in Ids /\ offers[i].buyer = b /\ offers[i].at \in Nat /\ moment \in Nat /\ MuteFor \in Nat
  BY Tables, WindowsAssumption DEF Shown, Rows
<1>2. QED
  BY <1>1 DEF Since, Recent

LEMMA OfToday ==
  ASSUME OfferTypeOK, Stamped, NEW b
  PROVE  ShownOn(b, DayOf(moment)) = ShownToday(b)
<1>1. ASSUME NEW i \in ShownOn(b, DayOf(moment)) PROVE i \in ShownToday(b)
  <2>1. /\ i \in Shown(b) /\ i \in Ids /\ offers[i].at \in Nat /\ moment \in Nat /\ offers[i].at <= moment
        /\ DayOf(offers[i].at) = DayOf(moment)
    BY Tables DEF ShownOn, Shown, Rows, Stamped
  <2>2. moment < offers[i].at + DayLen
    BY <2>1, DayLength
  <2>3. Since(offers[i].at, MuteFor)
    BY <2>1, <2>2, WindowsAssumption DEF Since
  <2>4. i \in Recent(b)
    BY <2>1, <2>3 DEF Recent, Shown
  <2>5. QED
    BY <2>1, <2>4 DEF ShownToday
<1>2. ShownToday(b) \subseteq ShownOn(b, DayOf(moment))
  BY DEF ShownToday, Recent, ShownOn, Shown
<1>3. QED
  BY <1>1, <1>2

\* An impression of another player, or of another day, changes no count.
LEMMA CapStep ==
  ASSUME OfferTypeOK, Stamped, CapKept, NEW b \in Buyers, NEW key \in Asks, NEW code \in Codes,
         Shows(b, key, code)
  PROVE  CapKept'
<1> DEFINE new == Len(offers) + 1
<1>1. /\ Ids' = Ids \cup {new} /\ new \notin Ids /\ \A i \in Ids : offers'[i] = offers[i]
      /\ offers'[new] = Impression(b, key, code) /\ moment \in Nat /\ IsFiniteSet(Ids)
  BY ShowsRow, Tables
<1>2. offers'[new].buyer = b /\ offers'[new].at = moment
  BY <1>1 DEF Impression
<1> HIDE DEF new
<1>3. SUFFICES ASSUME NEW a \in Buyers, NEW d \in Nat PROVE Cardinality(ShownOn(a, d)') <= DayCap
  BY DEF CapKept
<1>4. Cardinality(ShownOn(a, d)) <= DayCap
  BY DEF CapKept
<1>5. CASE a = b /\ d = DayOf(moment)
  <2>1. ShownOn(a, d)' = ShownOn(a, d) \cup {new} /\ new \notin ShownOn(a, d)
    BY <1>1, <1>2, <1>5 DEF ShownOn, Shown, DayOf
  <2>2. ShownOn(a, d) \subseteq Ids
    BY DEF ShownOn, Shown
  <2>3. IsFiniteSet(ShownOn(a, d)) /\ Cardinality(ShownOn(a, d)) \in Nat
    BY <1>1, <2>2, FS_Subset, FS_CardinalityType
  <2>4. Cardinality(ShownOn(a, d)') = Cardinality(ShownOn(a, d)) + 1
    BY <2>1, <2>3, FS_AddElement
  <2>5. ShownOn(a, d) = ShownToday(b)
    BY <1>5, OfToday
  <2>6. ~(Cardinality(ShownToday(b)) >= DayCap)
    BY DEF Shows, Showable
  <2>7. QED
    BY <2>3, <2>4, <2>5, <2>6, WindowsAssumption
<1>6. CASE ~(a = b /\ d = DayOf(moment))
  <2>1. ShownOn(a, d)' = ShownOn(a, d)
    BY <1>1, <1>2, <1>6 DEF ShownOn, Shown, DayOf
  <2>2. QED
    BY <1>4, <2>1
<1>7. QED
  BY <1>5, <1>6

LEMMA SpacedStep ==
  ASSUME OfferTypeOK, Stamped, Spaced, NEW b \in Buyers, NEW key \in Asks, NEW code \in Codes,
         Shows(b, key, code)
  PROVE  Spaced'
<1> DEFINE new == Len(offers) + 1
<1>1. /\ Ids' = Ids \cup {new} /\ \A i \in Ids : offers'[i] = offers[i] /\ i < new /\ i \in Nat
      /\ offers'[new] = Impression(b, key, code) /\ moment \in Nat /\ new \in Nat
      /\ \A i \in Ids : offers[i] \in Rows
  BY ShowsRow, Tables
<1>2. offers'[new].buyer = b /\ offers'[new].at = moment /\ offers'[new].code = code
  BY <1>1 DEF Impression
<1>3. ~Repeats(b, code) /\ ~BlockedBy(b, code)
  BY DEF Shows, Showable
<1> HIDE DEF new
<1>4. ASSUME NEW i \in Ids, offers[i].buyer = b
      PROVE  /\ offers[i].code = code => moment > offers[i].at + RepeatFor
             /\ {offers[i].code, code} \subseteq Blocking => moment > offers[i].at + BlockFor
  <2>1. offers[i].at \in Nat /\ {RepeatFor, BlockFor, MuteFor} \subseteq Nat
        /\ RepeatFor <= MuteFor /\ BlockFor <= MuteFor
    BY <1>1, WindowsAssumption DEF Rows
  <2>2. i \in Shown(b)
    BY <1>4 DEF Shown
  <2>3. CASE Since(offers[i].at, RepeatFor) /\ offers[i].code = code
    BY <1>3, <2>1, <2>2, <2>3, Remembered DEF Repeats
  <2>4. CASE Since(offers[i].at, BlockFor) /\ {offers[i].code, code} \subseteq Blocking
    BY <1>3, <2>1, <2>2, <2>4, Remembered DEF BlockedBy
  <2>5. QED
    BY <1>1, <2>1, <2>3, <2>4 DEF Since
<1>5. SUFFICES ASSUME NEW a \in Buyers, NEW i \in Shown(a)', NEW j \in Shown(a)', i < j
               PROVE  /\ offers'[i].code = offers'[j].code => offers'[j].at > offers'[i].at + RepeatFor
                      /\ {offers'[i].code, offers'[j].code} \subseteq Blocking =>
                           offers'[j].at > offers'[i].at + BlockFor
  BY DEF Spaced
<1>6. i \in Ids' /\ j \in Ids' /\ offers'[i].buyer = a /\ offers'[j].buyer = a
  BY DEF Shown
<1>7. i \in Ids
  BY <1>1, <1>5, <1>6
<1>8. CASE j = new
  BY <1>1, <1>2, <1>4, <1>6, <1>7, <1>8
<1>9. CASE j \in Ids
  <2>1. i \in Shown(a) /\ j \in Shown(a) /\ offers'[i] = offers[i] /\ offers'[j] = offers[j]
    BY <1>1, <1>6, <1>7, <1>9 DEF Shown
  <2>2. QED
    BY <1>5, <2>1 DEF Spaced
<1>10. QED
  BY <1>1, <1>6, <1>8, <1>9

\* Where the rows stand, so do the counts and the distances.
LEMMA PestFrame ==
  ASSUME CapKept /\ Spaced, Stands
  PROVE  (CapKept /\ Spaced)'
<1>1. \A a \in Buyers : Shown(a)' = Shown(a)
  BY DEF Stands, Shown
<1>2. \A a \in Buyers, d \in Nat : ShownOn(a, d)' = ShownOn(a, d)
  BY <1>1 DEF Stands, ShownOn, Shown, DayOf
<1>3. CapKept'
  BY <1>2 DEF CapKept
<1>4. Spaced'
  <2> SUFFICES ASSUME NEW a \in Buyers, NEW i \in Shown(a), NEW j \in Shown(a), i < j
               PROVE  /\ offers'[i].code = offers'[j].code => offers'[j].at > offers'[i].at + RepeatFor
                      /\ {offers'[i].code, offers'[j].code} \subseteq Blocking =>
                           offers'[j].at > offers'[i].at + BlockFor
    BY <1>1 DEF Spaced
  <2>1. i \in Ids /\ j \in Ids
    BY DEF Shown
  <2>2. QED
    BY <2>1 DEF Spaced, Stands
<1>5. QED
  BY <1>3, <1>4

\* A step that shows nothing leaves the rows where they are.
LEMMA StandsOrShows ==
  ASSUME OfferTypeOK, [OfferNext]_offerVars,
         ~\E b \in Buyers, key \in Asks, code \in Codes : Shows(b, key, code)
  PROVE  Stands
<1>1. CASE \E i \in Ids : Returns(i)
  BY <1>1 DEF Returns, Stands, Ids
<1>2. CASE \E b \in Buyers, i \in Ids : Dismiss(b, i)
  BY <1>2, DismissEffect
<1>3. CASE \E b \in Buyers, i \in Ids : Press(b, i)
  BY <1>3, PressEffect
<1>4. CASE \E b \in Buyers : Shop(b)
  BY <1>4, ShopEffect DEF Stands, Ids
<1>5. CASE \E c \in DOMAIN carts : Pay(c)
  BY <1>5, PayEffect
<1>6. CASE Rests
  BY <1>6 DEF Rests, Stands, Ids
<1>7. QED
  BY StepCases, <1>1, <1>2, <1>3, <1>4, <1>5, <1>6

PestInv == Stamped /\ CapKept /\ Spaced

LEMMA PestInit == OfferInit => PestInv
<1> SUFFICES ASSUME OfferInit PROVE PestInv
  OBVIOUS
<1>1. Ids = {}
  BY DEF OfferInit, Ids
<1>2. \A b, d : ShownOn(b, d) = {} /\ Shown(b) = {}
  BY <1>1 DEF ShownOn, Shown
<1>3. Cardinality({}) = 0
  BY FS_EmptySet
<1>4. \A b \in Buyers, d \in Nat : Cardinality(ShownOn(b, d)) = 0
  BY <1>2, <1>3
<1>5. QED
  BY <1>1, <1>2, <1>4, WindowsAssumption DEF PestInv, Stamped, CapKept, Spaced

LEMMA PestStep ==
  OfferTypeOK /\ OfferTypeOK' /\ PestInv /\ [OfferNext]_offerVars => PestInv'
<1> SUFFICES ASSUME OfferTypeOK, OfferTypeOK', PestInv, [OfferNext]_offerVars PROVE PestInv'
  OBVIOUS
<1>1. Stamped'
  BY StampedStep DEF PestInv
<1>2. CASE \E b \in Buyers, key \in Asks, code \in Codes : Shows(b, key, code)
  <2>1. PICK b \in Buyers, key \in Asks, code \in Codes : Shows(b, key, code)
    BY <1>2
  <2>2. CapKept' /\ Spaced'
    BY <2>1, CapStep, SpacedStep DEF PestInv
  <2>3. QED
    BY <1>1, <2>2 DEF PestInv
<1>3. CASE ~\E b \in Buyers, key \in Asks, code \in Codes : Shows(b, key, code)
  <2>1. Stands
    BY <1>3, StandsOrShows
  <2>2. CapKept' /\ Spaced'
    BY <2>1, PestFrame DEF PestInv
  <2>3. QED
    BY <1>1, <2>2 DEF PestInv
<1>4. QED
  BY <1>2, <1>3

\* However starts, empty batteries and retries mix, no player sees more offers
\* on a day than the cap, two blocking ones within their cooldown or the same
\* one again within its own.
THEOREM NotPesteredThm == OfferSpec => []NotPestered
<1>1. OfferTypeOK /\ PestInv => NotPestered
  <2> SUFFICES ASSUME OfferTypeOK, PestInv PROVE NotPestered
    OBVIOUS
  <2>1. 0..DayOf(moment) \subseteq Nat
    BY Tables, DayLength
  <2>2. \A b \in Buyers : \A d \in 0..DayOf(moment) :
          Cardinality({i \in Shown(b) : DayOf(offers[i].at) = d}) <= DayCap
    BY <2>1 DEF PestInv, CapKept, ShownOn
  <2>3. QED
    BY <2>2 DEF PestInv, Spaced, NotPestered
<1>2. QED
  BY <1>1, PestInit, PestStep, TypeCorrect, InitTypes, StepTypes, PTL DEF OfferSpec

-----------------------------------------------------------------------------
(* RefusalsKept. *)

\* A refusal stays on its row; only a later one replaces it.
RefusalsNoted ==
  \A r \in refused : /\ r.id \in Ids /\ offers[r.id].buyer = r.buyer /\ offers[r.id].code = r.code
                     /\ offers[r.id].dismissed \in Nat /\ r.at <= offers[r.id].dismissed

RefusalInv == Stamped /\ RefusalsNoted /\ RefusalsKept

LEMMA RefusalShows ==
  ASSUME OfferTypeOK, RefusalInv, NEW b \in Buyers, NEW key \in Asks, NEW code \in Codes,
         Shows(b, key, code)
  PROVE  RefusalsNoted' /\ RefusalsKept'
<1> DEFINE new == Len(offers) + 1
<1>1. /\ Ids' = Ids \cup {new} /\ \A i \in Ids : offers'[i] = offers[i] /\ i < new /\ i \in Nat
      /\ offers'[new] = Impression(b, key, code) /\ moment \in Nat /\ new \notin Ids
      /\ \A i \in Ids : offers[i] \in Rows
      /\ refused' = refused
  BY ShowsRow, Tables DEF Shows
<1>2. offers'[new].buyer = b /\ offers'[new].at = moment /\ offers'[new].code = code
  BY <1>1 DEF Impression
<1>3. ~Muted(b, code)
  BY DEF Shows, Showable
<1>4. Nothing \notin Nat /\ MuteFor \in Nat
  BY CoursesAssumption, WindowsAssumption
<1> HIDE DEF new
<1>5. RefusalsNoted'
  BY <1>1 DEF RefusalInv, RefusalsNoted
<1>6. SUFFICES ASSUME NEW r \in refused, NEW i \in Ids \cup {new}, offers'[i].buyer = r.buyer,
                      offers'[i].code = r.code, i > r.seen, offers'[r.id].dismissed = r.at
               PROVE  \/ offers'[i].at > r.at + MuteFor
                      \/ offers'[i].at > offers'[r.id].at + MuteFor
  BY <1>1, <1>5 DEF RefusalsKept
<1>7. /\ r.id \in Ids /\ offers'[r.id] = offers[r.id] /\ offers[r.id].buyer = r.buyer
      /\ offers[r.id].code = r.code /\ offers[r.id].dismissed \in Nat
      /\ r.at \in Nat /\ offers[r.id].at \in Nat
  BY <1>1 DEF RefusalInv, RefusalsNoted, OfferTypeOK, Refusals, Rows
<1>8. CASE i \in Ids
  BY <1>1, <1>6, <1>7, <1>8 DEF RefusalInv, RefusalsKept
<1>9. CASE i = new
  <2>1. r.id \notin Recent(b) \/ ~Since(offers[r.id].dismissed, MuteFor)
    BY <1>2, <1>3, <1>4, <1>6, <1>7, <1>9 DEF Muted
  <2>2. CASE r.id \notin Recent(b)
    BY <1>1, <1>2, <1>4, <1>6, <1>7, <1>9, <2>2 DEF Recent, Since
  <2>3. CASE ~Since(offers[r.id].dismissed, MuteFor)
    BY <1>1, <1>2, <1>4, <1>6, <1>7, <1>9, <2>3 DEF Since
  <2>4. QED
    BY <2>1, <2>2, <2>3
<1>10. QED
  BY <1>8, <1>9

LEMMA RefusalDismiss ==
  ASSUME OfferTypeOK, RefusalInv, NEW b \in Buyers, NEW k \in Ids, Dismiss(b, k)
  PROVE  RefusalsNoted' /\ RefusalsKept'
<1> DEFINE new == [buyer |-> b, code |-> offers[k].code, id |-> k, at |-> moment, seen |-> Len(offers)]
<1>1. /\ Ids' = Ids /\ moment \in Nat /\ Ids = 1..Len(offers) /\ Len(offers) \in Nat
      /\ offers'[k].dismissed = moment /\ \A j \in Ids \ {k} : offers'[j] = offers[j]
      /\ \A j \in Ids : offers'[j].buyer = offers[j].buyer /\ offers'[j].code = offers[j].code
                        /\ offers'[j].at = offers[j].at
      /\ refused' = refused \cup {new} /\ offers[k].buyer = b
  BY DismissEffect, Tables DEF Stands, Dismiss
<1>2. /\ new.buyer = b /\ new.code = offers[k].code /\ new.id = k /\ new.at = moment
      /\ new.seen = Len(offers)
  OBVIOUS
<1> HIDE DEF new
<1>3. ASSUME NEW r \in refused
      PROVE  /\ r.id \in Ids /\ offers[r.id].buyer = r.buyer /\ offers[r.id].code = r.code
             /\ offers[r.id].dismissed \in Nat /\ r.at <= offers[r.id].dismissed /\ r.at \in Nat
             /\ offers[r.id].dismissed <= moment
  BY CoursesAssumption DEF RefusalInv, RefusalsNoted, Stamped, OfferTypeOK, Refusals
<1>4. RefusalsNoted'
  <2> SUFFICES ASSUME NEW r \in refused \cup {new}
               PROVE  /\ r.id \in Ids /\ offers'[r.id].buyer = r.buyer /\ offers'[r.id].code = r.code
                      /\ offers'[r.id].dismissed \in Nat /\ r.at <= offers'[r.id].dismissed
    BY <1>1 DEF RefusalsNoted
  <2>1. CASE r = new
    BY <1>1, <1>2, <2>1
  <2>2. CASE r \in refused /\ r.id = k
    BY <1>1, <1>3, <2>2
  <2>3. CASE r \in refused /\ r.id # k
    BY <1>1, <1>3, <2>3
  <2>4. QED
    BY <2>1, <2>2, <2>3
<1>5. RefusalsKept'
  <2> SUFFICES ASSUME NEW r \in refused \cup {new}, NEW i \in Ids, offers'[i].buyer = r.buyer,
                      offers'[i].code = r.code, i > r.seen, offers'[r.id].dismissed = r.at
               PROVE  \/ offers'[i].at > r.at + MuteFor
                      \/ offers'[i].at > offers'[r.id].at + MuteFor
    BY <1>1 DEF RefusalsKept
  <2>1. CASE r = new
    BY <1>1, <1>2, <2>1
  <2>2. CASE r \in refused
    <3>1. offers[r.id].dismissed = r.at
      BY <1>1, <1>3, <2>2
    <3>2. QED
      BY <1>1, <1>3, <2>2, <3>1 DEF RefusalInv, RefusalsKept
  <2>3. QED
    BY <2>1, <2>2
<1>6. QED
  BY <1>4, <1>5

LEMMA RefusalFrame ==
  ASSUME RefusalInv, Stands, refused' = refused,
         \A j \in Ids : offers'[j].dismissed = offers[j].dismissed
  PROVE  RefusalsNoted' /\ RefusalsKept'
BY DEF RefusalInv, RefusalsNoted, RefusalsKept, Stands

LEMMA RefusalStep ==
  OfferTypeOK /\ OfferTypeOK' /\ RefusalInv /\ [OfferNext]_offerVars => RefusalInv'
<1> SUFFICES ASSUME OfferTypeOK, OfferTypeOK', RefusalInv, [OfferNext]_offerVars PROVE RefusalInv'
  OBVIOUS
<1>1. Stamped'
  BY StampedStep DEF RefusalInv
<1>2. RefusalsNoted' /\ RefusalsKept'
  <2>1. CASE \E b \in Buyers, key \in Asks, code \in Codes : Shows(b, key, code)
    BY <2>1, RefusalShows
  <2>2. CASE \E i \in Ids : Returns(i)
    BY <2>2, RefusalFrame DEF Returns, Stands, Ids
  <2>3. CASE \E b \in Buyers, i \in Ids : Dismiss(b, i)
    BY <2>3, RefusalDismiss
  <2>4. CASE \E b \in Buyers, i \in Ids : Press(b, i)
    BY <2>4, PressEffect, RefusalFrame
  <2>5. CASE \E b \in Buyers : Shop(b)
    BY <2>5, ShopEffect, RefusalFrame DEF Stands, Ids
  <2>6. CASE \E c \in DOMAIN carts : Pay(c)
    <3>1. PICK c \in DOMAIN carts : Pay(c)
      BY <2>6
    <3>2. Stands /\ refused' = refused /\ \A j \in Ids : offers'[j].dismissed = offers[j].dismissed
      BY <3>1, PayEffect
    <3>3. QED
      BY <3>2, RefusalFrame
  <2>7. CASE Rests
    BY <2>7, RefusalFrame DEF Rests, Stands, Ids
  <2>8. QED
    BY StepCases, <2>1, <2>2, <2>3, <2>4, <2>5, <2>6, <2>7
<1>3. QED
  BY <1>1, <1>2 DEF RefusalInv

\* An offer that was refused does not come back within the window of the
\* refusal, unless the impression that was refused is older than the window.
THEOREM RefusalsKeptThm == OfferSpec => []RefusalsKept
<1>1. OfferInit => RefusalInv
  BY PestInit DEF PestInv, OfferInit, RefusalInv, RefusalsNoted, RefusalsKept
<1>2. RefusalInv => RefusalsKept
  BY DEF RefusalInv
<1>3. QED
  BY <1>1, <1>2, RefusalStep, TypeCorrect, PTL DEF OfferSpec

-----------------------------------------------------------------------------
(* OneAnswer. *)

KeysOnce == \A i, j \in Ids : offers[i].key = offers[j].key => i = j
Owned == \A i \in Ids : offers[i].buyer = course.owner[offers[i].key]
Told == \A a \in answered : a.id \in Ids /\ offers[a.id].key = a.key /\ offers[a.id].code = a.code
AnswerInv == KeysOnce /\ Owned /\ Told

LEMMA AnswerStep ==
  OfferTypeOK /\ AnswerInv /\ [OfferNext]_offerVars => AnswerInv'
<1> SUFFICES ASSUME OfferTypeOK, AnswerInv, [OfferNext]_offerVars PROVE AnswerInv'
  OBVIOUS
<1>1. course' = course
  BY StepCases
<1>2. CASE \E b \in Buyers, key \in Asks, code \in Codes : Shows(b, key, code)
  <2>1. PICK b \in Buyers, key \in Asks, code \in Codes : Shows(b, key, code)
    BY <1>2
  <2> DEFINE new == Len(offers) + 1
             told == [key |-> key, id |-> new, code |-> code]
  <2>2. /\ Ids' = Ids \cup {new} /\ \A i \in Ids : offers'[i] = offers[i]
        /\ offers'[new] = Impression(b, key, code)
    BY <2>1, ShowsRow
  <2>3. offers'[new].key = key /\ offers'[new].buyer = b /\ offers'[new].code = code
    BY <2>2 DEF Impression
  <2>4. course.owner[key] = b /\ \A i \in Ids : offers[i].key # key
    BY <2>1 DEF Shows, Logged
  <2>5. answered' = answered \cup {told}
    BY <2>1 DEF Shows
  <2>6. told.id = new /\ told.key = key /\ told.code = code
    OBVIOUS
  <2> HIDE DEF new, told
  <2>7. KeysOnce'
    BY <2>2, <2>3, <2>4 DEF AnswerInv, KeysOnce
  <2>8. Owned'
    BY <1>1, <2>2, <2>3, <2>4 DEF AnswerInv, Owned
  <2>9. Told'
    BY <2>2, <2>3, <2>5, <2>6 DEF AnswerInv, Told
  <2>10. QED
    BY <2>7, <2>8, <2>9 DEF AnswerInv
<1>3. CASE ~\E b \in Buyers, key \in Asks, code \in Codes : Shows(b, key, code)
  <2>1. Stands
    BY <1>3, StandsOrShows
  <2>2. KeysOnce' /\ Owned'
    BY <1>1, <2>1 DEF AnswerInv, KeysOnce, Owned, Stands
  <2>3. Told'
    <3>1. CASE \E i \in Ids : Returns(i)
      <4>1. PICK i \in Ids : Returns(i)
        BY <3>1
      <4> DEFINE told == [key |-> offers[i].key, id |-> i, code |-> offers[i].code]
      <4>2. answered' = answered \cup {told}
        BY <4>1 DEF Returns
      <4>3. told.id = i /\ told.key = offers[i].key /\ told.code = offers[i].code
        OBVIOUS
      <4> HIDE DEF told
      <4>4. QED
        BY <2>1, <4>2, <4>3 DEF AnswerInv, Told, Stands
    <3>2. CASE answered' = answered
      BY <2>1, <3>2 DEF AnswerInv, Told, Stands
    <3>3. answered' = answered \/ \E i \in Ids : Returns(i)
      BY <1>3, StepCases DEF Dismiss, Press, Shop, Pay, Rests
    <3>4. QED
      BY <3>1, <3>2, <3>3
  <2>4. QED
    BY <2>2, <2>3 DEF AnswerInv
<1>4. QED
  BY <1>2, <1>3

\* One occasion has one impression, and whoever asks about it again, in a retry
\* or at another time, is told of that one.
THEOREM OneAnswerThm == OfferSpec => []OneAnswer
<1>1. OfferInit => AnswerInv
  BY DEF OfferInit, AnswerInv, KeysOnce, Owned, Told, Ids
<1>2. OfferTypeOK /\ AnswerInv => OneAnswer
  <2> SUFFICES ASSUME OfferTypeOK, AnswerInv PROVE OneAnswer
    OBVIOUS
  <2>1. ASSUME NEW a \in answered, NEW c \in answered, a.key = c.key PROVE a = c
    <3>1. a.id = c.id /\ a.code = c.code
      BY <2>1 DEF AnswerInv, KeysOnce, Told
    <3>2. a \in Answers /\ c \in Answers
      BY DEF OfferTypeOK
    <3>3. QED
      BY <2>1, <3>1, <3>2 DEF Answers
  <2>2. \A a \in answered : offers[a.id].code = a.code /\ offers[a.id].buyer = course.owner[a.key]
    BY DEF AnswerInv, Owned, Told
  <2>3. QED
    BY <2>1, <2>2 DEF AnswerInv, KeysOnce, OneAnswer
<1>3. QED
  BY <1>1, <1>2, AnswerStep, TypeCorrect, PTL DEF OfferSpec

-----------------------------------------------------------------------------
(* ConversionsEarned. *)

\* An invoice that names an offer is one of its buttons, pressed by its player.
BillsFit ==
  \A c \in DOMAIN carts : carts[c].offer # Nothing =>
    /\ carts[c].buyer = offers[carts[c].offer].buyer
    /\ carts[c].product \in Buttons(offers[carts[c].offer].code)
Converted ==
  \A i \in Ids : offers[i].bought # Nothing =>
    /\ offers[i].bought \in DOMAIN carts
    /\ carts[offers[i].bought].paid /\ carts[offers[i].bought].offer = i
PaidConverts ==
  \A c \in DOMAIN carts :
    carts[c].paid /\ carts[c].offer # Nothing => offers[carts[c].offer].bought # Nothing
CartInv == BillsFit /\ Converted /\ PaidConverts

\* A new invoice leaves the rows' purchases alone.
LEMMA CartInvoice ==
  ASSUME OfferTypeOK, CartInv, Stands, \A j \in Ids : offers'[j].bought = offers[j].bought,
         NEW b \in Buyers, NEW p \in Products, NEW o \in Ids \cup {Nothing}, Invoice(b, p, o),
         o # Nothing => offers[o].buyer = b /\ p \in Buttons(offers[o].code)
  PROVE  CartInv'
<1>1. \A c \in DOMAIN carts : carts[c].offer \in Ids \cup {Nothing}
  BY DEF OfferTypeOK
<1>2. o \in Nat \cup {Nothing}
  BY Tables
<1>3. /\ DOMAIN carts \subseteq DOMAIN carts' /\ \A c \in DOMAIN carts : carts'[c] = carts[c]
      /\ \A c \in DOMAIN carts' \ DOMAIN carts :
           carts'[c] = [buyer |-> b, product |-> p, offer |-> o, paid |-> FALSE]
  BY <1>2, InvoiceEffect
<1>4. \A c \in DOMAIN carts' \ DOMAIN carts :
        carts'[c].buyer = b /\ carts'[c].product = p /\ carts'[c].offer = o /\ carts'[c].paid = FALSE
  BY <1>3
<1>5. BillsFit'
  BY <1>1, <1>3, <1>4 DEF CartInv, BillsFit, Stands
<1>6. Converted'
  BY <1>3 DEF CartInv, Converted, Stands
<1>7. PaidConverts'
  BY <1>1, <1>3, <1>4 DEF CartInv, PaidConverts, Stands
<1>8. QED
  BY <1>5, <1>6, <1>7 DEF CartInv

LEMMA CartPay ==
  ASSUME OfferTypeOK, CartInv, NEW c \in DOMAIN carts, Pay(c)
  PROVE  CartInv'
<1>1. \A d \in DOMAIN carts : carts[d].offer \in Ids \cup {Nothing} /\ carts[d] \in Carts
  BY Tables
<1>2. /\ Stands /\ DOMAIN carts' = DOMAIN carts
      /\ \A d \in DOMAIN carts \ {c} : carts'[d] = carts[d]
      /\ \A j \in Ids : \/ offers'[j].bought = offers[j].bought
                        \/ offers[j].bought = Nothing /\ carts[c].offer = j /\ offers'[j].bought = c
      /\ carts[c].offer # Nothing => offers'[carts[c].offer].bought # Nothing
      /\ carts'[c] = [carts[c] EXCEPT !.paid = TRUE]
  BY PayEffect
<1>3. carts'[c].buyer = carts[c].buyer /\ carts'[c].product = carts[c].product
      /\ carts'[c].offer = carts[c].offer /\ carts'[c].paid
  BY <1>1, <1>2 DEF Carts
<1>4. BillsFit'
  <2> SUFFICES ASSUME NEW d \in DOMAIN carts, carts'[d].offer # Nothing
               PROVE  /\ carts'[d].buyer = offers'[carts'[d].offer].buyer
                      /\ carts'[d].product \in Buttons(offers'[carts'[d].offer].code)
    BY <1>2 DEF BillsFit
  <2>1. carts'[d].buyer = carts[d].buyer /\ carts'[d].product = carts[d].product
        /\ carts'[d].offer = carts[d].offer /\ carts[d].offer \in Ids
    BY <1>1, <1>2, <1>3
  <2>2. QED
    BY <1>2, <2>1 DEF CartInv, BillsFit, Stands
<1>5. Converted'
  <2> SUFFICES ASSUME NEW i \in Ids, offers'[i].bought # Nothing
               PROVE  /\ offers'[i].bought \in DOMAIN carts
                      /\ carts'[offers'[i].bought].paid /\ carts'[offers'[i].bought].offer = i
    BY <1>2 DEF Converted, Stands
  <2>1. CASE offers'[i].bought = c /\ carts[c].offer = i
    BY <1>3, <2>1
  <2>2. CASE offers'[i].bought = offers[i].bought
    <3>1. /\ offers[i].bought \in DOMAIN carts
          /\ carts[offers[i].bought].paid /\ carts[offers[i].bought].offer = i
      BY <2>2 DEF CartInv, Converted
    <3>2. CASE offers[i].bought = c
      BY <1>3, <2>2, <3>1, <3>2
    <3>3. CASE offers[i].bought # c
      BY <1>2, <2>2, <3>1, <3>3
    <3>4. QED
      BY <3>2, <3>3
  <2>3. QED
    BY <1>2, <2>1, <2>2
<1>6. PaidConverts'
  <2> SUFFICES ASSUME NEW d \in DOMAIN carts, carts'[d].paid, carts'[d].offer # Nothing
               PROVE  offers'[carts'[d].offer].bought # Nothing
    BY <1>2 DEF PaidConverts
  <2>1. CASE d = c
    BY <1>2, <1>3, <2>1
  <2>2. CASE d # c
    <3>1. carts'[d] = carts[d] /\ carts[d].offer \in Ids /\ offers[carts[d].offer].bought # Nothing
      BY <1>1, <1>2, <2>2 DEF CartInv, PaidConverts
    <3>2. QED
      BY <1>2, <3>1
  <2>3. QED
    BY <2>1, <2>2
<1>7. QED
  BY <1>4, <1>5, <1>6 DEF CartInv

\* Where neither invoices nor purchases of rows change.
LEMMA CartFrame ==
  ASSUME OfferTypeOK, CartInv, carts' = carts, Ids \subseteq Ids',
         \A j \in Ids : /\ offers'[j].buyer = offers[j].buyer /\ offers'[j].code = offers[j].code
                        /\ offers'[j].bought = offers[j].bought,
         \A j \in Ids' \ Ids : offers'[j].bought = Nothing
  PROVE  CartInv'
<1>1. \A c \in DOMAIN carts : carts[c].offer \in Ids \cup {Nothing}
  BY DEF OfferTypeOK
<1>2. QED
  BY <1>1 DEF CartInv, BillsFit, Converted, PaidConverts

LEMMA CartStep ==
  OfferTypeOK /\ CartInv /\ [OfferNext]_offerVars => CartInv'
<1> SUFFICES ASSUME OfferTypeOK, CartInv, [OfferNext]_offerVars PROVE CartInv'
  OBVIOUS
<1>1. CASE \E b \in Buyers, key \in Asks, code \in Codes : Shows(b, key, code)
  <2>1. PICK b \in Buyers, key \in Asks, code \in Codes : Shows(b, key, code)
    BY <1>1
  <2>2. /\ Ids' = Ids \cup {Len(offers) + 1} /\ \A i \in Ids : offers'[i] = offers[i]
        /\ offers'[Len(offers) + 1] = Impression(b, key, code) /\ carts' = carts
    BY <2>1, ShowsRow DEF Shows
  <2>3. offers'[Len(offers) + 1].bought = Nothing
    BY <2>2 DEF Impression
  <2>4. QED
    BY <2>2, <2>3, CartFrame
<1>2. CASE \E i \in Ids : Returns(i)
  BY <1>2, CartFrame DEF Returns, Ids
<1>3. CASE \E b \in Buyers, i \in Ids : Dismiss(b, i)
  BY <1>3, DismissEffect, CartFrame DEF Stands
<1>4. CASE \E b \in Buyers, i \in Ids : Press(b, i)
  <2>1. PICK b \in Buyers, i \in Ids : Press(b, i)
    BY <1>4
  <2>2. PICK p \in Buttons(offers[i].code) : p \in Products /\ Invoice(b, p, i)
    BY <2>1, PressEffect
  <2>3. QED
    BY <2>1, <2>2, PressEffect, CartInvoice
<1>5. CASE \E b \in Buyers : Shop(b)
  <2>1. PICK b \in Buyers : Shop(b)
    BY <1>5
  <2>2. PICK p \in Products : Invoice(b, p, Nothing)
    BY <2>1, ShopEffect
  <2>3. offers' = offers
    BY <2>1, ShopEffect
  <2>4. Stands /\ \A j \in Ids : offers'[j].bought = offers[j].bought
    BY <2>3 DEF Stands, Ids
  <2>5. QED
    BY <2>2, <2>4, CartInvoice
<1>6. CASE \E c \in DOMAIN carts : Pay(c)
  BY <1>6, CartPay
<1>7. CASE Rests
  BY <1>7, CartFrame DEF Rests, Ids
<1>8. QED
  BY StepCases, <1>1, <1>2, <1>3, <1>4, <1>5, <1>6, <1>7

\* A conversion is a paid purchase of a product on the offer by the player who
\* saw it, and an offer that a paid purchase names is converted, also when an
\* open invoice is used again.
THEOREM ConversionsEarnedThm == OfferSpec => []ConversionsEarned
<1>1. OfferInit => CartInv
  BY DEF OfferInit, CartInv, BillsFit, Converted, PaidConverts, Ids
<1>2. OfferTypeOK /\ CartInv => ConversionsEarned
  <2> SUFFICES ASSUME OfferTypeOK, CartInv PROVE ConversionsEarned
    OBVIOUS
  <2>1. \A i \in Ids : i # Nothing
    BY Tables, CoursesAssumption
  <2>2. ASSUME NEW i \in Ids, offers[i].bought # Nothing
        PROVE  LET c == carts[offers[i].bought] IN
                 /\ c.paid /\ c.offer = i /\ c.buyer = offers[i].buyer
                 /\ c.product \in Buttons(offers[i].code)
    BY <2>1, <2>2 DEF CartInv, Converted, BillsFit
  <2>3. QED
    BY <2>2 DEF CartInv, PaidConverts, ConversionsEarned
<1>3. QED
  BY <1>1, <1>2, CartStep, TypeCorrect, PTL DEF OfferSpec

-----------------------------------------------------------------------------
(* FunnelHonest. *)

LEMMA CountsBound ==
  ASSUME OfferTypeOK, NEW hours
  PROVE  /\ Counted(Ids, hours) \in Nat
         /\ \A S \in SUBSET Ids : Counted(S, hours) \in Nat /\ Counted(S, hours) <= Counted(Ids, hours)
         /\ \A S, T \in SUBSET Ids : S \cap T = {} =>
              Counted(S, hours) + Counted(T, hours) <= Counted(Ids, hours)
         /\ Cardinality(Seen(hours)) \in Nat /\ Cardinality(Seen(hours)) <= Counted(Ids, hours)
<1> DEFINE In(S) == {i \in S : Since(offers[i].at, hours)}
<1>1. \A S : Counted(S, hours) = Cardinality(In(S))
  BY DEF Counted
<1>2. \A S \in SUBSET Ids : In(S) \subseteq In(Ids) /\ In(Ids) \subseteq Ids
  OBVIOUS
<1>3. IsFiniteSet(Ids)
  BY Tables
<1> HIDE DEF In
<1>4. IsFiniteSet(In(Ids)) /\ Cardinality(In(Ids)) \in Nat
  BY <1>2, <1>3, FS_Subset, FS_CardinalityType
<1>5. \A S \in SUBSET Ids :
        IsFiniteSet(In(S)) /\ Cardinality(In(S)) \in Nat /\ Cardinality(In(S)) <= Cardinality(In(Ids))
  <2> SUFFICES ASSUME NEW S \in SUBSET Ids
               PROVE  IsFiniteSet(In(S)) /\ Cardinality(In(S)) \in Nat
                      /\ Cardinality(In(S)) <= Cardinality(In(Ids))
    OBVIOUS
  <2>1. In(S) \in SUBSET In(Ids)
    BY <1>2
  <2>2. IsFiniteSet(In(S)) /\ Cardinality(In(S)) <= Cardinality(In(Ids))
    BY <1>4, <2>1, FS_Subset
  <2>3. QED
    BY <2>2, FS_CardinalityType
<1>6. ASSUME NEW S \in SUBSET Ids, NEW T \in SUBSET Ids, S \cap T = {}
      PROVE  Counted(S, hours) + Counted(T, hours) <= Counted(Ids, hours)
  <2>1. In(S) \cap In(T) = {} /\ In(S) \cup In(T) \in SUBSET In(Ids)
    BY <1>6 DEF In
  <2>2. Cardinality(In(S) \cup In(T)) = Cardinality(In(S)) + Cardinality(In(T)) - Cardinality({})
    BY <1>5, <2>1, FS_Union
  <2>3. Cardinality(In(S) \cup In(T)) <= Cardinality(In(Ids))
    BY <1>4, <2>1, FS_Subset
  <2>4. Cardinality({}) = 0
    BY FS_EmptySet
  <2>5. QED
    BY <1>1, <1>4, <1>5, <2>2, <2>3, <2>4
<1>7. Cardinality(Seen(hours)) \in Nat /\ Cardinality(Seen(hours)) <= Cardinality(In(Ids))
  <2> DEFINE f == [i \in In(Ids) |-> offers[i].buyer]
  <2>1. Seen(hours) = {offers[i].buyer : i \in In(Ids)}
    BY DEF Seen, In
  <2>2. f \in Surjection(In(Ids), Seen(hours))
    BY <2>1 DEF Surjection
  <2>3. IsFiniteSet(Seen(hours)) /\ Cardinality(Seen(hours)) <= Cardinality(In(Ids))
    BY <1>4, <2>2, FS_Surjection
  <2>4. QED
    BY <2>3, FS_CardinalityType
<1>8. QED
  BY <1>1, <1>4, <1>5, <1>6, <1>7

\* An alert on spam needs a dismissal, or more impressions than the threshold.
LEMMA SpamNeeds ==
  ASSUME NEW n \in Nat, NEW users \in Nat, NEW dismissals \in Nat, NEW conversions \in Nat,
         "SPAM" \in Alerts(n, users, dismissals, conversions)
  PROVE  dismissals > 0 \/ n > MaxPerUser
<1>1. MaxDismissed \in Nat /\ MaxPerUser \in Nat
  BY ThresholdsAssumption
<1>2. \/ 100 * dismissals > MaxDismissed * n
      \/ n > MaxPerUser * (IF users = 0 THEN 1 ELSE users)
  BY DEF Alerts
<1>3. CASE 100 * dismissals > MaxDismissed * n
  <2>1. MaxDismissed * n >= 0
    BY <1>1
  <2>2. QED
    BY <1>1, <1>3, <2>1
<1>4. CASE n > MaxPerUser * (IF users = 0 THEN 1 ELSE users)
  <2> DEFINE k == IF users = 0 THEN 1 ELSE users
  <2>1. k \in Nat /\ k >= 1
    OBVIOUS
  <2>2. \A m, j \in Nat : j >= 1 => m * j >= m
    OBVIOUS
  <2>3. MaxPerUser * k >= MaxPerUser /\ MaxPerUser * k \in Nat
    BY <1>1, <2>1, <2>2
  <2>4. n > MaxPerUser * k
    BY <1>4
  <2> HIDE DEF k
  <2>5. QED
    BY <1>1, <2>3, <2>4
<1>5. QED
  BY <1>2, <1>3, <1>4

LEMMA SnapshotHonest ==
  ASSUME OfferTypeOK, NEW hours, report' = Snapshot(hours)
  PROVE  FunnelHonest'
<1> DEFINE pressed == {i \in Ids : IsClick(i)}
           gone == {i \in Ids : IsDismissal(i)}
           sold == {i \in Ids : IsConversion(i)}
           n == Counted(Ids, hours)
           users == Cardinality(Seen(hours))
<1>1. pressed \in SUBSET Ids /\ gone \in SUBSET Ids /\ sold \in SUBSET Ids /\ pressed \cap gone = {}
  BY DEF IsClick, IsDismissal
<1>2. /\ report'.shown = n /\ report'.users = users
      /\ report'.clicks = Counted(pressed, hours) /\ report'.dismissals = Counted(gone, hours)
      /\ report'.conversions = Counted(sold, hours)
      /\ report'.alerts = Alerts(n, users, Counted(gone, hours), Counted(sold, hours))
  BY DEF Snapshot
<1> HIDE DEF pressed, gone, sold, n, users
<1>3. /\ n \in Nat /\ users \in Nat /\ users <= n
      /\ Counted(gone, hours) \in Nat /\ Counted(sold, hours) \in Nat /\ Counted(sold, hours) <= n
      /\ Counted(pressed, hours) + Counted(gone, hours) <= n
  BY <1>1, CountsBound DEF n, users
<1>4. "SPAM" \in report'.alerts => report'.dismissals > 0 \/ report'.shown > MaxPerUser
  BY <1>2, <1>3, SpamNeeds
<1>5. QED
  BY <1>2, <1>3, <1>4 DEF FunnelHonest

\* The funnel, whatever window it looks at, never reports more answers, buyers
\* or conversions than impressions, and an alert on spam has a cause.
THEOREM FunnelHonestThm == OfferSpec => []FunnelHonest
<1>1. OfferInit => FunnelHonest
  BY DEF OfferInit, FunnelHonest
<1>2. OfferTypeOK /\ FunnelHonest /\ [OfferNext]_offerVars => FunnelHonest'
  <2> SUFFICES ASSUME OfferTypeOK, FunnelHonest, [OfferNext]_offerVars PROVE FunnelHonest'
    OBVIOUS
  <2>1. CASE \E hours : report' = Snapshot(hours)
    BY <2>1, SnapshotHonest
  <2>2. CASE report' = report
    BY <2>2 DEF FunnelHonest
  <2>3. report' = report \/ \E hours : report' = Snapshot(hours)
    BY DEF OfferNext, Watch, Dashboard, Pass, Pay, Live, Shop, Ask, Dismiss, Press, offerVars
  <2>4. QED
    BY <2>1, <2>2, <2>3
<1>3. QED
  BY <1>1, <1>2, TypeCorrect, PTL DEF OfferSpec

\* All that is promised about offers, as the run of the scene offers checks it.
THEOREM OffersSoundThm == OfferSpec => []OffersSound
<1>1. OfferTypeOK /\ NotPestered /\ RefusalsKept /\ OneAnswer /\ ConversionsEarned /\ FunnelHonest
      => OffersSound
  BY DEF OffersSound
<1>2. QED
  BY <1>1, TypeCorrect, NotPesteredThm, RefusalsKeptThm, OneAnswerThm, ConversionsEarnedThm,
     FunnelHonestThm, PTL
=============================================================================
