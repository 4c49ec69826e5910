------------------------------ MODULE MCGrowth ------------------------------
(***************************************************************************)
(* Seven parts side by side in one instance for TLC.  Each has variables   *)
(* of its own; what a part reads of another's rows, its module lets change *)
(* by itself.  So they are not interleaved: the scene is chosen at the     *)
(* start, its part takes all the steps, and the others stay in one of      *)
(* their initial states.  All but the learner are extended, so that TLC    *)
(* evaluates what they assume of their constants, and keep the names of    *)
(* what they promise.                                                      *)
(***************************************************************************)
EXTENDS Arrivals, Figures, Offers, Promo, QuestionBank, Referrals, TLC

CONSTANTS ana, ben, g1, g2, g3, g4, sale, gift, wrong, w1, w2, none

VARIABLES
  scene,
  tick, scope, player, profile, pressed, next, charged, played

learnerPart == <<tick, scope, player, profile, pressed, next, charged, played>>

-----------------------------------------------------------------------------
(* A learner: quiz sessions, energy, streak. *)

Learner(mode, premiumScope, free, energy, tokens, taps, lag) ==
  [modes |-> {mode}, scope |-> premiumScope, free |-> free, paid |-> energy, tokens |-> tokens,
   taps |-> taps, lag |-> lag, shop |-> FALSE]

Learners ==
  { Learner("ARTIKEL_SPRINT", "MONTHLY", 0, 1, 1, 3, 0),
    Learner("ARTIKEL_SPRINT", "NONE", 1, 0, 1, 3, 0),
    Learner("DAILY_CHALLENGE", "NONE", 1, 0, 1, 3, 0),
    Learner("DAILY_CHALLENGE", "NONE", 1, 0, 1, 2, 1),
    [Learner("DAILY_CHALLENGE", "NONE", 1, 0, 1, 2, 0) EXCEPT !.shop = TRUE] }

Q == INSTANCE QuizSession WITH
  FreeCap <- 1, DayTicks <- 1, WeekDays <- 2, FreezeLimit <- 1, NoDay <- none, NoRow <- none,
  TapCount <- 3, Profiles <- Learners, DailyLength <- 2, MaxLevel <- 1, MaxMix <- 1,
  CorrectPerStep <- 1, WarmUp <- 1, Horizon <- 3

\* Days of three intervals, for what is regenerated within one of them.
Savers ==
  { Learner("ARTIKEL_SPRINT", "NONE", 0, 0, 0, 3, 0), Learner("ARTIKEL_SPRINT", "NONE", 1, 1, 0, 2, 1) }

E == INSTANCE QuizSession WITH
  FreeCap <- 2, DayTicks <- 3, WeekDays <- 2, FreezeLimit <- 1, NoDay <- none, NoRow <- none,
  TapCount <- 3, Profiles <- Savers, DailyLength <- 2, MaxLevel <- 1, MaxMix <- 1,
  CorrectPerStep <- 1, WarmUp <- 1, Horizon <- 3

-----------------------------------------------------------------------------
(* A host and the guests who follow his link. *)

Tale(plays, joinBy, days, together, decisions, rounds, ends) ==
  [plays |-> plays, from |-> [g \in {g1, g2, g3, g4} |-> ana], joinBy |-> joinBy, days |-> days,
   together |-> together, decisions |-> decisions, games |-> rounds,
   players |-> IF rounds = 0 THEN {} ELSE {ana}, premium |-> ends]

HostTales ==
  LET keen == <<0, 1, 1, 2>>  lazy == <<0, 0, 3>> IN
  { Tale([g \in {g1, g2, g3, g4} |-> keen], 1, 4, 1, {}, 0, none),
    Tale(g1 :> keen @@ g2 :> lazy @@ g3 :> <<1, 1, 2>>, 1, 4, 2, {"CONFIRM_FRAUD", "REOPEN"}, 0, 3),
    Tale(g1 :> keen, 0, 1, 1, {}, 3, none),
    Tale(g1 :> keen, 0, 3, 1, {"REOPEN", "CANCEL"}, 0, none) }

-----------------------------------------------------------------------------
(* Two players who are shown offers. *)

Living(energy, streak, away, tens, plan, rich) ==
  [energy |-> energy, streak |-> streak, active |-> FALSE, away |-> away, tens |-> tens,
   scope |-> plan, premium |-> rich]

Course(end, lives, from, keys, dismissals, n, shop, watched) ==
  [end |-> end, lives |-> lives, first |-> from,
   owner |-> [k \in 1..3 |-> IF k \in DOMAIN keys THEN keys[k] ELSE none],
   dismissals |-> dismissals, carts |-> n, shop |-> shop, watched |-> watched]

OfferCourses ==
  LET broke == Living(0, 15, 0, 2, "NONE", FALSE)
      low == Living(2, 31, 3, 0, "STARTER", FALSE)
  IN { Course(3, {broke, low}, broke, <<ana, ana, ana>>, 0, 0, {}, FALSE),
       Course(7, {broke}, broke, <<ana, ana>>, 2, 0, {}, FALSE),
       Course(1, {low}, low, <<ana, ana>>, 1, 2, {"PREMIUM_MONTH"}, FALSE),
       Course(2, {broke}, broke, <<ana, ben>>, 1, 1, {}, TRUE) }

-----------------------------------------------------------------------------
(* Codes, those who guess at them, and the operators. *)

Typed(u, w, s) == [user |-> u, word |-> w, source |-> s]

Code(kind, days, until, max, perUser, newOnly) ==
  [kind |-> kind, days |-> days, status |-> "ACTIVE", until |-> until, max |-> max, used |-> 0,
   perUser |-> perUser, newOnly |-> newOnly, most |-> perUser]

Plot(end, texts, codes, known, tries, watched) ==
  [end |-> end, texts |-> texts, promos |-> codes, known |-> known, attempts |-> tries,
   watched |-> watched, operated |-> FALSE, designs |-> {}, patches |-> {}, makes |-> {}]

Operated(p, makes, designs, patches) ==
  [p EXCEPT !.operated = TRUE, !.makes = makes, !.designs = designs, !.patches = patches]

PromoPlots ==
  LET cut == Code("DISCOUNT", 0, 3, 1, 1, FALSE)
      days == Code("GRANT", 2, 9, 2, 2, TRUE)
      pair == gift :> days @@ sale :> [cut EXCEPT !.perUser = 2, !.most = 2]
  IN { Plot(3, <<Typed(ana, wrong, "BOT"), Typed(ana, wrong, "API")>>, sale :> cut, {ana}, 4, FALSE),
       Plot(2, <<Typed(ana, sale, "BOT"), Typed(ben, sale, "BOT"), Typed(ana, sale, "API")>>,
            sale :> cut, {ana, ben}, 3, FALSE),
       Plot(3, <<Typed(ana, gift, "BOT"), Typed(ana, gift, "API"), Typed(ana, sale, "BOT")>>,
            pair, {}, 3, FALSE),
       Operated(Plot(0, <<Typed(ana, gift, "BOT"), Typed(ben, gift, "BOT")>>, <<>>, {ana, ben}, 3, FALSE),
                {gift}, {[days EXCEPT !.max = 1]}, {}),
       Operated(Plot(1, <<Typed(ana, gift, "BOT"), Typed(ana, sale, "BOT")>>, sale :> cut, {ana}, 2, FALSE),
                {gift}, {days}, {days, [days EXCEPT !.max = 1]}),
       Plot(1, <<Typed(ana, sale, "BOT"), Typed(ben, gift, "BOT")>>, sale :> cut, {ben}, 3, TRUE) }

-----------------------------------------------------------------------------
(* Imports, the pools of two workers, and what they ask. *)

Quest(mode, level, mix, kind) ==
  [mode |-> mode, level |-> level, mix |-> mix, kind |-> kind, at |-> 0, no |-> 0]
Wish(mode, levels, allowed, recent) ==
  [mode |-> mode, levels |-> levels, allowed |-> allowed, recent |-> recent]
Imported(new, replace) == [rows |-> new, replace |-> replace]

Deck(end, old, batches, commitMost, demands, seeds, most, grades) ==
  [end |-> end, bank |-> old, batches |-> batches, commits |-> commitMost, demands |-> demands,
   seeds |-> seeds, asked |-> most, graded |-> grades, lot |-> 1, dice |-> <<1, 0, 1>>, positions |-> {},
   rounds |-> <<>>, duelMode |-> "CASES", spare |-> {1}]
OfDay(d, positions) == [d EXCEPT !.positions = positions]
OfDuel(d, levels) == [d EXCEPT !.rounds = levels]

DayLevels == <<1, 1, 2>>

BankDecks ==
  LET two == 1 :> Quest("CASES", 1, TRUE, "x") @@ 2 :> Quest("CASES", 1, FALSE, "y")
      three == two @@ 3 :> Quest("CASES", 2, TRUE, "x")
      own == 1 :> Quest("MIX", 1, TRUE, "x") @@ 2 :> Quest("MIX", 1, TRUE, "y") @@
             3 :> Quest("CASES", 2, TRUE, "x")
      any == {0, 1, 2}
  IN { Deck(2, two, {Imported(2 :> Quest("ARTIKEL", 1, TRUE, "y"), FALSE),
                     Imported(3 :> Quest("CASES", 1, FALSE, "y"), FALSE)}, 1,
            {Wish("CASES", any, {}, {1})}, {0}, 2, FALSE),
       Deck(2, two, {Imported(3 :> Quest("CASES", 2, TRUE, "y"), TRUE)}, 1,
            {Wish("CASES", {1}, {1, 2}, {2})}, {0, 1}, 2, TRUE),
       Deck(1, three, {}, 0,
            {Wish("CASES", any, {}, {3}), Wish("CASES", any, {}, {2, 3}), Wish("VERBS", {2}, {}, {})},
            {0, 1, 2}, 2, FALSE),
       OfDay(Deck(1, three, {Imported(4 :> Quest("CASES", 1, TRUE, "y"), FALSE),
                             Imported(1 :> Quest("CASES", 2, TRUE, "y"), TRUE)}, 1, {}, {}, 3, FALSE), {1, 3}),
       OfDay(Deck(1, own, {Imported(4 :> Quest("MIX", 2, TRUE, "y"), FALSE),
                           Imported(3 :> Quest("CASES", 2, TRUE, "x"), TRUE)}, 1, {}, {}, 3, FALSE), {1, 3}),
       OfDuel(Deck(1, [three EXCEPT ![2].kind = "x"], {Imported(3 :> Quest("CASES", 1, FALSE, "y"), FALSE)}, 1, {}, {}, 0, FALSE),
              <<1, 1, 2, 2>>),
       OfDay(Deck(1, <<>>, {}, 0, {}, {}, 2, FALSE), {1, 3}),
       OfDuel(Deck(1, <<>>, {}, 0, {}, {}, 0, FALSE), <<1, 2>>) }

-----------------------------------------------------------------------------
(* Three newcomers: accounts, bonus, invitations, pushes. *)

Note(u, kind, link) == [user |-> u, kind |-> kind, link |-> link]
Coming(notes, here, creator, jobs, crashes) ==
  [mail |-> notes, here |-> here, creator |-> creator, runs |-> jobs, faults |-> crashes]

NewVisits ==
  { Coming(<<Note(1, "CHECK", 0), Note(1, "CHECK", 0), Note(1, "HOME", 2), Note(1, "OFFER", 0)>>, {2}, 0, <<>>, 1),
    Coming(<<Note(2, "DUEL", 0), Note(2, "DUEL", 0), Note(3, "DUEL", 0)>>, {1, 2}, 1, <<>>, 1),
    Coming(<<Note(2, "DAILY", 0), Note(3, "HOME", 1), Note(3, "LOBBY", 0)>>, {1, 2}, 0, <<"EVENING_REMINDER">>, 1),
    Coming(<<>>, {1, 2, 3}, 0, <<"MORNING", "EVENING_REMINDER", "MORNING">>, 1) }

-----------------------------------------------------------------------------
(* The rows of a day. *)

Diary(end, visits, rounds, buys, notes, late, dies, jobs) ==
  [end |-> end, visits |-> visits, games |-> rounds, sales |-> buys, events |-> notes,
   late |-> late, dies |-> dies, jobs |-> jobs]

DayDiaries ==
  { Diary(2, 0, 2, 0, 0, FALSE, FALSE, <<"analytics_daily">>),
    Diary(2, 0, 0, 1, 0, FALSE, FALSE, <<"daily_metrics">>),
    Diary(3, 2, 0, 0, 0, TRUE, FALSE, <<"analytics_daily">>),
    Diary(1, 0, 0, 1, 0, FALSE, FALSE, <<"analytics_daily">>),
    Diary(5, 0, 0, 0, 2, FALSE, FALSE, <<"analytics_daily">>),
    Diary(2, 0, 0, 0, 1, TRUE, TRUE, <<"analytics_daily", "analytics_daily">>) }

-----------------------------------------------------------------------------
(* All of them. *)

Scenes == {"quiz", "energy", "referrals", "offers", "promo", "bank", "arrivals", "figures"}

GrowthInit ==
  /\ scene \in Scenes
  /\ IF scene = "energy" THEN E!QuizInit
     ELSE Q!QuizInit /\ (scene # "quiz" => profile = CHOOSE x \in Learners : TRUE)
  /\ RefInit /\ (scene # "referrals" => tale = CHOOSE x \in HostTales : TRUE)
  /\ OfferInit /\ (scene # "offers" => course = CHOOSE x \in OfferCourses : TRUE)
  /\ PromoInit /\ (scene # "promo" => plot = CHOOSE x \in PromoPlots : TRUE)
  /\ BankInit /\ (scene # "bank" => deck = CHOOSE x \in BankDecks : TRUE)
  /\ ArrivalsInit /\ (scene # "arrivals" => visit = CHOOSE x \in NewVisits : TRUE)
  /\ FiguresInit /\ (scene # "figures" => diary = CHOOSE x \in DayDiaries : TRUE)

GrowthNext ==
  \/ scene = "quiz" /\ Q!QuizNext /\ UNCHANGED <<scene, refVars, offerVars, promoVars, bankVars, guestVars, figVars>>
  \/ scene = "energy" /\ E!QuizNext /\ UNCHANGED <<scene, refVars, offerVars, promoVars, bankVars, guestVars, figVars>>
  \/ scene = "referrals" /\ RefNext /\ UNCHANGED <<scene, learnerPart, offerVars, promoVars, bankVars, guestVars, figVars>>
  \/ scene = "offers" /\ OfferNext /\ UNCHANGED <<scene, learnerPart, refVars, promoVars, bankVars, guestVars, figVars>>
  \/ scene = "promo" /\ PromoNext /\ UNCHANGED <<scene, learnerPart, refVars, offerVars, bankVars, guestVars, figVars>>
  \/ scene = "bank" /\ BankNext /\ UNCHANGED <<scene, learnerPart, refVars, offerVars, promoVars, guestVars, figVars>>
  \/ scene = "arrivals" /\ ArrivalsNext /\ UNCHANGED <<scene, learnerPart, refVars, offerVars, promoVars, bankVars, figVars>>
  \/ scene = "figures" /\ FiguresNext /\ UNCHANGED <<scene, learnerPart, refVars, offerVars, promoVars, bankVars, guestVars>>

GrowthSpec == GrowthInit /\ [][GrowthNext]_<<scene, learnerPart, refVars, offerVars,
                                             promoVars, bankVars, guestVars, figVars>>

-----------------------------------------------------------------------------
(* What the learner is promised, in the scenes that are his own. *)

\* However starts, answers and their retries are repeated, late or out of order:
\* energy is charged once for a question and nobody plays for more than he was given,
\* a run of a day counts each answer once and stays as it ended, a streak has its days
\* and a level its right answers (sessions_start.py, sessions_submit.py,
\* energy_consume.py, streak/rules.py, progression.py).
QuizHolds ==
  /\ [](IF scene = "energy" THEN E!QuizSound ELSE scene = "quiz" => Q!QuizSound)
  /\ [][IF scene = "energy" THEN E!QuizStep ELSE Q!QuizStep]_learnerPart
=============================================================================
