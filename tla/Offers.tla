-------------------------------- MODULE Offers --------------------------------
(***************************************************************************)
(* Offers: what the bot proposes to buy when a player starts it or runs    *)
(* out of energy, how the player answers, and the funnel the operators     *)
(* watch.                                                                  *)
(*                                                                         *)
(* Every action is one transaction.  An offer is chosen under the lock of  *)
(* the users row, so two offers of one player are chosen one after the     *)
(* other; a purchase that is refused rolls the click back with it.         *)
(***************************************************************************)
EXTENDS Naturals, Sequences, FiniteSets

CONSTANTS
  Buyers,     \* players
  Asks,       \* idempotency keys of the occasions to show an offer
  DayLen,     \* ticks of a day in Berlin
  BlockFor,   \* BLOCKING_MODAL_COOLDOWN
  RepeatFor,  \* OFFER_REPEAT_COOLDOWN
  MuteFor,    \* OFFER_MUTE_WINDOW
  DayCap,     \* MONETIZATION_IMPRESSIONS_PER_DAY_CAP
  Weekend,    \* days of the weekend flash
  MinShown, MinConverted, MaxDismissed, MaxPerUser, FunnelHours,
              \* thresholds and window of the alerts, rates in percent
  Courses,    \* bounds: what may happen in one behaviour
  Nothing     \* NULL

VARIABLES
  moment,     \* ticks
  offers,     \* rows of offers_impressions, in order of id
  carts,      \* purchases that name an offer or may: buyer, product, offer, paid
  life,       \* what the triggers read of a player
  course,     \* the bounds of this behaviour
  report,     \* the last snapshot of the funnel and its alerts

\* History, never read by an action.
  answered,   \* key, offer and id of every selection returned
  refused     \* every NOT_SHOW: offer, time and the impressions there were

offerVars == <<moment, offers, carts, life, course, report, answered, refused>>

\* OFFER_TEMPLATES by falling priority.  A trigger has one offer, so the
\* trigger stands for the offer code as well.
Ranked ==
  <<"ENERGY_ZERO", "STREAK_RISK", "STARTER_EXPIRED", "COMEBACK", "SECOND_ENERGY",
    "MONTH_EXPIRING", "ENERGY_LOW", "STREAK_30", "STREAK_GT7", "WEEKEND">>
Codes == {Ranked[n] : n \in DOMAIN Ranked}

Blocking == Codes \ {"ENERGY_LOW", "WEEKEND"}

Products == {"ENERGY_10", "PREMIUM_STARTER", "PREMIUM_MONTH", "STREAK_SAVER_20"}

\* The products on an offer's buttons that are still sold.
Buttons(code) ==
  CASE code = "ENERGY_ZERO" -> {"ENERGY_10", "PREMIUM_MONTH"}
    [] code \in {"ENERGY_LOW"} -> {"ENERGY_10"}
    [] code \in {"SECOND_ENERGY", "STREAK_GT7", "COMEBACK", "WEEKEND"} -> {"PREMIUM_STARTER"}
    [] code = "STREAK_RISK" -> {"STREAK_SAVER_20"}
    [] code = "STREAK_30" -> {"STREAK_SAVER_20", "PREMIUM_MONTH"}
    [] code = "STARTER_EXPIRED" -> {"PREMIUM_MONTH"}
    [] code = "MONTH_EXPIRING" -> {}

\* Impressions are looked up over MuteFor: it covers the other windows and a day.
ASSUME WindowsAssumption ==
  /\ DayLen \in Nat \ {0} /\ {BlockFor, RepeatFor, MuteFor, DayCap} \subseteq Nat
  /\ BlockFor <= MuteFor /\ RepeatFor <= MuteFor /\ DayLen <= MuteFor + 1
ASSUME ThresholdsAssumption ==
  {MinShown, MinConverted, MaxDismissed, MaxPerUser, FunnelHours} \subseteq Nat
ASSUME CoursesAssumption ==
  /\ Nothing \notin Nat
  /\ \A c \in Courses :
       /\ {c.end, c.dismissals, c.carts} \subseteq Nat /\ c.first \in c.lives
       /\ c.shop \subseteq Products /\ c.owner \in [Asks -> Buyers \cup {Nothing}]

Ids == DOMAIN offers
DayOf(t) == t \div DayLen

\* Selections are counted from a time on, inclusive.
Since(t, span) == t + span >= moment

Rows ==
  [buyer : Buyers, code : Codes, at : Nat, key : Asks,
   clicked : BOOLEAN, dismissed : Nat \cup {Nothing}, bought : Nat \cup {Nothing}]
Carts == [buyer : Buyers, product : Products, offer : Nat \cup {Nothing}, paid : BOOLEAN]
Answers == [key : Asks, id : Nat, code : Codes]
Refusals == [buyer : Buyers, code : Codes, id : Nat, at : Nat, seen : Nat]

OfferTypeOK ==
  /\ course \in Courses
  /\ moment \in 0..course.end
  /\ offers \in Seq(Rows)
  /\ carts \in Seq(Carts) /\ \A c \in DOMAIN carts : carts[c].offer \in Ids \cup {Nothing}
  /\ life \in [Buyers -> course.lives]
  /\ answered \subseteq Answers
  /\ refused \subseteq Refusals

OfferInit ==
  /\ course \in Courses
  /\ moment = 0
  /\ offers = <<>>
  /\ carts = <<>>
  /\ life \in [Buyers -> {course.first}]
  /\ report = [shown |-> 0, users |-> 0, clicks |-> 0, dismissals |-> 0,
               conversions |-> 0, alerts |-> {}]
  /\ answered = {}
  /\ refused = {}

-----------------------------------------------------------------------------
(* Choosing an offer. *)

Poor(b) == ~life[b].premium

EnergyTriggers(b) ==
  {c \in {"ENERGY_ZERO", "ENERGY_LOW"} :
     Poor(b) /\ (IF c = "ENERGY_ZERO" THEN life[b].energy = 0 ELSE life[b].energy \in 1..3)}

Late == moment % DayLen = DayLen - 1

StreakTriggers(b) ==
  {c \in {"STREAK_GT7", "STREAK_RISK", "STREAK_30"} :
     CASE c = "STREAK_GT7" -> life[b].streak > 7
       [] c = "STREAK_RISK" -> life[b].streak > 14 /\ Late /\ ~life[b].active
       [] c = "STREAK_30" -> life[b].streak >= 30}

\* life.away: days since the last activity; life.tens: ENERGY_10 paid in the
\* last week; life.scope: the premium plan that ended or is about to end.
PlanTriggers(b) ==
  {c \in {"SECOND_ENERGY", "COMEBACK", "STARTER_EXPIRED", "MONTH_EXPIRING"} :
     CASE c = "SECOND_ENERGY" -> Poor(b) /\ life[b].tens >= 2
       [] c = "COMEBACK" -> life[b].away >= 3
       [] c = "STARTER_EXPIRED" -> Poor(b) /\ life[b].scope = "STARTER"
       [] c = "MONTH_EXPIRING" -> ~Poor(b) /\ life[b].scope = "MONTH"}

WeekendFlash == {c \in {"WEEKEND"} : DayOf(moment) \in Weekend}

Triggers(b) == EnergyTriggers(b) \cup StreakTriggers(b) \cup PlanTriggers(b) \cup WeekendFlash

Recent(b) == {i \in Ids : offers[i].buyer = b /\ Since(offers[i].at, MuteFor)}

ShownToday(b) == {i \in Recent(b) : DayOf(offers[i].at) = DayOf(moment)}

BlockedBy(b, code) ==
  code \in Blocking /\ \E i \in Recent(b) : offers[i].code \in Blocking /\ Since(offers[i].at, BlockFor)

Repeats(b, code) == \E i \in Recent(b) : offers[i].code = code /\ Since(offers[i].at, RepeatFor)

\* A mutant of Muted: the window of repetitions is taken for that of refusals.
MutedBriefly(b, code) ==
  \E i \in Recent(b) :
    /\ offers[i].code = code
    /\ offers[i].dismissed # Nothing
    /\ Since(offers[i].dismissed, RepeatFor)

Muted(b, code) ==
  \E i \in Recent(b) :
    /\ offers[i].code = code
    /\ offers[i].dismissed # Nothing
    /\ Since(offers[i].dismissed, MuteFor)

\* A mutant of Showable: the modal cooldown is left out.
ShowableAnyway(b) ==
  {c \in Triggers(b) : Buttons(c) # {} /\ ~Repeats(b, c) /\ ~Muted(b, c)}

\* select_template_with_caps: the templates that may be shown, if any may be.
Showable(b) ==
  IF Cardinality(ShownToday(b)) >= DayCap THEN {}
  ELSE {c \in Triggers(b) :
          Buttons(c) # {} /\ ~BlockedBy(b, c) /\ ~Repeats(b, c) /\ ~Muted(b, c)}

Rank(code) == CHOOSE n \in DOMAIN Ranked : Ranked[n] = code

\* The template of the highest priority.
Best(S) == {code \in S : \A other \in S : Rank(code) <= Rank(other)}

\* A mutant of Logged: an impression is looked up among the recent ones.
LoggedRecently(key) == {i \in Ids : offers[i].key = key /\ Since(offers[i].at, RepeatFor)}

Logged(key) == {i \in Ids : offers[i].key = key}

Answer(key, i, code) == answered' = answered \cup {[key |-> key, id |-> i, code |-> code]}

Replay(b, key) ==
  /\ Logged(key) # {}
  /\ \E i \in Logged(key) : Answer(key, i, offers[i].code)
  /\ UNCHANGED offers

Impression(b, key, code) ==
  [buyer |-> b, code |-> code, at |-> moment, key |-> key,
   clicked |-> FALSE, dismissed |-> Nothing, bought |-> Nothing]

Show(b, key) ==
  /\ Logged(key) = {}
  /\ IF Showable(b) = {} THEN UNCHANGED <<offers, answered>>
     ELSE \E code \in Best(Showable(b)) :
            /\ offers' = Append(offers, Impression(b, key, code))
            /\ Answer(key, Len(offers) + 1, code)

\* A start of the bot or a press that meets an empty battery; its update may
\* be handled again.  A key belongs to one player.
Ask(b, key) ==
  /\ course.owner[key] = b
  /\ Replay(b, key) \/ Show(b, key)
  /\ UNCHANGED <<moment, carts, life, course, report, refused>>

-----------------------------------------------------------------------------
(* The player's answers. *)

Dismiss(b, i) ==
  /\ i \in Ids /\ offers[i].buyer = b
  /\ course.dismissals > Cardinality(refused)
  /\ offers' = [offers EXCEPT ![i].dismissed = moment]
  /\ refused' = refused \cup
       {[buyer |-> b, code |-> offers[i].code, id |-> i, at |-> moment, seen |-> Len(offers)]}
  /\ UNCHANGED <<moment, carts, life, course, report, answered>>

OpenCarts(b, p) == {c \in DOMAIN carts : carts[c].buyer = b /\ carts[c].product = p /\ ~carts[c].paid}

\* mark_clicked leaves a clicked or dismissed row alone.
Clicked(i) ==
  offers' = IF offers[i].clicked \/ offers[i].dismissed # Nothing THEN offers
            ELSE [offers EXCEPT ![i].clicked = TRUE]

\* An open invoice of the product is used again, whatever offer it names.
Invoice(b, p, i) ==
  carts' = IF OpenCarts(b, p) # {} THEN carts
           ELSE Append(carts, [buyer |-> b, product |-> p, offer |-> i, paid |-> FALSE])

\* A button of an offer, however old; a purchase that is refused changes
\* nothing.
Press(b, i) ==
  /\ Len(carts) < course.carts
  /\ i \in Ids /\ offers[i].buyer = b
  /\ \E p \in Buttons(offers[i].code) : Clicked(i) /\ Invoice(b, p, i)
  /\ UNCHANGED <<moment, life, course, report, answered, refused>>

\* The same product from the shop names no offer.
Shop(b) ==
  /\ Len(carts) < course.carts
  /\ \E p \in course.shop : Invoice(b, p, Nothing)
  /\ UNCHANGED <<moment, offers, life, course, report, answered, refused>>

\* A mutant of Converts: only a clicked impression converts.
ConvertsClicked(c) ==
  IF \/ carts[c].offer = Nothing
     \/ carts[c].offer \in Ids /\ (offers[carts[c].offer].bought # Nothing \/ ~offers[carts[c].offer].clicked)
  THEN offers
  ELSE [offers EXCEPT ![carts[c].offer].bought = c]

Converts(c) ==
  IF carts[c].offer = Nothing \/ (carts[c].offer \in Ids /\ offers[carts[c].offer].bought # Nothing)
  THEN offers
  ELSE [offers EXCEPT ![carts[c].offer].bought = c]

\* apply_successful_payment; the same payment may be handled again.
Pay(c) ==
  /\ c \in DOMAIN carts
  /\ carts' = [carts EXCEPT ![c].paid = TRUE]
  /\ offers' = Converts(c)
  /\ UNCHANGED <<moment, life, course, report, answered, refused>>

-----------------------------------------------------------------------------
(* The funnel. *)

Counted(ids, hours) == Cardinality({i \in ids : Since(offers[i].at, hours)})

\* A mutant of IsClick: a dismissed offer still counts as clicked.
IsPressed(i) == offers[i].clicked

IsClick(i) == offers[i].clicked /\ offers[i].dismissed = Nothing
IsDismissal(i) == offers[i].dismissed # Nothing
IsConversion(i) == offers[i].bought # Nothing
Seen(hours) == {offers[i].buyer : i \in {j \in Ids : Since(offers[j].at, hours)}}

Alerts(shown, users, dismissals, conversions) ==
  IF shown < MinShown THEN {}
  ELSE {a \in {"CONVERSION_DROP", "SPAM"} :
          IF a = "CONVERSION_DROP" THEN 100 * conversions < MinConverted * shown
          ELSE \/ 100 * dismissals > MaxDismissed * shown
               \/ shown > MaxPerUser * (IF users = 0 THEN 1 ELSE users)}

Snapshot(hours) ==
  LET shown == Counted(Ids, hours)
      users == Cardinality(Seen(hours))
      dismissals == Counted({i \in Ids : IsDismissal(i)}, hours)
      conversions == Counted({i \in Ids : IsConversion(i)}, hours)
  IN [shown |-> shown, users |-> users, clicks |-> Counted({i \in Ids : IsClick(i)}, hours),
      dismissals |-> dismissals, conversions |-> conversions,
      alerts |-> Alerts(shown, users, dismissals, conversions)]

\* The job of every quarter of an hour.
Watch ==
  /\ course.watched
  /\ report' = Snapshot(FunnelHours)
  /\ UNCHANGED <<moment, offers, carts, life, course, answered, refused>>

\* The operators choose the window.
Dashboard ==
  /\ course.watched
  /\ \E hours \in 1..moment : report' = Snapshot(hours)
  /\ UNCHANGED <<moment, offers, carts, life, course, answered, refused>>

-----------------------------------------------------------------------------
(* The world. *)

Pass ==
  /\ moment < course.end
  /\ moment' = moment + 1
  /\ UNCHANGED <<offers, carts, life, course, report, answered, refused>>

\* What the other parts of the bot do to a player.
Live(b) ==
  /\ \E l \in course.lives \ {life[b]} : life' = [life EXCEPT ![b] = l]
  /\ UNCHANGED <<moment, offers, carts, course, report, answered, refused>>

OfferNext ==
  \/ Watch \/ Dashboard \/ Pass
  \/ \E c \in DOMAIN carts : Pay(c)
  \/ \E b \in Buyers :
       \/ Live(b) \/ Shop(b)
       \/ \E key \in Asks : Ask(b, key)
       \/ \E i \in Ids : Dismiss(b, i) \/ Press(b, i)

OfferSpec == OfferInit /\ [][OfferNext]_offerVars

-----------------------------------------------------------------------------
(* Properties. *)

Shown(b) == {i \in Ids : offers[i].buyer = b}

\* However starts, empty batteries and retries mix, no player sees more than
\* DayCap offers on one day, two blocking ones within BlockFor or the same one
\* twice within RepeatFor.
NotPestered ==
  \A b \in Buyers :
    /\ \A d \in 0..DayOf(moment) : Cardinality({i \in Shown(b) : DayOf(offers[i].at) = d}) <= DayCap
    /\ \A i, j \in Shown(b) :
         i < j =>
           /\ offers[i].code = offers[j].code => offers[j].at > offers[i].at + RepeatFor
           /\ {offers[i].code, offers[j].code} \subseteq Blocking =>
                offers[j].at > offers[i].at + BlockFor

\* An offer is not shown again within MuteFor of being refused, as long as the
\* refused impression itself is not older than MuteFor.
RefusalsKept ==
  \A r \in refused, i \in Ids :
    /\ offers[i].buyer = r.buyer /\ offers[i].code = r.code /\ i > r.seen
    /\ offers[r.id].dismissed = r.at
    => \/ offers[i].at > r.at + MuteFor
       \/ offers[i].at > offers[r.id].at + MuteFor

\* One occasion has one impression, and everyone who asks about it is told
\* the same.
OneAnswer ==
  /\ \A i, j \in Ids : offers[i].key = offers[j].key => i = j
  /\ \A a, c \in answered : a.key = c.key => a = c
  /\ \A a \in answered : offers[a.id].code = a.code /\ offers[a.id].buyer = course.owner[a.key]

\* A conversion is a paid purchase of the player who saw the offer, of a product
\* on its buttons, and every paid purchase that names an offer converts it,
\* unless another one did: also when an open invoice is used again.
ConversionsEarned ==
  /\ \A i \in Ids :
       offers[i].bought # Nothing =>
         LET c == carts[offers[i].bought] IN
         /\ c.paid /\ c.offer = i /\ c.buyer = offers[i].buyer
         /\ c.product \in Buttons(offers[i].code)
  /\ \A c \in DOMAIN carts :
       carts[c].paid /\ carts[c].offer # Nothing => offers[carts[c].offer].bought # Nothing

\* The funnel never reports more answers than offers, although an offer can be
\* clicked, dismissed and bought, and the alerts follow the numbers reported.
FunnelHonest ==
  /\ report.clicks + report.dismissals <= report.shown
  /\ report.conversions <= report.shown
  /\ report.users <= report.shown
  /\ "SPAM" \in report.alerts => report.dismissals > 0 \/ report.shown > MaxPerUser

\* However starts, empty batteries, retries, clicks and purchases mix: no offer too often,
\* none soon after its refusal, one impression per occasion, conversions that were paid
\* (offers/selection.py, offers/muting.py, offers_repo.py).
OffersSound == OfferTypeOK /\ NotPestered /\ RefusalsKept /\ OneAnswer /\ ConversionsEarned /\ FunnelHonest
=============================================================================
