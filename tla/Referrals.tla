------------------------------ MODULE Referrals ------------------------------
(***************************************************************************)
(* How users bring users: the start link of a referrer, the job that       *)
(* qualifies a referral, the job that announces rewards and the claim of a *)
(* reward; the review of suspected fraud; and the two prompts that a       *)
(* player sees after a game, for the channel bonus and for referrals.      *)
(*                                                                         *)
(* Every action but the start of a new user is one transaction that locks  *)
(* the rows it changes before it reads them.  A start counts the starts of *)
(* the day and inserts its row later, with other starts in between.        *)
(* Announcements are sent after the commit of the job and may be lost.     *)
(*                                                                         *)
(* A referral is made with its referred user, so no two users refer each   *)
(* other and nobody refers himself: those branches have no action here,    *)
(* nor has a deleted user, since nothing sets that status.                 *)
(*                                                                         *)
(* One tick is a day in Berlin.                                            *)
(***************************************************************************)
EXTENDS Naturals, Sequences, FiniteSets

CONSTANTS
  Hosts,        \* users who share their link
  Guests,       \* users to come
  StartsLimit,  \* REFERRAL_STARTS_DAILY_LIMIT
  Window,       \* QUALIFICATION_WINDOW
  MinAttempts,  \* QUALIFICATION_MIN_ATTEMPTS
  MinDays,      \* QUALIFICATION_MIN_LOCAL_DAYS
  Delay,        \* REWARD_DELAY
  PerReward,    \* QUALIFIED_REFERRALS_PER_REWARD
  MonthCap,     \* REFERRAL_REWARDS_PER_MONTH_CAP
  MonthDays,    \* ticks of a month
  RewardDays,   \* days of premium of a reward
  MinStarted, MaxRate, MaxRejected, SpikeAt,
                \* referrals_alert_min_started, _max_fraud_rejected_rate in percent,
                \* _max_rejected_fraud_total, _max_referrer_rejected_fraud
  Tales,        \* bounds: what may happen in one behaviour
  Never         \* NULL in a column of times

\* Thresholds are clamped to numbers.  A reward takes time and a group, and a day allows
\* a start; an operator who sets the threshold of one host to zero asks for alerts
\* without a cause, which is left out.
ASSUME RewardsAssumption ==
  /\ {Window, MinAttempts, MinDays, MonthCap, RewardDays, MinStarted, MaxRate, MaxRejected} \subseteq Nat
  /\ {StartsLimit, Delay, PerReward, MonthDays, SpikeAt} \subseteq Nat \ {0}
  /\ Never \notin Nat
ASSUME TalesAssumption ==
  \A t \in Tales :
    /\ {t.days, t.games, t.joinBy, t.together} \subseteq Nat /\ t.premium \in Nat \cup {Never}
    /\ \A g \in DOMAIN t.plays : t.plays[g] \in Seq(Nat) /\ t.from[g] \in Hosts

VARIABLES
  today,     \* ticks
  links,     \* rows of referrals, in order of creation
  arriving,  \* new users whose start has counted but not inserted
  premium,   \* ends_at of the ACTIVE premium row of a host
  news,      \* announcements under way: a host and the stamp of the job
  alerts,    \* alerts to the operators under way, by stamp
  events,    \* outbox_events of reward milestones: stamp and status
  guest,     \* users row and finished games, by user
  tale,      \* the bounds of this behaviour

\* History, never read by an action.
  paid,      \* ids of the REFERRAL_REWARD ledger entries
  welcomed,  \* ids that were not rejected at the start
  shown      \* referral prompts shown, channel bonuses paid, by user

refVars ==
  <<today, links, arriving, premium, news, alerts, events, guest, tale, paid, welcomed, shown>>

Everyone == Hosts \cup Guests
Refs == DOMAIN links
Counting == {"QUALIFIED", "DEFERRED_LIMIT", "REWARDED"}
Statuses == Counting \cup {"STARTED", "REJECTED_FRAUD", "CANCELED"}

Times == 0..tale.days

LinkRows ==
  [host : Hosts, guest : Guests, status : Statuses, made : Times,
   qualified : Times \cup {Never}, rewarded : Times \cup {Never},
   notified : Times \cup {Never}, score : {0, 80}]

UserRows == [games : 0..tale.games, prompted : BOOLEAN, bonus : BOOLEAN]

RefTypeOK ==
  /\ tale \in Tales
  /\ today \in Times
  /\ links \in Seq(LinkRows)
  /\ DOMAIN arriving \subseteq Guests /\ arriving \in [DOMAIN arriving -> LinkRows]
  /\ premium \in [Hosts -> Nat \cup {Never}]
  /\ news \subseteq Hosts \X Times
  /\ alerts \subseteq Times
  /\ events \subseteq Times \X {"SENT", "FAILED"}
  /\ guest \in [Everyone -> UserRows]
  /\ paid \subseteq Refs /\ welcomed \subseteq Refs
  /\ shown \in [Everyone -> [prompts : Nat, bonuses : Nat]]

RefInit ==
  /\ tale \in Tales
  /\ today = 0
  /\ links = <<>>
  /\ arriving = <<>>
  /\ premium = [h \in Hosts |-> tale.premium]
  /\ news = {}
  /\ alerts = {}
  /\ events = {}
  /\ guest = [u \in Everyone |-> [games |-> 0, prompted |-> FALSE, bonus |-> FALSE]]
  /\ paid = {}
  /\ welcomed = {}
  /\ shown = [u \in Everyone |-> [prompts |-> 0, bonuses |-> 0]]

-----------------------------------------------------------------------------
(* Queries. *)

Of(h) == {i \in Refs : links[i].host = h}

\* count_referrer_starts_between, for the day of today
StartsToday(h) == Cardinality({i \in Of(h) : links[i].made = today})

\* Attempts of a user from one time up to but excluding another.
Attempts(g, from, to) == {n \in DOMAIN tale.plays[g] : from <= tale.plays[g][n] /\ tale.plays[g][n] < to}
Days(g, from, to) == {tale.plays[g][n] : n \in Attempts(g, from, to)}

MonthOf(t) == t \div MonthDays

\* count_rewards_for_referrer_between, for the month of today
RewardsThisMonth(h) ==
  Cardinality({i \in Of(h) : /\ links[i].status = "REWARDED"
                             /\ MonthOf(links[i].rewarded) = MonthOf(today)})

\* The qualified sequence is ordered by qualified_at, then created_at.
Sequence(h) == {i \in Of(h) : links[i].status \in Counting /\ links[i].qualified # Never}
NotAfter(i, j) ==
  \/ links[i].qualified < links[j].qualified
  \/ links[i].qualified = links[j].qualified /\ i <= j
RankIn(S, i) == Cardinality({j \in S : NotAfter(j, i)})
Place(h, i) == RankIn(Sequence(h), i)

\* A mutant of Anchors: the first of a group is its anchor.
AnchorsFirst(h) == {i \in Sequence(h) : Place(h, i) % PerReward = 1 % PerReward}

\* Every PerReward-th of them carries a reward.
Anchors(h) == {i \in Sequence(h) : Place(h, i) % PerReward = 0}

Due(h) ==
  {i \in Anchors(h) : links[i].status # "REWARDED" /\ links[i].qualified + Delay <= today}
Early(h) ==
  {i \in Anchors(h) : links[i].status # "REWARDED" /\ links[i].qualified + Delay > today}

Left(h) == IF RewardsThisMonth(h) >= MonthCap THEN 0 ELSE MonthCap - RewardsThisMonth(h)

\* The due anchors that find room in this month, in order.
Roomy(h) == {i \in Due(h) : RankIn(Due(h), i) <= Left(h)}

First(S) == CHOOSE i \in S : \A j \in S : NotAfter(i, j)

-----------------------------------------------------------------------------
(* A new user. *)

NewLink(g, fast) ==
  [host |-> tale.from[g], guest |-> g, made |-> today,
   qualified |-> Never, rewarded |-> Never, notified |-> Never,
   status |-> IF fast THEN "REJECTED_FRAUD" ELSE "STARTED",
   score |-> IF fast THEN 80 ELSE 0]

\* register_start_for_new_user up to its insert: the start is counted.
Arrive(g) ==
  /\ g \notin DOMAIN arriving /\ \A i \in Refs : links[i].guest # g
  /\ g \in DOMAIN tale.plays /\ today <= tale.joinBy
  /\ Cardinality(DOMAIN arriving) < tale.together
  /\ arriving' = [x \in DOMAIN arriving \cup {g} |->
       IF x = g THEN NewLink(g, StartsToday(tale.from[g]) + 1 > StartsLimit) ELSE arriving[x]]
  /\ UNCHANGED <<today, links, premium, news, alerts, events, guest, tale, paid, welcomed, shown>>

\* The transaction of the start commits.
Joined(g) ==
  /\ g \in DOMAIN arriving
  /\ links' = Append(links, arriving[g])
  /\ welcomed' = IF arriving[g].status = "STARTED" THEN welcomed \cup {Len(links')} ELSE welcomed
  /\ arriving' = [x \in DOMAIN arriving \ {g} |-> arriving[x]]
  /\ UNCHANGED <<today, premium, news, alerts, events, guest, tale, paid, shown>>

-----------------------------------------------------------------------------
(* The qualification job. *)

Min2(a, b) == IF a < b THEN a ELSE b

\* A mutant of Earned: it counts what was played after the window as well.
EarnedLate(r, now) ==
  /\ Cardinality(Attempts(r.guest, r.made, now)) >= MinAttempts
  /\ Cardinality(Days(r.guest, r.made, now)) >= MinDays

\* The referred user played enough inside the window.
Earned(r, now) ==
  LET end == Min2(now, r.made + Window) IN
  /\ Cardinality(Attempts(r.guest, r.made, end)) >= MinAttempts
  /\ Cardinality(Days(r.guest, r.made, end)) >= MinDays

Checked(r, now) ==
  IF r.status # "STARTED" THEN r
  ELSE IF Earned(r, now) THEN [r EXCEPT !.status = "QUALIFIED", !.qualified = now]
  ELSE IF now >= r.made + Window THEN [r EXCEPT !.status = "CANCELED"]
  ELSE r

\* run_qualification_checks
Qualify ==
  /\ links' = [i \in Refs |-> Checked(links[i], today)]
  /\ links' # links
  /\ UNCHANGED <<today, arriving, premium, news, alerts, events, guest, tale, paid, welcomed, shown>>

-----------------------------------------------------------------------------
(* Rewards. *)

\* run_reward_distribution without a reward code: the user is to choose.
Announced(i) ==
  LET r == links[i]
      h == r.host
  IN IF i \in Roomy(h)
     THEN [r EXCEPT !.status = "QUALIFIED",
                    !.notified = IF r.notified = Never THEN today ELSE r.notified]
     ELSE IF i \in Due(h) THEN [r EXCEPT !.status = "DEFERRED_LIMIT"]
     ELSE r

Distribute ==
  /\ links' = [i \in Refs |-> Announced(i)]
  /\ links' # links
  /\ LET fresh == {i \in Refs : links[i].notified # links'[i].notified} IN
     /\ news' = news \cup {<<links[i].host, today>> : i \in fresh}
     /\ alerts' = IF fresh = {} THEN alerts ELSE alerts \cup {today}
  /\ UNCHANGED <<today, arriving, premium, events, guest, tale, paid, welcomed, shown>>

\* send_referral_ready_notifications: each host is told, or the send fails.
\* The worker may as well have died; nothing sends the announcement again.
Tell(n) ==
  /\ news' = news \ {n}
  /\ UNCHANGED <<today, links, arriving, premium, alerts, events, guest, tale, paid, welcomed, shown>>

\* _send_referral_reward_alerts and the record of it, which may fail in silence.
Alert(t) ==
  /\ alerts' = alerts \ {t}
  /\ \/ \E s \in {"SENT", "FAILED"} : events' = events \cup {<<t, s>>}
     \/ UNCHANGED events
  /\ UNCHANGED <<today, links, arriving, premium, news, guest, tale, paid, welcomed, shown>>

\* The ACTIVE row of a premium that has ended is in the way of a new one.
Blocked(h) == premium[h] # Never /\ premium[h] <= today

\* get_referrer_overview
Overview(h) ==
  [claimable |-> Cardinality(Roomy(h)),
   deferred |-> Cardinality(Due(h)) - Cardinality(Roomy(h)),
   pending |-> Cardinality(Anchors(h)) -
               Cardinality({i \in Of(h) : links[i].status = "REWARDED"}),
   next |-> IF Early(h) = {} THEN Never ELSE links[First(Early(h))].qualified + Delay]

\* The screen of a host offers the reward (handle_referral_open).
Offered(h) == Overview(h).claimable > 0

\* A mutant of ClaimAnswer: it allows one reward more than the cap.
ClaimAnswerLax(h) ==
  IF Due(h) # {} /\ RewardsThisMonth(h) <= MonthCap THEN IF Blocked(h) THEN "ERROR" ELSE "CLAIMED"
  ELSE IF Due(h) # {} THEN "MONTHLY_CAP"
  ELSE IF Early(h) # {} THEN "TOO_EARLY" ELSE "NO_REWARD"

\* What claim_next_reward_choice answers.  Where the row of an ended premium is still ACTIVE,
\* the grant meets the unique index (IntegrityError) and all is rolled back.
ClaimAnswer(h) ==
  IF Due(h) # {} /\ RewardsThisMonth(h) < MonthCap THEN IF Blocked(h) THEN "ERROR" ELSE "CLAIMED"
  ELSE IF Due(h) # {} THEN "MONTHLY_CAP"
  ELSE IF Early(h) # {} THEN "TOO_EARLY" ELSE "NO_REWARD"

\* _grant_reward and the claim around it.
ClaimReward(h) ==
  /\ ClaimAnswer(h) = "CLAIMED"
  /\ LET i == First(Due(h)) IN
     /\ links' = [links EXCEPT ![i].status = "REWARDED", ![i].rewarded = today]
     /\ paid' = paid \cup {i}
  /\ premium' = [premium EXCEPT ![h] = RewardDays + IF @ = Never THEN today ELSE @]
  /\ UNCHANGED <<today, arriving, news, alerts, events, guest, tale, welcomed, shown>>

\* A claim above the cap of the month marks what it meets.
Defer(h) ==
  /\ ClaimAnswer(h) = "MONTHLY_CAP"
  /\ links' = [i \in Refs |-> IF i \in Due(h) THEN [links[i] EXCEPT !.status = "DEFERRED_LIMIT"]
                              ELSE links[i]]
  /\ UNCHANGED <<today, arriving, premium, news, alerts, events, guest, tale, paid, welcomed, shown>>

\* handle_referral_reward_choice
Choose(h) == ClaimReward(h) \/ Defer(h)

-----------------------------------------------------------------------------
(* The review of referrals, and the alert. *)

\* _resolve_next_status
NextStatus(decision, status) ==
  CASE decision = "CONFIRM_FRAUD" /\ status \in {"STARTED", "REJECTED_FRAUD"} -> "REJECTED_FRAUD"
    [] decision = "REOPEN" /\ status \in {"REJECTED_FRAUD", "CANCELED", "STARTED"} -> "STARTED"
    [] decision = "CANCEL" /\ status \in {"STARTED", "REJECTED_FRAUD", "CANCELED"} -> "CANCELED"
    [] OTHER -> "CONFLICT"

\* apply_referral_review_decision, on a row that need not be as the reviewer saw it
Review(i, decision) ==
  LET next == NextStatus(decision, links[i].status) IN
  /\ decision \in tale.decisions
  /\ next # "CONFLICT"
  /\ links' = [links EXCEPT ![i] =
       [@ EXCEPT !.status = next, !.qualified = Never, !.rewarded = Never,
                 !.score = IF next = "REJECTED_FRAUD" THEN 80
                           ELSE IF next = "STARTED" THEN 0 ELSE links[i].score]]
  /\ links' # links
  /\ UNCHANGED <<today, arriving, premium, news, alerts, events, guest, tale, paid, welcomed, shown>>

\* The rows of a window, by status.
Started(since) == {i \in Refs : links[i].made >= since}
WithStatus(status, since) == {i \in Started(since) : links[i].status = status}
ReviewQueue(since) == WithStatus("REJECTED_FRAUD", since)

\* build_referrals_dashboard_snapshot
Totals(since) ==
  [started |-> Cardinality(Started(since)),
   qualified |-> Cardinality(UNION {WithStatus(s, since) : s \in Counting}),
   rewarded |-> Cardinality(WithStatus("REWARDED", since)),
   rejected |-> Cardinality(WithStatus("REJECTED_FRAUD", since)),
   canceled |-> Cardinality(WithStatus("CANCELED", since))]

\* list_referrer_stats_since
RejectedOf(h, since) == Cardinality({i \in WithStatus("REJECTED_FRAUD", since) : links[i].host = h})

\* get_referrals_notification_events
Feed(since) == {e \in events : e[1] >= since}

\* evaluate_referrals_alert_state
Spike(since) ==
  LET n == Totals(since) IN
  /\ n.started >= MinStarted
  /\ \/ n.rejected * 100 > MaxRate * n.started
     \/ n.rejected > MaxRejected
     \/ \E h \in Hosts : RejectedOf(h, since) >= SpikeAt

WindowStart(window) == IF today > window THEN today - window ELSE 0

\* get_referrals_dashboard
ReferralsDashboard(window) == [totals |-> Totals(WindowStart(window)), spike |-> Spike(WindowStart(window))]

\* run_referrals_fraud_alerts_async sends its alert.
Alarm(window) == Spike(WindowStart(window))

-----------------------------------------------------------------------------
(* After a game. *)

\* A mutant of MayPrompt: it asks the player again after the second game.
MayPromptAgain(u, games) == games \in {1, 2} /\ \A i \in Refs : links[i].host # u

\* reserve_post_game_prompt
MayPrompt(u, games) ==
  /\ ~guest[u].prompted
  /\ games \in {1, 2}
  /\ \A i \in Refs : links[i].host # u

\* The prompts at the end of an answer that finishes a game or not, or repeats
\* an earlier one: the channel bonus goes first (should_show_post_game_prompt).
After(u, games, replay) ==
  LET bonus == ~replay /\ ~guest[u].bonus /\ games = 1
      ask == ~bonus /\ MayPrompt(u, games)
  IN /\ guest' = [guest EXCEPT ![u].games = games, ![u].prompted = @ \/ ask]
     /\ shown' = [shown EXCEPT ![u].prompts = @ + (IF ask THEN 1 ELSE 0)]
     /\ UNCHANGED <<today, links, arriving, premium, news, alerts, events, tale, paid, welcomed>>

Finish(u) == u \in tale.players /\ guest[u].games < tale.games /\ After(u, guest[u].games + 1, FALSE)
AnswerAgain(u, replay) == u \in tale.players /\ After(u, guest[u].games, replay)

\* claim_bonus_if_subscribed, for a user that has joined the channel
Bonus(u) ==
  /\ u \in tale.players /\ ~guest[u].bonus
  /\ guest' = [guest EXCEPT ![u].bonus = TRUE]
  /\ shown' = [shown EXCEPT ![u].bonuses = @ + 1]
  /\ UNCHANGED <<today, links, arriving, premium, news, alerts, events, tale, paid, welcomed>>

\* The day ends when no start and no message is under way: they are short.
Tomorrow ==
  /\ today < tale.days /\ DOMAIN arriving = {} /\ news = {} /\ alerts = {}
  /\ today' = today + 1
  /\ UNCHANGED <<links, arriving, premium, news, alerts, events, guest, tale, paid, welcomed, shown>>

RefNext ==
  \/ \E g \in Guests : Arrive(g) \/ Joined(g)
  \/ Qualify
  \/ Distribute
  \/ \E n \in news : Tell(n)
  \/ \E t \in alerts : Alert(t)
  \/ \E h \in Hosts : Choose(h)
  \/ \E i \in Refs, decision \in {"CONFIRM_FRAUD", "REOPEN", "CANCEL"} : Review(i, decision)
  \/ \E u \in Everyone : Finish(u) \/ Bonus(u) \/ \E replay \in BOOLEAN : AnswerAgain(u, replay)
  \/ Tomorrow

RefSpec == RefInit /\ [][RefNext]_refVars

-----------------------------------------------------------------------------
(* Every reward is paid once, to an anchor that waited long enough, as many *)
(* as whole groups of referrals that the referred users really played for,  *)
(* and no more in a month than the cap: whichever job or claim comes first, *)
(* and whatever a reviewer decided on the way.                              *)
RewardsFair ==
  /\ \A i \in Refs :
       /\ links[i].status = "REWARDED" <=> i \in paid
       /\ i \in paid => i \in Anchors(links[i].host) /\ links[i].qualified + Delay <= links[i].rewarded
       /\ links[i].status \in Counting =>
            LET end == links[i].made + Window IN
            /\ Cardinality(Attempts(links[i].guest, links[i].made, end)) >= MinAttempts
            /\ Cardinality(Days(links[i].guest, links[i].made, end)) >= MinDays
  /\ \A h \in Hosts, month \in {MonthOf(t) : t \in Times} :
       Cardinality({i \in Of(h) \cap paid : MonthOf(links[i].rewarded) = month}) <= MonthCap
  /\ \A h \in Hosts : Cardinality(Of(h) \cap paid) * PerReward <= Cardinality(Sequence(h))

\* What the overview shows and the job announced is what a claim then does, but for
\* one case: the overview knows nothing of the host's premium.  While the row of a
\* premium that has ended is ACTIVE, the button is there and its claim fails; it is
\* there without need in no other case, and never missing when a claim would succeed.
\* A reward announced in this month and not claimed yet is offered.
OverviewHonest ==
  \A h \in Hosts :
    LET view == Overview(h) IN
    /\ Offered(h) /\ ~Blocked(h) <=> ClaimAnswer(h) = "CLAIMED"
    /\ Offered(h) /\ Blocked(h) <=> ClaimAnswer(h) = "ERROR"
    /\ (view.claimable = 0 /\ view.deferred > 0) <=> ClaimAnswer(h) = "MONTHLY_CAP"
    /\ (view.claimable = 0 /\ view.deferred = 0 /\ view.next # Never) <=> ClaimAnswer(h) = "TOO_EARLY"
    /\ view.pending = Cardinality(Due(h)) + Cardinality(Early(h))
    /\ (\E i \in Of(h) : /\ links[i].notified # Never /\ links[i].status # "REWARDED"
                         /\ MonthOf(links[i].notified) = MonthOf(today))
       => Offered(h)

\* Starts that are counted before others are inserted may pass the limit of a
\* day, by no more than were under way at once; nobody is asked twice to invite
\* friends or paid the channel bonus twice.
StartsBounded ==
  /\ \A h \in Hosts, t \in Times :
       Cardinality({i \in Of(h) \cap welcomed : links[i].made = t}) < StartsLimit + tale.together
  /\ \A u \in Everyone : shown[u].prompts <= 1 /\ shown[u].bonuses <= 1

\* Whatever raises the alert can be looked at and decided upon, and what the
\* operators were told of is an announced reward.
WatchSound ==
  /\ \A t \in Times : Alarm(t) =>
       /\ ReferralsDashboard(t).spike /\ ReferralsDashboard(t).totals.rejected > 0
       /\ \E i \in ReviewQueue(WindowStart(t)) : NextStatus("REOPEN", links[i].status) = "STARTED"
  /\ \A e \in Feed(0) : \E i \in Refs : links[i].notified = e[1]

\* What hosts, guests and operators are promised about referrals.
ReferralsSound == RefTypeOK /\ RewardsFair /\ OverviewHonest /\ StartsBounded /\ WatchSound
=============================================================================
