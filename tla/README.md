# Quiz Arena: specifications

TLA+ models of the Quiz Arena backend (`src/app`): what is modelled so far, what
TLC checks, what TLAPS proves, and what is left.

1. [The system](#1-the-system)
2. [Modules](#2-modules)
3. [UpdateIntake](#3-updateintake)
4. [Purchases](#4-purchases)
5. [Duel](#5-duel)
6. [Tournament and TourMessages](#6-tournament-and-tourmessages)
7. [Around the games](#7-around-the-games)
8. [Where code and documents disagree](#8-where-code-and-documents-disagree)
9. [Proofs](#9-proofs)
10. [Not modelled](#10-not-modelled)
11. [Plan](#11-plan)
12. [Running](#12-running)

## 1. The system

A Telegram quiz bot. Telegram posts updates to a FastAPI webhook, which puts each
on a Celery queue; workers feed them to aiogram handlers; the handlers call the
services, which keep everything in PostgreSQL. Celery beat runs jobs against the
same tables, and operators reach them through an admin API. There is no shared
memory: processes meet in database rows, locked with `SELECT ... FOR UPDATE`
under READ COMMITTED, in unique indexes, and in the queue.

| Component | State | Operations | Talks to | What is hard | What makes it correct |
|---|---|---|---|---|---|
| **Update intake** (`api/routes/telegram_webhook.py`, `workers/tasks/telegram_updates*.py`) | `processed_updates`: status, owner, time; the queue | enqueue, take slot, feed, record outcome, retry, clean up | Telegram, broker, all handlers | three transactions per update; crashes between them; redelivery; a worker that outlives its slot; a publication that times out and still succeeds | one worker per update; effects repeated only when an outcome was lost; nothing dropped silently; every update decided |
| **Purchases and payments** (`economy/purchases`, `bot/handlers/payments.py`) | `purchases`, `ledger_entries`, `entitlements`, wallets | buy, invoice, pre-checkout, pay, credit, refund | Telegram payments, promo codes, energy, streak | the money moves at Telegram between two transactions; payment messages repeat; rows read at pre-checkout are stale at credit | goods once, for money; ledger = statuses; one ACTIVE premium; no paid purchase turned away |
| **Payment reliability jobs** (`workers/tasks/payments_reliability*.py`) | recovery counters on `purchases` | expire stale invoices, recover, reconcile, roll back | purchases, promo | run next to payments; partial failure inside one transaction | recovery terminates; an approved invoice is not expired |
| **Promo codes** (`economy/promo`) | `promo_codes`, `promo_redemptions`, `promo_attempts` | redeem, reserve, apply, expire, pause, revoke | purchases, entitlements | capacity counted over uses and live reservations; reservations expire while a payment is under way | a code is not oversold; redemption and purchase agree |
| **Energy** (`economy/energy`) | free and paid energy, regeneration anchor | consume, regenerate, top up | sessions, purchases | idempotency of consumption, caps, clock | nothing charged twice; caps hold |
| **Streak** (`economy/streak`) | counters, savers, freezes per local day | activity, rollover | sessions, purchases | rollover racing activity, time zones | a day counted once; a saver spent once per missed day |
| **Quiz sessions** (`game/sessions/service`) | `quiz_sessions`, `quiz_attempts`, progress, daily runs | start, answer, replay, abandon | energy, streak, duels, offers | replayed callbacks, racing starts | one attempt per question; energy paid once; one daily run per day |
| **Duels** (`friend_challenges_*`) | `friend_challenges` | create, join, round, finish, walkover, series | sessions, purchases (tickets), tournaments | two players and a deadline job on one row; a list that writes without a lock; clocks read before the lock | seat given once; score = first answers; same questions; one earned result that stands; tickets not overspent |
| **Tournaments, daily cup** (`game/tournaments`, `workers/tasks/daily_cup*`, `tournaments_async.py`) | `tournaments`, participants, matches | register, start, settle, advance | duels, jobs | last answer and deadline job advance the same round; lock order | a round advanced once; points = match results |
| **Referrals** (`economy/referrals`) | `referrals` | start, qualify, reward, review | entitlements, users | reward limits under concurrent qualification | at most the allowed rewards |
| **Offers** (`economy/offers`) | `offers_impressions` | trigger, select, mute | sessions, purchases | caps per day and week | caps respected |
| **Question bank** (`game/questions`, `scripts/quizbank_import_tool.py`) | `quiz_questions`, a pool per worker process, `daily_question_sets` | import, refresh, choose, grade, plan | sessions, duels | pools older than the table; an import between a choice and its row; sets built by several updates at once | pools are what the table was; one set of the day; nobody is asked what is not there |
| **Onboarding, channel bonus, pushes** (`user_onboarding.py`, `channel_bonus.py`, `daily_challenge_async.py`) | `users`, `daily_push_logs` | first message, claim, push | Telegram, duels, tournaments | first messages race; updates are handled again; jobs overlap | one row, one bonus, one push a day |
| **Analytics** (`analytics_daily.py`, `admin_daily_metrics.py`) | a row per day and table | count, store, show | every table above | statements of one count see different moments; runs overlap; cleanup | a row tells what had happened when its run began |
| **Retention** (`retention_cleanup.py`) | deletes old rows | delete in batches | every table above | deletes the rows idempotency and counts rest on | not before they are useless |
| Messages, keyboards, images; console login | text | read, format | everyone | little that is concurrent | - |

`PROJECT.json` lists the components with their files, and under `hazards` each
place where the code is exposed to what a test would hardly reach: the line, what
can go wrong, and the property that watches it, or why none can.

## 2. Modules

| Module | Role |
|---|---|
| `UpdateIntake` | from webhook to recorded outcome |
| `MCUpdateIntake` | symmetry for TLC |
| `UpdateIntakeProofs` | theorems about `UpdateIntake` |
| `PaymentContract` | abstract: what the payment subsystem promises of a purchase |
| `Purchases` | purchases, discounts, credit, refund, jobs; implements `PaymentContract` |
| `MCPurchases` | who buys what with which code, for TLC |
| `PurchasesProofs` | theorems about `Purchases` |
| `Match` | abstract: what a duel promises its two players |
| `Duel` | one duel from invitation to result; implements `Match` |
| `MCDuel` | the questions duels are planned with, for TLC |
| `DuelProofs` | theorems about `Duel` |
| `Tournament` | registration, pairing, settlement, rounds; private tournaments and the daily cup |
| `TourMessages` | the tasks that tell the players of a tournament, and what reaches them |
| `MCGames` | a duel, the duels of friends, a tournament and its messages as four scenes for TLC; extends all but `Duel`, so that TLC evaluates their assumptions |
| `Energy`, `Streak` | the rules of the two rows every learner has, as operators |
| `QuizSession` | one learner: sessions, answers, daily run, levels; uses `Energy` and `Streak` |
| `Lobby` | the duels of friends around the single duel of `Duel` |
| `GamesProofs` | theorems about `Lobby`, `TourMessages` and `QuizSession` with `Energy` |
| `Referrals` | start links, qualification, rewards, review, prompts |
| `ReferralsProofs` | theorems about `Referrals` |
| `Offers` | what is offered, how often, and the funnel |
| `OffersProofs` | theorems about `Offers` |
| `Promo` | promo codes from the operators' side to the redemption |
| `PromoProofs` | theorems about `Promo` |
| `QuestionBank` | import, cached pools, the set of the day, the plan of a duel |
| `Arrivals` | newcomers, the channel bonus, links to duels, daily pushes |
| `Figures` | the counts of a day |
| `GrowthProofs` | theorems about `Arrivals`, `Figures` and `QuestionBank` |
| `MCGrowth` | the seven subjects from `QuizSession` to `Figures`, but for `Lobby`, as scenes for TLC; extends those that are proved about, so that TLC evaluates their assumptions |
| `MCFigures` | a day of sales, for TLC |

A definition directly above another and commented "A mutant of ..." is the
next one with a plausible bug in it. It is used by nothing in the specification; it
serves to show that the property watching that code would see the bug
(`PROJECT.json`, `mutants`: one for each property of each passing run).

All runs turn the deadlock check off. These systems really stop: when Telegram sends
nothing more, or no user presses a button, nothing has to happen.

## 3. UpdateIntake

**State.** A row of `processed_updates` is `status`, `owner` (`processing_task_id`)
and `age` (the distance of `processed_at` from now, in ticks, up to `Retention`).
A Celery message is `st` (the step its worker has reached), `upd` (the update it
carries, chosen in `Init` for every message that may ever be published) and
`retries`. `tg` is what Telegram knows. `completed`, `lost` and `forgotten` are
history and guard nothing.

**Actions.** `EnqueueInTime`, `EnqueueLate`, `EnqueueFails` are the three ways the
webhook can end. A late publication happens because `wait_for` gives up on a thread
that goes on. `TryCreate`, `TryReclaimFailed`, `TryReclaimStale` are the
three statements of `_acquire_processing_slot`; under READ COMMITTED each sees
what others committed in between, so each is a step. `FeedSucceeds`/`FeedFails`,
`MarkProcessed`/`MarkFailed`, `RetryTask`/`FailFinal` follow
`process_update_async` and the task around it. `set_status` writes by `update_id`
alone, without looking at status or owner, and so does `SetStatus`.
`DatabaseFails`, `BuildFails`, `RetryRefused`, `WorkerDies` and `WorkerDiesAfterEffects`
may strike at any step, from a budget `MaxFaults`. `BuildFails` is a bot or dispatcher that
cannot be made: that is outside the `try`, so the slot stays PROCESSING and the task is
retried. `RetryRefused` is a broker that does not take the retry: Celery rejects the message
without requeueing it, and the task is over. `DeleteProcessedBefore` is the retention job.

**Time.** `Tick` ages all rows. It does not fall between the statements of one
transaction, whose `now()` is fixed. The constant `Overrun` says whether a worker may
hold its slot for `TTL` ticks or longer: the code does not limit it, so what needs the
limit is stated as needing it (`~Overrun`).

**Runs.**

| Run | Instance | Shows |
|---|---|---|
| `slot` | one update, three publications, one retry, TTL 2, retention 4, two faults, no overrun, symmetric tasks (359 000 states) | `SingleProcessor`, `AppliedOncePerLoss`, `NoSilentDrop`, `TypeOK` |
| `live` | the same with overruns, without faults, fair (447 000 states) | `EveryUpdateDecided`, `ProcessedMeansApplied` |
| `orphan` | one fault | `NoOrphanedSlot` is violated, see section 8 |

Updates do not share rows, messages or workers, so one update is enough. Three
publications let one worker hold the slot, one reclaim it and one arrive after
both; two faults are one more than the retries, so a message can be exhausted.
TTL 2 and retention 4 separate fresh, stale and deletable. `NoSilentDrop` excuses an update
whose failures outnumber its retries, and one whose retry the broker refused: either is
logged by Celery as a failed task, and nothing else remembers it.

**Fairness.** `FairSpec` assumes that each message in the queue makes its next
step: workers consume the queue, a handler returns or raises. Nothing is assumed of
Telegram, the webhook, the clock or the retention job. `live` has no faults (`MaxFaults = 0`) because
every fault is a choice of the environment; with one, `orphan` shows that the
property does not hold. So `EveryUpdateDecided` says nothing of failing databases: it is about
handlers that raise, retries, late publications and workers that outlive their slots.

**Bounds and limits.** `Tasks` bounds the publications, `MaxFaults` the faults.
`SingleProcessor` and `AppliedOncePerLoss` need `~Overrun`. With overruns, the first worker can turn PROCESSED into FAILED after a second one
finished, and the update runs a third time; only the idempotency keys of the
handlers protect their effects then. `AppliedOncePerLoss` is exact about the promise
"approximately exactly once": each extra run is paid for by a crash or a database
failure after the handlers committed, or by a deleted row. It counts runs that end
normally; what a handler commits before it raises is the subject of the modules of the
handlers: in `QuizSession`, `Arrivals` and `Offers` they fail between their transactions
and are handled again.

## 4. Purchases

**State.** Rows are model values. `order` (user and product) and `voucher` (user and
code) are chosen in `Init` from the buttons and requests the instance looks at; a
row exists once its `status` or `rstatus` is not `NONE`. The other variables are
columns; the declarations name them. `ledger` is a set of entries because
`ledger_entries.idempotency_key` is unique. `invoices`, `approved`, `charges` and
`inbox` are Telegram's side: what was sent, approved, taken and delivered.
`goods`, `savers` and `refused` are history.

**Actions.** One database transaction each. Handlers lock what they read; when the
row does not exist yet, the loser of a race fails on a unique index and is rolled
back as if it had not run. `Buy` and `BuyDiscounted` are `init_purchase`,
`SendInvoice` and `MarkInvoiceSent` the two halves of `handle_buy`, `Precheckout`
`validate_precheckout`. `Charge` is Telegram. `PaymentCredited`,
`PaymentReplayed` and `PaymentRefused` are the ways `handle_successful_payment`
can end; a message may stay in `inbox` and be delivered again. `Credit` follows
`credit_purchase_assets` in the order in which it can fail. `ExpireStaleInvoices`,
`Recover` and `RecoveryFails` are the jobs; `Refund` is
`rollback_promo_for_refund`; `Redeem`, `ExpireReservations`, `CloseCode`,
`ReopenCode` and `RevokeReservations` the life of discount codes. `UseStock`,
`ReservationLapses`, `InvoiceGoesStale`, `PremiumEnds` and `SaverWindowEnds` are the
game and the clock.

**Abstractions.**
- Every deadline is a flag that falls at any time (`rlive`, `stale`, `over`,
  `saverLock`, `usable`). This allows more orders than the clock does, except one
  that is kept because a property would notice: an invoice becomes stale (30
  minutes) after its reservation has lapsed (15 minutes).
- `usable` merges the ACTIVE status of a code with its validity window. DEPLETED is
  left out: it forbids only what the capacity checks forbid.
- Amounts are reduced to "nothing to pay or something" (`FreeCodes`), which is what
  the ledger's CHECK on the amount tells apart. Products are the four kinds a credit
  treats differently, and two premium plans of different rank.
- `max_uses_per_user` is 1, and a campaign's limits are not edited while it runs.
- A row PAID_UNCREDITED is committed by no code of this release, since the credit is
  in the same transaction. Recovery still looks for such rows, tests insert them, and
  an operator or an earlier release may have left some: `Imported` purchases start
  there, paid. One without a charge id goes to review at once and is not modelled.

**The contract.** `PaymentContract` knows only what was charged, granted and
returned. `Contract == INSTANCE PaymentContract WITH ...` reads these from Telegram's
charges, the goods handed over and the refund entries; `ContractHolds` says that every
transaction is a step of the contract or invisible to it.

**Runs.**

| Run | Instance | Shows |
|---|---|---|
| `core` | two purchases, two redeem requests, a code with one use left and a free one; savers twice, two plans, or two users (995 000 states) | eight invariants, `TypeOK`, `ContractHolds` |
| `recovery` | one purchase is PAID_UNCREDITED with or without a reservation, another plan or another user competes; fair (65 000 states) | `RecoverySettles`, `ReservationsSettle`, `InvoicesSettle` |
| `renewal` | one user, the same plan twice | `PaymentHonoured` is violated, see section 8 |

`core` has no imported rows (`Imported = {}`), so that no purchase of it is ever
PAID_UNCREDITED; `recovery` is the run about those. Two purchases are enough: rows interact in pairs, through the open invoice of a
product, the rank of a plan, the saver limit and the capacity of a code, and each of
these pairs is in `TwoPurchases`. Two redeem requests allow both collisions: two
users after the last use, and one user with two codes. `MaxInvoices` is 1: one
message per purchase can be paid once, and its payment be delivered any number of
times. With two messages, the second payment of one purchase is taken for a replay
(a hazard listed without a property: the contract counts purchases, not payments).

**Fairness.** `FairSpec` assumes that beat keeps running the two expiry jobs and that
recovery keeps picking each purchase it can act on. Nothing is assumed of users,
Telegram or the clock. `RecoverySettles` carries an exception the code forces: while a
lapsed entitlement blocks the insert, the attempt is rolled back together with its
counter and the job tries for ever.

## 5. Duel

**State.** One row of `friend_challenges` (`duel`: status, opponent, and per side the
score, the last answered round and whether `*_finished_at` is set; winner). The users
of the instance are the creator and the friends who have the link; a score belongs to a
side, as in the table, and `SideOf` is the code's `is_creator`. `due` is `expires_at <=
now()`, `plan` is `question_ids`, `asked` the question of the quiz session of a user and
a round (a function, because of the unique index on duel, user and round), `retired` the
questions that are no longer ACTIVE, `lists` the rows somebody's list of duels has
loaded. `first` is history: the first answer to a round while its player could play.

**Actions.** One transaction each. `Join` is the link: it takes the seat and opens the
first round in the same transaction. `StartRound` is every other way to the next
question; after an answer the handler opens the next round in a transaction of its own,
so `Answer` and `StartRound` are two actions. `Cancel` is the deletion of an expired
invitation, `Refresh` all handlers that only notice the deadline, `ExpireDue` the job.
`LoadMyDuels` and `WriteMyDuels` are the two halves of "Meine Duelle": a SELECT without
lock, and the UPDATE that the flush makes of those columns that expiry has changed.
`DeadlinePasses` and `Retire` are the environment.

**Abstractions.**
- A handler takes its clock before it waits for locks; `late` says what that clock
  tells about the deadline. When `due` is TRUE, both answers are possible, also
  long after; the clock allows less. So the properties do not rest on short waits.
- `ensure_home_snapshot` updates the row of the user first, so two handlers of one user
  do not overlap: while a list of `u` is open, `u` cannot join, answer or cancel
  (`Listed`). `Refresh` is not held back, as some of its callers run outside that
  transaction.
- An exception of the duel is caught inside `session_local.begin()`, which commits what
  had been changed: a refused press still expires the row.
- A transaction that shows a list ends long before a deadline that is set hours ahead:
  `DeadlinePasses` waits for `lists = {}`.
- A press that repeats a callback id finds its attempt and changes nothing; every other
  press is an `Answer`, for the same session as often as the user likes.
- Whether an answer is right is a free choice.
- A duel begins as an invitation (with planned questions) or as a rematch or series game
  whose opponent is known (a series game has no plan).

**The contract.** `Match` knows rounds played, points, a winner and three phases, and
no clock, list or job. `KeepsPromise` maps the row to it: nobody plays a round twice or
skips one, the last answer decides, whoever is alone in finishing wins when time runs
out, and nothing happens after the end.

**Runs.**

| Run | Instance | Shows |
|---|---|---|
| `play` | two rounds, two friends, three questions, planned or not, one may be withdrawn; nobody opens the list (21 000 states) | five invariants, `ResultStands`, `KeepsPromise` |
| `games`, scene "duel" | the same, and the creator and one friend open lists (101 000 states) | `StaysOver`, `JoinedDuelEnds` |
| `overwrite` | as the scene "duel" | `CompletedStands` is violated, see section 8 |
| `withdrawn` | as `play` | `SameQuestionAlways` is violated, see section 8 |

Two friends compete for the seat; a third would be a second loser. Two rounds
distinguish the first, the last and the next one, and let one side be ahead; three give
the same answers (338 000 states, checked once with `ThreeRounds`). Three questions
leave one to fall back on.

**Fairness.** The deadline comes, beat runs the job, a transaction that has loaded a
list ends. Nothing is assumed of players or of the question bank. `JoinedDuelEnds` is
about joined duels: the job skips a duel that its creator has played to the end and
nobody has joined. Only a press of the creator, a friend or the list ends such a duel, and
until then it counts against the limit of live duels (`friend_challenges_repo.py:222`).

## 6. Tournament and TourMessages

### Tournament

**State.** `tour` is the row of a tournament with its participants (`entry`: score, tie
break, place in the list), its matches with the columns of their duels that a settlement
reads, and the cup's results; `turns` the answers under way (the match locked, what was
read of the tournament before the lock, the clock), `sweep` the deadline job under way.

**Actions.** `JoinTournament`, `StartPrivate`, `CancelPrivate`, `CloseCup` are
registration and its end. `BeginAnswer` locks duel and match and reads the tournament
without a lock; `FinishAnswer` does the rest (`handle_tournament_duel_progress`): it sets
the grace of the other side, settles, and in the cup may start the next round. So does an
answer that comes when the time of its duel is over: nothing of it counts (`Moved`), but the
duel has ended by it, and in the cup its match is settled and the round may move on. In a
private tournament it only ends the duel, and is `LookAtGame`. `BeginSweep` and
`FinishSweep` are the job (`settle_round_and_advance` under the lock of the
tournament). `DropAnswer` and `DropSweep` are a death, or the database ending one of two
that wait for each other. `Pairing` searches for partners from the top as the code does,
preferring who has not met; `ByePlayer` chooses who sits out: the lowest score, then the
lowest tie break, then whoever joined first, of those who have not sat out yet.

**Properties.** `TourHolds`: totals are sums over settled matches, each counted once
(`TotalsMatchGames`); every player has one match a round and nothing of an earlier round
is open (`RoundsWhole`); nobody sits out twice before everybody has, and among three or four
players nobody meets twice in three rounds (`PairingFair`); and no step takes points away, settles a match before its own deadline
unless both have played, or skips a round (`TourStep`). `TourEnds`: a tournament that has
started is completed.

`PairingFair` is checked twice: of the tournament as it is played, and of the pairing alone
(`EveryDrawFair`), for two, three and four players over three rounds and for every order of
scores in which they may stand before each of them. The second includes
what a run of three players cannot reach.

### TourMessages

Every message is a Celery task in three parts: it reads the tournament in one
transaction, talks to Telegram player by player, and stores in another what it sent.
`OpenMove`, `CommitMove`, `Announce`, `Forget` are the tournament that moves on and asks for
tasks, before its commit or after it as the code does; `BeginMail`, `Post`, `StoreMail` a
task; `MailerDies` and `PusherDies` a death (acks_late gives the task back when the whole
worker is gone, not when only its process is), `PlayerDeletes` a message a player has
removed. A reminder is stamped when it is chosen, and `StampLapses` is the code's "stamp NULL
or ten minutes old": as long as the round goes on, the job of every ten minutes finds the match
again. `MailSound`: boards, cards and pushes that a player has twice are paid for by a death,
an overlap or a failed task; reminders are repeated on purpose, and he has one at most per
round and per stamp that lapsed, whatever dies or is delivered again. `ResultSeen`: whoever can be reached comes to see the result; the exceptions
are those the code forces, and named in the formula (the boards of the cup go out in order
and stop at the first player who has shut the bot out).

### Run `games`

One behaviour plays one of four scenes (`scene`); the parts of the others keep an
initial state. They share no variable, so interleaving them would multiply the states and
show nothing. 349 000 states.

| Scene | Instance |
|---|---|
| duel | as run `play`, with two users who open lists |
| lobby | two friends, seven stories (section 7) |
| tournament | up to three players, of whom two are enough to start; private in three rounds or the cup in two; questions count one point |
| messages | two players, two workers, a private tournament or a cup of one round, one trouble, one stamp that lapses, nobody or the first player out of reach |

Three players give a bye and a pair in each round, a new pairing in the second, an answer
of one match while the other is open, and the job in between; two rounds have a first, a
next and a last, and in three everybody meets everybody and sits out once. One trouble is enough for each exception of `MailSound` and `ResultSeen`
to happen alone; with two the same holds (checked once, for an earlier form of the scene without lapsing stamps).

**Fairness.** Clock and beat go on, workers work, every transaction ends: an answer that
holds its locks finishes or is dropped, and so does the job, except while an answer holds
a match of the round it wants. The update of a dropped answer is handled again, but a
bounded number of times, so answers are not dropped for ever. Nothing is assumed of players: those who stop playing are
settled by the job.

## 7. Around the games

Eight subjects with a module each: `Lobby` is a scene of run `games`, the others are checked
in run `growth`, one scene per behaviour as in `games` (384 000 states in all; `QuizSession`
has two scenes). What a part reads of another's rows (the streak an offer
looks at, the premium a lobby asks for) its own module lets change at any time, so that
nothing is lost by not interleaving them. A module has a variable that bounds a behaviour
(`profile`, `story`, `tale`, `course`, `plot`, `deck`, `visit`, `diary`), chosen in `Init`
from the set `MCGames` or `MCGrowth` gives it: each element is a small instance in which one of the
hazards happens, and together they reach every action. Properties are one promise per
subject, the conjunction of the named invariants in the module (and of step properties in
`QuizHolds` and `PromoHolds`).

**QuizSession, Energy, Streak.** One learner. `player` holds his rows: energy, streak,
charged questions (`ledger`), sessions by key, runs of the day, progress of a mode,
attempts. `StartMode`, `Answer` (up to its commit), `GoOn` (the second transaction, which a
death may prevent and a repetition bring much later), `Stop` are handlers, each with the
clock it read first and that of `ensure_home_snapshot` (`ClockPairs`); `Pass`, `PremiumOver`,
`SaverBought`, `SaverRefunded` the world. Time is counted in regeneration intervals, of which a Berlin
day has one (scene "quiz") or three (scene "energy"). Promises: the run of a day
is its answers (`DailyRunSound`), a streak has its days or what paid for them
(`MissedDaysPaid`, without late clocks and without savers that are bought or refunded, with
which it is false: both mark days as settled without looking at them), steps and levels are earned (`LevelsEarned`), nobody plays for more energy than he
was given (`EnergyCovers`), nothing is charged twice (`QuizStep`). Bounds: three taps, two
questions a day, one level, four ticks. Three taps are a start, its answer and a
repetition or a stop.

**Lobby.** Two friends and up to three duels: `CreateSelected`, `Repost`,
`CancelByCreator`; `Rematch`, `BestOfThree`, `NextGame` lock the game they come from
(`LockSource`), then all of its series (`FinishSource`), and two may wait for each other
(`DeadlockEnds`); `Join`, `Finish`, `Look` are what `Duel` has in full, `AnswerLate` an answer to a
duel that is over; `ReservePush`, `RunDeadlines`, `SendProofCards` what is sent. `told` counts
four kinds of messages per side: pushes out of its quota (`push`), and outside of it the notice of
the deadline job that a duel has ended (`over`), the invitation to a rematch or next game
(`invite`) and the result after an answer (`result`, which may come repeatedly). A tick is half a day, because the limit of
free duels counts UTC days and that of new duels Berlin days. Promises: `TicketsCover`,
`SeriesSound`, `QuotasKept` (the counters ration the reminders alone; an invitation and a
notice of the end come once, and neither end nor result is told of a duel that goes on). Bounds: one free duel a day, two live, two new, one push.

**Referrals.** One host and up to four guests. `Arrive` counts the starts of the day,
`Joined` inserts, with other starts in between; `Qualify` and `Distribute` are the jobs,
`ClaimReward`/`Defer` the choice of a reward, which ends in an IntegrityError and changes nothing
while the row of an ended premium is still ACTIVE (`Blocked`, `ClaimAnswer(h) = "ERROR"`), `Review` the operator, `Tell` and `Alert` messages
after the commit, `Finish`, `AnswerAgain`, `Bonus` the prompts after a game. Promises:
`RewardsFair`, `OverviewHonest` (the button is shown when the claim succeeds, and when it would
but for an ended premium, of which the overview knows nothing), `StartsBounded`, `WatchSound`.
Bounds: two referrals per
reward, one reward a month of three days, five days: enough for a reward that is due, one
that waits and one that meets the cap.

**Offers.** Two players. `Ask` is a start or an empty battery, again for the same key;
`Dismiss`, `Press`, `Shop`, `Pay` the answers; `Watch` and `Dashboard` the operators;
`Live` changes what the triggers look at. Promises: `NotPestered`, `RefusalsKept`,
`OneAnswer`, `ConversionsEarned`, `FunnelHonest`. The windows (a day of two ticks, repeat 2,
mute 4) keep the order of the code's (6, 24 and 72 hours), so
that one can be over while another is not.

**Promo.** Three words, two users. `Redeem` is a message (it holds the users row),
`RequestPasses` and `RequestEnds` a request of the API, which holds nothing between them;
a code may be made or patched so that one use is left;
`Attach`, `Credit`, `RollbackForRefund` stand for `Purchases`; `Operate` for creation one
by one, in bulk and by the tool, patch, toggle, status, revocation; `ExpireReservations`,
`Rollover`, `Guard` are the jobs. A failed attempt survives the rollback. Promises:
`UsesCounted`, `UsesPerUser`, `GrantsAddUp`, `GuessesSlow` (for messages), `AcceptedMade`,
`ListedAsDisplayed`, and `PromoStep`: what is over stays over. A code is taken to be valid from
the start: `valid_from` would only refuse more.

**QuestionBank.** Two workers with a pool each. `BuildRecords` and `PersistRecords` are the
import, which stamps rows before it commits them; `ChooseQuestion` (with `Cache`, the refresh
of a pool), `Fetch` and `Serve`, `Grade` the choice of a question, its row and its answer; `OpenDaily`, `UpsertSet`, `AskDaily` the set of the day. The set is drawn from the ACTIVE rows
whose own mode is the quick mix (`OwnRows`), not from all the mix may ask; where there is none,
one question of the mode's pool stands at every position (`FallbackDemand`), and only without
that the static bank answers. `OpenPlan`, `PlanRound`, `ClosePlan` the plan of a duel. The hash of a seed is a
number that may be anything. Promises: `PoolsCurrent` (but for deleted rows and rows
stamped before the watermark and committed after it, which the refresh cannot see),
`AskedSound`, `DailySame`, `GradedAsAsked`, `PlanVaried`. Bounds: four questions, two levels,
a set of the day of three, one import.

**Arrivals.** Three users, two workers, updates that are handled again after a death or a
refused reply (`Break`, one fault). `Take`, `TouchOrCreate`, `CreateFails` are the row of
the user; `CheckBonus`, `JoinByLink`, `CompleteDaily`, `OpenTournament`, `Home` the work;
`Commit`, `NotifyCreator`, `Reply` the end. `ListTargets`, `LogPush`, `SendPush`,
`RefusePush`, `RunDies` are a push job. Promises: `BonusOnce`, `ToldOnce`, `PushedOnce`.

**Figures.** Two users, up to three days. `Visit`, `StartQuiz`, `CompleteQuiz`, `MoneyArrives`,
`CreditLater`, `Refund`, `EmitEvent` are what is counted, with a clock that may be a tick
late; `BeginJob`, `CountStep`, `UpsertDaily`, `CommitCount` a run, each statement over the
rows as they are; `CountDies`; `DeleteEvents` one batch of the cleanup. Promises:
`RowsTrue` and `UsersOfTheDay`: a row never has more users of a day than came on it, and
has all of them when it lacks nothing and none of them came again on another day. Bounds:
six diaries, each with what one or two of the statements of a run may miss.

No fairness is assumed in `growth`: its promises are safety.

## 8. Where code and documents disagree

Each is a run that TLC is expected to refute.

- **`orphan`.** The runtime map promises at-least-once delivery
  (`docs/architecture/current_runtime_map.md:71`) and that a stale slot is reclaimed
  (`:56`). A worker that dies with a fresh slot leaves it PROCESSING; its message comes
  back at once, finds the slot younger than `PROCESSING_TTL_SECONDS`, ends as a
  duplicate and is acknowledged. No message is left to reclaim the slot once it is
  stale, and Telegram has had its 200.
- **`renewal`.** An entitlement whose time is over keeps status ACTIVE: nothing
  writes EXPIRED, `get_active_premium_for_update` does not see it, the unique index
  does. A user whose premium ended passes invoice and pre-checkout, is charged, and
  the insert of the new entitlement fails. The rollback takes PAID_UNCREDITED and the
  charge id with it, so neither recovery nor reconciliation can find the payment.
- **`overwrite`.** The architecture asks for `SELECT ... FOR UPDATE` in critical
  transactions (`IMPLEMENTATION_ARCHITECTURE.md:133-135`), and every handler of a duel
  follows, except the list. A list loads an overdue duel; an answer whose clock was read
  before the deadline commits the last round; the list writes its expiry over the result: a
  COMPLETED duel becomes a WALKOVER, points and winner included.
- **`withdrawn`.** The questions of a duel are said to be fixed at its creation and the
  same for both players (`docs/archive/duel_turnier_v2_priority.md:31`,
  `app/bot/texts/de.py:127`). `start_session` looks for the forced question among the
  ACTIVE ones and otherwise selects another: whoever comes after the withdrawal plays a
  different question.
- **`figures`.** The table `analytics_daily` has CHECK constraints that keep its rates
  between 0 and 1 (`app/db/models/analytics_daily.py:78-89`). The job divides counts that
  are not parts of each other: a payment does not stamp `last_seen_at`, and a visit on a
  later day takes the user away from the earlier one, so purchasers may outnumber the
  users of a day; rounds are completed on another day than they are started. The INSERT is
  refused, and with it the whole run, for every hour until that day is no longer counted.

## 9. Proofs

TLAPS checks the theorems below for every set of updates, messages, users,
purchases, codes and redemptions and all values of the limits that the named `ASSUME`s
of the modules allow.

**UpdateIntake.** `TypeCorrect` and `ProcessedMeansAppliedThm` need no assumption on
timing. The second is not inductive: `MarkProcessed` must know that a task that
records a success has had one, so it is strengthened by "`marking_processed` implies
`completed >= 1`". The others assume `~Overrun`. `ActiveOwnsSlot` is the lock: the
row of a task between taking the slot and recording the outcome is PROCESSING, its
own, and fresh. That shuts all three ways of taking the slot, and
`SingleProcessorThm` follows at once, for a row has one owner. `AppliedOncePerLossThm`
counts: a run that ends normally raises `completed` while its outcome is pending; the
outcome is either recorded or moves to `lost`. `OutcomesAccounted` says so and is
inductive with `ActiveOwnsSlot`. `NoSilentDropThm` holds with overruns too. Its invariant
`DropInv` says that Telegram was answered only after a publication, that a task past its
first statement left a row, and that each retry of a task whose update never had a row was
paid for by a failure (`RetriesPaid`); to give up takes more failures than retries, or a broker
that refuses one.

**Purchases.** `TypeCorrect` needs `Counted`: inbox <= charges <= approved <= invoices,
and a purchase waiting for recovery has attempts left. `Booked` joins
`LedgerMatchesStatus` and `GoodsMatchLedger`, of which the second is not inductive
alone: that goods are not handed over again rests on what the status says of the
ledger. Step by step `ContractThm` follows from it. `OneOpenInvoiceThm` needs types,
`ApprovedInvoiceKeptThm` also that an approved invoice has left CREATED and
INVOICE_SENT (`ApprovedIsPast`), `PromoConsistentThm` that a redemption is attached
only once both rows exist (`AttachedExists`). A code is not oversold
(`CodeNotOversoldThm`) because a credit raises `used` only below the limit.
`ActivePremiumPaidThm` and `SaverOncePerWindowThm` rest on `Booked` again; the second
on `SaverWindow`: once a user was credited a saver in the current window, it was one,
the purchase limit is on, and the user has no open saver invoice left, because there
was only one to pay.

`LedgerMatchesStatusThm`, `GoodsMatchLedgerThm`, `ContractThm`, `ActivePremiumPaidThm`
and `SaverOncePerWindowThm` assume `Imported = {}`. With an imported row they are false:
the recovery job catches the validation error of a credit inside its transaction
(`payments_reliability_async.py:114`) and commits what the credit did before it, so that a
PAID_UNCREDITED purchase whose discount has lapsed hands its goods over at each of up to
three attempts (`HandOverWithoutCredit`) and still ends in review. The other theorems
about `Purchases` hold for imported rows too.

**Duel.** `TypeCorrect`, `SeatKeptThm`, `SameQuestionThm` and `StaysOverThm` hold
whoever opens lists. A list writes an old row over the present one, so `TypeInv` also
says that the loaded rows fit: a score is never above the rounds answered, and what
a list writes is the end of a duel.

The others assume `Listing = {}`; with lists, the run `overwrite` is a
counterexample. Their invariant is `RowOK`, which relates the columns of a row:
`finished` is faithful to the rounds answered, a free seat has played nothing, the
status says who has finished (`StatusFits`), and the winner is the one the status allows
(`WinnerFits`). `WinnerEarned` follows from it, and every transaction preserves it
because expiry, seat and answer do, each as a lemma about rows (`StepKinds` says that
a step changes the row in one of these ways). `ScoresFaithfulThm` adds `AskedInTurn`
and `FirstSeated`: a question is asked only when all earlier rounds are answered, so
an answer meets either the next round or one already counted. `KeepsPromiseThm` is the
step simulation on top of both: `AnswerOrQuiet` and `MatchStep` map each kind of step to
one of `Match` or to a stutter.

**Arrivals.** `TypeCorrect` and the three promises, `BonusOnceThm`, `ToldOnceThm`,
`PushedOnceThm`, for any number of users, workers, updates, jobs and faults. What a worker
read of a user before it had the lock must still be so when it commits: `FoundStands`
says that it is, because rows are never deleted and only one worker holds a row. A worker
that has something to tell is the only one and just took the seat (`OneTeller`). For the
pushes, `PushInv` says that what was sent was logged before (`LoggedFirst`), that whoever a
job still has to reach lies ahead of it in the order of ids (`StillAhead`), and counts: the
pushes logged and not sent are those under way and those of a failed step (`FewLost`).
Assumed: ids are positive numbers, the batch is not empty (`LimitsAssumption`).

**Offers.** `TypeCorrect` and the five promises. `NotPestered` looks at three windows while
a selection reads only what is younger than the longest (`MuteFor`, plus one tick): that
the other windows and the rest of the day lie within it is the assumption
`WindowsAssumption`, which the code's 6, 24 and 72 hours satisfy. No time of a row lies ahead
(`Stamped`), and `CapKept` and `Spaced` then follow from what one selection refuses.
`RefusalsKeptThm` needs `RefusalsNoted`: a refusal stays on its row until a later one replaces
it. `AnswerInv` joins "one impression for a key" with "an answer names the impression of
its key"; neither is inductive alone. `CartInv` relates invoices and impressions in both
directions. `FunnelHonestThm` rests on facts about sets of users and rows that hold of any
table.

**Promo.** `TypeCorrect` carries that only requests of the API wait behind the rate limit
(`Waiting`) and that a redemption is one of a code and a user there are (`Known`). `UsesInv`
bounds the column `used_total` from both sides: at least the redemptions that are APPLIED,
at most those that ever were used and were not forgotten. For the limit per user a
reservation has to count as the use it may become (`PerUserInv`), or its payment would need
room that a second redemption may have taken. `GrantsInv` gives each redemption a set of
days of its own, so that the premium of a user is the size of a union. `GuessesSlowThm`
is about each attempt and those before it (`SlowAt`); what `Limited` answers for the newest
one is what has to hold. `MadeInv` says that since any moment there were as many accepted
attempts as redemptions, which is what every window of the dashboard needs. `OverIsOver` is
the step property, and `PromoHoldsThm` puts all of them together. Assumed: a plot offers
texts, codes and patches of the right type (`PlotsAssumption`), and the rate limit is not
zero (`AttemptsAssumption`).

**Referrals.** `TypeCorrect` carries what the columns of a row say together (`Fits`): a row
counts exactly when it has a time of qualification, is rewarded exactly when it has a time
of reward, and was announced only if it counts. `RewardsFairThm` turns on the order of the
qualified referrals: every `PerReward`-th is an anchor, and it must stay one after its
reward was paid although others qualify later. It does because of the delay: an anchor that
was paid, or is due, qualified before today, and `Qualify` adds only rows of today
(`QualifyAnchors`); a reviewer can not take out a row that counts (`KindsOfStep`: what is
neither a qualification, a payment nor the end of a day is `Quiet`). Groups are then counted
by an injection of the anchors into the multiples of `PerReward` (`Groups`). `RewardInv`
counts the rewards of every month, not of those within the bounds only. `OverviewHonestThm`
states both ways in which the screen of a host and the answer to his claim agree: with the
premium of the host in order they are the same, with an ended one the button is there and the claim
fails. It needs `NotedInv`: what was announced this month and is not paid is among the due anchors
that find room in it. A claim takes the first of them and one place of the month, so that
all others move up by one (`RanksMoveUp`, `ClaimDue`); what becomes due overnight comes
after them (`TomorrowNoted`). `StartsBoundedThm` counts rows and starts under way together
(`StartsInv`), `WatchSoundThm` needs that no announcement is taken back (`Lasting`).
Assumed: a reward takes at least one tick and one referral, a month one tick, a day allows
one start, and the alert on one host needs at least one rejected referral
(`RewardsAssumption`); links name hosts (`TalesAssumption`).

**Lobby.** `LobbyInv` has seven parts. `TableInv`: rows are made before now, and nobody was
given back tickets he never had. `HandsInv`: whoever is in the middle of a rematch plays the
duel he pressed, and both of its seats are taken. `SeriesInv`: a series bears the number of
the row that opened it, and its games are numbered without a gap. `CountsInv` is
`TicketsCover` for every day there will ever be, and not only for those on which a duel was
made. `CountedInv`: every push that arrived is counted on its row. `NoticesInv` is about the messages
outside the quota: nothing is told of a duel before its row is there, its end is told when it is over,
and once, since a duel that is over is never overdue again (`ToldStep` lists the steps that
tell anything). `WaitsInv`: nobody has two
open invitations without an opponent. The work is in `RowsStep`: every action keeps the rows
(`Keeps`: creator, access, series and time never change, counters of pushes never fall) and
adds one at most, which its creator may afford (`Affords`) and which stands alone, opens a
series or continues one. Each part of the invariant is then shown once for `RowsStep` and not
for each action. `NextGame` continues a series correctly because `FinishSource` counts the
games again under the lock of all of them. Assumed: limits are numbers, a series has a game
(`LobbyLimits`); the duels a story begins with took no ticket and no push (`StoriesPossible`).

**TourMessages.** `MailInv` is about who pays. For each player `LoadInv` balances the boards
that stand in the chat, together with those that tasks under way may still send, against
deaths, overlaps and failures: one is free, one more while some task knows a board that it can
edit (`Edits`), and one less once a board was sent that nobody will store (`Gone`) or the one
that stands is known to nobody (`Kept`). Each step changes both sides alike: a task that starts
while another is under way is an overlap, one that ends without storing what it sent is a death or
a failure. `IdsInv` says that an id waiting to be stored was sent and is known to one
worker alone; `StageInv` that no board is written before the first round. `CardsInv`,
`PushesInv` and `NudgesInv` are the same idea for the cup's cards, the pushes and the
reminders: a push is stored in the transaction of its claim, so that only a death between the
message and the commit doubles it; a reminder is stamped before it is sent, so that those sent and
those under way are never more than the rounds and the stamps that lapsed (`Due`). Assumed: sets of
players and workers are finite and numbered (`MailLimits`).

**Figures.** A run counts a day in four statements over rows that change in between. `CountsInv`
says that what a run has counted so far equals a count over the present rows unless the day is
noted as `behind`; every event of the day, committed while a run counts it, makes it so.
`RowsInv` says the same of the rows once written, `SeenInv` that whoever was last seen on a day
came on it. Deleting events must not disturb a count: `EventsInv` says that whatever was deleted
is older than the cutoff, and every day that a run still counts is younger. That is where the
assumption `FiguresLimits` is needed: `2 * DaysBack + RunTicks <= RetainTicks + 1`, which says
that events are kept until the last run that counts their day has ended (a day is two ticks); the
deployment keeps them for 90 days and counts two.

**QuestionBank.** `BankInv` has five parts besides types. `PoolsInv` is `PoolsCurrent`, and
its reverse: the rows that were stamped by the watermark of a pool and committed after its
refresh are among `overtaken`. Without it a refresh could not be shown to find all others.
`WorkInv` says what a worker carries from one statement to the next (a chosen id, a set of the
day it has built, from rows of its own mode or from the one question to fall back on, the rounds of
a plan so far). `AnswersInv`: whatever was asked was in the bank
then, and is there now or was deleted; and as long as no import was committed the question of
the day is `DayAnswer`, a function of the table alone: that is why all users get the same,
however many workers build the set at once. For the fallback this takes that all pools agree with the
table as long as nothing was imported. `DayInv`: the stored set is empty or the one
the table gives. `PlansInv` is `PlanVaried`. `SelectHolds` and `ResolvedHolds` are the lemmas
about a choice: what is returned is in the pool, and it was asked of late only when everything
was. The set of the day is defined by the choice of a sequence with certain properties; that there is one
follows from a least counterexample among its prefixes (`PrefixPossible`), since induction over
sequences is not available. Assumed: levels are numbered from the easiest on (`BankLimits`),
and a deck begins with a table whose rows were all committed before (`DecksPossible`).

**QuizSession, Energy.** `EnergyCoversThm` and `QuizStepThm`, under `QuizLimits` (settings are
numbers, a day has an interval, a learner begins with some energy). `LearnerInv` says why
`EnergyCovers` holds at every moment: what was paid and what is left is at most what was given up
to the two anchors of the tank, `regenAt` and `topup`, and these never run ahead of the clock
(`TankInv`). The rule of a tank is one lemma: a sync gives no more than its anchors move
(`SyncGives`), so that a second sync, or one with a clock that is late, gives nothing. A
start can take energy only from a tank that its own transaction has just synced
(`SyncedTo`), hence what is counted as taken is exactly one unit or none (`ConsumeKinds`,
`StartsFromMenu`). `ChargesInv` says that a key that was charged has its session, from which
"once for a key" follows, as sessions are never deleted (`Carries`). Everything else that
handlers do is a `FreeStep`: it leaves the tank, and every completed run, as they are.

`LobbySoundThm`, `MailSoundThm`, `ArrivalsSoundThm`, `FiguresSoundThm`, `BankSoundThm`,
`OffersSoundThm`, `PromoHoldsThm` and `ReferralsSoundThm` are, for all constants, what the
runs `games` and `growth` check in the scenes of these modules.

Two definitions were corrected by their proofs. In `TourMessages`, the arms of the CASE in
`Refused` overlapped, so that which of them applies was left to the checker. In `Figures`,
`UsersOfTheDay` compared the users of a row only where it was exact; that a row never has more
users than came holds of every row, and the property now says so.

**Model-checked only.** `EveryUpdateDecided`, `JoinedDuelEnds`, `RecoverySettles`,
`ReservationsSettle`, `InvoicesSettle`, `TourEnds` and `ResultSeen` are liveness under
fairness, which the prover does not reach. Of `QuizHolds`, `EnergyCovers` and `QuizStep` are
proved; `DailyRunSound` and `LevelsEarned` count what an insertion into a sequence leaves
(`InsertAttempt`, with `SelectSeq`), and `MissedDaysPaid` what a fold over days has settled: each needs induction
over data. So does `TotalsMatchGames` of `Tournament`, a sum over a set that grows, and with it
`TourHolds`.

## 10. Not modelled

- Wording, layout, keyboards, the drawing of images; routing of alerts; the many kinds
  of analytics events, of which `Figures` has one.
- The console's login, sessions and roles, its lists of users and of content, health
  checks: they read, or edit single rows.
- Tools that prepare and audit question files, scripts that simulate or measure.
- Reconciliation, which only reads, and whose diff is `LedgerMatchesStatus`;
  `run_refund_promo_rollback`, which finds no row because the refund has revoked the
  redemption already.
- Deadlocks inside PostgreSQL between whole transactions. Where an action is a
  transaction, the database aborts one, which then has not run. `Lobby` and `Tournament`
  split the transactions whose lock order differs and let the database end one of them;
  for promo codes and purchases this is left to the plan.
- Limits of a job's batch: `list_started_for_qualification`
  (`referrals_queries.py:64`) looks at the oldest 200 referrals only, so that more than
  that many undecided ones could keep newer ones waiting.

Met while reading, not stated as properties because no document says otherwise: messages
about a reward or a deadline are lost when the worker dies after the commit; a creation
or a rematch that is handled again makes another duel while the limits allow it; when
Telegram refuses the proof card of the creator, the opponent gets none; the failed attempt of a new user
at a promo code leaves no trace, for its row refers to a user that is rolled back.

## 11. Plan

Done: every component of section 1 has its module. Next:

1. Proofs: `RoundsWhole` of `Tournament`, which speaks of one match at a time; it rests on
   the pairing, whose search is a choice over permutations.
2. Refinement: `Tournament` plays each match in one answer; show that a duel of a match
   (`Match`) implements that answer.
3. `LockOrder`: the row locks of redeem, purchase, refund and recovery as waits-for.
4. A scene in which four players play a tournament, if it can be made to fit; so far only its
   pairing is checked (`EveryDrawFair`).

## 12. Running

```
tlc -workers 2 -config UpdateIntake_slot.cfg MCUpdateIntake
tlc -workers 2 -config UpdateIntake_live.cfg MCUpdateIntake
tlc -workers 2 -config UpdateIntake_orphan.cfg MCUpdateIntake    # violated
tlc -workers 2 -config Purchases_core.cfg MCPurchases
tlc -workers 2 -config Purchases_recovery.cfg MCPurchases
tlc -workers 2 -config Purchases_renewal.cfg MCPurchases         # violated
tlc -workers 2 -config Duel_play.cfg MCDuel
tlc -workers 2 -config Duel_overwrite.cfg MCDuel                 # violated
tlc -workers 2 -config Duel_withdrawn.cfg MCDuel                 # violated
tlc -workers 2 -config Games.cfg MCGames
tlc -workers 2 -config Growth.cfg MCGrowth
tlc -workers 2 -config Figures_rates.cfg MCFigures               # violated
tlapm UpdateIntakeProofs.tla
tlapm PurchasesProofs.tla
tlapm DuelProofs.tla
tlapm GamesProofs.tla
tlapm GrowthProofs.tla
tlapm OffersProofs.tla
tlapm PromoProofs.tla
tlapm ReferralsProofs.tla
```

The longest runs (`games`, `growth`) take up to three minutes, the longest proofs some
minutes.
