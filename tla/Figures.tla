-------------------------------- MODULE Figures --------------------------------
(***************************************************************************)
(* The figures of a day: what users do, the hourly jobs that count it into *)
(* a row per day, and the cleanup that deletes old events.                 *)
(*                                                                         *)
(* A job counts today and the days before it in one transaction, but one   *)
(* statement at a time: each statement sees what was committed before it.  *)
(* A handler reads its clock before it commits.  One tick is half a day.   *)
(***************************************************************************)
EXTENDS Naturals, Sequences, FiniteSets

CONSTANTS
  Regulars,    \* users
  DaysBack,    \* days_back of the jobs
  RunTicks,    \* bound: a run of a job takes no longer
  RetainTicks, \* retention_analytics_events_days
  SweepBatch,  \* retention_cleanup_batch_size
  Diaries,     \* bounds: what may happen in one behaviour
  Unseen       \* NULL

Tables == {"analytics_daily", "daily_metrics"}

\* A deployment keeps events until the last count of their day is over.
ASSUME FiguresLimits ==
  /\ IsFiniteSet(Regulars) /\ DaysBack \in Nat \ {0} /\ RunTicks \in Nat
  /\ RetainTicks \in Nat /\ 2 * DaysBack + RunTicks <= RetainTicks + 1
  /\ SweepBatch \in Nat /\ Unseen \notin Nat

ASSUME DiariesPossible ==
  Diaries \subseteq [end : Nat, visits : Nat, games : Nat, sales : Nat, events : Nat,
                     late : BOOLEAN, dies : BOOLEAN, jobs : Seq(Tables)]

VARIABLES
  stamp,     \* ticks
  seen,      \* last_seen_at, by user
  games,     \* quiz_sessions
  sales,     \* purchases
  kept,      \* analytics_events, by id
  counts,    \* runs of the jobs
  figures,   \* rows of analytics_daily and daily_metrics, by table and day
  diary,     \* the bounds of this behaviour

\* History, never read by an action.
  happened,  \* events ever stored
  visited,   \* who came, by day
  refusals   \* runs the database refused

figVars == <<stamp, seen, games, sales, kept, counts, figures, diary, happened, visited, refusals>>

Day(t) == t \div 2
Dates == 0..Day(diary.end)
Off == [at |-> "OFF"]

GameRows == [user : Regulars, from : Nat, to : Nat \cup {Unseen}]
SaleRows == [user : Regulars, paid : Nat, at : Nat, status : {"PAID_UNCREDITED", "CREDITED", "REFUNDED"}]
EventRows == [at : Nat, made : Nat]
DayRows == [dau : Nat, sold : Nat, begun : Nat, completed : Nat, events : Nat]

\* A run under way: the days still to count, the row of the first of them as far as it is
\* counted, the rows it wrote, and the days something was committed of since it began.
Runs(wrote) ==
  [at : {"ACTIVE", "SALES", "GAMES", "EVENTS", "STORE", "COMMIT"}, table : Tables, since : Nat,
   left : Seq(Nat), behind : SUBSET Nat, wrote : [wrote -> DayRows],
   row : {<<>>} \cup [dau : Nat] \cup [dau : Nat, sold : Nat] \cup [dau : Nat, sold : Nat, begun : Nat] \cup DayRows]

FiguresTypeOK ==
  /\ \E d \in Diaries : diary = [d EXCEPT !.visits = diary.visits] /\ diary.visits \in 0..d.visits
  /\ stamp \in 0..diary.end
  /\ seen \in [Regulars -> 0..diary.end]
  /\ games \in Seq(GameRows) /\ sales \in Seq(SaleRows)
  /\ \A g \in DOMAIN games : games[g].from <= stamp /\ (games[g].to = Unseen \/ games[g].to \in games[g].from..stamp)
  /\ happened \in Seq(EventRows)
  /\ DOMAIN kept \subseteq DOMAIN happened
  /\ DOMAIN figures \subseteq Tables \X Dates
  /\ \A k \in DOMAIN figures : figures[k] \in [row : DayRows, behind : BOOLEAN]
  /\ DOMAIN counts = DOMAIN diary.jobs
  /\ \A j \in DOMAIN counts : counts[j] = [at |-> "WAITS"] \/ counts[j] = Off
                            \/ counts[j] \in Runs(DOMAIN counts[j].wrote)
  /\ visited \in [Dates -> SUBSET Regulars]

FiguresInit ==
  /\ diary \in Diaries
  /\ stamp = 0
  /\ seen = [u \in Regulars |-> 0]
  /\ games = <<>> /\ sales = <<>> /\ kept = <<>>
  /\ counts = [j \in DOMAIN diary.jobs |-> [at |-> "WAITS"]]
  /\ figures = <<>>
  /\ happened = <<>>
  /\ visited = [d \in Dates |-> IF d = 0 THEN Regulars ELSE {}]
  /\ refusals = 0

-----------------------------------------------------------------------------
(* What users do. *)

\* A handler may read its clock a tick before it commits.
Clocks == {t \in {stamp, stamp - 1} : t >= 0 /\ (t = stamp \/ diary.late)}

\* A change of these days: rows and running counts that saw less are behind.
Changes(days) ==
  /\ figures' = [k \in DOMAIN figures |-> [figures[k] EXCEPT !.behind = @ \/ k[2] \in days]]
  /\ counts' = [j \in DOMAIN counts |->
       IF "behind" \in DOMAIN counts[j] THEN [counts[j] EXCEPT !.behind = @ \cup days] ELSE counts[j]]

\* A handler that shows the home snapshot stamps last_seen_at: the day the user
\* came before loses them.
Comes(u, t) ==
  /\ seen' = [seen EXCEPT ![u] = t]
  /\ visited' = [visited EXCEPT ![Day(t)] = @ \cup {u}]

DaysOf(u, t) == {Day(t), Day(seen[u])}

Visit(u, t) ==
  /\ diary.visits > 0
  /\ diary' = [diary EXCEPT !.visits = @ - 1]
  /\ Comes(u, t) /\ Changes(DaysOf(u, t))
  /\ UNCHANGED <<stamp, games, sales, kept, happened, refusals>>

StartQuiz(u, t) ==
  /\ Len(games) < diary.games
  /\ games' = Append(games, [user |-> u, from |-> t, to |-> Unseen])
  /\ Comes(u, t) /\ Changes(DaysOf(u, t))
  /\ UNCHANGED <<stamp, sales, kept, diary, happened, refusals>>

CompleteQuiz(g, t) ==
  /\ games[g].to = Unseen /\ t >= games[g].from
  /\ games' = [games EXCEPT ![g].to = t]
  /\ Comes(games[g].user, t) /\ Changes(DaysOf(games[g].user, t))
  /\ UNCHANGED <<stamp, sales, kept, diary, happened, refusals>>

\* The money arrives, which stamps nothing; the goods follow, at once or through
\* the recovery job.
MoneyArrives(u, t) ==
  /\ Len(sales) < diary.sales
  /\ \E now \in {"PAID_UNCREDITED", "CREDITED"} :
       sales' = Append(sales, [user |-> u, paid |-> t, at |-> t, status |-> now])
  /\ Changes({Day(t)})
  /\ UNCHANGED <<stamp, seen, games, kept, diary, happened, visited, refusals>>

CreditLater(s) ==
  /\ sales[s].status = "PAID_UNCREDITED"
  /\ sales' = [sales EXCEPT ![s].status = "CREDITED", ![s].at = stamp]
  /\ Changes({Day(stamp), Day(sales[s].paid)})
  /\ UNCHANGED <<stamp, seen, games, kept, diary, happened, visited, refusals>>

Refund(s) ==
  /\ sales[s].status \in {"CREDITED", "PAID_UNCREDITED"}
  /\ sales' = [sales EXCEPT ![s].status = "REFUNDED"]
  /\ Changes({Day(sales[s].at), Day(sales[s].paid)})
  /\ UNCHANGED <<stamp, seen, games, kept, diary, happened, visited, refusals>>

\* created_at is the database's clock, happened_at the handler's.
EmitEvent(t) ==
  LET id == Len(happened) + 1
      event == [at |-> t, made |-> stamp]
  IN /\ Len(happened) < diary.events
     /\ happened' = Append(happened, event)
     /\ kept' = [i \in DOMAIN kept \cup {id} |-> IF i = id THEN event ELSE kept[i]]
     /\ Changes({Day(t)})
     /\ UNCHANGED <<stamp, seen, games, sales, diary, visited, refusals>>

-----------------------------------------------------------------------------
(* The statements of a count, over the rows as they are. *)

Active(d) == Cardinality({u \in Regulars : Day(seen[u]) = d})

CreditedOn(d) == {s \in DOMAIN sales : sales[s].status = "CREDITED" /\ Day(sales[s].at) = d}
PaidOn(d) == {s \in DOMAIN sales : sales[s].status # "REFUNDED" /\ Day(sales[s].paid) = d}

\* Purchasers, or the purchases of the other table.
Sold(table, d) ==
  IF table = "daily_metrics" THEN Cardinality(PaidOn(d))
  ELSE Cardinality({sales[s].user : s \in CreditedOn(d)})

Begun(d) == Cardinality({g \in DOMAIN games : Day(games[g].from) = d})
Completed(table, d) ==
  IF table = "daily_metrics" THEN 0
  ELSE Cardinality({g \in DOMAIN games : games[g].to # Unseen /\ Day(games[g].to) = d})
CountEvents(table, events, d) ==
  IF table = "daily_metrics" THEN 0
  ELSE Cardinality({i \in DOMAIN events : Day(events[i].at) = d})

\* CHECK: purchase_rate and gameplay_completion_rate are at most 1; a rate of
\* nothing is 0.
Fits(table, row) ==
  \/ table = "daily_metrics"
  \/ /\ row.dau = 0 \/ row.sold <= row.dau
     /\ row.begun = 0 \/ row.completed <= row.begun

Begin(j, days) ==
  /\ counts[j].at = "WAITS"
  /\ counts' = [counts EXCEPT ![j] =
       [at |-> "ACTIVE", table |-> diary.jobs[j], since |-> stamp, left |-> days,
        row |-> <<>>, wrote |-> <<>>, behind |-> {}]]
  /\ UNCHANGED <<stamp, seen, games, sales, kept, figures, diary, happened, visited, refusals>>

\* A job counts today and the days before it.
BeginJob(j) ==
  LET today == Day(stamp)
      many == IF DaysBack < today + 1 THEN DaysBack ELSE today + 1
  IN Begin(j, [i \in 1..many |-> today + 1 - i])

\* The dashboard counts today, if there is no row yet.
AskDashboard(j) ==
  /\ diary.jobs[j] = "analytics_daily"
  /\ \A k \in DOMAIN figures : k[1] # "analytics_daily"
  /\ Begin(j, <<Day(stamp)>>)

Count(j, from, to, row) ==
  /\ counts[j].at = from
  /\ counts' = [counts EXCEPT ![j].at = to, ![j].row = row]
  /\ UNCHANGED <<stamp, seen, games, sales, kept, figures, diary, happened, visited, refusals>>

\* One statement after the other.
CountStep(j) ==
  LET c == counts[j]  d == Head(c.left) IN
  \/ Count(j, "ACTIVE", "SALES", [dau |-> Active(d)])
  \/ Count(j, "SALES", "GAMES", [dau |-> c.row.dau, sold |-> Sold(c.table, d)])
  \/ Count(j, "GAMES", "EVENTS", [dau |-> c.row.dau, sold |-> c.row.sold, begun |-> Begun(d)])
  \/ Count(j, "EVENTS", "STORE",
           [dau |-> c.row.dau, sold |-> c.row.sold, begun |-> c.row.begun,
            completed |-> Completed(c.table, d), events |-> CountEvents(c.table, kept, d)])

Waiting(j, key) ==
  \E i \in DOMAIN counts : i # j /\ counts[i].at # "OFF" /\ counts[i].at # "WAITS" /\ key \in DOMAIN counts[i].wrote

\* ON CONFLICT DO UPDATE, under the lock of the row until the commit.
UpsertDaily(j) ==
  LET c == counts[j]
      key == <<c.table, Head(c.left)>>
      new == [k \in DOMAIN c.wrote \cup {key} |-> IF k = key THEN c.row ELSE c.wrote[k]]
  IN /\ c.at = "STORE"
     /\ Fits(c.table, c.row) => ~Waiting(j, key)
     /\ IF Fits(c.table, c.row)
        THEN /\ counts' = [counts EXCEPT ![j] =
                  [c EXCEPT !.wrote = new, !.left = Tail(c.left), !.row = <<>>,
                            !.at = IF Len(c.left) = 1 THEN "COMMIT" ELSE "ACTIVE"]]
             /\ UNCHANGED refusals
        ELSE /\ counts' = [counts EXCEPT ![j] = Off]
             /\ refusals' = refusals + 1
     /\ UNCHANGED <<stamp, seen, games, sales, kept, figures, diary, happened, visited>>

CommitCount(j) ==
  LET c == counts[j]
      stored(k) == [row |-> c.wrote[k], behind |-> k[2] \in c.behind]
  IN /\ c.at = "COMMIT"
     /\ figures' = [k \in DOMAIN figures \cup DOMAIN c.wrote |->
                      IF k \in DOMAIN c.wrote THEN stored(k) ELSE figures[k]]
     /\ counts' = [counts EXCEPT ![j] = Off]
     /\ UNCHANGED <<stamp, seen, games, sales, kept, diary, happened, visited, refusals>>

CountDies(j) ==
  /\ diary.dies /\ counts[j].at \notin {"WAITS", "OFF"}
  /\ counts' = [counts EXCEPT ![j] = Off]
  /\ UNCHANGED <<stamp, seen, games, sales, kept, figures, diary, happened, visited, refusals>>

-----------------------------------------------------------------------------
(* The cleanup. *)

\* A mutant of Cutoff: as if nothing were to be retained.
CutoffNow == stamp

Cutoff == IF stamp > RetainTicks THEN stamp - RetainTicks ELSE 0

\* One batch, the oldest first.
DeleteEvents ==
  LET old == {i \in DOMAIN kept : kept[i].made < Cutoff} IN
  \E gone \in SUBSET old :
     /\ gone # {}
     /\ Cardinality(gone) <= SweepBatch /\ (Cardinality(gone) < SweepBatch => gone = old)
     /\ \A i \in gone, k \in old \ gone : i < k
     /\ kept' = [i \in DOMAIN kept \ gone |-> kept[i]]
     /\ UNCHANGED <<stamp, seen, games, sales, counts, figures, diary, happened, visited, refusals>>

Later ==
  /\ stamp < diary.end
  /\ \A j \in DOMAIN counts :
       counts[j].at \notin {"WAITS", "OFF"} => stamp - counts[j].since < RunTicks
  /\ stamp' = stamp + 1
  /\ UNCHANGED <<seen, games, sales, kept, counts, figures, diary, happened, visited, refusals>>

FiguresNext ==
  \/ \E u \in Regulars, t \in Clocks : Visit(u, t) \/ StartQuiz(u, t) \/ MoneyArrives(u, t)
  \/ \E g \in DOMAIN games, t \in Clocks : CompleteQuiz(g, t)
  \/ \E s \in DOMAIN sales : CreditLater(s) \/ Refund(s)
  \/ \E t \in Clocks : EmitEvent(t)
  \/ \E j \in DOMAIN counts :
       \/ BeginJob(j) \/ AskDashboard(j)
       \/ CountStep(j) \/ UpsertDaily(j) \/ CommitCount(j) \/ CountDies(j)
  \/ DeleteEvents \/ Later

FiguresSpec == FiguresInit /\ [][FiguresNext]_figVars

-----------------------------------------------------------------------------
(* Properties. *)

\* A row equals a count over everything that ever happened, unless something of
\* its day was committed after its run began: whatever runs overlap, fail or
\* die, and although the cleanup deletes events meanwhile.
RowsTrue ==
  \A k \in DOMAIN figures :
    LET r == figures[k].row IN
    ~figures[k].behind =>
      /\ r.dau = Active(k[2]) /\ r.sold = Sold(k[1], k[2])
      /\ r.begun = Begun(k[2]) /\ r.completed = Completed(k[1], k[2])
      /\ r.events = CountEvents(k[1], happened, k[2])

\* The users of a day: no more than came on it, and all who came in a row that
\* lacks nothing, while none of them came again on another day.
UsersOfTheDay ==
  \A k \in DOMAIN figures :
    LET r == figures[k].row IN
    /\ r.dau <= Cardinality(visited[k[2]])
    /\ ~figures[k].behind /\ (\A u \in visited[k[2]] : Day(seen[u]) = k[2])
       => r.dau = Cardinality(visited[k[2]])

\* What the operators are promised about the rows of a day.
FiguresSound == FiguresTypeOK /\ RowsTrue /\ UsersOfTheDay

\* app/db/models/analytics_daily.py:78-89, the rates lie between 0 and 1: no count
\* of the jobs is refused.
RatesAreRates == refusals = 0
=============================================================================
