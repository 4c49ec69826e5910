----------------------------- MODULE QuestionBank -----------------------------
(***************************************************************************)
(* Which question is asked: the table of questions and its import, the     *)
(* pools each worker process caches, the set of the day, and the plan of a *)
(* duel.                                                                   *)
(*                                                                         *)
(* A worker handles one update at a time, but the import and the other     *)
(* workers commit between the statements of one choice: the pool is read   *)
(* (or was, within CacheTime), then the row.  The import stamps its rows   *)
(* while it reads the files and commits later.                             *)
(***************************************************************************)
EXTENDS Naturals, Sequences, FiniteSets, SequencesExt

CONSTANTS
  Staff,           \* worker processes
  MixMode,         \* QUICK_MIX_A1A2: asks every eligible question, of any file
  BankLevels,      \* DAILY_LEVEL_CHAIN, 1..n
  PositionLevels,  \* DAILY_POSITION_PREFERRED_LEVELS: a level per position
  CacheTime,       \* quiz_question_pool_cache_ttl_seconds
  Decks,           \* bounds: what may happen in one behaviour
  Nobody           \* NULL

Static == 0   \* a question of the built-in bank
QuestionIds == Nat \ {Static}

AnyLevel == BankLevels \cup {0}   \* no preference; a level of an id is never 0

QuestionRow == [mode : STRING, level : BankLevels, mix : BOOLEAN, kind : STRING, at : Nat, no : Nat]
BankTable(t) == IsFiniteSet(DOMAIN t) /\ DOMAIN t \subseteq QuestionIds /\ t \in [DOMAIN t -> QuestionRow]

\* A demand: mode, preferred levels (one or AnyLevel), levels allowed instead
\* ({} or some), questions asked of late.
Demand(d) ==
  /\ d \in [mode : STRING, levels : SUBSET AnyLevel, allowed : SUBSET BankLevels, recent : {d.recent}]
  /\ d.recent \subseteq QuestionIds /\ IsFiniteSet(d.recent)

\* Levels are numbered from the easiest on.
ASSUME BankLimits ==
  /\ MixMode \in STRING /\ IsFiniteSet(BankLevels) /\ BankLevels = 1..Cardinality(BankLevels)
  /\ PositionLevels \in Seq(BankLevels) /\ CacheTime \in Nat /\ Nobody \notin Nat

ASSUME DecksPossible ==
  \A d \in Decks :
    /\ d.end \in Nat \ {0} /\ d.commits \in Nat /\ d.asked \in Nat /\ d.graded \in BOOLEAN
    /\ BankTable(d.bank) /\ \A q \in DOMAIN d.bank : d.bank[q].at = 0 /\ d.bank[q].no = 0
    /\ \A b \in d.batches : BankTable(b.rows) /\ b.replace \in BOOLEAN
    /\ \A e \in d.demands : Demand(e)
    /\ d.seeds \subseteq Nat
    /\ d.lot \in Nat /\ d.dice \in [DOMAIN PositionLevels -> Nat] /\ d.positions \subseteq DOMAIN PositionLevels
    /\ d.rounds \in Seq(BankLevels) /\ d.duelMode \in STRING

VARIABLES
  second,       \* ticks
  bank,         \* rows of quiz_questions, all ACTIVE, by id
  import,       \* rows read by the import tool and not yet committed
  pools,        \* _QUESTION_POOL_CACHE of each worker
  asking,       \* the update each worker handles
  today7,       \* question ids of the day, or <<>>
  deck,         \* the bounds of this behaviour

\* History, never read by an action.
  commits,      \* how many imports were committed
  overtaken,    \* what a pool cannot notice: stamped before its watermark
  asked,        \* the questions asked
  plans,        \* the plans of duels
  renewed,      \* how often a set was replaced by an update that could see it
  graded,       \* the questions the answers were graded against
  deleted       \* ids an import deleted

bankVars ==
  <<second, bank, import, pools, asking, today7, deck, commits, overtaken, asked, plans, renewed, graded, deleted>>

Belongs(row, mode, levels) ==
  /\ IF mode = MixMode THEN row.mix ELSE row.mode = mode
  /\ levels = AnyLevel \/ row.level \in levels

Matching(rows, mode, levels) == {q \in DOMAIN rows : Belongs(rows[q], mode, levels)}

Scopes == {d.mode : d \in deck.demands} \cup {MixMode}

Idle == [do |-> "IDLE"]

\* What a worker remembers between two statements: of a choice, of the set of the
\* day, of the plan of a duel.
Fetching(a) ==
  /\ a \in [do : {"FETCH"}, demand : deck.demands, n : deck.seeds, id : Nat \cup {Nobody},
            of : SUBSET QuestionIds, again : BOOLEAN]
  /\ IsFiniteSet(a.of)
OpeningDay ==
  [do : {"DAILY"}, position : deck.positions, seen : {<<>>} \cup [DOMAIN PositionLevels -> Nat],
   unseen : BOOLEAN, built : [DOMAIN PositionLevels -> Nat]]
Planning == [do : {"PLAN"}, ids : Seq(Nat), left : Seq(Nat)]

PoolOK(pool) ==
  /\ pool \in [ids : SUBSET QuestionIds, at : 0..second, mark : 0..second, no : 0..commits]
  /\ IsFiniteSet(pool.ids)

BankTypeOK ==
  /\ deck \in Decks
  /\ second \in 0..deck.end /\ commits \in Nat
  /\ BankTable(bank) /\ \A q \in DOMAIN bank : bank[q].at <= second /\ bank[q].no <= commits
  /\ \/ import = Nobody
     \/ /\ import \in [rows : {import.rows}, replace : BOOLEAN]
        /\ BankTable(import.rows) /\ \A q \in DOMAIN import.rows : import.rows[q].at <= second
  /\ DOMAIN pools = Staff /\ DOMAIN asking = Staff
  /\ \A w \in Staff : \A key \in DOMAIN pools[w] :
       key \in Scopes \X SUBSET AnyLevel /\ PoolOK(pools[w][key])
  /\ today7 \in {<<>>} \cup [DOMAIN PositionLevels -> Nat]
  /\ \A w \in Staff : asking[w] = Idle \/ Fetching(asking[w]) \/ asking[w] \in OpeningDay \cup Planning

BankInit ==
  /\ deck \in Decks
  /\ second = 1
  /\ bank = deck.bank
  /\ import = Nobody
  /\ pools = [w \in Staff |-> <<>>]
  /\ asking = [w \in Staff |-> Idle]
  /\ today7 = <<>>
  /\ commits = 0 /\ overtaken = {} /\ asked = <<>> /\ plans = {} /\ renewed = 0 /\ graded = {} /\ deleted = {}

-----------------------------------------------------------------------------
(* The import tool. *)

\* Files are read, checked and stamped: a bad row refuses them all.
BuildRecords ==
  /\ import = Nobody
  /\ \E batch \in deck.batches :
       /\ DOMAIN batch.rows # {}
       /\ import' = [rows |-> [q \in DOMAIN batch.rows |-> [batch.rows[q] EXCEPT !.at = second]],
                     replace |-> batch.replace]
  /\ UNCHANGED <<second, bank, pools, asking, today7, deck, commits, overtaken, asked, plans, renewed, graded, deleted>>

PersistRecords ==
  LET new == import.rows
      kept == IF import.replace THEN {} ELSE DOMAIN bank \ DOMAIN new
      late(w) == {key \in DOMAIN pools[w] :
                    \E q \in DOMAIN new : new[q].at <= pools[w][key].mark}
  IN /\ import # Nobody
     /\ commits < deck.commits
     /\ commits' = commits + 1
     /\ bank' = [q \in kept \cup DOMAIN new |->
                   IF q \in DOMAIN new THEN [new[q] EXCEPT !.no = commits + 1] ELSE bank[q]]
     /\ import' = Nobody
     /\ deleted' = deleted \cup (DOMAIN bank \ (kept \cup DOMAIN new))
     /\ overtaken' = overtaken \cup
          UNION {{<<w, key, q>> : key \in late(w), q \in DOMAIN new} : w \in Staff}
     /\ UNCHANGED <<second, pools, asking, today7, deck, asked, plans, renewed, graded>>

-----------------------------------------------------------------------------
(* The cached pools. *)

FullPool(mode, levels) ==
  [ids |-> Matching(bank, mode, levels), at |-> second, mark |-> second, no |-> commits]

StampedSince(pool) == {q \in DOMAIN bank : bank[q].at > pool.mark}

\* A mutant of RefreshedPool: a question that left the pool stays in it.
RefreshedOnlyAdds(pool, mode, levels) ==
  LET changes == StampedSince(pool) IN
  [ids |-> pool.ids \cup {q \in changes : Belongs(bank[q], mode, levels)},
   at |-> second, mark |-> Max({pool.mark} \cup {bank[q].at : q \in changes}), no |-> commits]

\* Rows stamped after the watermark; a deleted row has no stamp to be seen by.
RefreshedPool(pool, mode, levels) ==
  LET changes == StampedSince(pool) IN
  [ids |-> (pool.ids \ changes) \cup {q \in changes : Belongs(bank[q], mode, levels)},
   at |-> second, mark |-> Max({pool.mark} \cup {bank[q].at : q \in changes}), no |-> commits]

Pool(cache, mode, levels) ==
  LET key == <<mode, levels>> IN
  IF key \notin DOMAIN cache THEN FullPool(mode, levels)
  ELSE IF cache[key].at + CacheTime >= second THEN cache[key]
  ELSE RefreshedPool(cache[key], mode, levels)

Stored(cache, key, pool) ==
  [k \in DOMAIN cache \cup {key} |-> IF k = key THEN pool ELSE cache[k]]

-----------------------------------------------------------------------------
(* Choosing from a pool.  n stands for the hash of the seed.               *)

\* The place of q in the list of ids, and how far it is behind the seed's place.
PlaceOf(ids, q) == Cardinality({r \in ids : r < q})
Distance(ids, n, q) == (PlaceOf(ids, q) + Cardinality(ids) - (n % Cardinality(ids))) % Cardinality(ids)

\* A mutant of PickFromPool: the search does not go round.
PickToTheEnd(ids, excluded, n) ==
  LET ahead == {q \in ids \ excluded : PlaceOf(ids, q) >= n % Cardinality(ids)} IN
  IF ahead = {} THEN Nobody ELSE CHOOSE q \in ahead : \A r \in ahead : q <= r

\* The first question from the seed's place on that is not excluded; nothing
\* when as many are excluded, of this pool or not, as the pool has.
PickFromPool(ids, excluded, n) ==
  IF ids = {} \/ (excluded # {} /\ Cardinality(excluded) >= Cardinality(ids)) THEN Nobody
  ELSE CHOOSE q \in ids \ excluded :
         \A r \in ids \ excluded : Distance(ids, n, q) <= Distance(ids, n, r)

PickOrRepeat(ids, excluded, n) ==
  LET q == PickFromPool(ids, excluded, n) IN
  IF q # Nobody THEN q ELSE PickFromPool(ids, {}, n)

TriedFirst(d) == IF d.levels # AnyLevel THEN d.levels ELSE IF d.allowed # {} THEN d.allowed ELSE AnyLevel

SelectCandidate(cache, d, n) ==
  LET pool == Pool(cache, d.mode, TriedFirst(d))
      mine == Stored(cache, <<d.mode, TriedFirst(d)>>, pool)
      q == PickOrRepeat(pool.ids, d.recent, n)
      wide == Pool(mine, d.mode, d.allowed)
  IN IF q # Nobody \/ d.allowed = {}
     THEN [cache |-> mine, id |-> q, of |-> pool.ids]
     ELSE [cache |-> Stored(mine, <<d.mode, d.allowed>>, wide),
           id |-> PickOrRepeat(wide.ids, d.recent, n), of |-> wide.ids]

\* The built-in questions of a mode have levels of their own; with none that
\* fits, the start fails (Nobody) and the update is rolled back.
StaticFor(d) ==
  IF TriedFirst(d) \cap deck.spare # {} \/ d.allowed \cap deck.spare # {} THEN Static ELSE Nobody

ChooseQuestion(w, d, n) ==
  LET choice == SelectCandidate(pools[w], d, n) IN
  /\ asking[w] = Idle /\ Len(asked) < deck.asked
  /\ pools' = [pools EXCEPT ![w] = choice.cache]
  /\ asking' = [asking EXCEPT ![w] =
       [do |-> "FETCH", demand |-> d, n |-> n, id |-> choice.id, of |-> choice.of, again |-> FALSE]]
  /\ UNCHANGED <<second, bank, import, today7, deck, commits, overtaken, asked, plans, renewed, graded, deleted>>

Serve(w, d, id, of, daily) ==
  /\ asking' = [asking EXCEPT ![w] = Idle]
  /\ asked' = Append(asked, [demand |-> d, id |-> id, of |-> of, daily |-> daily,
                             there |-> id \in DOMAIN bank])

\* The row of the choice.  It may be gone: the pools are cleared and the choice
\* is made once more.
Fetch(w) ==
  LET a == asking[w]
      retry == SelectCandidate(<<>>, a.demand, a.n)
  IN /\ a.do = "FETCH"
     /\ IF a.id = Nobody \/ (a.again /\ a.id \notin DOMAIN bank)
        THEN Serve(w, a.demand, StaticFor(a.demand), a.of, 0) /\ UNCHANGED <<pools, overtaken>>
        ELSE IF a.id \in DOMAIN bank
        THEN Serve(w, a.demand, a.id, a.of, 0) /\ UNCHANGED <<pools, overtaken>>
        ELSE /\ pools' = [pools EXCEPT ![w] = retry.cache]
             /\ overtaken' = {o \in overtaken : o[1] # w}
             /\ asking' = [asking EXCEPT ![w] = [a EXCEPT !.id = retry.id, !.of = retry.of, !.again = TRUE]]
             /\ UNCHANGED asked
     /\ UNCHANGED <<second, bank, import, today7, deck, commits, plans, renewed, graded, deleted>>

\* A choice and its row without an import in between.
Resolved(w, d, n) ==
  LET one == SelectCandidate(pools[w], d, n)
      two == SelectCandidate(<<>>, d, n)
  IN IF one.id = Nobody \/ one.id \in DOMAIN bank
     THEN [cache |-> one.cache, id |-> one.id, cleared |-> FALSE]
     ELSE [cache |-> two.cache, id |-> two.id, cleared |-> TRUE]

Cache(w, choice) ==
  /\ pools' = [pools EXCEPT ![w] = choice.cache]
  /\ overtaken' = IF choice.cleared THEN {o \in overtaken : o[1] # w} ELSE overtaken

\* The answer to the n-th question asked is graded against that question; when
\* its row is gone, against another one of the mode.
Grade(w, n) ==
  LET id == asked[n].id
      any == [mode |-> asked[n].demand.mode, levels |-> AnyLevel, allowed |-> {}, recent |-> {}]
      other == Resolved(w, any, 0)
  IN /\ deck.graded /\ asking[w] = Idle /\ id # Nobody
     /\ \A g \in graded : g.n # n
     /\ IF id = Static \/ id \in DOMAIN bank
        THEN graded' = graded \cup {[n |-> n, id |-> id]} /\ UNCHANGED <<pools, overtaken>>
        ELSE /\ graded' = graded \cup {[n |-> n, id |-> IF other.id = Nobody THEN Static ELSE other.id]}
             /\ Cache(w, other)
     /\ UNCHANGED <<second, bank, import, asking, today7, deck, commits, asked, plans, renewed, deleted>>

-----------------------------------------------------------------------------
(* The questions of the day. *)

LevelsUpTo(level) == 1..level

\* The rows that carry the mode themselves (list_question_ids_for_mode): fewer than the
\* mode asks, which takes what is eligible from the files of other modes, too.
OwnRows(rows, levels) == {q \in DOMAIN rows : rows[q].mode = MixMode /\ rows[q].level \in levels}

\* Candidates of a position: its level, else what its window allows, else all.
DailyCandidates(rows, level) ==
  LET tiers == <<OwnRows(rows, {level}), OwnRows(rows, LevelsUpTo(level)), OwnRows(rows, BankLevels)>>
  IN IF tiers[1] # {} THEN tiers[1] ELSE IF tiers[2] # {} THEN tiers[2] ELSE tiers[3]

\* The set, position by position, each without those before it; empty without a candidate.
BuiltSet(rows, dice) ==
  LET all == OwnRows(rows, BankLevels) IN
  IF all = {} THEN <<>>
  ELSE CHOOSE s \in [DOMAIN PositionLevels -> all] :
         \A p \in DOMAIN PositionLevels :
           s[p] = PickOrRepeat(DailyCandidates(rows, PositionLevels[p]), {s[k] : k \in 1..(p - 1)}, dice[p])

\* Where no set can be built, one question that the mode asks stands at every position.
FallbackDemand == [mode |-> MixMode, levels |-> {PositionLevels[1]}, allowed |-> BankLevels, recent |-> {}]

NewSet(fallback) ==
  LET built == BuiltSet(bank, deck.dice) IN
  IF built # <<>> THEN built
  ELSE [p \in DOMAIN PositionLevels |-> IF fallback = Nobody THEN Static ELSE fallback]

DailyDemand(position) ==
  LET level == PositionLevels[position] IN
  [mode |-> MixMode, levels |-> {level}, allowed |-> LevelsUpTo(level), recent |-> {}]

\* A mutant of SeenSet: the set of the day is built anew.
SeenNever == <<>>

SeenSet == today7

\* The update reads the set of the day, and makes one where there is none.
OpenDaily(w, position) ==
  LET fallback == Resolved(w, FallbackDemand, deck.lot) IN
  /\ asking[w] = Idle /\ Len(asked) < deck.asked
  /\ asking' = [asking EXCEPT ![w] =
       [do |-> "DAILY", position |-> position, seen |-> SeenSet, unseen |-> today7 # <<>>,
        built |-> IF SeenSet # <<>> THEN SeenSet ELSE NewSet(fallback.id)]]
  /\ IF SeenSet = <<>> /\ BuiltSet(bank, deck.dice) = <<>> THEN Cache(w, fallback)
     ELSE UNCHANGED <<pools, overtaken>>
  /\ UNCHANGED <<second, bank, import, today7, deck, commits, asked, plans, renewed, graded, deleted>>

\* ON CONFLICT DO UPDATE: over whatever another update stored meanwhile.
UpsertSet(a) ==
  /\ today7' = IF a.seen = <<>> THEN a.built ELSE today7
  /\ renewed' = IF a.seen = <<>> /\ a.unseen THEN renewed + 1 ELSE renewed

\* It stores what it built and asks the question of the position, if that is there and of an allowed level.
AskDaily(w) ==
  LET a == asking[w]
      id == a.built[a.position]
      d == DailyDemand(a.position)
      good == id \in DOMAIN bank /\ bank[id].level \in d.allowed
      other == Resolved(w, d, deck.lot)
  IN /\ a.do = "DAILY"
     /\ UpsertSet(a)
     /\ Serve(w, d, IF good THEN id ELSE IF other.id = Nobody THEN Static ELSE other.id, {}, a.position)
     /\ IF good THEN UNCHANGED <<pools, overtaken>> ELSE Cache(w, other)
     /\ UNCHANGED <<second, bank, import, deck, commits, plans, graded, deleted>>

-----------------------------------------------------------------------------
(* The questions of a duel, chosen when it is created, round by round. *)

OpenPlan(w) ==
  /\ deck.rounds # <<>> /\ asking[w] = Idle /\ plans = {}
  /\ asking' = [asking EXCEPT ![w] = [do |-> "PLAN", ids |-> <<>>, left |-> <<>>]]
  /\ UNCHANGED <<second, bank, import, pools, today7, deck, commits, overtaken, asked, plans, renewed, graded, deleted>>

\* A mutant of RoundCandidates: what was asked before is not kept out.
RoundCandidatesAll(used, level) ==
  LET own == Matching(bank, deck.duelMode, {level}) IN
  IF own # {} THEN own ELSE Matching(bank, deck.duelMode, AnyLevel)

\* Of the level and unused, else of the level, else unused, else any.
RoundCandidates(used, level) ==
  LET own == Matching(bank, deck.duelMode, {level})
      all == Matching(bank, deck.duelMode, AnyLevel)
  IN IF own \ used # {} THEN own \ used
     ELSE IF own # {} THEN own
     ELSE IF all \ used # {} THEN all \ used ELSE all

OfLevel(level) == {q \in DOMAIN bank : bank[q].level = level /\ Belongs(bank[q], deck.duelMode, AnyLevel)}

CountOf(kind, ids) == Cardinality({i \in DOMAIN ids : ids[i] \in DOMAIN bank /\ bank[ids[i]].kind = kind})

\* Those whose category the duel has used least.
LeastUsed(candidates, ids) ==
  {q \in candidates : \A c \in candidates : CountOf(bank[q].kind, ids) <= CountOf(bank[c].kind, ids)}

PlanRound(w) ==
  LET a == asking[w]
      level == deck.rounds[Len(a.ids) + 1]
      candidates == RoundCandidates(ToSet(a.ids), level)
      add(q) == [a EXCEPT !.ids = Append(@, q),
                          !.left = Append(@, Cardinality(OfLevel(level) \ ToSet(a.ids)))]
  IN /\ a.do = "PLAN" /\ Len(a.ids) < Len(deck.rounds)
     /\ IF candidates = {} THEN asking' = [asking EXCEPT ![w] = add(Static)]
        ELSE \E q \in LeastUsed(candidates, a.ids) : asking' = [asking EXCEPT ![w] = add(q)]
     /\ UNCHANGED <<second, bank, import, pools, today7, deck, commits, overtaken, asked, plans, renewed, graded, deleted>>

ClosePlan(w) ==
  /\ asking[w].do = "PLAN" /\ Len(asking[w].ids) = Len(deck.rounds)
  /\ plans' = plans \cup {[ids |-> asking[w].ids, left |-> asking[w].left]}
  /\ asking' = [asking EXCEPT ![w] = Idle]
  /\ UNCHANGED <<second, bank, import, pools, today7, deck, commits, overtaken, asked, renewed, graded, deleted>>

-----------------------------------------------------------------------------
Second ==
  /\ second < deck.end
  /\ second' = second + 1
  /\ UNCHANGED <<bank, import, pools, asking, today7, deck, commits, overtaken, asked, plans, renewed, graded, deleted>>

BankNext ==
  \/ BuildRecords \/ PersistRecords \/ Second
  \/ \E w \in Staff :
       \/ \E d \in deck.demands, n \in deck.seeds : ChooseQuestion(w, d, n)
       \/ \E position \in deck.positions : OpenDaily(w, position)
       \/ \E n \in DOMAIN asked : Grade(w, n)
       \/ Fetch(w) \/ AskDaily(w) \/ OpenPlan(w) \/ PlanRound(w) \/ ClosePlan(w)

BankSpec == BankInit /\ [][BankNext]_bankVars

-----------------------------------------------------------------------------
(* Properties. *)

\* A pool of a worker agrees with the table as of its last refresh, but for two
\* things it cannot notice: deleted rows, and rows that were stamped before the
\* watermark of the pool and committed after it.
PoolsCurrent ==
  \A w \in Staff : \A key \in DOMAIN pools[w] :
    LET pool == pools[w][key] IN
    \A q \in DOMAIN bank :
      bank[q].no <= pool.no /\ <<w, key, q>> \notin overtaken
      => (q \in pool.ids <=> Belongs(bank[q], key[1], key[2]))

\* No user is asked a question that is not in the bank, whatever an import
\* deletes between the choice and its row; and one asked of late comes again only
\* when as many were asked of late as the pool has.
AskedSound ==
  \A n \in DOMAIN asked :
    /\ asked[n].id \notin {Static, Nobody} => asked[n].there
    /\ asked[n].id \in asked[n].demand.recent
       => Cardinality(asked[n].demand.recent) >= Cardinality(asked[n].of)

\* The set of the day is never replaced by an update that could see it; and
\* while no import is committed all users are asked the same question for a
\* position, however many updates make the set at once, and from pools as old as theirs
\* are when it cannot be built.
DailySame ==
  /\ renewed = 0
  /\ commits = 0 =>
       \A m, n \in DOMAIN asked :
         asked[m].demand = asked[n].demand /\ asked[m].daily # 0 /\ asked[m].daily = asked[n].daily
         => asked[m].id = asked[n].id

\* An answer is graded against the question asked unless an import deleted it.
GradedAsAsked == \A g \in graded : g.id = asked[g.n].id \/ asked[g.n].id \in deleted

\* A duel asks a question twice only when no unused one of the round's level
\* was left.
PlanVaried ==
  \A p \in plans : \A n \in DOMAIN p.ids :
    p.ids[n] # Static /\ (\E k \in 1..(n - 1) : p.ids[k] = p.ids[n]) => p.left[n] = 0

\* However imports are committed between the choice of a question, its row and its answer:
\* pools are what the table was, nobody gets a question that is not there, and all users
\* have the same question of the day (runtime_bank_pool.py, daily_question_sets.py).
BankSound == BankTypeOK /\ PoolsCurrent /\ AskedSound /\ DailySame /\ GradedAsAsked /\ PlanVaried
=============================================================================
