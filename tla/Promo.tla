-------------------------------- MODULE Promo ---------------------------------
(***************************************************************************)
(* Promo codes: how the operators make and change them, how users redeem   *)
(* them, and the jobs that expire reservations and campaigns and pause     *)
(* codes under attack.  What a purchase does with a discount is in module  *)
(* Purchases; here it is two steps, Attach and Credit.                     *)
(*                                                                         *)
(* A message to the bot holds the users row, so the attempts of one user   *)
(* come one after the other.  The internal API holds no lock until it      *)
(* reaches the code: other attempts come between its rate limit and the    *)
(* rest.  A failed attempt is written by a transaction of its own, which   *)
(* stays when the attempt is rolled back, and which cannot see a user that *)
(* the attempt itself has just created.                                    *)
(***************************************************************************)
EXTENDS Naturals, Sequences, FiniteSets

CONSTANTS
  Persons,      \* users
  Words,        \* normalized codes, made or not
  MaxFailures,  \* PROMO_ATTEMPT_MAX_FAILURES
  BlockTime,    \* PROMO_ATTEMPT_BLOCK_WINDOW
  LimitTime,    \* PROMO_ATTEMPT_RATE_LIMIT_WINDOW
  HoldTime,     \* PROMO_DISCOUNT_RESERVATION_TTL, also PROMO_RESERVATION_TTL
  GuardTime, GuardFailures, GuardUsers,
                \* PROMO_BRUTEFORCE_LOOKBACK_WINDOW, _MIN_FAILED_ATTEMPTS,
                \* _MIN_DISTINCT_USERS
  Plots,        \* bounds: what may happen in one behaviour
  NoTerm        \* NULL

VARIABLES
  minute,       \* ticks
  promos,       \* rows of promo_codes, by normalized code
  redeemed,     \* rows of promo_redemptions, in order of creation
  attempts,     \* rows of promo_attempts
  passed,       \* requests of the API behind the rate limit
  term,         \* ends_at of the ACTIVE premium row of a user
  registered,   \* users with a row
  buyers,       \* users with a purchase
  board,        \* the last answer of the dashboard
  plot,         \* the bounds of this behaviour

\* History, never read by an action.
  begun         \* starts_at of the premium rows

promoVars ==
  <<minute, promos, redeemed, attempts, passed, term, registered, buyers, board, plot, begun>>

Failures == {"INVALID", "EXPIRED", "NOT_APPLICABLE"}
Results == Failures \cup {"ACCEPTED", "RATE_LIMITED"}

PromoRows ==
  [kind : {"GRANT", "DISCOUNT"}, days : Nat, status : {"ACTIVE", "PAUSED", "EXPIRED", "DEPLETED"},
   until : Nat, max : Nat \cup {NoTerm}, used : Nat, perUser : Nat \ {0},
   newOnly : BOOLEAN, most : Nat]

RedemptionRows ==
  [user : Persons, word : Words, key : Nat, at : Nat,
   status : {"RESERVED", "APPLIED", "EXPIRED", "REVOKED"}, until : Nat \cup {NoTerm},
   bought : BOOLEAN, gave : Nat]

AttemptRows ==
  [user : Persons, word : Words, result : Results, source : {"BOT", "API"}, at : Nat]

Texts == [user : Persons, word : Words, source : {"BOT", "API"}]

\* A code as it is made: nobody has used it.
Made == {d \in PromoRows : d.used = 0 /\ d.perUser <= d.most}

ASSUME AttemptsAssumption ==
  /\ MaxFailures \in Nat \ {0} /\ {BlockTime, LimitTime, HoldTime} \subseteq Nat
  /\ NoTerm \notin Nat
ASSUME PlotsAssumption ==
  \A p \in Plots :
    /\ {p.end, p.attempts} \subseteq Nat /\ p.texts \in Seq(Texts)
    /\ DOMAIN p.promos \subseteq Words /\ p.promos \in [DOMAIN p.promos -> Made]
    /\ p.known \subseteq Persons /\ p.makes \subseteq Words
    /\ p.designs \subseteq Made /\ p.patches \subseteq PromoRows

PromoTypeOK ==
  /\ plot \in Plots
  /\ minute \in 0..plot.end
  /\ DOMAIN promos \subseteq Words /\ promos \in [DOMAIN promos -> PromoRows]
  /\ redeemed \in Seq(RedemptionRows)
  /\ attempts \in Seq(AttemptRows)
  /\ passed \subseteq DOMAIN plot.texts
  /\ term \in [Persons -> Nat \cup {NoTerm}]
  /\ begun \in [Persons -> Nat \cup {NoTerm}]
  /\ registered \subseteq Persons /\ buyers \subseteq registered

PromoInit ==
  /\ plot \in Plots
  /\ minute = 0
  /\ promos = plot.promos
  /\ redeemed = <<>> /\ attempts = <<>> /\ passed = {}
  /\ term = [u \in Persons |-> NoTerm]
  /\ begun = [u \in Persons |-> NoTerm]
  /\ registered = plot.known
  /\ buyers = {}
  /\ board = [accepted |-> 0, failed |-> 0, made |-> 0, guarded |-> 0]

-----------------------------------------------------------------------------
(* Redeeming a code.  plot.texts[k] is a message or request: user, word,   *)
(* source; its key is k.                                                   *)

Tries(u, results, span) ==
  {n \in DOMAIN attempts :
     attempts[n].user = u /\ attempts[n].result \in results /\ attempts[n].at + span >= minute}

\* The last failure is less than BlockTime ago.
JustFailed(u) == \E n \in Tries(u, Failures, LimitTime) : attempts[n].at + BlockTime > minute

\* A mutant of Limited: refusals of the limit itself are forgotten.
LimitedByFailures(u) ==
  /\ Cardinality(Tries(u, Failures, LimitTime)) > MaxFailures
  /\ JustFailed(u)

Limited(u) ==
  \/ Tries(u, {"RATE_LIMITED"}, BlockTime) # {}
  \/ /\ Cardinality(Tries(u, Failures, LimitTime)) >= MaxFailures
     /\ JustFailed(u)

Mine(u, w) == {r \in DOMAIN redeemed : redeemed[r].user = u /\ redeemed[r].word = w}

Consumed(r) == redeemed[r].status = "APPLIED" \/ redeemed[r].bought \/ redeemed[r].gave > 0

\* A mutant of MayRetry: an open reservation does not stand in the way.
MayRetryAlways(u, w) == Cardinality({r \in Mine(u, w) : Consumed(r)}) < promos[w].perUser

\* can_user_retry_promo: one redemption more than the uses, for reservations
\* that expired or were revoked.
MayRetry(u, w) ==
  \/ Mine(u, w) = {}
  \/ /\ \A r \in Mine(u, w) : redeemed[r].status # "RESERVED"
     /\ Cardinality({r \in Mine(u, w) : Consumed(r)}) < promos[w].perUser
     /\ Cardinality(Mine(u, w)) < promos[w].perUser + 1

InForce(w) == promos[w].status = "ACTIVE" /\ minute < promos[w].until

\* A mutant of Exhausted: one use too many.
ExhaustedLate(w) == promos[w].max # NoTerm /\ promos[w].used > promos[w].max

Exhausted(w) == promos[w].max # NoTerm /\ promos[w].used >= promos[w].max
Eligible(u, w) == promos[w].newOnly => u \notin buyers

\* The checks in their order, behind the rate limit.
Verdict(u, w) ==
  IF w \notin DOMAIN promos THEN "INVALID"
  ELSE IF ~MayRetry(u, w) THEN "NOT_APPLICABLE"
  ELSE IF ~InForce(w) \/ Exhausted(w) THEN "EXPIRED"
  ELSE IF ~Eligible(u, w) THEN "NOT_APPLICABLE"
  ELSE "ACCEPTED"

Log(t, result) ==
  attempts' = Append(attempts,
    [user |-> t.user, word |-> t.word, result |-> result, source |-> t.source, at |-> minute])

NewRedemption(k, status, until, gave) ==
  redeemed' = Append(redeemed,
    [user |-> plot.texts[k].user, word |-> plot.texts[k].word, key |-> k, at |-> minute,
     status |-> status, until |-> until, bought |-> FALSE, gave |-> gave])

\* A premium that ended keeps its ACTIVE row, and a second one is refused.
Barred(u) == term[u] # NoTerm /\ term[u] <= minute

\* A mutant of Grant: a running premium is not extended but started again.
GrantFromNow(k) ==
  LET u == plot.texts[k].user
      w == plot.texts[k].word
      days == promos[w].days
  IN /\ ~Barred(u) /\ days > 0
     /\ NewRedemption(k, "APPLIED", NoTerm, days)
     /\ promos' = [promos EXCEPT ![w].used = @ + 1]
     /\ term' = [term EXCEPT ![u] = minute + days]
     /\ begun' = [begun EXCEPT ![u] = IF @ = NoTerm THEN minute ELSE @]

Grant(k) ==
  LET u == plot.texts[k].user
      w == plot.texts[k].word
      days == promos[w].days
  IN /\ ~Barred(u) /\ days > 0
     /\ NewRedemption(k, "APPLIED", NoTerm, days)
     /\ promos' = [promos EXCEPT ![w].used = @ + 1]
     /\ term' = [term EXCEPT ![u] = (IF @ = NoTerm THEN minute ELSE @) + days]
     /\ begun' = [begun EXCEPT ![u] = IF @ = NoTerm THEN minute ELSE @]

Reserve(k) ==
  /\ NewRedemption(k, "RESERVED", minute + HoldTime, 0)
  /\ UNCHANGED <<promos, term, begun>>

\* A mutant of Accept: a reservation leaves no attempt behind.
AcceptUnlogged(k) ==
  /\ registered' = registered \cup {plot.texts[k].user}
  /\ IF promos[plot.texts[k].word].kind = "GRANT"
     THEN Grant(k) /\ Log(plot.texts[k], "ACCEPTED")
     ELSE Reserve(k) /\ UNCHANGED attempts

Accept(k) ==
  /\ Log(plot.texts[k], "ACCEPTED")
  /\ registered' = registered \cup {plot.texts[k].user}
  /\ IF promos[plot.texts[k].word].kind = "GRANT" THEN Grant(k) ELSE Reserve(k)

\* The row of a failed attempt refers to the users row: of a new user there
\* is none yet, the insert is refused and nothing at all is left.
Refuse(k, result) ==
  /\ plot.texts[k].user \in registered
  /\ Log(plot.texts[k], result)
  /\ UNCHANGED <<promos, redeemed, term, begun, registered>>

Decide(k) ==
  LET verdict == Verdict(plot.texts[k].user, plot.texts[k].word) IN
  IF verdict = "ACCEPTED" THEN Accept(k) ELSE Refuse(k, verdict)

Room == Len(attempts) < plot.attempts
Fresh(k) == \A r \in DOMAIN redeemed : redeemed[r].key # k

\* A message, or its update handled again; a key already used only answers.
Redeem(k) ==
  /\ Room /\ plot.texts[k].source = "BOT" /\ Fresh(k)
  /\ IF Limited(plot.texts[k].user) THEN Refuse(k, "RATE_LIMITED") ELSE Decide(k)
  /\ UNCHANGED <<minute, passed, buyers, board, plot>>

\* A request of the internal API; it knows registered users only.
RequestPasses(k) ==
  /\ Room /\ plot.texts[k].source = "API" /\ Fresh(k) /\ k \notin passed
  /\ plot.texts[k].user \in registered
  /\ IF Limited(plot.texts[k].user)
     THEN Refuse(k, "RATE_LIMITED") /\ UNCHANGED passed
     ELSE passed' = passed \cup {k} /\ UNCHANGED <<promos, redeemed, attempts, term, begun, registered>>
  /\ UNCHANGED <<minute, buyers, board, plot>>

RequestEnds(k) ==
  /\ k \in passed /\ Len(attempts) <= plot.attempts
  /\ passed' = passed \ {k}
  /\ Decide(k)
  /\ UNCHANGED <<minute, buyers, board, plot>>

-----------------------------------------------------------------------------
(* The discount of a purchase. *)

HeldByOthers(w, r) ==
  {s \in DOMAIN redeemed \ {r} :
     redeemed[s].word = w /\ redeemed[s].status = "RESERVED" /\ redeemed[s].until > minute}

\* The checks of an invoice and of its payment.
Usable(r) ==
  LET w == redeemed[r].word IN
  /\ redeemed[r].status = "RESERVED" /\ redeemed[r].until > minute
  /\ promos[w].kind = "DISCOUNT" /\ InForce(w)
  /\ promos[w].max # NoTerm => promos[w].used + Cardinality(HeldByOthers(w, r)) < promos[w].max

Attach(r) ==
  /\ Usable(r) /\ ~redeemed[r].bought
  /\ redeemed' = [redeemed EXCEPT ![r].bought = TRUE, ![r].until = minute + HoldTime]
  /\ buyers' = buyers \cup {redeemed[r].user}
  /\ UNCHANGED <<minute, promos, attempts, passed, term, registered, board, plot, begun>>

Credit(r) ==
  /\ Usable(r) /\ redeemed[r].bought
  /\ redeemed' = [redeemed EXCEPT ![r].status = "APPLIED"]
  /\ promos' = [promos EXCEPT ![redeemed[r].word].used = @ + 1]
  /\ UNCHANGED <<minute, attempts, passed, term, registered, buyers, board, plot, begun>>

\* A refund of the purchase, credited or only paid, revokes the redemption;
\* a use stays counted.
RollbackForRefund(r) ==
  /\ redeemed[r].bought /\ redeemed[r].status # "REVOKED"
  /\ redeemed' = [redeemed EXCEPT ![r].status = "REVOKED"]
  /\ UNCHANGED <<minute, promos, attempts, passed, term, registered, buyers, board, plot, begun>>

-----------------------------------------------------------------------------
(* The operators. *)

Unmoved == UNCHANGED <<minute, attempts, passed, term, registered, buyers, board, plot, begun>>

Added(words, new) ==
  /\ promos' = [w \in DOMAIN promos \cup words |-> IF w \in words THEN new ELSE promos[w]]
  /\ UNCHANGED redeemed /\ Unmoved

\* One code of the console: a code that exists is refused.
Create(w) == w \notin DOMAIN promos /\ \E new \in plot.designs : Added({w}, new)

\* Several at once: codes are drawn until enough of them are new.
CreateBulk(drawn) ==
  LET words == drawn \ DOMAIN promos IN
  words # {} /\ \E new \in plot.designs : Added(words, new)

\* A batch of the tool, one use per user: a code that exists refuses them all.
InsertBatch(words) ==
  /\ words # {} /\ words \cap DOMAIN promos = {}
  /\ \E new \in plot.designs : Added(words, [new EXCEPT !.perUser = 1, !.most = 1])

\* A patch replaces what it names; the table refuses a maximum below the uses.
Patch(w) ==
  /\ \E d \in plot.patches :
       /\ d.max # NoTerm => promos[w].used <= d.max
       /\ promos' = [promos EXCEPT ![w].kind = d.kind, ![w].days = d.days, ![w].until = d.until,
                                   ![w].max = d.max, ![w].perUser = d.perUser,
                                   ![w].most = IF @ < d.perUser THEN d.perUser ELSE @]
  /\ UNCHANGED redeemed /\ Unmoved

\* A mutant of Toggle: a campaign that is over can be switched on again.
ToggleAny(w) ==
  /\ promos' = [promos EXCEPT ![w].status = IF @ = "ACTIVE" THEN "PAUSED" ELSE "ACTIVE"]
  /\ UNCHANGED redeemed /\ Unmoved

Toggle(w) ==
  /\ promos[w].status \in {"ACTIVE", "PAUSED"}
  /\ promos' = [promos EXCEPT ![w].status = IF @ = "ACTIVE" THEN "PAUSED" ELSE "ACTIVE"]
  /\ UNCHANGED redeemed /\ Unmoved

\* The internal API names the status it wants and may name the one it expects.
UpdateStatus(w, desired, expected) ==
  /\ expected \in {NoTerm, promos[w].status}
  /\ promos[w].status \in {"ACTIVE", "PAUSED"}
  /\ promos' = [promos EXCEPT ![w].status = desired]
  /\ UNCHANGED redeemed /\ Unmoved

Revoke(w) ==
  /\ redeemed' = [r \in DOMAIN redeemed |->
       IF redeemed[r].word = w /\ redeemed[r].status = "RESERVED" /\ redeemed[r].until > minute
       THEN [redeemed[r] EXCEPT !.status = "REVOKED", !.until = minute] ELSE redeemed[r]]
  /\ UNCHANGED promos /\ Unmoved

Operate ==
  /\ plot.operated
  /\ \/ \E words \in SUBSET plot.makes : CreateBulk(words) \/ InsertBatch(words)
     \/ \E w \in plot.makes : Create(w)
     \/ \E w \in DOMAIN promos :
          \/ Patch(w) \/ Toggle(w) \/ Revoke(w)
          \/ \E d \in {"ACTIVE", "PAUSED"}, e \in {NoTerm, "ACTIVE", "PAUSED"} : UpdateStatus(w, d, e)

\* The list a code is in and the status it is shown with.
Listed(status) ==
  {w \in DOMAIN promos :
     CASE status = "active" -> InForce(w) /\ ~Exhausted(w)
       [] status = "inactive" -> promos[w].status = "PAUSED"
       [] status = "expired" -> promos[w].status \in {"EXPIRED", "DEPLETED"}
                                \/ promos[w].until <= minute \/ Exhausted(w)}

\* A mutant of Displayed: only dates and uses are looked at.
DisplayedByUse(w) ==
  IF promos[w].status = "PAUSED" THEN "inactive"
  ELSE IF promos[w].until <= minute \/ Exhausted(w) THEN "expired" ELSE "active"

Displayed(w) ==
  IF promos[w].status = "PAUSED" THEN "inactive"
  ELSE IF promos[w].status \in {"EXPIRED", "DEPLETED"} \/ promos[w].until <= minute \/ Exhausted(w)
       THEN "expired" ELSE "active"

-----------------------------------------------------------------------------
(* The jobs. *)

ExpireReservations ==
  /\ redeemed' = [r \in DOMAIN redeemed |->
       IF redeemed[r].status = "RESERVED" /\ redeemed[r].until <= minute
       THEN [redeemed[r] EXCEPT !.status = "EXPIRED"] ELSE redeemed[r]]
  /\ UNCHANGED promos /\ Unmoved

Rollover ==
  /\ promos' = [w \in DOMAIN promos |->
       IF promos[w].status # "ACTIVE" THEN promos[w]
       ELSE IF promos[w].until <= minute THEN [promos[w] EXCEPT !.status = "EXPIRED"]
       ELSE IF Exhausted(w) THEN [promos[w] EXCEPT !.status = "DEPLETED"] ELSE promos[w]]
  /\ UNCHANGED redeemed /\ Unmoved

Abused ==
  LET hits(w) == {n \in DOMAIN attempts : /\ attempts[n].word = w /\ attempts[n].result \in Failures
                                          /\ attempts[n].at + GuardTime >= minute}
  IN {w \in Words : /\ Cardinality(hits(w)) > GuardFailures
                    /\ Cardinality({attempts[n].user : n \in hits(w)}) >= GuardUsers}

Guard ==
  /\ promos' = [w \in DOMAIN promos |->
       IF w \in Abused /\ promos[w].status = "ACTIVE"
       THEN [promos[w] EXCEPT !.status = "PAUSED"] ELSE promos[w]]
  /\ UNCHANGED redeemed /\ Unmoved

Recently(at, span) == at + span >= minute

PromoDashboard ==
  /\ plot.watched
  /\ \E span \in 0..minute :
       LET results(S) == {n \in DOMAIN attempts : Recently(attempts[n].at, span) /\ attempts[n].result \in S}
       IN board' = [accepted |-> Cardinality(results({"ACCEPTED"})),
                    failed |-> Cardinality(results(Results \ {"ACCEPTED"})),
                    made |-> Cardinality({r \in DOMAIN redeemed : Recently(redeemed[r].at, span)}),
                    guarded |-> Cardinality(Abused)]
  /\ UNCHANGED <<minute, promos, redeemed, attempts, passed, term, registered, buyers, plot, begun>>

Minute ==
  /\ minute < plot.end
  /\ minute' = minute + 1
  /\ UNCHANGED <<promos, redeemed, attempts, passed, term, registered, buyers, board, plot, begun>>

PromoNext ==
  \/ Operate \/ ExpireReservations \/ Rollover \/ Guard \/ PromoDashboard \/ Minute
  \/ \E k \in DOMAIN plot.texts : Redeem(k) \/ RequestPasses(k) \/ RequestEnds(k)
  \/ \E r \in DOMAIN redeemed : Attach(r) \/ Credit(r) \/ RollbackForRefund(r)

PromoSpec == PromoInit /\ [][PromoNext]_promoVars

-----------------------------------------------------------------------------
(* Properties. *)

\* However messages, requests, payments, revocations and patches mix, a code
\* counts every redemption that stands and none that was never used, and never
\* passes its maximum: the table's own check is never what refuses a payment.
UsesCounted ==
  \A w \in DOMAIN promos :
    LET rows == {r \in DOMAIN redeemed : redeemed[r].word = w} IN
    /\ promos[w].used >= Cardinality({r \in rows : redeemed[r].status = "APPLIED"})
    /\ promos[w].used <= Cardinality({r \in rows : Consumed(r)})
    /\ promos[w].max # NoTerm => promos[w].used <= promos[w].max

\* A user holds one reservation of a code at a time, uses it no more often than
\* its limit per user has ever allowed, and redeems it at most once more than
\* that, also when a request of the API is decided late.
UsesPerUser ==
  \A u \in Persons, w \in DOMAIN promos :
    /\ Cardinality({r \in Mine(u, w) : redeemed[r].status = "RESERVED"}) <= 1
    /\ Cardinality({r \in Mine(u, w) : Consumed(r)}) <= promos[w].most
    /\ Cardinality(Mine(u, w)) <= promos[w].most + 1

\* The days a user was given, each with the redemption that gave it.
DaysGiven(u) ==
  UNION {{r} \X (1..redeemed[r].gave) : r \in {s \in DOMAIN redeemed : redeemed[s].user = u}}

\* Premium given by codes adds up: it ends as many days after it began as the
\* redemptions of the user gave.
GrantsAddUp ==
  \A u \in Persons :
    /\ DaysGiven(u) = {} <=> term[u] = NoTerm
    /\ DaysGiven(u) # {} => term[u] = begun[u] + Cardinality(DaysGiven(u))

\* Guessing is slow: a message that fails after MaxFailures failures of the last
\* LimitTime comes BlockTime or more after each of them and after every refusal
\* of the limit.
GuessesSlow ==
  \A n \in DOMAIN attempts :
    LET before == {m \in 1..(n - 1) : attempts[m].user = attempts[n].user
                                      /\ attempts[m].at + LimitTime >= attempts[n].at}
        failed == {m \in before : attempts[m].result \in Failures}
    IN /\ attempts[n].source = "BOT" /\ attempts[n].result # "RATE_LIMITED"
       /\ Cardinality(failed) >= MaxFailures
       => \A m \in failed \cup {k \in before : attempts[k].result = "RATE_LIMITED"} :
            attempts[m].at + BlockTime <= attempts[n].at

\* Every accepted attempt has its redemption and the other way round, and the
\* dashboard counts as many of each in every window.
AcceptedMade ==
  /\ Cardinality({n \in DOMAIN attempts : attempts[n].result = "ACCEPTED"}) = Len(redeemed)
  /\ board.accepted = board.made

\* The status the console shows for a code is the name of a list it is in.
ListedAsDisplayed == \A w \in DOMAIN promos : w \in Listed(Displayed(w))

\* A campaign that ended stays ended, and a redemption that was revoked, applied
\* or expired is at most revoked, never used or reserved again.
PromoStep ==
  /\ \A w \in DOMAIN promos :
       promos[w].status \in {"EXPIRED", "DEPLETED"} => promos'[w].status = promos[w].status
  /\ \A r \in DOMAIN redeemed :
       redeemed[r].status # "RESERVED" => redeemed'[r].status \in {redeemed[r].status, "REVOKED"}

\* However messages, requests, operators and the guard mix: a code counts the uses that
\* stand and never passes its maximum, premium given adds up, guessing is slow; a campaign
\* that ended stays ended, and a redemption that is over is at most revoked
\* (economy/promo/service.py, attempts.py, rate_limit.py, promo_maintenance.py).
PromoHolds ==
  /\ [](/\ PromoTypeOK /\ UsesCounted /\ UsesPerUser /\ GrantsAddUp
        /\ GuessesSlow /\ AcceptedMade /\ ListedAsDisplayed)
  /\ [][PromoStep]_promoVars
=============================================================================
