----------------------------- MODULE PromoProofs -----------------------------
(***************************************************************************)
(* What Promo guarantees for every set of users and codes, every limit on  *)
(* attempts and every plot.                                                *)
(***************************************************************************)
EXTENDS Promo, FiniteSetTheorems, SequenceTheorems, TLAPS

-----------------------------------------------------------------------------
(* Tables. *)

\* An element of a sequence over S is in S.
LEMMA Elements ==
  ASSUME NEW S, NEW s \in Seq(S) PROVE \A k \in DOMAIN s : s[k] \in S
BY LenProperties, ElementOfSeq

\* A function on the places of a sequence is a sequence.
LEMMA Mapped ==
  ASSUME NEW S, NEW s \in Seq(S), NEW t, DOMAIN t = DOMAIN s, NEW T, t \in [DOMAIN s -> T]
  PROVE  t \in Seq(T) /\ Len(t) = Len(s)
<1>1. Len(s) \in Nat /\ DOMAIN s = 1..Len(s)
  BY LenProperties
<1>2. t \in Seq(T)
  BY <1>1, SeqDef
<1>3. DOMAIN t = 1..Len(t) /\ Len(t) \in Nat
  BY <1>2, LenProperties
<1>4. QED
  BY <1>1, <1>2, <1>3

LEMMA Tables ==
  ASSUME PromoTypeOK
  PROVE  /\ plot \in Plots /\ minute \in Nat
         /\ DOMAIN promos \subseteq Words /\ \A w \in DOMAIN promos : promos[w] \in PromoRows
         /\ DOMAIN redeemed = 1..Len(redeemed) /\ Len(redeemed) \in Nat /\ IsFiniteSet(DOMAIN redeemed)
         /\ \A r \in DOMAIN redeemed : redeemed[r] \in RedemptionRows
         /\ DOMAIN attempts = 1..Len(attempts) /\ Len(attempts) \in Nat /\ IsFiniteSet(DOMAIN attempts)
         /\ \A n \in DOMAIN attempts : attempts[n] \in AttemptRows
         /\ DOMAIN plot.texts \subseteq Nat /\ \A k \in DOMAIN plot.texts : plot.texts[k] \in Texts
<1>1. /\ plot \in Plots /\ minute \in 0..plot.end /\ redeemed \in Seq(RedemptionRows)
      /\ attempts \in Seq(AttemptRows) /\ promos \in [DOMAIN promos -> PromoRows]
      /\ DOMAIN promos \subseteq Words
  BY DEF PromoTypeOK
<1>2. plot.end \in Nat /\ plot.texts \in Seq(Texts)
  BY <1>1, PlotsAssumption
<1>3. /\ DOMAIN redeemed = 1..Len(redeemed) /\ Len(redeemed) \in Nat
      /\ DOMAIN attempts = 1..Len(attempts) /\ Len(attempts) \in Nat
      /\ DOMAIN plot.texts = 1..Len(plot.texts) /\ Len(plot.texts) \in Nat
  BY <1>1, <1>2, LenProperties
<1>4. /\ \A r \in DOMAIN redeemed : redeemed[r] \in RedemptionRows
      /\ \A n \in DOMAIN attempts : attempts[n] \in AttemptRows
      /\ \A k \in DOMAIN plot.texts : plot.texts[k] \in Texts
  BY <1>1, <1>2, Elements
<1>5. IsFiniteSet(DOMAIN redeemed) /\ IsFiniteSet(DOMAIN attempts)
  BY <1>3, FS_Interval
<1>6. minute \in Nat /\ \A w \in DOMAIN promos : promos[w] \in PromoRows /\ DOMAIN plot.texts \subseteq Nat
  BY <1>1, <1>2, <1>3
<1>7. DOMAIN plot.texts \subseteq Nat
  BY <1>3
<1>8. QED
  BY <1>1, <1>3, <1>4, <1>5, <1>6, <1>7

-----------------------------------------------------------------------------
(* What each step does. *)

\* An attempt is decided; that of a message only behind the rate limit.
Tried(k, result) ==
  /\ plot.texts[k].source = "BOT" /\ result # "RATE_LIMITED" => ~Limited(plot.texts[k].user)
  /\ Log(plot.texts[k], result)

Accepts(k) ==
  /\ Tried(k, "ACCEPTED") /\ Accept(k)
  /\ Verdict(plot.texts[k].user, plot.texts[k].word) = "ACCEPTED"
  /\ passed' \subseteq passed /\ UNCHANGED <<minute, buyers, board, plot>>

Refuses(k, result) ==
  /\ Tried(k, result)
  /\ passed' \subseteq passed
  /\ UNCHANGED <<minute, promos, redeemed, term, registered, buyers, board, plot, begun>>

\* Nothing but the status of codes that are not over.
Flips ==
  /\ DOMAIN promos' = DOMAIN promos
  /\ \A w \in DOMAIN promos : \E s \in {"ACTIVE", "PAUSED", "EXPIRED", "DEPLETED"} :
       /\ promos'[w] = [promos[w] EXCEPT !.status = s]
       /\ promos[w].status \in {"EXPIRED", "DEPLETED"} => s = promos[w].status
  /\ promos' \in [DOMAIN promos -> PromoRows]
  /\ UNCHANGED redeemed /\ Unmoved

\* Reservations are revoked or run out.
Lapses ==
  /\ DOMAIN redeemed' = DOMAIN redeemed
  /\ \A r \in DOMAIN redeemed :
       \/ redeemed'[r] = redeemed[r]
       \/ /\ redeemed[r].status = "RESERVED"
          /\ \/ redeemed'[r] = [redeemed[r] EXCEPT !.status = "REVOKED", !.until = minute]
             \/ redeemed'[r] = [redeemed[r] EXCEPT !.status = "EXPIRED"]
  /\ redeemed' \in Seq(RedemptionRows)
  /\ UNCHANGED promos /\ Unmoved

\* A request passes the rate limit, the dashboard is read, or time goes by.
Rests ==
  /\ minute <= minute' /\ minute' \in 0..plot.end /\ passed' \subseteq DOMAIN plot.texts
  /\ \A k \in passed' \ passed : plot.texts[k].source = "API"
  /\ UNCHANGED <<promos, redeemed, attempts, term, registered, buyers, plot, begun>>

LEMMA DecideEffect ==
  ASSUME NEW k, Decide(k), passed' \subseteq passed, UNCHANGED <<minute, buyers, board, plot>>,
         plot.texts[k].source = "BOT" => ~Limited(plot.texts[k].user)
  PROVE  Accepts(k) \/ \E result \in Failures : Refuses(k, result)
<1>1. Verdict(plot.texts[k].user, plot.texts[k].word) \in {"ACCEPTED"} \cup Failures
  BY DEF Verdict, Failures
<1>2. CASE Verdict(plot.texts[k].user, plot.texts[k].word) = "ACCEPTED"
  BY <1>2 DEF Decide, Accept, Accepts, Tried
<1>3. CASE Verdict(plot.texts[k].user, plot.texts[k].word) # "ACCEPTED"
  BY <1>1, <1>3 DEF Decide, Refuse, Refuses, Tried
<1>4. QED
  BY <1>2, <1>3

LEMMA AttemptCases ==
  ASSUME PromoTypeOK, NEW k \in DOMAIN plot.texts, \A j \in passed : plot.texts[j].source = "API",
         Redeem(k) \/ RequestPasses(k) \/ RequestEnds(k)
  PROVE  Accepts(k) \/ (\E result \in Results \ {"ACCEPTED"} : Refuses(k, result)) \/ Rests
<1>1. Failures \subseteq Results \ {"ACCEPTED"} /\ "RATE_LIMITED" \in Results \ {"ACCEPTED"}
  BY DEF Failures, Results
<1>2. CASE Redeem(k) /\ Limited(plot.texts[k].user)
  <2>1. Refuses(k, "RATE_LIMITED")
    BY <1>2 DEF Redeem, Refuse, Refuses, Tried
  <2>2. QED
    BY <1>1, <2>1
<1>3. CASE Redeem(k) /\ ~Limited(plot.texts[k].user)
  <2>1. Decide(k) /\ UNCHANGED <<minute, passed, buyers, board, plot>>
    BY <1>3 DEF Redeem
  <2>2. QED
    BY <1>1, <1>3, <2>1, DecideEffect
<1>4. CASE RequestPasses(k) /\ Limited(plot.texts[k].user)
  <2>1. Refuses(k, "RATE_LIMITED")
    BY <1>4 DEF RequestPasses, Refuse, Refuses, Tried
  <2>2. QED
    BY <1>1, <2>1
<1>5. CASE RequestPasses(k) /\ ~Limited(plot.texts[k].user)
  <2>1. /\ passed' = passed \cup {k} /\ plot.texts[k].source = "API"
        /\ UNCHANGED <<minute, promos, redeemed, attempts, term, registered, buyers, plot, begun>>
    BY <1>5 DEF RequestPasses
  <2>2. minute \in Nat /\ minute \in 0..plot.end /\ passed \subseteq DOMAIN plot.texts
    BY Tables DEF PromoTypeOK
  <2>3. Rests
    BY <2>1, <2>2 DEF Rests
  <2>4. QED
    BY <2>3
<1>6. CASE RequestEnds(k)
  <2>1. Decide(k) /\ passed' \subseteq passed /\ UNCHANGED <<minute, buyers, board, plot>>
    BY <1>6 DEF RequestEnds
  <2>2. plot.texts[k].source # "BOT"
    BY <1>6 DEF RequestEnds
  <2>3. QED
    BY <1>1, <2>1, <2>2, DecideEffect
<1>7. QED
  BY <1>2, <1>3, <1>4, <1>5, <1>6

\* New codes.
Makes(words, new) ==
  /\ words \cap DOMAIN promos = {} /\ words \subseteq Words /\ new \in Made
  /\ Added(words, new)

\* A patched code.
Patched(w, d) ==
  /\ d.max # NoTerm => promos[w].used <= d.max
  /\ DOMAIN promos' = DOMAIN promos
  /\ promos'[w] = [promos[w] EXCEPT
       !.kind = d.kind, !.days = d.days, !.until = d.until, !.max = d.max, !.perUser = d.perUser,
       !.most = IF @ < d.perUser THEN d.perUser ELSE @]
  /\ promos' \in [DOMAIN promos -> PromoRows]
  /\ \A v \in DOMAIN promos \ {w} : promos'[v] = promos[v]
  /\ UNCHANGED redeemed /\ Unmoved

LEMMA MakesEffect ==
  ASSUME PromoTypeOK, NEW words \in SUBSET plot.makes,
         CreateBulk(words) \/ InsertBatch(words) \/ \E w \in plot.makes : Create(w)
  PROVE  \E drawn, new : Makes(drawn, new)
<1>1. plot.makes \subseteq Words /\ plot.designs \subseteq Made
  BY Tables, PlotsAssumption
<1>2. CASE CreateBulk(words)
  <2>1. PICK new \in plot.designs : Added(words \ DOMAIN promos, new)
    BY <1>2 DEF CreateBulk
  <2>2. Makes(words \ DOMAIN promos, new)
    BY <1>1, <2>1 DEF Makes
  <2>3. QED
    BY <2>2
<1>3. CASE InsertBatch(words)
  <2>1. PICK new \in plot.designs : Added(words, [new EXCEPT !.perUser = 1, !.most = 1])
    BY <1>3 DEF InsertBatch
  <2>2. [new EXCEPT !.perUser = 1, !.most = 1] \in Made
    <3> DEFINE single == [new EXCEPT !.perUser = 1, !.most = 1]
    <3>1. new \in PromoRows /\ new.used = 0
      BY <1>1 DEF Made
    <3>2. single \in PromoRows
      <4>1. 1 \in Nat /\ 1 \in Nat \ {0}
        OBVIOUS
      <4>2. QED
        BY <3>1, <4>1 DEF PromoRows
    <3>3. single.used = 0 /\ single.perUser = 1 /\ single.most = 1
      BY <3>1 DEF PromoRows
    <3> HIDE DEF single
    <3>4. single \in Made
      BY <3>2, <3>3 DEF Made
    <3>5. QED
      BY <3>4 DEF single
  <2>3. Makes(words, [new EXCEPT !.perUser = 1, !.most = 1])
    BY <1>1, <1>3, <2>1, <2>2 DEF Makes, InsertBatch
  <2>4. QED
    BY <2>3
<1>4. CASE \E w \in plot.makes : Create(w)
  <2>1. PICK w \in plot.makes : Create(w)
    BY <1>4
  <2>2. PICK new \in plot.designs : Added({w}, new)
    BY <2>1 DEF Create
  <2>3. Makes({w}, new)
    BY <1>1, <2>1, <2>2 DEF Makes, Create
  <2>4. QED
    BY <2>3
<1>5. QED
  BY <1>2, <1>3, <1>4

LEMMA PatchEffect ==
  ASSUME PromoTypeOK, NEW w \in DOMAIN promos, Patch(w)
  PROVE  \E d \in PromoRows : Patched(w, d)
<1>1. PICK d \in plot.patches :
        /\ d.max # NoTerm => promos[w].used <= d.max
        /\ promos' = [promos EXCEPT
             ![w].kind = d.kind, ![w].days = d.days, ![w].until = d.until, ![w].max = d.max,
             ![w].perUser = d.perUser, ![w].most = IF @ < d.perUser THEN d.perUser ELSE @]
  BY DEF Patch
<1>2. d \in PromoRows /\ promos[w] \in PromoRows /\ \A v \in DOMAIN promos : promos[v] \in PromoRows
  BY Tables, PlotsAssumption
<1> DEFINE row == [promos[w] EXCEPT
       !.kind = d.kind, !.days = d.days, !.until = d.until, !.max = d.max, !.perUser = d.perUser,
       !.most = IF @ < d.perUser THEN d.perUser ELSE @]
<1>3. row \in PromoRows
  BY <1>2 DEF PromoRows
<1>4. promos' = [promos EXCEPT ![w] = row]
  BY <1>1
<1>5. promos \in [DOMAIN promos -> PromoRows]
  BY DEF PromoTypeOK
<1> HIDE DEF row
<1>6. /\ promos' \in [DOMAIN promos -> PromoRows] /\ promos'[w] = row
      /\ \A v \in DOMAIN promos \ {w} : promos'[v] = promos[v]
  BY <1>3, <1>4, <1>5
<1>7. Patched(w, d)
  BY <1>1, <1>6 DEF Patch, Patched, row
<1>8. QED
  BY <1>2, <1>7

\* The status of one code.
LEMMA FlipOne ==
  ASSUME PromoTypeOK, NEW w \in DOMAIN promos, NEW s \in {"ACTIVE", "PAUSED"},
         promos[w].status \in {"ACTIVE", "PAUSED"}, promos' = [promos EXCEPT ![w].status = s],
         UNCHANGED redeemed /\ Unmoved
  PROVE  Flips
<1> DEFINE row == [promos[w] EXCEPT !.status = s]
<1>1. promos \in [DOMAIN promos -> PromoRows] /\ \A v \in DOMAIN promos : promos[v] \in PromoRows
  BY Tables DEF PromoTypeOK
<1>2. row \in PromoRows
  BY <1>1 DEF PromoRows
<1>3. promos' = [promos EXCEPT ![w] = row]
  OBVIOUS
<1>4. \A v \in DOMAIN promos : [promos[v] EXCEPT !.status = promos[v].status] = promos[v]
                               /\ promos[v].status \in {"ACTIVE", "PAUSED", "EXPIRED", "DEPLETED"}
  BY <1>1 DEF PromoRows
<1> HIDE DEF row
<1>5. /\ promos' \in [DOMAIN promos -> PromoRows] /\ promos'[w] = row
      /\ \A v \in DOMAIN promos \ {w} : promos'[v] = promos[v]
  BY <1>1, <1>2, <1>3
<1>6. QED
  BY <1>4, <1>5 DEF Flips, row

LEMMA OperateEffect ==
  ASSUME PromoTypeOK, Operate
  PROVE  \/ \E words, new : Makes(words, new)
         \/ \E w \in DOMAIN promos, d \in PromoRows : Patched(w, d)
         \/ Flips \/ Lapses
<1>1. CASE \E words \in SUBSET plot.makes : CreateBulk(words) \/ InsertBatch(words)
  BY <1>1, MakesEffect
<1>2. CASE \E w \in plot.makes : Create(w)
  <2>1. {} \in SUBSET plot.makes
    OBVIOUS
  <2>2. QED
    BY <1>2, <2>1, MakesEffect
<1>3. ASSUME NEW w \in DOMAIN promos, Patch(w)
      PROVE  \E d \in PromoRows : Patched(w, d)
  BY <1>3, PatchEffect
<1>4. ASSUME NEW w \in DOMAIN promos, Toggle(w) PROVE Flips
  BY <1>4, FlipOne DEF Toggle
<1>5. ASSUME NEW w \in DOMAIN promos, NEW s \in {"ACTIVE", "PAUSED"}, NEW e, UpdateStatus(w, s, e)
      PROVE  Flips
  BY <1>5, FlipOne DEF UpdateStatus
<1>6. ASSUME NEW w \in DOMAIN promos, Revoke(w) PROVE Lapses
  <2> DEFINE gone(r) == redeemed[r].word = w /\ redeemed[r].status = "RESERVED" /\ redeemed[r].until > minute
             row(r) == IF gone(r) THEN [redeemed[r] EXCEPT !.status = "REVOKED", !.until = minute]
                       ELSE redeemed[r]
  <2>1. redeemed' = [r \in DOMAIN redeemed |-> row(r)]
    BY <1>6 DEF Revoke
  <2>2. /\ redeemed \in Seq(RedemptionRows) /\ minute \in Nat
        /\ \A r \in DOMAIN redeemed : redeemed[r] \in RedemptionRows
    BY Tables DEF PromoTypeOK
  <2>3. \A r \in DOMAIN redeemed : row(r) \in RedemptionRows
    BY <2>2 DEF RedemptionRows
  <2>4. \A r \in DOMAIN redeemed :
           \/ row(r) = redeemed[r]
           \/ /\ redeemed[r].status = "RESERVED"
              /\ row(r) = [redeemed[r] EXCEPT !.status = "REVOKED", !.until = minute]
    OBVIOUS
  <2> HIDE DEF row
  <2>5. DOMAIN redeemed' = DOMAIN redeemed /\ \A r \in DOMAIN redeemed : redeemed'[r] = row(r)
    BY <2>1
  <2>6. redeemed' \in [DOMAIN redeemed -> RedemptionRows]
    BY <2>1, <2>3
  <2>7. redeemed' \in Seq(RedemptionRows)
    BY <2>2, <2>5, <2>6, Mapped
  <2>8. QED
    BY <1>6, <2>4, <2>5, <2>7 DEF Lapses, Revoke
<1>7. QED
  BY <1>1, <1>2, <1>3, <1>4, <1>5, <1>6 DEF Operate

LEMMA JobEffect ==
  ASSUME PromoTypeOK, ExpireReservations \/ Rollover \/ Guard
  PROVE  Flips \/ Lapses
<1>1. /\ redeemed \in Seq(RedemptionRows)
      /\ \A r \in DOMAIN redeemed : redeemed[r] \in RedemptionRows
      /\ \A w \in DOMAIN promos : promos[w] \in PromoRows
  BY Tables DEF PromoTypeOK
<1>2. \A w \in DOMAIN promos : [promos[w] EXCEPT !.status = promos[w].status] = promos[w]
                               /\ promos[w].status \in {"ACTIVE", "PAUSED", "EXPIRED", "DEPLETED"}
  BY <1>1 DEF PromoRows
<1>3. CASE ExpireReservations
  <2> DEFINE row(r) == IF redeemed[r].status = "RESERVED" /\ redeemed[r].until <= minute
                       THEN [redeemed[r] EXCEPT !.status = "EXPIRED"] ELSE redeemed[r]
  <2>1. redeemed' = [r \in DOMAIN redeemed |-> row(r)]
    BY <1>3 DEF ExpireReservations
  <2>2. \A r \in DOMAIN redeemed :
          /\ row(r) \in RedemptionRows
          /\ \/ row(r) = redeemed[r]
             \/ redeemed[r].status = "RESERVED" /\ row(r) = [redeemed[r] EXCEPT !.status = "EXPIRED"]
    BY <1>1 DEF RedemptionRows
  <2> HIDE DEF row
  <2>3. DOMAIN redeemed' = DOMAIN redeemed /\ \A r \in DOMAIN redeemed : redeemed'[r] = row(r)
    BY <2>1
  <2>4. redeemed' \in [DOMAIN redeemed -> RedemptionRows]
    BY <2>1, <2>2
  <2>5. redeemed' \in Seq(RedemptionRows)
    BY <1>1, <2>3, <2>4, Mapped
  <2>6. QED
    BY <1>3, <2>2, <2>3, <2>5 DEF Lapses, ExpireReservations
<1>4. CASE Rollover
  <2> DEFINE row(w) == IF promos[w].status # "ACTIVE" THEN promos[w]
                       ELSE IF promos[w].until <= minute THEN [promos[w] EXCEPT !.status = "EXPIRED"]
                       ELSE IF Exhausted(w) THEN [promos[w] EXCEPT !.status = "DEPLETED"] ELSE promos[w]
  <2>1. promos' = [w \in DOMAIN promos |-> row(w)]
    BY <1>4 DEF Rollover
  <2>2. \A w \in DOMAIN promos :
          /\ row(w) \in PromoRows
          /\ \E s \in {"ACTIVE", "PAUSED", "EXPIRED", "DEPLETED"} :
               /\ row(w) = [promos[w] EXCEPT !.status = s]
               /\ promos[w].status \in {"EXPIRED", "DEPLETED"} => s = promos[w].status
    <3> SUFFICES ASSUME NEW w \in DOMAIN promos
                 PROVE  /\ row(w) \in PromoRows
                        /\ \E s \in {"ACTIVE", "PAUSED", "EXPIRED", "DEPLETED"} :
                             /\ row(w) = [promos[w] EXCEPT !.status = s]
                             /\ promos[w].status \in {"EXPIRED", "DEPLETED"} => s = promos[w].status
      OBVIOUS
    <3>1. CASE row(w) = promos[w]
      BY <1>1, <1>2, <3>1
    <3>2. CASE row(w) # promos[w]
      <4>1. promos[w].status = "ACTIVE" /\ promos[w] \in PromoRows
        BY <1>1, <3>2
      <4>2. \/ row(w) = [promos[w] EXCEPT !.status = "EXPIRED"]
            \/ row(w) = [promos[w] EXCEPT !.status = "DEPLETED"]
        BY <3>2
      <4>3. [promos[w] EXCEPT !.status = "EXPIRED"] \in PromoRows
            /\ [promos[w] EXCEPT !.status = "DEPLETED"] \in PromoRows
        BY <4>1 DEF PromoRows
      <4> HIDE DEF row
      <4>4. QED
        BY <4>1, <4>2, <4>3
    <3>3. QED
      BY <3>1, <3>2
  <2> HIDE DEF row
  <2>3. DOMAIN promos' = DOMAIN promos /\ \A w \in DOMAIN promos : promos'[w] = row(w)
    BY <2>1
  <2>4. promos' \in [DOMAIN promos -> PromoRows]
    BY <2>1, <2>2
  <2>5. QED
    BY <1>4, <2>2, <2>3, <2>4 DEF Flips, Rollover
<1>5. CASE Guard
  <2> DEFINE row(w) == IF w \in Abused /\ promos[w].status = "ACTIVE"
                       THEN [promos[w] EXCEPT !.status = "PAUSED"] ELSE promos[w]
  <2>1. promos' = [w \in DOMAIN promos |-> row(w)]
    BY <1>5 DEF Guard
  <2>2. \A w \in DOMAIN promos :
          /\ row(w) \in PromoRows
          /\ \/ row(w) = promos[w]
             \/ promos[w].status = "ACTIVE" /\ row(w) = [promos[w] EXCEPT !.status = "PAUSED"]
    BY <1>1 DEF PromoRows
  <2> HIDE DEF row
  <2>3. DOMAIN promos' = DOMAIN promos /\ \A w \in DOMAIN promos : promos'[w] = row(w)
    BY <2>1
  <2>4. promos' \in [DOMAIN promos -> PromoRows]
    BY <2>1, <2>2
  <2>5. \A w \in DOMAIN promos : \E s \in {"ACTIVE", "PAUSED", "EXPIRED", "DEPLETED"} :
          /\ promos'[w] = [promos[w] EXCEPT !.status = s]
          /\ promos[w].status \in {"EXPIRED", "DEPLETED"} => s = promos[w].status
    BY <1>2, <2>2, <2>3
  <2>6. QED
    BY <1>5, <2>3, <2>4, <2>5 DEF Flips, Guard
<1>6. QED
  BY <1>3, <1>4, <1>5

\* Only API requests wait behind the rate limit.
Waiting == \A k \in passed : plot.texts[k].source = "API"

LEMMA StepCases ==
  ASSUME PromoTypeOK, Waiting, [PromoNext]_promoVars
  PROVE  \/ \E k \in DOMAIN plot.texts : Accepts(k)
         \/ \E k \in DOMAIN plot.texts, result \in Results \ {"ACCEPTED"} : Refuses(k, result)
         \/ \E r \in DOMAIN redeemed : Attach(r) \/ Credit(r) \/ RollbackForRefund(r)
         \/ \E words, new : Makes(words, new)
         \/ \E w \in DOMAIN promos, d \in PromoRows : Patched(w, d)
         \/ Flips \/ Lapses
         \/ Rests
<1>1. minute \in Nat /\ minute \in 0..plot.end /\ plot.end \in Nat /\ passed \subseteq DOMAIN plot.texts
  BY Tables, PlotsAssumption DEF PromoTypeOK
<1>2. CASE Operate
  BY <1>2, OperateEffect
<1>3. CASE ExpireReservations \/ Rollover \/ Guard
  BY <1>3, JobEffect
<1>4. CASE PromoDashboard
  BY <1>1, <1>4 DEF PromoDashboard, Rests
<1>5. CASE Minute
  BY <1>1, <1>5 DEF Minute, Rests
<1>6. ASSUME NEW k \in DOMAIN plot.texts, Redeem(k) \/ RequestPasses(k) \/ RequestEnds(k)
      PROVE  Accepts(k) \/ (\E result \in Results \ {"ACCEPTED"} : Refuses(k, result)) \/ Rests
  BY <1>6, AttemptCases DEF Waiting
<1>7. CASE UNCHANGED promoVars
  BY <1>1, <1>7 DEF promoVars, Rests
<1>8. QED
  BY <1>2, <1>3, <1>4, <1>5, <1>6, <1>7 DEF PromoNext

-----------------------------------------------------------------------------
(* Types. *)

\* One redemption more.
LEMMA RowAdded ==
  ASSUME PromoTypeOK, NEW row \in RedemptionRows, redeemed' = Append(redeemed, row)
  PROVE  /\ redeemed' \in Seq(RedemptionRows)
         /\ DOMAIN redeemed' = DOMAIN redeemed \cup {Len(redeemed) + 1}
         /\ Len(redeemed) + 1 \notin DOMAIN redeemed /\ Len(redeemed') = Len(redeemed) + 1
         /\ redeemed'[Len(redeemed) + 1] = row
         /\ \A r \in DOMAIN redeemed : redeemed'[r] = redeemed[r]
<1>1. redeemed \in Seq(RedemptionRows) /\ DOMAIN redeemed = 1..Len(redeemed) /\ Len(redeemed) \in Nat
  BY Tables DEF PromoTypeOK
<1>2. /\ redeemed' \in Seq(RedemptionRows) /\ Len(redeemed') = Len(redeemed) + 1
      /\ \A r \in 1..Len(redeemed) : redeemed'[r] = redeemed[r]
      /\ redeemed'[Len(redeemed) + 1] = row
  BY <1>1, AppendProperties
<1>3. DOMAIN redeemed' = 1..Len(redeemed')
  BY <1>2, LenProperties
<1>4. QED
  BY <1>1, <1>2, <1>3

\* A redemption is written over.
LEMMA RowWritten ==
  ASSUME PromoTypeOK, NEW r \in DOMAIN redeemed, NEW row \in RedemptionRows,
         redeemed' = [redeemed EXCEPT ![r] = row]
  PROVE  /\ redeemed' \in Seq(RedemptionRows) /\ DOMAIN redeemed' = DOMAIN redeemed
         /\ redeemed'[r] = row /\ \A s \in DOMAIN redeemed \ {r} : redeemed'[s] = redeemed[s]
<1>1. redeemed \in Seq(RedemptionRows) /\ DOMAIN redeemed = 1..Len(redeemed)
  BY Tables DEF PromoTypeOK
<1>2. /\ redeemed' \in Seq(RedemptionRows) /\ Len(redeemed') = Len(redeemed)
      /\ \A s \in 1..Len(redeemed) : redeemed'[s] = IF s = r THEN row ELSE redeemed[s]
  BY <1>1, ExceptSeq
<1>3. DOMAIN redeemed' = 1..Len(redeemed')
  BY <1>2, LenProperties
<1>4. QED
  BY <1>1, <1>2, <1>3

\* One attempt more.
LEMMA LogEffect ==
  ASSUME PromoTypeOK, NEW k \in DOMAIN plot.texts, NEW result \in Results, Log(plot.texts[k], result)
  PROVE  /\ attempts' \in Seq(AttemptRows)
         /\ DOMAIN attempts' = DOMAIN attempts \cup {Len(attempts) + 1}
         /\ Len(attempts) + 1 \notin DOMAIN attempts
         /\ attempts'[Len(attempts) + 1].user = plot.texts[k].user
         /\ attempts'[Len(attempts) + 1].source = plot.texts[k].source
         /\ attempts'[Len(attempts) + 1].result = result
         /\ attempts'[Len(attempts) + 1].at = minute
         /\ \A n \in DOMAIN attempts : attempts'[n] = attempts[n] /\ n < Len(attempts) + 1
<1> DEFINE t == plot.texts[k]
           row == [user |-> t.user, word |-> t.word, result |-> result, source |-> t.source, at |-> minute]
<1>1. attempts \in Seq(AttemptRows) /\ DOMAIN attempts = 1..Len(attempts) /\ Len(attempts) \in Nat
      /\ t \in Texts /\ minute \in Nat
  BY Tables DEF PromoTypeOK
<1>2. row \in AttemptRows
  BY <1>1 DEF AttemptRows, Texts
<1>3. attempts' = Append(attempts, row)
  BY DEF Log
<1>4. row.user = t.user /\ row.source = t.source /\ row.result = result /\ row.at = minute
  OBVIOUS
<1> HIDE DEF row
<1>5. /\ attempts' \in Seq(AttemptRows) /\ Len(attempts') = Len(attempts) + 1
      /\ \A n \in 1..Len(attempts) : attempts'[n] = attempts[n]
      /\ attempts'[Len(attempts) + 1] = row
  BY <1>1, <1>2, <1>3, AppendProperties
<1>6. DOMAIN attempts' = 1..Len(attempts')
  BY <1>5, LenProperties
<1>7. QED
  BY <1>1, <1>4, <1>5, <1>6

\* One use more of a code.
LEMMA UseCounted ==
  ASSUME PromoTypeOK, NEW w \in DOMAIN promos, promos' = [promos EXCEPT ![w].used = @ + 1]
  PROVE  /\ promos' \in [DOMAIN promos -> PromoRows] /\ DOMAIN promos' = DOMAIN promos
         /\ promos'[w] = [promos[w] EXCEPT !.used = @ + 1]
         /\ \A v \in DOMAIN promos \ {w} : promos'[v] = promos[v]
<1> DEFINE row == [promos[w] EXCEPT !.used = @ + 1]
<1>1. promos \in [DOMAIN promos -> PromoRows] /\ promos[w] \in PromoRows
  BY Tables DEF PromoTypeOK
<1>2. row \in PromoRows
  BY <1>1 DEF PromoRows
<1>3. promos' = [promos EXCEPT ![w] = row]
  OBVIOUS
<1> HIDE DEF row
<1>4. /\ promos' \in [DOMAIN promos -> PromoRows] /\ promos'[w] = row
      /\ \A v \in DOMAIN promos \ {w} : promos'[v] = promos[v]
  BY <1>1, <1>2, <1>3
<1>5. QED
  BY <1>4 DEF row

\* What a new redemption is made of.
RowOf(k, status, until, gave) ==
  [user |-> plot.texts[k].user, word |-> plot.texts[k].word, key |-> k, at |-> minute,
   status |-> status, until |-> until, bought |-> FALSE, gave |-> gave]

\* A code that gives premium, and one that holds a discount back.
Gives(k) ==
  LET u == plot.texts[k].user
      w == plot.texts[k].word
  IN /\ promos[w].days > 0
     /\ redeemed' = Append(redeemed, RowOf(k, "APPLIED", NoTerm, promos[w].days))
     /\ promos' = [promos EXCEPT ![w].used = @ + 1]
     /\ term' = [term EXCEPT ![u] = (IF @ = NoTerm THEN minute ELSE @) + promos[w].days]
     /\ begun' = [begun EXCEPT ![u] = IF @ = NoTerm THEN minute ELSE @]
Holds(k) ==
  /\ redeemed' = Append(redeemed, RowOf(k, "RESERVED", minute + HoldTime, 0))
  /\ UNCHANGED <<promos, term, begun>>

LEMMA AcceptsEffect ==
  ASSUME PromoTypeOK, NEW k \in DOMAIN plot.texts, Accepts(k)
  PROVE  /\ plot.texts[k].user \in Persons /\ plot.texts[k].word \in DOMAIN promos
         /\ MayRetry(plot.texts[k].user, plot.texts[k].word) /\ ~Exhausted(plot.texts[k].word)
         /\ Gives(k) \/ Holds(k)
         /\ registered' = registered \cup {plot.texts[k].user}
         /\ RowOf(k, "APPLIED", NoTerm, promos[plot.texts[k].word].days) \in RedemptionRows
         /\ RowOf(k, "RESERVED", minute + HoldTime, 0) \in RedemptionRows
         /\ minute' = minute /\ board' = board /\ plot' = plot
<1> DEFINE u == plot.texts[k].user
           w == plot.texts[k].word
<1>1. /\ plot.texts[k] \in Texts /\ minute \in Nat /\ k \in Nat /\ HoldTime \in Nat
      /\ \A v \in DOMAIN promos : promos[v] \in PromoRows
  BY Tables, AttemptsAssumption
<1>2. Verdict(u, w) = "ACCEPTED"
  BY DEF Accepts
<1>3. w \in DOMAIN promos /\ MayRetry(u, w) /\ ~Exhausted(w)
  BY <1>2 DEF Verdict
<1>4. u \in Persons /\ w \in Words /\ promos[w].days \in Nat
  BY <1>1, <1>3 DEF Texts, PromoRows
<1>5. /\ RowOf(k, "APPLIED", NoTerm, promos[w].days) \in RedemptionRows
      /\ RowOf(k, "RESERVED", minute + HoldTime, 0) \in RedemptionRows
  BY <1>1, <1>4 DEF RowOf, RedemptionRows
<1>6. Gives(k) \/ Holds(k)
  BY DEF Accepts, Accept, Grant, Reserve, NewRedemption, Gives, Holds, RowOf
<1>7. QED
  BY <1>3, <1>4, <1>5, <1>6 DEF Accepts, Accept

\* What no step does to a redemption there is: it changes its owner, its code or
\* what it gave, is open again, or forgets that it was used.
Rewrites ==
  /\ DOMAIN redeemed' = DOMAIN redeemed
  /\ \A r \in DOMAIN redeemed :
       /\ redeemed'[r].user = redeemed[r].user /\ redeemed'[r].word = redeemed[r].word
       /\ redeemed'[r].at = redeemed[r].at /\ redeemed'[r].gave = redeemed[r].gave
       /\ redeemed[r].status # "RESERVED" => redeemed'[r].status \in {redeemed[r].status, "REVOKED"}
       /\ redeemed[r].bought => redeemed'[r].bought
       /\ redeemed'[r].bought => redeemed[r].bought \/ redeemed[r].status = "RESERVED"
       /\ redeemed[r].status = "APPLIED" => redeemed'[r].status = "APPLIED" \/ redeemed'[r].bought

\* Only Credit uses a reservation.
Unused == \A r \in DOMAIN redeemed : redeemed'[r].status = "APPLIED" => redeemed[r].status = "APPLIED"

LEMMA AttachEffect ==
  ASSUME PromoTypeOK, NEW r \in DOMAIN redeemed, Attach(r)
  PROVE  /\ redeemed' \in Seq(RedemptionRows) /\ Rewrites /\ Unused
         /\ redeemed[r].user \in Persons
<1> DEFINE row == [redeemed[r] EXCEPT !.bought = TRUE, !.until = minute + HoldTime]
<1>1. redeemed[r] \in RedemptionRows /\ minute + HoldTime \in Nat
  BY Tables, AttemptsAssumption
<1>2. /\ row \in RedemptionRows /\ row.user = redeemed[r].user /\ row.word = redeemed[r].word
      /\ row.at = redeemed[r].at /\ row.gave = redeemed[r].gave /\ row.status = redeemed[r].status
      /\ row.bought
  BY <1>1 DEF RedemptionRows
<1>3. redeemed' = [redeemed EXCEPT ![r] = row] /\ redeemed[r].status = "RESERVED"
  BY DEF Attach, Usable
<1>4. redeemed[r].user \in Persons
  BY <1>1 DEF RedemptionRows
<1> HIDE DEF row
<1>5. /\ redeemed' \in Seq(RedemptionRows) /\ DOMAIN redeemed' = DOMAIN redeemed
      /\ redeemed'[r] = row /\ \A s \in DOMAIN redeemed \ {r} : redeemed'[s] = redeemed[s]
  BY <1>2, <1>3, RowWritten
<1>6. QED
  BY <1>2, <1>3, <1>4, <1>5 DEF Rewrites, Unused

LEMMA CreditEffect ==
  ASSUME PromoTypeOK, NEW r \in DOMAIN redeemed, Credit(r)
  PROVE  /\ redeemed' \in Seq(RedemptionRows) /\ Rewrites
         /\ redeemed[r].status = "RESERVED" /\ redeemed'[r].status = "APPLIED"
         /\ \A s \in DOMAIN redeemed \ {r} : redeemed'[s] = redeemed[s]
<1> DEFINE row == [redeemed[r] EXCEPT !.status = "APPLIED"]
<1>1. redeemed[r] \in RedemptionRows
  BY Tables
<1>2. /\ row \in RedemptionRows /\ row.user = redeemed[r].user /\ row.word = redeemed[r].word
      /\ row.at = redeemed[r].at /\ row.gave = redeemed[r].gave /\ row.status = "APPLIED"
      /\ row.bought = redeemed[r].bought
  BY <1>1 DEF RedemptionRows
<1>3. redeemed' = [redeemed EXCEPT ![r] = row] /\ redeemed[r].status = "RESERVED"
  BY DEF Credit, Usable
<1> HIDE DEF row
<1>4. /\ redeemed' \in Seq(RedemptionRows) /\ DOMAIN redeemed' = DOMAIN redeemed
      /\ redeemed'[r] = row /\ \A s \in DOMAIN redeemed \ {r} : redeemed'[s] = redeemed[s]
  BY <1>2, <1>3, RowWritten
<1>5. QED
  BY <1>2, <1>3, <1>4 DEF Rewrites

LEMMA RollbackEffect ==
  ASSUME PromoTypeOK, NEW r \in DOMAIN redeemed, RollbackForRefund(r)
  PROVE  redeemed' \in Seq(RedemptionRows) /\ Rewrites /\ Unused
<1> DEFINE row == [redeemed[r] EXCEPT !.status = "REVOKED"]
<1>1. redeemed[r] \in RedemptionRows
  BY Tables
<1>2. /\ row \in RedemptionRows /\ row.user = redeemed[r].user /\ row.word = redeemed[r].word
      /\ row.at = redeemed[r].at /\ row.gave = redeemed[r].gave /\ row.status = "REVOKED"
      /\ row.bought = redeemed[r].bought
  BY <1>1 DEF RedemptionRows
<1>3. redeemed' = [redeemed EXCEPT ![r] = row] /\ redeemed[r].bought
  BY DEF RollbackForRefund
<1> HIDE DEF row
<1>4. /\ redeemed' \in Seq(RedemptionRows) /\ DOMAIN redeemed' = DOMAIN redeemed
      /\ redeemed'[r] = row /\ \A s \in DOMAIN redeemed \ {r} : redeemed'[s] = redeemed[s]
  BY <1>2, <1>3, RowWritten
<1>5. QED
  BY <1>2, <1>3, <1>4 DEF Rewrites, Unused

LEMMA LapsesEffect ==
  ASSUME PromoTypeOK, Lapses
  PROVE  Rewrites /\ Unused
<1>1. \A r \in DOMAIN redeemed : redeemed[r] \in RedemptionRows
  BY Tables
<1>2. ASSUME NEW r \in DOMAIN redeemed
      PROVE  /\ redeemed'[r].user = redeemed[r].user /\ redeemed'[r].word = redeemed[r].word
             /\ redeemed'[r].at = redeemed[r].at /\ redeemed'[r].gave = redeemed[r].gave
             /\ redeemed'[r].bought = redeemed[r].bought
             /\ \/ redeemed'[r].status = redeemed[r].status
                \/ redeemed[r].status = "RESERVED" /\ redeemed'[r].status \in {"REVOKED", "EXPIRED"}
  <2>1. redeemed[r] \in RedemptionRows
    BY <1>1
  <2>2. CASE redeemed'[r] = redeemed[r]
    BY <2>2
  <2>3. CASE /\ redeemed[r].status = "RESERVED"
             /\ redeemed'[r] = [redeemed[r] EXCEPT !.status = "REVOKED", !.until = minute]
    BY <2>1, <2>3 DEF RedemptionRows
  <2>4. CASE /\ redeemed[r].status = "RESERVED"
             /\ redeemed'[r] = [redeemed[r] EXCEPT !.status = "EXPIRED"]
    BY <2>1, <2>4 DEF RedemptionRows
  <2>5. QED
    BY <2>2, <2>3, <2>4 DEF Lapses
<1>3. QED
  BY <1>2 DEF Lapses, Rewrites, Unused

\* Every redemption is one of a code there is, by a registered user.
Known ==
  \A r \in DOMAIN redeemed : redeemed[r].word \in DOMAIN promos /\ redeemed[r].user \in registered

TypeInv == PromoTypeOK /\ Waiting /\ Known

LEMMA InitTypes == PromoInit => TypeInv
<1> SUFFICES ASSUME PromoInit PROVE TypeInv
  OBVIOUS
<1>1. /\ plot \in Plots /\ plot.end \in Nat /\ plot.known \subseteq Persons
      /\ DOMAIN plot.promos \subseteq Words /\ plot.promos \in [DOMAIN plot.promos -> Made]
  BY PlotsAssumption DEF PromoInit
<1>2. Made \subseteq PromoRows
  BY DEF Made
<1>3. promos = plot.promos
  BY DEF PromoInit
<1>4. DOMAIN promos \subseteq Words /\ promos \in [DOMAIN promos -> PromoRows]
  BY <1>1, <1>2, <1>3
<1>5. /\ redeemed = <<>> /\ attempts = <<>> /\ minute \in 0..plot.end /\ passed = {}
      /\ term \in [Persons -> Nat \cup {NoTerm}] /\ begun \in [Persons -> Nat \cup {NoTerm}]
      /\ registered \subseteq Persons /\ buyers = {}
  BY <1>1 DEF PromoInit
<1>6. redeemed \in Seq(RedemptionRows) /\ attempts \in Seq(AttemptRows) /\ DOMAIN redeemed = {}
  BY <1>5
<1>7. QED
  BY <1>1, <1>4, <1>5, <1>6 DEF TypeInv, PromoTypeOK, Waiting, Known

LEMMA AcceptsTypes ==
  ASSUME TypeInv, NEW k \in DOMAIN plot.texts, Accepts(k)
  PROVE  TypeInv'
<1> DEFINE u == plot.texts[k].user
           w == plot.texts[k].word
           days == promos[w].days
<1>1. PromoTypeOK /\ minute \in Nat /\ "ACCEPTED" \in Results
  BY Tables DEF TypeInv, Results
<1>2. /\ u \in Persons /\ w \in DOMAIN promos
      /\ Gives(k) \/ Holds(k)
      /\ registered' = registered \cup {u}
      /\ RowOf(k, "APPLIED", NoTerm, days) \in RedemptionRows
      /\ RowOf(k, "RESERVED", minute + HoldTime, 0) \in RedemptionRows
  BY <1>1, AcceptsEffect
<1>3. UNCHANGED <<minute, buyers, plot>> /\ passed' \subseteq passed /\ attempts' \in Seq(AttemptRows)
  BY <1>1, LogEffect DEF Accepts, Tried
<1>4. promos[w] \in PromoRows
  BY <1>1, <1>2, Tables
<1>5. days \in Nat
  BY <1>4 DEF PromoRows
<1>6. /\ redeemed' \in Seq(RedemptionRows) /\ Known'
      /\ DOMAIN promos' = DOMAIN promos /\ promos' \in [DOMAIN promos -> PromoRows]
      /\ term' \in [Persons -> Nat \cup {NoTerm}] /\ begun' \in [Persons -> Nat \cup {NoTerm}]
  <2>1. CASE Gives(k)
    <3> DEFINE row == RowOf(k, "APPLIED", NoTerm, days)
    <3>1. row.word = w /\ row.user = u
      BY DEF RowOf
    <3>2. redeemed' = Append(redeemed, row)
      BY <2>1 DEF Gives
    <3> HIDE DEF row
    <3>3. /\ redeemed' \in Seq(RedemptionRows) /\ DOMAIN redeemed' = DOMAIN redeemed \cup {Len(redeemed) + 1}
          /\ redeemed'[Len(redeemed) + 1] = row /\ \A r \in DOMAIN redeemed : redeemed'[r] = redeemed[r]
      BY <1>1, <1>2, <3>2, RowAdded DEF row
    <3>4. DOMAIN promos' = DOMAIN promos /\ promos' \in [DOMAIN promos -> PromoRows]
      BY <1>1, <1>2, <2>1, UseCounted DEF Gives
    <3>5. Known'
      BY <1>2, <3>1, <3>3, <3>4 DEF TypeInv, Known
    <3>6. /\ term \in [Persons -> Nat \cup {NoTerm}] /\ begun \in [Persons -> Nat \cup {NoTerm}]
      BY <1>1 DEF PromoTypeOK
    <3>7. (IF term[u] = NoTerm THEN minute ELSE term[u]) + days \in Nat
          /\ (IF begun[u] = NoTerm THEN minute ELSE begun[u]) \in Nat
      BY <1>1, <1>2, <1>5, <3>6
    <3>8. /\ term' \in [Persons -> Nat \cup {NoTerm}] /\ begun' \in [Persons -> Nat \cup {NoTerm}]
      BY <2>1, <3>6, <3>7 DEF Gives
    <3>9. QED
      BY <3>3, <3>4, <3>5, <3>8
  <2>2. CASE Holds(k)
    <3> DEFINE row == RowOf(k, "RESERVED", minute + HoldTime, 0)
    <3>1. row.word = w /\ row.user = u
      BY DEF RowOf
    <3>2. redeemed' = Append(redeemed, row) /\ UNCHANGED <<promos, term, begun>>
      BY <2>2 DEF Holds
    <3> HIDE DEF row
    <3>3. /\ redeemed' \in Seq(RedemptionRows) /\ DOMAIN redeemed' = DOMAIN redeemed \cup {Len(redeemed) + 1}
          /\ redeemed'[Len(redeemed) + 1] = row /\ \A r \in DOMAIN redeemed : redeemed'[r] = redeemed[r]
      BY <1>1, <1>2, <3>2, RowAdded DEF row
    <3>4. Known'
      BY <1>2, <3>1, <3>2, <3>3 DEF TypeInv, Known
    <3>5. QED
      BY <1>1, <3>2, <3>3, <3>4 DEF PromoTypeOK
  <2>3. QED
    BY <1>2, <2>1, <2>2
<1>7. QED
  BY <1>1, <1>2, <1>3, <1>6 DEF TypeInv, PromoTypeOK, Waiting

LEMMA PurchaseTypes ==
  ASSUME TypeInv, NEW r \in DOMAIN redeemed, Attach(r) \/ Credit(r) \/ RollbackForRefund(r)
  PROVE  TypeInv'
<1>1. PromoTypeOK
  BY DEF TypeInv
<1>2. redeemed' \in Seq(RedemptionRows) /\ Rewrites
  BY <1>1, AttachEffect, CreditEffect, RollbackEffect
<1>3. DOMAIN promos' = DOMAIN promos /\ promos' \in [DOMAIN promos -> PromoRows]
  <2>1. CASE Credit(r)
    <3>1. redeemed[r].word \in DOMAIN promos /\ promos' = [promos EXCEPT ![redeemed[r].word].used = @ + 1]
      BY <2>1 DEF TypeInv, Known, Credit
    <3>2. QED
      BY <1>1, <3>1, UseCounted
  <2>2. CASE ~Credit(r)
    BY <1>1, <2>2 DEF Attach, RollbackForRefund, PromoTypeOK
  <2>3. QED
    BY <2>1, <2>2
<1>4. UNCHANGED <<minute, attempts, passed, term, registered, plot, begun>>
  BY DEF Attach, Credit, RollbackForRefund
<1>5. buyers' \subseteq registered'
  <2>1. CASE Attach(r)
    BY <1>1, <2>1 DEF Attach, TypeInv, Known, PromoTypeOK
  <2>2. QED
    BY <1>1, <1>4, <2>1 DEF Credit, RollbackForRefund, PromoTypeOK
<1>6. Known'
  BY <1>2, <1>3, <1>4 DEF TypeInv, Known, Rewrites
<1>7. QED
  BY <1>1, <1>2, <1>3, <1>4, <1>5, <1>6 DEF TypeInv, PromoTypeOK, Waiting

LEMMA MadeEffect ==
  ASSUME PromoTypeOK, NEW words, NEW new, Makes(words, new)
  PROVE  /\ DOMAIN promos' = DOMAIN promos \cup words /\ DOMAIN promos' \subseteq Words
         /\ promos' \in [DOMAIN promos' -> PromoRows] /\ new \in PromoRows
         /\ new.used = 0 /\ new.perUser <= new.most
         /\ \A w \in words : promos'[w] = new /\ w \notin DOMAIN promos
         /\ \A w \in DOMAIN promos : promos'[w] = promos[w]
         /\ redeemed' = redeemed /\ Unmoved
<1>1. /\ words \cap DOMAIN promos = {} /\ words \subseteq Words /\ new \in Made
      /\ promos' = [w \in DOMAIN promos \cup words |-> IF w \in words THEN new ELSE promos[w]]
      /\ redeemed' = redeemed /\ Unmoved
  BY DEF Makes, Added
<1>2. new \in PromoRows /\ new.used = 0 /\ new.perUser <= new.most
  BY <1>1 DEF Made
<1>3. DOMAIN promos \subseteq Words /\ \A w \in DOMAIN promos : promos[w] \in PromoRows
  BY Tables
<1>4. QED
  BY <1>1, <1>2, <1>3

LEMMA StepTypes == TypeInv /\ [PromoNext]_promoVars => TypeInv'
<1> SUFFICES ASSUME TypeInv, [PromoNext]_promoVars PROVE TypeInv'
  OBVIOUS
<1>1. PromoTypeOK /\ Waiting /\ Known
  BY DEF TypeInv
<1>2. CASE \E k \in DOMAIN plot.texts : Accepts(k)
  BY <1>2, AcceptsTypes
<1>3. CASE \E k \in DOMAIN plot.texts, result \in Results \ {"ACCEPTED"} : Refuses(k, result)
  <2>1. PICK k \in DOMAIN plot.texts, result \in Results \ {"ACCEPTED"} : Refuses(k, result)
    BY <1>3
  <2>2. attempts' \in Seq(AttemptRows)
    BY <1>1, <2>1, LogEffect DEF Refuses, Tried
  <2>3. QED
    BY <1>1, <2>1, <2>2 DEF Refuses, TypeInv, PromoTypeOK, Waiting, Known
<1>4. CASE \E r \in DOMAIN redeemed : Attach(r) \/ Credit(r) \/ RollbackForRefund(r)
  BY <1>4, PurchaseTypes
<1>5. CASE \E words, new : Makes(words, new)
  <2>1. PICK words, new : Makes(words, new)
    BY <1>5
  <2>2. /\ DOMAIN promos' = DOMAIN promos \cup words /\ DOMAIN promos' \subseteq Words
        /\ promos' \in [DOMAIN promos' -> PromoRows] /\ redeemed' = redeemed /\ Unmoved
    BY <1>1, <2>1, MadeEffect
  <2>3. QED
    BY <1>1, <2>2 DEF Unmoved, TypeInv, PromoTypeOK, Waiting, Known
<1>6. CASE \E w \in DOMAIN promos, d \in PromoRows : Patched(w, d)
  BY <1>1, <1>6 DEF Patched, Unmoved, TypeInv, PromoTypeOK, Waiting, Known
<1>7. CASE Flips
  BY <1>1, <1>7 DEF Flips, Unmoved, TypeInv, PromoTypeOK, Waiting, Known
<1>8. CASE Lapses
  <2>1. Rewrites
    BY <1>1, <1>8, LapsesEffect
  <2>2. QED
    BY <1>1, <1>8, <2>1 DEF Lapses, Rewrites, Unmoved, TypeInv, PromoTypeOK, Waiting, Known
<1>9. CASE Rests
  BY <1>1, <1>9 DEF Rests, TypeInv, PromoTypeOK, Waiting, Known
<1>10. QED
  BY <1>1, <1>2, <1>3, <1>4, <1>5, <1>6, <1>7, <1>8, <1>9, StepCases

LEMMA Typed == PromoSpec => []TypeInv
BY InitTypes, StepTypes, PTL DEF PromoSpec

\* Every code, redemption and attempt keeps its type, for any number of users,
\* codes and texts.
THEOREM TypeCorrect == PromoSpec => []PromoTypeOK
<1>1. TypeInv => PromoTypeOK
  BY DEF TypeInv
<1>2. QED
  BY <1>1, Typed, PTL

-----------------------------------------------------------------------------
(* PromoStep and ListedAsDisplayed: status by status. *)

\* A campaign that ended stays ended, and a redemption that is over is at most
\* revoked.
LEMMA StepOver == TypeInv /\ [PromoNext]_promoVars => PromoStep
<1> SUFFICES ASSUME TypeInv, [PromoNext]_promoVars PROVE PromoStep
  OBVIOUS
<1>1. PromoTypeOK /\ Waiting
  BY DEF TypeInv
<1>2. /\ \A w \in DOMAIN promos : promos[w] \in PromoRows
      /\ \A r \in DOMAIN redeemed : redeemed[r] \in RedemptionRows
  BY <1>1, Tables
<1>3. CASE \E k \in DOMAIN plot.texts : Accepts(k)
  <2>1. PICK k \in DOMAIN plot.texts : Accepts(k)
    BY <1>3
  <2> DEFINE w == plot.texts[k].word
  <2>2. /\ w \in DOMAIN promos /\ RowOf(k, "APPLIED", NoTerm, promos[w].days) \in RedemptionRows
        /\ RowOf(k, "RESERVED", minute + HoldTime, 0) \in RedemptionRows
    BY <1>1, <2>1, AcceptsEffect
  <2>3. CASE Gives(k)
    <3>1. \A r \in DOMAIN redeemed : redeemed'[r] = redeemed[r]
      BY <1>1, <2>2, <2>3, RowAdded DEF Gives
    <3>2. /\ promos'[w] = [promos[w] EXCEPT !.used = @ + 1]
          /\ \A v \in DOMAIN promos \ {w} : promos'[v] = promos[v]
      BY <1>1, <2>2, <2>3, UseCounted DEF Gives
    <3>3. promos'[w].status = promos[w].status
      BY <1>2, <2>2, <3>2 DEF PromoRows
    <3>4. QED
      BY <3>1, <3>2, <3>3 DEF PromoStep
  <2>4. CASE Holds(k)
    <3>1. \A r \in DOMAIN redeemed : redeemed'[r] = redeemed[r]
      BY <1>1, <2>2, <2>4, RowAdded DEF Holds
    <3>2. QED
      BY <2>4, <3>1 DEF Holds, PromoStep
  <2>5. QED
    BY <1>1, <2>1, <2>3, <2>4, AcceptsEffect
<1>4. CASE \E k \in DOMAIN plot.texts, result \in Results \ {"ACCEPTED"} : Refuses(k, result)
  BY <1>4 DEF Refuses, PromoStep
<1>5. CASE \E r \in DOMAIN redeemed : Attach(r) \/ Credit(r) \/ RollbackForRefund(r)
  <2>1. PICK r \in DOMAIN redeemed : Attach(r) \/ Credit(r) \/ RollbackForRefund(r)
    BY <1>5
  <2>2. Rewrites
    BY <1>1, <2>1, AttachEffect, CreditEffect, RollbackEffect
  <2>3. \A w \in DOMAIN promos : promos'[w].status = promos[w].status
    <3>1. CASE Credit(r)
      <4> DEFINE w == redeemed[r].word
      <4>1. w \in DOMAIN promos /\ promos' = [promos EXCEPT ![w].used = @ + 1]
        BY <3>1 DEF TypeInv, Known, Credit
      <4> HIDE DEF w
      <4>2. /\ promos'[w] = [promos[w] EXCEPT !.used = @ + 1]
            /\ \A v \in DOMAIN promos \ {w} : promos'[v] = promos[v]
        BY <1>1, <4>1, UseCounted
      <4>3. promos'[w].status = promos[w].status
        BY <1>2, <4>1, <4>2 DEF PromoRows
      <4>4. QED
        BY <4>2, <4>3
    <3>2. CASE ~Credit(r)
      BY <2>1, <3>2 DEF Attach, RollbackForRefund
    <3>3. QED
      BY <3>1, <3>2
  <2>4. QED
    BY <2>2, <2>3 DEF Rewrites, PromoStep
<1>6. CASE \E words, new : Makes(words, new)
  BY <1>1, <1>6, MadeEffect DEF PromoStep
<1>7. CASE \E w \in DOMAIN promos, d \in PromoRows : Patched(w, d)
  <2>1. PICK w \in DOMAIN promos, d \in PromoRows : Patched(w, d)
    BY <1>7
  <2>2. promos'[w].status = promos[w].status
    BY <1>2, <2>1 DEF Patched, PromoRows
  <2>3. QED
    BY <2>1, <2>2 DEF Patched, PromoStep
<1>8. CASE Flips
  <2>1. ASSUME NEW w \in DOMAIN promos, promos[w].status \in {"EXPIRED", "DEPLETED"}
        PROVE  promos'[w].status = promos[w].status
    <3>1. PICK s \in {"ACTIVE", "PAUSED", "EXPIRED", "DEPLETED"} :
            promos'[w] = [promos[w] EXCEPT !.status = s] /\ s = promos[w].status
      BY <1>8, <2>1 DEF Flips
    <3>2. QED
      BY <1>2, <3>1 DEF PromoRows
  <2>2. redeemed' = redeemed
    BY <1>8 DEF Flips
  <2>3. QED
    BY <2>1, <2>2 DEF PromoStep
<1>9. CASE Lapses
  <2>1. Rewrites /\ promos' = promos
    BY <1>1, <1>9, LapsesEffect DEF Lapses
  <2>2. QED
    BY <2>1 DEF Rewrites, PromoStep
<1>10. CASE Rests
  BY <1>10 DEF Rests, PromoStep
<1>11. QED
  BY <1>1, <1>3, <1>4, <1>5, <1>6, <1>7, <1>8, <1>9, <1>10, StepCases

\* Whatever operators, jobs and payments do to it, a campaign that ended stays
\* ended, and a redemption that is over is at most revoked.
THEOREM OverIsOver == PromoSpec => [][PromoStep]_promoVars
BY Typed, StepOver, PTL DEF PromoSpec

\* The status the console shows for a code is the name of a list it is in.
THEOREM ListedAsDisplayedThm == PromoSpec => []ListedAsDisplayed
<1>1. TypeInv => ListedAsDisplayed
  <2> SUFFICES ASSUME TypeInv, NEW w \in DOMAIN promos PROVE w \in Listed(Displayed(w))
    BY DEF ListedAsDisplayed
  <2>1. promos[w] \in PromoRows /\ minute \in Nat
    BY Tables DEF TypeInv
  <2>2. promos[w].status \in {"ACTIVE", "PAUSED", "EXPIRED", "DEPLETED"} /\ promos[w].until \in Nat
    BY <2>1 DEF PromoRows
  <2>3. CASE promos[w].status = "PAUSED"
    <3>1. Displayed(w) = "inactive"
      BY <2>3 DEF Displayed
    <3>2. w \in Listed("inactive")
      BY <2>3 DEF Listed
    <3>3. QED
      BY <3>1, <3>2
  <2>4. CASE \/ promos[w].status \in {"EXPIRED", "DEPLETED"}
             \/ promos[w].status = "ACTIVE" /\ (promos[w].until <= minute \/ Exhausted(w))
    <3>1. Displayed(w) = "expired"
      BY <2>4 DEF Displayed
    <3>2. w \in Listed("expired")
      BY <2>4 DEF Listed
    <3>3. QED
      BY <3>1, <3>2
  <2>5. CASE promos[w].status = "ACTIVE" /\ ~(promos[w].until <= minute \/ Exhausted(w))
    <3>1. Displayed(w) = "active"
      BY <2>5 DEF Displayed
    <3>2. InForce(w)
      BY <2>1, <2>2, <2>5 DEF InForce
    <3>3. w \in Listed("active")
      BY <2>5, <3>2 DEF Listed
    <3>4. QED
      BY <3>1, <3>3
  <2>6. QED
    BY <2>2, <2>3, <2>4, <2>5
<1>2. QED
  BY <1>1, Typed, PTL

-----------------------------------------------------------------------------
(* UsesCounted. *)

LEMMA FinitePlaces ==
  ASSUME NEW S, NEW s \in Seq(S) PROVE IsFiniteSet(DOMAIN s)
BY LenProperties, FS_Interval

\* A part of a finite set.
LEMMA Part ==
  ASSUME NEW S, IsFiniteSet(S), NEW T \in SUBSET S
  PROVE  IsFiniteSet(T) /\ Cardinality(T) \in Nat /\ Cardinality(S) \in Nat
         /\ Cardinality(T) <= Cardinality(S)
BY FS_Subset, FS_CardinalityType

\* One element more.
LEMMA OneMore ==
  ASSUME NEW S, IsFiniteSet(S), NEW x, x \notin S
  PROVE  Cardinality(S \cup {x}) = Cardinality(S) + 1 /\ Cardinality(S) \in Nat
BY FS_AddElement, FS_CardinalityType

AppliedOf(w) == {r \in DOMAIN redeemed : redeemed[r].word = w /\ redeemed[r].status = "APPLIED"}

\* Redemptions that were a use and still are, or were taken back.
UsedOf(w) ==
  {r \in DOMAIN redeemed :
     redeemed[r].word = w /\ Consumed(r) /\ redeemed[r].status \in {"APPLIED", "REVOKED"}}

UsesInv ==
  \A w \in DOMAIN promos :
    /\ promos[w].used >= Cardinality(AppliedOf(w))
    /\ promos[w].used <= Cardinality(UsedOf(w))
    /\ promos[w].max # NoTerm => promos[w].used <= promos[w].max

LEMMA UsesFinite ==
  ASSUME PromoTypeOK, NEW w
  PROVE  /\ IsFiniteSet(AppliedOf(w)) /\ Cardinality(AppliedOf(w)) \in Nat
         /\ IsFiniteSet(UsedOf(w)) /\ Cardinality(UsedOf(w)) \in Nat
<1>1. AppliedOf(w) \in SUBSET DOMAIN redeemed /\ UsedOf(w) \in SUBSET DOMAIN redeemed
  BY DEF AppliedOf, UsedOf
<1>2. IsFiniteSet(DOMAIN redeemed)
  BY Tables
<1>3. QED
  BY <1>1, <1>2, Part

\* The uses of a code that keeps its numbers while its redemptions are revoked
\* or run out.
LEMMA UsesKept ==
  ASSUME TypeInv, TypeInv', NEW w \in DOMAIN promos, w \in DOMAIN promos',
         promos'[w].used = promos[w].used, promos'[w].max = promos[w].max,
         AppliedOf(w)' \subseteq AppliedOf(w), UsedOf(w) \subseteq UsedOf(w)', UsesInv
  PROVE  /\ promos'[w].used >= Cardinality(AppliedOf(w)')
         /\ promos'[w].used <= Cardinality(UsedOf(w)')
         /\ promos'[w].max # NoTerm => promos'[w].used <= promos'[w].max
<1>1. IsFiniteSet(AppliedOf(w)) /\ promos[w] \in PromoRows
  BY UsesFinite, Tables DEF TypeInv
<1>2. redeemed' \in Seq(RedemptionRows) /\ UsedOf(w)' \in SUBSET DOMAIN redeemed'
  BY DEF TypeInv, PromoTypeOK, UsedOf
<1>3. IsFiniteSet(UsedOf(w)')
  BY <1>2, FinitePlaces, Part
<1>4. Cardinality(AppliedOf(w)') \in Nat /\ Cardinality(AppliedOf(w)) \in Nat
      /\ Cardinality(AppliedOf(w)') <= Cardinality(AppliedOf(w))
  BY <1>1, Part
<1>5. Cardinality(UsedOf(w)') \in Nat /\ Cardinality(UsedOf(w)) \in Nat
      /\ Cardinality(UsedOf(w)) <= Cardinality(UsedOf(w)')
  BY <1>3, Part
<1>6. promos[w].used \in Nat
  BY <1>1 DEF PromoRows
<1>7. /\ promos[w].used >= Cardinality(AppliedOf(w)) /\ promos[w].used <= Cardinality(UsedOf(w))
      /\ promos[w].max # NoTerm => promos[w].used <= promos[w].max
  BY DEF UsesInv
<1>8. QED
  BY <1>4, <1>5, <1>6, <1>7

\* A use more, for a code that may have one more.
LEMMA UsesMore ==
  ASSUME TypeInv, UsesInv, NEW w \in DOMAIN promos, NEW r,
         promos'[w] = [promos[w] EXCEPT !.used = @ + 1],
         promos[w].max # NoTerm => promos[w].used < promos[w].max,
         r \notin AppliedOf(w), r \notin UsedOf(w),
         AppliedOf(w)' = AppliedOf(w) \cup {r}, UsedOf(w)' = UsedOf(w) \cup {r}
  PROVE  /\ promos'[w].used >= Cardinality(AppliedOf(w)')
         /\ promos'[w].used <= Cardinality(UsedOf(w)')
         /\ promos'[w].max # NoTerm => promos'[w].used <= promos'[w].max
<1>1. promos[w] \in PromoRows /\ IsFiniteSet(AppliedOf(w)) /\ IsFiniteSet(UsedOf(w))
  BY UsesFinite, Tables DEF TypeInv
<1>2. /\ promos'[w].used = promos[w].used + 1 /\ promos'[w].max = promos[w].max
      /\ promos[w].used \in Nat /\ promos[w].max \in Nat \cup {NoTerm}
  BY <1>1 DEF PromoRows
<1>3. Cardinality(AppliedOf(w)') = Cardinality(AppliedOf(w)) + 1 /\ Cardinality(AppliedOf(w)) \in Nat
  BY <1>1, OneMore
<1>4. Cardinality(UsedOf(w)') = Cardinality(UsedOf(w)) + 1 /\ Cardinality(UsedOf(w)) \in Nat
  BY <1>1, OneMore
<1>5. promos[w].used >= Cardinality(AppliedOf(w)) /\ promos[w].used <= Cardinality(UsedOf(w))
  BY DEF UsesInv
<1>6. QED
  BY <1>2, <1>3, <1>4, <1>5

\* What a revocation or an expiry leaves of the uses.
LEMMA UsesRewritten ==
  ASSUME TypeInv, Rewrites, NEW w
  PROVE  UsedOf(w) \subseteq UsedOf(w)' /\ (Unused => AppliedOf(w)' \subseteq AppliedOf(w))
<1>1. \A r \in DOMAIN redeemed : redeemed[r] \in RedemptionRows
  BY Tables DEF TypeInv
<1>2. ASSUME NEW r \in UsedOf(w) PROVE r \in UsedOf(w)'
  <2>1. /\ r \in DOMAIN redeemed /\ redeemed[r].word = w /\ redeemed[r].status \in {"APPLIED", "REVOKED"}
        /\ redeemed[r].status = "APPLIED" \/ redeemed[r].bought \/ redeemed[r].gave > 0
    BY DEF UsedOf, Consumed
  <2>2. /\ r \in DOMAIN redeemed' /\ redeemed'[r].word = w /\ redeemed'[r].gave = redeemed[r].gave
        /\ redeemed'[r].status \in {"APPLIED", "REVOKED"}
        /\ redeemed[r].bought => redeemed'[r].bought
        /\ redeemed[r].status = "APPLIED" => redeemed'[r].status = "APPLIED" \/ redeemed'[r].bought
    BY <2>1 DEF Rewrites
  <2>3. QED
    BY <2>1, <2>2 DEF UsedOf, Consumed
<1>3. ASSUME Unused PROVE AppliedOf(w)' \subseteq AppliedOf(w)
  BY <1>3 DEF Rewrites, Unused, AppliedOf
<1>4. QED
  BY <1>2, <1>3

LEMMA UsesAccepted ==
  ASSUME TypeInv, TypeInv', UsesInv, NEW k \in DOMAIN plot.texts, Accepts(k)
  PROVE  UsesInv'
<1>. PICK w, new : w = plot.texts[k].word /\ new = Len(redeemed) + 1
  OBVIOUS
<1>1. PromoTypeOK
  BY DEF TypeInv
<1>2. /\ w \in DOMAIN promos /\ ~Exhausted(w) /\ plot.texts[k].user \in Persons
      /\ Gives(k) \/ Holds(k)
      /\ RowOf(k, "APPLIED", NoTerm, promos[w].days) \in RedemptionRows
      /\ RowOf(k, "RESERVED", minute + HoldTime, 0) \in RedemptionRows
  BY <1>1, AcceptsEffect
<1>3. CASE Gives(k)
  <2> DEFINE row == RowOf(k, "APPLIED", NoTerm, promos[w].days)
  <2>1. row.word = w /\ row.status = "APPLIED"
    BY DEF RowOf
  <2>2. redeemed' = Append(redeemed, row) /\ row \in RedemptionRows
    BY <1>2, <1>3 DEF Gives
  <2> HIDE DEF row
  <2>3. /\ DOMAIN redeemed' = DOMAIN redeemed \cup {new} /\ new \notin DOMAIN redeemed
        /\ redeemed'[new] = row /\ \A r \in DOMAIN redeemed : redeemed'[r] = redeemed[r]
    BY <1>1, <2>2, RowAdded
  <2>4. /\ DOMAIN promos' = DOMAIN promos /\ promos'[w] = [promos[w] EXCEPT !.used = @ + 1]
        /\ \A v \in DOMAIN promos \ {w} : promos'[v] = promos[v]
    BY <1>1, <1>2, <1>3, UseCounted DEF Gives
  <2>5. /\ new \notin AppliedOf(w) /\ new \notin UsedOf(w)
        /\ AppliedOf(w)' = AppliedOf(w) \cup {new} /\ UsedOf(w)' = UsedOf(w) \cup {new}
        /\ \A v \in DOMAIN promos \ {w} : AppliedOf(v)' = AppliedOf(v) /\ UsedOf(v)' = UsedOf(v)
    BY <2>1, <2>3 DEF AppliedOf, UsedOf, Consumed
  <2>6. promos[w].max # NoTerm => promos[w].used < promos[w].max
    <3>1. promos[w] \in PromoRows
      BY <1>1, <1>2, Tables
    <3>2. promos[w].used \in Nat /\ promos[w].max \in Nat \cup {NoTerm}
      BY <3>1 DEF PromoRows
    <3>3. QED
      BY <1>2, <3>2 DEF Exhausted
  <2>7. /\ promos'[w].used >= Cardinality(AppliedOf(w)')
        /\ promos'[w].used <= Cardinality(UsedOf(w)')
        /\ promos'[w].max # NoTerm => promos'[w].used <= promos'[w].max
    BY <1>2, <2>4, <2>5, <2>6, UsesMore
  <2>8. ASSUME NEW v \in DOMAIN promos \ {w}
        PROVE  /\ promos'[v].used >= Cardinality(AppliedOf(v)')
               /\ promos'[v].used <= Cardinality(UsedOf(v)')
               /\ promos'[v].max # NoTerm => promos'[v].used <= promos'[v].max
    BY <2>4, <2>5 DEF UsesInv
  <2>9. QED
    BY <2>4, <2>7, <2>8 DEF UsesInv
<1>4. CASE Holds(k)
  <2> DEFINE row == RowOf(k, "RESERVED", minute + HoldTime, 0)
  <2>1. row.status = "RESERVED"
    BY DEF RowOf
  <2>2. redeemed' = Append(redeemed, row) /\ row \in RedemptionRows /\ promos' = promos
    BY <1>2, <1>4 DEF Holds
  <2> HIDE DEF row
  <2>3. /\ DOMAIN redeemed' = DOMAIN redeemed \cup {new} /\ new \notin DOMAIN redeemed
        /\ redeemed'[new] = row /\ \A r \in DOMAIN redeemed : redeemed'[r] = redeemed[r]
    BY <1>1, <2>2, RowAdded
  <2>4. \A v \in DOMAIN promos : AppliedOf(v)' = AppliedOf(v) /\ UsedOf(v)' = UsedOf(v)
    BY <2>1, <2>3 DEF AppliedOf, UsedOf, Consumed
  <2>5. QED
    BY <2>2, <2>4 DEF UsesInv
<1>5. QED
  BY <1>2, <1>3, <1>4

LEMMA UsesCredited ==
  ASSUME TypeInv, TypeInv', UsesInv, NEW r \in DOMAIN redeemed, Credit(r)
  PROVE  UsesInv'
<1>. PICK w : w = redeemed[r].word
  OBVIOUS
<1>1. PromoTypeOK /\ w \in DOMAIN promos
  BY DEF TypeInv, Known
<1>2. /\ Rewrites /\ redeemed[r].status = "RESERVED" /\ redeemed'[r].status = "APPLIED"
      /\ \A s \in DOMAIN redeemed \ {r} : redeemed'[s] = redeemed[s]
  BY <1>1, CreditEffect
<1>3. promos' = [promos EXCEPT ![w].used = @ + 1]
  BY DEF Credit
<1>4. /\ DOMAIN promos' = DOMAIN promos /\ promos'[w] = [promos[w] EXCEPT !.used = @ + 1]
      /\ \A v \in DOMAIN promos \ {w} : promos'[v] = promos[v]
  BY <1>1, <1>3, UseCounted
<1>5. promos[w].max # NoTerm => promos[w].used < promos[w].max
  <2>1. promos[w].max # NoTerm => promos[w].used + Cardinality(HeldByOthers(w, r)) < promos[w].max
    BY DEF Credit, Usable
  <2>2. HeldByOthers(w, r) \in SUBSET DOMAIN redeemed /\ IsFiniteSet(DOMAIN redeemed)
    BY <1>1, Tables DEF HeldByOthers
  <2>3. Cardinality(HeldByOthers(w, r)) \in Nat
    BY <2>2, Part
  <2>4. promos[w] \in PromoRows
    BY <1>1, Tables
  <2>5. promos[w].used \in Nat /\ promos[w].max \in Nat \cup {NoTerm}
    BY <2>4 DEF PromoRows
  <2>6. QED
    BY <2>1, <2>3, <2>5
<1>6. redeemed'[r].word = w /\ DOMAIN redeemed' = DOMAIN redeemed
  BY <1>2 DEF Rewrites
<1>7. redeemed[r].word = w
  OBVIOUS
<1>8. /\ r \notin AppliedOf(w) /\ r \notin UsedOf(w)
      /\ AppliedOf(w)' = AppliedOf(w) \cup {r} /\ UsedOf(w)' = UsedOf(w) \cup {r}
      /\ \A v \in DOMAIN promos \ {w} : AppliedOf(v)' = AppliedOf(v) /\ UsedOf(v)' = UsedOf(v)
  BY <1>2, <1>6, <1>7 DEF AppliedOf, UsedOf, Consumed
<1>9. /\ promos'[w].used >= Cardinality(AppliedOf(w)')
      /\ promos'[w].used <= Cardinality(UsedOf(w)')
      /\ promos'[w].max # NoTerm => promos'[w].used <= promos'[w].max
  BY <1>1, <1>4, <1>5, <1>8, UsesMore
<1>10. ASSUME NEW v \in DOMAIN promos \ {w}
       PROVE  /\ promos'[v].used >= Cardinality(AppliedOf(v)')
              /\ promos'[v].used <= Cardinality(UsedOf(v)')
              /\ promos'[v].max # NoTerm => promos'[v].used <= promos'[v].max
  BY <1>4, <1>8 DEF UsesInv
<1>11. QED
  BY <1>4, <1>9, <1>10 DEF UsesInv

\* The uses and the numbers of a code stay as they are.
LEMMA UsesFrame ==
  ASSUME TypeInv, TypeInv', UsesInv, UNCHANGED redeemed, DOMAIN promos' = DOMAIN promos,
         \A w \in DOMAIN promos : /\ promos'[w].used = promos[w].used
                                  /\ promos'[w].max = promos[w].max
                                     \/ (promos'[w].max # NoTerm => promos[w].used <= promos'[w].max)
  PROVE  UsesInv'
<1>1. \A w : AppliedOf(w)' = AppliedOf(w) /\ UsedOf(w)' = UsedOf(w)
  BY DEF AppliedOf, UsedOf, Consumed
<1>2. QED
  BY <1>1 DEF UsesInv

LEMMA UsesStep == TypeInv /\ TypeInv' /\ UsesInv /\ [PromoNext]_promoVars => UsesInv'
<1> SUFFICES ASSUME TypeInv, TypeInv', UsesInv, [PromoNext]_promoVars PROVE UsesInv'
  OBVIOUS
<1>1. PromoTypeOK /\ Waiting /\ \A w \in DOMAIN promos : promos[w] \in PromoRows
  BY Tables DEF TypeInv
<1>2. CASE \E k \in DOMAIN plot.texts : Accepts(k)
  BY <1>2, UsesAccepted
<1>3. CASE \/ \E k \in DOMAIN plot.texts, result \in Results \ {"ACCEPTED"} : Refuses(k, result)
           \/ Rests
  BY <1>3, UsesFrame DEF Refuses, Rests
<1>4. CASE \E r \in DOMAIN redeemed : Credit(r)
  BY <1>4, UsesCredited
<1>5. CASE Lapses \/ \E r \in DOMAIN redeemed : Attach(r) \/ RollbackForRefund(r)
  <2>1. Rewrites /\ Unused /\ promos' = promos
    BY <1>1, <1>5, AttachEffect, RollbackEffect, LapsesEffect DEF Attach, RollbackForRefund, Lapses
  <2>2. SUFFICES ASSUME NEW w \in DOMAIN promos
                 PROVE  /\ promos'[w].used >= Cardinality(AppliedOf(w)')
                        /\ promos'[w].used <= Cardinality(UsedOf(w)')
                        /\ promos'[w].max # NoTerm => promos'[w].used <= promos'[w].max
    BY <2>1 DEF UsesInv
  <2>3. AppliedOf(w)' \subseteq AppliedOf(w) /\ UsedOf(w) \subseteq UsedOf(w)'
    BY <2>1, UsesRewritten
  <2>4. QED
    BY <2>1, <2>3, UsesKept
<1>6. CASE \E words, new : Makes(words, new)
  <2>1. PICK words, new : Makes(words, new)
    BY <1>6
  <2>2. /\ DOMAIN promos' = DOMAIN promos \cup words /\ new \in PromoRows /\ new.used = 0
        /\ \A w \in words : promos'[w] = new /\ w \notin DOMAIN promos
        /\ \A w \in DOMAIN promos : promos'[w] = promos[w]
        /\ redeemed' = redeemed
    BY <1>1, <2>1, MadeEffect
  <2>3. \A w : AppliedOf(w)' = AppliedOf(w) /\ UsedOf(w)' = UsedOf(w)
    BY <2>2 DEF AppliedOf, UsedOf, Consumed
  <2>4. \A w \in words : AppliedOf(w) = {} /\ UsedOf(w) = {}
    BY <2>2 DEF AppliedOf, UsedOf, TypeInv, Known
  <2>5. new.max # NoTerm => new.used <= new.max
    BY <2>2 DEF PromoRows
  <2>6. Cardinality({}) = 0
    BY FS_EmptySet
  <2>7. ASSUME NEW w \in words
        PROVE  /\ promos'[w].used >= Cardinality(AppliedOf(w)')
               /\ promos'[w].used <= Cardinality(UsedOf(w)')
               /\ promos'[w].max # NoTerm => promos'[w].used <= promos'[w].max
    BY <2>2, <2>3, <2>4, <2>5, <2>6
  <2>8. ASSUME NEW w \in DOMAIN promos
        PROVE  /\ promos'[w].used >= Cardinality(AppliedOf(w)')
               /\ promos'[w].used <= Cardinality(UsedOf(w)')
               /\ promos'[w].max # NoTerm => promos'[w].used <= promos'[w].max
    BY <2>2, <2>3 DEF UsesInv
  <2>9. QED
    BY <2>2, <2>7, <2>8 DEF UsesInv
<1>7. CASE \E w \in DOMAIN promos, d \in PromoRows : Patched(w, d)
  <2>1. PICK w \in DOMAIN promos, d \in PromoRows : Patched(w, d)
    BY <1>7
  <2>2. promos'[w].used = promos[w].used /\ promos'[w].max = d.max
    BY <1>1, <2>1 DEF Patched, PromoRows
  <2>3. QED
    BY <2>1, <2>2, UsesFrame DEF Patched
<1>8. CASE Flips
  <2>1. ASSUME NEW w \in DOMAIN promos
        PROVE  promos'[w].used = promos[w].used /\ promos'[w].max = promos[w].max
    BY <1>1, <1>8, <2>1 DEF Flips, PromoRows
  <2>2. QED
    BY <1>8, <2>1, UsesFrame DEF Flips
<1>9. QED
  BY <1>1, <1>2, <1>3, <1>4, <1>5, <1>6, <1>7, <1>8, StepCases

\* However messages, requests, payments, refunds, revocations and patches mix,
\* a code counts every redemption that stands and none that was never used, and
\* never passes its maximum.
THEOREM UsesCountedThm == PromoSpec => []UsesCounted
<1>1. PromoInit => UsesInv
  <2> SUFFICES ASSUME PromoInit, NEW w \in DOMAIN promos
               PROVE  /\ promos[w].used >= Cardinality(AppliedOf(w))
                      /\ promos[w].used <= Cardinality(UsedOf(w))
                      /\ promos[w].max # NoTerm => promos[w].used <= promos[w].max
    BY DEF UsesInv
  <2>1. AppliedOf(w) = {} /\ UsedOf(w) = {}
    BY DEF PromoInit, AppliedOf, UsedOf
  <2>2. Cardinality({}) = 0
    BY FS_EmptySet
  <2>3. promos[w] \in Made
    BY PlotsAssumption DEF PromoInit
  <2>4. promos[w].used = 0 /\ promos[w].max \in Nat \cup {NoTerm}
    BY <2>3 DEF Made, PromoRows
  <2>5. QED
    BY <2>1, <2>2, <2>4
<1>2. TypeInv /\ UsesInv => UsesCounted
  <2> SUFFICES ASSUME TypeInv, UsesInv, NEW w \in DOMAIN promos
               PROVE  LET rows == {r \in DOMAIN redeemed : redeemed[r].word = w} IN
                      /\ promos[w].used >= Cardinality({r \in rows : redeemed[r].status = "APPLIED"})
                      /\ promos[w].used <= Cardinality({r \in rows : Consumed(r)})
                      /\ promos[w].max # NoTerm => promos[w].used <= promos[w].max
    BY DEF UsesCounted
  <2> DEFINE rows == {r \in DOMAIN redeemed : redeemed[r].word = w}
             spent == {r \in rows : Consumed(r)}
  <2>1. {r \in rows : redeemed[r].status = "APPLIED"} = AppliedOf(w)
    BY DEF AppliedOf
  <2>2. UsedOf(w) \in SUBSET spent /\ spent \in SUBSET DOMAIN redeemed
    BY DEF UsedOf
  <2>3. IsFiniteSet(DOMAIN redeemed) /\ promos[w] \in PromoRows
    BY Tables DEF TypeInv
  <2>4. IsFiniteSet(spent)
    BY <2>2, <2>3, Part
  <2>5. Cardinality(UsedOf(w)) \in Nat /\ Cardinality(spent) \in Nat
        /\ Cardinality(UsedOf(w)) <= Cardinality(spent)
    BY <2>2, <2>4, Part
  <2>6. promos[w].used \in Nat
    BY <2>3 DEF PromoRows
  <2>7. /\ promos[w].used >= Cardinality(AppliedOf(w)) /\ promos[w].used <= Cardinality(UsedOf(w))
        /\ promos[w].max # NoTerm => promos[w].used <= promos[w].max
    BY DEF UsesInv
  <2>8. promos[w].used <= Cardinality(spent)
    BY <2>5, <2>6, <2>7
  <2>9. QED
    BY <2>1, <2>7, <2>8
<1>3. QED
  BY <1>1, <1>2, Typed, UsesStep, PTL DEF PromoSpec

-----------------------------------------------------------------------------
(* UsesPerUser.  A reservation counts as the use it may become, so that     *)
(* using it later needs no room.                                            *)

OpenOf(u, w) == {r \in Mine(u, w) : redeemed[r].status = "RESERVED"}
SpentOf(u, w) == {r \in Mine(u, w) : Consumed(r)}
UseOf(u, w) == {r \in Mine(u, w) : Consumed(r) \/ redeemed[r].status = "RESERVED"}

PerUserInv ==
  \A w \in DOMAIN promos :
    /\ promos[w].perUser <= promos[w].most
    /\ \A u \in Persons : /\ Cardinality(OpenOf(u, w)) <= 1
                          /\ Cardinality(UseOf(u, w)) <= promos[w].most
                          /\ Cardinality(Mine(u, w)) <= promos[w].most + 1

LEMMA MineFinite ==
  ASSUME PromoTypeOK, NEW u, NEW w
  PROVE  /\ IsFiniteSet(Mine(u, w)) /\ IsFiniteSet(UseOf(u, w)) /\ IsFiniteSet(OpenOf(u, w))
         /\ Cardinality(Mine(u, w)) \in Nat /\ Cardinality(UseOf(u, w)) \in Nat
         /\ Cardinality(OpenOf(u, w)) \in Nat
<1>1. Mine(u, w) \in SUBSET DOMAIN redeemed /\ IsFiniteSet(DOMAIN redeemed)
      /\ UseOf(u, w) \in SUBSET Mine(u, w) /\ OpenOf(u, w) \in SUBSET Mine(u, w)
  BY Tables DEF Mine, UseOf, OpenOf
<1>2. IsFiniteSet(Mine(u, w)) /\ Cardinality(Mine(u, w)) \in Nat
  BY <1>1, Part
<1>3. QED
  BY <1>1, <1>2, Part

\* What the redemptions of a user become when some are used, revoked or run out.
LEMMA MineRewritten ==
  ASSUME TypeInv, Rewrites, NEW u, NEW w
  PROVE  Mine(u, w)' = Mine(u, w) /\ OpenOf(u, w)' \subseteq OpenOf(u, w)
         /\ UseOf(u, w)' \subseteq UseOf(u, w)
<1>1. Mine(u, w)' = Mine(u, w)
  BY DEF Rewrites, Mine
<1>2. \A r \in Mine(u, w) : r \in DOMAIN redeemed
  BY DEF Mine
<1>3. OpenOf(u, w)' \subseteq OpenOf(u, w)
  BY <1>1, <1>2 DEF OpenOf, Rewrites
<1>4. ASSUME NEW r \in UseOf(u, w)' PROVE r \in UseOf(u, w)
  <2>1. r \in Mine(u, w) /\ r \in DOMAIN redeemed
        /\ \/ redeemed'[r].status \in {"APPLIED", "RESERVED"}
           \/ redeemed'[r].bought \/ redeemed'[r].gave > 0
    BY <1>1, <1>2 DEF UseOf, Consumed
  <2>2. QED
    BY <2>1 DEF Rewrites, UseOf, Consumed
<1>5. QED
  BY <1>1, <1>3, <1>4

\* The row an accepted attempt leaves.
LEMMA AcceptedRow ==
  ASSUME TypeInv, NEW k \in DOMAIN plot.texts, Accepts(k)
  PROVE  /\ DOMAIN redeemed' = DOMAIN redeemed \cup {Len(redeemed) + 1}
         /\ Len(redeemed) + 1 \notin DOMAIN redeemed
         /\ \A r \in DOMAIN redeemed : redeemed'[r] = redeemed[r]
         /\ redeemed'[Len(redeemed) + 1].user = plot.texts[k].user
         /\ redeemed'[Len(redeemed) + 1].word = plot.texts[k].word
         /\ redeemed'[Len(redeemed) + 1].at = minute
         /\ DOMAIN promos' = DOMAIN promos
         /\ \A w \in DOMAIN promos : /\ promos'[w].perUser = promos[w].perUser
                                     /\ promos'[w].most = promos[w].most
<1> DEFINE w == plot.texts[k].word
<1>1. PromoTypeOK /\ \A v \in DOMAIN promos : promos[v] \in PromoRows
  BY Tables DEF TypeInv
<1>2. /\ w \in DOMAIN promos
      /\ Gives(k) \/ Holds(k)
      /\ RowOf(k, "APPLIED", NoTerm, promos[w].days) \in RedemptionRows
      /\ RowOf(k, "RESERVED", minute + HoldTime, 0) \in RedemptionRows
  BY <1>1, AcceptsEffect
<1>3. \A status, until, gave : /\ RowOf(k, status, until, gave).user = plot.texts[k].user
                               /\ RowOf(k, status, until, gave).word = w
                               /\ RowOf(k, status, until, gave).at = minute
  BY DEF RowOf
<1>4. PICK row \in RedemptionRows :
        redeemed' = Append(redeemed, row) /\ row.user = plot.texts[k].user /\ row.word = w /\ row.at = minute
  BY <1>2, <1>3 DEF Gives, Holds
<1>5. /\ DOMAIN redeemed' = DOMAIN redeemed \cup {Len(redeemed) + 1}
      /\ Len(redeemed) + 1 \notin DOMAIN redeemed
      /\ redeemed'[Len(redeemed) + 1] = row
      /\ \A r \in DOMAIN redeemed : redeemed'[r] = redeemed[r]
  BY <1>1, <1>4, RowAdded
<1>6. /\ DOMAIN promos' = DOMAIN promos
      /\ \A v \in DOMAIN promos : promos'[v].perUser = promos[v].perUser /\ promos'[v].most = promos[v].most
  <2>1. CASE Gives(k)
    <3>1. /\ DOMAIN promos' = DOMAIN promos /\ promos'[w] = [promos[w] EXCEPT !.used = @ + 1]
          /\ \A v \in DOMAIN promos \ {w} : promos'[v] = promos[v]
      BY <1>1, <1>2, <2>1, UseCounted DEF Gives
    <3>2. promos'[w].perUser = promos[w].perUser /\ promos'[w].most = promos[w].most
      BY <1>1, <1>2, <3>1 DEF PromoRows
    <3>3. QED
      BY <3>1, <3>2
  <2>2. CASE Holds(k)
    BY <2>2 DEF Holds
  <2>3. QED
    BY <1>2, <2>1, <2>2
<1>7. QED
  BY <1>4, <1>5, <1>6

LEMMA PerUserAccepted ==
  ASSUME TypeInv, TypeInv', PerUserInv, NEW k \in DOMAIN plot.texts, Accepts(k)
  PROVE  PerUserInv'
<1>. PICK u, w, new : u = plot.texts[k].user /\ w = plot.texts[k].word /\ new = Len(redeemed) + 1
  OBVIOUS
<1>1. PromoTypeOK
  BY DEF TypeInv
<1>2. u \in Persons /\ w \in DOMAIN promos /\ MayRetry(u, w)
  BY <1>1, AcceptsEffect
<1>3. /\ DOMAIN redeemed' = DOMAIN redeemed \cup {new} /\ new \notin DOMAIN redeemed
      /\ \A r \in DOMAIN redeemed : redeemed'[r] = redeemed[r]
      /\ redeemed'[new].user = u /\ redeemed'[new].word = w
      /\ DOMAIN promos' = DOMAIN promos
      /\ \A v \in DOMAIN promos : promos'[v].perUser = promos[v].perUser /\ promos'[v].most = promos[v].most
  BY AcceptedRow
<1>4. ASSUME NEW v \in DOMAIN promos, NEW a \in Persons, ~(v = w /\ a = u)
      PROVE  Mine(a, v)' = Mine(a, v) /\ OpenOf(a, v)' = OpenOf(a, v) /\ UseOf(a, v)' = UseOf(a, v)
  <2>1. Mine(a, v)' = Mine(a, v)
    BY <1>3, <1>4 DEF Mine
  <2>2. \A r \in Mine(a, v) : r \in DOMAIN redeemed
    BY DEF Mine
  <2>3. QED
    BY <1>3, <2>1, <2>2 DEF OpenOf, UseOf, Consumed
<1>5. /\ Mine(u, w)' = Mine(u, w) \cup {new} /\ new \notin Mine(u, w)
      /\ OpenOf(u, w)' \subseteq OpenOf(u, w) \cup {new}
      /\ UseOf(u, w)' \subseteq UseOf(u, w) \cup {new} /\ new \notin UseOf(u, w)
      /\ new \notin OpenOf(u, w)
  <2>1. Mine(u, w)' = Mine(u, w) \cup {new} /\ new \notin Mine(u, w)
    BY <1>3 DEF Mine
  <2>2. \A r \in Mine(u, w) : r \in DOMAIN redeemed
    BY DEF Mine
  <2>3. QED
    BY <1>3, <2>1, <2>2 DEF OpenOf, UseOf, Consumed
<1>6. promos[w] \in PromoRows /\ promos[w].perUser <= promos[w].most
  BY <1>1, <1>2, Tables DEF PerUserInv
<1>7. promos[w].perUser \in Nat \ {0} /\ promos[w].most \in Nat
  BY <1>6 DEF PromoRows
<1>8. /\ Cardinality(OpenOf(u, w)) = 0
      /\ Cardinality(UseOf(u, w)) < promos[w].perUser
      /\ Cardinality(Mine(u, w)) < promos[w].perUser + 1
  <2>1. Cardinality({}) = 0
    BY FS_EmptySet
  <2>2. CASE Mine(u, w) = {}
    <3>1. OpenOf(u, w) = {} /\ UseOf(u, w) = {}
      BY <2>2 DEF OpenOf, UseOf
    <3>2. QED
      BY <1>7, <2>1, <2>2, <3>1
  <2>3. CASE Mine(u, w) # {}
    <3>1. /\ \A r \in Mine(u, w) : redeemed[r].status # "RESERVED"
          /\ Cardinality({r \in Mine(u, w) : Consumed(r)}) < promos[w].perUser
          /\ Cardinality(Mine(u, w)) < promos[w].perUser + 1
      BY <1>2, <2>3 DEF MayRetry
    <3>2. OpenOf(u, w) = {} /\ UseOf(u, w) = {r \in Mine(u, w) : Consumed(r)}
      BY <3>1 DEF OpenOf, UseOf
    <3>3. QED
      BY <2>1, <3>1, <3>2
  <2>4. QED
    BY <2>2, <2>3
<1>9. /\ Cardinality(OpenOf(u, w)') <= 1
      /\ Cardinality(UseOf(u, w)') <= promos[w].most
      /\ Cardinality(Mine(u, w)') <= promos[w].most + 1
  <2>1. /\ IsFiniteSet(Mine(u, w)) /\ IsFiniteSet(UseOf(u, w)) /\ IsFiniteSet(OpenOf(u, w))
        /\ Cardinality(Mine(u, w)) \in Nat /\ Cardinality(UseOf(u, w)) \in Nat
        /\ Cardinality(OpenOf(u, w)) \in Nat
    BY <1>1, MineFinite
  <2>2. /\ Cardinality(Mine(u, w) \cup {new}) = Cardinality(Mine(u, w)) + 1
        /\ Cardinality(UseOf(u, w) \cup {new}) = Cardinality(UseOf(u, w)) + 1
        /\ Cardinality(OpenOf(u, w) \cup {new}) = Cardinality(OpenOf(u, w)) + 1
    BY <1>5, <2>1, OneMore
  <2>3. IsFiniteSet(UseOf(u, w) \cup {new}) /\ IsFiniteSet(OpenOf(u, w) \cup {new})
    BY <2>1, FS_AddElement
  <2>4. /\ Cardinality(UseOf(u, w)') <= Cardinality(UseOf(u, w) \cup {new})
        /\ Cardinality(OpenOf(u, w)') <= Cardinality(OpenOf(u, w) \cup {new})
        /\ Cardinality(UseOf(u, w)') \in Nat /\ Cardinality(OpenOf(u, w)') \in Nat
    BY <1>5, <2>3, Part
  <2>5. Cardinality(OpenOf(u, w)') <= 1
    BY <1>8, <2>1, <2>2, <2>4
  <2>6. Cardinality(UseOf(u, w)') <= promos[w].most
    BY <1>6, <1>7, <1>8, <2>1, <2>2, <2>4
  <2>7. Cardinality(Mine(u, w)') <= promos[w].most + 1
    <3>1. Cardinality(Mine(u, w)') = Cardinality(Mine(u, w)) + 1
      BY <1>5, <2>2
    <3>2. Cardinality(Mine(u, w)) < promos[w].perUser + 1 /\ Cardinality(Mine(u, w)) \in Nat
      BY <1>8, <2>1
    <3>3. QED
      BY ONLY <1>6, <1>7, <3>1, <3>2
  <2>8. QED
    BY <2>5, <2>6, <2>7
<1>10. SUFFICES ASSUME NEW v \in DOMAIN promos
                PROVE  /\ promos'[v].perUser <= promos'[v].most
                       /\ \A a \in Persons : /\ Cardinality(OpenOf(a, v)') <= 1
                                             /\ Cardinality(UseOf(a, v)') <= promos'[v].most
                                             /\ Cardinality(Mine(a, v)') <= promos'[v].most + 1
  BY <1>3 DEF PerUserInv
<1>11. QED
  BY <1>3, <1>4, <1>9 DEF PerUserInv

\* The redemptions stay, or fewer of them count, and no limit falls.
LEMMA PerUserFrame ==
  ASSUME TypeInv, TypeInv', PerUserInv, DOMAIN promos' = DOMAIN promos,
         UNCHANGED redeemed \/ Rewrites,
         \A w \in DOMAIN promos : /\ promos'[w].perUser <= promos'[w].most
                                  /\ promos[w].most <= promos'[w].most
  PROVE  PerUserInv'
<1>1. PromoTypeOK /\ (\A w \in DOMAIN promos : promos[w] \in PromoRows)
      /\ \A w \in DOMAIN promos' : promos'[w] \in PromoRows
  BY Tables DEF TypeInv, PromoTypeOK
<1>2. SUFFICES ASSUME NEW w \in DOMAIN promos, NEW u \in Persons
               PROVE  /\ Cardinality(OpenOf(u, w)') <= 1
                      /\ Cardinality(UseOf(u, w)') <= promos'[w].most
                      /\ Cardinality(Mine(u, w)') <= promos'[w].most + 1
  BY DEF PerUserInv
<1>3. /\ Mine(u, w)' = Mine(u, w) /\ OpenOf(u, w)' \subseteq OpenOf(u, w)
      /\ UseOf(u, w)' \subseteq UseOf(u, w)
  <2>1. CASE UNCHANGED redeemed
    BY <2>1 DEF Mine, OpenOf, UseOf, Consumed
  <2>2. CASE Rewrites
    BY <2>2, MineRewritten
  <2>3. QED
    BY <2>1, <2>2
<1>4. /\ IsFiniteSet(UseOf(u, w)) /\ IsFiniteSet(OpenOf(u, w)) /\ Cardinality(Mine(u, w)) \in Nat
  BY <1>1, MineFinite
<1>5. /\ Cardinality(UseOf(u, w)') <= Cardinality(UseOf(u, w)) /\ Cardinality(UseOf(u, w)') \in Nat
      /\ Cardinality(OpenOf(u, w)') <= Cardinality(OpenOf(u, w)) /\ Cardinality(OpenOf(u, w)') \in Nat
      /\ Cardinality(UseOf(u, w)) \in Nat /\ Cardinality(OpenOf(u, w)) \in Nat
  BY <1>3, <1>4, Part
<1>6. promos[w].most \in Nat /\ promos'[w].most \in Nat
  BY <1>1 DEF PromoRows
<1>7. promos[w].most <= promos'[w].most
  OBVIOUS
<1>8. QED
  BY <1>3, <1>4, <1>5, <1>6, <1>7 DEF PerUserInv

LEMMA PerUserStep == TypeInv /\ TypeInv' /\ PerUserInv /\ [PromoNext]_promoVars => PerUserInv'
<1> SUFFICES ASSUME TypeInv, TypeInv', PerUserInv, [PromoNext]_promoVars PROVE PerUserInv'
  OBVIOUS
<1>1. PromoTypeOK /\ Waiting /\ \A w \in DOMAIN promos : promos[w] \in PromoRows
  BY Tables DEF TypeInv
<1>2. \A w \in DOMAIN promos : promos[w].perUser <= promos[w].most /\ promos[w].most <= promos[w].most
                               /\ promos[w].most \in Nat /\ promos[w].perUser \in Nat
  BY <1>1 DEF PerUserInv, PromoRows
<1>3. CASE \E k \in DOMAIN plot.texts : Accepts(k)
  BY <1>3, PerUserAccepted
<1>4. CASE \/ \E k \in DOMAIN plot.texts, result \in Results \ {"ACCEPTED"} : Refuses(k, result)
           \/ Rests
  BY <1>2, <1>4, PerUserFrame DEF Refuses, Rests
<1>5. CASE Lapses \/ \E r \in DOMAIN redeemed : Attach(r) \/ Credit(r) \/ RollbackForRefund(r)
  <2>1. Rewrites
    BY <1>1, <1>5, AttachEffect, CreditEffect, RollbackEffect, LapsesEffect
  <2>2. /\ DOMAIN promos' = DOMAIN promos
        /\ \A w \in DOMAIN promos : promos'[w].perUser = promos[w].perUser /\ promos'[w].most = promos[w].most
    <3>1. CASE \E r \in DOMAIN redeemed : Credit(r)
      <4>1. PICK r \in DOMAIN redeemed : Credit(r)
        BY <3>1
      <4> DEFINE w == redeemed[r].word
      <4>2. w \in DOMAIN promos /\ promos' = [promos EXCEPT ![w].used = @ + 1]
        BY <4>1 DEF TypeInv, Known, Credit
      <4> HIDE DEF w
      <4>3. /\ DOMAIN promos' = DOMAIN promos /\ promos'[w] = [promos[w] EXCEPT !.used = @ + 1]
            /\ \A v \in DOMAIN promos \ {w} : promos'[v] = promos[v]
        BY <1>1, <4>2, UseCounted
      <4>4. promos'[w].perUser = promos[w].perUser /\ promos'[w].most = promos[w].most
        BY <1>1, <4>2, <4>3 DEF PromoRows
      <4>5. QED
        BY <4>3, <4>4
    <3>2. CASE ~\E r \in DOMAIN redeemed : Credit(r)
      BY <1>5, <3>2 DEF Lapses, Attach, RollbackForRefund
    <3>3. QED
      BY <3>1, <3>2
  <2>3. QED
    BY <1>2, <2>1, <2>2, PerUserFrame
<1>6. CASE \E words, new : Makes(words, new)
  <2>1. PICK words, new : Makes(words, new)
    BY <1>6
  <2>2. /\ DOMAIN promos' = DOMAIN promos \cup words /\ new \in PromoRows /\ new.perUser <= new.most
        /\ \A w \in words : promos'[w] = new /\ w \notin DOMAIN promos
        /\ \A w \in DOMAIN promos : promos'[w] = promos[w]
        /\ redeemed' = redeemed
    BY <1>1, <2>1, MadeEffect
  <2>3. \A u, w : Mine(u, w)' = Mine(u, w) /\ OpenOf(u, w)' = OpenOf(u, w) /\ UseOf(u, w)' = UseOf(u, w)
    BY <2>2 DEF Mine, OpenOf, UseOf, Consumed
  <2>4. \A u : \A w \in words : Mine(u, w) = {} /\ OpenOf(u, w) = {} /\ UseOf(u, w) = {}
    BY <2>2 DEF Mine, OpenOf, UseOf, TypeInv, Known
  <2>5. new.most \in Nat
    BY <2>2 DEF PromoRows
  <2>6. Cardinality({}) = 0
    BY FS_EmptySet
  <2>7. ASSUME NEW w \in words
        PROVE  /\ promos'[w].perUser <= promos'[w].most
               /\ \A u \in Persons : /\ Cardinality(OpenOf(u, w)') <= 1
                                     /\ Cardinality(UseOf(u, w)') <= promos'[w].most
                                     /\ Cardinality(Mine(u, w)') <= promos'[w].most + 1
    <3>1. promos'[w] = new
      BY <2>2
    <3>2. ASSUME NEW u \in Persons
          PROVE  /\ Cardinality(OpenOf(u, w)') = 0 /\ Cardinality(UseOf(u, w)') = 0
                 /\ Cardinality(Mine(u, w)') = 0
      <4>1. OpenOf(u, w)' = {} /\ UseOf(u, w)' = {} /\ Mine(u, w)' = {}
        BY <2>3, <2>4
      <4>2. QED
        BY <2>6, <4>1
    <3>3. 0 <= 1 /\ 0 <= new.most /\ 0 <= new.most + 1
      BY <2>5
    <3>4. QED
      BY <2>2, <3>1, <3>2, <3>3
  <2>8. ASSUME NEW w \in DOMAIN promos
        PROVE  /\ promos'[w].perUser <= promos'[w].most
               /\ \A u \in Persons : /\ Cardinality(OpenOf(u, w)') <= 1
                                     /\ Cardinality(UseOf(u, w)') <= promos'[w].most
                                     /\ Cardinality(Mine(u, w)') <= promos'[w].most + 1
    BY <2>2, <2>3 DEF PerUserInv
  <2>9. QED
    BY <2>2, <2>7, <2>8 DEF PerUserInv
<1>7. CASE \E w \in DOMAIN promos, d \in PromoRows : Patched(w, d)
  <2>1. PICK w \in DOMAIN promos, d \in PromoRows : Patched(w, d)
    BY <1>7
  <2>2. /\ promos'[w].perUser = d.perUser
        /\ promos'[w].most = IF promos[w].most < d.perUser THEN d.perUser ELSE promos[w].most
        /\ d.perUser \in Nat
    BY <1>1, <2>1 DEF Patched, PromoRows
  <2>3. promos'[w].perUser <= promos'[w].most /\ promos[w].most <= promos'[w].most
    BY <1>2, <2>2
  <2>4. QED
    BY <1>2, <2>1, <2>3, PerUserFrame DEF Patched
<1>8. CASE Flips
  <2>1. ASSUME NEW w \in DOMAIN promos
        PROVE  promos'[w].perUser = promos[w].perUser /\ promos'[w].most = promos[w].most
    BY <1>1, <1>8, <2>1 DEF Flips, PromoRows
  <2>2. QED
    BY <1>2, <1>8, <2>1, PerUserFrame DEF Flips
<1>9. QED
  BY <1>1, <1>3, <1>4, <1>5, <1>6, <1>7, <1>8, StepCases

\* A user holds one reservation of a code at a time, uses it no more often than
\* its limit per user has ever allowed and redeems it at most once more than
\* that, also when requests of the API are decided late.
THEOREM UsesPerUserThm == PromoSpec => []UsesPerUser
<1>1. PromoInit => PerUserInv
  <2> SUFFICES ASSUME PromoInit, NEW w \in DOMAIN promos
               PROVE  /\ promos[w].perUser <= promos[w].most
                      /\ \A u \in Persons : /\ Cardinality(OpenOf(u, w)) <= 1
                                            /\ Cardinality(UseOf(u, w)) <= promos[w].most
                                            /\ Cardinality(Mine(u, w)) <= promos[w].most + 1
    BY DEF PerUserInv
  <2>1. \A u : Mine(u, w) = {} /\ OpenOf(u, w) = {} /\ UseOf(u, w) = {}
    BY DEF PromoInit, Mine, OpenOf, UseOf
  <2>2. Cardinality({}) = 0
    BY FS_EmptySet
  <2>3. promos[w] \in Made
    BY PlotsAssumption DEF PromoInit
  <2>4. promos[w].perUser <= promos[w].most /\ promos[w].most \in Nat
    BY <2>3 DEF Made, PromoRows
  <2>5. ASSUME NEW u \in Persons
        PROVE  /\ Cardinality(OpenOf(u, w)) = 0 /\ Cardinality(UseOf(u, w)) = 0
               /\ Cardinality(Mine(u, w)) = 0
    <3>1. OpenOf(u, w) = {} /\ UseOf(u, w) = {} /\ Mine(u, w) = {}
      BY <2>1
    <3>2. QED
      BY <2>2, <3>1
  <2>6. 0 <= 1 /\ 0 <= promos[w].most /\ 0 <= promos[w].most + 1
    BY <2>4
  <2>7. QED
    BY <2>4, <2>5, <2>6
<1>2. TypeInv /\ PerUserInv => UsesPerUser
  <2> SUFFICES ASSUME TypeInv, PerUserInv, NEW u \in Persons, NEW w \in DOMAIN promos
               PROVE  /\ Cardinality({r \in Mine(u, w) : redeemed[r].status = "RESERVED"}) <= 1
                      /\ Cardinality({r \in Mine(u, w) : Consumed(r)}) <= promos[w].most
                      /\ Cardinality(Mine(u, w)) <= promos[w].most + 1
    BY DEF UsesPerUser
  <2>1. SpentOf(u, w) \in SUBSET UseOf(u, w)
    BY DEF SpentOf, UseOf
  <2>2. IsFiniteSet(UseOf(u, w)) /\ promos[w] \in PromoRows
    BY MineFinite, Tables DEF TypeInv
  <2>3. Cardinality(SpentOf(u, w)) \in Nat /\ Cardinality(UseOf(u, w)) \in Nat
        /\ Cardinality(SpentOf(u, w)) <= Cardinality(UseOf(u, w))
    BY <2>1, <2>2, Part
  <2>4. promos[w].most \in Nat
    BY <2>2 DEF PromoRows
  <2>5. /\ Cardinality(OpenOf(u, w)) <= 1 /\ Cardinality(UseOf(u, w)) <= promos[w].most
        /\ Cardinality(Mine(u, w)) <= promos[w].most + 1
    BY DEF PerUserInv
  <2>6. Cardinality(SpentOf(u, w)) <= promos[w].most
    BY <2>3, <2>4, <2>5
  <2>7. QED
    BY <2>5, <2>6 DEF OpenOf, SpentOf
<1>3. QED
  BY <1>1, <1>2, Typed, PerUserStep, PTL DEF PromoSpec

-----------------------------------------------------------------------------
(* GrantsAddUp. *)

GrantsInv ==
  \A u \in Persons :
    /\ IsFiniteSet(DaysGiven(u))
    /\ DaysGiven(u) = {} <=> term[u] = NoTerm
    /\ term[u] = NoTerm <=> begun[u] = NoTerm
    /\ term[u] # NoTerm => term[u] = begun[u] + Cardinality(DaysGiven(u))

\* No day is added or taken back by what happens to a redemption later.
LEMMA DaysKept ==
  ASSUME UNCHANGED redeemed \/ Rewrites, NEW u
  PROVE  DaysGiven(u)' = DaysGiven(u)
<1>1. /\ DOMAIN redeemed' = DOMAIN redeemed
      /\ \A r \in DOMAIN redeemed : /\ redeemed'[r].user = redeemed[r].user
                                    /\ redeemed'[r].gave = redeemed[r].gave
  BY DEF Rewrites
<1>2. QED
  BY <1>1 DEF DaysGiven

\* One redemption more: its user has the days it gave more.
LEMMA DaysAdded ==
  ASSUME NEW new, new \notin DOMAIN redeemed, DOMAIN redeemed' = DOMAIN redeemed \cup {new},
         \A r \in DOMAIN redeemed : redeemed'[r] = redeemed[r], NEW u
  PROVE  /\ u # redeemed'[new].user => DaysGiven(u)' = DaysGiven(u)
         /\ u = redeemed'[new].user =>
              /\ DaysGiven(u)' = DaysGiven(u) \cup ({new} \X (1..redeemed'[new].gave))
              /\ DaysGiven(u) \cap ({new} \X (1..redeemed'[new].gave)) = {}
<1>1. \A d : d \in DaysGiven(u) <=>
        \E r \in DOMAIN redeemed : redeemed[r].user = u /\ d \in {r} \X (1..redeemed[r].gave)
  BY DEF DaysGiven
<1>2. \A d : d \in DaysGiven(u)' <=>
        \E r \in DOMAIN redeemed' : redeemed'[r].user = u /\ d \in {r} \X (1..redeemed'[r].gave)
  BY DEF DaysGiven
<1>3. \A d \in DaysGiven(u) : d[1] \in DOMAIN redeemed
  BY <1>1
<1>4. \A d \in {new} \X (1..redeemed'[new].gave) : d[1] = new
  OBVIOUS
<1>5. DaysGiven(u) \cap ({new} \X (1..redeemed'[new].gave)) = {}
  BY <1>3, <1>4
<1>6. ASSUME u # redeemed'[new].user PROVE DaysGiven(u)' = DaysGiven(u)
  BY <1>1, <1>2, <1>6
<1>7. ASSUME u = redeemed'[new].user
      PROVE  DaysGiven(u)' = DaysGiven(u) \cup ({new} \X (1..redeemed'[new].gave))
  BY <1>1, <1>2, <1>7
<1>8. QED
  BY <1>5, <1>6, <1>7

\* As many days as were given.
LEMMA DaysCounted ==
  ASSUME NEW new, NEW days \in Nat
  PROVE  IsFiniteSet({new} \X (1..days)) /\ Cardinality({new} \X (1..days)) = days
<1>1. IsFiniteSet({new}) /\ Cardinality({new}) = 1
  BY FS_Singleton
<1>2. IsFiniteSet(1..days) /\ Cardinality(1..days) = days
  <2>1. 1 \in Int /\ days \in Int
    OBVIOUS
  <2>2. IsFiniteSet(1..days) /\ Cardinality(1..days) = IF 1 > days THEN 0 ELSE days - 1 + 1
    BY <2>1, FS_Interval
  <2>3. QED
    BY <2>2
<1>3. /\ IsFiniteSet({new} \X (1..days))
      /\ Cardinality({new} \X (1..days)) = Cardinality({new}) * Cardinality(1..days)
  <2>1. IsFiniteSet({new}) /\ IsFiniteSet(1..days)
    BY <1>1, <1>2
  <2>2. QED
    BY ONLY <2>1, FS_Product
<1>4. QED
  BY <1>1, <1>2, <1>3

LEMMA GrantsGiven ==
  ASSUME TypeInv, GrantsInv, NEW k \in DOMAIN plot.texts, Accepts(k), Gives(k)
  PROVE  GrantsInv'
<1>. PICK u, w, new, days : u = plot.texts[k].user /\ w = plot.texts[k].word
                            /\ new = Len(redeemed) + 1 /\ days = promos[w].days
  OBVIOUS
<1>1. PromoTypeOK /\ minute \in Nat /\ NoTerm \notin Nat
      /\ term \in [Persons -> Nat \cup {NoTerm}] /\ begun \in [Persons -> Nat \cup {NoTerm}]
  BY Tables, AttemptsAssumption DEF TypeInv, PromoTypeOK
<1>2. /\ u \in Persons /\ w \in DOMAIN promos
      /\ RowOf(k, "APPLIED", NoTerm, days) \in RedemptionRows
  BY <1>1, AcceptsEffect
<1>3. days \in Nat /\ days > 0
  <2>1. promos[w] \in PromoRows
    BY <1>1, <1>2, Tables
  <2>2. QED
    BY <2>1 DEF PromoRows, Gives
<1>4. /\ DOMAIN redeemed' = DOMAIN redeemed \cup {new} /\ new \notin DOMAIN redeemed
      /\ redeemed'[new].user = u /\ redeemed'[new].gave = days
      /\ \A r \in DOMAIN redeemed : redeemed'[r] = redeemed[r]
  <2> DEFINE row == RowOf(k, "APPLIED", NoTerm, days)
  <2>1. row.user = u /\ row.gave = days
    BY DEF RowOf
  <2>2. redeemed' = Append(redeemed, row) /\ row \in RedemptionRows
    BY <1>2 DEF Gives
  <2> HIDE DEF row
  <2>3. QED
    BY <1>1, <2>1, <2>2, RowAdded
<1>5. /\ term' = [term EXCEPT ![u] = (IF @ = NoTerm THEN minute ELSE @) + days]
      /\ begun' = [begun EXCEPT ![u] = IF @ = NoTerm THEN minute ELSE @]
  BY DEF Gives
<1>6. ASSUME NEW a \in Persons, a # u
      PROVE  DaysGiven(a)' = DaysGiven(a) /\ term'[a] = term[a] /\ begun'[a] = begun[a]
  BY <1>1, <1>4, <1>5, <1>6, DaysAdded
<1>7. /\ IsFiniteSet(DaysGiven(u)') /\ DaysGiven(u)' # {}
      /\ term'[u] # NoTerm /\ begun'[u] # NoTerm
      /\ term'[u] = begun'[u] + Cardinality(DaysGiven(u)')
  <2>1. /\ DaysGiven(u)' = DaysGiven(u) \cup ({new} \X (1..days))
        /\ DaysGiven(u) \cap ({new} \X (1..days)) = {}
    BY <1>4, DaysAdded
  <2>2. IsFiniteSet({new} \X (1..days)) /\ Cardinality({new} \X (1..days)) = days
    BY <1>3, DaysCounted
  <2>3. /\ IsFiniteSet(DaysGiven(u)) /\ Cardinality(DaysGiven(u)) \in Nat
        /\ DaysGiven(u) = {} <=> term[u] = NoTerm
        /\ term[u] = NoTerm <=> begun[u] = NoTerm
        /\ term[u] # NoTerm => term[u] = begun[u] + Cardinality(DaysGiven(u))
    BY <1>2, FS_CardinalityType DEF GrantsInv
  <2>4. /\ IsFiniteSet(DaysGiven(u)')
        /\ Cardinality(DaysGiven(u)') = Cardinality(DaysGiven(u)) + days
    <3>1. /\ IsFiniteSet(DaysGiven(u) \cup ({new} \X (1..days)))
          /\ Cardinality(DaysGiven(u) \cup ({new} \X (1..days)))
               = Cardinality(DaysGiven(u)) + Cardinality({new} \X (1..days))
                 - Cardinality(DaysGiven(u) \cap ({new} \X (1..days)))
      <4>1. IsFiniteSet(DaysGiven(u)) /\ IsFiniteSet({new} \X (1..days))
        BY <2>2, <2>3
      <4>2. QED
        BY ONLY <4>1, FS_Union
    <3>2. Cardinality(DaysGiven(u) \cap ({new} \X (1..days))) = 0
      BY <2>1, FS_EmptySet
    <3>3. Cardinality(DaysGiven(u) \cup ({new} \X (1..days))) = Cardinality(DaysGiven(u)) + days
      BY <1>3, <2>2, <2>3, <3>1, <3>2
    <3>4. QED
      BY <2>1, <3>1, <3>3
  <2>5. DaysGiven(u)' # {}
    <3>1. <<new, 1>> \in {new} \X (1..days)
      BY <1>3
    <3>2. QED
      BY <2>1, <3>1
  <2>6. /\ term'[u] = (IF term[u] = NoTerm THEN minute ELSE term[u]) + days
        /\ begun'[u] = IF begun[u] = NoTerm THEN minute ELSE begun[u]
        /\ term[u] \in Nat \cup {NoTerm} /\ begun[u] \in Nat \cup {NoTerm}
    BY <1>1, <1>2, <1>5
  <2>7. term'[u] \in Nat /\ begun'[u] \in Nat
    BY <1>1, <1>3, <2>6
  <2>8. term'[u] = begun'[u] + Cardinality(DaysGiven(u)')
    <3>1. CASE term[u] = NoTerm
      <4>1. DaysGiven(u) = {} /\ Cardinality({}) = 0
        BY <2>3, <3>1, FS_EmptySet
      <4>2. Cardinality(DaysGiven(u)') = days
        BY <1>3, <2>4, <4>1
      <4>3. QED
        BY <1>1, <1>3, <2>3, <2>6, <3>1, <4>2
    <3>2. CASE term[u] # NoTerm
      <4>1. begun[u] \in Nat /\ term[u] \in Nat /\ term[u] = begun[u] + Cardinality(DaysGiven(u))
        BY <2>3, <2>6, <3>2
      <4>2. term'[u] = term[u] + days /\ begun'[u] = begun[u]
        BY <2>3, <2>6, <3>2
      <4>3. QED
        BY <1>3, <2>3, <2>4, <4>1, <4>2
    <3>3. QED
      BY <3>1, <3>2
  <2>9. QED
    BY <1>1, <2>4, <2>5, <2>7, <2>8
<1>8. QED
  BY <1>6, <1>7 DEF GrantsInv

LEMMA GrantsHeld ==
  ASSUME TypeInv, GrantsInv, NEW k \in DOMAIN plot.texts, Accepts(k), Holds(k)
  PROVE  GrantsInv'
<1>. PICK new : new = Len(redeemed) + 1
  OBVIOUS
<1>1. PromoTypeOK
  BY DEF TypeInv
<1>2. RowOf(k, "RESERVED", minute + HoldTime, 0) \in RedemptionRows
  BY <1>1, AcceptsEffect
<1>3. /\ DOMAIN redeemed' = DOMAIN redeemed \cup {new} /\ new \notin DOMAIN redeemed
      /\ redeemed'[new].gave = 0
      /\ \A r \in DOMAIN redeemed : redeemed'[r] = redeemed[r]
  <2> DEFINE row == RowOf(k, "RESERVED", minute + HoldTime, 0)
  <2>1. row.gave = 0
    BY DEF RowOf
  <2>2. redeemed' = Append(redeemed, row) /\ row \in RedemptionRows
    BY <1>2 DEF Holds
  <2> HIDE DEF row
  <2>3. QED
    BY <1>1, <2>1, <2>2, RowAdded
<1>4. {new} \X (1..redeemed'[new].gave) = {}
  BY <1>3
<1>5. ASSUME NEW u PROVE DaysGiven(u)' = DaysGiven(u)
  <2>1. CASE u = redeemed'[new].user
    <3>1. DaysGiven(u)' = DaysGiven(u) \cup ({new} \X (1..redeemed'[new].gave))
      BY <1>3, <2>1, DaysAdded
    <3>2. QED
      BY <1>4, <3>1
  <2>2. CASE u # redeemed'[new].user
    BY <1>3, <2>2, DaysAdded
  <2>3. QED
    BY <2>1, <2>2
<1>6. QED
  BY <1>5 DEF GrantsInv, Holds

LEMMA GrantsStep == TypeInv /\ GrantsInv /\ [PromoNext]_promoVars => GrantsInv'
<1> SUFFICES ASSUME TypeInv, GrantsInv, [PromoNext]_promoVars PROVE GrantsInv'
  OBVIOUS
<1>1. PromoTypeOK /\ Waiting
  BY DEF TypeInv
<1>2. CASE \E k \in DOMAIN plot.texts : Accepts(k)
  BY <1>1, <1>2, AcceptsEffect, GrantsGiven, GrantsHeld
<1>3. CASE \/ \E k \in DOMAIN plot.texts, result \in Results \ {"ACCEPTED"} : Refuses(k, result)
           \/ \E words, new : Makes(words, new)
           \/ \E w \in DOMAIN promos, d \in PromoRows : Patched(w, d)
           \/ Flips \/ Rests
  <2>1. UNCHANGED <<redeemed, term, begun>>
    BY <1>3 DEF Refuses, Makes, Added, Patched, Flips, Rests, Unmoved
  <2>2. QED
    BY <2>1, DaysKept DEF GrantsInv
<1>4. CASE Lapses \/ \E r \in DOMAIN redeemed : Attach(r) \/ Credit(r) \/ RollbackForRefund(r)
  <2>1. Rewrites
    BY <1>1, <1>4, AttachEffect, CreditEffect, RollbackEffect, LapsesEffect
  <2>2. UNCHANGED <<term, begun>>
    BY <1>4 DEF Attach, Credit, RollbackForRefund, Lapses, Unmoved
  <2>3. QED
    BY <2>1, <2>2, DaysKept DEF GrantsInv
<1>5. QED
  BY <1>1, <1>2, <1>3, <1>4, StepCases

\* Premium given by codes adds up, whatever happens to the redemptions later.
THEOREM GrantsAddUpThm == PromoSpec => []GrantsAddUp
<1>1. PromoInit => GrantsInv
  <2> SUFFICES ASSUME PromoInit, NEW u \in Persons
               PROVE  /\ IsFiniteSet(DaysGiven(u))
                      /\ DaysGiven(u) = {} <=> term[u] = NoTerm
                      /\ term[u] = NoTerm <=> begun[u] = NoTerm
                      /\ term[u] # NoTerm => term[u] = begun[u] + Cardinality(DaysGiven(u))
    BY DEF GrantsInv
  <2>1. redeemed = <<>> /\ term[u] = NoTerm /\ begun[u] = NoTerm
    BY DEF PromoInit
  <2>2. DaysGiven(u) = {}
    BY <2>1 DEF DaysGiven
  <2>3. IsFiniteSet({})
    BY FS_EmptySet
  <2>4. QED
    BY <2>1, <2>2, <2>3
<1>2. GrantsInv => GrantsAddUp
  BY DEF GrantsInv, GrantsAddUp
<1>3. QED
  BY <1>1, <1>2, Typed, GrantsStep, PTL DEF PromoSpec

-----------------------------------------------------------------------------
(* GuessesSlow. *)

\* What GuessesSlow says of one attempt.
SlowAt(n) ==
  LET before == {m \in 1..(n - 1) : attempts[m].user = attempts[n].user
                                    /\ attempts[m].at + LimitTime >= attempts[n].at}
      failed == {m \in before : attempts[m].result \in Failures}
  IN attempts[n].source = "BOT" /\ attempts[n].result # "RATE_LIMITED"
     /\ Cardinality(failed) >= MaxFailures
     => \A m \in failed \cup {k \in before : attempts[k].result = "RATE_LIMITED"} :
          attempts[m].at + BlockTime <= attempts[n].at

\* A message behind the rate limit has its last failures, and the refusals of
\* the limit, BlockTime behind it.
LEMMA NotLimited ==
  ASSUME PromoTypeOK, NEW u, ~Limited(u),
         Cardinality(Tries(u, Failures, LimitTime)) >= MaxFailures
  PROVE  /\ \A m \in Tries(u, Failures, LimitTime) : attempts[m].at + BlockTime <= minute
         /\ \A m \in DOMAIN attempts :
              attempts[m].user = u /\ attempts[m].result = "RATE_LIMITED"
              => attempts[m].at + BlockTime <= minute
<1>1. minute \in Nat /\ BlockTime \in Nat
      /\ \A m \in DOMAIN attempts : attempts[m] \in AttemptRows
  BY Tables, AttemptsAssumption
<1>2. \A m \in DOMAIN attempts : attempts[m].at \in Nat
  BY <1>1 DEF AttemptRows
<1>3. ~JustFailed(u) /\ Tries(u, {"RATE_LIMITED"}, BlockTime) = {}
  BY DEF Limited
<1>4. \A m \in Tries(u, Failures, LimitTime) : attempts[m].at + BlockTime <= minute
  <2>1. \A m \in Tries(u, Failures, LimitTime) : m \in DOMAIN attempts /\ ~(attempts[m].at + BlockTime > minute)
    BY <1>3 DEF JustFailed, Tries
  <2>2. QED
    BY <1>1, <1>2, <2>1
<1>5. ASSUME NEW m \in DOMAIN attempts, attempts[m].user = u, attempts[m].result = "RATE_LIMITED"
      PROVE  attempts[m].at + BlockTime <= minute
  <2>1. ~(attempts[m].at + BlockTime >= minute)
    BY <1>3, <1>5 DEF Tries
  <2>2. QED
    BY <1>1, <1>2, <2>1
<1>6. QED
  BY <1>4, <1>5

\* One attempt more: the earlier ones are judged as before, and the new one was
\* let through by the limit.
LEMMA SlowTried ==
  ASSUME PromoTypeOK, GuessesSlow, NEW k \in DOMAIN plot.texts, NEW result \in Results, Tried(k, result)
  PROVE  GuessesSlow'
<1>. PICK u, new : u = plot.texts[k].user /\ new = Len(attempts) + 1
  OBVIOUS
<1>1. DOMAIN attempts = 1..Len(attempts) /\ Len(attempts) \in Nat /\ minute \in Nat
  BY Tables
<1>2. /\ DOMAIN attempts' = DOMAIN attempts \cup {new} /\ new \notin DOMAIN attempts
      /\ attempts'[new].user = u /\ attempts'[new].source = plot.texts[k].source
      /\ attempts'[new].result = result /\ attempts'[new].at = minute
      /\ \A n \in DOMAIN attempts : attempts'[n] = attempts[n]
  BY LogEffect DEF Tried
<1>3. SUFFICES ASSUME NEW n \in DOMAIN attempts' PROVE SlowAt(n)'
  BY DEF GuessesSlow, SlowAt
<1>4. CASE n \in DOMAIN attempts
  <2>1. SlowAt(n)
    BY <1>4 DEF GuessesSlow, SlowAt
  <2>2. attempts'[n] = attempts[n] /\ \A m \in 1..(n - 1) : attempts'[m] = attempts[m]
    BY <1>1, <1>2, <1>4
  <2> DEFINE before == {m \in 1..(n - 1) : attempts[m].user = attempts[n].user
                                           /\ attempts[m].at + LimitTime >= attempts[n].at}
             after == {m \in 1..(n - 1) : attempts'[m].user = attempts'[n].user
                                          /\ attempts'[m].at + LimitTime >= attempts'[n].at}
  <2>3. before = after
    BY <2>2
  <2>4. \A m \in before : attempts'[m] = attempts[m]
    BY <2>2
  <2>5. {m \in after : attempts'[m].result \in Failures} = {m \in before : attempts[m].result \in Failures}
        /\ {m \in after : attempts'[m].result = "RATE_LIMITED"}
             = {m \in before : attempts[m].result = "RATE_LIMITED"}
    BY <2>3, <2>4
  <2>6. \A m \in {j \in before : attempts[j].result \in Failures}
                   \cup {j \in before : attempts[j].result = "RATE_LIMITED"} :
          attempts'[m].at = attempts[m].at
    BY <2>4
  <2>7. /\ attempts[n].source = "BOT" /\ attempts[n].result # "RATE_LIMITED"
           /\ Cardinality({m \in before : attempts[m].result \in Failures}) >= MaxFailures
        => \A m \in {j \in before : attempts[j].result \in Failures}
                      \cup {j \in before : attempts[j].result = "RATE_LIMITED"} :
             attempts[m].at + BlockTime <= attempts[n].at
    BY <2>1 DEF SlowAt
  <2>8. /\ attempts'[n].source = "BOT" /\ attempts'[n].result # "RATE_LIMITED"
           /\ Cardinality({m \in after : attempts'[m].result \in Failures}) >= MaxFailures
        => \A m \in {j \in after : attempts'[j].result \in Failures}
                      \cup {j \in after : attempts'[j].result = "RATE_LIMITED"} :
             attempts'[m].at + BlockTime <= attempts'[n].at
    <3> HIDE DEF before, after
    <3> QED
      BY <2>2, <2>5, <2>6, <2>7
  <2>9. QED
    BY <2>8 DEF SlowAt
<1>5. CASE n = new
  <2> DEFINE failed == {m \in 1..(n - 1) : /\ attempts'[m].user = attempts'[n].user
                                           /\ attempts'[m].at + LimitTime >= attempts'[n].at
                                           /\ attempts'[m].result \in Failures}
  <2>1. 1..(n - 1) = DOMAIN attempts
    BY <1>1, <1>5
  <2>2. failed = Tries(u, Failures, LimitTime)
    BY <1>2, <1>5, <2>1 DEF Tries
  <2>3. ASSUME attempts'[n].source = "BOT", attempts'[n].result # "RATE_LIMITED",
               Cardinality(failed) >= MaxFailures
        PROVE  \A m \in 1..(n - 1) :
                 attempts'[m].user = attempts'[n].user
                 /\ (m \in failed \/ attempts'[m].result = "RATE_LIMITED")
                 => attempts'[m].at + BlockTime <= attempts'[n].at
    <3>1. ~Limited(u)
      BY <1>2, <1>5, <2>3 DEF Tried
    <3>2. /\ \A m \in Tries(u, Failures, LimitTime) : attempts[m].at + BlockTime <= minute
          /\ \A m \in DOMAIN attempts :
               attempts[m].user = u /\ attempts[m].result = "RATE_LIMITED"
               => attempts[m].at + BlockTime <= minute
      <4> HIDE DEF failed
      <4> QED
        BY <2>2, <2>3, <3>1, NotLimited
    <3> HIDE DEF failed
    <3>3. QED
      BY <1>2, <1>5, <2>1, <2>2, <3>2
  <2>4. {m \in {j \in 1..(n - 1) : attempts'[j].user = attempts'[n].user
                                   /\ attempts'[j].at + LimitTime >= attempts'[n].at} :
           attempts'[m].result \in Failures} = failed
    OBVIOUS
  <2>5. \A m \in failed : m \in 1..(n - 1) /\ attempts'[m].user = attempts'[n].user
    OBVIOUS
  <2> HIDE DEF failed
  <2>6. QED
    BY <2>3, <2>4, <2>5 DEF SlowAt
<1>6. QED
  BY <1>2, <1>4, <1>5

\* Guessing is slow: a message that fails after MaxFailures failures of the last
\* LimitTime comes BlockTime or more after each of them and after every refusal
\* of the limit.
THEOREM GuessesSlowThm == PromoSpec => []GuessesSlow
<1>1. PromoInit => GuessesSlow
  BY DEF PromoInit, GuessesSlow
<1>2. TypeInv /\ GuessesSlow /\ [PromoNext]_promoVars => GuessesSlow'
  <2> SUFFICES ASSUME TypeInv, GuessesSlow, [PromoNext]_promoVars PROVE GuessesSlow'
    OBVIOUS
  <2>1. PromoTypeOK /\ Waiting /\ "ACCEPTED" \in Results
    BY DEF TypeInv, Results
  <2>2. CASE \/ \E k \in DOMAIN plot.texts : Accepts(k)
             \/ \E k \in DOMAIN plot.texts, result \in Results \ {"ACCEPTED"} : Refuses(k, result)
    BY <2>1, <2>2, SlowTried DEF Accepts, Refuses
  <2>3. CASE \/ \E r \in DOMAIN redeemed : Attach(r) \/ Credit(r) \/ RollbackForRefund(r)
             \/ \E words, new : Makes(words, new)
             \/ \E w \in DOMAIN promos, d \in PromoRows : Patched(w, d)
             \/ Flips \/ Lapses \/ Rests
    <3>1. attempts' = attempts
      BY <2>3 DEF Attach, Credit, RollbackForRefund, Makes, Added, Patched, Flips, Lapses, Rests, Unmoved
    <3>2. QED
      BY <3>1 DEF GuessesSlow
  <2>4. QED
    BY <2>1, <2>2, <2>3, StepCases
<1>3. QED
  BY <1>1, <1>2, Typed, PTL DEF PromoSpec

-----------------------------------------------------------------------------
(* AcceptedMade: for every moment, as many accepted attempts as redemptions *)
(* since then, so that every window of the dashboard counts as many.        *)

AcceptedSince(from) ==
  {n \in DOMAIN attempts : attempts[n].result = "ACCEPTED" /\ attempts[n].at >= from}
MadeSince(from) == {r \in DOMAIN redeemed : redeemed[r].at >= from}

MadeInv == \A from \in Nat : Cardinality(AcceptedSince(from)) = Cardinality(MadeSince(from))

LEMMA MadeAccepted ==
  ASSUME TypeInv, MadeInv, NEW k \in DOMAIN plot.texts, Accepts(k)
  PROVE  MadeInv'
<1>. PICK tried, new : tried = Len(attempts) + 1 /\ new = Len(redeemed) + 1
  OBVIOUS
<1>1. PromoTypeOK /\ IsFiniteSet(DOMAIN attempts) /\ IsFiniteSet(DOMAIN redeemed)
      /\ "ACCEPTED" \in Results /\ minute \in Nat
  BY Tables DEF TypeInv, Results
<1>2. /\ DOMAIN attempts' = DOMAIN attempts \cup {tried} /\ tried \notin DOMAIN attempts
      /\ attempts'[tried].result = "ACCEPTED" /\ attempts'[tried].at = minute
      /\ \A n \in DOMAIN attempts : attempts'[n] = attempts[n]
  BY <1>1, LogEffect DEF Accepts, Tried
<1>3. /\ DOMAIN redeemed' = DOMAIN redeemed \cup {new} /\ new \notin DOMAIN redeemed
      /\ redeemed'[new].at = minute
      /\ \A r \in DOMAIN redeemed : redeemed'[r] = redeemed[r]
  BY AcceptedRow
<1>4. SUFFICES ASSUME NEW from \in Nat
               PROVE  Cardinality(AcceptedSince(from)') = Cardinality(MadeSince(from)')
  BY DEF MadeInv, AcceptedSince, MadeSince
<1>5. /\ AcceptedSince(from) \in SUBSET DOMAIN attempts /\ tried \notin AcceptedSince(from)
      /\ MadeSince(from) \in SUBSET DOMAIN redeemed /\ new \notin MadeSince(from)
  BY <1>2, <1>3 DEF AcceptedSince, MadeSince
<1>6. IsFiniteSet(AcceptedSince(from)) /\ IsFiniteSet(MadeSince(from))
  BY <1>1, <1>5, Part
<1>7. Cardinality(AcceptedSince(from)) = Cardinality(MadeSince(from))
  BY DEF MadeInv
<1>8. CASE minute >= from
  <2>1. AcceptedSince(from)' = AcceptedSince(from) \cup {tried}
    BY <1>2, <1>8 DEF AcceptedSince
  <2>2. MadeSince(from)' = MadeSince(from) \cup {new}
    BY <1>3, <1>8 DEF MadeSince
  <2>3. QED
    BY <1>5, <1>6, <1>7, <2>1, <2>2, OneMore
<1>9. CASE ~(minute >= from)
  <2>1. AcceptedSince(from)' = AcceptedSince(from)
    BY <1>2, <1>9 DEF AcceptedSince
  <2>2. MadeSince(from)' = MadeSince(from)
    BY <1>3, <1>9 DEF MadeSince
  <2>3. QED
    BY <1>7, <2>1, <2>2
<1>10. QED
  BY <1>8, <1>9

LEMMA MadeStep == TypeInv /\ MadeInv /\ [PromoNext]_promoVars => MadeInv'
<1> SUFFICES ASSUME TypeInv, MadeInv, [PromoNext]_promoVars PROVE MadeInv'
  OBVIOUS
<1>1. PromoTypeOK /\ Waiting
  BY DEF TypeInv
<1>2. CASE \E k \in DOMAIN plot.texts : Accepts(k)
  BY <1>2, MadeAccepted
<1>3. CASE \E k \in DOMAIN plot.texts, result \in Results \ {"ACCEPTED"} : Refuses(k, result)
  <2>1. PICK k \in DOMAIN plot.texts, result \in Results \ {"ACCEPTED"} : Refuses(k, result)
    BY <1>3
  <2>2. redeemed' = redeemed /\ Log(plot.texts[k], result)
    BY <2>1 DEF Refuses, Tried
  <2>3. \A from : AcceptedSince(from)' = AcceptedSince(from)
    BY <1>1, <2>2, LogEffect DEF AcceptedSince
  <2>4. \A from : MadeSince(from)' = MadeSince(from)
    BY <2>2 DEF MadeSince
  <2>5. QED
    BY <2>3, <2>4 DEF MadeInv
<1>4. CASE Lapses \/ \E r \in DOMAIN redeemed : Attach(r) \/ Credit(r) \/ RollbackForRefund(r)
  <2>1. Rewrites
    BY <1>1, <1>4, AttachEffect, CreditEffect, RollbackEffect, LapsesEffect
  <2>2. attempts' = attempts
    BY <1>4 DEF Attach, Credit, RollbackForRefund, Lapses, Unmoved
  <2>3. \A from : AcceptedSince(from)' = AcceptedSince(from) /\ MadeSince(from)' = MadeSince(from)
    BY <2>1, <2>2 DEF Rewrites, AcceptedSince, MadeSince
  <2>4. QED
    BY <2>3 DEF MadeInv
<1>5. CASE \/ \E words, new : Makes(words, new)
           \/ \E w \in DOMAIN promos, d \in PromoRows : Patched(w, d)
           \/ Flips \/ Rests
  <2>1. UNCHANGED <<attempts, redeemed>>
    BY <1>5 DEF Makes, Added, Patched, Flips, Rests, Unmoved
  <2>2. \A from : AcceptedSince(from)' = AcceptedSince(from) /\ MadeSince(from)' = MadeSince(from)
    BY <2>1 DEF AcceptedSince, MadeSince
  <2>3. QED
    BY <2>2 DEF MadeInv
<1>6. QED
  BY <1>1, <1>2, <1>3, <1>4, <1>5, StepCases

\* The last answer of the dashboard.
BoardInv == board.accepted = board.made

\* The dashboard counts what it shows in one window.
LEMMA BoardRead ==
  ASSUME TypeInv, MadeInv, PromoDashboard
  PROVE  board'.accepted = board'.made
<1>1. /\ minute \in Nat
      /\ \A n \in DOMAIN attempts : attempts[n] \in AttemptRows
      /\ \A r \in DOMAIN redeemed : redeemed[r] \in RedemptionRows
  BY Tables DEF TypeInv
<1>2. (\A n \in DOMAIN attempts : attempts[n].at \in Nat) /\ \A r \in DOMAIN redeemed : redeemed[r].at \in Nat
  BY <1>1 DEF AttemptRows, RedemptionRows
<1>3. PICK span \in 0..minute :
        /\ board'.accepted = Cardinality({n \in {i \in DOMAIN attempts : Recently(attempts[i].at, span)} :
                                            attempts[n].result \in {"ACCEPTED"}})
        /\ board'.made = Cardinality({r \in DOMAIN redeemed : Recently(redeemed[r].at, span)})
  <2>1. PICK span \in 0..minute :
          LET results(S) == {n \in DOMAIN attempts : Recently(attempts[n].at, span) /\ attempts[n].result \in S}
          IN board' = [accepted |-> Cardinality(results({"ACCEPTED"})),
                       failed |-> Cardinality(results(Results \ {"ACCEPTED"})),
                       made |-> Cardinality({r \in DOMAIN redeemed : Recently(redeemed[r].at, span)}),
                       guarded |-> Cardinality(Abused)]
    BY DEF PromoDashboard
  <2>2. {n \in DOMAIN attempts : Recently(attempts[n].at, span) /\ attempts[n].result \in {"ACCEPTED"}}
          = {n \in {i \in DOMAIN attempts : Recently(attempts[i].at, span)} :
               attempts[n].result \in {"ACCEPTED"}}
    OBVIOUS
  <2>3. QED
    BY <2>1, <2>2
<1>4. minute - span \in Nat
  BY <1>1
<1>5. \A at \in Nat : Recently(at, span) <=> at >= minute - span
  BY <1>1 DEF Recently
<1>6. {n \in {i \in DOMAIN attempts : Recently(attempts[i].at, span)} : attempts[n].result \in {"ACCEPTED"}}
        = AcceptedSince(minute - span)
  BY <1>2, <1>5 DEF AcceptedSince
<1>7. {r \in DOMAIN redeemed : Recently(redeemed[r].at, span)} = MadeSince(minute - span)
  BY <1>2, <1>5 DEF MadeSince
<1>8. QED
  BY <1>3, <1>4, <1>6, <1>7 DEF MadeInv

LEMMA BoardStep ==
  TypeInv /\ MadeInv /\ BoardInv /\ [PromoNext]_promoVars => BoardInv'
<1> SUFFICES ASSUME TypeInv, MadeInv, board.accepted = board.made, [PromoNext]_promoVars
             PROVE  board'.accepted = board'.made
  BY DEF BoardInv
<1>1. CASE PromoDashboard
  BY <1>1, BoardRead
<1>2. CASE \/ Operate \/ ExpireReservations \/ Rollover \/ Guard
  BY <1>2 DEF Operate, ExpireReservations, Rollover, Guard, Unmoved, CreateBulk, InsertBatch, Create,
              Added, Patch, Toggle, Revoke, UpdateStatus
<1>3. CASE \E k \in DOMAIN plot.texts : Redeem(k) \/ RequestPasses(k) \/ RequestEnds(k)
  BY <1>3 DEF Redeem, RequestPasses, RequestEnds
<1>4. CASE \E r \in DOMAIN redeemed : Attach(r) \/ Credit(r) \/ RollbackForRefund(r)
  BY <1>4 DEF Attach, Credit, RollbackForRefund
<1>5. CASE Minute \/ UNCHANGED promoVars
  BY <1>5 DEF Minute, promoVars
<1>6. QED
  BY <1>1, <1>2, <1>3, <1>4, <1>5 DEF PromoNext

\* Every accepted attempt has its redemption and the other way round, and the
\* dashboard counts as many of each in every window.
THEOREM AcceptedMadeThm == PromoSpec => []AcceptedMade
<1>1. PromoInit => MadeInv /\ BoardInv
  <2> SUFFICES ASSUME PromoInit PROVE MadeInv /\ board.accepted = board.made
    BY DEF BoardInv
  <2>1. redeemed = <<>> /\ attempts = <<>> /\ board.accepted = 0 /\ board.made = 0
    BY DEF PromoInit
  <2>2. \A from : AcceptedSince(from) = {} /\ MadeSince(from) = {}
    BY <2>1 DEF AcceptedSince, MadeSince
  <2>3. QED
    BY <2>1, <2>2 DEF MadeInv
<1>2. TypeInv /\ MadeInv /\ BoardInv => AcceptedMade
  <2> SUFFICES ASSUME TypeInv, MadeInv
               PROVE  Cardinality({n \in DOMAIN attempts : attempts[n].result = "ACCEPTED"}) = Len(redeemed)
    BY DEF AcceptedMade, BoardInv
  <2>1. /\ \A n \in DOMAIN attempts : attempts[n] \in AttemptRows
        /\ \A r \in DOMAIN redeemed : redeemed[r] \in RedemptionRows
        /\ DOMAIN redeemed = 1..Len(redeemed) /\ Len(redeemed) \in Nat
    BY Tables DEF TypeInv
  <2>2. (\A n \in DOMAIN attempts : attempts[n].at >= 0) /\ \A r \in DOMAIN redeemed : redeemed[r].at >= 0
    BY <2>1 DEF AttemptRows, RedemptionRows
  <2>3. AcceptedSince(0) = {n \in DOMAIN attempts : attempts[n].result = "ACCEPTED"}
        /\ MadeSince(0) = 1..Len(redeemed)
    BY <2>1, <2>2 DEF AcceptedSince, MadeSince
  <2>4. Cardinality(1..Len(redeemed)) = Len(redeemed)
    <3>1. 1 \in Int /\ Len(redeemed) \in Int
      BY <2>1
    <3>2. Cardinality(1..Len(redeemed)) = IF 1 > Len(redeemed) THEN 0 ELSE Len(redeemed) - 1 + 1
      BY <3>1, FS_Interval
    <3>3. QED
      BY <2>1, <3>2
  <2>5. 0 \in Nat
    OBVIOUS
  <2>6. QED
    BY <2>3, <2>4, <2>5 DEF MadeInv
<1>3. QED
  BY <1>1, <1>2, Typed, MadeStep, BoardStep, PTL DEF PromoSpec

-----------------------------------------------------------------------------

\* However messages, requests, payments, operators and jobs mix, the tables of
\* the codes are at every moment as promised, and what is over stays over.
THEOREM PromoHoldsThm == PromoSpec => PromoHolds
BY TypeCorrect, UsesCountedThm, UsesPerUserThm, GrantsAddUpThm, GuessesSlowThm,
   AcceptedMadeThm, ListedAsDisplayedThm, OverIsOver, PTL DEF PromoHolds
=============================================================================
