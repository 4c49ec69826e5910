--------------------------- MODULE ReferralsProofs ---------------------------
(***************************************************************************)
(* What Referrals guarantees for every set of hosts and guests, every      *)
(* number of referrals in a reward and every limit.                        *)
(***************************************************************************)
EXTENDS Referrals, FiniteSetTheorems, FunctionTheorems, SequenceTheorems,
        WellFoundedInduction, TLAPS

-----------------------------------------------------------------------------
(* Numbers and finite sets. *)

LEMMA Part ==
  ASSUME NEW S, IsFiniteSet(S), NEW T, T \subseteq S
  PROVE  /\ IsFiniteSet(T) /\ Cardinality(T) \in Nat /\ Cardinality(S) \in Nat
         /\ Cardinality(T) <= Cardinality(S)
         /\ Cardinality(T) = Cardinality(S) => T = S
<1>1. T \in SUBSET S
  OBVIOUS
<1>2. QED
  BY <1>1, FS_Subset, FS_CardinalityType

LEMMA OneMore ==
  ASSUME NEW S, IsFiniteSet(S), NEW x, x \notin S
  PROVE  /\ IsFiniteSet(S \cup {x}) /\ Cardinality(S) \in Nat
         /\ Cardinality(S \cup {x}) = Cardinality(S) + 1
BY FS_AddElement, FS_CardinalityType

LEMMA OneLess ==
  ASSUME NEW S, IsFiniteSet(S), NEW x \in S
  PROVE  /\ IsFiniteSet(S \ {x}) /\ Cardinality(S) \in Nat
         /\ Cardinality(S \ {x}) = Cardinality(S) - 1
BY FS_RemoveElement, FS_CardinalityType

LEMMA Disjoint ==
  ASSUME NEW S, IsFiniteSet(S), NEW T, IsFiniteSet(T), S \cap T = {}
  PROVE  /\ IsFiniteSet(S \cup T) /\ Cardinality(S) \in Nat /\ Cardinality(T) \in Nat
         /\ Cardinality(S \cup T) = Cardinality(S) + Cardinality(T)
<1>1. /\ IsFiniteSet(S \cup T) /\ Cardinality(S) \in Nat /\ Cardinality(T) \in Nat
      /\ Cardinality(S \cup T) = Cardinality(S) + Cardinality(T) - Cardinality(S \cap T)
  BY FS_Union, FS_CardinalityType
<1>2. Cardinality(S \cap T) = 0
  BY FS_EmptySet
<1>3. QED
  BY <1>1, <1>2

\* Of finitely many there are finitely many values.
LEMMA FiniteValues ==
  ASSUME NEW A, IsFiniteSet(A), NEW f
  PROVE  IsFiniteSet({f[n] : n \in A})
<1> DEFINE T == {f[n] : n \in A}
           s == [n \in A |-> f[n]]
<1>1. s \in Surjection(A, T)
  BY DEF Surjection
<1>2. QED
  BY <1>1, FS_Surjection

\* A set of numbers has a least one.
LEMMA Least ==
  ASSUME NEW T, T \subseteq Nat, T # {}
  PROVE  \E x \in T : \A y \in T : x <= y
<1>1. PICK x \in T : \A y \in T : ~(<<y, x>> \in OpToRel(<, Nat))
  BY NatLessThanWellFounded, WFMin
<1>2. \A y \in T : ~(y < x)
  BY <1>1 DEF OpToRel
<1>3. \A y \in T : x <= y
  BY <1>2
<1>4. QED
  BY <1>3

\* A quotient grows with what is divided, and loses no more than the rest.
LEMMA Quotient ==
  ASSUME NEW a \in Nat, NEW b \in Nat, NEW d \in Nat \ {0}, a <= b
  PROVE  a \div d <= b \div d /\ a \div d \in Nat
OBVIOUS

LEMMA Multiple ==
  ASSUME NEW a \in Nat, NEW d \in Nat \ {0}, a % d = 0
  PROVE  a = d * (a \div d)
OBVIOUS

LEMMA RoundedDown ==
  ASSUME NEW a \in Nat, NEW d \in Nat \ {0}
  PROVE  (a \div d) * d <= a
OBVIOUS

-----------------------------------------------------------------------------
(* The order of the qualified referrals. *)

\* Rows of which all have been qualified at some time.
Ranked(S) == IsFiniteSet(S) /\ S \subseteq Nat /\ \A i \in S : links[i].qualified \in Nat

LEMMA RankBounds ==
  ASSUME NEW S, IsFiniteSet(S), NEW i
  PROVE  /\ IsFiniteSet({j \in S : NotAfter(j, i)})
         /\ RankIn(S, i) \in Nat /\ Cardinality(S) \in Nat
         /\ RankIn(S, i) <= Cardinality(S)
<1>1. {j \in S : NotAfter(j, i)} \subseteq S
  OBVIOUS
<1>2. QED
  BY <1>1, Part DEF RankIn

LEMMA InOrder ==
  ASSUME NEW S, Ranked(S)
  PROVE  /\ \A i \in S : NotAfter(i, i)
         /\ \A i, j \in S : NotAfter(i, j) \/ NotAfter(j, i)
         /\ \A i, j \in S : NotAfter(i, j) /\ NotAfter(j, i) => i = j
         /\ \A i, j, k \in S : NotAfter(i, j) /\ NotAfter(j, k) => NotAfter(i, k)
BY DEF Ranked, NotAfter

LEMMA RankRises ==
  ASSUME NEW S, Ranked(S), NEW i \in S, NEW j \in S, i # j, NotAfter(i, j)
  PROVE  RankIn(S, i) < RankIn(S, j)
<1> DEFINE I == {k \in S : NotAfter(k, i)}
           J == {k \in S : NotAfter(k, j)}
<1>1. I \subseteq J \ {j} /\ j \in J
  BY InOrder
<1>2. IsFiniteSet(J)
  BY RankBounds DEF Ranked
<1> HIDE DEF I, J
<1>3. IsFiniteSet(J \ {j}) /\ Cardinality(J) \in Nat /\ Cardinality(J \ {j}) = Cardinality(J) - 1
  BY <1>1, <1>2, OneLess
<1>4. Cardinality(I) <= Cardinality(J \ {j}) /\ Cardinality(I) \in Nat
  BY <1>1, <1>3, Part
<1>5. Cardinality(I) < Cardinality(J)
  BY <1>3, <1>4
<1>6. QED
  BY <1>5 DEF RankIn, I, J

\* No two have the same rank, and ranks are counted from one.
LEMMA RanksDiffer ==
  ASSUME NEW S, Ranked(S)
  PROVE  /\ \A i \in S : RankIn(S, i) \in 1..Cardinality(S)
         /\ \A i, j \in S : RankIn(S, i) = RankIn(S, j) => i = j
<1>1. ASSUME NEW i \in S PROVE RankIn(S, i) \in 1..Cardinality(S)
  <2>1. RankIn(S, i) \in Nat /\ Cardinality(S) \in Nat /\ RankIn(S, i) <= Cardinality(S)
    BY RankBounds DEF Ranked
  <2>2. i \in {j \in S : NotAfter(j, i)} /\ IsFiniteSet({j \in S : NotAfter(j, i)})
    <3>1. NotAfter(i, i)
      BY InOrder
    <3>2. IsFiniteSet({j \in S : NotAfter(j, i)})
      BY RankBounds DEF Ranked
    <3>3. QED
      BY <3>1, <3>2
  <2>3. RankIn(S, i) # 0
    BY <2>2, FS_EmptySet DEF RankIn
  <2>4. QED
    BY <2>1, <2>3
<1>2. ASSUME NEW i \in S, NEW j \in S, i # j PROVE RankIn(S, i) # RankIn(S, j)
  <2>1. RankIn(S, i) < RankIn(S, j) \/ RankIn(S, j) < RankIn(S, i)
    BY <1>2, InOrder, RankRises
  <2>2. RankIn(S, i) \in Nat /\ RankIn(S, j) \in Nat
    BY RankBounds DEF Ranked
  <2>3. QED
    BY <2>1, <2>2
<1>3. QED
  BY <1>1, <1>2

\* Of some rows one is the first.
LEMMA FirstIsFirst ==
  ASSUME NEW S, Ranked(S), S # {}
  PROVE  /\ First(S) \in S /\ \A j \in S : NotAfter(First(S), j)
         /\ RankIn(S, First(S)) = 1
<1> DEFINE ranks == {RankIn(S, i) : i \in S}
<1>1. ranks \subseteq Nat /\ ranks # {}
  BY RankBounds DEF Ranked
<1>2. PICK r \in ranks : \A y \in ranks : r <= y
  BY <1>1, Least
<1>3. PICK i \in S : r = RankIn(S, i)
  BY <1>2
<1>4. ASSUME NEW j \in S, ~NotAfter(i, j) PROVE FALSE
  <2>1. i # j /\ NotAfter(j, i)
    BY <1>4, InOrder
  <2>2. RankIn(S, j) < RankIn(S, i)
    BY <2>1, RankRises
  <2>3. RankIn(S, i) <= RankIn(S, j)
    BY <1>2, <1>3
  <2>4. RankIn(S, i) \in Nat /\ RankIn(S, j) \in Nat
    BY RankBounds DEF Ranked
  <2>5. QED
    BY <2>2, <2>3, <2>4
<1>5. First(S) \in S /\ \A j \in S : NotAfter(First(S), j)
  BY <1>4 DEF First
<1>6. {j \in S : NotAfter(j, First(S))} = {First(S)}
  BY <1>5, InOrder
<1>7. QED
  BY <1>5, <1>6, FS_Singleton DEF RankIn

\* Without the first, the others move up by one.
LEMMA RanksMoveUp ==
  ASSUME NEW S, Ranked(S), S # {}, NEW i \in S, i # First(S)
  PROVE  RankIn(S \ {First(S)}, i) = RankIn(S, i) - 1
<1>1. First(S) \in {j \in S : NotAfter(j, i)} /\ IsFiniteSet({j \in S : NotAfter(j, i)})
  BY FirstIsFirst, RankBounds DEF Ranked
<1>2. {j \in S \ {First(S)} : NotAfter(j, i)} = {j \in S : NotAfter(j, i)} \ {First(S)}
  OBVIOUS
<1>3. QED
  BY <1>1, <1>2, OneLess DEF RankIn

-----------------------------------------------------------------------------
(* Types. *)

LEMMA Settings ==
  /\ Window \in Nat /\ MinAttempts \in Nat /\ MinDays \in Nat /\ MonthCap \in Nat /\ RewardDays \in Nat
  /\ MinStarted \in Nat /\ MaxRate \in Nat /\ MaxRejected \in Nat
  /\ StartsLimit \in Nat \ {0} /\ Delay \in Nat \ {0} /\ PerReward \in Nat \ {0}
  /\ MonthDays \in Nat \ {0} /\ SpikeAt \in Nat \ {0}
  /\ Never \notin Nat
BY RewardsAssumption

USE Settings

LEMMA TaleTypes ==
  ASSUME tale \in Tales
  PROVE  /\ tale.days \in Nat /\ tale.games \in Nat /\ tale.joinBy \in Nat /\ tale.together \in Nat
         /\ tale.premium \in Nat \cup {Never}
         /\ \A g \in DOMAIN tale.plays : tale.plays[g] \in Seq(Nat) /\ tale.from[g] \in Hosts
BY TalesAssumption

LEMMA MonthsPass ==
  ASSUME NEW a \in Nat, NEW b \in Nat, a <= b
  PROVE  MonthOf(a) \in Nat /\ MonthOf(b) \in Nat /\ MonthOf(a) <= MonthOf(b)
BY Quotient DEF MonthOf

LEMMA Clock ==
  ASSUME RefTypeOK
  PROVE  tale.days \in Nat /\ today \in Times /\ Times \subseteq Nat /\ today \in Nat
<1>1. tale.days \in Nat /\ today \in Times
  BY TaleTypes DEF RefTypeOK
<1>2. QED
  BY <1>1 DEF Times

\* A table with every row rewritten.
LEMMA Rewritten ==
  ASSUME NEW S, NEW s \in Seq(S), NEW f, f \in [DOMAIN s -> S]
  PROVE  f \in Seq(S) /\ DOMAIN f = DOMAIN s
BY LenProperties, SeqDef

\* A table with a new row.
LEMMA RowAdded ==
  ASSUME NEW S, NEW s \in Seq(S), NEW row \in S, NEW t, t = Append(s, row)
  PROVE  /\ t \in Seq(S) /\ Len(t) = Len(s) + 1
         /\ DOMAIN t = DOMAIN s \cup {Len(s) + 1} /\ Len(s) + 1 \notin DOMAIN s
         /\ t[Len(s) + 1] = row /\ \A k \in DOMAIN s : t[k] = s[k]
<1>1. /\ t \in Seq(S) /\ Len(t) = Len(s) + 1
      /\ \A k \in 1..Len(s) : t[k] = s[k]
      /\ t[Len(s) + 1] = row
  BY AppendProperties
<1>2. DOMAIN s = 1..Len(s) /\ Len(s) \in Nat /\ DOMAIN t = 1..Len(t)
  BY <1>1, LenProperties
<1>3. 1..(Len(s) + 1) = 1..Len(s) \cup {Len(s) + 1} /\ Len(s) + 1 \notin 1..Len(s)
  BY ONLY <1>2
<1>4. QED
  BY <1>1, <1>2, <1>3

LEMMA Table ==
  ASSUME RefTypeOK
  PROVE  /\ Refs = 1..Len(links) /\ Len(links) \in Nat /\ IsFiniteSet(Refs) /\ Refs \subseteq Nat
         /\ \A i \in Refs : links[i] \in LinkRows
<1>1. links \in Seq(LinkRows)
  BY DEF RefTypeOK
<1>2. Refs = 1..Len(links) /\ Len(links) \in Nat
  BY <1>1, LenProperties DEF Refs
<1>3. \A i \in Refs : links[i] \in LinkRows
  BY <1>1, <1>2, ElementOfSeq
<1>4. IsFiniteSet(Refs)
  BY <1>2, FS_Interval
<1>5. QED
  BY <1>2, <1>3, <1>4

\* What the columns of a row say together.
Fits(r) ==
  /\ r.guest \in DOMAIN tale.plays /\ r.made <= today
  /\ r.status \in Counting <=> r.qualified # Never
  /\ r.qualified # Never => r.qualified <= today
  /\ r.status = "REWARDED" <=> r.rewarded # Never
  /\ r.rewarded # Never => r.rewarded <= today
  /\ r.notified # Never => r.notified <= today /\ r.status \in Counting

TypeInv ==
  /\ RefTypeOK
  /\ \A i \in Refs : Fits(links[i])
  /\ \A g \in DOMAIN arriving :
       /\ arriving[g].made = today /\ arriving[g].status \in {"STARTED", "REJECTED_FRAUD"}
       /\ arriving[g].host = tale.from[g] /\ Fits(arriving[g])

LEMMA InitTypes == RefInit => TypeInv
<1> SUFFICES ASSUME RefInit PROVE TypeInv
  OBVIOUS
<1>1. tale \in Tales /\ tale.days \in Nat /\ tale.games \in Nat /\ tale.premium \in Nat \cup {Never}
  BY TaleTypes DEF RefInit
<1>2. links \in Seq(LinkRows) /\ Refs = {}
  BY DEF RefInit, Refs
<1>3. DOMAIN arriving = {} /\ arriving \in [{} -> LinkRows]
  BY DEF RefInit
<1>4. guest \in [Everyone -> UserRows] /\ shown \in [Everyone -> [prompts : Nat, bonuses : Nat]]
  BY <1>1 DEF RefInit, UserRows
<1>5. today \in Times /\ premium \in [Hosts -> Nat \cup {Never}]
  BY <1>1 DEF RefInit, Times
<1>6. QED
  BY <1>1, <1>2, <1>3, <1>4, <1>5 DEF RefInit, TypeInv, RefTypeOK

\* A row that keeps who brought whom and when.
Kin(r, q) == q \in LinkRows /\ q.host = r.host /\ q.guest = r.guest /\ q.made = r.made

\* The rows of links rewritten, each by one of its kin.
Rewrites == Refs' = Refs /\ links' \in Seq(LinkRows) /\ \A i \in Refs : Kin(links[i], links'[i])

LEMMA RowsRewritten ==
  ASSUME RefTypeOK, NEW f, f = [i \in Refs |-> f[i]], links' = f, \A i \in Refs : Kin(links[i], f[i])
  PROVE  Rewrites
<1>1. links \in Seq(LinkRows) /\ Refs = DOMAIN links
  BY DEF RefTypeOK, Refs
<1>2. f \in [Refs -> LinkRows]
  BY DEF Kin
<1>3. f \in Seq(LinkRows) /\ DOMAIN f = DOMAIN links
  BY <1>1, <1>2, Rewritten
<1>4. QED
  BY <1>1, <1>3 DEF Rewrites, Refs

\* One row changes.
LEMMA RowRewritten ==
  ASSUME RefTypeOK, NEW i \in Refs, NEW r, Kin(links[i], r), links' = [links EXCEPT ![i] = r]
  PROVE  /\ Rewrites /\ links'[i] = r
         /\ \A j \in Refs : j # i => links'[j] = links[j]
<1>1. links = [j \in Refs |-> links[j]]
  BY DEF RefTypeOK, Refs
<1>2. links' = [j \in Refs |-> IF j = i THEN r ELSE links[j]]
  BY <1>1
<1>3. \A j \in Refs : Kin(links[j], links[j])
  BY Table DEF Kin
<1>4. QED
  BY <1>2, <1>3, RowsRewritten

\* What a row may become keeps its type.
LEMMA RowChanges ==
  ASSUME RefTypeOK, NEW r \in LinkRows
  PROVE  /\ Kin(r, r) /\ Kin(r, Checked(r, today))
         /\ Kin(r, [r EXCEPT !.status = "DEFERRED_LIMIT"])
         /\ Kin(r, [r EXCEPT !.status = "QUALIFIED",
                             !.notified = IF r.notified = Never THEN today ELSE r.notified])
         /\ Kin(r, [r EXCEPT !.status = "REWARDED", !.rewarded = today])
         /\ \A s \in Statuses, n \in {0, 80} :
              Kin(r, [r EXCEPT !.status = s, !.qualified = Never, !.rewarded = Never, !.score = n])
<1>1. today \in Times
  BY DEF RefTypeOK
<1>2. Kin(r, r)
  BY DEF Kin
<1>3. Kin(r, Checked(r, today))
  BY <1>1 DEF Kin, Checked, LinkRows, Statuses, Counting
<1>4. Kin(r, [r EXCEPT !.status = "DEFERRED_LIMIT"])
  BY DEF Kin, LinkRows, Statuses, Counting
<1>5. Kin(r, [r EXCEPT !.status = "REWARDED", !.rewarded = today])
  BY <1>1 DEF Kin, LinkRows, Statuses, Counting
<1>6. ASSUME NEW s \in Statuses, NEW n \in {0, 80}
      PROVE  Kin(r, [r EXCEPT !.status = s, !.qualified = Never, !.rewarded = Never, !.score = n])
  BY <1>6 DEF Kin, LinkRows
<1>7. Kin(r, [r EXCEPT !.status = "QUALIFIED",
                       !.notified = IF r.notified = Never THEN today ELSE r.notified])
  <2>1. PICK t \in Times \cup {Never} : t = IF r.notified = Never THEN today ELSE r.notified
    BY <1>1 DEF LinkRows
  <2>2. Kin(r, [r EXCEPT !.status = "QUALIFIED", !.notified = t])
    BY DEF Kin, LinkRows, Statuses, Counting
  <2>3. QED
    BY <2>1, <2>2
<1>8. QED
  BY <1>2, <1>3, <1>4, <1>5, <1>6, <1>7

\* The job of the qualification.
LEMMA QualifyEffect ==
  ASSUME RefTypeOK, Qualify
  PROVE  Rewrites /\ \A i \in Refs : links'[i] = Checked(links[i], today)
<1>1. links' = [i \in Refs |-> Checked(links[i], today)]
  BY DEF Qualify
<1>2. \A i \in Refs : Kin(links[i], Checked(links[i], today))
  BY Table, RowChanges
<1>3. QED
  BY <1>1, <1>2, RowsRewritten

\* The announcements.
LEMMA DistributeEffect ==
  ASSUME RefTypeOK, Distribute
  PROVE  Rewrites /\ \A i \in Refs : links'[i] = Announced(i)
<1>1. links' = [i \in Refs |-> Announced(i)]
  BY DEF Distribute
<1>2. \A i \in Refs : Kin(links[i], Announced(i))
  BY Table, RowChanges DEF Announced
<1>3. QED
  BY <1>1, <1>2, RowsRewritten

\* Rows that are due have been qualified.
LEMMA DueRanked ==
  ASSUME RefTypeOK, NEW h
  PROVE  /\ Ranked(Sequence(h)) /\ Sequence(h) \subseteq Refs
         /\ Ranked(Anchors(h)) /\ Ranked(Due(h)) /\ Ranked(Early(h))
         /\ Anchors(h) \subseteq Sequence(h) /\ Due(h) \subseteq Anchors(h) /\ Early(h) \subseteq Anchors(h)
<1>1. Sequence(h) \subseteq Refs /\ \A j \in Sequence(h) : links[j].qualified # Never
  BY DEF Sequence, Of
<1>2. \A j \in Refs : links[j].qualified \in Times \cup {Never}
  BY Table DEF LinkRows
<1>3. Times \subseteq Nat
  BY TaleTypes DEF Times, RefTypeOK
<1>4. \A j \in Sequence(h) : links[j].qualified \in Nat
  BY <1>1, <1>2, <1>3
<1>5. ASSUME NEW S, S \subseteq Sequence(h) PROVE Ranked(S)
  BY <1>1, <1>4, <1>5, Table, Part DEF Ranked
<1>6. Anchors(h) \subseteq Sequence(h) /\ Due(h) \subseteq Anchors(h) /\ Early(h) \subseteq Anchors(h)
  BY DEF Anchors, Due, Early
<1>7. QED
  BY <1>1, <1>5, <1>6

\* A claim that goes through.
LEMMA ClaimEffect ==
  ASSUME RefTypeOK, NEW h \in Hosts, ClaimReward(h)
  PROVE  /\ Rewrites /\ RewardsThisMonth(h) < MonthCap
         /\ Due(h) # {} /\ First(Due(h)) \in Refs /\ First(Due(h)) \in Due(h)
         /\ links'[First(Due(h))] = [links[First(Due(h))] EXCEPT !.status = "REWARDED", !.rewarded = today]
         /\ paid' = paid \cup {First(Due(h))}
         /\ \A j \in Refs : j # First(Due(h)) => links'[j] = links[j]
<1> DEFINE i == First(Due(h))
<1>1. Due(h) # {} /\ RewardsThisMonth(h) < MonthCap
  BY DEF ClaimReward, ClaimAnswer
<1>2. i \in Due(h) /\ i \in Refs
  BY <1>1, DueRanked, FirstIsFirst
<1>3. /\ links' = [links EXCEPT ![i].status = "REWARDED", ![i].rewarded = today]
      /\ paid' = paid \cup {i}
  BY DEF ClaimReward
<1> HIDE DEF i
<1>4. links[i] \in LinkRows
  BY <1>2, Table
<1>5. PICK r : r = [links[i] EXCEPT !.status = "REWARDED", !.rewarded = today]
  OBVIOUS
<1>6. Kin(links[i], r)
  BY <1>4, <1>5, RowChanges
<1>7. links' = [links EXCEPT ![i] = r]
  BY <1>2, <1>3, <1>4, <1>5 DEF Refs
<1>8. QED
  BY <1>1, <1>2, <1>3, <1>5, <1>6, <1>7, RowRewritten DEF i

\* A claim above the cap.
LEMMA DeferEffect ==
  ASSUME RefTypeOK, NEW h \in Hosts, Defer(h)
  PROVE  /\ Rewrites
         /\ \A i \in Refs : links'[i] = IF i \in Due(h) THEN [links[i] EXCEPT !.status = "DEFERRED_LIMIT"]
                                        ELSE links[i]
<1>1. PICK f : f = [i \in Refs |-> IF i \in Due(h) THEN [links[i] EXCEPT !.status = "DEFERRED_LIMIT"]
                                   ELSE links[i]]
  OBVIOUS
<1>2. links' = f
  BY <1>1 DEF Defer
<1>3. \A i \in Refs : Kin(links[i], f[i])
  BY <1>1, Table, RowChanges
<1>4. QED
  BY <1>1, <1>2, <1>3, RowsRewritten

\* A decision of the review: the row never was qualified, or is not any more.
LEMMA ReviewEffect ==
  ASSUME RefTypeOK, NEW i \in Refs, NEW decision, Review(i, decision)
  PROVE  /\ Rewrites
         /\ links[i].status \notin Counting /\ links'[i].status \in {"STARTED", "REJECTED_FRAUD", "CANCELED"}
         /\ links'[i].qualified = Never /\ links'[i].rewarded = Never
         /\ links'[i].notified = links[i].notified
         /\ \A j \in Refs : j # i => links'[j] = links[j]
<1>1. PICK next : next = NextStatus(decision, links[i].status)
  OBVIOUS
<1>2. /\ links[i].status \in {"STARTED", "REJECTED_FRAUD", "CANCELED"}
      /\ next \in {"STARTED", "REJECTED_FRAUD", "CANCELED"}
  BY <1>1 DEF Review, NextStatus
<1>3. PICK n : n = IF next = "REJECTED_FRAUD" THEN 80 ELSE IF next = "STARTED" THEN 0 ELSE links[i].score
  OBVIOUS
<1>4. links[i] \in LinkRows /\ links[i].score \in {0, 80}
  BY Table DEF LinkRows
<1>5. n \in {0, 80} /\ next \in Statuses
  BY <1>2, <1>3, <1>4 DEF Statuses
<1>6. PICK r : r = [links[i] EXCEPT !.status = next, !.qualified = Never, !.rewarded = Never, !.score = n]
  OBVIOUS
<1>7. Kin(links[i], r)
  BY <1>4, <1>5, <1>6, RowChanges
<1>8. links' = [links EXCEPT ![i] = r]
  <2>1. links' = [links EXCEPT ![i] =
          [links[i] EXCEPT !.status = next, !.qualified = Never, !.rewarded = Never,
             !.score = IF next = "REJECTED_FRAUD" THEN 80
                       ELSE IF next = "STARTED" THEN 0 ELSE links[i].score]]
    BY <1>1 DEF Review
  <2>2. QED
    BY <1>3, <1>6, <2>1, Zenon
<1>9. r.status = next /\ r.qualified = Never /\ r.rewarded = Never /\ r.notified = links[i].notified
  BY <1>4, <1>6 DEF LinkRows
<1>10. Rewrites /\ links'[i] = r /\ \A j \in Refs : j # i => links'[j] = links[j]
  BY <1>7, <1>8, RowRewritten
<1>11. QED
  BY <1>2, <1>9, <1>10 DEF Counting

\* A row that has become another fits as before.
LEMMA ChangesFit ==
  ASSUME RefTypeOK, NEW r \in LinkRows, Fits(r)
  PROVE  /\ Fits(Checked(r, today))
         /\ r.status \in Counting /\ r.status # "REWARDED" =>
              /\ Fits([r EXCEPT !.status = "DEFERRED_LIMIT"])
              /\ Fits([r EXCEPT !.status = "QUALIFIED",
                                !.notified = IF r.notified = Never THEN today ELSE r.notified])
              /\ Fits([r EXCEPT !.status = "REWARDED", !.rewarded = today])
<1>1. today \in Nat /\ today # Never
  BY TaleTypes DEF RefTypeOK, Times
<1>2. Fits(Checked(r, today))
  BY <1>1 DEF Fits, Checked, LinkRows, Counting
<1>3. ASSUME r.status \in Counting, r.status # "REWARDED"
      PROVE  Fits([r EXCEPT !.status = "DEFERRED_LIMIT"])
  BY <1>3 DEF Fits, LinkRows, Counting
<1>4. ASSUME r.status \in Counting, r.status # "REWARDED"
      PROVE  Fits([r EXCEPT !.status = "REWARDED", !.rewarded = today])
  BY <1>1, <1>4 DEF Fits, LinkRows, Counting
<1>5. ASSUME r.status \in Counting, r.status # "REWARDED"
      PROVE  Fits([r EXCEPT !.status = "QUALIFIED",
                            !.notified = IF r.notified = Never THEN today ELSE r.notified])
  <2>1. PICK t : t = IF r.notified = Never THEN today ELSE r.notified
    OBVIOUS
  <2>2. t # Never => t <= today
    BY <1>1, <2>1 DEF Fits
  <2>3. Fits([r EXCEPT !.status = "QUALIFIED", !.notified = t])
    BY <1>5, <2>2 DEF Fits, LinkRows, Counting
  <2>4. QED
    BY <2>1, <2>3
<1>6. QED
  BY <1>2, <1>3, <1>4, <1>5

\* Only rows that count and are not rewarded yet are due.
LEMMA DueCounts ==
  ASSUME NEW h, NEW i \in Due(h)
  PROVE  i \in Of(h) /\ links[i].status \in Counting /\ links[i].status # "REWARDED"
BY DEF Due, Anchors, Sequence

\* When the rows are rewritten and fit, and nothing else changes but the premium, the
\* messages and what is paid, the types are kept.
LEMMA RewriteTypes ==
  ASSUME TypeInv, Rewrites, \A i \in Refs : Fits(links'[i]),
         UNCHANGED <<today, arriving, events, guest, tale, welcomed, shown>>,
         premium' \in [Hosts -> Nat \cup {Never}], news' \subseteq Hosts \X Times,
         alerts' \subseteq Times, paid' \subseteq Refs
  PROVE  TypeInv'
<1>1. LinkRows' = LinkRows /\ Times' = Times /\ UserRows' = UserRows
  BY DEF LinkRows, Times, UserRows
<1>2. RefTypeOK'
  BY <1>1 DEF TypeInv, RefTypeOK, Rewrites
<1>3. \A i \in Refs' : Fits(links[i])'
  BY DEF Rewrites, Fits
<1>4. \A g \in DOMAIN arriving' :
        /\ arriving'[g].made = today' /\ arriving'[g].status \in {"STARTED", "REJECTED_FRAUD"}
        /\ arriving'[g].host = tale'.from[g] /\ Fits(arriving[g])'
  BY DEF TypeInv, Fits
<1>5. QED
  BY <1>2, <1>3, <1>4 DEF TypeInv

\* When the rows and the arrivals stay as they are and so do the bounds.
LEMMA StayTypes ==
  ASSUME TypeInv, UNCHANGED <<today, links, arriving, tale, premium, paid, welcomed>>,
         news' \subseteq Hosts \X Times, alerts' \subseteq Times,
         events' \subseteq Times \X {"SENT", "FAILED"},
         guest' \in [Everyone -> UserRows], shown' \in [Everyone -> [prompts : Nat, bonuses : Nat]]
  PROVE  TypeInv'
<1>1. LinkRows' = LinkRows /\ Times' = Times /\ UserRows' = UserRows /\ Refs' = Refs
  BY DEF LinkRows, Times, UserRows, Refs
<1>2. RefTypeOK'
  BY <1>1 DEF TypeInv, RefTypeOK
<1>3. QED
  BY <1>1, <1>2 DEF TypeInv, Fits

LEMMA ArriveTypes ==
  ASSUME TypeInv, NEW g \in Guests, Arrive(g)
  PROVE  /\ TypeInv' /\ g \notin DOMAIN arriving /\ DOMAIN arriving' = DOMAIN arriving \cup {g}
         /\ \A x \in DOMAIN arriving : arriving'[x] = arriving[x]
         /\ arriving'[g] = NewLink(g, StartsToday(tale.from[g]) + 1 > StartsLimit)
<1>1. PICK fast : fast = (StartsToday(tale.from[g]) + 1 > StartsLimit)
  OBVIOUS
<1>2. g \in DOMAIN tale.plays /\ tale.from[g] \in Hosts /\ today \in Times
  BY TaleTypes DEF Arrive, TypeInv, RefTypeOK
<1>3. /\ NewLink(g, fast) \in LinkRows /\ Fits(NewLink(g, fast)) /\ NewLink(g, fast).made = today
      /\ NewLink(g, fast).status \in {"STARTED", "REJECTED_FRAUD"}
      /\ NewLink(g, fast).host = tale.from[g]
  <2>1. today \in Nat
    BY <1>2, TaleTypes DEF TypeInv, RefTypeOK, Times
  <2>2. QED
    BY <1>2, <2>1 DEF NewLink, LinkRows, Fits, Statuses, Counting
<1>4. /\ g \notin DOMAIN arriving /\ DOMAIN arriving' = DOMAIN arriving \cup {g}
      /\ \A x \in DOMAIN arriving : arriving'[x] = arriving[x]
      /\ arriving'[g] = NewLink(g, fast)
      /\ arriving' = [x \in DOMAIN arriving \cup {g} |-> arriving'[x]]
  BY <1>1 DEF Arrive
<1>5. LinkRows' = LinkRows /\ Times' = Times /\ UserRows' = UserRows /\ Refs' = Refs
  BY DEF LinkRows, Times, UserRows, Refs, Arrive
<1>6. DOMAIN arriving' \subseteq Guests /\ arriving' \in [DOMAIN arriving' -> LinkRows]
  <2>1. DOMAIN arriving \subseteq Guests /\ \A x \in DOMAIN arriving : arriving[x] \in LinkRows
    BY DEF TypeInv, RefTypeOK
  <2>2. QED
    BY <1>3, <1>4, <2>1
<1>7. RefTypeOK'
  BY <1>5, <1>6 DEF TypeInv, RefTypeOK, Arrive
<1>8. \A i \in Refs' : Fits(links[i])'
  BY <1>5 DEF TypeInv, Fits, Arrive
<1>9. ASSUME NEW x \in DOMAIN arriving'
      PROVE  /\ arriving'[x].made = today' /\ arriving'[x].status \in {"STARTED", "REJECTED_FRAUD"}
             /\ arriving'[x].host = tale'.from[x] /\ Fits(arriving[x])'
  <2>1. UNCHANGED <<today, tale>>
    BY DEF Arrive
  <2>2. CASE x = g
    BY <1>3, <1>4, <2>1, <2>2 DEF Fits
  <2>3. CASE x \in DOMAIN arriving
    BY <1>4, <2>1, <2>3 DEF Fits, TypeInv
  <2>4. QED
    BY <1>4, <2>2, <2>3
<1>10. TypeInv'
  BY <1>7, <1>8, <1>9 DEF TypeInv
<1>11. QED
  BY <1>1, <1>4, <1>10

LEMMA JoinedTypes ==
  ASSUME TypeInv, NEW g \in Guests, Joined(g)
  PROVE  /\ TypeInv' /\ g \in DOMAIN arriving /\ DOMAIN arriving' = DOMAIN arriving \ {g}
         /\ \A x \in DOMAIN arriving' : arriving'[x] = arriving[x]
         /\ Refs' = Refs \cup {Len(links) + 1} /\ Len(links) + 1 \notin Refs
         /\ \A i \in Refs : links'[i] = links[i]
         /\ links'[Len(links) + 1] = arriving[g]
         /\ welcomed' = IF arriving[g].status = "STARTED" THEN welcomed \cup {Len(links) + 1} ELSE welcomed
<1>1. /\ g \in DOMAIN arriving /\ DOMAIN arriving' = DOMAIN arriving \ {g}
      /\ \A x \in DOMAIN arriving' : arriving'[x] = arriving[x]
      /\ arriving' = [x \in DOMAIN arriving' |-> arriving'[x]]
      /\ links' = Append(links, arriving[g])
      /\ welcomed' = IF arriving[g].status = "STARTED" THEN welcomed \cup {Len(links')} ELSE welcomed
      /\ UNCHANGED <<today, premium, news, alerts, events, guest, tale, paid, shown>>
  BY DEF Joined
<1>2. links \in Seq(LinkRows) /\ arriving[g] \in LinkRows /\ arriving \in [DOMAIN arriving -> LinkRows]
  BY <1>1 DEF TypeInv, RefTypeOK
<1>3. /\ links' \in Seq(LinkRows) /\ Len(links') = Len(links) + 1
      /\ Refs' = Refs \cup {Len(links) + 1} /\ Len(links) + 1 \notin Refs
      /\ \A i \in Refs : links'[i] = links[i]
      /\ links'[Len(links) + 1] = arriving[g]
  <2>1. links' = Append(links, arriving[g])
    BY <1>1
  <2>2. /\ links' \in Seq(LinkRows) /\ Len(links') = Len(links) + 1
        /\ DOMAIN links' = DOMAIN links \cup {Len(links) + 1} /\ Len(links) + 1 \notin DOMAIN links
        /\ links'[Len(links) + 1] = arriving[g] /\ \A i \in DOMAIN links : links'[i] = links[i]
    BY ONLY <1>2, <2>1, RowAdded
  <2>3. QED
    BY ONLY <2>2 DEF Refs
<1>4. LinkRows' = LinkRows /\ Times' = Times /\ UserRows' = UserRows
  BY <1>1 DEF LinkRows, Times, UserRows
<1>5. DOMAIN arriving' \subseteq Guests /\ arriving' \in [DOMAIN arriving' -> LinkRows]
  BY <1>1, <1>2 DEF TypeInv, RefTypeOK
<1>6. paid' \subseteq Refs' /\ welcomed' \subseteq Refs'
  BY <1>1, <1>3 DEF TypeInv, RefTypeOK
<1>7. RefTypeOK'
  BY <1>1, <1>3, <1>4, <1>5, <1>6 DEF TypeInv, RefTypeOK
<1>8. ASSUME NEW i \in Refs' PROVE Fits(links[i])'
  <2>1. CASE i \in Refs
    <3>1. Fits(links[i]) /\ links'[i] = links[i]
      BY <1>3, <2>1 DEF TypeInv
    <3>2. QED
      BY <1>1, <3>1 DEF Fits
  <2>2. CASE i = Len(links) + 1
    <3>1. Fits(arriving[g]) /\ links'[i] = arriving[g]
      BY <1>1, <1>3, <2>2 DEF TypeInv
    <3>2. QED
      BY <1>1, <3>1 DEF Fits
  <2>3. QED
    BY <1>3, <2>1, <2>2
<1>9. \A x \in DOMAIN arriving' :
        /\ arriving'[x].made = today' /\ arriving'[x].status \in {"STARTED", "REJECTED_FRAUD"}
        /\ arriving'[x].host = tale'.from[x] /\ Fits(arriving[x])'
  BY <1>1 DEF TypeInv, Fits
<1>10. TypeInv'
  BY <1>7, <1>8, <1>9 DEF TypeInv
<1>11. QED
  BY <1>1, <1>3, <1>10

LEMMA AfterTypes ==
  ASSUME TypeInv, NEW u \in Everyone, NEW games \in 0..tale.games, NEW replay \in BOOLEAN,
         After(u, games, replay)
  PROVE  TypeInv'
<1>1. PICK ask \in BOOLEAN :
        ask = (~(~replay /\ ~guest[u].bonus /\ games = 1) /\ MayPrompt(u, games))
  BY DEF MayPrompt
<1>2. /\ guest' = [guest EXCEPT ![u] = [guest[u] EXCEPT !.games = games, !.prompted = guest[u].prompted \/ ask]]
      /\ shown' = [shown EXCEPT ![u] = [shown[u] EXCEPT !.prompts = shown[u].prompts + (IF ask THEN 1 ELSE 0)]]
      /\ UNCHANGED <<today, links, arriving, premium, news, alerts, events, tale, paid, welcomed>>
  BY <1>1 DEF After
<1>3. guest[u] \in UserRows /\ shown[u] \in [prompts : Nat, bonuses : Nat]
  BY DEF TypeInv, RefTypeOK
<1>4. /\ [guest[u] EXCEPT !.games = games, !.prompted = guest[u].prompted \/ ask] \in UserRows
      /\ [shown[u] EXCEPT !.prompts = shown[u].prompts + (IF ask THEN 1 ELSE 0)] \in [prompts : Nat, bonuses : Nat]
  <2>1. PICK row : row = guest[u]
    OBVIOUS
  <2>2. \A b \in BOOLEAN : [row EXCEPT !.games = games, !.prompted = b] \in UserRows
    BY <1>3, <2>1 DEF UserRows
  <2>3. (guest[u].prompted \/ ask) \in BOOLEAN
    OBVIOUS
  <2>4. [guest[u] EXCEPT !.games = games, !.prompted = guest[u].prompted \/ ask] \in UserRows
    BY <2>1, <2>2, <2>3, Zenon
  <2>5. [shown[u] EXCEPT !.prompts = shown[u].prompts + (IF ask THEN 1 ELSE 0)] \in [prompts : Nat, bonuses : Nat]
    BY <1>3
  <2>6. QED
    BY <2>4, <2>5
<1>5. guest' \in [Everyone -> UserRows] /\ shown' \in [Everyone -> [prompts : Nat, bonuses : Nat]]
  BY <1>2, <1>4 DEF TypeInv, RefTypeOK
<1>6. QED
  BY <1>2, <1>5, StayTypes DEF TypeInv, RefTypeOK

LEMMA PromptTypes ==
  ASSUME TypeInv, NEW u \in Everyone, Finish(u) \/ Bonus(u) \/ \E replay \in BOOLEAN : AnswerAgain(u, replay)
  PROVE  TypeInv'
<1>1. guest[u] \in UserRows /\ shown[u] \in [prompts : Nat, bonuses : Nat] /\ tale.games \in Nat
  BY TaleTypes DEF TypeInv, RefTypeOK
<1>2. guest[u].games \in 0..tale.games
  BY <1>1 DEF UserRows
<1>3. CASE Finish(u)
  <2>1. guest[u].games + 1 \in 0..tale.games
    BY <1>1, <1>2, <1>3 DEF Finish
  <2>2. QED
    BY <1>3, <2>1, AfterTypes DEF Finish
<1>4. ASSUME NEW replay \in BOOLEAN, AnswerAgain(u, replay) PROVE TypeInv'
  BY <1>2, <1>4, AfterTypes DEF AnswerAgain
<1>5. CASE Bonus(u)
  <2>1. /\ [guest[u] EXCEPT !.bonus = TRUE] \in UserRows
        /\ [shown[u] EXCEPT !.bonuses = shown[u].bonuses + 1] \in [prompts : Nat, bonuses : Nat]
    <3>1. [guest[u] EXCEPT !.bonus = TRUE] \in UserRows
      BY <1>1 DEF UserRows
    <3>2. [shown[u] EXCEPT !.bonuses = shown[u].bonuses + 1] \in [prompts : Nat, bonuses : Nat]
      BY <1>1
    <3>3. QED
      BY <3>1, <3>2
  <2>2. /\ guest' = [guest EXCEPT ![u] = [guest[u] EXCEPT !.bonus = TRUE]]
        /\ shown' = [shown EXCEPT ![u] = [shown[u] EXCEPT !.bonuses = shown[u].bonuses + 1]]
    BY <1>5 DEF Bonus
  <2>3. guest' \in [Everyone -> UserRows] /\ shown' \in [Everyone -> [prompts : Nat, bonuses : Nat]]
    BY <2>1, <2>2 DEF TypeInv, RefTypeOK
  <2>4. QED
    BY <1>5, <2>3, StayTypes DEF Bonus, TypeInv, RefTypeOK
<1>6. QED
  BY <1>3, <1>4, <1>5

LEMMA TomorrowTypes ==
  ASSUME TypeInv, Tomorrow
  PROVE  TypeInv' /\ today' = today + 1 /\ today \in Nat
<1>1. tale.days \in Nat /\ today \in 0..tale.days /\ today < tale.days
  BY TaleTypes DEF Tomorrow, TypeInv, RefTypeOK, Times
<1>2. LinkRows' = LinkRows /\ Times' = Times /\ UserRows' = UserRows /\ Refs' = Refs
  BY DEF LinkRows, Times, UserRows, Refs, Tomorrow
<1>3. today' \in Times /\ today \in Nat /\ today' = today + 1
  BY <1>1 DEF Times, Tomorrow
<1>4. RefTypeOK'
  BY <1>2, <1>3 DEF TypeInv, RefTypeOK, Tomorrow
<1>5. ASSUME NEW i \in Refs' PROVE Fits(links[i])'
  <2>1. Fits(links[i]) /\ links[i] \in LinkRows
    BY <1>2, <1>5, Table DEF TypeInv
  <2>2. /\ links[i].made \in Nat /\ links[i].qualified \in Nat \cup {Never}
        /\ links[i].rewarded \in Nat \cup {Never} /\ links[i].notified \in Nat \cup {Never}
    BY <1>1, <2>1 DEF LinkRows, Times
  <2>3. /\ links[i].made <= today => links[i].made <= today'
        /\ links[i].qualified # Never /\ links[i].qualified <= today => links[i].qualified <= today'
        /\ links[i].rewarded # Never /\ links[i].rewarded <= today => links[i].rewarded <= today'
        /\ links[i].notified # Never /\ links[i].notified <= today => links[i].notified <= today'
    BY <1>3, <2>2
  <2>4. links' = links /\ tale' = tale
    BY DEF Tomorrow
  <2>5. QED
    BY <2>1, <2>3, <2>4 DEF Fits
<1>6. QED
  BY <1>3, <1>4, <1>5 DEF TypeInv, Tomorrow

LEMMA QualifyTypes == ASSUME TypeInv, Qualify PROVE TypeInv'
<1>1. Rewrites /\ \A i \in Refs : links'[i] = Checked(links[i], today)
  BY QualifyEffect DEF TypeInv
<1>2. \A i \in Refs : Fits(links'[i])
  BY <1>1, Table, ChangesFit DEF TypeInv
<1>3. QED
  BY <1>1, <1>2, RewriteTypes DEF Qualify, TypeInv, RefTypeOK

LEMMA DistributeTypes == ASSUME TypeInv, Distribute PROVE TypeInv'
<1>1. Rewrites /\ \A i \in Refs : links'[i] = Announced(i)
  BY DistributeEffect DEF TypeInv
<1>2. ASSUME NEW i \in Refs PROVE Fits(links'[i])
  <2>1. links[i] \in LinkRows /\ Fits(links[i])
    BY Table DEF TypeInv
  <2>2. i \in Due(links[i].host) => links[i].status \in Counting /\ links[i].status # "REWARDED"
    BY DueCounts
  <2>3. i \in Roomy(links[i].host) => i \in Due(links[i].host)
    BY DEF Roomy
  <2>4. QED
    BY <1>1, <2>1, <2>2, <2>3, ChangesFit DEF Announced, TypeInv
<1>3. today \in Times /\ news \subseteq Hosts \X Times /\ alerts \subseteq Times
  BY DEF TypeInv, RefTypeOK
<1>4. \A i \in Refs : links[i].host \in Hosts
  BY Table DEF TypeInv, LinkRows
<1>5. PICK fresh : /\ fresh \subseteq Refs
                   /\ news' = news \cup {<<links[i].host, today>> : i \in fresh}
                   /\ alerts' = IF fresh = {} THEN alerts ELSE alerts \cup {today}
  BY DEF Distribute
<1>6. news' \subseteq Hosts \X Times /\ alerts' \subseteq Times
  BY <1>3, <1>4, <1>5
<1>7. QED
  BY <1>1, <1>2, <1>6, RewriteTypes DEF Distribute, TypeInv, RefTypeOK

LEMMA ClaimTypes == ASSUME TypeInv, NEW h \in Hosts, ClaimReward(h) PROVE TypeInv'
<1> DEFINE i == First(Due(h))
<1>1. /\ Rewrites /\ i \in Refs /\ i \in Due(h) /\ paid' = paid \cup {i}
      /\ links'[i] = [links[i] EXCEPT !.status = "REWARDED", !.rewarded = today]
      /\ \A j \in Refs : j # i => links'[j] = links[j]
  BY ClaimEffect DEF TypeInv
<1>2. links[i].status \in Counting /\ links[i].status # "REWARDED"
  BY <1>1, DueCounts
<1> HIDE DEF i
<1>3. links[i] \in LinkRows /\ Fits(links[i])
  BY <1>1, Table DEF TypeInv
<1>4. Fits(links'[i])
  BY <1>1, <1>2, <1>3, ChangesFit DEF TypeInv
<1>5. \A j \in Refs : Fits(links'[j])
  BY <1>1, <1>4 DEF TypeInv
<1>6. premium' \in [Hosts -> Nat \cup {Never}]
  <2>1. premium[h] \in Nat \cup {Never} /\ today \in Nat /\ premium \in [Hosts -> Nat \cup {Never}]
    <3>1. tale.days \in Nat /\ today \in 0..tale.days /\ premium \in [Hosts -> Nat \cup {Never}]
      BY TaleTypes DEF TypeInv, RefTypeOK, Times
    <3>2. QED
      BY <3>1
  <2>2. PICK n \in Nat : n = RewardDays + IF premium[h] = Never THEN today ELSE premium[h]
    BY <2>1
  <2>3. premium' = [premium EXCEPT ![h] = n]
    BY <2>2 DEF ClaimReward
  <2>4. QED
    BY <2>1, <2>3
<1>7. paid' \subseteq Refs
  BY <1>1 DEF TypeInv, RefTypeOK
<1>8. QED
  BY <1>1, <1>5, <1>6, <1>7, RewriteTypes DEF ClaimReward, TypeInv, RefTypeOK

LEMMA DeferTypes == ASSUME TypeInv, NEW h \in Hosts, Defer(h) PROVE TypeInv'
<1>1. /\ Rewrites
      /\ \A i \in Refs : links'[i] = IF i \in Due(h) THEN [links[i] EXCEPT !.status = "DEFERRED_LIMIT"]
                                     ELSE links[i]
  BY DeferEffect DEF TypeInv
<1>2. ASSUME NEW i \in Refs PROVE Fits(links'[i])
  <2>1. links[i] \in LinkRows /\ Fits(links[i])
    BY Table DEF TypeInv
  <2>2. i \in Due(h) => links[i].status \in Counting /\ links[i].status # "REWARDED"
    BY DueCounts
  <2>3. QED
    BY <1>1, <2>1, <2>2, ChangesFit DEF TypeInv
<1>3. QED
  BY <1>1, <1>2, RewriteTypes DEF Defer, TypeInv, RefTypeOK

LEMMA ReviewTypes == ASSUME TypeInv, NEW i \in Refs, NEW decision, Review(i, decision) PROVE TypeInv'
<1>1. /\ Rewrites /\ links[i].status \notin Counting
      /\ links'[i].status \in {"STARTED", "REJECTED_FRAUD", "CANCELED"}
      /\ links'[i].qualified = Never /\ links'[i].rewarded = Never
      /\ links'[i].notified = links[i].notified
      /\ \A j \in Refs : j # i => links'[j] = links[j]
  BY ReviewEffect DEF TypeInv
<1>2. Fits(links'[i])
  BY <1>1 DEF TypeInv, Fits, Rewrites, Kin, Counting
<1>3. \A j \in Refs : Fits(links'[j])
  BY <1>1, <1>2 DEF TypeInv
<1>4. QED
  BY <1>1, <1>3, RewriteTypes DEF Review, TypeInv, RefTypeOK

LEMMA MessageTypes ==
  ASSUME TypeInv, (\E n \in news : Tell(n)) \/ (\E t \in alerts : Alert(t))
  PROVE  TypeInv'
<1>1. CASE \E n \in news : Tell(n)
  BY <1>1, StayTypes DEF Tell, TypeInv, RefTypeOK
<1>2. ASSUME NEW t \in alerts, Alert(t) PROVE TypeInv'
  <2>1. events' \subseteq Times \X {"SENT", "FAILED"}
    <3>1. t \in Times /\ events \subseteq Times \X {"SENT", "FAILED"}
      BY DEF TypeInv, RefTypeOK
    <3>2. events' = events \/ \E s \in {"SENT", "FAILED"} : events' = events \cup {<<t, s>>}
      BY <1>2 DEF Alert
    <3>3. QED
      BY <3>1, <3>2
  <2>2. QED
    BY <1>2, <2>1, StayTypes DEF Alert, TypeInv, RefTypeOK
<1>3. QED
  BY <1>1, <1>2

LEMMA StepTypes == TypeInv /\ [RefNext]_refVars => TypeInv'
<1> SUFFICES ASSUME TypeInv, [RefNext]_refVars PROVE TypeInv'
  OBVIOUS
<1>1. ASSUME NEW g \in Guests, Arrive(g) \/ Joined(g) PROVE TypeInv'
  BY <1>1, ArriveTypes, JoinedTypes
<1>2. ASSUME NEW h \in Hosts, Choose(h) PROVE TypeInv'
  BY <1>2, ClaimTypes, DeferTypes DEF Choose
<1>3. ASSUME NEW i \in Refs, NEW decision, Review(i, decision) PROVE TypeInv'
  BY <1>3, ReviewTypes
<1>4. ASSUME NEW u \in Everyone, Finish(u) \/ Bonus(u) \/ \E replay \in BOOLEAN : AnswerAgain(u, replay)
      PROVE  TypeInv'
  BY <1>4, PromptTypes
<1>5. CASE UNCHANGED refVars
  BY <1>5, StayTypes DEF refVars, TypeInv, RefTypeOK
<1>6. CASE Qualify \/ Distribute \/ Tomorrow
  BY <1>6, QualifyTypes, DistributeTypes, TomorrowTypes
<1>7. QED
  BY <1>1, <1>2, <1>3, <1>4, <1>5, <1>6, MessageTypes DEF RefNext

LEMMA Typed == RefSpec => []TypeInv
BY InitTypes, StepTypes, PTL DEF RefSpec

\* Every referral, arrival, message and counter keeps its type, for any number of
\* hosts and guests.
THEOREM TypeCorrect == RefSpec => []RefTypeOK
<1>1. TypeInv => RefTypeOK
  BY DEF TypeInv
<1>2. QED
  BY <1>1, Typed, PTL

-----------------------------------------------------------------------------
(* RewardsFair.  A referral that waited for Delay keeps its place, since    *)
(* whoever qualifies later comes after it: what was an anchor when it was   *)
(* paid remains one.                                                        *)

LEMMA RankKept ==
  ASSUME NEW S, NEW i, \A j \in S \cup {i} : links'[j].qualified = links[j].qualified
  PROVE  /\ RankIn(S, i)' = RankIn(S, i)
         /\ \A j \in S : NotAfter(j, i)' <=> NotAfter(j, i)
<1>1. \A j \in S : NotAfter(j, i)' <=> NotAfter(j, i)
  BY DEF NotAfter
<1>2. {j \in S : NotAfter(j, i)'} = {j \in S : NotAfter(j, i)}
  BY <1>1
<1>3. QED
  BY <1>1, <1>2 DEF RankIn

\* Who counts and since when is as before.
Keeps ==
  /\ Refs \subseteq Refs'
  /\ \A i \in Refs :
       /\ links'[i].host = links[i].host
       /\ links'[i].status \in Counting <=> links[i].status \in Counting
       /\ links[i].status \in Counting => links'[i].qualified = links[i].qualified
  /\ \A i \in Refs' \ Refs : links'[i].status \notin Counting

LEMMA AnchorsKept ==
  ASSUME TypeInv, TypeInv', Keeps, NEW h
  PROVE  Sequence(h)' = Sequence(h) /\ Anchors(h)' = Anchors(h)
<1>1. \A i \in Refs : links[i].status \in Counting <=> links[i].qualified # Never
  BY DEF TypeInv, Fits
<1>2. \A i \in Refs' : links'[i].status \in Counting <=> links'[i].qualified # Never
  BY DEF TypeInv, Fits
<1>3. Sequence(h)' = Sequence(h)
  BY <1>1, <1>2 DEF Sequence, Of, Keeps
<1>4. PICK S : S = Sequence(h)
  OBVIOUS
<1>5. \A i \in S : links'[i].qualified = links[i].qualified
  BY <1>4 DEF Keeps, Sequence, Of
<1>6. \A i \in S : RankIn(S, i)' = RankIn(S, i)
  BY <1>5, RankKept
<1>7. \A i \in S : Place(h, i)' = Place(h, i)
  BY <1>3, <1>4, <1>6 DEF Place, RankIn
<1>8. QED
  BY <1>3, <1>4, <1>7 DEF Anchors

\* The job adds to the end of every sequence.
LEMMA QualifyAdds ==
  ASSUME TypeInv, TypeInv', Qualify, NEW h
  PROVE  /\ Sequence(h) \subseteq Sequence(h)'
         /\ \A i \in Sequence(h) : links'[i] = links[i]
         /\ \A i \in Sequence(h)' \ Sequence(h) : links'[i].qualified = today
<1>1. Rewrites /\ \A i \in Refs : links'[i] = Checked(links[i], today)
  BY QualifyEffect DEF TypeInv
<1>2. \A i \in Refs : links[i].status \in Counting => links'[i] = links[i]
  BY <1>1 DEF Checked, Counting
<1>3. \A i \in Sequence(h) : i \in Refs /\ links[i].status \in Counting /\ links[i].host = h
  BY DEF Sequence, Of
<1>4. \A i \in Sequence(h) : i \in Sequence(h)'
  BY <1>1, <1>2, <1>3 DEF Rewrites, Sequence, Of
<1>5. ASSUME NEW i \in Sequence(h)', i \notin Sequence(h) PROVE links'[i].qualified = today
  <2>1. /\ i \in Refs /\ links'[i].host = h /\ links'[i].status \in Counting
        /\ links[i].host = h /\ links[i] \in LinkRows
    BY <1>1, Table DEF Rewrites, Kin, Sequence, Of, TypeInv
  <2>2. links[i].status \notin Counting
    BY <1>5, <2>1 DEF Sequence, Of, TypeInv, Fits
  <2>3. links'[i] = Checked(links[i], today)
    BY <1>1, <2>1
  <2>4. PICK r : r = links[i] /\ r \in LinkRows /\ r.status \notin Counting
    BY <2>1, <2>2
  <2>5. Checked(r, today).status \in Counting
    BY <2>1, <2>3, <2>4
  <2>6. Checked(r, today).qualified = today
    BY <2>4, <2>5 DEF Checked, LinkRows, Counting
  <2>7. QED
    BY <2>3, <2>4, <2>6
<1>6. QED
  BY <1>2, <1>3, <1>4, <1>5

LEMMA QualifyAnchors ==
  ASSUME TypeInv, TypeInv', Qualify, NEW h, NEW i \in Sequence(h), links[i].qualified < today
  PROVE  i \in Anchors(h)' <=> i \in Anchors(h)
<1>1. PICK S : S = Sequence(h)
  OBVIOUS
<1>2. PICK T : T = Sequence(h)'
  OBVIOUS
<1>3. /\ S \subseteq T /\ \A j \in S : links'[j].qualified = links[j].qualified
      /\ \A j \in T \ S : links'[j].qualified = today
  BY <1>1, <1>2, QualifyAdds
<1>4. i \in S /\ i \in T /\ links[i].qualified \in Nat /\ today \in Nat
  <2>1. tale.days \in Nat /\ today \in 0..tale.days
    BY TaleTypes DEF TypeInv, RefTypeOK, Times
  <2>2. QED
    BY <1>1, <1>3, <2>1, DueRanked DEF TypeInv, Ranked
<1>5. {j \in T : NotAfter(j, i)'} = {j \in S : NotAfter(j, i)}
  <2>1. ASSUME NEW j \in T \ S PROVE ~NotAfter(j, i)'
    <3>1. links'[j].qualified = today /\ links'[i].qualified = links[i].qualified
      BY <1>3, <1>4, <2>1
    <3>2. QED
      BY <1>4, <3>1 DEF NotAfter
  <2>2. \A j \in S : NotAfter(j, i)' <=> NotAfter(j, i)
    BY <1>3, <1>4 DEF NotAfter
  <2>3. QED
    BY <1>3, <2>1, <2>2
<1>6. Place(h, i)' = Place(h, i)
  BY <1>1, <1>2, <1>5 DEF Place, RankIn
<1>7. QED
  BY <1>1, <1>2, <1>4, <1>6 DEF Anchors

\* Nothing is paid: rewards stay as they are, and no row begins to count.
Quiet ==
  /\ Keeps /\ UNCHANGED <<today, paid, tale>>
  /\ \A i \in Refs :
       /\ links'[i].guest = links[i].guest /\ links'[i].made = links[i].made
       /\ links'[i].status = "REWARDED" <=> links[i].status = "REWARDED"
       /\ links[i].status = "REWARDED" => links'[i].rewarded = links[i].rewarded

LEMMA StayQuiet ==
  ASSUME UNCHANGED <<links, today, paid, tale>>
  PROVE  Quiet
BY DEF Quiet, Keeps, Refs

LEMMA JoinedQuiet ==
  ASSUME TypeInv, NEW g \in Guests, Joined(g)
  PROVE  Quiet
<1>1. /\ g \in DOMAIN arriving
      /\ Refs' = Refs \cup {Len(links) + 1} /\ Len(links) + 1 \notin Refs
      /\ \A i \in Refs : links'[i] = links[i]
      /\ links'[Len(links) + 1] = arriving[g]
  BY JoinedTypes
<1>2. arriving[g].status \notin Counting
  BY <1>1 DEF TypeInv, Counting
<1>3. UNCHANGED <<today, paid, tale>>
  BY DEF Joined
<1>4. Keeps
  BY <1>1, <1>2 DEF Keeps
<1>5. QED
  BY <1>1, <1>3, <1>4 DEF Quiet

LEMMA DistributeQuiet ==
  ASSUME TypeInv, Distribute
  PROVE  /\ Quiet /\ Rewrites
         /\ \A i \in Refs :
              links'[i].notified = IF i \in Roomy(links[i].host) /\ links[i].notified = Never
                                   THEN today ELSE links[i].notified
<1>1. Rewrites /\ \A i \in Refs : links'[i] = Announced(i)
  BY DistributeEffect DEF TypeInv
<1>2. ASSUME NEW i \in Refs
      PROVE  /\ links'[i].status = "REWARDED" <=> links[i].status = "REWARDED"
             /\ links'[i].status \in Counting <=> links[i].status \in Counting
             /\ links'[i].qualified = links[i].qualified /\ links'[i].rewarded = links[i].rewarded
             /\ links'[i].notified = IF i \in Roomy(links[i].host) /\ links[i].notified = Never
                                     THEN today ELSE links[i].notified
  <2>1. PICK r : r = links[i] /\ r \in LinkRows /\ links'[i] = Announced(i)
    BY <1>1, Table DEF TypeInv
  <2>2. i \in Roomy(r.host) => i \in Due(r.host)
    BY DEF Roomy
  <2>3. i \in Due(r.host) => r.status \in Counting /\ r.status # "REWARDED"
    BY <2>1, DueCounts
  <2>4. CASE i \in Roomy(r.host)
    <3>1. PICK t : t = IF r.notified = Never THEN today ELSE r.notified
      OBVIOUS
    <3>2. links'[i] = [r EXCEPT !.status = "QUALIFIED", !.notified = t]
      BY <2>1, <2>4, <3>1 DEF Announced
    <3>3. /\ links'[i].status = "QUALIFIED" /\ links'[i].qualified = r.qualified
          /\ links'[i].rewarded = r.rewarded /\ links'[i].notified = t
      BY <2>1, <3>2 DEF LinkRows
    <3>4. QED
      BY <2>1, <2>2, <2>3, <2>4, <3>1, <3>3 DEF Counting
  <2>5. CASE i \notin Roomy(r.host) /\ i \in Due(r.host)
    <3>1. links'[i] = [r EXCEPT !.status = "DEFERRED_LIMIT"]
      BY <2>1, <2>5 DEF Announced
    <3>2. /\ links'[i].status = "DEFERRED_LIMIT" /\ links'[i].qualified = r.qualified
          /\ links'[i].rewarded = r.rewarded /\ links'[i].notified = r.notified
      BY <2>1, <3>1 DEF LinkRows
    <3>3. QED
      BY <2>1, <2>3, <2>5, <3>2 DEF Counting
  <2>6. CASE i \notin Roomy(r.host) /\ i \notin Due(r.host)
    BY <2>1, <2>6 DEF Announced
  <2>7. QED
    BY <2>4, <2>5, <2>6
<1>3. UNCHANGED <<today, paid, tale>>
  BY DEF Distribute
<1>4. Keeps
  BY <1>1, <1>2 DEF Keeps, Rewrites, Kin
<1>5. QED
  BY <1>1, <1>2, <1>3, <1>4 DEF Quiet, Rewrites, Kin

LEMMA DeferQuiet ==
  ASSUME TypeInv, NEW h \in Hosts, Defer(h)
  PROVE  Quiet /\ Rewrites /\ \A i \in Refs : links'[i].notified = links[i].notified
<1>1. /\ Rewrites
      /\ \A i \in Refs : links'[i] = IF i \in Due(h) THEN [links[i] EXCEPT !.status = "DEFERRED_LIMIT"]
                                     ELSE links[i]
  BY DeferEffect DEF TypeInv
<1>2. ASSUME NEW i \in Refs
      PROVE  /\ links'[i].status = "REWARDED" <=> links[i].status = "REWARDED"
             /\ links'[i].status \in Counting <=> links[i].status \in Counting
             /\ links'[i].qualified = links[i].qualified /\ links'[i].rewarded = links[i].rewarded
             /\ links'[i].notified = links[i].notified
  <2>1. links[i] \in LinkRows
    BY Table DEF TypeInv
  <2>2. i \in Due(h) => links[i].status \in Counting /\ links[i].status # "REWARDED"
    BY DueCounts
  <2>3. CASE i \in Due(h)
    <3>1. PICK r : r = links[i] /\ r \in LinkRows /\ links'[i] = [r EXCEPT !.status = "DEFERRED_LIMIT"]
      BY <1>1, <2>1, <2>3
    <3>2. /\ links'[i].status = "DEFERRED_LIMIT" /\ links'[i].qualified = r.qualified
          /\ links'[i].rewarded = r.rewarded /\ links'[i].notified = r.notified
      BY <3>1 DEF LinkRows
    <3>3. QED
      BY <2>2, <2>3, <3>1, <3>2 DEF Counting
  <2>4. CASE i \notin Due(h)
    BY <1>1, <2>4
  <2>5. QED
    BY <2>3, <2>4
<1>3. UNCHANGED <<today, paid, tale>>
  BY DEF Defer
<1>4. Keeps
  BY <1>1, <1>2 DEF Keeps, Rewrites, Kin
<1>5. QED
  BY <1>1, <1>2, <1>3, <1>4 DEF Quiet, Rewrites, Kin

LEMMA ReviewQuiet ==
  ASSUME TypeInv, NEW i \in Refs, NEW decision, Review(i, decision)
  PROVE  Quiet /\ Rewrites /\ \A j \in Refs : links'[j].notified = links[j].notified
<1>1. /\ Rewrites /\ links[i].status \notin Counting
      /\ links'[i].status \in {"STARTED", "REJECTED_FRAUD", "CANCELED"}
      /\ links'[i].notified = links[i].notified
      /\ \A j \in Refs : j # i => links'[j] = links[j]
  BY ReviewEffect DEF TypeInv
<1>2. UNCHANGED <<today, paid, tale>>
  BY DEF Review
<1>3. Keeps
  BY <1>1 DEF Keeps, Rewrites, Kin, Counting
<1>4. QED
  BY <1>1, <1>2, <1>3 DEF Quiet, Rewrites, Kin, Counting

\* A step is quiet, or it qualifies, pays or ends the day.
LEMMA KindsOfStep ==
  ASSUME TypeInv, [RefNext]_refVars
  PROVE  Quiet \/ Qualify \/ Tomorrow \/ \E h \in Hosts : ClaimReward(h)
<1>1. ASSUME NEW g \in Guests, Arrive(g) \/ Joined(g) PROVE Quiet
  BY <1>1, StayQuiet, JoinedQuiet DEF Arrive
<1>2. ASSUME NEW h \in Hosts, Choose(h) PROVE Quiet \/ ClaimReward(h)
  BY <1>2, DeferQuiet DEF Choose
<1>3. ASSUME NEW i \in Refs, NEW decision, Review(i, decision) PROVE Quiet
  BY <1>3, ReviewQuiet
<1>4. ASSUME NEW u \in Everyone, Finish(u) \/ Bonus(u) \/ \E replay \in BOOLEAN : AnswerAgain(u, replay)
      PROVE  Quiet
  BY <1>4, StayQuiet DEF Finish, Bonus, AnswerAgain, After
<1>5. CASE UNCHANGED refVars
  BY <1>5, StayQuiet DEF refVars
<1>6. CASE Distribute
  BY <1>6, DistributeQuiet
<1>7. CASE (\E n \in news : Tell(n)) \/ (\E t \in alerts : Alert(t))
  BY <1>7, StayQuiet DEF Tell, Alert
<1>8. QED
  BY <1>1, <1>2, <1>3, <1>4, <1>5, <1>6, <1>7 DEF RefNext

\* What a quiet step leaves alone.
LEMMA QuietDue ==
  ASSUME TypeInv, TypeInv', Quiet, NEW h
  PROVE  /\ Sequence(h)' = Sequence(h) /\ Anchors(h)' = Anchors(h)
         /\ Due(h)' = Due(h) /\ RewardsThisMonth(h)' = RewardsThisMonth(h)
         /\ Left(h)' = Left(h) /\ Roomy(h)' = Roomy(h)
<1>1. Sequence(h)' = Sequence(h) /\ Anchors(h)' = Anchors(h)
  BY AnchorsKept DEF Quiet
<1>2. \A i \in Anchors(h) : i \in Refs /\ i \in Refs' /\ links[i].status \in Counting
  BY DEF Anchors, Sequence, Of, Quiet, Keeps
<1>3. \A i \in Anchors(h) :
        /\ links'[i].qualified = links[i].qualified
        /\ links'[i].status = "REWARDED" <=> links[i].status = "REWARDED"
  BY <1>2 DEF Quiet, Keeps
<1>4. Due(h)' = Due(h)
  BY <1>1, <1>3 DEF Due, Quiet
<1>5. {i \in Of(h)' : links'[i].status = "REWARDED" /\ MonthOf(links'[i].rewarded) = MonthOf(today)}
        = {i \in Of(h) : links[i].status = "REWARDED" /\ MonthOf(links[i].rewarded) = MonthOf(today)}
  BY DEF Of, Quiet, Keeps, Counting
<1>6. RewardsThisMonth(h)' = RewardsThisMonth(h)
  BY <1>5 DEF RewardsThisMonth, Quiet, MonthOf
<1>7. Left(h)' = Left(h)
  BY <1>6 DEF Left
<1>8. PICK S : S = Due(h)
  OBVIOUS
<1>9. \A i \in S : links'[i].qualified = links[i].qualified
  BY <1>3, <1>8 DEF Due
<1>10. \A i \in S : RankIn(S, i)' = RankIn(S, i)
  BY <1>9, RankKept
<1>11. \A i \in S : RankIn(Due(h), i)' = RankIn(Due(h), i)
  BY <1>4, <1>8, <1>10 DEF RankIn
<1>12. Roomy(h)' = Roomy(h)
  BY <1>4, <1>7, <1>8, <1>11 DEF Roomy
<1>13. QED
  BY <1>1, <1>4, <1>6, <1>7, <1>12

\* What is due has waited, since a reward takes time.
LEMMA DueWaited ==
  ASSUME TypeInv, NEW h, NEW i \in Due(h)
  PROVE  links[i].qualified < today /\ links[i].qualified \in Nat /\ i \in Sequence(h)
<1>1. i \in Anchors(h) /\ i \in Sequence(h) /\ links[i].qualified \in Nat
  BY DueRanked DEF TypeInv, Ranked
<1>2. links[i].qualified + Delay <= today
  BY DEF Due
<1>3. today \in Nat
  BY Clock DEF TypeInv
<1>4. PICK q \in Nat : q = links[i].qualified /\ q + Delay <= today
  BY <1>1, <1>2
<1>5. q < today
  BY <1>3, <1>4
<1>6. QED
  BY <1>1, <1>4, <1>5

\* Nothing becomes due, and nothing is paid, by the job that qualifies.
LEMMA QualifyDue ==
  ASSUME TypeInv, TypeInv', Qualify, NEW h
  PROVE  /\ Due(h)' = Due(h) /\ RewardsThisMonth(h)' = RewardsThisMonth(h)
         /\ Left(h)' = Left(h) /\ Roomy(h)' = Roomy(h)
<1>1. Rewrites /\ \A i \in Refs : links'[i] = Checked(links[i], today)
  BY QualifyEffect DEF TypeInv
<1>2. ASSUME NEW i \in Refs
      PROVE  /\ links'[i].status = "REWARDED" <=> links[i].status = "REWARDED"
             /\ links[i].status = "REWARDED" => links'[i] = links[i]
  <2>1. PICK r : r = links[i] /\ r \in LinkRows /\ links'[i] = Checked(r, today)
    BY <1>1, Table DEF TypeInv
  <2>2. r.status = "REWARDED" => Checked(r, today) = r
    BY DEF Checked
  <2>3. r.status # "REWARDED" => Checked(r, today).status # "REWARDED"
    BY <2>1 DEF Checked, LinkRows
  <2>4. QED
    BY <2>1, <2>2, <2>3
<1>3. today' = today /\ today \in Nat
  BY TaleTypes DEF Qualify, TypeInv, RefTypeOK, Times
<1>4. ASSUME NEW i \in Due(h) PROVE i \in Due(h)'
  <2>1. i \in Sequence(h) /\ links[i].qualified < today
    BY DueWaited
  <2>2. i \in Anchors(h)' /\ links'[i] = links[i]
    BY <2>1, QualifyAnchors, QualifyAdds DEF Due
  <2>3. QED
    BY <1>3, <2>2 DEF Due
<1>5. ASSUME NEW i \in Due(h)' PROVE i \in Due(h)
  <2>1. i \in Sequence(h)' /\ i \in Anchors(h)' /\ links'[i].qualified \in Nat
    <3>1. i \in Sequence(h)' /\ i \in Anchors(h)'
      BY DEF Due, Anchors
    <3>2. i \in Refs /\ links'[i] \in LinkRows /\ links'[i].qualified # Never
      BY <1>1, <3>1 DEF Sequence, Of, Rewrites, Kin
    <3>3. Times \subseteq Nat
      BY TaleTypes DEF Times, TypeInv, RefTypeOK
    <3>4. QED
      BY <3>1, <3>2, <3>3 DEF LinkRows
  <2>2. links'[i].qualified + Delay <= today /\ links'[i].status # "REWARDED"
    BY <1>3 DEF Due
  <2>3. links'[i].qualified < today
    BY <1>3, <2>1, <2>2
  <2>4. i \in Sequence(h)
    BY <1>3, <2>1, <2>3, QualifyAdds
  <2>5. links'[i] = links[i]
    BY <2>4, QualifyAdds
  <2>6. QED
    BY <2>1, <2>2, <2>3, <2>4, <2>5, QualifyAnchors DEF Due
<1>6. Due(h)' = Due(h)
  BY <1>4, <1>5
<1>7. {i \in Of(h)' : links'[i].status = "REWARDED" /\ MonthOf(links'[i].rewarded) = MonthOf(today)}
        = {i \in Of(h) : links[i].status = "REWARDED" /\ MonthOf(links[i].rewarded) = MonthOf(today)}
  BY <1>1, <1>2 DEF Of, Rewrites, Kin
<1>8. RewardsThisMonth(h)' = RewardsThisMonth(h)
  BY <1>3, <1>7 DEF RewardsThisMonth, MonthOf
<1>9. Left(h)' = Left(h)
  BY <1>8 DEF Left
<1>10. PICK S : S = Due(h)
  OBVIOUS
<1>11. \A i \in S : links'[i].qualified = links[i].qualified
  BY <1>10, DueWaited, QualifyAdds
<1>12. \A i \in S : RankIn(S, i)' = RankIn(S, i)
  BY <1>11, RankKept
<1>13. \A i \in S : RankIn(Due(h), i)' = RankIn(Due(h), i)
  BY <1>6, <1>10, <1>12 DEF RankIn
<1>14. Roomy(h)' = Roomy(h)
  BY <1>6, <1>9, <1>10, <1>13 DEF Roomy
<1>15. QED
  BY <1>6, <1>8, <1>9, <1>14

\* The referred user of a row played enough in its window.
Deserved(r) == Earned(r, r.made + Window)

\* What a user did in less time he did in more.
LEMMA Played ==
  ASSUME TypeInv, NEW g \in DOMAIN tale.plays, NEW from \in Nat, NEW end \in Nat, NEW to \in Nat, end <= to
  PROVE  /\ Cardinality(Attempts(g, from, end)) \in Nat /\ Cardinality(Days(g, from, end)) \in Nat
         /\ Cardinality(Attempts(g, from, end)) <= Cardinality(Attempts(g, from, to))
         /\ Cardinality(Days(g, from, end)) <= Cardinality(Days(g, from, to))
         /\ Cardinality(Attempts(g, from, to)) \in Nat /\ Cardinality(Days(g, from, to)) \in Nat
<1>1. tale.plays[g] \in Seq(Nat)
  BY TaleTypes DEF TypeInv, RefTypeOK
<1>2. IsFiniteSet(DOMAIN tale.plays[g]) /\ \A n \in DOMAIN tale.plays[g] : tale.plays[g][n] \in Nat
  <2>1. PICK p \in Seq(Nat) : p = tale.plays[g]
    BY <1>1
  <2>2. DOMAIN p = 1..Len(p) /\ Len(p) \in Nat /\ \A n \in 1..Len(p) : p[n] \in Nat
    BY LenProperties, ElementOfSeq
  <2>3. IsFiniteSet(1..Len(p))
    BY <2>2, FS_Interval
  <2>4. QED
    BY <2>1, <2>2, <2>3
<1>3. Attempts(g, from, end) \subseteq Attempts(g, from, to)
  BY <1>2 DEF Attempts
<1>4. Attempts(g, from, to) \subseteq DOMAIN tale.plays[g]
  BY DEF Attempts
<1>5. IsFiniteSet(Attempts(g, from, to))
  BY <1>2, <1>4, Part
<1>6. Days(g, from, end) \subseteq Days(g, from, to)
  BY <1>3 DEF Days
<1>7. IsFiniteSet(Days(g, from, to))
  <2>1. PICK A : A = Attempts(g, from, to)
    OBVIOUS
  <2>2. PICK p : p = tale.plays[g]
    OBVIOUS
  <2>3. IsFiniteSet({p[n] : n \in A})
    BY <1>5, <2>1, FiniteValues
  <2>4. QED
    BY <2>1, <2>2, <2>3 DEF Days
<1>8. QED
  BY <1>3, <1>5, <1>6, <1>7, Part

\* A row that begins to count deserves it.
LEMMA QualifyDeserved ==
  ASSUME TypeInv, TypeInv', Qualify, NEW i \in Refs', links'[i].status \in Counting,
         i \in Refs /\ links[i].status \in Counting => Deserved(links[i])
  PROVE  Deserved(links[i])'
<1>1. Rewrites /\ links'[i] = Checked(links[i], today) /\ i \in Refs
  BY QualifyEffect DEF TypeInv, Rewrites
<1>2. PICK r : r = links[i] /\ r \in LinkRows /\ Fits(r)
  BY <1>1, Table DEF TypeInv
<1>3. tale' = tale
  BY DEF Qualify
<1>4. CASE r.status \in Counting
  <2>1. links'[i] = links[i]
    BY <1>1, <1>2, <1>4 DEF Checked, Counting
  <2>2. QED
    BY <1>1, <1>2, <1>3, <1>4, <2>1 DEF Deserved, Earned, Attempts, Days, Min2
<1>5. CASE r.status \notin Counting
  <2>1. PICK q : q = links'[i] /\ q = Checked(r, today)
    BY <1>1, <1>2
  <2>2. Earned(r, today)
    BY <1>2, <1>5, <2>1 DEF Checked, LinkRows, Counting
  <2>3. q.guest = r.guest /\ q.made = r.made
    BY <1>1, <1>2, <2>1 DEF Rewrites, Kin
  <2>4. r.made \in Nat /\ today \in Nat /\ r.guest \in DOMAIN tale.plays
    <3>1. tale.days \in Nat /\ today \in Times
      BY TaleTypes DEF TypeInv, RefTypeOK
    <3>2. r.made \in Times /\ r.guest \in DOMAIN tale.plays
      BY <1>2 DEF LinkRows, Fits
    <3>3. QED
      BY <3>1, <3>2 DEF Times
  <2>5. PICK to \in Nat : to = r.made + Window
    BY <2>4
  <2>6. Min2(today, r.made + Window) \in Nat /\ Min2(today, r.made + Window) <= to /\ Min2(to, to) = to
    BY <2>4, <2>5 DEF Min2
  <2>7. /\ Cardinality(Attempts(r.guest, r.made, to)) >= MinAttempts
        /\ Cardinality(Days(r.guest, r.made, to)) >= MinDays
    <3>1. PICK end \in Nat : end = Min2(today, r.made + Window) /\ end <= to
      BY <2>6
    <3>2. /\ Cardinality(Attempts(r.guest, r.made, end)) >= MinAttempts
          /\ Cardinality(Days(r.guest, r.made, end)) >= MinDays
      BY <2>2, <3>1 DEF Earned
    <3>3. /\ Cardinality(Attempts(r.guest, r.made, end)) <= Cardinality(Attempts(r.guest, r.made, to))
          /\ Cardinality(Days(r.guest, r.made, end)) <= Cardinality(Days(r.guest, r.made, to))
          /\ Cardinality(Attempts(r.guest, r.made, end)) \in Nat /\ Cardinality(Days(r.guest, r.made, end)) \in Nat
          /\ Cardinality(Attempts(r.guest, r.made, to)) \in Nat /\ Cardinality(Days(r.guest, r.made, to)) \in Nat
      BY <2>4, <3>1, Played
    <3>4. QED
      BY <3>2, <3>3
  <2>8. Earned(r, to)
    BY <2>5, <2>6, <2>7 DEF Earned
  <2>9. Deserved(q)
    BY <2>3, <2>5, <2>8 DEF Deserved, Earned
  <2>10. QED
    BY <1>3, <2>1, <2>9 DEF Deserved, Earned, Attempts, Days, Min2
<1>6. QED
  BY <1>2, <1>4, <1>5

\* The rewards of a host in a month.
InMonth(h, month) == {i \in Of(h) \cap paid : MonthOf(links[i].rewarded) = month}

\* What RewardsFair says of one row and of one month, for every month there is.
RewardInv ==
  /\ \A i \in Refs :
       /\ links[i].status = "REWARDED" <=> i \in paid
       /\ i \in paid => i \in Anchors(links[i].host) /\ links[i].qualified + Delay <= links[i].rewarded
       /\ links[i].status \in Counting => Deserved(links[i])
  /\ \A h \in Hosts, month \in Nat : Cardinality(InMonth(h, month)) <= MonthCap

LEMMA InitRewards == RefInit => RewardInv
<1> SUFFICES ASSUME RefInit PROVE RewardInv
  OBVIOUS
<1>1. Refs = {}
  BY DEF RefInit, Refs
<1>2. \A h, month : InMonth(h, month) = {}
  BY <1>1 DEF InMonth, Of
<1>3. QED
  BY <1>1, <1>2, FS_EmptySet DEF RewardInv

LEMMA QuietRewards == ASSUME TypeInv, TypeInv', RewardInv, Quiet PROVE RewardInv'
<1>1. UNCHANGED <<today, paid, tale>> /\ paid \subseteq Refs
  BY DEF Quiet, TypeInv, RefTypeOK
<1>2. ASSUME NEW i \in Refs'
      PROVE  /\ links'[i].status = "REWARDED" <=> i \in paid'
             /\ i \in paid' => i \in Anchors(links[i].host)' /\ links'[i].qualified + Delay <= links'[i].rewarded
             /\ links'[i].status \in Counting => Deserved(links[i])'
  <2>1. CASE i \notin Refs
    BY <1>1, <2>1 DEF Quiet, Keeps, Counting
  <2>2. CASE i \in Refs
    <3>1. links'[i].status = "REWARDED" <=> i \in paid'
      BY <1>1, <2>2 DEF Quiet, RewardInv
    <3>2. ASSUME i \in paid'
          PROVE  i \in Anchors(links[i].host)' /\ links'[i].qualified + Delay <= links'[i].rewarded
      <4>1. PICK h : h = links[i].host
        OBVIOUS
      <4>2. links'[i].host = h /\ links'[i].qualified = links[i].qualified /\ links'[i].rewarded = links[i].rewarded
        BY <1>1, <2>2, <3>2, <4>1 DEF Quiet, Keeps, RewardInv, Counting
      <4>3. i \in Anchors(h)'
        BY <1>1, <2>2, <3>2, <4>1, QuietDue DEF RewardInv
      <4>4. i \in Anchors(links[i].host)'
        BY <4>2, <4>3 DEF Anchors, Sequence, Of, Place, RankIn, NotAfter
      <4>5. QED
        BY <1>1, <2>2, <3>2, <4>2, <4>4 DEF RewardInv
    <3>3. links'[i].status \in Counting => Deserved(links[i])'
      <4>1. /\ links'[i].guest = links[i].guest /\ links'[i].made = links[i].made
            /\ links'[i].status \in Counting => links[i].status \in Counting
        BY <2>2 DEF Quiet, Keeps
      <4>2. QED
        BY <1>1, <2>2, <4>1 DEF RewardInv, Deserved, Earned, Attempts, Days, Min2
    <3>4. QED
      BY <3>1, <3>2, <3>3
  <2>3. QED
    BY <2>1, <2>2
<1>3. ASSUME NEW h \in Hosts, NEW month \in Nat PROVE Cardinality(InMonth(h, month)') <= MonthCap
  <2>1. InMonth(h, month)' = InMonth(h, month)
    BY <1>1 DEF InMonth, MonthOf, Of, Quiet, Keeps, RewardInv
  <2>2. QED
    BY <2>1 DEF RewardInv
<1>4. QED
  BY <1>2, <1>3 DEF RewardInv

LEMMA QualifyRewards == ASSUME TypeInv, TypeInv', RewardInv, Qualify PROVE RewardInv'
<1>1. /\ UNCHANGED <<today, paid, tale>> /\ paid \subseteq Refs
      /\ Rewrites /\ \A i \in Refs : links'[i] = Checked(links[i], today)
  BY QualifyEffect DEF Qualify, TypeInv, RefTypeOK
<1>2. ASSUME NEW i \in paid
      PROVE  /\ links'[i] = links[i] /\ i \in Sequence(links[i].host)
             /\ links[i].qualified < today /\ i \in Anchors(links[i].host)
  <2>1. i \in Refs /\ i \in Anchors(links[i].host) /\ links[i].qualified + Delay <= links[i].rewarded
    BY <1>1 DEF RewardInv
  <2>2. i \in Sequence(links[i].host) /\ links'[i] = links[i]
    BY <2>1, QualifyAdds DEF Anchors
  <2>3. links[i].qualified \in Nat
    BY <2>2, DueRanked DEF TypeInv, Ranked
  <2>4. links[i].rewarded \in Nat /\ links[i].rewarded <= today /\ today \in Nat
    <3>1. tale.days \in Nat /\ today \in Times /\ Times \subseteq Nat
      BY Clock DEF TypeInv
    <3>2. links[i].status = "REWARDED" /\ Fits(links[i]) /\ links[i] \in LinkRows
      BY <2>1, Table DEF RewardInv, TypeInv
    <3>3. QED
      BY <3>1, <3>2 DEF Fits, LinkRows
  <2>5. links[i].qualified < today
    BY <2>1, <2>3, <2>4
  <2>6. QED
    BY <2>1, <2>2, <2>5
<1>3. ASSUME NEW i \in Refs'
      PROVE  /\ links'[i].status = "REWARDED" <=> i \in paid'
             /\ i \in paid' => i \in Anchors(links[i].host)' /\ links'[i].qualified + Delay <= links'[i].rewarded
             /\ links'[i].status \in Counting => Deserved(links[i])'
  <2>1. i \in Refs
    BY <1>1 DEF Rewrites
  <2>2. links'[i].status = "REWARDED" <=> i \in paid'
    <3>1. PICK r : r = links[i] /\ r \in LinkRows /\ links'[i] = Checked(r, today)
      BY <1>1, <2>1, Table DEF TypeInv
    <3>2. Checked(r, today).status = "REWARDED" <=> r.status = "REWARDED"
      BY <3>1 DEF Checked, LinkRows
    <3>3. QED
      BY <1>1, <2>1, <3>1, <3>2 DEF RewardInv
  <2>3. ASSUME i \in paid'
        PROVE  i \in Anchors(links[i].host)' /\ links'[i].qualified + Delay <= links'[i].rewarded
    <3>1. PICK h : h = links[i].host
      OBVIOUS
    <3>2. i \in Anchors(h)' /\ links'[i].host = h
      BY <1>1, <1>2, <2>3, <3>1, QualifyAnchors
    <3>3. i \in Anchors(links[i].host)'
      BY <3>2 DEF Anchors, Sequence, Of, Place, RankIn, NotAfter
    <3>4. links'[i].qualified + Delay <= links'[i].rewarded
      BY <1>1, <1>2, <2>1, <2>3 DEF RewardInv
    <3>5. QED
      BY <3>3, <3>4
  <2>4. links'[i].status \in Counting => Deserved(links[i])'
    BY QualifyDeserved DEF RewardInv
  <2>5. QED
    BY <2>2, <2>3, <2>4
<1>4. ASSUME NEW h \in Hosts, NEW month \in Nat PROVE Cardinality(InMonth(h, month)') <= MonthCap
  <2>1. \A i \in paid : i \in Of(h)' <=> i \in Of(h)
    BY <1>1 DEF Of, Rewrites, Kin
  <2>2. InMonth(h, month)' = InMonth(h, month)
    BY <1>1, <1>2, <2>1 DEF InMonth, MonthOf
  <2>3. QED
    BY <2>2 DEF RewardInv
<1>5. QED
  BY <1>3, <1>4 DEF RewardInv

LEMMA TomorrowRewards == ASSUME TypeInv, TypeInv', RewardInv, Tomorrow PROVE RewardInv'
<1>1. UNCHANGED <<links, paid, tale>>
  BY DEF Tomorrow
<1>2. Refs' = Refs /\ \A i \in Refs : Deserved(links[i])' <=> Deserved(links[i])
  BY <1>1 DEF Refs, Deserved, Earned, Attempts, Days, Min2
<1>3. \A i \in Refs : Anchors(links[i].host)' = Anchors(links[i].host)
  BY <1>1 DEF Refs, Anchors, Sequence, Of, Place, RankIn, NotAfter
<1>4. \A h, month : InMonth(h, month)' = InMonth(h, month)
  BY <1>1 DEF InMonth, MonthOf, Of, Refs
<1>5. QED
  BY <1>1, <1>2, <1>3, <1>4 DEF RewardInv

\* A claim keeps who counts and since when.
LEMMA ClaimKeeps ==
  ASSUME TypeInv, NEW h \in Hosts, ClaimReward(h)
  PROVE  /\ Keeps /\ Rewrites /\ UNCHANGED <<today, tale>>
         /\ First(Due(h)) \in Due(h) /\ First(Due(h)) \in Refs /\ paid' = paid \cup {First(Due(h))}
         /\ links'[First(Due(h))].status = "REWARDED" /\ links'[First(Due(h))].rewarded = today
         /\ links'[First(Due(h))].notified = links[First(Due(h))].notified
         /\ \A j \in Refs : j # First(Due(h)) => links'[j] = links[j]
<1>1. PICK i : i = First(Due(h))
  OBVIOUS
<1>2. /\ Rewrites /\ i \in Refs /\ i \in Due(h) /\ paid' = paid \cup {i}
      /\ links'[i] = [links[i] EXCEPT !.status = "REWARDED", !.rewarded = today]
      /\ \A j \in Refs : j # i => links'[j] = links[j]
  BY <1>1, ClaimEffect DEF TypeInv
<1>3. PICK r : r = links[i] /\ r \in LinkRows /\ r.status \in Counting
  BY <1>2, Table, DueCounts DEF TypeInv
<1>4. links'[i] = [r EXCEPT !.status = "REWARDED", !.rewarded = today]
  BY <1>2, <1>3
<1>5. /\ links'[i].status = "REWARDED" /\ links'[i].rewarded = today /\ links'[i].host = r.host
      /\ links'[i].qualified = r.qualified /\ links'[i].notified = r.notified
  BY <1>3, <1>4 DEF LinkRows
<1>6. Keeps
  BY <1>2, <1>3, <1>5 DEF Keeps, Rewrites, Counting
<1>7. QED
  BY <1>1, <1>2, <1>3, <1>5, <1>6 DEF ClaimReward

LEMMA ClaimRewards ==
  ASSUME TypeInv, TypeInv', RewardInv, NEW h \in Hosts, ClaimReward(h) PROVE RewardInv'
<1>1. PICK i : i = First(Due(h))
  OBVIOUS
<1>2. /\ Keeps /\ Rewrites /\ UNCHANGED <<today, tale>>
      /\ i \in Due(h) /\ i \in Refs /\ paid' = paid \cup {i} /\ RewardsThisMonth(h) < MonthCap
      /\ links'[i].status = "REWARDED" /\ links'[i].rewarded = today
      /\ \A j \in Refs : j # i => links'[j] = links[j]
  BY <1>1, ClaimKeeps, ClaimEffect DEF TypeInv
<1>3. /\ i \in Of(h) /\ links[i].status \in Counting /\ links[i].status # "REWARDED" /\ i \in Anchors(h)
      /\ links[i].qualified + Delay <= today /\ i \notin paid /\ paid \subseteq Refs
  BY <1>2, DueCounts DEF Due, RewardInv, TypeInv, RefTypeOK
<1>4. \A g : Anchors(g)' = Anchors(g)
  <2>1. ASSUME NEW g PROVE Anchors(g)' = Anchors(g)
    BY <1>2, AnchorsKept
  <2>2. QED
    BY <2>1
<1>5. \A j \in Refs : /\ links'[j].host = links[j].host /\ links'[j].guest = links[j].guest
                      /\ links'[j].made = links[j].made
                      /\ links[j].status \in Counting => links'[j].qualified = links[j].qualified
                      /\ links'[j].status \in Counting => links[j].status \in Counting
  BY <1>2 DEF Rewrites, Kin, Keeps
<1>6. ASSUME NEW j \in Refs'
      PROVE  /\ links'[j].status = "REWARDED" <=> j \in paid'
             /\ j \in paid' => j \in Anchors(links[j].host)' /\ links'[j].qualified + Delay <= links'[j].rewarded
             /\ links'[j].status \in Counting => Deserved(links[j])'
  <2>1. j \in Refs
    BY <1>2 DEF Rewrites
  <2>2. links'[j].status = "REWARDED" <=> j \in paid'
    BY <1>2, <2>1 DEF RewardInv
  <2>3. ASSUME j \in paid'
        PROVE  j \in Anchors(links[j].host)' /\ links'[j].qualified + Delay <= links'[j].rewarded
    <3>1. PICK g : g = links[j].host
      OBVIOUS
    <3>2. j \in Anchors(g)
      BY <1>2, <1>3, <2>1, <2>3, <3>1 DEF RewardInv, Of
    <3>3. links'[j].host = g /\ j \in Anchors(g)'
      BY <1>4, <1>5, <2>1, <3>1, <3>2
    <3>4. j \in Anchors(links[j].host)'
      BY <3>3 DEF Anchors, Sequence, Of, Place, RankIn, NotAfter
    <3>5. CASE j = i
      BY <1>2, <1>3, <1>5, <3>4, <3>5
    <3>6. CASE j # i
      <4>1. j \in paid /\ links'[j] = links[j]
        BY <1>2, <2>1, <2>3, <3>6
      <4>2. QED
        BY <2>1, <3>4, <4>1 DEF RewardInv
    <3>7. QED
      BY <3>5, <3>6
  <2>4. links'[j].status \in Counting => Deserved(links[j])'
    <3>1. /\ links'[j].guest = links[j].guest /\ links'[j].made = links[j].made
          /\ links'[j].status \in Counting => links[j].status \in Counting
      BY <1>5, <2>1
    <3>2. Deserved(links[j])' <=> Deserved(links[j])
      BY <1>2, <3>1 DEF Deserved, Earned, Attempts, Days, Min2
    <3>3. QED
      BY <2>1, <3>1, <3>2 DEF RewardInv
  <2>5. QED
    BY <2>2, <2>3, <2>4
<1>7. ASSUME NEW g \in Hosts, NEW month \in Nat PROVE Cardinality(InMonth(g, month)') <= MonthCap
  <2>1. IsFiniteSet(InMonth(g, month))
    BY Table, Part DEF InMonth, Of, TypeInv
  <2>2. \A j \in paid : j # i /\ links'[j] = links[j] /\ j \in Refs
    BY <1>2, <1>3
  <2>3. CASE g = h /\ month = MonthOf(today)
    <3>1. InMonth(g, month) = {j \in Of(h) : /\ links[j].status = "REWARDED"
                                             /\ MonthOf(links[j].rewarded) = MonthOf(today)}
      BY <2>3 DEF InMonth, RewardInv, Of
    <3>2. Cardinality(InMonth(g, month)) = RewardsThisMonth(h)
      BY <3>1 DEF RewardsThisMonth
    <3>3. i \notin InMonth(g, month) /\ InMonth(g, month)' = InMonth(g, month) \cup {i}
      <4>1. i \notin InMonth(g, month)
        BY <1>3 DEF InMonth
      <4>2. \A j \in paid \cup {i} : j \in Of(g)' <=> j \in Of(g)
        BY <1>2, <1>3, <1>5 DEF Of, Rewrites
      <4>3. MonthOf(links'[i].rewarded) = month
        BY <1>2, <2>3
      <4>4. \A j \in paid : MonthOf(links'[j].rewarded) = MonthOf(links[j].rewarded)
        BY <2>2
      <4>5. i \in Of(g)
        BY <1>3, <2>3
      <4>6. InMonth(g, month)' = InMonth(g, month) \cup {i}
        BY <1>2, <4>2, <4>3, <4>4, <4>5 DEF InMonth, MonthOf
      <4>7. QED
        BY <4>1, <4>6
    <3>4. /\ Cardinality(InMonth(g, month) \cup {i}) = RewardsThisMonth(h) + 1
          /\ RewardsThisMonth(h) \in Nat
      BY <2>1, <3>2, <3>3, OneMore
    <3>5. QED
      BY <1>2, <3>3, <3>4
  <2>4. CASE ~(g = h /\ month = MonthOf(today))
    <3>1. \A j \in paid : j \in Of(g)' <=> j \in Of(g)
      BY <1>2, <1>3, <1>5 DEF Of, Rewrites
    <3>2. i \notin InMonth(g, month)'
      BY <1>2, <1>3, <1>5, <2>4 DEF InMonth, Of, MonthOf
    <3>3. InMonth(g, month)' = InMonth(g, month)
      BY <1>2, <2>2, <3>1, <3>2 DEF InMonth, MonthOf
    <3>4. QED
      BY <3>3 DEF RewardInv
  <2>5. QED
    BY <2>3, <2>4
<1>8. QED
  BY <1>6, <1>7 DEF RewardInv

LEMMA StepRewards == TypeInv /\ TypeInv' /\ RewardInv /\ [RefNext]_refVars => RewardInv'
BY KindsOfStep, QuietRewards, QualifyRewards, TomorrowRewards, ClaimRewards

LEMMA Rewarded == RefSpec => []RewardInv
BY InitRewards, StepRewards, Typed, PTL DEF RefSpec

\* Anchors are PerReward places apart.
LEMMA Groups ==
  ASSUME RefTypeOK, NEW h
  PROVE  /\ Cardinality(Anchors(h)) * PerReward <= Cardinality(Sequence(h))
         /\ Cardinality(Anchors(h)) \in Nat /\ Cardinality(Sequence(h)) \in Nat
<1> DEFINE n == Cardinality(Sequence(h))
           place == [i \in Anchors(h) |-> Place(h, i) \div PerReward]
<1>1. Ranked(Sequence(h)) /\ Anchors(h) \subseteq Sequence(h) /\ n \in Nat /\ Cardinality(Anchors(h)) \in Nat
  BY DueRanked, Part DEF Ranked
<1>2. ASSUME NEW i \in Anchors(h)
      PROVE  /\ Place(h, i) \in 1..n /\ Place(h, i) = PerReward * (Place(h, i) \div PerReward)
             /\ Place(h, i) \div PerReward \in 1..(n \div PerReward)
  <2>1. Place(h, i) \in 1..n
    BY <1>1, RanksDiffer DEF Place
  <2>2. Place(h, i) % PerReward = 0
    BY DEF Anchors
  <2> DEFINE p == Place(h, i)
             q == p \div PerReward
  <2> HIDE DEF n
  <2>3. p \in Nat /\ p # 0 /\ p <= n
    BY <1>1, <2>1
  <2>4. p = PerReward * q
    BY <2>2, <2>3, Multiple
  <2>5. q <= n \div PerReward /\ q \in Nat /\ n \div PerReward \in Nat
    BY <1>1, <2>3, Quotient
  <2>6. q # 0
    BY <2>3, <2>4
  <2>7. q \in 1..(n \div PerReward)
    BY <2>5, <2>6
  <2>8. QED
    BY <2>1, <2>4, <2>7
<1>3. n \div PerReward \in Nat /\ (n \div PerReward) * PerReward <= n
  BY <1>1, RoundedDown, Quotient
<1>4. ASSUME NEW i \in Anchors(h), NEW j \in Anchors(h), place[i] = place[j] PROVE i = j
  <2>1. Place(h, i) = Place(h, j)
    BY <1>2, <1>4
  <2>2. QED
    BY <1>1, <2>1, RanksDiffer DEF Place
<1>5. place \in Injection(Anchors(h), 1..(n \div PerReward))
  BY <1>2, <1>4 DEF Injection, IsInjective
<1> HIDE DEF n, place
<1>6. IsFiniteSet(1..(n \div PerReward)) /\ Cardinality(1..(n \div PerReward)) = n \div PerReward
  <2>1. PICK m \in Nat : m = n \div PerReward
    BY <1>3
  <2>2. IsFiniteSet(1..m) /\ Cardinality(1..m) = m
    <3>1. 1 \in Int /\ m \in Int
      OBVIOUS
    <3>2. IsFiniteSet(1..m) /\ Cardinality(1..m) = IF 1 > m THEN 0 ELSE m - 1 + 1
      BY ONLY <3>1, FS_Interval
    <3>3. QED
      BY ONLY <3>2, m \in Nat
  <2>3. QED
    BY <2>1, <2>2
<1>7. Cardinality(Anchors(h)) <= n \div PerReward
  BY <1>5, <1>6, FS_Injection
<1>8. Cardinality(Anchors(h)) * PerReward <= n
  <2>1. PICK c \in Nat : c = Cardinality(Anchors(h))
    BY <1>1
  <2>2. PICK m \in Nat : m = n \div PerReward
    BY <1>3
  <2>3. c * PerReward <= m * PerReward
    BY <1>7, <2>1, <2>2
  <2>4. c * PerReward \in Nat /\ m * PerReward \in Nat
    OBVIOUS
  <2>5. QED
    BY <1>1, <1>3, <2>1, <2>2, <2>3, <2>4
<1>9. QED
  BY <1>1, <1>8 DEF n

LEMMA RewardsFairHolds == ASSUME TypeInv, RewardInv PROVE RewardsFair
<1>1. ASSUME NEW i \in Refs, links[i].status \in Counting
      PROVE  LET end == links[i].made + Window IN
             /\ Cardinality(Attempts(links[i].guest, links[i].made, end)) >= MinAttempts
             /\ Cardinality(Days(links[i].guest, links[i].made, end)) >= MinDays
  <2>1. PICK end : end = links[i].made + Window
    OBVIOUS
  <2>2. Earned(links[i], end) /\ Min2(end, links[i].made + Window) = end
    BY <1>1, <2>1 DEF RewardInv, Deserved, Min2
  <2>3. QED
    BY <2>1, <2>2 DEF Earned
<1>2. ASSUME NEW h \in Hosts, NEW t \in Times
      PROVE  Cardinality({i \in Of(h) \cap paid : MonthOf(links[i].rewarded) = MonthOf(t)}) <= MonthCap
  <2>1. MonthOf(t) \in Nat
    BY Clock, MonthsPass DEF TypeInv
  <2>2. QED
    BY <2>1 DEF RewardInv, InMonth
<1>3. ASSUME NEW h \in Hosts
      PROVE  Cardinality(Of(h) \cap paid) * PerReward <= Cardinality(Sequence(h))
  <2>1. Of(h) \cap paid \subseteq Anchors(h)
    BY DEF RewardInv, Of
  <2>2. Cardinality(Of(h) \cap paid) <= Cardinality(Anchors(h)) /\ Cardinality(Of(h) \cap paid) \in Nat
    BY <2>1, DueRanked, Part DEF TypeInv, Ranked
  <2>3. /\ Cardinality(Anchors(h)) * PerReward <= Cardinality(Sequence(h))
        /\ Cardinality(Anchors(h)) \in Nat /\ Cardinality(Sequence(h)) \in Nat
    BY Groups DEF TypeInv
  <2>4. PICK c \in Nat, a \in Nat : c = Cardinality(Of(h) \cap paid) /\ a = Cardinality(Anchors(h))
    BY <2>2, <2>3
  <2>5. c * PerReward <= a * PerReward /\ c * PerReward \in Nat /\ a * PerReward \in Nat
    BY <2>2, <2>4
  <2>6. QED
    BY <2>3, <2>4, <2>5
<1>4. QED
  BY <1>1, <1>2, <1>3 DEF RewardsFair, RewardInv

\* Every reward is paid once, to an anchor that waited long enough and whose referred
\* user played enough in the window (_grant_reward, run_qualification_checks); no host
\* has more rewards than whole groups of referrals, or than the cap in a month: for any
\* size of a group, any delay and any cap.
THEOREM RewardsFairThm == RefSpec => []RewardsFair
<1>1. TypeInv /\ RewardInv => RewardsFair
  BY RewardsFairHolds
<1>2. QED
  BY <1>1, Typed, Rewarded, PTL

-----------------------------------------------------------------------------
(* OverviewHonest.  What was announced this month and not claimed yet has    *)
(* room in it.                                                               *)

Noted(h) ==
  {i \in Of(h) : /\ links[i].notified # Never /\ links[i].status # "REWARDED"
                 /\ MonthOf(links[i].notified) = MonthOf(today)}

NotedInv == \A h \in Hosts : Noted(h) \subseteq Roomy(h)

LEMMA InitNoted == RefInit => NotedInv
BY DEF RefInit, NotedInv, Noted, Of, Refs

\* Steps that neither announce nor pay.
LEMMA SilentNoted ==
  ASSUME TypeInv, NotedInv, NEW h \in Hosts, Refs \subseteq Refs', today' = today,
         \A i \in Refs : /\ links'[i].host = links[i].host /\ links'[i].notified = links[i].notified
                         /\ links'[i].status = "REWARDED" <=> links[i].status = "REWARDED",
         \A i \in Refs' \ Refs : links'[i].notified = Never
  PROVE  Noted(h)' \subseteq Roomy(h)
<1>1. Noted(h)' \subseteq Noted(h)
  BY DEF Noted, Of, MonthOf
<1>2. QED
  BY <1>1 DEF NotedInv

LEMMA DistributeNoted == ASSUME TypeInv, TypeInv', NotedInv, Distribute PROVE NotedInv'
<1>1. /\ Quiet /\ Rewrites
      /\ \A i \in Refs :
           links'[i].notified = IF i \in Roomy(links[i].host) /\ links[i].notified = Never
                                THEN today ELSE links[i].notified
  BY DistributeQuiet
<1>2. ASSUME NEW h \in Hosts, NEW i \in Noted(h)' PROVE i \in Roomy(h)
  <2>1. /\ i \in Refs /\ links[i].host = h /\ links[i].status # "REWARDED"
        /\ links'[i].notified # Never /\ MonthOf(links'[i].notified) = MonthOf(today)
    BY <1>1 DEF Noted, Of, Rewrites, Kin, Quiet, MonthOf
  <2>2. i \in Roomy(h) \/ links'[i].notified = links[i].notified
    BY <1>1, <2>1
  <2>3. CASE links'[i].notified = links[i].notified
    <3>1. i \in Noted(h)
      BY <2>1, <2>3 DEF Noted, Of
    <3>2. QED
      BY <3>1 DEF NotedInv
  <2>4. QED
    BY <2>2, <2>3
<1>3. \A h \in Hosts : Roomy(h)' = Roomy(h)
  BY <1>1, QuietDue
<1>4. QED
  BY <1>2, <1>3 DEF NotedInv

LEMMA QualifyNoted == ASSUME TypeInv, TypeInv', NotedInv, Qualify PROVE NotedInv'
<1>1. Rewrites /\ \A i \in Refs : links'[i] = Checked(links[i], today)
  BY QualifyEffect DEF TypeInv
<1>2. ASSUME NEW i \in Refs
      PROVE  /\ links'[i].host = links[i].host /\ links'[i].notified = links[i].notified
             /\ links'[i].status = "REWARDED" <=> links[i].status = "REWARDED"
  <2>1. PICK r : r = links[i] /\ r \in LinkRows /\ links'[i] = Checked(r, today)
    BY <1>1, Table DEF TypeInv
  <2>2. /\ Checked(r, today).status = "REWARDED" <=> r.status = "REWARDED"
        /\ Checked(r, today).host = r.host /\ Checked(r, today).notified = r.notified
    BY <2>1 DEF Checked, LinkRows
  <2>3. QED
    BY <2>1, <2>2
<1>3. today' = today /\ Refs' = Refs
  BY <1>1 DEF Qualify, Rewrites
<1>4. \A h \in Hosts : Noted(h)' \subseteq Roomy(h)
  BY <1>2, <1>3, SilentNoted
<1>5. \A h \in Hosts : Roomy(h)' = Roomy(h)
  BY QualifyDue
<1>6. QED
  BY <1>4, <1>5 DEF NotedInv

\* A claim takes the first that is due, and one place of the month.
LEMMA ClaimDue ==
  ASSUME TypeInv, TypeInv', NEW h \in Hosts, ClaimReward(h)
  PROVE  /\ Roomy(h)' = Roomy(h) \ {First(Due(h))}
         /\ \A g \in Hosts : g # h => Roomy(g)' = Roomy(g)
<1>1. PICK i : i = First(Due(h))
  OBVIOUS
<1>2. /\ Keeps /\ Rewrites /\ today' = today
      /\ i \in Due(h) /\ i \in Refs /\ RewardsThisMonth(h) < MonthCap /\ Due(h) # {}
      /\ links'[i].status = "REWARDED" /\ links'[i].rewarded = today
      /\ \A j \in Refs : j # i => links'[j] = links[j]
  BY <1>1, ClaimKeeps, ClaimEffect DEF TypeInv
<1>3. i \in Of(h) /\ links[i].status # "REWARDED" /\ links[i].status \in Counting
  BY <1>2, DueCounts
<1>4. \A j \in Refs : links'[j].host = links[j].host
  BY <1>2 DEF Rewrites, Kin
<1>5. \A j \in Refs : links[j].status \in Counting => links'[j].qualified = links[j].qualified
  BY <1>2 DEF Keeps
<1>6. ASSUME NEW g PROVE Due(g)' = Due(g) \ {i}
  <2>1. Anchors(g)' = Anchors(g)
    BY <1>2, AnchorsKept
  <2>2. \A j \in Anchors(g) : j \in Refs /\ links'[j].qualified = links[j].qualified
    BY <1>5 DEF Anchors, Sequence, Of
  <2>3. \A j \in Anchors(g) : j # i => links'[j] = links[j]
    BY <1>2, <2>2
  <2>4. QED
    BY <1>2, <2>1, <2>2, <2>3 DEF Due
<1>7. ASSUME NEW g \in Hosts, g # h PROVE Roomy(g)' = Roomy(g)
  <2>1. i \notin Due(g)
    BY <1>3, <1>7, DueCounts DEF Of
  <2>2. Due(g)' = Due(g)
    BY <1>6, <2>1
  <2>3. {j \in Of(g)' : links'[j].status = "REWARDED" /\ MonthOf(links'[j].rewarded) = MonthOf(today)}
          = {j \in Of(g) : links[j].status = "REWARDED" /\ MonthOf(links[j].rewarded) = MonthOf(today)}
    BY <1>2, <1>3, <1>4, <1>7 DEF Of, Rewrites
  <2>4. RewardsThisMonth(g)' = RewardsThisMonth(g)
    BY <1>2, <2>3 DEF RewardsThisMonth, MonthOf
  <2>5. Left(g)' = Left(g)
    BY <2>4 DEF Left
  <2>6. PICK S : S = Due(g)
    OBVIOUS
  <2>7. \A j \in S : links'[j].qualified = links[j].qualified
    BY <1>5, <2>6, DueCounts DEF Of
  <2>8. \A j \in S : RankIn(S, j)' = RankIn(S, j)
    BY <2>7, RankKept
  <2>9. QED
    BY <2>2, <2>5, <2>6, <2>8 DEF Roomy, RankIn
<1>8. Roomy(h)' = Roomy(h) \ {i}
  <2>1. PICK S : S = Due(h)
    OBVIOUS
  <2>2. Ranked(S) /\ S # {} /\ i \in S /\ Due(h)' = S \ {i} /\ i = First(S)
    BY <1>1, <1>2, <1>6, <2>1, DueRanked DEF TypeInv
  <2>3. \A j \in S : links'[j].qualified = links[j].qualified
    BY <1>5, <2>1, DueCounts DEF Of
  <2>4. ASSUME NEW j \in S \ {i} PROVE RankIn(S \ {i}, j)' = RankIn(S, j) - 1
    <3>1. RankIn(S \ {i}, j)' = RankIn(S \ {i}, j)
      BY <2>3, <2>4, RankKept
    <3>2. RankIn(S \ {i}, j) = RankIn(S, j) - 1
      BY <2>2, <2>4, RanksMoveUp
    <3>3. QED
      BY <3>1, <3>2
  <2>5. Left(h)' = Left(h) - 1 /\ Left(h) \in Nat
    <3> DEFINE M == {j \in Of(h) : /\ links[j].status = "REWARDED"
                                   /\ MonthOf(links[j].rewarded) = MonthOf(today)}
    <3>1. IsFiniteSet(M) /\ i \notin M
      BY <1>3, Table, Part DEF Of, TypeInv
    <3>2. {j \in Of(h)' : links'[j].status = "REWARDED" /\ MonthOf(links'[j].rewarded) = MonthOf(today)}
            = M \cup {i}
      BY <1>2, <1>3, <1>4 DEF Of, Rewrites
    <3>3. RewardsThisMonth(h) = Cardinality(M)
      BY DEF RewardsThisMonth
    <3>4. RewardsThisMonth(h)' = Cardinality(M \cup {i})
      BY <1>2, <3>2 DEF RewardsThisMonth, MonthOf
    <3> HIDE DEF M
    <3>5. RewardsThisMonth(h)' = RewardsThisMonth(h) + 1 /\ RewardsThisMonth(h) \in Nat
      BY <3>1, <3>3, <3>4, OneMore
    <3>6. PICK n \in Nat, m \in Nat : n = RewardsThisMonth(h) /\ m = RewardsThisMonth(h)' /\ m = n + 1 /\ n < MonthCap
      BY <1>2, <3>5
    <3>7. Left(h) = MonthCap - n /\ Left(h)' = IF m >= MonthCap THEN 0 ELSE MonthCap - m
      BY <3>6 DEF Left
    <3>8. QED
      BY <3>6, <3>7
  <2>6. \A j \in S : RankIn(S, j) \in Nat
    BY <2>2, RankBounds DEF Ranked
  <2>7. \A j \in S \ {i} : RankIn(S \ {i}, j)' <= Left(h)' <=> RankIn(S, j) <= Left(h)
    <3>1. PICK left \in Nat : left = Left(h) /\ Left(h)' = left - 1
      BY <2>5
    <3>2. ASSUME NEW j \in S \ {i} PROVE RankIn(S \ {i}, j)' <= left - 1 <=> RankIn(S, j) <= left
      <4>1. PICK n \in Nat : n = RankIn(S, j) /\ RankIn(S \ {i}, j)' = n - 1
        BY <2>4, <2>6
      <4>2. n - 1 <= left - 1 <=> n <= left
        OBVIOUS
      <4>3. QED
        BY <4>1, <4>2
    <3>3. QED
      BY <3>1, <3>2
  <2>8. Roomy(h) = {j \in S : RankIn(S, j) <= Left(h)}
    BY <2>1 DEF Roomy
  <2>9. Roomy(h)' = {j \in S \ {i} : RankIn(S \ {i}, j)' <= Left(h)'}
    BY <2>2 DEF Roomy, RankIn
  <2>10. QED
    BY <2>7, <2>8, <2>9
<1>9. QED
  BY <1>1, <1>7, <1>8

LEMMA ClaimNoted ==
  ASSUME TypeInv, TypeInv', NotedInv, NEW h \in Hosts, ClaimReward(h) PROVE NotedInv'
<1>1. PICK i : i = First(Due(h))
  OBVIOUS
<1>2. /\ Rewrites /\ today' = today
      /\ links'[i].status = "REWARDED"
      /\ \A j \in Refs : j # i => links'[j] = links[j]
  BY <1>1, ClaimKeeps
<1>3. ASSUME NEW g \in Hosts PROVE Noted(g)' \subseteq Noted(g) \ {i}
  BY <1>2 DEF Noted, Of, MonthOf, Rewrites
<1>4. /\ Roomy(h)' = Roomy(h) \ {i}
      /\ \A g \in Hosts : g # h => Roomy(g)' = Roomy(g)
  BY <1>1, ClaimDue
<1>5. QED
  BY <1>3, <1>4 DEF NotedInv

\* Overnight more becomes due, and comes after what was due; a new month starts afresh.
LEMMA TomorrowNoted == ASSUME TypeInv, TypeInv', NotedInv, Tomorrow PROVE NotedInv'
<1>1. UNCHANGED links /\ today' = today + 1 /\ today \in Nat /\ Refs' = Refs
  BY TomorrowTypes DEF Tomorrow, Refs
<1>2. PICK this \in Nat, next \in Nat : this = MonthOf(today) /\ next = MonthOf(today') /\ this <= next
  <2>1. PICK n \in Nat, m \in Nat : n = today /\ m = today' /\ n <= m
    BY <1>1
  <2>2. MonthOf(n) \in Nat /\ MonthOf(m) \in Nat /\ MonthOf(n) <= MonthOf(m)
    BY <2>1, MonthsPass
  <2>3. QED
    BY <2>1, <2>2 DEF MonthOf
<1>3. ASSUME NEW h \in Hosts, NEW i \in Noted(h)' PROVE i \in Roomy(h)'
  <2>1. /\ i \in Of(h) /\ links[i].status # "REWARDED" /\ links[i].notified # Never
        /\ MonthOf(links[i].notified) = next
    BY <1>1, <1>2 DEF Noted, Of
  <2>2. this = next
    <3>1. links[i].notified \in Nat /\ links[i].notified <= today
      BY <2>1, Table, Clock DEF Of, TypeInv, Fits, LinkRows
    <3>2. MonthOf(links[i].notified) <= this /\ MonthOf(links[i].notified) \in Nat
      BY <1>1, <1>2, <3>1, MonthsPass
    <3>3. QED
      BY <1>2, <2>1, <3>2
  <2>3. i \in Roomy(h)
    BY <1>2, <2>1, <2>2 DEF NotedInv, Noted
  <2>4. Left(h)' = Left(h)
    BY <1>1, <1>2, <2>2 DEF Left, RewardsThisMonth, Of, MonthOf
  <2>5. Anchors(h)' = Anchors(h)
    BY <1>1 DEF Anchors, Sequence, Of, Place, RankIn, NotAfter
  <2>6. PICK S : S = Due(h)
    OBVIOUS
  <2>7. PICK T : T = Due(h)'
    OBVIOUS
  <2>8. S \subseteq T /\ i \in S /\ RankIn(S, i) <= Left(h)
    <3>1. \A j \in S : j \in Anchors(h) /\ links[j].qualified \in Nat /\ links[j].qualified + Delay <= today
      BY <2>6, DueRanked DEF Due, TypeInv, Ranked
    <3>2. \A j \in S : links[j].qualified + Delay <= today'
      BY <1>1, <3>1
    <3>3. S \subseteq T
      BY <1>1, <2>5, <2>6, <2>7, <3>1, <3>2 DEF Due
    <3>4. QED
      BY <2>3, <2>6, <3>3 DEF Roomy
  <2>9. ASSUME NEW j \in T \ S PROVE ~NotAfter(j, i)
    <3>1. /\ j \in Anchors(h) /\ links[j].status # "REWARDED" /\ ~(links[j].qualified + Delay <= today)
      BY <1>1, <2>5, <2>6, <2>7, <2>9 DEF Due
    <3>2. links[j].qualified \in Nat /\ links[i].qualified \in Nat /\ links[i].qualified + Delay <= today
      BY <2>6, <2>8, <3>1, DueRanked DEF Due, TypeInv, Ranked
    <3>3. links[i].qualified < links[j].qualified
      BY <1>1, <3>1, <3>2
    <3>4. QED
      BY <3>2, <3>3 DEF NotAfter
  <2>10. {j \in T : NotAfter(j, i)} = {j \in S : NotAfter(j, i)}
    BY <2>8, <2>9
  <2>11. RankIn(T, i)' = RankIn(S, i)
    BY <1>1, <2>10 DEF RankIn, NotAfter
  <2>12. QED
    BY <2>4, <2>7, <2>8, <2>11 DEF Roomy, RankIn
<1>4. QED
  BY <1>3 DEF NotedInv

LEMMA QuietNoted ==
  ASSUME TypeInv, TypeInv', NotedInv, Quiet, Refs \subseteq Refs',
         \A i \in Refs : links'[i].notified = links[i].notified,
         \A i \in Refs' \ Refs : links'[i].notified = Never
  PROVE  NotedInv'
<1>1. today' = today
  BY DEF Quiet
<1>2. \A i \in Refs : /\ links'[i].host = links[i].host
                      /\ links'[i].status = "REWARDED" <=> links[i].status = "REWARDED"
  BY DEF Quiet, Keeps
<1>3. \A h \in Hosts : Noted(h)' \subseteq Roomy(h)
  BY <1>1, <1>2, SilentNoted
<1>4. \A h \in Hosts : Roomy(h)' = Roomy(h)
  BY QuietDue
<1>5. QED
  BY <1>3, <1>4 DEF NotedInv

LEMMA StepNoted == TypeInv /\ TypeInv' /\ NotedInv /\ [RefNext]_refVars => NotedInv'
<1> SUFFICES ASSUME TypeInv, TypeInv', NotedInv, [RefNext]_refVars PROVE NotedInv'
  OBVIOUS
<1>1. ASSUME UNCHANGED <<links, today, paid, tale>> PROVE NotedInv'
  BY <1>1, StayQuiet, QuietNoted DEF Refs
<1>2. ASSUME NEW g \in Guests, Joined(g) PROVE NotedInv'
  <2>1. /\ Refs' = Refs \cup {Len(links) + 1} /\ g \in DOMAIN arriving
        /\ \A i \in Refs : links'[i] = links[i]
        /\ links'[Len(links) + 1] = arriving[g]
    BY <1>2, JoinedTypes
  <2>2. arriving[g].notified = Never
    BY <2>1 DEF TypeInv, Fits, Counting
  <2>3. Quiet
    BY <1>2, JoinedQuiet
  <2>4. QED
    BY <2>1, <2>2, <2>3, QuietNoted
<1>3. ASSUME NEW h \in Hosts, Choose(h) PROVE NotedInv'
  <2>1. CASE ClaimReward(h)
    BY <2>1, ClaimNoted
  <2>2. CASE Defer(h)
    BY <2>2, DeferQuiet, QuietNoted DEF Rewrites
  <2>3. QED
    BY <1>3, <2>1, <2>2 DEF Choose
<1>4. ASSUME NEW i \in Refs, NEW decision, Review(i, decision) PROVE NotedInv'
  BY <1>4, ReviewQuiet, QuietNoted DEF Rewrites
<1>5. ASSUME NEW u \in Everyone, Finish(u) \/ Bonus(u) \/ \E replay \in BOOLEAN : AnswerAgain(u, replay)
      PROVE  UNCHANGED <<links, today, paid, tale>>
  BY <1>5 DEF Finish, Bonus, AnswerAgain, After
<1>6. ASSUME (\E g \in Guests : Arrive(g)) \/ (\E n \in news : Tell(n)) \/ (\E t \in alerts : Alert(t))
             \/ UNCHANGED refVars
      PROVE  UNCHANGED <<links, today, paid, tale>>
  BY <1>6 DEF Arrive, Tell, Alert, refVars
<1>7. QED
  BY <1>1, <1>2, <1>3, <1>4, <1>5, <1>6, DistributeNoted, QualifyNoted, TomorrowNoted DEF RefNext

LEMMA Announcements == RefSpec => []NotedInv
BY InitNoted, StepNoted, Typed, PTL DEF RefSpec

\* There is room for some of what is due exactly when the month has room.
LEMMA Room ==
  ASSUME TypeInv, NEW h
  PROVE  /\ Roomy(h) # {} <=> (Due(h) # {} /\ RewardsThisMonth(h) < MonthCap)
         /\ Roomy(h) \subseteq Due(h) /\ IsFiniteSet(Due(h)) /\ IsFiniteSet(Roomy(h))
<1>1. Ranked(Due(h)) /\ Roomy(h) \subseteq Due(h)
  BY DueRanked DEF TypeInv, Roomy
<1>2. RewardsThisMonth(h) \in Nat
  <2>1. IsFiniteSet({i \in Of(h) : /\ links[i].status = "REWARDED"
                                   /\ MonthOf(links[i].rewarded) = MonthOf(today)})
    BY Table, Part DEF Of, TypeInv
  <2>2. QED
    BY <2>1, FS_CardinalityType DEF RewardsThisMonth
<1>3. PICK n \in Nat : n = RewardsThisMonth(h)
  BY <1>2
<1>4. PICK left \in Nat : left = Left(h) /\ (left >= 1 <=> n < MonthCap)
  <2>1. PICK left : left = IF n >= MonthCap THEN 0 ELSE MonthCap - n
    OBVIOUS
  <2>2. left \in Nat /\ (left >= 1 <=> n < MonthCap)
    BY <2>1
  <2>3. QED
    BY <1>3, <2>1, <2>2 DEF Left
<1>5. ASSUME Due(h) # {}, n < MonthCap PROVE First(Due(h)) \in Roomy(h)
  BY <1>1, <1>4, <1>5, FirstIsFirst DEF Roomy
<1>6. ASSUME NEW i \in Roomy(h) PROVE n < MonthCap
  <2>1. i \in Due(h) /\ RankIn(Due(h), i) <= left
    BY <1>4 DEF Roomy
  <2>2. RankIn(Due(h), i) \in 1..Cardinality(Due(h)) /\ Cardinality(Due(h)) \in Nat
    BY <1>1, <2>1, RanksDiffer, FS_CardinalityType DEF Ranked
  <2>3. QED
    BY <1>4, <2>1, <2>2
<1>7. QED
  BY <1>1, <1>3, <1>5, <1>6, Part DEF Ranked

\* The anchors of a host are due, early or paid.
LEMMA PendingParts ==
  ASSUME TypeInv, RewardInv, NEW h
  PROVE  Cardinality(Anchors(h)) - Cardinality({i \in Of(h) : links[i].status = "REWARDED"})
           = Cardinality(Due(h)) + Cardinality(Early(h))
<1> DEFINE R == {i \in Of(h) : links[i].status = "REWARDED"}
<1>1. R \subseteq Anchors(h)
  BY DEF RewardInv, Of
<1>2. \A i \in Anchors(h) : links[i].qualified \in Nat /\ i \in Of(h)
  <2>1. \A i \in Anchors(h) : links[i].qualified \in Nat
    BY DueRanked DEF TypeInv, Ranked
  <2>2. \A i \in Anchors(h) : i \in Of(h)
    BY DEF Anchors, Sequence
  <2>3. QED
    BY <2>1, <2>2
<1>3. today \in Nat
  BY Clock DEF TypeInv
<1>4. Anchors(h) = R \cup (Due(h) \cup Early(h)) /\ R \cap (Due(h) \cup Early(h)) = {}
      /\ Due(h) \cap Early(h) = {}
  BY <1>1, <1>2, <1>3 DEF Due, Early
<1>5. IsFiniteSet(Due(h)) /\ IsFiniteSet(Early(h)) /\ IsFiniteSet(R)
  BY <1>1, DueRanked, Part DEF TypeInv, Ranked
<1>6. Cardinality(Due(h) \cup Early(h)) = Cardinality(Due(h)) + Cardinality(Early(h))
      /\ IsFiniteSet(Due(h) \cup Early(h))
  BY <1>4, <1>5, Disjoint
<1> HIDE DEF R
<1>7. Cardinality(Anchors(h)) = Cardinality(R) + Cardinality(Due(h) \cup Early(h))
  BY <1>4, <1>5, <1>6, Disjoint
<1>8. PICK r \in Nat, d \in Nat, e \in Nat :
        r = Cardinality(R) /\ d = Cardinality(Due(h)) /\ e = Cardinality(Early(h))
  BY <1>5, FS_CardinalityType
<1>9. Cardinality(Anchors(h)) = r + (d + e)
  BY <1>6, <1>7, <1>8
<1>10. Cardinality(Anchors(h)) - r = d + e
  BY <1>9
<1>11. QED
  BY <1>8, <1>10 DEF R

LEMMA OverviewHolds == ASSUME TypeInv, RewardInv, NotedInv PROVE OverviewHonest
<1> SUFFICES ASSUME NEW h \in Hosts
             PROVE  LET view == Overview(h) IN
               /\ Offered(h) /\ ~Blocked(h) <=> ClaimAnswer(h) = "CLAIMED"
               /\ Offered(h) /\ Blocked(h) <=> ClaimAnswer(h) = "ERROR"
               /\ (view.claimable = 0 /\ view.deferred > 0) <=> ClaimAnswer(h) = "MONTHLY_CAP"
               /\ (view.claimable = 0 /\ view.deferred = 0 /\ view.next # Never) <=> ClaimAnswer(h) = "TOO_EARLY"
               /\ view.pending = Cardinality(Due(h)) + Cardinality(Early(h))
               /\ (\E i \in Of(h) : /\ links[i].notified # Never /\ links[i].status # "REWARDED"
                                    /\ MonthOf(links[i].notified) = MonthOf(today))
                  => Offered(h)
  BY DEF OverviewHonest
<1>1. PICK room \in Nat : room = Cardinality(Roomy(h)) /\ (room = 0 <=> Roomy(h) = {})
  BY Room, FS_CardinalityType, FS_EmptySet
<1>2. PICK due \in Nat : due = Cardinality(Due(h)) /\ (due = 0 <=> Due(h) = {}) /\ room <= due
  BY <1>1, Room, Part, FS_CardinalityType, FS_EmptySet
<1>3. PICK next : next = (IF Early(h) = {} THEN Never ELSE links[First(Early(h))].qualified + Delay)
                  /\ (next # Never <=> Early(h) # {})
  <2>1. ASSUME Early(h) # {} PROVE links[First(Early(h))].qualified \in Nat
    BY <2>1, DueRanked, FirstIsFirst DEF TypeInv, Ranked
  <2>2. ASSUME Early(h) # {} PROVE links[First(Early(h))].qualified + Delay # Never
    BY <2>1, <2>2
  <2>3. QED
    BY <2>2
<1>4. PICK claimed \in BOOLEAN : claimed <=> RewardsThisMonth(h) < MonthCap
  OBVIOUS
<1>5. Overview(h).claimable = room /\ Overview(h).deferred = due - room /\ Overview(h).next = next
  BY <1>1, <1>2, <1>3 DEF Overview
<1>6. Overview(h).pending = Cardinality(Due(h)) + Cardinality(Early(h))
  BY PendingParts DEF Overview
<1>7. room # 0 <=> (due # 0 /\ claimed)
  BY <1>1, <1>2, <1>4, Room
<1>8. /\ ClaimAnswer(h) = "CLAIMED" <=> (due # 0 /\ claimed /\ ~Blocked(h))
      /\ ClaimAnswer(h) = "ERROR" <=> (due # 0 /\ claimed /\ Blocked(h))
      /\ ClaimAnswer(h) = "MONTHLY_CAP" <=> (due # 0 /\ ~claimed)
      /\ ClaimAnswer(h) = "TOO_EARLY" <=> (due = 0 /\ next # Never)
  BY <1>2, <1>3, <1>4 DEF ClaimAnswer
<1>9. Offered(h) <=> room # 0
  BY <1>1, <1>5 DEF Offered
<1>10. Noted(h) # {} => room # 0
  BY <1>1 DEF NotedInv
<1>11. (due - room > 0 <=> room < due) /\ (due - room = 0 <=> room = due)
  BY <1>2
<1>12. QED
  BY <1>5, <1>6, <1>7, <1>8, <1>9, <1>10, <1>11 DEF Noted

\* What the overview of a host shows is what claim_next_reward_choice answers, but for a
\* host with an ended premium whose row is still ACTIVE: his button is there and its claim
\* fails.  A reward announced in this month is offered in it until it is claimed, whatever
\* happened in between: for any delay and any cap.
THEOREM OverviewHonestThm == RefSpec => []OverviewHonest
<1>1. TypeInv /\ RewardInv /\ NotedInv => OverviewHonest
  BY OverviewHolds
<1>2. QED
  BY <1>1, Typed, Rewarded, Announcements, PTL

-----------------------------------------------------------------------------
(* StartsBounded.  Of the starts of a day only those count twice that are   *)
(* under way at once.                                                       *)

Welcomed(h, t) == {i \in Of(h) \cap welcomed : links[i].made = t}

Coming(h, t) ==
  {g \in DOMAIN arriving : arriving[g].host = h /\ arriving[g].status = "STARTED" /\ arriving[g].made = t}

StartsInv ==
  /\ IsFiniteSet(DOMAIN arriving) /\ Cardinality(DOMAIN arriving) <= tale.together
  /\ \A h \in Hosts, t \in Nat :
       Cardinality(Welcomed(h, t)) + Cardinality(Coming(h, t)) < StartsLimit + tale.together

LEMMA StartSets ==
  ASSUME TypeInv, StartsInv, NEW h, NEW t
  PROVE  /\ IsFiniteSet(Welcomed(h, t)) /\ Cardinality(Welcomed(h, t)) \in Nat
         /\ IsFiniteSet(Coming(h, t)) /\ Cardinality(Coming(h, t)) \in Nat
<1>1. Welcomed(h, t) \subseteq Refs /\ IsFiniteSet(Refs)
  BY Table DEF Welcomed, Of, TypeInv
<1>2. Coming(h, t) \subseteq DOMAIN arriving /\ IsFiniteSet(DOMAIN arriving)
  BY DEF Coming, StartsInv
<1>3. QED
  BY <1>1, <1>2, Part

LEMMA InitStarts == RefInit => StartsInv
<1> SUFFICES ASSUME RefInit PROVE StartsInv
  OBVIOUS
<1>1. DOMAIN arriving = {} /\ Refs = {} /\ tale.together \in Nat
  BY TaleTypes DEF RefInit, Refs
<1>2. \A h, t : Welcomed(h, t) = {} /\ Coming(h, t) = {}
  BY <1>1 DEF Welcomed, Of, Coming
<1>3. IsFiniteSet({}) /\ Cardinality({}) = 0
  BY FS_EmptySet
<1>4. IsFiniteSet(DOMAIN arriving) /\ Cardinality(DOMAIN arriving) = 0
  BY <1>1, <1>3
<1>5. \A h, t : Cardinality(Welcomed(h, t)) = 0 /\ Cardinality(Coming(h, t)) = 0
  BY <1>2, <1>3
<1>6. PICK n \in Nat : n = tale.together /\ 0 <= n /\ 0 + 0 < StartsLimit + n
  BY <1>1
<1>7. QED
  BY <1>4, <1>5, <1>6 DEF StartsInv

\* The day's starts of a host, as the next one counts them.
LEMMA ArriveStarts == ASSUME TypeInv, StartsInv, NEW g \in Guests, Arrive(g) PROVE StartsInv'
<1>1. PICK fast : fast = (StartsToday(tale.from[g]) + 1 > StartsLimit)
  OBVIOUS
<1>2. /\ g \notin DOMAIN arriving /\ DOMAIN arriving' = DOMAIN arriving \cup {g}
      /\ \A x \in DOMAIN arriving : arriving'[x] = arriving[x]
      /\ arriving'[g] = NewLink(g, fast)
  BY <1>1, ArriveTypes
<1>3. /\ UNCHANGED <<links, welcomed, tale>> /\ Cardinality(DOMAIN arriving) < tale.together
      /\ Refs' = Refs /\ tale.together \in Nat
  BY TaleTypes DEF Arrive, Refs, TypeInv, RefTypeOK
<1>4. IsFiniteSet(DOMAIN arriving') /\ Cardinality(DOMAIN arriving') <= tale'.together
      /\ Cardinality(DOMAIN arriving') \in Nat
  <2>1. /\ IsFiniteSet(DOMAIN arriving') /\ Cardinality(DOMAIN arriving) \in Nat
        /\ Cardinality(DOMAIN arriving') = Cardinality(DOMAIN arriving) + 1
    BY <1>2, OneMore DEF StartsInv
  <2>2. QED
    BY <1>3, <2>1
<1>5. ASSUME NEW h \in Hosts, NEW t \in Nat
      PROVE  Cardinality(Welcomed(h, t))' + Cardinality(Coming(h, t))' < StartsLimit + tale'.together
  <2>1. Welcomed(h, t)' = Welcomed(h, t)
    BY <1>3 DEF Welcomed, Of
  <2>2. CASE h = tale.from[g] /\ t = today /\ ~fast
    <3> DEFINE M == {i \in Of(h) : links[i].made = today}
    <3>1. IsFiniteSet(M) /\ Welcomed(h, t) \subseteq M
      BY <2>2, Table, Part DEF Of, TypeInv, Welcomed
    <3>2. StartsToday(h) = Cardinality(M) /\ ~(StartsToday(h) + 1 > StartsLimit)
      BY <1>1, <2>2 DEF StartsToday
    <3> HIDE DEF M
    <3>3. Cardinality(Welcomed(h, t)) \in Nat /\ Cardinality(Welcomed(h, t)) < StartsLimit
      <4>1. /\ Cardinality(Welcomed(h, t)) \in Nat /\ Cardinality(M) \in Nat
            /\ Cardinality(Welcomed(h, t)) <= Cardinality(M)
        BY <3>1, Part
      <4>2. QED
        BY <3>2, <4>1
    <3>4. Coming(h, t)' \subseteq DOMAIN arriving'
      BY DEF Coming
    <3>5. Cardinality(Coming(h, t)') \in Nat /\ Cardinality(Coming(h, t)') <= tale.together
      <4>1. Cardinality(Coming(h, t)') \in Nat /\ Cardinality(Coming(h, t)') <= Cardinality(DOMAIN arriving')
        BY <1>4, <3>4, Part
      <4>2. QED
        BY <1>3, <1>4, <4>1
    <3>6. QED
      BY <1>3, <2>1, <3>3, <3>5
  <2>3. CASE ~(h = tale.from[g] /\ t = today /\ ~fast)
    <3>1. g \notin Coming(h, t)'
      BY <1>2, <2>3 DEF Coming, NewLink
    <3>2. Coming(h, t)' = Coming(h, t)
      BY <1>2, <3>1 DEF Coming
    <3>3. QED
      BY <1>3, <2>1, <3>2 DEF StartsInv
  <2>4. QED
    BY <2>2, <2>3
<1>6. QED
  BY <1>4, <1>5 DEF StartsInv

\* A start that was counted while it was under way counts as a row.
LEMMA JoinedStarts == ASSUME TypeInv, StartsInv, NEW g \in Guests, Joined(g) PROVE StartsInv'
<1>1. PICK n : n = Len(links) + 1
  OBVIOUS
<1>2. /\ g \in DOMAIN arriving /\ DOMAIN arriving' = DOMAIN arriving \ {g}
      /\ \A x \in DOMAIN arriving' : arriving'[x] = arriving[x]
      /\ Refs' = Refs \cup {n} /\ n \notin Refs
      /\ \A i \in Refs : links'[i] = links[i]
      /\ links'[n] = arriving[g]
      /\ welcomed' = IF arriving[g].status = "STARTED" THEN welcomed \cup {n} ELSE welcomed
  BY <1>1, JoinedTypes
<1>3. tale' = tale /\ tale.together \in Nat /\ welcomed \subseteq Refs
  BY TaleTypes DEF Joined, TypeInv, RefTypeOK
<1>4. IsFiniteSet(DOMAIN arriving') /\ Cardinality(DOMAIN arriving') <= tale'.together
  <2>1. /\ IsFiniteSet(DOMAIN arriving') /\ Cardinality(DOMAIN arriving) \in Nat
        /\ Cardinality(DOMAIN arriving') = Cardinality(DOMAIN arriving) - 1
    BY <1>2, OneLess, Part DEF StartsInv
  <2>2. QED
    BY <1>3, <2>1 DEF StartsInv
<1>5. ASSUME NEW h \in Hosts, NEW t \in Nat
      PROVE  Cardinality(Welcomed(h, t))' + Cardinality(Coming(h, t))' < StartsLimit + tale'.together
  <2>1. /\ IsFiniteSet(Welcomed(h, t)) /\ Cardinality(Welcomed(h, t)) \in Nat
        /\ IsFiniteSet(Coming(h, t)) /\ Cardinality(Coming(h, t)) \in Nat
        /\ Cardinality(Welcomed(h, t)) + Cardinality(Coming(h, t)) < StartsLimit + tale.together
    BY StartSets DEF StartsInv
  <2>2. n \notin Welcomed(h, t)
    BY <1>2 DEF Welcomed, Of
  <2>3. Coming(h, t)' = Coming(h, t) \ {g}
    BY <1>2 DEF Coming
  <2>4. CASE g \in Coming(h, t)
    <3>1. arriving[g].status = "STARTED" /\ arriving[g].host = h /\ arriving[g].made = t
      BY <2>4 DEF Coming
    <3>2. Welcomed(h, t)' = Welcomed(h, t) \cup {n}
      BY <1>2, <1>3, <3>1 DEF Welcomed, Of
    <3>3. Cardinality(Welcomed(h, t)') = Cardinality(Welcomed(h, t)) + 1
      BY <2>1, <2>2, <3>2, OneMore
    <3>4. Cardinality(Coming(h, t)') = Cardinality(Coming(h, t)) - 1
      BY <2>1, <2>3, <2>4, OneLess
    <3>5. QED
      BY <1>3, <2>1, <3>3, <3>4
  <2>5. CASE g \notin Coming(h, t)
    <3>1. n \notin Welcomed(h, t)'
      BY <1>2, <1>3, <2>5 DEF Welcomed, Of, Coming
    <3>2. Welcomed(h, t)' = Welcomed(h, t)
      BY <1>2, <1>3, <3>1 DEF Welcomed, Of
    <3>3. Coming(h, t)' = Coming(h, t)
      BY <2>3, <2>5
    <3>4. QED
      BY <1>3, <2>1, <3>2, <3>3
  <2>6. QED
    BY <2>4, <2>5
<1>6. QED
  BY <1>4, <1>5 DEF StartsInv

LEMMA RewritesStarts ==
  ASSUME TypeInv, StartsInv, UNCHANGED <<arriving, welcomed, tale>>, Rewrites \/ UNCHANGED links
  PROVE  StartsInv'
<1>1. Refs' = Refs /\ \A i \in Refs : links'[i].host = links[i].host /\ links'[i].made = links[i].made
  BY DEF Rewrites, Kin, Refs
<1>2. ASSUME NEW h, NEW t PROVE Welcomed(h, t)' = Welcomed(h, t) /\ Coming(h, t)' = Coming(h, t)
  BY <1>1 DEF Welcomed, Of, Coming
<1>3. QED
  BY <1>2 DEF StartsInv

LEMMA StepStarts == TypeInv /\ TypeInv' /\ StartsInv /\ [RefNext]_refVars => StartsInv'
<1> SUFFICES ASSUME TypeInv, TypeInv', StartsInv, [RefNext]_refVars PROVE StartsInv'
  OBVIOUS
<1>1. ASSUME NEW g \in Guests, Arrive(g) \/ Joined(g) PROVE StartsInv'
  BY <1>1, ArriveStarts, JoinedStarts
<1>2. ASSUME NEW h \in Hosts, Choose(h) PROVE StartsInv'
  <2>1. Rewrites
    BY <1>2, ClaimEffect, DeferEffect DEF Choose, TypeInv
  <2>2. QED
    BY <1>2, <2>1, RewritesStarts DEF Choose, ClaimReward, Defer
<1>3. ASSUME NEW i \in Refs, NEW decision, Review(i, decision) PROVE StartsInv'
  <2>1. Rewrites
    BY <1>3, ReviewEffect DEF TypeInv
  <2>2. QED
    BY <1>3, <2>1, RewritesStarts DEF Review
<1>4. ASSUME NEW u \in Everyone, Finish(u) \/ Bonus(u) \/ \E replay \in BOOLEAN : AnswerAgain(u, replay)
      PROVE  StartsInv'
  BY <1>4, RewritesStarts DEF Finish, Bonus, AnswerAgain, After
<1>5. ASSUME Qualify \/ Distribute PROVE StartsInv'
  <2>1. Rewrites
    BY <1>5, QualifyEffect, DistributeEffect DEF TypeInv
  <2>2. QED
    BY <1>5, <2>1, RewritesStarts DEF Qualify, Distribute
<1>6. ASSUME (\E n \in news : Tell(n)) \/ (\E t \in alerts : Alert(t)) \/ Tomorrow \/ UNCHANGED refVars
      PROVE  StartsInv'
  BY <1>6, RewritesStarts DEF Tell, Alert, Tomorrow, refVars
<1>7. QED
  BY <1>1, <1>2, <1>3, <1>4, <1>5, <1>6 DEF RefNext

\* The marks of a user say what was shown and paid.
PromptsInv ==
  \A u \in Everyone :
    /\ shown[u].prompts = IF guest[u].prompted THEN 1 ELSE 0
    /\ shown[u].bonuses = IF guest[u].bonus THEN 1 ELSE 0

LEMMA StepPrompts == TypeInv /\ TypeInv' /\ PromptsInv /\ [RefNext]_refVars => PromptsInv'
<1> SUFFICES ASSUME TypeInv, TypeInv', PromptsInv, [RefNext]_refVars PROVE PromptsInv'
  OBVIOUS
<1>1. ASSUME UNCHANGED <<guest, shown>> PROVE PromptsInv'
  BY <1>1 DEF PromptsInv
<1>2. ASSUME NEW u \in Everyone, NEW games, NEW replay \in BOOLEAN, After(u, games, replay) PROVE PromptsInv'
  <2>1. PICK ask \in BOOLEAN :
          ask = (~(~replay /\ ~guest[u].bonus /\ games = 1) /\ MayPrompt(u, games))
    BY DEF MayPrompt
  <2>2. /\ guest' = [guest EXCEPT ![u] = [guest[u] EXCEPT !.games = games, !.prompted = guest[u].prompted \/ ask]]
        /\ shown' = [shown EXCEPT ![u] = [shown[u] EXCEPT !.prompts = shown[u].prompts + (IF ask THEN 1 ELSE 0)]]
    BY <2>1, <1>2 DEF After
  <2>3. ask => ~guest[u].prompted
    BY <2>1 DEF MayPrompt
  <2>4. /\ guest[u] \in UserRows /\ shown[u] \in [prompts : Nat, bonuses : Nat]
        /\ guest \in [Everyone -> UserRows] /\ shown \in [Everyone -> [prompts : Nat, bonuses : Nat]]
    BY DEF TypeInv, RefTypeOK
  <2>5. \A v \in Everyone : v # u => guest'[v] = guest[v] /\ shown'[v] = shown[v]
    BY <2>2, <2>4
  <2>6. /\ shown'[u].prompts = shown[u].prompts + (IF ask THEN 1 ELSE 0)
        /\ shown'[u].bonuses = shown[u].bonuses
    BY <2>2, <2>4
  <2>7. guest'[u].prompted = (guest[u].prompted \/ ask) /\ guest'[u].bonus = guest[u].bonus
    <3>1. PICK row \in UserRows : row = guest[u]
      BY <2>4
    <3>2. PICK b : b = (guest[u].prompted \/ ask)
      OBVIOUS
    <3>3. guest'[u] = [row EXCEPT !.games = games, !.prompted = b]
      BY <2>2, <2>4, <3>1, <3>2, Zenon
    <3>4. guest'[u].prompted = b /\ guest'[u].bonus = row.bonus
      BY <3>1, <3>3 DEF UserRows
    <3>5. QED
      BY <3>1, <3>2, <3>4, Zenon
  <2>8. guest'[u].prompted <=> guest[u].prompted \/ ask
    BY <2>7, Zenon
  <2>9. shown'[u].prompts = IF guest'[u].prompted THEN 1 ELSE 0
    BY <2>3, <2>6, <2>8 DEF PromptsInv
  <2>10. shown'[u].bonuses = IF guest'[u].bonus THEN 1 ELSE 0
    BY <2>6, <2>7 DEF PromptsInv
  <2>11. QED
    BY <2>5, <2>9, <2>10 DEF PromptsInv
<1>3. ASSUME NEW u \in Everyone, Bonus(u) PROVE PromptsInv'
  <2>1. /\ guest' = [guest EXCEPT ![u] = [guest[u] EXCEPT !.bonus = TRUE]]
        /\ shown' = [shown EXCEPT ![u] = [shown[u] EXCEPT !.bonuses = shown[u].bonuses + 1]]
        /\ ~guest[u].bonus
    BY <1>3 DEF Bonus
  <2>2. /\ guest[u] \in UserRows /\ shown[u] \in [prompts : Nat, bonuses : Nat]
        /\ guest \in [Everyone -> UserRows] /\ shown \in [Everyone -> [prompts : Nat, bonuses : Nat]]
    BY DEF TypeInv, RefTypeOK
  <2>3. \A v \in Everyone : v # u => guest'[v] = guest[v] /\ shown'[v] = shown[v]
    BY <2>1, <2>2
  <2>4. /\ shown'[u].prompts = shown[u].prompts /\ shown'[u].bonuses = shown[u].bonuses + 1
        /\ guest'[u].prompted = guest[u].prompted /\ guest'[u].bonus = TRUE
    BY <2>1, <2>2 DEF UserRows
  <2>5. QED
    BY <2>1, <2>3, <2>4 DEF PromptsInv
<1>4. ASSUME NEW u \in Everyone, Finish(u) \/ \E replay \in BOOLEAN : AnswerAgain(u, replay)
      PROVE  PromptsInv'
  BY <1>2, <1>4 DEF Finish, AnswerAgain
<1>5. ASSUME \/ \E g \in Guests : Arrive(g) \/ Joined(g)
             \/ Qualify \/ Distribute \/ Tomorrow \/ UNCHANGED refVars
             \/ (\E n \in news : Tell(n)) \/ (\E t \in alerts : Alert(t))
             \/ \E h \in Hosts : Choose(h)
             \/ \E i \in Refs, decision \in {"CONFIRM_FRAUD", "REOPEN", "CANCEL"} : Review(i, decision)
      PROVE  UNCHANGED <<guest, shown>>
  BY <1>5 DEF Arrive, Joined, Qualify, Distribute, Tomorrow, refVars, Tell, Alert, Choose,
              ClaimReward, Defer, Review
<1>6. QED
  BY <1>1, <1>3, <1>4, <1>5 DEF RefNext

LEMMA InitPrompts == RefInit => PromptsInv
BY DEF RefInit, PromptsInv

LEMMA Counted == RefSpec => [](StartsInv /\ PromptsInv)
BY InitStarts, StepStarts, InitPrompts, StepPrompts, Typed, PTL DEF RefSpec

LEMMA StartsHold == ASSUME TypeInv, StartsInv, PromptsInv PROVE StartsBounded
<1>1. ASSUME NEW h \in Hosts, NEW t \in Times
      PROVE  Cardinality({i \in Of(h) \cap welcomed : links[i].made = t}) < StartsLimit + tale.together
  <2>1. t \in Nat /\ tale.together \in Nat
    BY Clock, TaleTypes DEF TypeInv, RefTypeOK
  <2>2. /\ Cardinality(Welcomed(h, t)) \in Nat /\ Cardinality(Coming(h, t)) \in Nat
        /\ Cardinality(Welcomed(h, t)) + Cardinality(Coming(h, t)) < StartsLimit + tale.together
    BY <2>1, StartSets DEF StartsInv
  <2>3. QED
    BY <2>1, <2>2 DEF Welcomed
<1>2. ASSUME NEW u \in Everyone PROVE shown[u].prompts <= 1 /\ shown[u].bonuses <= 1
  BY DEF PromptsInv
<1>3. QED
  BY <1>1, <1>2 DEF StartsBounded

\* A host has no more starts in a day than the limit and those that were under way at
\* once, and no user is prompted or paid the channel bonus twice: for any limit.
THEOREM StartsBoundedThm == RefSpec => []StartsBounded
<1>1. TypeInv /\ StartsInv /\ PromptsInv => StartsBounded
  BY StartsHold
<1>2. QED
  BY <1>1, Typed, Counted, PTL

-----------------------------------------------------------------------------
(* WatchSound.  What was announced stays announced.                         *)

WatchInv == \A t \in Times : (t \in alerts \/ \E e \in events : e[1] = t) => \E i \in Refs : links[i].notified = t

\* No announcement is taken back.
Lasting ==
  \A i \in Refs : i \in Refs' /\ (links[i].notified # Never => links'[i].notified = links[i].notified)

LEMMA StayAnnounced ==
  ASSUME TypeInv, [RefNext]_refVars
  PROVE  Lasting
<1>1. ASSUME UNCHANGED links PROVE Lasting
  BY <1>1 DEF Refs, Lasting
<1>2. ASSUME NEW g \in Guests, Joined(g) PROVE Lasting
  BY <1>2, JoinedTypes DEF Lasting
<1>3. ASSUME NEW h \in Hosts, Choose(h) PROVE Lasting
  <2>1. CASE ClaimReward(h)
    <3>1. PICK i : i = First(Due(h))
      OBVIOUS
    <3>2. /\ Rewrites /\ links'[i].notified = links[i].notified
          /\ \A j \in Refs : j # i => links'[j] = links[j]
      BY <2>1, <3>1, ClaimKeeps
    <3>3. QED
      BY <3>2 DEF Rewrites, Lasting
  <2>2. CASE Defer(h)
    BY <2>2, DeferQuiet DEF Rewrites, Lasting
  <2>3. QED
    BY <1>3, <2>1, <2>2 DEF Choose
<1>4. ASSUME NEW i \in Refs, NEW decision, Review(i, decision) PROVE Lasting
  BY <1>4, ReviewQuiet DEF Rewrites, Lasting
<1>5. CASE Qualify
  <2>1. Rewrites /\ \A i \in Refs : links'[i] = Checked(links[i], today)
    BY <1>5, QualifyEffect DEF TypeInv
  <2>2. ASSUME NEW i \in Refs PROVE links'[i].notified = links[i].notified
    <3>1. PICK r : r = links[i] /\ r \in LinkRows /\ links'[i] = Checked(r, today)
      BY <2>1, Table DEF TypeInv
    <3>2. Checked(r, today).notified = r.notified
      BY <3>1 DEF Checked, LinkRows
    <3>3. QED
      BY <3>1, <3>2
  <2>3. QED
    BY <2>1, <2>2 DEF Rewrites, Lasting
<1>6. CASE Distribute
  BY <1>6, DistributeQuiet DEF Rewrites, Lasting
<1>7. ASSUME NEW u \in Everyone, Finish(u) \/ Bonus(u) \/ \E replay \in BOOLEAN : AnswerAgain(u, replay)
      PROVE  Lasting
  <2>1. UNCHANGED links
    BY <1>7 DEF Finish, Bonus, AnswerAgain, After
  <2>2. QED
    BY <1>1, <2>1
<1>8. ASSUME (\E g \in Guests : Arrive(g)) \/ (\E n \in news : Tell(n)) \/ (\E t \in alerts : Alert(t))
             \/ Tomorrow \/ UNCHANGED refVars
      PROVE  Lasting
  <2>1. UNCHANGED links
    BY <1>8 DEF Arrive, Tell, Alert, Tomorrow, refVars
  <2>2. QED
    BY <1>1, <2>1
<1>9. QED
  BY <1>2, <1>3, <1>4, <1>5, <1>6, <1>7, <1>8 DEF RefNext

\* The operators hear of what the job announced.
LEMMA DistributeWatch ==
  ASSUME TypeInv, Distribute
  PROVE  alerts' \subseteq alerts \/ (alerts' = alerts \cup {today} /\ \E i \in Refs : links'[i].notified = today)
<1>1. \A i \in Refs :
        links'[i].notified = IF i \in Roomy(links[i].host) /\ links[i].notified = Never
                             THEN today ELSE links[i].notified
  BY DistributeQuiet
<1>2. PICK fresh : /\ fresh = {i \in Refs : links[i].notified # links'[i].notified}
                   /\ alerts' = IF fresh = {} THEN alerts ELSE alerts \cup {today}
  BY DEF Distribute
<1>3. \A i \in fresh : i \in Refs /\ links'[i].notified = today
  BY <1>1, <1>2
<1>4. QED
  BY <1>2, <1>3

LEMMA StepWatch == TypeInv /\ TypeInv' /\ WatchInv /\ [RefNext]_refVars => WatchInv'
<1> SUFFICES ASSUME TypeInv, TypeInv', WatchInv, [RefNext]_refVars,
                    NEW t \in Times', t \in alerts' \/ \E e \in events' : e[1] = t
             PROVE  \E i \in Refs' : links'[i].notified = t
  BY DEF WatchInv
<1>1. \A i \in Refs : i \in Refs' /\ (links[i].notified # Never => links'[i].notified = links[i].notified)
  BY StayAnnounced DEF Lasting
<1>2. t # Never
  BY Clock DEF TypeInv, Times
<1>3. tale' = tale /\ t \in Times
  <2>1. tale' = tale
    BY DEF RefNext, refVars, Arrive, Joined, Qualify, Distribute, Tell, Alert, Choose, ClaimReward, Defer,
           Review, Finish, Bonus, AnswerAgain, After, Tomorrow
  <2>2. QED
    BY <2>1 DEF Times
<1>4. ASSUME t \in alerts \/ \E e \in events : e[1] = t PROVE \E i \in Refs' : links'[i].notified = t
  BY <1>1, <1>2, <1>3, <1>4 DEF WatchInv
<1>5. CASE Distribute
  <2>1. events' = events /\ Refs' = Refs
    BY <1>5, DistributeQuiet DEF Distribute, Rewrites
  <2>2. CASE alerts' \subseteq alerts
    BY <1>4, <2>1, <2>2
  <2>3. CASE alerts' = alerts \cup {today} /\ \E i \in Refs : links'[i].notified = today
    BY <1>4, <2>1, <2>3
  <2>4. QED
    BY <1>5, <2>2, <2>3, DistributeWatch
<1>6. ASSUME NEW s \in alerts, Alert(s) PROVE \E i \in Refs' : links'[i].notified = t
  <2>1. alerts' \subseteq alerts /\ \A e \in events' : e \in events \/ e[1] = s
    BY <1>6 DEF Alert
  <2>2. QED
    BY <1>4, <2>1
<1>7. ASSUME ~Distribute, ~(\E s \in alerts : Alert(s)) PROVE UNCHANGED <<alerts, events>>
  BY <1>7 DEF RefNext, refVars, Arrive, Joined, Qualify, Tell, Choose, ClaimReward, Defer,
              Review, Finish, Bonus, AnswerAgain, After, Tomorrow
<1>8. QED
  BY <1>4, <1>5, <1>6, <1>7

LEMMA InitWatch == RefInit => WatchInv
BY DEF RefInit, WatchInv

LEMMA Watched == RefSpec => []WatchInv
BY InitWatch, StepWatch, Typed, PTL DEF RefSpec

LEMMA RowsOfStatus ==
  ASSUME TypeInv, NEW status, NEW since
  PROVE  /\ IsFiniteSet(WithStatus(status, since)) /\ Cardinality(WithStatus(status, since)) \in Nat
         /\ Cardinality(Started(since)) \in Nat /\ WithStatus(status, since) \subseteq Refs
<1>1. Started(since) \subseteq Refs /\ WithStatus(status, since) \subseteq Refs
  BY DEF Started, WithStatus
<1>2. QED
  BY <1>1, Table, Part DEF TypeInv

\* There is something rejected behind every alert.
LEMMA SpikeRejected ==
  ASSUME TypeInv, NEW since, Spike(since)
  PROVE  Totals(since).rejected > 0 /\ \E i \in ReviewQueue(since) : i \in Refs /\ links[i].status = "REJECTED_FRAUD"
<1>1. PICK n \in Nat, m \in Nat : /\ n = Cardinality(WithStatus("REJECTED_FRAUD", since))
                                  /\ m = Cardinality(Started(since))
  BY RowsOfStatus
<1>2. Totals(since).rejected = n /\ Totals(since).started = m
  BY <1>1 DEF Totals
<1>3. ASSUME n * 100 > MaxRate * m PROVE n # 0
  <2>1. PICK p \in Nat : p = MaxRate * m
    OBVIOUS
  <2>2. QED
    BY <1>3, <2>1
<1>4. ASSUME n > MaxRejected PROVE n # 0
  BY <1>4
<1>5. ASSUME NEW h \in Hosts, RejectedOf(h, since) >= SpikeAt PROVE n # 0
  <2>1. Cardinality({i \in WithStatus("REJECTED_FRAUD", since) : links[i].host = h}) <= n
    BY <1>1, RowsOfStatus, Part
  <2>2. RejectedOf(h, since) <= n /\ RejectedOf(h, since) \in Nat
    BY <2>1, RowsOfStatus, Part DEF RejectedOf
  <2>3. QED
    BY <1>5, <2>2
<1>6. n # 0
  BY <1>2, <1>3, <1>4, <1>5 DEF Spike
<1>7. WithStatus("REJECTED_FRAUD", since) # {}
  BY <1>1, <1>6, FS_EmptySet
<1>8. PICK i : i \in WithStatus("REJECTED_FRAUD", since)
  BY <1>7
<1>9. i \in ReviewQueue(since) /\ i \in Refs /\ links[i].status = "REJECTED_FRAUD"
  BY <1>8 DEF ReviewQueue, WithStatus, Started
<1>10. QED
  BY <1>2, <1>6, <1>9

LEMMA WatchHolds == ASSUME TypeInv, WatchInv PROVE WatchSound
<1>1. ASSUME NEW t \in Times, Alarm(t)
      PROVE  /\ ReferralsDashboard(t).spike /\ ReferralsDashboard(t).totals.rejected > 0
             /\ \E i \in ReviewQueue(WindowStart(t)) : NextStatus("REOPEN", links[i].status) = "STARTED"
  <2>1. Spike(WindowStart(t))
    BY <1>1 DEF Alarm
  <2>2. PICK since : since = WindowStart(t)
    OBVIOUS
  <2>3. Totals(since).rejected > 0 /\ \E i \in ReviewQueue(since) : i \in Refs /\ links[i].status = "REJECTED_FRAUD"
    BY <2>1, <2>2, SpikeRejected
  <2>4. NextStatus("REOPEN", "REJECTED_FRAUD") = "STARTED"
    BY DEF NextStatus
  <2>5. ReferralsDashboard(t).spike = Spike(since) /\ ReferralsDashboard(t).totals = Totals(since)
    BY <2>2 DEF ReferralsDashboard
  <2>6. QED
    BY <2>1, <2>2, <2>3, <2>4, <2>5
<1>2. ASSUME NEW e \in Feed(0) PROVE \E i \in Refs : links[i].notified = e[1]
  <2>1. e \in events /\ e[1] \in Times
    BY DEF Feed, TypeInv, RefTypeOK
  <2>2. QED
    BY <2>1 DEF WatchInv
<1>3. QED
  BY <1>1, <1>2 DEF WatchSound

\* An alert of run_referrals_fraud_alerts_async has rejected referrals behind it that
\* can be decided upon, and every milestone recorded is of a reward that was announced:
\* for any thresholds.
THEOREM WatchSoundThm == RefSpec => []WatchSound
<1>1. TypeInv /\ WatchInv => WatchSound
  BY WatchHolds
<1>2. QED
  BY <1>1, Typed, Watched, PTL

\* What hosts, guests and operators are promised about referrals holds in every state.
THEOREM ReferralsSoundThm == RefSpec => []ReferralsSound
<1>1. RefTypeOK /\ RewardsFair /\ OverviewHonest /\ StartsBounded /\ WatchSound => ReferralsSound
  BY DEF ReferralsSound
<1>2. QED
  BY <1>1, TypeCorrect, RewardsFairThm, OverviewHonestThm, StartsBoundedThm, WatchSoundThm, PTL
=============================================================================
