---------------------------- MODULE GrowthProofs ----------------------------
(***************************************************************************)
(* What Arrivals guarantees for every set of users, workers, updates and   *)
(* push jobs; Figures for every set of users, count of the days back and   *)
(* retention that keeps events until their day is counted; and             *)
(* QuestionBank for every table, import, cache time and set of workers.    *)
(***************************************************************************)
EXTENDS Arrivals, Figures, QuestionBank, FiniteSetTheorems, SequenceTheorems, WellFoundedInduction, TLAPS

USE PeopleAssumption, LimitsAssumption

-----------------------------------------------------------------------------
(* What a step finds and does. *)

\* An element of a sequence over S is in S.
LEMMA Elements ==
  ASSUME NEW S, NEW s \in Seq(S) PROVE \A k \in DOMAIN s : s[k] \in S
BY LenProperties, ElementOfSeq

\* The parts of the behaviour's bounds have the types the tables give them.
LEMMA VisitParts ==
  ASSUME visit \in Visits
  PROVE  /\ \A k \in DOMAIN visit.mail :
              /\ visit.mail[k].user \in People
              /\ visit.mail[k].kind \in MailKinds
              /\ visit.mail[k].link \in People \cup {NoGuest}
         /\ visit.here \subseteq People
         /\ visit.creator \in People \cup {NoGuest}
         /\ \A r \in DOMAIN visit.runs : visit.runs[r] \in PushKinds
         /\ IsFiniteSet(DOMAIN visit.runs)
         /\ visit.faults \in Nat
<1>1. /\ visit.mail \in Seq(Messages)
      /\ visit.here \subseteq People
      /\ visit.creator \in People \cup {NoGuest}
      /\ visit.runs \in Seq(PushKinds)
      /\ visit.faults \in Nat
  BY VisitsAssumption
<1>2. DOMAIN visit.runs = 1..Len(visit.runs) /\ Len(visit.runs) \in Nat
  BY <1>1
<1>3. IsFiniteSet(DOMAIN visit.runs)
  BY <1>2, FS_Interval
<1>4. \A k \in DOMAIN visit.mail : visit.mail[k] \in Messages
  BY <1>1, Elements
<1>5. \A r \in DOMAIN visit.runs : visit.runs[r] \in PushKinds
  BY <1>1, Elements
<1> QED
  BY <1>1, <1>3, <1>4, <1>5 DEF Messages

\* A worker that is not idle handles an update of a user.
LEMMA Busy ==
  ASSUME ArrivalsTypeOK, NEW w \in Crew, crew[w] # Resting
  PROVE  /\ crew[w].k \in DOMAIN visit.mail
         /\ Guest(w) \in People
         /\ Link(w) \in People \cup {NoGuest}
         /\ crew[w].at \in {"READ", "HOLD"} =>
              crew[w] \in [at : {"READ", "HOLD"}, k : DOMAIN visit.mail,
                           found : BOOLEAN, claimed : BOOLEAN]
         /\ crew[w].at = "TELL" => crew[w] \in [at : {"TELL"}, k : DOMAIN visit.mail, joined : BOOLEAN]
<1>1. crew[w] \in Handling \ {Resting}
  BY DEF ArrivalsTypeOK
<1>2. crew[w].k \in DOMAIN visit.mail
  BY <1>1 DEF Handling
<1>3. Guest(w) \in People /\ Link(w) \in People \cup {NoGuest}
  BY <1>2, VisitParts DEF ArrivalsTypeOK, Guest, User, Link
<1> QED
  BY <1>1, <1>2, <1>3 DEF Handling

Account == [here : BOOLEAN, claimed : BOOLEAN, done : BOOLEAN, by : People \cup {NoGuest}]

\* What every kind of commit does to the row of the user, his bonus and the worker.
CommitsRow(w, u) ==
  /\ rows' \in [People -> Account] /\ rows'[u].here
  /\ rows[u].done => rows'[u].done
  /\ \A v \in People \ {u} : rows'[v] = rows[v]
  /\ made' = IF crew[w].found THEN made ELSE [made EXCEPT ![u] = @ + 1]
  /\ \/ rows'[u].claimed = rows[u].claimed /\ claims' = claims
     \/ ~rows[u].claimed /\ rows'[u].claimed /\ claims' = [claims EXCEPT ![u] = @ + 1]

\* A step that settles the row, with or without the bonus, commits the row.
LEMMA SettleCommits ==
  ASSUME ArrivalsTypeOK, NEW w \in Crew, crew[w].at = "HOLD", NEW row \in Account, Settle(w, row),
         rows[Guest(w)].done => row.done,
         \/ row.claimed = rows[Guest(w)].claimed /\ claims' = claims
         \/ ~rows[Guest(w)].claimed /\ row.claimed /\ claims' = [claims EXCEPT ![Guest(w)] = @ + 1]
  PROVE  CommitsRow(w, Guest(w))
<1> DEFINE u == Guest(w)
<1>1. crew[w] # Resting /\ u \in People
  BY Busy DEF Resting
<1>2. rows \in [People -> Account]
  BY DEF ArrivalsTypeOK, Account
<1>3. PICK by \in People \cup {NoGuest} :
        rows' = [rows EXCEPT ![u] = [row EXCEPT !.here = TRUE, !.by = by]]
  <2>1. row.by \in People \cup {NoGuest}
    BY DEF Account
  <2> QED
    BY <2>1 DEF Settle
<1>4. [row EXCEPT !.here = TRUE, !.by = by] \in Account
  BY DEF Account
<1>5. rows'[u] = [row EXCEPT !.here = TRUE, !.by = by] /\ rows' \in [People -> Account]
  BY <1>1, <1>2, <1>3, <1>4
<1>6. rows'[u].here /\ rows'[u].claimed = row.claimed /\ rows'[u].done = row.done
  BY <1>5 DEF Account
<1>7. made' = IF crew[w].found THEN made ELSE [made EXCEPT ![u] = @ + 1]
  BY DEF Settle
<1> QED
  BY <1>1, <1>2, <1>3, <1>5, <1>6, <1>7 DEF CommitsRow

\* A commit settles the row of the user and seats him at most once.
LEMMA CommitEffect ==
  ASSUME ArrivalsTypeOK, NEW w \in Crew, Commit(w)
  PROVE  /\ crew[w].at = "HOLD" /\ Guest(w) \in People
         /\ CommitsRow(w, Guest(w))
         /\ UNCHANGED <<mail, heard, faults, visit>> /\ UNCHANGED pushing
         /\ \/ crew' = [crew EXCEPT ![w] = [at |-> "REPLY", k |-> crew[w].k]] /\ duel' = duel
            \/ Tells(w, FALSE) /\ duel' = duel
            \/ Tells(w, TRUE) /\ duel.with = NoGuest /\ duel' = [duel EXCEPT !.with = Guest(w)]
<1> DEFINE u == Guest(w)
<1>0. crew[w].at = "HOLD" /\ u \in People
  BY Busy DEF Commit, Resting
<1>1. rows[u] \in Account
  BY <1>0 DEF ArrivalsTypeOK, Account
<1>2. [rows[u] EXCEPT !.done = TRUE] \in Account /\ [rows[u] EXCEPT !.claimed = TRUE] \in Account
  BY <1>1 DEF Account
<1>3. UNCHANGED <<mail, heard, faults, visit>> /\ UNCHANGED pushing
  BY DEF Commit
<1> DEFINE Quiet == \/ crew' = [crew EXCEPT ![w] = [at |-> "REPLY", k |-> crew[w].k]] /\ duel' = duel
                    \/ Tells(w, FALSE) /\ duel' = duel
           Seats == Tells(w, TRUE) /\ duel.with = NoGuest /\ duel' = [duel EXCEPT !.with = u]
<1>4. CASE Home(w) \/ OpenTournament(w)
  <2>1. Settle(w, rows[u]) /\ claims' = claims /\ Quiet
    BY <1>4 DEF Home, OpenTournament
  <2> HIDE DEF Quiet
  <2>2. CommitsRow(w, u)
    BY <1>0, <1>1, <2>1, SettleCommits
  <2> QED BY <1>0, <1>3, <2>1, <2>2 DEF Quiet
<1>5. CASE CompleteDaily(w)
  <2>1. PICK row : row = [rows[u] EXCEPT !.done = TRUE]
    OBVIOUS
  <2>2. row \in Account /\ row.done /\ row.claimed = rows[u].claimed
    BY <1>1, <2>1 DEF Account
  <2>3. Settle(w, row) /\ claims' = claims /\ Quiet
    BY <1>5, <2>1 DEF CompleteDaily
  <2> HIDE DEF Quiet
  <2>4. CommitsRow(w, u)
    BY <1>0, <2>2, <2>3, SettleCommits
  <2> QED BY <1>0, <1>3, <2>3, <2>4 DEF Quiet
<1>6. CASE CheckBonus(w)
  <2>1. Quiet
    BY <1>6 DEF CheckBonus
  <2> HIDE DEF Quiet
  <2>2. CASE Settle(w, rows[u]) /\ claims' = claims
    <3>1. CommitsRow(w, u)
      BY <1>0, <1>1, <2>2, SettleCommits
    <3> QED BY <1>0, <1>3, <2>1, <3>1 DEF Quiet
  <2>3. CASE /\ ~Claimed(w) /\ Settle(w, [rows[u] EXCEPT !.claimed = TRUE])
             /\ claims' = [claims EXCEPT ![u] = @ + 1]
    <3>1. PICK row : row = [rows[u] EXCEPT !.claimed = TRUE]
      OBVIOUS
    <3>2. row \in Account /\ row.claimed /\ row.done = rows[u].done
      BY <1>1, <3>1 DEF Account
    <3>3. Settle(w, row) /\ ~rows[u].claimed /\ claims' = [claims EXCEPT ![u] = @ + 1]
      BY <2>3, <3>1 DEF Claimed
    <3>4. CommitsRow(w, u)
      BY <1>0, <3>2, <3>3, SettleCommits
    <3> QED BY <1>0, <1>3, <2>1, <3>4 DEF Quiet
  <2> QED
    BY <1>6, <2>2, <2>3 DEF CheckBonus, Claim
<1>7. CASE JoinByLink(w)
  <2>1. Settle(w, rows[u]) /\ claims' = claims
    BY <1>7 DEF JoinByLink
  <2>2. CommitsRow(w, u)
    BY <1>0, <1>1, <2>1, SettleCommits
  <2>3. CASE JoinedNow(u)
    <3>1. JoinedNow(u) = TRUE /\ duel.with = NoGuest
      BY <2>3 DEF JoinedNow
    <3>2. Seats
      BY <1>7, <3>1 DEF JoinByLink
    <3> HIDE DEF Seats
    <3> QED BY <1>0, <1>3, <2>2, <3>2 DEF Seats
  <2>4. CASE ~JoinedNow(u)
    <3>1. JoinedNow(u) = FALSE
      BY <2>4 DEF JoinedNow
    <3>2. Quiet
      BY <1>7, <3>1 DEF JoinByLink
    <3> HIDE DEF Quiet
    <3> QED BY <1>0, <1>3, <2>2, <3>2 DEF Quiet
  <2> QED BY <2>3, <2>4
<1> QED
  BY <1>4, <1>5, <1>6, <1>7 DEF Commit, OpenBonus

-----------------------------------------------------------------------------
(* Types. *)

\* Every column, worker, job and counter keeps its type; a row that was claimed or
\* that names an inviter is there.
THEOREM TypeCorrect == ArrivalsSpec => []ArrivalsTypeOK
<1>1. ArrivalsInit => ArrivalsTypeOK
  BY VisitParts, FS_EmptySet DEF ArrivalsInit, ArrivalsTypeOK, Handling
<1>2. ArrivalsTypeOK /\ [ArrivalsNext]_guestVars => ArrivalsTypeOK'
  <2> SUFFICES ASSUME ArrivalsTypeOK, [ArrivalsNext]_guestVars PROVE ArrivalsTypeOK'
    OBVIOUS
  <2>0. /\ \A k \in DOMAIN visit.mail : visit.mail[k].user \in People
        /\ \A r \in DOMAIN visit.runs : visit.runs[r] \in PushKinds
        /\ visit \in Visits
    BY VisitParts DEF ArrivalsTypeOK
  <2>1. ASSUME NEW w \in Crew, NEW k \in DOMAIN mail, Take(w, k) PROVE ArrivalsTypeOK'
    <3>1. User(k) \in People /\ k \in DOMAIN visit.mail
      BY <2>0 DEF ArrivalsTypeOK, User
    <3>2. [at |-> "READ", k |-> k, found |-> rows[User(k)].here, claimed |-> rows[User(k)].claimed]
             \in Handling
      BY <3>1 DEF ArrivalsTypeOK, Handling
    <3>3. crew' \in [Crew -> Handling]
      BY <2>1, <3>2 DEF Take, ArrivalsTypeOK
    <3>4. mail' \in [DOMAIN visit.mail -> {"NEW", "DOING", "DONE"}]
      BY <2>1 DEF Take, ArrivalsTypeOK
    <3> QED BY <2>1, <3>3, <3>4 DEF Take, pushing, ArrivalsTypeOK, Handling
  <2>2. ASSUME NEW w \in Crew, TouchOrCreate(w) PROVE ArrivalsTypeOK'
    <3>1. [crew[w] EXCEPT !.at = "HOLD"] \in Handling
      BY <2>2, Busy DEF TouchOrCreate, Handling, Resting
    <3>2. crew' \in [Crew -> Handling]
      BY <2>2, <3>1 DEF TouchOrCreate, ArrivalsTypeOK
    <3> QED BY <2>2, <3>2 DEF TouchOrCreate, pushing, ArrivalsTypeOK, Handling
  <2>3. ASSUME NEW w \in Crew, Again(w), crew[w] # Resting, UNCHANGED <<rows, duel, claims, made, heard, visit>>,
               UNCHANGED pushing, faults' \in Nat
        PROVE ArrivalsTypeOK'
    <3>1. crew[w].k \in DOMAIN visit.mail
      BY <2>3, Busy
    <3>2. crew' \in [Crew -> Handling]
      BY <2>3 DEF Again, ArrivalsTypeOK, Handling
    <3>3. mail' \in [DOMAIN visit.mail -> {"NEW", "DOING", "DONE"}]
      BY <2>3, <3>1 DEF Again, ArrivalsTypeOK
    <3> QED BY <2>3, <3>2, <3>3 DEF pushing, ArrivalsTypeOK, Handling
  <2>4. ASSUME NEW w \in Crew, CreateFails(w) PROVE ArrivalsTypeOK'
    BY <2>3, <2>4 DEF CreateFails, Resting, ArrivalsTypeOK
  <2>5. ASSUME NEW w \in Crew, Commit(w) PROVE ArrivalsTypeOK'
    <3> DEFINE u == Guest(w)
    <3>1. /\ u \in People /\ CommitsRow(w, u)
          /\ UNCHANGED <<mail, heard, faults, visit>> /\ UNCHANGED pushing
      BY <2>5, CommitEffect
    <3>2. crew[w].k \in DOMAIN visit.mail
      BY <2>5, Busy DEF Commit, Resting
    <3>3. /\ [at |-> "REPLY", k |-> crew[w].k] \in Handling
          /\ \A b \in BOOLEAN : [at |-> "TELL", k |-> crew[w].k, joined |-> b] \in Handling
      BY <3>2 DEF Handling
    <3>4. crew' \in [Crew -> Handling]
      <4>1. \/ crew' = [crew EXCEPT ![w] = [at |-> "REPLY", k |-> crew[w].k]]
            \/ \E b \in BOOLEAN : Tells(w, b)
        BY <2>5, CommitEffect
      <4> QED BY <3>3, <4>1 DEF Tells, ArrivalsTypeOK
    <3>5. duel' \in [with : People \cup {NoGuest}, over : BOOLEAN, played : BOOLEAN, pushes : 0..PushMax]
      <4>1. duel' = duel \/ duel' = [duel EXCEPT !.with = u]
        BY <2>5, CommitEffect
      <4> QED BY <3>1, <4>1 DEF ArrivalsTypeOK
    <3>6. rows' \in [People -> Account] /\ \A v \in People :
            rows'[v].claimed \/ rows'[v].by # NoGuest => rows'[v].here
      BY <3>1 DEF CommitsRow, ArrivalsTypeOK
    <3>7. claims' \in [People -> Nat]
      <4>1. claims' = claims \/ claims' = [claims EXCEPT ![u] = @ + 1]
        BY <3>1 DEF CommitsRow
      <4> QED BY <3>1, <4>1 DEF ArrivalsTypeOK
    <3>8. made' \in [People -> Nat]
      <4>1. made' = made \/ made' = [made EXCEPT ![u] = @ + 1]
        BY <3>1 DEF CommitsRow
      <4> QED BY <3>1, <4>1 DEF ArrivalsTypeOK
    <3> QED BY <3>1, <3>4, <3>5, <3>6, <3>7, <3>8 DEF pushing, ArrivalsTypeOK, Handling, Account
  <2>6. ASSUME NEW w \in Crew, NotifyCreator(w) PROVE ArrivalsTypeOK'
    <3>1. [at |-> "REPLY", k |-> crew[w].k] \in Handling
      BY <2>6, Busy DEF NotifyCreator, Handling, Resting
    <3>2. crew' \in [Crew -> Handling]
      BY <2>6, <3>1 DEF NotifyCreator, ArrivalsTypeOK
    <3>3. duel' \in [with : People \cup {NoGuest}, over : BOOLEAN, played : BOOLEAN, pushes : 0..PushMax]
      <4> DEFINE push == crew[w].joined /\ ~duel.played /\ duel.pushes < PushMax
      <4>1. duel' = IF push THEN [duel EXCEPT !.pushes = @ + 1] ELSE duel
        BY <2>6 DEF NotifyCreator
      <4>2. CASE push
        BY <4>1, <4>2 DEF ArrivalsTypeOK
      <4>3. CASE ~push
        BY <4>1, <4>3 DEF ArrivalsTypeOK
      <4> QED BY <4>2, <4>3
    <3>4. heard' \in Nat
      BY <2>6 DEF NotifyCreator, ArrivalsTypeOK
    <3> QED BY <2>6, <3>2, <3>3, <3>4 DEF NotifyCreator, pushing, ArrivalsTypeOK, Handling
  <2>7. ASSUME NEW w \in Crew, Reply(w) PROVE ArrivalsTypeOK'
    <3>1. crew[w].k \in DOMAIN visit.mail
      BY <2>7, Busy DEF Reply, Resting
    <3>2. crew' \in [Crew -> Handling]
      BY <2>7 DEF Reply, ArrivalsTypeOK, Handling
    <3>3. mail' \in [DOMAIN visit.mail -> {"NEW", "DOING", "DONE"}]
      BY <2>7, <3>1 DEF Reply, ArrivalsTypeOK
    <3> QED BY <2>7, <3>2, <3>3 DEF Reply, pushing, ArrivalsTypeOK, Handling
  <2>8. ASSUME NEW w \in Crew, Break(w) PROVE ArrivalsTypeOK'
    BY <2>3, <2>8 DEF Break, ArrivalsTypeOK
  <2>9. CASE DuelGoesOn
    BY <2>9 DEF DuelGoesOn, pushing, ArrivalsTypeOK, Handling
  <2> DEFINE Jobs == [at : {"NEW", "LIST", "LOG", "SEND", "END", "LOST"}, after : Nat, left : SUBSET People]
  <2>10. /\ runs \in [DOMAIN visit.runs -> Jobs]
         /\ \A run \in Jobs : \A u \in People : Onwards(run, u) \in Jobs
         /\ \A run \in Jobs : [run EXCEPT !.at = "SEND"] \in Jobs /\ [run EXCEPT !.at = "LOST"] \in Jobs
         /\ \A run \in Jobs, at \in {"END", "LOG"}, users \in SUBSET People :
              [run EXCEPT !.at = at, !.left = users] \in Jobs
    BY DEF ArrivalsTypeOK, Onwards
  <2> HIDE DEF Jobs
  <2>11. ASSUME NEW r \in DOMAIN runs, ListTargets(r) PROVE ArrivalsTypeOK'
    <3> DEFINE found == Targets(visit.runs[r], runs[r].after)
    <3>1. found \subseteq People /\ Targets(visit.runs[r], 0) \subseteq People
          /\ FirstOf(found) \subseteq People
      BY DEF Targets, FirstOf
    <3>2. \E at \in {"END", "LOG"} :
            runs' = [runs EXCEPT ![r] = [@ EXCEPT !.at = at, !.left = FirstOf(found)]]
      BY <2>11, <2>10 DEF ListTargets
    <3> HIDE DEF found
    <3>3. runs' \in [DOMAIN visit.runs -> Jobs]
      <4>1. runs[r] \in Jobs /\ r \in DOMAIN visit.runs
        BY <2>10
      <4>2. PICK run \in Jobs : runs' = [runs EXCEPT ![r] = run]
        BY <2>10, <3>1, <3>2, <4>1
      <4> QED BY <2>10, <4>1, <4>2
    <3>4. due' \in [DOMAIN visit.runs -> SUBSET People]
      BY <2>11, <3>1 DEF ListTargets, ArrivalsTypeOK
    <3> QED BY <2>11, <3>3, <3>4 DEF ListTargets, handling, ArrivalsTypeOK, Handling, Jobs
  <2>12. ASSUME NEW r \in DOMAIN runs, LogPush(r) \/ SendPush(r) \/ RefusePush(r) \/ RunDies(r)
         PROVE ArrivalsTypeOK'
    <3>1. UNCHANGED <<due, visit>> /\ UNCHANGED handling /\ faults' \in Nat
      BY <2>12 DEF LogPush, SendPush, RefusePush, RunDies, ArrivalsTypeOK
    <3>2. visit.runs[r] \in PushKinds /\ r \in DOMAIN visit.runs
      BY <2>0 DEF ArrivalsTypeOK
    <3>3. \/ runs' = [runs EXCEPT ![r].at = "SEND"]
          \/ runs' = [runs EXCEPT ![r].at = "LOST"]
          \/ \E u \in People : runs' = [runs EXCEPT ![r] = Onwards(@, u)]
      BY <2>12 DEF LogPush, SendPush, RefusePush, RunDies
    <3>4. runs' \in [DOMAIN visit.runs -> Jobs]
      <4>1. runs[r] \in Jobs
        BY <2>10
      <4>2. PICK run \in Jobs : runs' = [runs EXCEPT ![r] = run]
        BY <2>10, <3>3, <4>1
      <4> QED BY <2>10, <4>2
    <3>5. called' = called \/ \E u \in People : called' = [called EXCEPT ![<<u, visit.runs[r]>>] = @ + 1]
      BY <2>12 DEF LogPush, SendPush, RefusePush, RunDies
    <3>6. called' \in [People \X PushKinds -> Nat]
      <4>1. called \in [People \X PushKinds -> Nat]
        BY DEF ArrivalsTypeOK
      <4>2. \A u \in People : <<u, visit.runs[r]>> \in People \X PushKinds
        BY <3>2
      <4>3. CASE called' = called
        BY <4>1, <4>3
      <4>4. ASSUME NEW c \in People \X PushKinds, called' = [called EXCEPT ![c] = @ + 1]
            PROVE  called' \in [People \X PushKinds -> Nat]
        BY <4>1, <4>4
      <4> QED BY <3>5, <4>2, <4>3, <4>4
    <3>7. logs' = logs \/ \E u \in People : logs' = logs \cup {<<u, visit.runs[r]>>}
      BY <2>12 DEF LogPush, SendPush, RefusePush, RunDies
    <3>8. IsFiniteSet(logs')
      <4>1. IsFiniteSet(logs)
        BY DEF ArrivalsTypeOK
      <4> QED BY <3>7, <4>1, FS_AddElement
    <3>9. logs' \subseteq People \X PushKinds
      BY <3>2, <3>7 DEF ArrivalsTypeOK
    <3> QED BY <3>1, <3>4, <3>6, <3>8, <3>9 DEF handling, ArrivalsTypeOK, Handling, Jobs
  <2>13. CASE UNCHANGED guestVars
    BY <2>13 DEF guestVars, ArrivalsTypeOK, Handling
  <2> QED
    BY <2>1, <2>2, <2>4, <2>5, <2>6, <2>7, <2>8, <2>9, <2>11, <2>12, <2>13 DEF ArrivalsNext
<1> QED
  BY <1>1, <1>2, PTL DEF ArrivalsSpec

-----------------------------------------------------------------------------
(* One account and one bonus. *)

\* A worker that does not commit writes no row, no account and no bonus.  It takes an
\* update, gets hold of the row, or goes on with neither.
LEMMA OtherSteps ==
  ASSUME ArrivalsTypeOK, ArrivalsNext
  PROVE  \/ \E w \in Crew : Commit(w)
         \/ /\ UNCHANGED <<rows, claims, made, visit>>
            /\ \/ \E w \in Crew, k \in DOMAIN mail : Take(w, k)
               \/ \E w \in Crew : TouchOrCreate(w)
               \/ \A w \in Crew : crew'[w] = crew[w] \/ crew'[w].at \notin {"READ", "HOLD"}
<1> USE DEF handling, ArrivalsTypeOK
<1>1. ASSUME NEW w \in Crew, NEW k \in DOMAIN mail, Take(w, k)
      PROVE  UNCHANGED <<rows, claims, made, visit>>
  BY <1>1 DEF Take
<1>2. ASSUME NEW w \in Crew, TouchOrCreate(w) PROVE UNCHANGED <<rows, claims, made, visit>>
  BY <1>2 DEF TouchOrCreate
<1>3. ASSUME NEW w \in Crew, CreateFails(w) \/ NotifyCreator(w) \/ Reply(w) \/ Break(w)
      PROVE  /\ UNCHANGED <<rows, claims, made, visit>>
             /\ \A v \in Crew : crew'[v] = crew[v] \/ crew'[v].at \notin {"READ", "HOLD"}
  BY <1>3 DEF CreateFails, NotifyCreator, Reply, Break, Again, Resting
<1>4. CASE DuelGoesOn
  BY <1>4 DEF DuelGoesOn
<1>5. ASSUME NEW r \in DOMAIN runs,
             ListTargets(r) \/ LogPush(r) \/ SendPush(r) \/ RefusePush(r) \/ RunDies(r)
      PROVE  UNCHANGED <<rows, claims, made, visit, crew>>
  BY <1>5 DEF ListTargets, LogPush, SendPush, RefusePush, RunDies
<1> QED
  BY <1>1, <1>2, <1>3, <1>4, <1>5 DEF ArrivalsNext

\* What a worker found, when it looked and when it got hold of the row, is so when it
\* commits, because nobody else gets hold of the row meanwhile.
FoundStands ==
  /\ \A u \in visit.here : rows[u].here
  /\ \A w \in Crew : crew[w].at \in {"READ", "HOLD"} /\ crew[w].found => rows[Guest(w)].here
  /\ \A w \in Crew : crew[w].at = "HOLD" /\ rows[Guest(w)].here => crew[w].found
  /\ \A v, w \in Crew :
       crew[v].at = "HOLD" /\ crew[w].at = "HOLD" /\ Guest(v) = Guest(w) => v = w

\* However many first messages and presses of the button race, fail and are handled
\* again, a user has one row and one bonus.
THEOREM BonusOnceThm == ArrivalsSpec => []BonusOnce
<1> DEFINE Inv == BonusOnce /\ FoundStands
<1>1. ArrivalsInit => Inv
  <2> SUFFICES ASSUME ArrivalsInit PROVE Inv
    OBVIOUS
  <2>1. visit.here \subseteq People
    BY VisitParts DEF ArrivalsInit
  <2>2. BonusOnce
    BY DEF ArrivalsInit, BonusOnce
  <2>3. FoundStands
    BY <2>1 DEF ArrivalsInit, FoundStands, Resting
  <2> QED BY <2>2, <2>3
<1>2. ArrivalsTypeOK /\ Inv /\ [ArrivalsNext]_guestVars => Inv'
  <2> SUFFICES ASSUME ArrivalsTypeOK, Inv, [ArrivalsNext]_guestVars PROVE Inv'
    OBVIOUS
  <2>1. ASSUME NEW w \in Crew, Commit(w) PROVE Inv'
    <3> DEFINE u == Guest(w)
    <3>1. crew[w].at = "HOLD" /\ u \in People /\ CommitsRow(w, u) /\ visit' = visit
      BY <2>1, CommitEffect
    <3>2. /\ crew'[w].at \notin {"READ", "HOLD"}
          /\ \A v \in Crew \ {w} : crew'[v] = crew[v]
      <4>1. \/ crew' = [crew EXCEPT ![w] = [at |-> "REPLY", k |-> crew[w].k]]
            \/ \E b \in BOOLEAN : Tells(w, b)
        BY <2>1, CommitEffect
      <4> QED BY <4>1 DEF Tells, ArrivalsTypeOK
    <3>3. \A v \in People : rows[v].here => rows'[v].here
      BY <3>1 DEF CommitsRow
    <3>4. \A v \in Crew \ {w} : crew'[v].at \in {"READ", "HOLD"} =>
            Guest(v)' = Guest(v) /\ Guest(v) \in People
      BY <3>1, <3>2, Busy DEF Guest, User, Resting
    <3>5. FoundStands'
      <4>1. \A v \in visit.here : rows'[v].here
        BY <3>3, VisitParts DEF FoundStands, ArrivalsTypeOK
      <4>2. \A v \in Crew : crew'[v].at \in {"READ", "HOLD"} /\ crew'[v].found => rows'[Guest(v)'].here
        BY <3>2, <3>3, <3>4 DEF FoundStands
      <4>3. \A v \in Crew : crew'[v].at = "HOLD" /\ rows'[Guest(v)'].here => crew'[v].found
        <5> SUFFICES ASSUME NEW v \in Crew, crew'[v].at = "HOLD", rows'[Guest(v)'].here
                     PROVE  crew'[v].found
          OBVIOUS
        <5>1. v # w /\ crew'[v] = crew[v] /\ Guest(v)' = Guest(v) /\ Guest(v) \in People
          BY <3>2, <3>4
        <5>2. Guest(v) # u
          BY <3>1, <5>1 DEF FoundStands
        <5> QED BY <3>1, <5>1, <5>2 DEF FoundStands, CommitsRow
      <4>4. \A v, x \in Crew :
              crew'[v].at = "HOLD" /\ crew'[x].at = "HOLD" /\ Guest(v)' = Guest(x)' => v = x
        BY <3>2, <3>4 DEF FoundStands
      <4> QED BY <3>1, <4>1, <4>2, <4>3, <4>4 DEF FoundStands
    <3>6. BonusOnce'
      <4> SUFFICES ASSUME NEW v \in People
                   PROVE  /\ made'[v] = (IF rows'[v].here /\ v \notin visit.here THEN 1 ELSE 0)
                          /\ claims'[v] = (IF rows'[v].claimed THEN 1 ELSE 0)
        BY <3>1 DEF BonusOnce
      <4>1. CASE v # u
        BY <3>1, <4>1 DEF CommitsRow, BonusOnce, ArrivalsTypeOK
      <4>2. CASE v = u
        <5>1. claims'[u] = (IF rows'[u].claimed THEN 1 ELSE 0)
          <6>1. claims[u] = (IF rows[u].claimed THEN 1 ELSE 0) /\ claims \in [People -> Nat]
            BY <3>1 DEF BonusOnce, ArrivalsTypeOK
          <6>2. CASE rows'[u].claimed = rows[u].claimed /\ claims' = claims
            BY <6>1, <6>2
          <6>3. CASE ~rows[u].claimed /\ rows'[u].claimed /\ claims' = [claims EXCEPT ![u] = @ + 1]
            BY <3>1, <6>1, <6>3
          <6> QED BY <3>1, <6>2, <6>3 DEF CommitsRow
        <5>2. crew[w].found <=> rows[u].here
          BY <3>1 DEF FoundStands
        <5>3. ~rows[u].here => u \notin visit.here
          BY DEF FoundStands
        <5>4. made[u] = (IF rows[u].here /\ u \notin visit.here THEN 1 ELSE 0)
          BY <3>1 DEF BonusOnce
        <5>5. made'[u] = (IF crew[w].found THEN made[u] ELSE made[u] + 1) /\ rows'[u].here
          BY <3>1 DEF CommitsRow, ArrivalsTypeOK
        <5>6. made'[u] = (IF rows'[u].here /\ u \notin visit.here THEN 1 ELSE 0)
          BY <5>2, <5>3, <5>4, <5>5
        <5> QED BY <4>2, <5>1, <5>6
      <4> QED BY <4>1, <4>2
    <3> QED BY <3>5, <3>6
  <2>2. CASE UNCHANGED <<rows, claims, made, visit>>
    <3>0. BonusOnce'
      BY <2>2 DEF BonusOnce
    <3>1. ASSUME NEW w \in Crew, NEW k \in DOMAIN mail, Take(w, k) PROVE Inv'
      <4>1. /\ crew'[w].at = "READ" /\ Guest(w)' = User(k)
            /\ crew'[w].found = rows[User(k)].here
        BY <2>2, <3>1 DEF Take, ArrivalsTypeOK, Guest, User
      <4>2. \A v \in Crew \ {w} : crew'[v] = crew[v] /\ Guest(v)' = Guest(v)
        BY <2>2, <3>1 DEF Take, ArrivalsTypeOK, Guest, User
      <4> QED BY <2>2, <3>0, <4>1, <4>2 DEF FoundStands
    <3>2. ASSUME NEW w \in Crew, TouchOrCreate(w) PROVE Inv'
      <4>1. /\ crew'[w].at = "HOLD" /\ Guest(w)' = Guest(w)
            /\ crew'[w].found = crew[w].found /\ crew[w].at = "READ"
        BY <2>2, <3>2, Busy DEF TouchOrCreate, ArrivalsTypeOK, Guest, User, Resting
      <4>2. \A v \in Crew \ {w} : crew'[v] = crew[v] /\ Guest(v)' = Guest(v)
        BY <2>2, <3>2 DEF TouchOrCreate, ArrivalsTypeOK, Guest, User
      <4>3. /\ \A v \in Crew : crew[v].at = "HOLD" => Guest(v) # Guest(w)
            /\ rows[Guest(w)].here => crew[w].found
        BY <3>2 DEF TouchOrCreate, Held, Taken
      <4> QED BY <2>2, <3>0, <4>1, <4>2, <4>3 DEF FoundStands
    <3>3. CASE \A w \in Crew : crew'[w] = crew[w] \/ crew'[w].at \notin {"READ", "HOLD"}
      <4>1. \A v \in Crew : crew'[v] = crew[v] => Guest(v)' = Guest(v)
        BY <2>2 DEF Guest, User
      <4> QED BY <2>2, <3>0, <3>3, <4>1 DEF FoundStands
    <3> QED BY <3>1, <3>2, <3>3, <2>1, OtherSteps DEF guestVars
  <2> QED
    BY <2>1, <2>2, OtherSteps DEF guestVars
<1> QED
  BY <1>1, <1>2, TypeCorrect, PTL DEF ArrivalsSpec

-----------------------------------------------------------------------------
(* One message to the creator. *)

\* A worker that has something to tell is the only one, has just seated the
\* opponent, and nobody told it before.
OneTeller ==
  /\ \A w \in Crew : crew[w].at = "TELL" /\ crew[w].joined => duel.with # NoGuest /\ heard = 0
  /\ \A v, w \in Crew :
       /\ crew[v].at = "TELL" /\ crew[v].joined
       /\ crew[w].at = "TELL" /\ crew[w].joined
       => v = w

\* The creator hears of the opponent at most once, and only of a seat that is taken,
\* though the update that took it may be handled several times.
THEOREM ToldOnceThm == ArrivalsSpec => []ToldOnce
<1> DEFINE Inv == ToldOnce /\ OneTeller
<1>1. ArrivalsInit => Inv
  BY DEF ArrivalsInit, ToldOnce, OneTeller, Resting
<1>2. ArrivalsTypeOK /\ Inv /\ [ArrivalsNext]_guestVars => Inv'
  <2> SUFFICES ASSUME ArrivalsTypeOK, Inv, [ArrivalsNext]_guestVars PROVE Inv'
    OBVIOUS
  <2>1. ASSUME NEW w \in Crew, Commit(w) PROVE Inv'
    <3>1. heard' = heard /\ Guest(w) \in People
      BY <2>1, CommitEffect
    <3>2. CASE \/ crew' = [crew EXCEPT ![w] = [at |-> "REPLY", k |-> crew[w].k]] /\ duel' = duel
               \/ Tells(w, FALSE) /\ duel' = duel
      <4>1. /\ ~(crew'[w].at = "TELL" /\ crew'[w].joined) /\ duel' = duel
            /\ \A v \in Crew \ {w} : crew'[v] = crew[v]
        BY <3>2 DEF Tells, ArrivalsTypeOK
      <4> QED BY <3>1, <4>1 DEF ToldOnce, OneTeller
    <3>3. CASE Tells(w, TRUE) /\ duel.with = NoGuest /\ duel' = [duel EXCEPT !.with = Guest(w)]
      <4>1. duel'.with # NoGuest
        BY <3>1, <3>3 DEF ArrivalsTypeOK
      <4>2. \A v \in Crew \ {w} : crew'[v] = crew[v]
        BY <3>3 DEF Tells, ArrivalsTypeOK
      <4>3. heard = 0 /\ \A v \in Crew : ~(crew[v].at = "TELL" /\ crew[v].joined)
        <5>1. duel.with = NoGuest /\ heard \in Nat
          BY <3>3 DEF ArrivalsTypeOK
        <5> QED BY <5>1 DEF ToldOnce, OneTeller
      <4> QED BY <3>1, <4>1, <4>2, <4>3 DEF ToldOnce, OneTeller
    <3> QED BY <2>1, <3>2, <3>3, CommitEffect
  <2>2. ASSUME NEW w \in Crew, NotifyCreator(w) PROVE Inv'
    <3>1. /\ ~(crew'[w].at = "TELL") /\ duel'.with = duel.with
          /\ \A v \in Crew \ {w} : crew'[v] = crew[v]
      BY <2>2 DEF NotifyCreator, ArrivalsTypeOK
    <3>2. heard' = heard \/ (crew[w].at = "TELL" /\ crew[w].joined /\ heard' = heard + 1)
      <4> DEFINE push == crew[w].joined /\ ~duel.played /\ duel.pushes < PushMax
      <4>1. crew[w].at = "TELL" /\ (heard' = (IF push THEN heard + 1 ELSE heard) \/ (push /\ heard' = heard))
        BY <2>2 DEF NotifyCreator
      <4>2. CASE push BY <4>1, <4>2
      <4>3. CASE ~push BY <4>1, <4>3
      <4> QED BY <4>2, <4>3
    <3>3. CASE heard' = heard
      BY <3>1, <3>3 DEF ToldOnce, OneTeller
    <3>4. CASE crew[w].at = "TELL" /\ crew[w].joined /\ heard' = heard + 1
      <4>1. heard' = 1 /\ duel'.with # NoGuest
        BY <3>1, <3>4 DEF OneTeller
      <4>2. \A v \in Crew : ~(crew'[v].at = "TELL" /\ crew'[v].joined)
        BY <3>1, <3>4 DEF OneTeller
      <4> QED BY <4>1, <4>2 DEF ToldOnce, OneTeller
    <3> QED BY <3>2, <3>3, <3>4
  <2>3. ASSUME NEW w \in Crew, UNCHANGED heard, duel' = duel, crew'[w].at # "TELL",
               \A v \in Crew \ {w} : crew'[v] = crew[v]
        PROVE  Inv'
    BY <2>3 DEF ToldOnce, OneTeller
  <2>4. ASSUME NEW w \in Crew, NEW k \in DOMAIN mail, Take(w, k) PROVE Inv'
    BY <2>3, <2>4 DEF Take, ArrivalsTypeOK
  <2>5. ASSUME NEW w \in Crew, TouchOrCreate(w) PROVE Inv'
    <3>1. crew'[w].at = "HOLD" /\ \A v \in Crew \ {w} : crew'[v] = crew[v]
      BY <2>5, Busy DEF TouchOrCreate, ArrivalsTypeOK, Resting
    <3> QED BY <2>3, <2>5, <3>1 DEF TouchOrCreate
  <2>6. ASSUME NEW w \in Crew, CreateFails(w) \/ Reply(w) \/ Break(w) PROVE Inv'
    BY <2>3, <2>6 DEF CreateFails, Reply, Break, Again, Resting, ArrivalsTypeOK
  <2>7. CASE DuelGoesOn
    BY <2>7 DEF DuelGoesOn, ToldOnce, OneTeller, ArrivalsTypeOK
  <2>8. ASSUME NEW r \in DOMAIN runs,
               ListTargets(r) \/ LogPush(r) \/ SendPush(r) \/ RefusePush(r) \/ RunDies(r)
        PROVE  Inv'
    BY <2>8 DEF ListTargets, LogPush, SendPush, RefusePush, RunDies, handling, ToldOnce, OneTeller
  <2>9. CASE UNCHANGED guestVars
    BY <2>9 DEF guestVars, ToldOnce, OneTeller
  <2> QED
    BY <2>1, <2>2, <2>4, <2>5, <2>6, <2>7, <2>8, <2>9 DEF ArrivalsNext
<1> QED
  BY <1>1, <1>2, TypeCorrect, PTL DEF ArrivalsSpec

-----------------------------------------------------------------------------
(* The pushes of a day. *)

\* A batch is taken from the users found, and whoever is left out has a higher id
\* than all of it.
LEMMA FirstOfBatch ==
  ASSUME NEW users \in SUBSET People
  PROVE  /\ FirstOf(users) \subseteq users
         /\ \A u \in users \ FirstOf(users), v \in FirstOf(users) : v < u
<1> DEFINE Below(x) == {y \in users : y < x}
<1>1. ASSUME NEW u \in users \ FirstOf(users), NEW v \in FirstOf(users), ~(v < u) PROVE FALSE
  <2>1. u \in Nat /\ v \in Nat /\ u <= v /\ v \in users
    BY <1>1 DEF FirstOf
  <2>2. Below(v) \subseteq 0..v /\ Below(u) \subseteq Below(v)
    <3>1. users \subseteq Nat
      OBVIOUS
    <3>2. \A y \in Below(v) : y \in Nat /\ y < v
      BY <3>1
    <3>3. \A y \in Below(u) : y \in users /\ y < v
      BY <2>1, <3>1
    <3>4. \A y \in Below(v) : y \in 0..v
      BY <2>1, <3>2
    <3>5. \A y \in Below(u) : y \in Below(v)
      BY <3>3
    <3> QED BY <3>4, <3>5
  <2>3. IsFiniteSet(0..v)
    BY <2>1, FS_Interval
  <2>4. IsFiniteSet(Below(v))
    BY <2>2, <2>3, FS_Subset
  <2>5. Cardinality(Below(u)) <= Cardinality(Below(v)) /\ IsFiniteSet(Below(u))
    BY <2>2, <2>4, FS_Subset
  <2>6. Cardinality(Below(u)) \in Nat /\ Cardinality(Below(v)) \in Nat
    BY <2>4, <2>5, FS_CardinalityType
  <2>7. Cardinality(Below(v)) < Batch /\ ~(Cardinality(Below(u)) < Batch)
    BY <1>1 DEF FirstOf
  <2> HIDE DEF Below
  <2> QED BY <2>5, <2>6, <2>7
<1> QED
  BY <1>1 DEF FirstOf

\* A user keeps his row, and what he has done today.
LEMMA RowsGrow ==
  ASSUME ArrivalsTypeOK, [ArrivalsNext]_guestVars
  PROVE  /\ visit' = visit
         /\ \A u \in People : (rows[u].here => rows'[u].here) /\ (rows[u].done => rows'[u].done)
<1>1. ASSUME NEW w \in Crew, Commit(w)
      PROVE  /\ visit' = visit
             /\ \A u \in People : (rows[u].here => rows'[u].here) /\ (rows[u].done => rows'[u].done)
  BY <1>1, CommitEffect DEF CommitsRow
<1> QED
  BY <1>1, OtherSteps DEF guestVars

Call(u, r) == <<u, visit.runs[r]>>
Sent == {c \in DOMAIN called : called[c] # 0}
Sending == {r \in DOMAIN runs : runs[r].at = "SEND"}

\* A push that went out was logged before; the one a job is about to send is logged,
\* was not sent, and no other job is about to send it.
LoggedFirst ==
  /\ \A c \in DOMAIN called : called[c] <= 1 /\ (called[c] # 0 => c \in logs)
  /\ \A r \in Sending : \A u \in People :
       Foremost(u, runs[r]) => Call(u, r) \in logs /\ called[Call(u, r)] = 0
  /\ \A r, q \in Sending : \A u \in People :
       Foremost(u, runs[r]) /\ Foremost(u, runs[q]) /\ visit.runs[r] = visit.runs[q] => r = q

\* Whom a job had to reach when it began, and who has neither played since nor been
\* called, is in the batch, or comes after it.
StillAhead ==
  \A r \in DOMAIN runs :
    /\ runs[r].at = "NEW" => runs[r].after = 0 /\ due[r] = {}
    /\ \A u \in due[r] : ~rows[u].done /\ Call(u, r) \notin logs =>
         /\ rows[u].here /\ runs[r].at # "END"
         /\ runs[r].at = "LIST" => u > runs[r].after
         /\ runs[r].at \in {"LOG", "SEND"} =>
              u > runs[r].after /\ (u \in runs[r].left \/ \A v \in runs[r].left : v < u)

\* A push that is logged and was not sent is under way, or something failed.
FewLost == Cardinality(logs \ Sent) <= faults + Cardinality(Sending)

PushInv == LoggedFirst /\ StillAhead /\ FewLost

\* The sets that are counted are finite.
LEMMA Countable ==
  ASSUME ArrivalsTypeOK
  PROVE  /\ IsFiniteSet(logs \ Sent) /\ IsFiniteSet(Sending)
         /\ Cardinality(logs \ Sent) \in Nat /\ Cardinality(Sending) \in Nat
<1>1. IsFiniteSet(logs) /\ IsFiniteSet(DOMAIN visit.runs) /\ DOMAIN runs = DOMAIN visit.runs
  BY VisitParts DEF ArrivalsTypeOK
<1>2. IsFiniteSet(logs \ Sent) /\ IsFiniteSet(Sending)
  BY <1>1, FS_Subset DEF Sending
<1> QED
  BY <1>2, FS_CardinalityType

\* A step that leaves logs, jobs and pushes alone keeps the invariant.
LEMMA PushFrame ==
  ASSUME ArrivalsTypeOK, PushInv, UNCHANGED pushing, faults' \in {faults, faults + 1},
         visit' = visit,
         \A u \in People : (rows[u].here => rows'[u].here) /\ (rows[u].done => rows'[u].done)
  PROVE  PushInv'
<1>1. LoggedFirst'
  BY DEF PushInv, LoggedFirst, pushing, Sending, Call
<1>2. StillAhead'
  BY DEF PushInv, StillAhead, pushing, Call, ArrivalsTypeOK
<1>3. Cardinality(logs \ Sent) \in Nat /\ Cardinality(Sending) \in Nat /\ faults \in Nat
  BY Countable DEF ArrivalsTypeOK
<1>4. logs' = logs /\ Sent' = Sent /\ Sending' = Sending
  BY DEF pushing, Sent, Sending
<1>5. FewLost'
  BY <1>3, <1>4 DEF FewLost, PushInv
<1> QED
  BY <1>1, <1>2, <1>5 DEF PushInv

\* A job that is done with a logged user goes on to the next one.
LEMMA OnwardsAhead ==
  ASSUME ArrivalsTypeOK, StillAhead, NEW r \in DOMAIN runs, NEW u \in People,
         runs[r].at \in {"LOG", "SEND"}, Foremost(u, runs[r]), Call(u, r) \in logs',
         runs' = [runs EXCEPT ![r] = Onwards(@, u)],
         logs \subseteq logs', UNCHANGED <<rows, visit, due>>
  PROVE  StillAhead'
<1> SUFFICES ASSUME NEW q \in DOMAIN runs
             PROVE /\ runs'[q].at = "NEW" => runs'[q].after = 0 /\ due[q] = {}
                   /\ \A v \in due[q] : ~rows[v].done /\ Call(v, q) \notin logs' =>
                        /\ rows[v].here /\ runs'[q].at # "END"
                        /\ runs'[q].at = "LIST" => v > runs'[q].after
                        /\ runs'[q].at \in {"LOG", "SEND"} =>
                             v > runs'[q].after
                             /\ (v \in runs'[q].left \/ \A x \in runs'[q].left : x < v)
  BY DEF StillAhead, Call, ArrivalsTypeOK
<1>1. CASE q # r
  BY <1>1 DEF StillAhead, ArrivalsTypeOK
<1>2. CASE q = r
  <2>1. runs'[r] = Onwards(runs[r], u)
    BY DEF ArrivalsTypeOK
  <2>2. /\ runs'[r].after = u /\ runs'[r].left = runs[r].left \ {u}
        /\ runs'[r].at \in {"LIST", "LOG"}
    BY <2>1 DEF Onwards
  <2>3. ASSUME NEW v \in due[r], ~rows[v].done, Call(v, r) \notin logs'
        PROVE  rows[v].here /\ v > u /\ (v \in runs[r].left \ {u} \/ \A x \in runs[r].left \ {u} : x < v)
    <3>1. v \in People /\ v # u /\ u \in Nat /\ v \in Nat /\ runs[r].left \subseteq Nat
      BY <2>3 DEF ArrivalsTypeOK
    <3>2. rows[v].here /\ (v \in runs[r].left \/ \A x \in runs[r].left : x < v)
      BY <2>3 DEF StillAhead
    <3>3. u \in runs[r].left /\ \A x \in runs[r].left : u <= x
      BY DEF Foremost
    <3> QED BY <3>1, <3>2, <3>3
  <2> QED BY <1>2, <2>2, <2>3
<1> QED BY <1>1, <1>2

\* The end of a call, delivered or refused: the job goes on, and the call is
\* no longer under way.
LEMMA CallEnds ==
  ASSUME ArrivalsTypeOK, NEW r \in DOMAIN runs, runs[r].at = "SEND",
         \/ \E u \in People : runs' = [runs EXCEPT ![r] = Onwards(@, u)]
         \/ runs' = [runs EXCEPT ![r].at = "LOST"]
  PROVE  /\ Sending' = Sending \ {r} /\ r \in Sending
         /\ Cardinality(Sending') = Cardinality(Sending) - 1
         /\ \A q \in Sending' : runs'[q] = runs[q]
<1>1. runs'[r].at # "SEND" /\ \A q \in DOMAIN runs \ {r} : runs'[q] = runs[q]
  BY DEF Onwards, ArrivalsTypeOK
<1>2. Sending' = Sending \ {r} /\ r \in Sending /\ DOMAIN runs' = DOMAIN runs
  BY <1>1 DEF Sending, ArrivalsTypeOK
<1>3. IsFiniteSet(Sending)
  BY Countable
<1>4. Cardinality(Sending \ {r}) = Cardinality(Sending) - 1
  BY <1>2, <1>3, FS_RemoveElement
<1>5. Sending \ {r} \subseteq DOMAIN runs \ {r}
  BY DEF Sending
<1> QED
  BY <1>1, <1>2, <1>4, <1>5

\* Nobody gets a push of the day twice, whatever jobs overlap; a job that runs to its
\* end passed over nobody it had to reach; and a push is lost only when something failed.
THEOREM PushedOnceThm == ArrivalsSpec => []PushedOnce
<1>1. ArrivalsInit => PushInv
  <2> SUFFICES ASSUME ArrivalsInit PROVE PushInv
    OBVIOUS
  <2>1. LoggedFirst /\ StillAhead
    BY DEF ArrivalsInit, LoggedFirst, StillAhead, Sending
  <2>2. logs \ Sent = {} /\ Sending = {} /\ faults = 0
    BY DEF ArrivalsInit, Sending
  <2>3. FewLost
    BY <2>2, FS_EmptySet DEF FewLost
  <2> QED BY <2>1, <2>3 DEF PushInv
<1>2. ArrivalsTypeOK /\ PushInv /\ [ArrivalsNext]_guestVars => PushInv'
  <2> SUFFICES ASSUME ArrivalsTypeOK, PushInv, [ArrivalsNext]_guestVars PROVE PushInv'
    OBVIOUS
  <2>0. /\ visit' = visit
        /\ \A u \in People : (rows[u].here => rows'[u].here) /\ (rows[u].done => rows'[u].done)
    BY RowsGrow
  <2>1. CASE UNCHANGED pushing /\ faults' \in {faults, faults + 1}
    BY <2>0, <2>1, PushFrame
  <2>2. ASSUME NEW w \in Crew,
               \/ \E k \in DOMAIN mail : Take(w, k)
               \/ TouchOrCreate(w) \/ CreateFails(w) \/ Commit(w) \/ NotifyCreator(w)
               \/ Reply(w) \/ Break(w)
        PROVE  PushInv'
    BY <2>1, <2>2 DEF Take, TouchOrCreate, CreateFails, Commit, NotifyCreator, Reply, Break
  <2>3. CASE DuelGoesOn
    BY <2>1, <2>3 DEF DuelGoesOn
  <2>4. /\ Cardinality(logs \ Sent) \in Nat /\ Cardinality(Sending) \in Nat /\ faults \in Nat
        /\ IsFiniteSet(logs \ Sent) /\ IsFiniteSet(Sending)
        /\ Cardinality(logs \ Sent) <= faults + Cardinality(Sending)
    BY Countable DEF ArrivalsTypeOK, PushInv, FewLost
  <2>5. ASSUME NEW r \in DOMAIN runs, ListTargets(r) PROVE PushInv'
    <3> DEFINE found == Targets(visit.runs[r], runs[r].after)
               at == IF found = {} THEN "END" ELSE "LOG"
    <3>1. /\ runs[r].at \in {"NEW", "LIST"} /\ UNCHANGED <<logs, called, faults, visit, rows>>
          /\ runs' = [runs EXCEPT ![r] = [@ EXCEPT !.at = at, !.left = FirstOf(found)]]
          /\ due' = IF runs[r].at = "NEW" THEN [due EXCEPT ![r] = Targets(visit.runs[r], 0)] ELSE due
      BY <2>5 DEF ListTargets, handling
    <3>2. /\ runs'[r].at = at /\ runs'[r].left = FirstOf(found) /\ runs'[r].after = runs[r].after
          /\ \A q \in DOMAIN runs \ {r} : runs'[q] = runs[q]
          /\ DOMAIN runs' = DOMAIN runs
      <4>1. DOMAIN runs = DOMAIN visit.runs /\ DOMAIN runs[r] = {"at", "after", "left"}
            /\ runs = [q \in DOMAIN runs |-> runs[q]]
        BY DEF ArrivalsTypeOK
      <4> HIDE DEF found, at
      <4>2. QED
        BY ONLY <3>1, <4>1, r \in DOMAIN runs
    <3> HIDE DEF at
    <3>3. at \in {"END", "LOG"} /\ (at = "END" => found = {})
      BY DEF at
    <3>4. Sending' = Sending /\ \A q \in Sending : runs'[q] = runs[q]
      BY <3>1, <3>2, <3>3 DEF Sending
    <3>5. LoggedFirst'
      BY <3>1, <3>4 DEF PushInv, LoggedFirst, Call
    <3>6. FewLost'
      BY <2>4, <3>1, <3>4 DEF FewLost, Sent
    <3>7. ASSUME NEW u \in due'[r], ~rows[u].done, Call(u, r) \notin logs
          PROVE  u \in found /\ rows[u].here /\ u > runs[r].after
      <4>1. CASE runs[r].at = "NEW"
        <5>1. u \in Targets(visit.runs[r], 0) /\ runs[r].after = 0
          BY <3>1, <3>7, <4>1 DEF PushInv, StillAhead, ArrivalsTypeOK
        <5> QED BY <5>1 DEF Targets
      <4>2. CASE runs[r].at = "LIST"
        <5>1. u \in due[r] /\ u \in People
          BY <3>1, <3>7, <4>2 DEF ArrivalsTypeOK
        <5>2. rows[u].here /\ u > runs[r].after
          BY <3>7, <4>2, <5>1 DEF PushInv, StillAhead
        <5> QED BY <3>7, <5>1, <5>2 DEF Targets, Call
      <4> QED BY <3>1, <4>1, <4>2
    <3>8. \A u \in found : u \in FirstOf(found) \/ \A v \in FirstOf(found) : v < u
      <4>1. found \in SUBSET People
        BY DEF Targets
      <4> HIDE DEF found
      <4> QED BY <4>1, FirstOfBatch
    <3>9. StillAhead'
      <4> SUFFICES ASSUME NEW q \in DOMAIN runs
                   PROVE /\ runs'[q].at = "NEW" => runs'[q].after = 0 /\ due'[q] = {}
                         /\ \A u \in due'[q] : ~rows[u].done /\ Call(u, q) \notin logs =>
                              /\ rows[u].here /\ runs'[q].at # "END"
                              /\ runs'[q].at = "LIST" => u > runs'[q].after
                              /\ runs'[q].at \in {"LOG", "SEND"} =>
                                   u > runs'[q].after
                                   /\ (u \in runs'[q].left \/ \A v \in runs'[q].left : v < u)
        BY <3>1, <3>2 DEF StillAhead, Call
      <4>1. CASE q = r
        <5> HIDE DEF found
        <5> QED BY <3>2, <3>3, <3>7, <3>8, <4>1
      <4>2. CASE q # r
        <5>1. due'[q] = due[q] /\ runs'[q] = runs[q]
          BY <3>1, <3>2, <4>2 DEF ArrivalsTypeOK
        <5> QED BY <5>1 DEF PushInv, StillAhead
      <4> QED BY <4>1, <4>2
    <3> QED BY <3>5, <3>6, <3>9 DEF PushInv
  <2>6. ASSUME NEW r \in DOMAIN runs, LogPush(r) PROVE PushInv'
    <3>1. /\ runs[r].at = "LOG" /\ UNCHANGED <<called, due, faults, visit, rows>>
      BY <2>6 DEF LogPush, handling
    <3>2. PICK u \in People :
            /\ Foremost(u, runs[r])
            /\ \/ /\ Call(u, r) \notin logs /\ logs' = logs \cup {Call(u, r)}
                  /\ runs' = [runs EXCEPT ![r].at = "SEND"]
               \/ /\ Call(u, r) \in logs /\ logs' = logs
                  /\ runs' = [runs EXCEPT ![r] = Onwards(@, u)]
      BY <2>6 DEF LogPush, CreatedOnce, Call
    <3>3. r \notin Sending /\ \A q \in Sending : q # r
      BY <3>1 DEF Sending
    <3>4. CASE Call(u, r) \in logs
      <4>1. StillAhead'
        BY <3>1, <3>2, <3>4, OnwardsAhead DEF PushInv
      <4>2. Sending' = Sending /\ \A q \in Sending : runs'[q] = runs[q]
        <5>1. /\ runs'[r].at \in {"LIST", "LOG"} /\ DOMAIN runs' = DOMAIN runs
              /\ \A q \in DOMAIN runs \ {r} : runs'[q] = runs[q]
          BY <3>2, <3>4 DEF Onwards, ArrivalsTypeOK
        <5> QED BY <3>1, <5>1 DEF Sending
      <4>3. LoggedFirst'
        BY <3>1, <3>2, <3>4, <4>2 DEF PushInv, LoggedFirst, Call
      <4>4. FewLost'
        BY <2>4, <3>1, <3>2, <3>4, <4>2 DEF FewLost, Sent
      <4> QED BY <4>1, <4>3, <4>4 DEF PushInv
    <3>5. CASE Call(u, r) \notin logs
      <4>1. /\ runs'[r].at = "SEND" /\ runs'[r].left = runs[r].left /\ runs'[r].after = runs[r].after
            /\ \A q \in DOMAIN runs \ {r} : runs'[q] = runs[q]
            /\ DOMAIN runs' = DOMAIN runs /\ logs' = logs \cup {Call(u, r)}
        BY <3>2, <3>5 DEF ArrivalsTypeOK
      <4>2. StillAhead'
        <5>1. \A q \in DOMAIN runs : \A v \in due[q] : Call(v, q) \notin logs' => Call(v, q) \notin logs
          BY <4>1
        <5>2. ASSUME NEW q \in DOMAIN runs
              PROVE  /\ runs'[q].at = "NEW" => runs'[q].after = 0 /\ due[q] = {}
                     /\ \A v \in due[q] : ~rows[v].done /\ Call(v, q) \notin logs' =>
                          /\ rows[v].here /\ runs'[q].at # "END"
                          /\ runs'[q].at = "LIST" => v > runs'[q].after
                          /\ runs'[q].at \in {"LOG", "SEND"} =>
                               v > runs'[q].after
                               /\ (v \in runs'[q].left \/ \A x \in runs'[q].left : x < v)
          BY <3>1, <4>1, <5>1 DEF PushInv, StillAhead
        <5> QED BY <3>1, <4>1, <5>2 DEF StillAhead, Call
      <4>3. Call(u, r) \in DOMAIN called /\ called[Call(u, r)] = 0
        <5>1. Call(u, r) \in DOMAIN called
          BY VisitParts DEF Call, ArrivalsTypeOK
        <5> QED BY <3>5, <5>1 DEF PushInv, LoggedFirst
      <4>4. Sending' = Sending \cup {r}
        BY <4>1 DEF Sending
      <4>5. \A v \in People : Foremost(v, runs'[r]) => v = u
        BY <3>2, <4>1 DEF Foremost
      <4>6. LoggedFirst'
        <5>1. \A c \in DOMAIN called : called[c] <= 1 /\ (called[c] # 0 => c \in logs')
          BY <4>1 DEF PushInv, LoggedFirst
        <5>2. \A q \in Sending' : \A v \in People :
                Foremost(v, runs'[q]) => Call(v, q) \in logs' /\ called[Call(v, q)] = 0
          BY <3>3, <4>1, <4>3, <4>4, <4>5 DEF PushInv, LoggedFirst, Sending
        <5>3. \A q \in Sending : \A v \in People :
                Foremost(v, runs[q]) /\ visit.runs[q] = visit.runs[r] => v # u
          BY <3>5 DEF PushInv, LoggedFirst, Call
        <5>4. \A p, q \in Sending' : \A v \in People :
                Foremost(v, runs'[p]) /\ Foremost(v, runs'[q]) /\ visit.runs[p] = visit.runs[q] => p = q
          BY <3>3, <4>1, <4>4, <4>5, <5>3 DEF PushInv, LoggedFirst, Sending
        <5> QED BY <3>1, <5>1, <5>2, <5>4 DEF LoggedFirst, Call
      <4>7. FewLost'
        <5>1. logs' \ Sent' = (logs \ Sent) \cup {Call(u, r)} /\ Call(u, r) \notin logs \ Sent
          BY <3>1, <3>5, <4>1, <4>3 DEF Sent
        <5>2. Cardinality(logs' \ Sent') = Cardinality(logs \ Sent) + 1
          BY <2>4, <5>1, FS_AddElement
        <5>3. Cardinality(Sending') = Cardinality(Sending) + 1
          BY <2>4, <3>3, <4>4, FS_AddElement
        <5> QED BY <2>4, <3>1, <5>2, <5>3 DEF FewLost
      <4> QED BY <4>2, <4>6, <4>7 DEF PushInv
    <3> QED BY <3>4, <3>5
  <2>7. ASSUME NEW r \in DOMAIN runs, SendPush(r) PROVE PushInv'
    <3>1. /\ runs[r].at = "SEND" /\ UNCHANGED <<logs, due, faults, visit, rows>>
      BY <2>7 DEF SendPush, handling
    <3>2. PICK u \in People : /\ Foremost(u, runs[r]) /\ runs' = [runs EXCEPT ![r] = Onwards(@, u)]
                              /\ called' = [called EXCEPT ![Call(u, r)] = @ + 1]
      BY <2>7 DEF SendPush, Call
    <3>3. /\ Call(u, r) \in logs /\ called[Call(u, r)] = 0 /\ Call(u, r) \in DOMAIN called
      BY <3>1, <3>2 DEF PushInv, LoggedFirst, Sending, ArrivalsTypeOK
    <3>4. StillAhead'
      BY <3>1, <3>2, <3>3, OnwardsAhead DEF PushInv
    <3>5. /\ Sending' = Sending \ {r} /\ r \in Sending
          /\ Cardinality(Sending') = Cardinality(Sending) - 1
          /\ \A q \in Sending' : runs'[q] = runs[q]
      BY <3>1, <3>2, CallEnds
    <3>6. /\ called'[Call(u, r)] = 1 /\ DOMAIN called' = DOMAIN called
          /\ \A c \in DOMAIN called \ {Call(u, r)} : called'[c] = called[c]
      BY <3>2, <3>3
    <3>7. LoggedFirst'
      <4>1. \A c \in DOMAIN called : called'[c] <= 1 /\ (called'[c] # 0 => c \in logs)
        BY <3>3, <3>6 DEF PushInv, LoggedFirst
      <4>2. \A q \in Sending' : \A v \in People : Foremost(v, runs[q]) => Call(v, q) # Call(u, r)
        BY <3>1, <3>2, <3>5 DEF PushInv, LoggedFirst, Call
      <4>3. \A q \in Sending' : \A v \in People :
              Foremost(v, runs'[q]) => Call(v, q) \in logs /\ called'[Call(v, q)] = 0
        <5> SUFFICES ASSUME NEW q \in Sending', NEW v \in People, Foremost(v, runs[q])
                     PROVE  Call(v, q) \in logs /\ called'[Call(v, q)] = 0
          BY <3>5
        <5>1. Call(v, q) \in logs /\ called[Call(v, q)] = 0
          BY <3>5 DEF PushInv, LoggedFirst
        <5>2. Call(v, q) \in DOMAIN called
          BY <5>1 DEF ArrivalsTypeOK
        <5> QED BY <3>6, <4>2, <5>1, <5>2
      <4>4. \A p, q \in Sending' : \A v \in People :
              Foremost(v, runs'[p]) /\ Foremost(v, runs'[q]) /\ visit.runs[p] = visit.runs[q] => p = q
        BY <3>5 DEF PushInv, LoggedFirst
      <4> QED BY <3>1, <3>6, <4>1, <4>3, <4>4 DEF LoggedFirst, Call
    <3>8. FewLost'
      <4>1. logs' \ Sent' = (logs \ Sent) \ {Call(u, r)} /\ Call(u, r) \in logs \ Sent
        BY <3>1, <3>3, <3>6 DEF Sent
      <4>2. Cardinality(logs' \ Sent') = Cardinality(logs \ Sent) - 1
        <5>1. IsFiniteSet(logs \ Sent)
          BY <2>4
        <5>2. Cardinality((logs \ Sent) \ {Call(u, r)}) = Cardinality(logs \ Sent) - 1
          BY <4>1, <5>1, FS_RemoveElement
        <5> QED BY <4>1, <5>2
      <4> QED BY <2>4, <3>1, <3>5, <4>2 DEF FewLost
    <3> QED BY <3>4, <3>7, <3>8 DEF PushInv
  <2>8. ASSUME NEW r \in DOMAIN runs, RefusePush(r) \/ RunDies(r) PROVE PushInv'
    <3>1. UNCHANGED <<logs, called, due, visit, rows>> /\ faults' = faults + 1
      BY <2>8 DEF RefusePush, RunDies, handling
    <3>2. /\ Sending' \subseteq Sending /\ Cardinality(Sending) <= Cardinality(Sending') + 1
          /\ Cardinality(Sending') \in Nat
          /\ \A q \in Sending' : runs'[q] = runs[q]
      <4>1. CASE runs[r].at = "SEND"
        <5>1. /\ Sending' = Sending \ {r} /\ Cardinality(Sending') = Cardinality(Sending) - 1
              /\ r \in Sending /\ \A q \in Sending' : runs'[q] = runs[q]
          BY <2>8, <4>1, CallEnds DEF RefusePush, RunDies
        <5>2. Cardinality(Sending') \in Nat
          BY <2>4, <5>1, FS_RemoveElement, FS_CardinalityType
        <5> QED BY <2>4, <5>1, <5>2
      <4>2. CASE runs[r].at # "SEND"
        <5>1. Sending' = Sending /\ \A q \in Sending' : runs'[q] = runs[q]
          <6>1. /\ runs'[r].at = "LOST" /\ DOMAIN runs' = DOMAIN runs
                /\ \A q \in DOMAIN runs \ {r} : runs'[q] = runs[q]
            BY <2>8, <4>2 DEF RefusePush, RunDies, ArrivalsTypeOK
          <6> QED BY <4>2, <6>1 DEF Sending
        <5> QED BY <2>4, <5>1
      <4> QED BY <4>1, <4>2
    <3>3. LoggedFirst'
      BY <3>1, <3>2 DEF PushInv, LoggedFirst, Call
    <3>4. FewLost'
      BY <2>4, <3>1, <3>2 DEF FewLost, Sent
    <3>5. StillAhead'
      <4>1. ASSUME RefusePush(r) PROVE StillAhead'
        <5>1. PICK u \in People : Foremost(u, runs[r]) /\ runs' = [runs EXCEPT ![r] = Onwards(@, u)]
          BY <4>1 DEF RefusePush
        <5>2. Call(u, r) \in logs /\ runs[r].at = "SEND"
          BY <4>1, <5>1 DEF RefusePush, PushInv, LoggedFirst, Sending
        <5> QED BY <3>1, <5>1, <5>2, OnwardsAhead DEF PushInv
      <4>2. ASSUME RunDies(r) PROVE StillAhead'
        <5>1. runs'[r].at = "LOST" /\ DOMAIN runs' = DOMAIN runs
              /\ \A q \in DOMAIN runs \ {r} : runs'[q] = runs[q]
          BY <4>2 DEF RunDies, ArrivalsTypeOK
        <5>2. runs[r].at # "END" /\ \A v \in due[r] : ~rows[v].done /\ Call(v, r) \notin logs => rows[v].here
          BY <4>2 DEF RunDies, PushInv, StillAhead
        <5> QED BY <3>1, <5>1, <5>2 DEF PushInv, StillAhead, Call
      <4> QED BY <2>8, <4>1, <4>2
    <3> QED BY <3>3, <3>4, <3>5 DEF PushInv
  <2>9. CASE UNCHANGED guestVars
    BY <2>1, <2>9 DEF guestVars, pushing
  <2> QED
    BY <2>2, <2>3, <2>5, <2>6, <2>7, <2>8, <2>9 DEF ArrivalsNext
<1>3. ArrivalsTypeOK /\ PushInv => PushedOnce
  <2> SUFFICES ASSUME ArrivalsTypeOK, PushInv PROVE PushedOnce
    OBVIOUS
  <2>1. \A c \in DOMAIN called : called[c] <= 1
    BY DEF PushInv, LoggedFirst
  <2>2. \A r \in DOMAIN runs : runs[r].at = "END" =>
          \A u \in due[r] : rows[u].done \/ <<u, visit.runs[r]>> \in logs
    BY DEF PushInv, StillAhead, Call
  <2>3. Sent \subseteq logs /\ Cardinality(logs \ Sent) <= faults + Cardinality(Sending)
    BY DEF PushInv, LoggedFirst, FewLost, Sent
  <2> QED BY <2>1, <2>2, <2>3 DEF PushedOnce, Sent, Sending
<1> QED
  BY <1>1, <1>2, <1>3, TypeCorrect, PTL DEF ArrivalsSpec

\* All that newcomers and the jobs that call users are promised, as the run of
\* the scene arrivals checks it.
THEOREM ArrivalsSoundThm == ArrivalsSpec => []ArrivalsSound
<1>1. ArrivalsTypeOK /\ BonusOnce /\ ToldOnce /\ PushedOnce => ArrivalsSound
  BY DEF ArrivalsSound
<1>2. QED
  BY <1>1, TypeCorrect, BonusOnceThm, ToldOnceThm, PushedOnceThm, PTL
-----------------------------------------------------------------------------
(* The figures of a day: the invariant. *)

HIDE LimitsAssumption
HIDE PeopleAssumption

\* A run under way, and the days that it may have counted too early.
Running(j) == counts[j].at \notin {"WAITS", "OFF"}

\* What a count of the day d finds in the rows as they are.
Exact(r, table, d) ==
  /\ r.dau = Active(d) /\ r.sold = Sold(table, d) /\ r.begun = Begun(d)
  /\ r.completed = Completed(table, d) /\ r.events = CountEvents(table, happened, d)

SeenInv == \A u \in Regulars : seen[u] <= stamp /\ u \in visited[Day(seen[u])]

\* What was deleted is so old that no run under way counts its day.
EventsInv ==
  /\ \A i \in DOMAIN happened : happened[i].at <= happened[i].made
  /\ \A i \in DOMAIN kept : kept[i] = happened[i]
  /\ \A i \in DOMAIN happened \ DOMAIN kept : happened[i].made < Cutoff

RunInv(c) ==
  /\ c.since <= stamp /\ stamp <= c.since + RunTicks
  /\ c.left = <<>> <=> c.at = "COMMIT"
  /\ \A i \in DOMAIN c.left : c.left[i] \in Dates /\ Day(c.since) < c.left[i] + DaysBack
  /\ \A k \in DOMAIN c.wrote : k \in {c.table} \X Dates

\* The row of the day d, as far as it is counted.
HeadInv(c, d) ==
  /\ c.at \in {"SALES", "GAMES", "EVENTS", "STORE"} =>
       "dau" \in DOMAIN c.row /\ c.row.dau <= Cardinality(visited[d]) /\ (d \notin c.behind => c.row.dau = Active(d))
  /\ c.at \in {"GAMES", "EVENTS", "STORE"} => "sold" \in DOMAIN c.row /\ (d \notin c.behind => c.row.sold = Sold(c.table, d))
  /\ c.at \in {"EVENTS", "STORE"} => "begun" \in DOMAIN c.row /\ (d \notin c.behind => c.row.begun = Begun(d))
  /\ c.at = "STORE" => c.row \in DayRows /\ (d \notin c.behind => Exact(c.row, c.table, d))

\* The rows it wrote and has not committed.
WroteInv(c) ==
  \A k \in DOMAIN c.wrote :
    /\ c.wrote[k].dau <= Cardinality(visited[k[2]])
    /\ k[2] \notin c.behind => Exact(c.wrote[k], k[1], k[2])

CountsInv ==
  \A j \in DOMAIN counts : Running(j) =>
    /\ RunInv(counts[j]) /\ WroteInv(counts[j])
    /\ counts[j].at # "COMMIT" => HeadInv(counts[j], Head(counts[j].left))

RowsInv ==
  \A k \in DOMAIN figures :
    /\ figures[k].row.dau <= Cardinality(visited[k[2]])
    /\ ~figures[k].behind => Exact(figures[k].row, k[1], k[2])

FigInv == FiguresTypeOK /\ SeenInv /\ EventsInv /\ CountsInv /\ RowsInv

-----------------------------------------------------------------------------
(* Days, rows and runs. *)

LEMMA DayBounds ==
  ASSUME NEW t \in Nat
  PROVE  Day(t) \in Nat /\ 2 * Day(t) <= t /\ t <= 2 * Day(t) + 1
BY DEF Day

LEMMA DayOrder ==
  ASSUME NEW s \in Nat, NEW t \in Nat, s <= t
  PROVE  Day(s) <= Day(t)
BY DayBounds

LEMMA DiaryParts ==
  ASSUME FiguresTypeOK
  PROVE  /\ diary \in [end : Nat, visits : Nat, games : Nat, sales : Nat, events : Nat,
                       late : BOOLEAN, dies : BOOLEAN, jobs : Seq(Tables)]
         /\ Dates \subseteq Nat /\ stamp \in Nat
<1>1. PICK d \in Diaries : diary = [d EXCEPT !.visits = diary.visits] /\ diary.visits \in 0..d.visits
  BY DEF FiguresTypeOK
<1>2. d \in [end : Nat, visits : Nat, games : Nat, sales : Nat, events : Nat,
             late : BOOLEAN, dies : BOOLEAN, jobs : Seq(Tables)]
  BY DiariesPossible
<1>3. diary \in [end : Nat, visits : Nat, games : Nat, sales : Nat, events : Nat,
                 late : BOOLEAN, dies : BOOLEAN, jobs : Seq(Tables)]
  BY <1>1, <1>2
<1>4. QED
  BY <1>3, DayBounds DEF Dates, FiguresTypeOK

\* The days a handler's clock may show are days of the diary.
LEMMA OfTheDiary ==
  ASSUME FiguresTypeOK, NEW t \in Nat, t <= stamp
  PROVE  Day(t) \in Dates
<1>1. diary.end \in Nat /\ t <= diary.end
  <2>1. diary.end \in Nat
    BY DiaryParts
  <2>2. stamp \in 0..diary.end
    BY DEF FiguresTypeOK
  <2>3. QED
    BY <2>1, <2>2
<1>2. Day(t) \in Nat /\ Day(diary.end) \in Nat /\ Day(t) <= Day(diary.end)
  BY <1>1, DayBounds, DayOrder
<1>3. QED
  BY <1>2 DEF Dates

LEMMA ClocksRead ==
  ASSUME FiguresTypeOK, NEW t \in Clocks
  PROVE  t \in Nat /\ t <= stamp
<1>1. stamp \in Nat
  BY DiaryParts
<1>2. t = stamp \/ (t = stamp - 1 /\ t >= 0)
  BY DEF Clocks
<1>3. QED
  BY <1>1, <1>2

\* Only a run under way has a list of the days it is behind.
LEMMA JobKinds ==
  ASSUME FiguresTypeOK, NEW j \in DOMAIN counts
  PROVE  /\ Running(j) => counts[j] \in Runs(DOMAIN counts[j].wrote)
         /\ "behind" \in DOMAIN counts[j] <=> Running(j)
         /\ ~Running(j) => counts[j] = [at |-> "WAITS"] \/ counts[j] = Off
<1>1. CASE counts[j] = [at |-> "WAITS"] \/ counts[j] = Off
  BY <1>1 DEF Running, Off
<1>2. CASE counts[j] \in Runs(DOMAIN counts[j].wrote)
  BY <1>2 DEF Running, Runs
<1>3. QED
  BY <1>1, <1>2 DEF FiguresTypeOK

LEMMA CountsNat ==
  ASSUME FiguresTypeOK, NEW table \in Tables, NEW d \in Dates
  PROVE  /\ Active(d) \in Nat /\ Sold(table, d) \in Nat /\ Begun(d) \in Nat
         /\ Completed(table, d) \in Nat /\ CountEvents(table, happened, d) \in Nat
         /\ IsFiniteSet(visited[d]) /\ Cardinality(visited[d]) \in Nat
<1>0. \A S, s : s \in Seq(S) => \A i \in DOMAIN s : s[i] \in S
  BY ElementOfSeq, LenProperties
<1>1. /\ IsFiniteSet(Regulars) /\ IsFiniteSet(DOMAIN games) /\ IsFiniteSet(DOMAIN sales)
      /\ IsFiniteSet(DOMAIN happened)
  <2>1. /\ DOMAIN games = 1..Len(games) /\ Len(games) \in Nat
        /\ DOMAIN sales = 1..Len(sales) /\ Len(sales) \in Nat
        /\ DOMAIN happened = 1..Len(happened) /\ Len(happened) \in Nat
    BY DEF FiguresTypeOK
  <2>2. QED
    BY <2>1, FS_Interval, FiguresLimits
<1>2. \A S, T : IsFiniteSet(S) /\ T \in SUBSET S => IsFiniteSet(T) /\ Cardinality(T) \in Nat
  BY FS_Subset, FS_CardinalityType
<1>3. Active(d) \in Nat
  BY <1>1, <1>2 DEF Active
<1>4. Sold(table, d) \in Nat
  <2>1. \A s \in DOMAIN sales : sales[s].user \in Regulars
    <3>1. sales \in Seq(SaleRows)
      BY DEF FiguresTypeOK
    <3>2. \A s \in DOMAIN sales : sales[s] \in SaleRows
      BY <1>0, <3>1, Zenon
    <3>3. QED
      BY <3>2 DEF SaleRows
  <2>2. {sales[s].user : s \in CreditedOn(d)} \in SUBSET Regulars
    BY <2>1 DEF CreditedOn
  <2>3. PaidOn(d) \in SUBSET DOMAIN sales
    BY DEF PaidOn
  <2>4. QED
    BY <1>1, <1>2, <2>2, <2>3 DEF Sold
<1>5. Begun(d) \in Nat
  BY <1>1, <1>2 DEF Begun
<1>6. Completed(table, d) \in Nat
  BY <1>1, <1>2 DEF Completed
<1>7. CountEvents(table, happened, d) \in Nat
  BY <1>1, <1>2 DEF CountEvents
<1>8. visited[d] \in SUBSET Regulars
  BY DEF FiguresTypeOK
<1>9. QED
  BY <1>1, <1>2, <1>3, <1>4, <1>5, <1>6, <1>7, <1>8

\* Whoever is counted for a day came on it.
LEMMA ActiveCame ==
  ASSUME FiguresTypeOK, SeenInv, NEW d \in Dates
  PROVE  Active(d) <= Cardinality(visited[d])
<1>1. {u \in Regulars : Day(seen[u]) = d} \in SUBSET visited[d]
  BY DEF SeenInv
<1>2. IsFiniteSet(visited[d])
  BY CountsNat DEF Tables
<1>3. QED
  BY <1>1, <1>2, FS_Subset DEF Active

-----------------------------------------------------------------------------
(* What the steps do to the counts. *)

\* The rows that are counted, and those that count.
DataTyped ==
  /\ \E d \in Diaries : diary = [d EXCEPT !.visits = diary.visits] /\ diary.visits \in 0..d.visits
  /\ stamp \in 0..diary.end
  /\ seen \in [Regulars -> 0..diary.end]
  /\ games \in Seq(GameRows) /\ sales \in Seq(SaleRows)
  /\ \A g \in DOMAIN games : games[g].from <= stamp /\ (games[g].to = Unseen \/ games[g].to \in games[g].from..stamp)
  /\ happened \in Seq(EventRows)
  /\ DOMAIN kept \subseteq DOMAIN happened
  /\ visited \in [Dates -> SUBSET Regulars]

JobsTyped ==
  /\ DOMAIN figures \subseteq Tables \X Dates
  /\ \A k \in DOMAIN figures : figures[k] \in [row : DayRows, behind : BOOLEAN]
  /\ DOMAIN counts = DOMAIN diary.jobs
  /\ \A j \in DOMAIN counts : counts[j] = [at |-> "WAITS"] \/ counts[j] = Off
                              \/ counts[j] \in Runs(DOMAIN counts[j].wrote)

LEMMA TypeParts == FiguresTypeOK <=> DataTyped /\ JobsTyped
BY DEF FiguresTypeOK, DataTyped, JobsTyped

\* No count of the day d changes.
Same(d) ==
  /\ Active(d)' = Active(d) /\ Begun(d)' = Begun(d)
  /\ \A table \in Tables :
       /\ Sold(table, d)' = Sold(table, d) /\ Completed(table, d)' = Completed(table, d)
       /\ CountEvents(table, happened, d)' = CountEvents(table, happened, d)

\* A step of a user: it changes the counts of these days alone.
Moves(days) ==
  /\ days \subseteq Nat /\ Changes(days)
  /\ stamp' = stamp /\ Dates' = Dates /\ diary'.jobs = diary.jobs
  /\ \A d \in Dates : visited[d] \subseteq visited'[d]
  /\ \A d \in Dates \ days : Same(d)

LEMMA RowsMoved ==
  ASSUME FiguresTypeOK, NEW days \in SUBSET Nat, Changes(days), NEW k \in DOMAIN figures
  PROVE  /\ DOMAIN figures' = DOMAIN figures /\ figures'[k].row = figures[k].row
         /\ figures'[k].behind = (figures[k].behind \/ k[2] \in days)
         /\ figures'[k] \in [row : DayRows, behind : BOOLEAN]
<1>1. figures[k] \in [row : DayRows, behind : BOOLEAN]
  BY DEF FiguresTypeOK
<1>2. /\ DOMAIN figures' = DOMAIN figures
      /\ figures'[k] = [figures[k] EXCEPT !.behind = @ \/ k[2] \in days]
  BY DEF Changes
<1>3. QED
  BY <1>1, <1>2

LEMMA RunsMoved ==
  ASSUME FiguresTypeOK, NEW days \in SUBSET Nat, Changes(days), NEW j \in DOMAIN counts
  PROVE  /\ DOMAIN counts' = DOMAIN counts
         /\ ~Running(j) => counts'[j] = counts[j]
         /\ Running(j) =>
              /\ counts'[j] \in Runs(DOMAIN counts'[j].wrote)
              /\ \A f \in {"at", "table", "since", "left", "row", "wrote"} :
                   counts'[j][f] = counts[j][f]
              /\ counts'[j].behind = counts[j].behind \cup days
<1>1. /\ DOMAIN counts' = DOMAIN counts
      /\ ~Running(j) => counts'[j] = counts[j]
      /\ Running(j) => counts'[j] = [counts[j] EXCEPT !.behind = @ \cup days]
  BY JobKinds DEF Changes
<1>2. ASSUME Running(j)
      PROVE  /\ counts'[j] \in Runs(DOMAIN counts'[j].wrote)
             /\ \A f \in {"at", "table", "since", "left", "row", "wrote"} :
                  counts'[j][f] = counts[j][f]
             /\ counts'[j].behind = counts[j].behind \cup days
  <2>1. counts[j] \in Runs(DOMAIN counts[j].wrote)
    BY <1>2, JobKinds
  <2>2. counts'[j] = [counts[j] EXCEPT !.behind = @ \cup days]
    BY <1>1, <1>2
  <2>3. counts'[j].wrote = counts[j].wrote
    BY <2>1, <2>2 DEF Runs
  <2>4. counts'[j] \in Runs(DOMAIN counts[j].wrote)
    BY <2>1, <2>2 DEF Runs
  <2>5. QED
    BY <2>1, <2>2, <2>3, <2>4 DEF Runs
<1>3. QED
  BY <1>1, <1>2

LEMMA MovesTyped ==
  ASSUME FiguresTypeOK, NEW days, Moves(days)
  PROVE  JobsTyped'
<1>1. days \in SUBSET Nat
  BY DiaryParts DEF Moves
<1>2. Changes(days) /\ Dates' = Dates /\ diary'.jobs = diary.jobs
  BY DEF Moves
<1>3. /\ DOMAIN figures' \subseteq Tables \X Dates
      /\ \A k \in DOMAIN figures' : figures'[k] \in [row : DayRows, behind : BOOLEAN]
  <2>1. DOMAIN figures' = DOMAIN figures
    BY <1>2 DEF Changes
  <2>2. QED
    BY <1>1, <1>2, <2>1, RowsMoved DEF FiguresTypeOK
<1>4. ASSUME NEW j \in DOMAIN counts'
      PROVE  counts'[j] = [at |-> "WAITS"] \/ counts'[j] = Off \/ counts'[j] \in Runs(DOMAIN counts'[j].wrote)
  <2>1. j \in DOMAIN counts
    BY <1>2 DEF Changes
  <2>2. CASE Running(j)
    BY <1>1, <1>2, <2>1, <2>2, RunsMoved
  <2>3. CASE ~Running(j)
    BY <1>1, <1>2, <2>1, <2>3, RunsMoved, JobKinds
  <2>4. QED
    BY <2>2, <2>3
<1>5. DOMAIN counts' = DOMAIN counts
  BY <1>2 DEF Changes
<1>6. QED
  BY <1>2, <1>3, <1>4, <1>5 DEF JobsTyped, Off, Runs, FiguresTypeOK

LEMMA VisitorsGrow ==
  ASSUME FiguresTypeOK, FiguresTypeOK', Dates' = Dates,
         NEW d \in Dates, visited[d] \subseteq visited'[d]
  PROVE  /\ Cardinality(visited[d]) \in Nat /\ Cardinality(visited'[d]) \in Nat
         /\ Cardinality(visited[d]) <= Cardinality(visited'[d])
<1>1. visited'[d] \in SUBSET Regulars
  BY DEF FiguresTypeOK
<1>2. IsFiniteSet(visited'[d]) /\ visited[d] \in SUBSET visited'[d]
  BY <1>1, FS_Subset, FiguresLimits
<1>3. QED
  BY <1>2, FS_Subset, FS_CardinalityType

LEMMA MovesKeep ==
  ASSUME FigInv, FiguresTypeOK', NEW days, Moves(days)
  PROVE  CountsInv' /\ RowsInv'
<1>1. /\ FiguresTypeOK /\ days \in SUBSET Nat /\ Changes(days) /\ Dates' = Dates /\ stamp' = stamp
      /\ \A d \in Dates \ days : Same(d)
  BY DiaryParts DEF Moves, FigInv
<1>2. \A d \in Dates : /\ Cardinality(visited[d]) \in Nat /\ Cardinality(visited'[d]) \in Nat
                       /\ Cardinality(visited[d]) <= Cardinality(visited'[d])
  BY <1>1, VisitorsGrow DEF Moves
<1>3. ASSUME NEW k \in DOMAIN figures'
      PROVE  /\ figures'[k].row.dau <= Cardinality(visited'[k[2]])
             /\ ~figures'[k].behind => Exact(figures[k].row, k[1], k[2])'
  <2>1. k \in DOMAIN figures
    BY <1>1 DEF Changes
  <2>2. k[1] \in Tables /\ k[2] \in Dates /\ figures[k].row \in DayRows
    BY <1>1, <2>1 DEF FiguresTypeOK
  <2>3. figures'[k].row = figures[k].row /\ figures'[k].behind = (figures[k].behind \/ k[2] \in days)
    BY <1>1, <2>1, RowsMoved
  <2>4. /\ figures[k].row.dau <= Cardinality(visited[k[2]])
        /\ ~figures[k].behind => Exact(figures[k].row, k[1], k[2])
    BY <2>1 DEF FigInv, RowsInv
  <2>5. figures'[k].row.dau <= Cardinality(visited'[k[2]])
    BY <1>2, <2>2, <2>3, <2>4 DEF DayRows
  <2>6. ASSUME ~figures'[k].behind PROVE Exact(figures[k].row, k[1], k[2])'
    <3>1. Same(k[2]) /\ Exact(figures[k].row, k[1], k[2])
      BY <1>1, <2>2, <2>3, <2>4, <2>6
    <3>2. QED
      BY <2>2, <2>3, <3>1 DEF Same, Exact
  <2>7. QED
    BY <2>5, <2>6
<1>4. ASSUME NEW j \in DOMAIN counts', Running(j)'
      PROVE  /\ RunInv(counts[j])' /\ WroteInv(counts[j])'
             /\ counts'[j].at # "COMMIT" => HeadInv(counts[j], Head(counts[j].left))'
  <2>1. j \in DOMAIN counts
    BY <1>1 DEF Changes
  <2>2. Running(j)
    BY <1>1, <1>4, <2>1, RunsMoved DEF Running
  <2>3. /\ counts'[j] \in Runs(DOMAIN counts'[j].wrote)
        /\ counts'[j].at = counts[j].at /\ counts'[j].table = counts[j].table
        /\ counts'[j].since = counts[j].since
        /\ counts'[j].left = counts[j].left /\ counts'[j].row = counts[j].row
        /\ counts'[j].wrote = counts[j].wrote /\ counts'[j].behind = counts[j].behind \cup days
    BY <1>1, <2>1, <2>2, RunsMoved
  <2>4. counts[j] \in Runs(DOMAIN counts[j].wrote)
    BY <1>1, <2>1, <2>2, JobKinds
  <2>5. /\ RunInv(counts[j]) /\ WroteInv(counts[j])
        /\ counts[j].at # "COMMIT" => HeadInv(counts[j], Head(counts[j].left))
    BY <2>1, <2>2 DEF FigInv, CountsInv
  <2>6. RunInv(counts[j])'
    BY <1>1, <2>3, <2>5 DEF RunInv
  <2>7. ASSUME NEW k \in DOMAIN counts'[j].wrote
        PROVE  /\ counts'[j].wrote[k].dau <= Cardinality(visited'[k[2]])
               /\ k[2] \notin counts'[j].behind => Exact(counts[j].wrote[k], k[1], k[2])'
    <3>1. k \in DOMAIN counts[j].wrote /\ counts[j].wrote[k] \in DayRows /\ k[1] \in Tables /\ k[2] \in Dates
      BY <2>3, <2>4, <2>5, <2>7 DEF Runs, RunInv
    <3>2. counts'[j].wrote[k].dau <= Cardinality(visited'[k[2]])
      BY <1>2, <2>3, <2>5, <3>1 DEF WroteInv, DayRows
    <3>3. ASSUME k[2] \notin counts'[j].behind PROVE Exact(counts[j].wrote[k], k[1], k[2])'
      <4>1. Same(k[2]) /\ Exact(counts[j].wrote[k], k[1], k[2])
        BY <1>1, <2>3, <2>5, <3>1, <3>3 DEF WroteInv
      <4>2. QED
        BY <2>3, <3>1, <4>1 DEF Same, Exact
    <3>4. QED
      BY <3>2, <3>3
  <2>8. ASSUME counts'[j].at # "COMMIT" PROVE HeadInv(counts[j], Head(counts[j].left))'
    <3> DEFINE d == Head(counts[j].left)
    <3>1. d \in Dates /\ Head(counts'[j].left) = d
      <4>1. counts[j].left \in Seq(Nat) /\ counts[j].left # <<>>
        BY <2>3, <2>4, <2>5, <2>8 DEF Runs, RunInv
      <4>2. 1 \in DOMAIN counts[j].left /\ d = counts[j].left[1]
        BY <4>1
      <4>3. QED
        BY <2>3, <2>5, <4>2 DEF RunInv
    <3>2. HeadInv(counts[j], d)
      BY <2>3, <2>5, <2>8
    <3>3. counts[j].table \in Tables
      BY <2>4 DEF Runs
    <3>4. d \notin counts'[j].behind => Same(d) /\ d \notin counts[j].behind
      BY <1>1, <2>3, <3>1
    <3>5. "dau" \in DOMAIN counts[j].row => counts[j].row.dau \in Nat
      BY <2>4 DEF Runs, DayRows
    <3>6. PICK e \in Dates : e = d
      BY <3>1
    <3>7. HeadInv(counts[j], e)'
      BY <1>2, <2>3, <3>2, <3>3, <3>4, <3>5, <3>6 DEF HeadInv, Same, Exact
    <3>8. QED
      BY <3>1, <3>6, <3>7
  <2>9. QED
    BY <2>6, <2>7, <2>8 DEF WroteInv
<1>5. QED
  BY <1>3, <1>4 DEF CountsInv, RowsInv

-----------------------------------------------------------------------------
(* The steps of the runs. *)

\* No row that is counted changes.
Quiet == UNCHANGED <<stamp, seen, games, sales, kept, diary, happened, visited>>

LEMMA QuietSame ==
  ASSUME Quiet
  PROVE  /\ \A d \in Dates : Same(d)
         /\ Dates' = Dates /\ Cutoff' = Cutoff
         /\ (DataTyped => DataTyped') /\ (SeenInv => SeenInv') /\ (EventsInv => EventsInv')
<1>1. Dates' = Dates /\ Cutoff' = Cutoff
  BY DEF Quiet, Dates, Cutoff
<1>2. \A d \in Dates : Same(d)
  BY DEF Quiet, Same, Active, Begun, Sold, CreditedOn, PaidOn, Completed, CountEvents
<1>3. DataTyped => DataTyped'
  BY <1>1 DEF Quiet, DataTyped
<1>4. SeenInv => SeenInv'
  BY DEF Quiet, SeenInv
<1>5. EventsInv => EventsInv'
  BY <1>1 DEF Quiet, EventsInv
<1>6. QED
  BY <1>1, <1>2, <1>3, <1>4, <1>5

LEMMA RowsStay ==
  ASSUME FigInv, Quiet, NEW k \in DOMAIN figures, figures'[k] = figures[k]
  PROVE  /\ figures'[k].row.dau <= Cardinality(visited'[k[2]])
         /\ ~figures'[k].behind => Exact(figures[k].row, k[1], k[2])'
<1>1. k[1] \in Tables /\ k[2] \in Dates
  BY DEF FigInv, FiguresTypeOK
<1>2. Same(k[2]) /\ visited' = visited
  BY <1>1, QuietSame DEF Quiet
<1>3. QED
  BY <1>1, <1>2 DEF FigInv, RowsInv, Same, Exact

\* What holds of a run goes on to hold of it while nothing changes.
LEMMA RunStays ==
  ASSUME Quiet, FiguresTypeOK, NEW c, c \in Runs(DOMAIN c.wrote),
         RunInv(c), WroteInv(c), c.at # "COMMIT" => HeadInv(c, Head(c.left))
  PROVE  RunInv(c)' /\ WroteInv(c)' /\ (c.at # "COMMIT" => HeadInv(c, Head(c.left))')
<1>1. /\ Dates' = Dates /\ visited' = visited /\ stamp' = stamp
      /\ \A d \in Dates : Same(d)
  BY QuietSame DEF Quiet
<1>2. RunInv(c)'
  BY <1>1 DEF RunInv
<1>3. WroteInv(c)'
  <2>1. ASSUME NEW k \in DOMAIN c.wrote
        PROVE  /\ c.wrote[k].dau <= Cardinality(visited'[k[2]])
               /\ k[2] \notin c.behind => Exact(c.wrote[k], k[1], k[2])'
    <3>1. k[1] \in Tables /\ Same(k[2])
      BY <1>1, <2>1 DEF RunInv, Runs
    <3>2. QED
      BY <1>1, <2>1, <3>1 DEF WroteInv, Same, Exact
  <2>2. QED
    BY <2>1 DEF WroteInv
<1>4. ASSUME c.at # "COMMIT" PROVE HeadInv(c, Head(c.left))'
  <2>1. c.left \in Seq(Nat) /\ c.left # <<>> /\ c.table \in Tables
    BY <1>4 DEF Runs, RunInv
  <2>2. Head(c.left) \in Dates
    BY <2>1 DEF RunInv
  <2>3. Same(Head(c.left)) /\ HeadInv(c, Head(c.left))
    BY <1>1, <1>4, <2>2
  <2>4. QED
    BY <1>1, <2>1, <2>3 DEF HeadInv, Same, Exact
<1>5. QED
  BY <1>2, <1>3, <1>4

LEMMA JobKeeps ==
  ASSUME FigInv, Quiet, NEW j \in DOMAIN counts, NEW new, counts' = [counts EXCEPT ![j] = new],
         \/ new = Off
         \/ /\ new \in Runs(DOMAIN new.wrote) /\ RunInv(new) /\ WroteInv(new)
            /\ new.at # "COMMIT" => HeadInv(new, Head(new.left))
  PROVE  /\ CountsInv' /\ DataTyped' /\ SeenInv' /\ EventsInv'
         /\ figures' = figures => FigInv'
<1>1. /\ DataTyped' /\ SeenInv' /\ EventsInv' /\ Dates' = Dates /\ diary' = diary
      /\ \A d \in Dates : Same(d)
  BY QuietSame, TypeParts DEF FigInv, Quiet
<1>2. DOMAIN counts' = DOMAIN counts /\ counts'[j] = new /\ \A i \in DOMAIN counts : i # j => counts'[i] = counts[i]
  OBVIOUS
<1>3. ASSUME NEW i \in DOMAIN counts', Running(i)'
      PROVE  /\ RunInv(counts[i])' /\ WroteInv(counts[i])'
             /\ counts'[i].at # "COMMIT" => HeadInv(counts[i], Head(counts[i].left))'
  <2>1. /\ counts'[i] \in Runs(DOMAIN counts'[i].wrote)
        /\ RunInv(counts'[i]) /\ WroteInv(counts'[i])
        /\ counts'[i].at # "COMMIT" => HeadInv(counts'[i], Head(counts'[i].left))
    <3>1. CASE i = j
      BY <1>2, <1>3, <3>1 DEF Running, Off
    <3>2. CASE i # j
      <4>1. i \in DOMAIN counts /\ counts'[i] = counts[i] /\ Running(i)
        BY <1>2, <1>3, <3>2 DEF Running
      <4>2. counts[i] \in Runs(DOMAIN counts[i].wrote)
        BY <4>1, JobKinds DEF FigInv
      <4>3. /\ RunInv(counts[i]) /\ WroteInv(counts[i])
            /\ counts[i].at # "COMMIT" => HeadInv(counts[i], Head(counts[i].left))
        BY <4>1 DEF FigInv, CountsInv
      <4>4. QED
        BY <4>1, <4>2, <4>3
    <3>3. QED
      BY <3>1, <3>2
  <2>2. PICK c : c = counts'[i]
    OBVIOUS
  <2>3. RunInv(c)' /\ WroteInv(c)' /\ (c.at # "COMMIT" => HeadInv(c, Head(c.left))')
    BY <2>1, <2>2, RunStays DEF FigInv
  <2>4. QED
    BY <2>2, <2>3
<1>4. CountsInv'
  BY <1>3 DEF CountsInv
<1>5. ASSUME figures' = figures PROVE FigInv'
  <2>1. \A i \in DOMAIN counts' : \/ counts'[i] = [at |-> "WAITS"] \/ counts'[i] = Off
                                  \/ counts'[i] \in Runs(DOMAIN counts'[i].wrote)
    BY <1>2, JobKinds DEF FigInv, FiguresTypeOK
  <2>2. JobsTyped'
    BY <1>1, <1>2, <1>5, <2>1 DEF JobsTyped, FigInv, FiguresTypeOK, Runs, Off
  <2>3. RowsInv'
    BY <1>5, RowsStay DEF RowsInv
  <2>4. QED
    BY <1>1, <1>4, <2>2, <2>3 DEF FigInv, FiguresTypeOK, DataTyped, JobsTyped
<1>6. QED
  BY <1>1, <1>4, <1>5

LEMMA Today ==
  ASSUME FigInv
  PROVE  /\ stamp \in Nat /\ Day(stamp) \in Nat /\ Dates \subseteq Nat
         /\ \A i \in 0..Day(stamp) : i \in Dates
         /\ \A j \in DOMAIN counts : diary.jobs[j] \in Tables
<1>1. FiguresTypeOK
  BY DEF FigInv
<1>2. stamp \in Nat /\ Dates \subseteq Nat
  BY <1>1, DiaryParts
<1>3. Day(stamp) \in Nat /\ Day(stamp) \in Dates
  BY <1>1, <1>2, DayBounds, OfTheDiary
<1>4. \A i \in 0..Day(stamp) : i \in Dates
  <2>1. diary.end \in Nat /\ Day(diary.end) \in Nat
    BY <1>1, DiaryParts, DayBounds
  <2>2. QED
    BY <1>3, <2>1 DEF Dates
<1>5. \A j \in DOMAIN counts : diary.jobs[j] \in Tables
  <2>1. diary.jobs \in Seq(Tables) /\ DOMAIN counts = DOMAIN diary.jobs
    BY <1>1, DiaryParts DEF FiguresTypeOK
  <2>2. QED
    BY <2>1, ElementOfSeq, LenProperties
<1>6. QED
  BY <1>2, <1>3, <1>4, <1>5

LEMMA BeginHolds ==
  ASSUME FigInv, NEW j \in DOMAIN counts, NEW days \in Seq(Nat), days # <<>>,
         \A i \in DOMAIN days : days[i] \in Dates /\ Day(stamp) < days[i] + DaysBack,
         Begin(j, days)
  PROVE  FigInv'
<1>1. PICK new : new = [at |-> "ACTIVE", table |-> diary.jobs[j], since |-> stamp,
                        left |-> days, row |-> <<>>, wrote |-> <<>>, behind |-> {}]
  OBVIOUS
<1>2. counts' = [counts EXCEPT ![j] = new] /\ Quiet /\ figures' = figures
  BY <1>1 DEF Begin, Quiet
<1>3. stamp \in Nat /\ Day(stamp) \in Nat
  BY Today
<1>4. diary.jobs[j] \in Tables
  BY Today
<1>5. new.wrote \in [DOMAIN new.wrote -> DayRows] /\ DOMAIN new.wrote = {}
  BY <1>1
<1>6. new \in Runs(DOMAIN new.wrote)
  BY <1>1, <1>3, <1>4, <1>5 DEF Runs
<1>7. RunInv(new) /\ WroteInv(new)
  BY <1>1, <1>3, <1>5, FiguresLimits DEF RunInv, WroteInv
<1>8. HeadInv(new, Head(new.left))
  BY <1>1 DEF HeadInv
<1>9. QED
  BY <1>2, <1>6, <1>7, <1>8, JobKeeps

\* A count begins with today and goes back as many days as there are.
LEMMA BeginJobHolds ==
  ASSUME FigInv, NEW j \in DOMAIN counts, BeginJob(j)
  PROVE  FigInv'
<1> DEFINE today == Day(stamp)
           many == IF DaysBack < today + 1 THEN DaysBack ELSE today + 1
           days == [i \in 1..many |-> today + 1 - i]
<1>1. today \in Nat
  BY Today
<1>2. many \in Nat /\ 1 <= many /\ many <= today + 1 /\ many <= DaysBack
  BY <1>1, FiguresLimits
<1>3. \A i \in 1..many : /\ today + 1 - i \in 0..today /\ today < (today + 1 - i) + DaysBack
  BY <1>1, <1>2, FiguresLimits
<1>4. \A i \in 0..today : i \in Dates
  BY Today
<1>5. days \in Seq(Nat) /\ days # <<>> /\ DOMAIN days = 1..many
  BY <1>2, <1>3
<1>6. \A i \in DOMAIN days : days[i] \in Dates /\ today < days[i] + DaysBack
  BY <1>3, <1>4, <1>5
<1>7. Begin(j, days)
  BY DEF BeginJob
<1> HIDE DEF days, many
<1>8. PICK list : list = days
  OBVIOUS
<1>9. QED
  BY <1>5, <1>6, <1>7, <1>8, BeginHolds

LEMMA AskDashboardHolds ==
  ASSUME FigInv, NEW j \in DOMAIN counts, AskDashboard(j)
  PROVE  FigInv'
<1>1. Day(stamp) \in Nat /\ Day(stamp) \in Dates
  BY Today
<1>2. PICK days : days = <<Day(stamp)>>
  OBVIOUS
<1>3. /\ days \in Seq(Nat) /\ days # <<>>
      /\ \A i \in DOMAIN days : days[i] \in Dates /\ Day(stamp) < days[i] + DaysBack
  BY <1>1, <1>2, FiguresLimits
<1>4. Begin(j, days)
  BY <1>2 DEF AskDashboard
<1>5. QED
  BY <1>3, <1>4, BeginHolds

\* A run that is at work has a first day to count.
LEMMA AtWork ==
  ASSUME FigInv, NEW j \in DOMAIN counts,
         counts[j].at \in {"ACTIVE", "SALES", "GAMES", "EVENTS", "STORE", "COMMIT"}
  PROVE  /\ Running(j) /\ counts[j] \in Runs(DOMAIN counts[j].wrote)
         /\ RunInv(counts[j]) /\ WroteInv(counts[j])
         /\ counts[j].at # "COMMIT" =>
              /\ HeadInv(counts[j], Head(counts[j].left))
              /\ counts[j].left # <<>> /\ Len(counts[j].left) \in Nat \ {0}
              /\ Head(counts[j].left) = counts[j].left[1] /\ 1 \in DOMAIN counts[j].left
              /\ Head(counts[j].left) \in Dates /\ Day(counts[j].since) < Head(counts[j].left) + DaysBack
<1>1. Running(j)
  BY DEF Running
<1>2. counts[j] \in Runs(DOMAIN counts[j].wrote)
  BY <1>1, JobKinds DEF FigInv
<1>3. /\ RunInv(counts[j]) /\ WroteInv(counts[j])
      /\ counts[j].at # "COMMIT" => HeadInv(counts[j], Head(counts[j].left))
  BY <1>1 DEF FigInv, CountsInv
<1>4. ASSUME counts[j].at # "COMMIT"
      PROVE  /\ counts[j].left # <<>> /\ Len(counts[j].left) \in Nat \ {0}
             /\ Head(counts[j].left) = counts[j].left[1] /\ 1 \in DOMAIN counts[j].left
             /\ Head(counts[j].left) \in Dates /\ Day(counts[j].since) < Head(counts[j].left) + DaysBack
  <2>1. counts[j].left \in Seq(Nat) /\ counts[j].left # <<>>
    BY <1>2, <1>3, <1>4 DEF Runs, RunInv
  <2>2. /\ Len(counts[j].left) \in Nat \ {0} /\ 1 \in DOMAIN counts[j].left
        /\ Head(counts[j].left) = counts[j].left[1]
    BY <2>1
  <2>3. QED
    BY <1>3, <2>1, <2>2 DEF RunInv
<1>5. QED
  BY <1>1, <1>2, <1>3, <1>4

\* The columns of a row as far as they may be counted, and a run with its next column.
Columns == [dau : Nat] \cup [dau : Nat, sold : Nat] \cup [dau : Nat, sold : Nat, begun : Nat] \cup DayRows
Counted(j, to, row) == [counts[j] EXCEPT !.at = to, !.row = row]

\* A statement of a run: the next column of the row of the first day.
LEMMA CountHolds ==
  ASSUME FigInv, NEW j \in DOMAIN counts, NEW from, NEW to, NEW row, Count(j, from, to, row),
         from \in {"ACTIVE", "SALES", "GAMES", "EVENTS"},
         to \in {"SALES", "GAMES", "EVENTS", "STORE"},
         row \in Columns, HeadInv(Counted(j, to, row), Head(counts[j].left))
  PROVE  FigInv'
<1>1. counts[j].at = from /\ Quiet /\ figures' = figures
  BY DEF Count, Quiet
<1>2. /\ counts[j] \in Runs(DOMAIN counts[j].wrote)
      /\ RunInv(counts[j]) /\ WroteInv(counts[j]) /\ counts[j].left # <<>>
  BY <1>1, AtWork
<1>3. PICK new : new = [counts[j] EXCEPT !.at = to, !.row = row] /\ new = Counted(j, to, row)
  BY DEF Counted
<1>4. counts' = [counts EXCEPT ![j] = new]
  BY <1>3 DEF Count
<1>5. /\ new.wrote = counts[j].wrote /\ new.left = counts[j].left /\ new.table = counts[j].table
      /\ new.since = counts[j].since /\ new.behind = counts[j].behind
      /\ new.at = to
  BY <1>2, <1>3 DEF Runs
<1>6. new \in Runs(DOMAIN new.wrote)
  BY <1>2, <1>3, <1>5 DEF Runs, Columns
<1>7. RunInv(new) /\ WroteInv(new)
  BY <1>2, <1>5 DEF RunInv, WroteInv
<1>8. HeadInv(new, Head(new.left))
  BY <1>3, <1>5
<1>9. QED
  BY <1>1, <1>4, <1>6, <1>7, <1>8, JobKeeps

\* The cleanup has not reached the events of a day that a run still counts.
LEMMA KeptEnough ==
  ASSUME FigInv, NEW c, RunInv(c), c.since \in Nat, NEW table \in Tables,
         NEW d \in Dates, Day(c.since) < d + DaysBack
  PROVE  CountEvents(table, kept, d) = CountEvents(table, happened, d)
<1>1. stamp \in Nat /\ d \in Nat
  BY Today
<1>2. ASSUME NEW i \in DOMAIN happened, Day(happened[i].at) = d PROVE i \in DOMAIN kept
  <2>1. happened[i] \in EventRows
    <3>1. happened \in Seq(EventRows)
      BY DEF FigInv, FiguresTypeOK
    <3>2. \A k \in DOMAIN happened : happened[k] \in EventRows
      BY <3>1, Elements
    <3>3. QED
      BY <3>2
  <2>2. happened[i].at <= happened[i].made
    BY DEF FigInv, EventsInv
  <2>3. 2 * d <= happened[i].at
    BY <1>2, <2>1, DayBounds DEF EventRows
  <2>4. c.since <= 2 * Day(c.since) + 1 /\ stamp <= c.since + RunTicks
    BY DayBounds DEF RunInv
  <2>5. ~(happened[i].made < Cutoff)
    <3>1. happened[i].at \in Nat /\ happened[i].made \in Nat
      BY <2>1 DEF EventRows
    <3>2. PICK day \in Nat : day = Day(c.since)
      BY DayBounds
    <3>3. QED
      BY <1>1, <2>2, <2>3, <2>4, <3>1, <3>2, FiguresLimits DEF Cutoff
  <2>6. QED
    BY <2>5 DEF FigInv, EventsInv
<1>3. \A i \in DOMAIN kept : i \in DOMAIN happened /\ kept[i] = happened[i]
  BY DEF FigInv, FiguresTypeOK, EventsInv
<1>4. {i \in DOMAIN kept : Day(kept[i].at) = d} = {i \in DOMAIN happened : Day(happened[i].at) = d}
  BY <1>2, <1>3
<1>5. QED
  BY <1>4 DEF CountEvents

LEMMA CountStepHolds ==
  ASSUME FigInv, NEW j \in DOMAIN counts, CountStep(j)
  PROVE  FigInv'
<1> DEFINE d == Head(counts[j].left)
           table == counts[j].table
<1>1. counts[j].at \in {"ACTIVE", "SALES", "GAMES", "EVENTS"}
  BY DEF CountStep, Count
<1>2. /\ counts[j] \in Runs(DOMAIN counts[j].wrote) /\ HeadInv(counts[j], d) /\ RunInv(counts[j])
      /\ d \in Dates /\ Day(counts[j].since) < d + DaysBack
  BY <1>1, AtWork
<1>3. table \in Tables /\ counts[j].since \in Nat
  BY <1>2 DEF Runs
<1>4. /\ Active(d) \in Nat /\ Sold(table, d) \in Nat /\ Begun(d) \in Nat /\ Completed(table, d) \in Nat
      /\ CountEvents(table, happened, d) \in Nat
      /\ Active(d) <= Cardinality(visited[d])
      /\ CountEvents(table, kept, d) = CountEvents(table, happened, d)
  BY <1>2, <1>3, CountsNat, ActiveCame, KeptEnough DEF FigInv
<1>5. ASSUME NEW row, NEW to
      PROVE  LET new == Counted(j, to, row)
             IN new.at = to /\ new.row = row /\ new.table = table /\ new.behind = counts[j].behind
  BY <1>2 DEF Runs, Counted
<1>6. \/ counts[j].row = <<>> \/ counts[j].row \in [dau : Nat] \/ counts[j].row \in [dau : Nat, sold : Nat]
      \/ counts[j].row \in [dau : Nat, sold : Nat, begun : Nat] \/ counts[j].row \in DayRows
  BY <1>2 DEF Runs
<1>0. d = Head(counts[j].left)
  OBVIOUS
<1> HIDE DEF d, table
<1>7. CASE Count(j, "ACTIVE", "SALES", [dau |-> Active(d)])
  <2>1. PICK row : row = [dau |-> Active(d)]
    OBVIOUS
  <2>2. HeadInv(Counted(j, "SALES", row), d)
    BY <1>4, <1>5, <2>1 DEF HeadInv
  <2>3. row \in Columns
    BY <1>4, <2>1 DEF Columns
  <2>4. Count(j, "ACTIVE", "SALES", row)
    BY <1>7, <2>1
  <2>5. QED
    BY <1>0, <2>2, <2>3, <2>4, CountHolds
<1>8. CASE Count(j, "SALES", "GAMES", [dau |-> counts[j].row.dau, sold |-> Sold(table, d)])
  <2>1. PICK row : row = [dau |-> counts[j].row.dau, sold |-> Sold(table, d)]
    OBVIOUS
  <2>2. counts[j].at = "SALES"
    BY <1>8 DEF Count
  <2>3. counts[j].row.dau \in Nat
    BY <1>2, <1>6, <2>2 DEF HeadInv, DayRows
  <2>4. HeadInv(Counted(j, "GAMES", row), d)
    BY <1>2, <1>4, <1>5, <2>1, <2>2 DEF HeadInv
  <2>5. row \in Columns
    BY <1>4, <2>1, <2>3 DEF Columns
  <2>6. Count(j, "SALES", "GAMES", row)
    BY <1>8, <2>1
  <2>7. QED
    BY <1>0, <2>4, <2>5, <2>6, CountHolds
<1>9. CASE Count(j, "GAMES", "EVENTS",
                 [dau |-> counts[j].row.dau, sold |-> counts[j].row.sold, begun |-> Begun(d)])
  <2>1. PICK row : row = [dau |-> counts[j].row.dau, sold |-> counts[j].row.sold, begun |-> Begun(d)]
    OBVIOUS
  <2>2. counts[j].at = "GAMES"
    BY <1>9 DEF Count
  <2>3. counts[j].row.dau \in Nat /\ counts[j].row.sold \in Nat
    BY <1>2, <1>6, <2>2 DEF HeadInv, DayRows
  <2>4. HeadInv(Counted(j, "EVENTS", row), d)
    <3>1. /\ counts[j].row.dau <= Cardinality(visited[d])
          /\ d \notin counts[j].behind => counts[j].row.dau = Active(d) /\ counts[j].row.sold = Sold(table, d)
      BY <1>2, <2>2 DEF HeadInv, table
    <3>2. PICK n : /\ n = Counted(j, "EVENTS", row) /\ n.at = "EVENTS" /\ n.row = row
                   /\ n.table = table /\ n.behind = counts[j].behind
      BY <1>5
    <3>3. HeadInv(n, d)
      BY <2>1, <3>1, <3>2 DEF HeadInv
    <3>4. QED
      BY <3>2, <3>3
  <2>5. row \in Columns
    BY <1>4, <2>1, <2>3 DEF Columns
  <2>6. Count(j, "GAMES", "EVENTS", row)
    BY <1>9, <2>1
  <2>7. QED
    BY <1>0, <2>4, <2>5, <2>6, CountHolds
<1>10. CASE Count(j, "EVENTS", "STORE",
                  [dau |-> counts[j].row.dau, sold |-> counts[j].row.sold, begun |-> counts[j].row.begun,
                   completed |-> Completed(table, d), events |-> CountEvents(table, kept, d)])
  <2>1. PICK row : row = [dau |-> counts[j].row.dau, sold |-> counts[j].row.sold, begun |-> counts[j].row.begun,
                          completed |-> Completed(table, d), events |-> CountEvents(table, kept, d)]
    OBVIOUS
  <2>2. counts[j].at = "EVENTS"
    BY <1>10 DEF Count
  <2>3. counts[j].row.dau \in Nat /\ counts[j].row.sold \in Nat /\ counts[j].row.begun \in Nat
    BY <1>2, <1>6, <2>2 DEF HeadInv, DayRows
  <2>4. row \in DayRows
    BY <1>4, <2>1, <2>3 DEF DayRows
  <2>5. HeadInv(Counted(j, "STORE", row), d)
    <3>1. /\ counts[j].row.dau <= Cardinality(visited[d])
          /\ d \notin counts[j].behind =>
               /\ counts[j].row.dau = Active(d) /\ counts[j].row.sold = Sold(table, d)
               /\ counts[j].row.begun = Begun(d)
      BY <1>2, <2>2 DEF HeadInv, table
    <3>2. PICK n : /\ n = Counted(j, "STORE", row) /\ n.at = "STORE" /\ n.row = row
                   /\ n.table = table /\ n.behind = counts[j].behind
      BY <1>5
    <3>3. d \notin n.behind => Exact(row, table, d)
      BY <1>4, <2>1, <3>1, <3>2 DEF Exact
    <3>4. d \notin n.behind => row.dau = Active(d) /\ row.sold = Sold(table, d) /\ row.begun = Begun(d)
      BY <2>1, <3>1, <3>2
    <3>5. HeadInv(n, d)
      BY <2>1, <2>4, <3>1, <3>2, <3>3, <3>4 DEF HeadInv
    <3>6. QED
      BY <3>2, <3>5
  <2>6. row \in Columns
    BY <2>4 DEF Columns
  <2>7. Count(j, "EVENTS", "STORE", row)
    BY <1>10, <2>1
  <2>8. QED
    BY <1>0, <2>5, <2>6, <2>7, CountHolds
<1>11. QED
  BY <1>7, <1>8, <1>9, <1>10 DEF CountStep, d, table

LEMMA UpsertHolds ==
  ASSUME FigInv, NEW j \in DOMAIN counts, UpsertDaily(j)
  PROVE  FigInv'
<1> DEFINE c == counts[j]
           d == Head(c.left)
           key == <<c.table, d>>
           stored == [k \in DOMAIN c.wrote \cup {key} |-> IF k = key THEN c.row ELSE c.wrote[k]]
           new == [c EXCEPT !.wrote = stored, !.left = Tail(c.left), !.row = <<>>,
                            !.at = IF Len(c.left) = 1 THEN "COMMIT" ELSE "ACTIVE"]
<1>1. Quiet /\ figures' = figures /\ c.at = "STORE"
  BY DEF UpsertDaily, Quiet
<1>2. /\ c \in Runs(DOMAIN c.wrote) /\ HeadInv(c, d) /\ RunInv(c) /\ WroteInv(c)
      /\ d \in Dates /\ Len(c.left) \in Nat \ {0}
  BY <1>1, AtWork
<1>3. CASE counts' = [counts EXCEPT ![j] = Off]
  BY <1>1, <1>3, JobKeeps
<1>4. CASE counts' = [counts EXCEPT ![j] = new]
  <2>1. c.row \in DayRows /\ c.row.dau <= Cardinality(visited[d]) /\ (d \notin c.behind => Exact(c.row, c.table, d))
    BY <1>1, <1>2 DEF HeadInv
  <2>2. c.wrote \in [DOMAIN c.wrote -> DayRows] /\ c.left \in Seq(Nat) /\ c.table \in Tables
    BY <1>2 DEF Runs
  <2>3. stored \in [DOMAIN stored -> DayRows] /\ DOMAIN stored = DOMAIN c.wrote \cup {key}
    BY <2>1, <2>2
  <2>4. /\ Tail(c.left) \in Seq(Nat)
        /\ Tail(c.left) = <<>> <=> Len(c.left) = 1
        /\ \A i \in DOMAIN Tail(c.left) : i + 1 \in DOMAIN c.left /\ Tail(c.left)[i] = c.left[i + 1]
    <3>1. c.left \in Seq(Nat) /\ c.left # <<>>
      BY <1>2, <2>2
    <3>2. PICK s \in Seq(Nat) : s = c.left
      BY <3>1
    <3>3. /\ Tail(s) \in Seq(Nat) /\ Len(Tail(s)) = Len(s) - 1 /\ Len(s) \in Nat \ {0}
          /\ \A i \in 1..Len(Tail(s)) : Tail(s)[i] = s[i + 1]
          /\ DOMAIN Tail(s) = 1..Len(Tail(s)) /\ DOMAIN s = 1..Len(s)
      BY <3>1, <3>2
    <3>4. Tail(s) = <<>> <=> Len(s) = 1
      <4>1. Len(<<>>) = 0 /\ \A q \in Seq(Nat) : q # <<>> => Len(q) \in Nat \ {0}
        BY EmptySeq, Zenon
      <4>2. Tail(s) = <<>> => Len(Tail(s)) = 0
        BY <4>1, Zenon
      <4>3. Len(Tail(s)) = 0 => Tail(s) = <<>>
        <5>1. Tail(s) # <<>> => Len(Tail(s)) \in Nat \ {0}
          BY <3>3, <4>1, Zenon
        <5>2. QED
          BY <5>1
      <4>4. Len(Tail(s)) = 0 <=> Len(s) = 1
        BY <3>3
      <4>5. QED
        BY <4>2, <4>3, <4>4, Zenon
    <3>5. \A i \in DOMAIN Tail(s) : i + 1 \in DOMAIN s /\ Tail(s)[i] = s[i + 1]
      BY <3>3
    <3>6. QED
      BY <3>2, <3>3, <3>4, <3>5
  <2>5. PICK n : n = new
    <3> HIDE DEF new
    <3>1. QED
      OBVIOUS
  <2>6. /\ n.at = (IF Len(c.left) = 1 THEN "COMMIT" ELSE "ACTIVE") /\ n.table = c.table /\ n.since = c.since
        /\ n.left = Tail(c.left) /\ n.behind = c.behind /\ n.wrote = stored /\ n.row = <<>>
    BY <1>2, <2>5 DEF Runs
  <2> HIDE DEF stored
  <2>7. n \in Runs(DOMAIN n.wrote)
    <3>1. n \in Runs(DOMAIN stored)
      BY <1>2, <2>3, <2>4, <2>5 DEF Runs
    <3>2. QED
      BY <2>6, <3>1
  <2>8. RunInv(n)
    BY <1>2, <2>3, <2>4, <2>6 DEF RunInv
  <2>9. WroteInv(n)
    <3>1. ASSUME NEW k \in DOMAIN n.wrote
          PROVE  /\ n.wrote[k].dau <= Cardinality(visited[k[2]])
                 /\ k[2] \notin n.behind => Exact(n.wrote[k], k[1], k[2])
      <4>1. CASE k = key
        BY <2>1, <2>6, <4>1 DEF stored
      <4>2. CASE k # key
        BY <1>2, <2>3, <2>6, <3>1, <4>2 DEF stored, WroteInv
      <4>3. QED
        BY <4>1, <4>2
    <3>2. QED
      BY <3>1 DEF WroteInv
  <2>10. n.at # "COMMIT" => HeadInv(n, Head(n.left))
    BY <2>6 DEF HeadInv
  <2>11. QED
    BY <1>1, <1>4, <2>5, <2>7, <2>8, <2>9, <2>10, JobKeeps
<1>5. QED
  BY <1>3, <1>4 DEF UpsertDaily

\* The rows it wrote become the rows of their days.
LEMMA CommitHolds ==
  ASSUME FigInv, NEW j \in DOMAIN counts, CommitCount(j)
  PROVE  FigInv'
<1> DEFINE c == counts[j]
<1>1. /\ Quiet /\ c.at = "COMMIT" /\ counts' = [counts EXCEPT ![j] = Off]
      /\ DOMAIN figures' = DOMAIN figures \cup DOMAIN c.wrote
      /\ \A k \in DOMAIN figures' :
           figures'[k] = IF k \in DOMAIN c.wrote
                         THEN [row |-> c.wrote[k], behind |-> k[2] \in c.behind]
                         ELSE figures[k]
  BY DEF CommitCount, Quiet
<1>2. c \in Runs(DOMAIN c.wrote) /\ RunInv(c) /\ WroteInv(c)
  BY <1>1, AtWork
<1>3. /\ CountsInv' /\ DataTyped' /\ SeenInv' /\ EventsInv'
  BY <1>1, JobKeeps
<1>4. Dates' = Dates /\ visited' = visited /\ diary' = diary /\ \A d \in Dates : Same(d)
  BY <1>1, QuietSame DEF Quiet
<1>5. \A k \in DOMAIN c.wrote : /\ k \in Tables \X Dates /\ c.wrote[k] \in DayRows
  <2>1. c.table \in Tables /\ c.wrote \in [DOMAIN c.wrote -> DayRows]
    BY <1>2 DEF Runs
  <2>2. \A k \in DOMAIN c.wrote : k \in {c.table} \X Dates
    BY <1>2 DEF RunInv
  <2>3. QED
    BY <2>1, <2>2
<1>6. JobsTyped'
  <2>1. DOMAIN figures' \subseteq Tables \X Dates'
    BY <1>1, <1>4, <1>5 DEF FigInv, FiguresTypeOK
  <2>2. \A k \in DOMAIN figures' : figures'[k] \in [row : DayRows, behind : BOOLEAN]
    <3>1. \A k \in DOMAIN figures : figures[k] \in [row : DayRows, behind : BOOLEAN]
      BY DEF FigInv, FiguresTypeOK
    <3>2. \A k : (k[2] \in c.behind) \in BOOLEAN
      OBVIOUS
    <3>3. \A k \in DOMAIN c.wrote : [row |-> c.wrote[k], behind |-> k[2] \in c.behind]
                                   \in [row : DayRows, behind : BOOLEAN]
      BY <1>5, <3>2
    <3>4. QED
      BY <1>1, <3>1, <3>3
  <2>3. \A i \in DOMAIN counts' : \/ counts'[i] = [at |-> "WAITS"] \/ counts'[i] = Off
                                  \/ counts'[i] \in Runs(DOMAIN counts'[i].wrote)
    BY <1>1, JobKinds DEF FigInv, FiguresTypeOK
  <2>4. QED
    BY <1>1, <1>4, <2>1, <2>2, <2>3 DEF JobsTyped, FigInv, FiguresTypeOK, Runs, Off
<1>7. RowsInv'
  <2>1. ASSUME NEW k \in DOMAIN figures'
        PROVE  /\ figures'[k].row.dau <= Cardinality(visited'[k[2]])
               /\ ~figures'[k].behind => Exact(figures[k].row, k[1], k[2])'
    <3>1. CASE k \in DOMAIN c.wrote
      <4>1. figures'[k] = [row |-> c.wrote[k], behind |-> k[2] \in c.behind]
        BY <1>1, <2>1, <3>1
      <4>2. k[1] \in Tables /\ k[2] \in Dates
        BY <1>5, <3>1
      <4>3. /\ c.wrote[k].dau <= Cardinality(visited[k[2]])
            /\ k[2] \notin c.behind => Exact(c.wrote[k], k[1], k[2])
        BY <1>2, <3>1 DEF WroteInv
      <4>4. Same(k[2])
        BY <1>4, <4>2
      <4>5. figures'[k].row = c.wrote[k] /\ (~figures'[k].behind => k[2] \notin c.behind)
        <5>1. figures'[k].row = c.wrote[k]
          BY <4>1
        <5>2. ASSUME k[2] \in c.behind PROVE figures'[k].behind
          <6>1. (k[2] \in c.behind) = TRUE
            BY <5>2
          <6>2. figures'[k] = [row |-> c.wrote[k], behind |-> TRUE]
            BY <4>1, <6>1
          <6>3. QED
            BY <6>2
        <5>3. QED
          BY <5>1, <5>2
      <4>6. QED
        BY <1>4, <4>2, <4>3, <4>4, <4>5 DEF Same, Exact
    <3>2. CASE k \notin DOMAIN c.wrote
      BY <1>1, <2>1, <3>2, RowsStay
    <3>3. QED
      BY <3>1, <3>2
  <2>2. QED
    BY <2>1 DEF RowsInv
<1>8. QED
  BY <1>3, <1>6, <1>7 DEF FigInv, FiguresTypeOK, DataTyped, JobsTyped

LEMMA DiesHolds ==
  ASSUME FigInv, NEW j \in DOMAIN counts, CountDies(j)
  PROVE  FigInv'
<1>1. counts' = [counts EXCEPT ![j] = Off] /\ Quiet /\ figures' = figures
  BY DEF CountDies, Quiet
<1>2. QED
  BY <1>1, JobKeeps

-----------------------------------------------------------------------------
(* The cleanup and the clock. *)

\* Everything but the events and the time stays: what was found is still found.
LEMMA RunsAndRowsStay ==
  ASSUME FigInv, UNCHANGED <<seen, games, sales, counts, figures, diary, happened, visited>>,
         \A j \in DOMAIN counts : Running(j) => stamp <= stamp' /\ stamp' <= counts[j].since + RunTicks,
         stamp' \in Nat
  PROVE  CountsInv' /\ RowsInv' /\ JobsTyped'
<1>1. Dates' = Dates /\ \A d \in Dates : Same(d)
  BY DEF Dates, Same, Active, Begun, Sold, CreditedOn, PaidOn, Completed, CountEvents
<1>2. ASSUME NEW k \in DOMAIN figures'
      PROVE  /\ figures'[k].row.dau <= Cardinality(visited'[k[2]])
             /\ ~figures'[k].behind => Exact(figures[k].row, k[1], k[2])'
  <2>1. k[1] \in Tables /\ k[2] \in Dates /\ k \in DOMAIN figures
    BY DEF FigInv, FiguresTypeOK
  <2>2. Same(k[2])
    BY <1>1, <2>1
  <2>3. QED
    BY <2>1, <2>2 DEF FigInv, RowsInv, Same, Exact
<1>3. ASSUME NEW j \in DOMAIN counts', Running(j)'
      PROVE  /\ RunInv(counts[j])' /\ WroteInv(counts[j])'
             /\ counts'[j].at # "COMMIT" => HeadInv(counts[j], Head(counts[j].left))'
  <2>1. j \in DOMAIN counts /\ Running(j) /\ counts' = counts /\ visited' = visited
    BY <1>3 DEF Running
  <2>2. counts[j].at \in {"ACTIVE", "SALES", "GAMES", "EVENTS", "STORE", "COMMIT"}
    BY <2>1, JobKinds DEF FigInv, Runs
  <2>3. PICK c : c = counts[j]
    OBVIOUS
  <2>4. /\ c \in Runs(DOMAIN c.wrote) /\ RunInv(c) /\ WroteInv(c)
        /\ c.at # "COMMIT" => /\ HeadInv(c, Head(c.left)) /\ Head(c.left) \in Dates
    BY <2>1, <2>2, <2>3, AtWork
  <2>5. c.since \in Nat /\ stamp \in Nat /\ c.table \in Tables
    BY <2>4, Today DEF Runs
  <2>6. RunInv(c)'
    BY <1>1, <2>1, <2>3, <2>4, <2>5 DEF RunInv
  <2>7. WroteInv(c)'
    <3>1. ASSUME NEW k \in DOMAIN c.wrote
          PROVE  /\ c.wrote[k].dau <= Cardinality(visited'[k[2]])
                 /\ k[2] \notin c.behind => Exact(c.wrote[k], k[1], k[2])'
      <4>1. k[1] \in Tables /\ Same(k[2])
        BY <1>1, <2>4, <2>5, <3>1 DEF RunInv
      <4>2. QED
        BY <2>1, <2>4, <3>1, <4>1 DEF WroteInv, Same, Exact
    <3>2. QED
      BY <3>1 DEF WroteInv
  <2>8. ASSUME c.at # "COMMIT" PROVE HeadInv(c, Head(c.left))'
    <3>1. Same(Head(c.left)) /\ HeadInv(c, Head(c.left))
      BY <1>1, <2>4, <2>8
    <3>2. QED
      BY <2>1, <2>5, <3>1 DEF HeadInv, Same, Exact
  <2>9. QED
    BY <2>1, <2>3, <2>6, <2>7, <2>8
<1>4. JobsTyped'
  BY <1>1 DEF JobsTyped, FigInv, FiguresTypeOK, Runs, Off
<1>5. QED
  BY <1>2, <1>3, <1>4 DEF CountsInv, RowsInv

LEMMA DeleteHolds ==
  ASSUME FigInv, DeleteEvents
  PROVE  FigInv'
<1>1. PICK gone \in SUBSET {i \in DOMAIN kept : kept[i].made < Cutoff} :
        /\ kept' = [i \in DOMAIN kept \ gone |-> kept[i]]
        /\ UNCHANGED <<stamp, seen, games, sales, counts, figures, diary, happened, visited, refusals>>
  BY DEF DeleteEvents
<1>2. EventsInv'
  <2>1. Cutoff' = Cutoff
    BY <1>1 DEF Cutoff
  <2>2. \A i \in DOMAIN kept : i \in DOMAIN happened /\ kept[i] = happened[i]
    BY DEF FigInv, FiguresTypeOK, EventsInv
  <2>3. \A i \in DOMAIN happened : i \notin DOMAIN kept' => happened[i].made < Cutoff
    BY <1>1, <2>2 DEF FigInv, EventsInv
  <2>4. QED
    BY <1>1, <2>1, <2>2, <2>3 DEF FigInv, EventsInv
<1>3. DataTyped'
  BY <1>1 DEF DataTyped, FigInv, FiguresTypeOK, Dates
<1>4. SeenInv'
  BY <1>1 DEF SeenInv, FigInv
<1>5. CountsInv' /\ RowsInv' /\ JobsTyped'
  <2>1. \A j \in DOMAIN counts : Running(j) => stamp <= stamp' /\ stamp' <= counts[j].since + RunTicks
    BY <1>1, Today DEF FigInv, CountsInv, RunInv
  <2>2. QED
    BY <1>1, <2>1, Today, RunsAndRowsStay
<1>6. QED
  BY <1>2, <1>3, <1>4, <1>5 DEF FigInv, FiguresTypeOK, DataTyped, JobsTyped

LEMMA LaterHolds ==
  ASSUME FigInv, Later
  PROVE  FigInv'
<1>1. /\ stamp \in Nat /\ stamp < diary.end /\ stamp' = stamp + 1
      /\ UNCHANGED <<seen, games, sales, kept, counts, figures, diary, happened, visited, refusals>>
  BY Today DEF Later
<1>2. EventsInv'
  <2>1. \A n \in Nat : n < Cutoff => n < Cutoff'
    BY <1>1, FiguresLimits DEF Cutoff
  <2>2. \A i \in DOMAIN happened : happened[i].made \in Nat
    <3>1. happened \in Seq(EventRows)
      BY DEF FigInv, FiguresTypeOK
    <3>2. \A k \in DOMAIN happened : happened[k] \in EventRows
      BY <3>1, Elements
    <3>3. QED
      BY <3>2 DEF EventRows
  <2>3. QED
    BY <1>1, <2>1, <2>2 DEF FigInv, EventsInv
<1>3. diary.end \in Nat
  BY DiaryParts DEF FigInv
<1>4. DataTyped'
  <2>1. stamp' \in 0..diary'.end
    BY <1>1, <1>3
  <2>2. \A g \in DOMAIN games' : /\ games'[g].from <= stamp'
                                 /\ games'[g].to = Unseen \/ games'[g].to \in games'[g].from..stamp'
    <3>1. games \in Seq(GameRows)
      BY DEF FigInv, FiguresTypeOK
    <3>2. \A g \in DOMAIN games : games[g].from \in Nat
      <4>1. \A g \in DOMAIN games : games[g] \in GameRows
        BY <3>1, Elements
      <4>2. QED
        BY <4>1 DEF GameRows
    <3>3. \A g \in DOMAIN games : games[g].from <= stamp /\ (games[g].to = Unseen \/ games[g].to \in games[g].from..stamp)
      BY DEF FigInv, FiguresTypeOK
    <3>4. QED
      BY <1>1, <3>2, <3>3
  <2>3. QED
    BY <1>1, <2>1, <2>2 DEF DataTyped, FigInv, FiguresTypeOK, Dates
<1>5. SeenInv'
  <2>1. \A u \in Regulars : seen[u] \in Nat
    BY <1>3 DEF FigInv, FiguresTypeOK
  <2>2. QED
    BY <1>1, <2>1 DEF SeenInv, FigInv
<1>6. CountsInv' /\ RowsInv' /\ JobsTyped'
  <2>1. ASSUME NEW j \in DOMAIN counts, Running(j)
        PROVE  stamp <= stamp' /\ stamp' <= counts[j].since + RunTicks
    <3>1. counts[j].since \in Nat
      BY <2>1, JobKinds DEF FigInv, Runs
    <3>2. stamp - counts[j].since < RunTicks
      BY <2>1 DEF Later, Running
    <3>3. QED
      BY <1>1, <3>1, <3>2, FiguresLimits
  <2>2. QED
    BY <1>1, <2>1, RunsAndRowsStay
<1>7. QED
  BY <1>2, <1>4, <1>5, <1>6 DEF FigInv, FiguresTypeOK, DataTyped, JobsTyped

-----------------------------------------------------------------------------
(* The steps of the users. *)

LEMMA MoveHolds ==
  ASSUME FigInv, NEW days, Moves(days), DataTyped', SeenInv', EventsInv'
  PROVE  FigInv'
<1>1. JobsTyped'
  BY MovesTyped DEF FigInv
<1>2. FiguresTypeOK'
  BY <1>1 DEF FiguresTypeOK, DataTyped, JobsTyped
<1>3. QED
  BY <1>2, MovesKeep DEF FigInv

LEMMA Parts ==
  ASSUME FigInv
  PROVE  /\ seen \in [Regulars -> 0..diary.end] /\ diary.end \in Nat /\ stamp <= diary.end
         /\ games \in Seq(GameRows) /\ sales \in Seq(SaleRows)
         /\ happened \in Seq(EventRows)
         /\ \A g \in DOMAIN games : games[g] \in GameRows
         /\ \A s \in DOMAIN sales : sales[s] \in SaleRows
         /\ \A i \in DOMAIN happened : happened[i] \in EventRows
         /\ visited \in [Dates -> SUBSET Regulars] /\ DataTyped
<1>1. /\ seen \in [Regulars -> 0..diary.end] /\ stamp \in 0..diary.end /\ games \in Seq(GameRows)
      /\ sales \in Seq(SaleRows) /\ happened \in Seq(EventRows)
      /\ visited \in [Dates -> SUBSET Regulars] /\ DataTyped
  BY DEF FigInv, FiguresTypeOK, DataTyped
<1>2. diary.end \in Nat
  BY DiaryParts DEF FigInv
<1>3. \A g \in DOMAIN games : games[g] \in GameRows
  BY <1>1, Elements
<1>4. \A s \in DOMAIN sales : sales[s] \in SaleRows
  BY <1>1, Elements
<1>5. \A i \in DOMAIN happened : happened[i] \in EventRows
  BY <1>1, Elements
<1>6. QED
  BY <1>1, <1>2, <1>3, <1>4, <1>5

\* Who comes leaves the day he came on before.
LEMMA ComesHolds ==
  ASSUME FigInv, NEW u \in Regulars, NEW t \in Nat, t <= stamp, Comes(u, t),
         stamp' = stamp, Dates' = Dates
  PROVE  /\ SeenInv' /\ seen' \in [Regulars -> 0..diary.end]
         /\ visited' \in [Dates -> SUBSET Regulars]
         /\ \A d \in Dates : visited[d] \subseteq visited'[d]
         /\ DaysOf(u, t) \subseteq Nat
         /\ \A d \in Dates \ DaysOf(u, t) : Active(d)' = Active(d)
<1>1. /\ seen \in [Regulars -> 0..diary.end] /\ diary.end \in Nat /\ stamp <= diary.end /\ stamp \in Nat
      /\ visited \in [Dates -> SUBSET Regulars]
  BY Parts, Today
<1>2. /\ seen' = [seen EXCEPT ![u] = t]
      /\ visited' = [visited EXCEPT ![Day(t)] = @ \cup {u}]
  BY DEF Comes
<1>3. Day(t) \in Dates
  BY OfTheDiary DEF FigInv
<1>4. seen' \in [Regulars -> 0..diary.end]
  BY <1>1, <1>2
<1>5. /\ visited' \in [Dates -> SUBSET Regulars] /\ u \in visited'[Day(t)]
      /\ \A d \in Dates : visited[d] \subseteq visited'[d]
  BY <1>1, <1>2, <1>3
<1>6. \A v \in Regulars : seen[v] \in Nat /\ Day(seen[v]) \in Nat /\ Day(seen[v]) \in Dates
  <2>1. \A v \in Regulars : seen[v] \in Nat /\ seen[v] <= stamp
    BY <1>1 DEF FigInv, SeenInv
  <2>2. QED
    BY <2>1, DayBounds, OfTheDiary DEF FigInv
<1>7. SeenInv'
  <2>1. ASSUME NEW v \in Regulars PROVE seen'[v] <= stamp' /\ v \in visited'[Day(seen'[v])]
    <3>1. CASE v = u
      BY <1>1, <1>2, <1>5, <3>1
    <3>2. CASE v # u
      BY <1>1, <1>2, <1>5, <1>6, <3>2 DEF FigInv, SeenInv
    <3>3. QED
      BY <3>1, <3>2
  <2>2. QED
    BY <2>1 DEF SeenInv, Day
<1>8. DaysOf(u, t) \subseteq Nat
  BY <1>6, DayBounds DEF DaysOf
<1>9. ASSUME NEW d \in Dates, d \notin DaysOf(u, t) PROVE Active(d)' = Active(d)
  <2>1. \A v \in Regulars : Day(seen'[v]) = d <=> Day(seen[v]) = d
    BY <1>1, <1>2, <1>9 DEF DaysOf
  <2>2. {v \in Regulars : Day(seen'[v]) = d} = {v \in Regulars : Day(seen[v]) = d}
    BY <2>1
  <2>3. QED
    BY <2>2 DEF Active, Day
<1>10. QED
  BY <1>4, <1>5, <1>7, <1>8, <1>9

LEMMA VisitHolds ==
  ASSUME FigInv, NEW u \in Regulars, NEW t \in Clocks, Visit(u, t)
  PROVE  FigInv'
<1>1. t \in Nat /\ t <= stamp
  BY ClocksRead DEF FigInv
<1>2. /\ diary.visits > 0 /\ diary' = [diary EXCEPT !.visits = @ - 1] /\ Comes(u, t) /\ Changes(DaysOf(u, t))
      /\ UNCHANGED <<stamp, games, sales, kept, happened, refusals>>
  BY DEF Visit
<1>3. PICK d0 \in Diaries : diary = [d0 EXCEPT !.visits = diary.visits] /\ diary.visits \in 0..d0.visits
  BY DEF FigInv, FiguresTypeOK
<1>4. /\ d0 \in [end : Nat, visits : Nat, games : Nat, sales : Nat, events : Nat,
                 late : BOOLEAN, dies : BOOLEAN, jobs : Seq(Tables)]
  BY DiariesPossible
<1>5. /\ diary'.end = diary.end /\ diary'.jobs = diary.jobs
      /\ diary' = [d0 EXCEPT !.visits = diary'.visits] /\ diary'.visits \in 0..d0.visits
  BY <1>2, <1>3, <1>4
<1>6. Dates' = Dates
  BY <1>5 DEF Dates
<1>7. /\ SeenInv' /\ seen' \in [Regulars -> 0..diary.end]
      /\ visited' \in [Dates -> SUBSET Regulars]
      /\ \A d \in Dates : visited[d] \subseteq visited'[d]
      /\ DaysOf(u, t) \subseteq Nat
      /\ \A d \in Dates \ DaysOf(u, t) : Active(d)' = Active(d)
  BY <1>1, <1>2, <1>6, ComesHolds
<1>8. \A d \in Dates \ DaysOf(u, t) : Same(d)
  BY <1>2, <1>7 DEF Same, Begun, Sold, CreditedOn, PaidOn, Completed, CountEvents
<1>9. Moves(DaysOf(u, t))
  BY <1>2, <1>5, <1>6, <1>7, <1>8 DEF Moves
<1>10. DataTyped'
  BY <1>2, <1>5, <1>6, <1>7, Parts DEF DataTyped
<1>11. EventsInv'
  BY <1>2 DEF FigInv, EventsInv, Cutoff
<1>12. QED
  BY <1>7, <1>9, <1>10, <1>11, MoveHolds

LEMMA StartQuizHolds ==
  ASSUME FigInv, NEW u \in Regulars, NEW t \in Clocks, StartQuiz(u, t)
  PROVE  FigInv'
<1> DEFINE game == [user |-> u, from |-> t, to |-> Unseen]
           n == Len(games) + 1
<1>1. t \in Nat /\ t <= stamp
  BY ClocksRead DEF FigInv
<1>2. /\ games' = Append(games, game) /\ Comes(u, t) /\ Changes(DaysOf(u, t))
      /\ UNCHANGED <<stamp, sales, kept, diary, happened, refusals>>
  BY DEF StartQuiz
<1>3. Dates' = Dates
  BY <1>2 DEF Dates
<1>4. /\ SeenInv' /\ seen' \in [Regulars -> 0..diary.end]
      /\ visited' \in [Dates -> SUBSET Regulars]
      /\ \A d \in Dates : visited[d] \subseteq visited'[d]
      /\ DaysOf(u, t) \subseteq Nat
      /\ \A d \in Dates \ DaysOf(u, t) : Active(d)' = Active(d)
  BY <1>1, <1>2, <1>3, ComesHolds
<1>5. game \in GameRows
  BY <1>1 DEF GameRows
<1>6. /\ games' \in Seq(GameRows) /\ n \in Nat \ {0} /\ n \notin DOMAIN games
      /\ DOMAIN games' = DOMAIN games \cup {n} /\ games'[n] = game
      /\ \A g \in DOMAIN games : games'[g] = games[g]
  <2>1. games \in Seq(GameRows)
    BY Parts
  <2> HIDE DEF game
  <2>2. QED
    BY <1>2, <1>5, <2>1
<1>7. ASSUME NEW d \in Dates, d \notin DaysOf(u, t)
      PROVE  Begun(d)' = Begun(d) /\ \A table \in Tables : Completed(table, d)' = Completed(table, d)
  <2>1. Day(t) # d
    BY <1>7 DEF DaysOf
  <2>2. {g \in DOMAIN games' : Day(games'[g].from) = d} = {g \in DOMAIN games : Day(games[g].from) = d}
    BY <1>6, <2>1
  <2>3. {g \in DOMAIN games' : games'[g].to # Unseen /\ Day(games'[g].to) = d}
          = {g \in DOMAIN games : games[g].to # Unseen /\ Day(games[g].to) = d}
    BY <1>6
  <2>4. QED
    BY <2>2, <2>3 DEF Begun, Completed, Day
<1>8. \A d \in Dates \ DaysOf(u, t) : Same(d)
  BY <1>2, <1>4, <1>7 DEF Same, Sold, CreditedOn, PaidOn, CountEvents
<1>9. Moves(DaysOf(u, t))
  BY <1>2, <1>3, <1>4, <1>8 DEF Moves
<1>10. DataTyped'
  <2>1. \A g \in DOMAIN games' : /\ games'[g].from <= stamp
                                 /\ games'[g].to = Unseen \/ games'[g].to \in games'[g].from..stamp
    BY <1>1, <1>6, Parts DEF DataTyped
  <2>2. QED
    BY <1>2, <1>3, <1>4, <1>6, <2>1, Parts DEF DataTyped
<1>11. EventsInv'
  BY <1>2 DEF FigInv, EventsInv, Cutoff
<1>12. QED
  BY <1>4, <1>9, <1>10, <1>11, MoveHolds

LEMMA CompleteQuizHolds ==
  ASSUME FigInv, NEW g \in DOMAIN games, NEW t \in Clocks, CompleteQuiz(g, t)
  PROVE  FigInv'
<1> DEFINE u == games[g].user
<1>1. t \in Nat /\ t <= stamp
  BY ClocksRead DEF FigInv
<1>2. /\ games[g].to = Unseen /\ games[g].from <= t /\ games' = [games EXCEPT ![g].to = t]
      /\ Comes(u, t) /\ Changes(DaysOf(u, t))
      /\ UNCHANGED <<stamp, sales, kept, diary, happened, refusals>>
  <2>1. games[g].from \in Nat
    BY Parts DEF GameRows
  <2>2. QED
    BY <1>1, <2>1 DEF CompleteQuiz
<1>3. Dates' = Dates
  BY <1>2 DEF Dates
<1>4. u \in Regulars
  BY Parts DEF GameRows
<1>5. /\ SeenInv' /\ seen' \in [Regulars -> 0..diary.end]
      /\ visited' \in [Dates -> SUBSET Regulars]
      /\ \A d \in Dates : visited[d] \subseteq visited'[d]
      /\ DaysOf(u, t) \subseteq Nat
      /\ \A d \in Dates \ DaysOf(u, t) : Active(d)' = Active(d)
  <2>1. PICK v \in Regulars : v = u
    BY <1>4
  <2>2. QED
    BY <1>1, <1>2, <1>3, <2>1, ComesHolds
<1>6. games' \in Seq(GameRows) /\ DOMAIN games' = DOMAIN games
  <2>1. games \in Seq(GameRows) /\ games[g] \in GameRows
    BY Parts
  <2>2. [games[g] EXCEPT !.to = t] \in GameRows
    BY <1>1, <2>1 DEF GameRows
  <2>3. games' = [games EXCEPT ![g] = [games[g] EXCEPT !.to = t]]
    BY <1>2
  <2>4. QED
    BY <2>1, <2>2, <2>3
<1>7. /\ \A i \in DOMAIN games : games'[i].from = games[i].from
      /\ \A i \in DOMAIN games : i # g => games'[i] = games[i]
      /\ games'[g].to = t
  <2>1. games[g] \in GameRows
    BY Parts
  <2>2. QED
    BY <1>2, <2>1 DEF GameRows
<1>8. ASSUME NEW d \in Dates, d \notin DaysOf(u, t)
      PROVE  Begun(d)' = Begun(d) /\ \A table \in Tables : Completed(table, d)' = Completed(table, d)
  <2>1. Day(t) # d
    BY <1>8 DEF DaysOf
  <2>2. {i \in DOMAIN games' : Day(games'[i].from) = d} = {i \in DOMAIN games : Day(games[i].from) = d}
    BY <1>6, <1>7
  <2>3. {i \in DOMAIN games' : games'[i].to # Unseen /\ Day(games'[i].to) = d}
          = {i \in DOMAIN games : games[i].to # Unseen /\ Day(games[i].to) = d}
    BY <1>2, <1>6, <1>7, <2>1
  <2>4. QED
    BY <2>2, <2>3 DEF Begun, Completed, Day
<1>9. \A d \in Dates \ DaysOf(u, t) : Same(d)
  BY <1>2, <1>5, <1>8 DEF Same, Sold, CreditedOn, PaidOn, CountEvents
<1>10. Moves(DaysOf(u, t))
  BY <1>2, <1>3, <1>5, <1>9 DEF Moves
<1>11. DataTyped'
  <2>1. \A i \in DOMAIN games' : /\ games'[i].from <= stamp
                                 /\ games'[i].to = Unseen \/ games'[i].to \in games'[i].from..stamp
    <3>1. \A i \in DOMAIN games : /\ games[i].from <= stamp /\ games[i].from \in Nat
                                  /\ games[i].to = Unseen \/ games[i].to \in games[i].from..stamp
      BY Parts DEF DataTyped, GameRows
    <3>2. QED
      BY <1>1, <1>2, <1>6, <1>7, <3>1, Today
  <2>2. QED
    BY <1>2, <1>3, <1>5, <1>6, <2>1, Parts DEF DataTyped
<1>12. EventsInv'
  BY <1>2 DEF FigInv, EventsInv, Cutoff
<1>13. QED
  BY <1>5, <1>10, <1>11, <1>12, MoveHolds

\* A step that changes sales alone, and of other days neither what is credited nor what is paid.
LEMMA SalesHold ==
  ASSUME FigInv, NEW days \in SUBSET Nat, Changes(days), sales' \in Seq(SaleRows),
         UNCHANGED <<stamp, seen, games, kept, diary, happened, visited, refusals>>,
         \A d \in Dates \ days : /\ CreditedOn(d)' = CreditedOn(d) /\ PaidOn(d)' = PaidOn(d)
                                 /\ \A s \in CreditedOn(d) : sales'[s].user = sales[s].user
  PROVE  FigInv'
<1>1. Dates' = Dates
  BY DEF Dates
<1>2. ASSUME NEW d \in Dates \ days PROVE Same(d)
  <2>1. {sales'[s].user : s \in CreditedOn(d)} = {sales[s].user : s \in CreditedOn(d)}
    BY <1>2
  <2>2. \A table \in Tables : Sold(table, d)' = Sold(table, d)
    BY <1>2, <2>1 DEF Sold
  <2>3. QED
    BY <2>2 DEF Same, Active, Begun, Completed, CountEvents
<1>3. Moves(days)
  BY <1>1, <1>2 DEF Moves
<1>4. DataTyped'
  BY <1>1, Parts DEF DataTyped
<1>5. SeenInv' /\ EventsInv'
  BY DEF FigInv, SeenInv, EventsInv, Cutoff, Day
<1>6. QED
  BY <1>3, <1>4, <1>5, MoveHolds

LEMMA MoneyHolds ==
  ASSUME FigInv, NEW u \in Regulars, NEW t \in Clocks, MoneyArrives(u, t)
  PROVE  FigInv'
<1>1. t \in Nat /\ t <= stamp /\ Day(t) \in Nat
  BY ClocksRead, DayBounds DEF FigInv
<1>2. PICK now \in {"PAID_UNCREDITED", "CREDITED"} :
        /\ sales' = Append(sales, [user |-> u, paid |-> t, at |-> t, status |-> now])
        /\ Changes({Day(t)})
        /\ UNCHANGED <<stamp, seen, games, kept, diary, happened, visited, refusals>>
  BY DEF MoneyArrives
<1>3. PICK sale \in SaleRows : sale = [user |-> u, paid |-> t, at |-> t, status |-> now]
  BY <1>1 DEF SaleRows
<1>4. PICK n : n = Len(sales) + 1
  OBVIOUS
<1>5. /\ sales' \in Seq(SaleRows) /\ n \notin DOMAIN sales
      /\ DOMAIN sales' = DOMAIN sales \cup {n} /\ sales'[n] = sale
      /\ \A s \in DOMAIN sales : sales'[s] = sales[s]
  <2>1. sales \in Seq(SaleRows)
    BY Parts
  <2>2. QED
    BY <1>2, <1>3, <1>4, <2>1
<1>6. ASSUME NEW d \in Dates \ {Day(t)}
      PROVE  /\ CreditedOn(d)' = CreditedOn(d) /\ PaidOn(d)' = PaidOn(d)
             /\ \A s \in CreditedOn(d) : sales'[s].user = sales[s].user
  <2>1. /\ {s \in DOMAIN sales' : sales'[s].status = "CREDITED" /\ Day(sales'[s].at) = d}
             = {s \in DOMAIN sales : sales[s].status = "CREDITED" /\ Day(sales[s].at) = d}
        /\ {s \in DOMAIN sales' : sales'[s].status # "REFUNDED" /\ Day(sales'[s].paid) = d}
             = {s \in DOMAIN sales : sales[s].status # "REFUNDED" /\ Day(sales[s].paid) = d}
    BY <1>3, <1>5
  <2>2. QED
    BY <1>5, <2>1 DEF CreditedOn, PaidOn, Day
<1>7. PICK days \in SUBSET Nat : days = {Day(t)}
  BY <1>1
<1>8. QED
  BY <1>2, <1>5, <1>6, <1>7, SalesHold

\* A row of sales that is credited or refunded: its days are those it was paid and credited on.
LEMMA SaleChanges ==
  ASSUME FigInv, NEW s \in DOMAIN sales, NEW row \in SaleRows, NEW days \in SUBSET Nat, Changes(days),
         sales' = [sales EXCEPT ![s] = row], row.user = sales[s].user, row.paid = sales[s].paid,
         Day(row.paid) \in days,
         sales[s].status = "CREDITED" => Day(sales[s].at) \in days,
         row.status = "CREDITED" => Day(row.at) \in days,
         UNCHANGED <<stamp, seen, games, kept, diary, happened, visited, refusals>>
  PROVE  FigInv'
<1>1. sales \in Seq(SaleRows) /\ sales[s] \in SaleRows
  BY Parts
<1>2. /\ sales' \in Seq(SaleRows) /\ DOMAIN sales' = DOMAIN sales /\ sales'[s] = row
      /\ \A i \in DOMAIN sales : i # s => sales'[i] = sales[i]
  BY <1>1
<1>3. ASSUME NEW d \in Dates \ days
      PROVE  /\ CreditedOn(d)' = CreditedOn(d) /\ PaidOn(d)' = PaidOn(d)
             /\ \A i \in CreditedOn(d) : sales'[i].user = sales[i].user
  <2>1. Day(row.paid) # d /\ Day(sales[s].paid) # d
    BY <1>3
  <2>2. {i \in DOMAIN sales' : sales'[i].status = "CREDITED" /\ Day(sales'[i].at) = d}
             = {i \in DOMAIN sales : sales[i].status = "CREDITED" /\ Day(sales[i].at) = d}
    BY <1>2, <1>3
  <2>3. {i \in DOMAIN sales' : sales'[i].status # "REFUNDED" /\ Day(sales'[i].paid) = d}
             = {i \in DOMAIN sales : sales[i].status # "REFUNDED" /\ Day(sales[i].paid) = d}
    BY <1>2, <2>1
  <2>4. \A i \in DOMAIN sales : sales'[i].user = sales[i].user
    BY <1>2
  <2>5. QED
    BY <2>2, <2>3, <2>4 DEF CreditedOn, PaidOn, Day
<1>4. QED
  BY <1>2, <1>3, SalesHold

LEMMA CreditHolds ==
  ASSUME FigInv, NEW s \in DOMAIN sales, CreditLater(s)
  PROVE  FigInv'
<1>1. sales[s] \in SaleRows /\ stamp \in Nat /\ Day(stamp) \in Nat
  BY Parts, Today
<1>2. PICK row \in SaleRows : row = [sales[s] EXCEPT !.status = "CREDITED", !.at = stamp]
  BY <1>1 DEF SaleRows
<1>3. /\ row.user = sales[s].user /\ row.paid = sales[s].paid /\ row.at = stamp /\ sales[s].paid \in Nat
  BY <1>1, <1>2 DEF SaleRows
<1>4. PICK days \in SUBSET Nat : days = {Day(stamp), Day(sales[s].paid)}
  BY <1>1, <1>3, DayBounds
<1>5. /\ sales' = [sales EXCEPT ![s] = row] /\ Changes(days) /\ sales[s].status = "PAID_UNCREDITED"
      /\ UNCHANGED <<stamp, seen, games, kept, diary, happened, visited, refusals>>
  BY <1>1, <1>2, <1>4 DEF CreditLater
<1>6. QED
  BY <1>3, <1>4, <1>5, SaleChanges

LEMMA RefundHolds ==
  ASSUME FigInv, NEW s \in DOMAIN sales, Refund(s)
  PROVE  FigInv'
<1>1. sales[s] \in SaleRows
  BY Parts
<1>2. PICK row \in SaleRows : row = [sales[s] EXCEPT !.status = "REFUNDED"]
  BY <1>1 DEF SaleRows
<1>3. /\ row.user = sales[s].user /\ row.paid = sales[s].paid /\ row.status = "REFUNDED"
      /\ sales[s].paid \in Nat /\ sales[s].at \in Nat
  BY <1>1, <1>2 DEF SaleRows
<1>4. PICK days \in SUBSET Nat : days = {Day(sales[s].at), Day(sales[s].paid)}
  BY <1>1, <1>3, DayBounds
<1>5. /\ sales' = [sales EXCEPT ![s] = row] /\ Changes(days)
      /\ UNCHANGED <<stamp, seen, games, kept, diary, happened, visited, refusals>>
  BY <1>1, <1>2, <1>4 DEF Refund
<1>6. QED
  BY <1>3, <1>4, <1>5, SaleChanges

LEMMA EventHolds ==
  ASSUME FigInv, NEW t \in Clocks, EmitEvent(t)
  PROVE  FigInv'
<1>1. t \in Nat /\ t <= stamp /\ Day(t) \in Nat /\ stamp \in Nat
  BY ClocksRead, DayBounds, Today DEF FigInv
<1>2. PICK event \in EventRows : event = [at |-> t, made |-> stamp]
  BY <1>1 DEF EventRows
<1>3. PICK n : n = Len(happened) + 1
  OBVIOUS
<1>4. /\ happened' = Append(happened, event)
      /\ kept' = [i \in DOMAIN kept \cup {n} |-> IF i = n THEN event ELSE kept[i]]
      /\ Changes({Day(t)})
      /\ UNCHANGED <<stamp, seen, games, sales, diary, visited, refusals>>
  BY <1>2, <1>3 DEF EmitEvent
<1>5. event \in EventRows /\ event.at = t /\ event.made = stamp
  BY <1>1, <1>2 DEF EventRows
<1>6. /\ happened' \in Seq(EventRows) /\ n \notin DOMAIN happened
      /\ DOMAIN happened' = DOMAIN happened \cup {n} /\ happened'[n] = event
      /\ \A i \in DOMAIN happened : happened'[i] = happened[i]
  <2>1. happened \in Seq(EventRows)
    BY Parts
  <2>2. QED
    BY <1>3, <1>4, <1>5, <2>1
<1>7. /\ DOMAIN kept' = DOMAIN kept \cup {n} /\ DOMAIN kept' \subseteq DOMAIN happened'
      /\ \A i \in DOMAIN kept : i # n /\ kept'[i] = kept[i]
      /\ kept'[n] = event
  <2>1. DOMAIN kept \subseteq DOMAIN happened
    BY DEF FigInv, FiguresTypeOK
  <2>2. QED
    BY <1>4, <1>6, <2>1
<1>8. Dates' = Dates /\ Cutoff' = Cutoff
  BY <1>4 DEF Dates, Cutoff
<1>9. ASSUME NEW d \in Dates \ {Day(t)} PROVE Same(d)
  <2>1. {i \in DOMAIN happened' : Day(happened'[i].at) = d} = {i \in DOMAIN happened : Day(happened[i].at) = d}
    BY <1>5, <1>6, <1>9
  <2>2. \A table \in Tables : CountEvents(table, happened, d)' = CountEvents(table, happened, d)
    BY <2>1 DEF CountEvents, Day
  <2>3. QED
    BY <1>4, <2>2 DEF Same, Active, Begun, Completed, Sold, CreditedOn, PaidOn
<1>10. PICK days \in SUBSET Nat : days = {Day(t)}
  BY <1>1
<1>11. Moves(days)
  BY <1>4, <1>8, <1>9, <1>10 DEF Moves
<1>12. DataTyped'
  BY <1>4, <1>6, <1>7, <1>8, Parts DEF DataTyped
<1>13. SeenInv'
  BY <1>4 DEF FigInv, SeenInv, Day
<1>14. EventsInv'
  <2>1. \A i \in DOMAIN happened' : happened'[i].at <= happened'[i].made
    BY <1>1, <1>5, <1>6 DEF FigInv, EventsInv
  <2>2. \A i \in DOMAIN kept' : kept'[i] = happened'[i]
    BY <1>6, <1>7 DEF FigInv, FiguresTypeOK, EventsInv
  <2>3. \A i \in DOMAIN happened' \ DOMAIN kept' : happened'[i].made < Cutoff
    BY <1>6, <1>7 DEF FigInv, EventsInv
  <2>4. QED
    BY <1>8, <2>1, <2>2, <2>3 DEF EventsInv
<1>15. QED
  BY <1>11, <1>12, <1>13, <1>14, MoveHolds

-----------------------------------------------------------------------------
(* Every behaviour. *)

LEMMA FiguresStart ==
  ASSUME FiguresInit
  PROVE  FigInv
<1>1. diary \in [end : Nat, visits : Nat, games : Nat, sales : Nat, events : Nat,
                 late : BOOLEAN, dies : BOOLEAN, jobs : Seq(Tables)]
  BY DiariesPossible DEF FiguresInit
<1>2. Day(0) = 0 /\ Day(diary.end) \in Nat /\ 0 \in Dates
  BY <1>1, DayBounds DEF Dates
<1>3. DataTyped
  <2>1. diary = [diary EXCEPT !.visits = diary.visits] /\ diary.visits \in 0..diary.visits
    BY <1>1
  <2>2. \E d \in Diaries : diary = [d EXCEPT !.visits = diary.visits] /\ diary.visits \in 0..d.visits
    BY <2>1 DEF FiguresInit
  <2>3. games = <<>> /\ sales = <<>> /\ happened = <<>> /\ kept = <<>>
    BY DEF FiguresInit
  <2>4. games \in Seq(GameRows) /\ sales \in Seq(SaleRows) /\ happened \in Seq(EventRows)
    BY <2>3
  <2>5. \A g \in DOMAIN games : /\ games[g].from <= stamp
                                /\ games[g].to = Unseen \/ games[g].to \in games[g].from..stamp
    BY <2>3
  <2>6. DOMAIN kept \subseteq DOMAIN happened
    BY <2>3
  <2>7. stamp \in 0..diary.end /\ seen \in [Regulars -> 0..diary.end]
    BY <1>1 DEF FiguresInit
  <2>8. visited \in [Dates -> SUBSET Regulars]
    BY DEF FiguresInit
  <2>9. QED
    BY <2>2, <2>4, <2>5, <2>6, <2>7, <2>8 DEF DataTyped
<1>4. \A j \in DOMAIN counts : counts[j] = [at |-> "WAITS"]
  BY DEF FiguresInit
<1>5. JobsTyped
  <2>1. DOMAIN figures = {}
    BY DEF FiguresInit
  <2>2. DOMAIN counts = DOMAIN diary.jobs
    BY DEF FiguresInit
  <2>3. QED
    BY <1>4, <2>1, <2>2 DEF JobsTyped
<1>6. SeenInv
  BY <1>2 DEF FiguresInit, SeenInv
<1>7. EventsInv
  BY DEF FiguresInit, EventsInv
<1>8. CountsInv
  BY <1>4 DEF CountsInv, Running
<1>9. RowsInv
  BY DEF FiguresInit, RowsInv
<1>10. QED
  BY <1>3, <1>5, <1>6, <1>7, <1>8, <1>9, TypeParts DEF FigInv

LEMMA FiguresStutter ==
  ASSUME FigInv, UNCHANGED figVars
  PROVE  FigInv'
<1>1. FiguresTypeOK'
  BY DEF FigInv, FiguresTypeOK, figVars, Dates, Day
<1>2. Dates' = Dates /\ Cutoff' = Cutoff
  BY DEF figVars, Dates, Cutoff
<1>3. SeenInv' /\ EventsInv'
  BY <1>2 DEF FigInv, SeenInv, EventsInv, figVars
<1>4. \A j \in DOMAIN counts : Running(j) => stamp <= stamp' /\ stamp' <= counts[j].since + RunTicks
  BY Today DEF FigInv, CountsInv, RunInv, figVars
<1>5. CountsInv' /\ RowsInv'
  BY <1>4, Today, RunsAndRowsStay DEF figVars
<1>6. QED
  BY <1>1, <1>3, <1>5 DEF FigInv

LEMMA FiguresStep ==
  ASSUME FigInv, [FiguresNext]_figVars
  PROVE  FigInv'
<1>1. ASSUME NEW u \in Regulars, NEW t \in Clocks, Visit(u, t) PROVE FigInv'
  BY <1>1, VisitHolds
<1>2. ASSUME NEW u \in Regulars, NEW t \in Clocks, StartQuiz(u, t) PROVE FigInv'
  BY <1>2, StartQuizHolds
<1>3. ASSUME NEW u \in Regulars, NEW t \in Clocks, MoneyArrives(u, t) PROVE FigInv'
  BY <1>3, MoneyHolds
<1>4. ASSUME NEW g \in DOMAIN games, NEW t \in Clocks, CompleteQuiz(g, t) PROVE FigInv'
  BY <1>4, CompleteQuizHolds
<1>5. ASSUME NEW s \in DOMAIN sales, CreditLater(s) PROVE FigInv'
  BY <1>5, CreditHolds
<1>6. ASSUME NEW s \in DOMAIN sales, Refund(s) PROVE FigInv'
  BY <1>6, RefundHolds
<1>7. ASSUME NEW t \in Clocks, EmitEvent(t) PROVE FigInv'
  BY <1>7, EventHolds
<1>8. ASSUME NEW j \in DOMAIN counts, BeginJob(j) PROVE FigInv'
  BY <1>8, BeginJobHolds
<1>9. ASSUME NEW j \in DOMAIN counts, AskDashboard(j) PROVE FigInv'
  BY <1>9, AskDashboardHolds
<1>10. ASSUME NEW j \in DOMAIN counts, CountStep(j) PROVE FigInv'
  BY <1>10, CountStepHolds
<1>11. ASSUME NEW j \in DOMAIN counts, UpsertDaily(j) PROVE FigInv'
  BY <1>11, UpsertHolds
<1>12. ASSUME NEW j \in DOMAIN counts, CommitCount(j) PROVE FigInv'
  BY <1>12, CommitHolds
<1>13. ASSUME NEW j \in DOMAIN counts, CountDies(j) PROVE FigInv'
  BY <1>13, DiesHolds
<1>14. CASE DeleteEvents
  BY <1>14, DeleteHolds
<1>15. CASE Later
  BY <1>15, LaterHolds
<1>16. CASE UNCHANGED figVars
  BY <1>16, FiguresStutter
<1>17. QED
  BY <1>1, <1>2, <1>3, <1>4, <1>5, <1>6, <1>7, <1>8, <1>9, <1>10, <1>11, <1>12, <1>13, <1>14, <1>15, <1>16
     DEF FiguresNext

LEMMA FigHolds == FiguresSpec => []FigInv
<1>1. FiguresInit => FigInv
  BY FiguresStart
<1>2. FigInv /\ [FiguresNext]_figVars => FigInv'
  BY FiguresStep
<1>3. QED
  BY <1>1, <1>2, PTL DEF FiguresSpec

\* The types of the users, the rows, the events and the runs, and the bounds on a diary.
THEOREM FiguresTyped == FiguresSpec => []FiguresTypeOK
<1>1. FigInv => FiguresTypeOK
  BY DEF FigInv
<1>2. QED
  BY <1>1, FigHolds, PTL

\* A row of analytics_daily or daily_metrics equals a count over everything that ever happened,
\* deleted events included, unless something of its day was committed after its run began.
THEOREM RowsTrueThm == FiguresSpec => []RowsTrue
<1>1. FigInv => RowsTrue
  BY DEF FigInv, RowsInv, RowsTrue, Exact
<1>2. QED
  BY <1>1, FigHolds, PTL

\* dau never exceeds the number of those who came on the day, and equals it in a row that lacks
\* nothing, while last_seen_at of each of them still tells of that day.
THEOREM UsersOfTheDayThm == FiguresSpec => []UsersOfTheDay
<1>1. FigInv => UsersOfTheDay
  <2>1. SUFFICES ASSUME FigInv, NEW k \in DOMAIN figures
                 PROVE  /\ figures[k].row.dau <= Cardinality(visited[k[2]])
                        /\ ~figures[k].behind /\ (\A u \in visited[k[2]] : Day(seen[u]) = k[2])
                           => figures[k].row.dau = Cardinality(visited[k[2]])
    BY DEF UsersOfTheDay
  <2>2. figures[k].row.dau <= Cardinality(visited[k[2]])
    BY <2>1 DEF FigInv, RowsInv
  <2>3. ASSUME ~figures[k].behind, \A u \in visited[k[2]] : Day(seen[u]) = k[2]
        PROVE  figures[k].row.dau = Cardinality(visited[k[2]])
    <3>1. figures[k].row.dau = Active(k[2])
      BY <2>1, <2>3 DEF FigInv, RowsInv, Exact
    <3>2. k[2] \in Dates /\ visited[k[2]] \subseteq Regulars
      BY <2>1 DEF FigInv, FiguresTypeOK
    <3>3. {u \in Regulars : Day(seen[u]) = k[2]} = visited[k[2]]
      BY <2>1, <2>3, <3>2 DEF FigInv, SeenInv
    <3>4. QED
      BY <3>1, <3>3 DEF Active
  <2>4. QED
    BY <2>2, <2>3
<1>2. QED
  BY <1>1, FigHolds, PTL

\* All that the operators are promised about the rows of a day.
THEOREM FiguresSoundThm == FiguresSpec => []FiguresSound
BY FiguresTyped, RowsTrueThm, UsersOfTheDayThm, PTL DEF FiguresSound

-----------------------------------------------------------------------------
(* The questions: what holds of the table, the pools, the updates under    *)
(* way, the answers, the set of the day and the plans of duels.            *)

\* The question a choice from pools that are as the table is ends with.
Chosen(d, n) ==
  LET q == PickOrRepeat(Matching(bank, d.mode, TriedFirst(d)), d.recent, n) IN
  IF q # Nobody \/ d.allowed = {} THEN q ELSE PickOrRepeat(Matching(bank, d.mode, d.allowed), d.recent, n)

\* The set that is made from such pools.
DaySet == NewSet(Chosen(FallbackDemand, deck.lot))

\* The question of a position that all users have while the table stays as it is.
DayAnswer(position) ==
  LET id == DaySet[position]
      d == DailyDemand(position)
  IN IF id \in DOMAIN bank /\ bank[id].level \in d.allowed THEN id
     ELSE IF Chosen(d, deck.lot) = Nobody THEN Static ELSE Chosen(d, deck.lot)

\* A pool knows all rows that were committed before its last refresh, but those that
\* overtook it; and those are all that were stamped by its watermark and committed later.
PoolInv(pool, mode, levels, over) ==
  /\ PoolOK(pool)
  /\ \A q \in DOMAIN bank :
       /\ bank[q].no <= pool.no /\ q \notin over => (q \in pool.ids <=> Belongs(bank[q], mode, levels))
       /\ bank[q].no > pool.no /\ bank[q].at <= pool.mark => q \in over
  /\ commits = 0 => pool.ids = Matching(bank, mode, levels)

Missed(over, w, key) == {q \in DOMAIN bank : <<w, key, q>> \in over}

CacheInv(c, w, over) ==
  \A key \in DOMAIN c :
    key \in Scopes \X SUBSET AnyLevel /\ PoolInv(c[key], key[1], key[2], Missed(over, w, key))

PoolsInv == \A w \in Staff : CacheInv(pools[w], w, overtaken)

Repeated(id, d, of) == id \in d.recent => Cardinality(d.recent) >= Cardinality(of)

Varied(p) ==
  \A n \in DOMAIN p.ids :
    p.ids[n] # Static /\ (\E k \in 1..(n - 1) : p.ids[k] = p.ids[n]) => p.left[n] = 0

HandInv(a) ==
  /\ a.do = "FETCH" => Repeated(a.id, a.demand, a.of)
  /\ a.do = "DAILY" => (a.seen = <<>> => ~a.unseen) /\ (commits = 0 => a.built = DaySet)
  /\ a.do = "PLAN" => Len(a.ids) = Len(a.left) /\ Varied(a)

WorkInv == \A w \in Staff : HandInv(asking[w])

AskedInv(e) ==
  /\ Demand(e.demand) /\ e.demand.mode \in Scopes
  /\ e.id \in Nat \cup {Nobody}
  /\ e.id \notin {Static, Nobody} => e.there /\ e.id \in DOMAIN bank \cup deleted
  /\ Repeated(e.id, e.demand, e.of)
  /\ commits = 0 /\ e.daily # 0 => e.id = DayAnswer(e.daily)

AnswersInv ==
  /\ asked \in Seq(ToSet(asked))
  /\ \A n \in DOMAIN asked : AskedInv(asked[n])
  /\ \A g \in graded : g.n \in DOMAIN asked /\ (g.id = asked[g.n].id \/ asked[g.n].id \in deleted)

DayInv == renewed = 0 /\ (commits = 0 => today7 \in {<<>>, DaySet})

PlansInv == \A p \in plans : Varied(p)

BankInv == BankTypeOK /\ PoolsInv /\ WorkInv /\ AnswersInv /\ DayInv /\ PlansInv

-----------------------------------------------------------------------------
(* Choosing from a set of questions. *)

\* What is measured in numbers has a least.
LEMMA LeastNumber ==
  ASSUME NEW T, T \subseteq Nat, T # {}
  PROVE  \E x \in T : \A y \in T : x <= y
<1>1. PICK x \in T : \A y \in T : ~(<<y, x>> \in OpToRel(<, Nat))
  BY NatLessThanWellFounded, WFMin, Zenon
<1>2. \A y \in T : ~(y < x)
  BY <1>1 DEF OpToRel
<1>3. QED
  BY <1>2

LEMMA Nearest ==
  ASSUME NEW S, S # {}, NEW f, f \in [S -> Nat]
  PROVE  \E x \in S : \A y \in S : f[x] <= f[y]
<1>1. PICK T : T = {f[x] : x \in S}
  OBVIOUS
<1>2. T # {} /\ T \subseteq Nat
  BY <1>1
<1>3. PICK n \in T : \A m \in T : n <= m
  BY <1>2, LeastNumber
<1>4. QED
  BY <1>1, <1>3

LEMMA DistanceTyped ==
  ASSUME NEW ids, ids \subseteq Nat, ids # {}, IsFiniteSet(ids), NEW n \in Nat, NEW q
  PROVE  Distance(ids, n, q) \in Nat
<1>1. Cardinality(ids) \in Nat \ {0}
  BY FS_CardinalityType, FS_EmptySet
<1>2. {r \in ids : r < q} \in SUBSET ids
  OBVIOUS
<1>3. PlaceOf(ids, q) \in Nat
  BY <1>2, FS_Subset, FS_CardinalityType DEF PlaceOf
<1>4. n % Cardinality(ids) \in Nat /\ n % Cardinality(ids) <= Cardinality(ids)
  BY <1>1
<1>5. \A k \in Nat, c \in Nat \ {0} : k % c \in Nat
  OBVIOUS
<1>6. PlaceOf(ids, q) + Cardinality(ids) - (n % Cardinality(ids)) \in Nat
  BY <1>1, <1>3, <1>4
<1>7. QED
  BY <1>1, <1>5, <1>6 DEF Distance

\* A pick is a question of the pool that is not excluded; there is none just when there is
\* no question, or as many are excluded as there are.
LEMMA PickFromPoolIs ==
  ASSUME NEW ids, ids \subseteq Nat, IsFiniteSet(ids), NEW excluded, IsFiniteSet(excluded), NEW n \in Nat
  PROVE  \/ /\ ids = {} \/ (excluded # {} /\ Cardinality(excluded) >= Cardinality(ids))
            /\ PickFromPool(ids, excluded, n) = Nobody
         \/ PickFromPool(ids, excluded, n) \in ids \ excluded
<1>1. CASE ids = {} \/ (excluded # {} /\ Cardinality(excluded) >= Cardinality(ids))
  BY <1>1 DEF PickFromPool
<1>2. CASE ids # {} /\ ~(excluded # {} /\ Cardinality(excluded) >= Cardinality(ids))
  <2>1. ids \ excluded # {}
    <3>1. CASE excluded = {}
      BY <1>2, <3>1
    <3>2. CASE Cardinality(excluded) < Cardinality(ids)
      <4>1. ids \subseteq excluded => Cardinality(ids) <= Cardinality(excluded)
        BY FS_Subset
      <4>2. Cardinality(ids) \in Nat /\ Cardinality(excluded) \in Nat
        BY FS_CardinalityType
      <4>3. QED
        BY <3>2, <4>1, <4>2
    <3>3. Cardinality(ids) \in Nat /\ Cardinality(excluded) \in Nat
      BY FS_CardinalityType
    <3>4. QED
      BY <1>2, <3>1, <3>2, <3>3
  <2>2. PICK f : f = [q \in ids \ excluded |-> Distance(ids, n, q)]
    OBVIOUS
  <2>3. f \in [ids \ excluded -> Nat]
    BY <1>2, <2>2, DistanceTyped
  <2>4. \E q \in ids \ excluded : \A r \in ids \ excluded : f[q] <= f[r]
    BY <2>1, <2>3, Nearest
  <2>5. \E q \in ids \ excluded : \A r \in ids \ excluded : Distance(ids, n, q) <= Distance(ids, n, r)
    BY <2>2, <2>4
  <2>6. PickFromPool(ids, excluded, n) =
          CHOOSE q \in ids \ excluded :
            \A r \in ids \ excluded : Distance(ids, n, q) <= Distance(ids, n, r)
    BY <1>2 DEF PickFromPool
  <2>7. QED
    BY <2>5, <2>6
<1>3. QED
  BY <1>1, <1>2

\* A question of the pool, and an excluded one only when as many are excluded as there are.
LEMMA PickOrRepeatIs ==
  ASSUME NEW ids, ids \subseteq Nat, IsFiniteSet(ids), NEW excluded, excluded \subseteq Nat,
         IsFiniteSet(excluded), NEW n \in Nat
  PROVE  /\ ids = {} => PickOrRepeat(ids, excluded, n) = Nobody
         /\ ids # {} => PickOrRepeat(ids, excluded, n) \in ids
         /\ PickOrRepeat(ids, excluded, n) \in excluded => Cardinality(excluded) >= Cardinality(ids)
<1>1. PICK p : p = PickFromPool(ids, excluded, n)
  OBVIOUS
<1>2. PICK r : r = PickFromPool(ids, {}, n)
  OBVIOUS
<1>3. \/ /\ ids = {} \/ (excluded # {} /\ Cardinality(excluded) >= Cardinality(ids))
         /\ p = Nobody
      \/ p \in ids \ excluded
  BY <1>1, PickFromPoolIs
<1>4. (ids = {} /\ r = Nobody) \/ r \in ids
  BY <1>2, PickFromPoolIs, FS_EmptySet
<1>5. PickOrRepeat(ids, excluded, n) = IF p # Nobody THEN p ELSE r
  BY <1>1, <1>2 DEF PickOrRepeat
<1>6. Nobody \notin Nat
  BY BankLimits
<1>7. QED
  BY <1>3, <1>4, <1>5, <1>6

LEMMA ListedIn ==
  ASSUME BankTable(bank), NEW mode, NEW levels
  PROVE  /\ Matching(bank, mode, levels) \subseteq DOMAIN bank /\ Matching(bank, mode, levels) \subseteq QuestionIds
         /\ Matching(bank, mode, levels) \subseteq Nat /\ IsFiniteSet(Matching(bank, mode, levels))
<1>1. Matching(bank, mode, levels) \in SUBSET DOMAIN bank
  BY DEF Matching
<1>2. QED
  BY <1>1, FS_Subset DEF BankTable, QuestionIds

-----------------------------------------------------------------------------
(* The pools of a worker. *)

\* The pools of a worker that has just cleared them.
FreshPools(c) == \A key \in DOMAIN c : c[key].ids = Matching(bank, key[1], key[2]) /\ c[key].at = second

LEMMA FirstLevels ==
  ASSUME NEW d, Demand(d)
  PROVE  TriedFirst(d) \in SUBSET AnyLevel /\ d.allowed \in SUBSET AnyLevel
BY DEF TriedFirst, Demand, AnyLevel

LEMMA MaxOf ==
  ASSUME NEW top \in Nat, NEW S, S \subseteq 0..top, S # {}
  PROVE  Max(S) \in 0..top
<1>1. PICK f : f = [x \in S |-> top - x]
  OBVIOUS
<1>2. f \in [S -> Nat]
  BY <1>1
<1>3. PICK x \in S : \A y \in S : f[x] <= f[y]
  BY <1>2, Nearest
<1>4. \A y \in S : x >= y
  BY <1>1, <1>3
<1>5. QED
  BY <1>4 DEF Max

LEMMA PoolHolds ==
  ASSUME BankTypeOK, NEW c, NEW w \in Staff, NEW over, CacheInv(c, w, over), NEW mode \in Scopes,
         NEW levels \in SUBSET AnyLevel
  PROVE  PoolInv(Pool(c, mode, levels), mode, levels, Missed(over, w, <<mode, levels>>))
<1>1. /\ second \in Nat /\ commits \in Nat /\ BankTable(bank)
      /\ \A q \in DOMAIN bank : bank[q].at \in 0..second /\ bank[q].no \in 0..commits
  <2>1. deck.end \in Nat
    BY DecksPossible DEF BankTypeOK
  <2>2. second \in Nat /\ commits \in Nat /\ BankTable(bank)
    BY <2>1 DEF BankTypeOK
  <2>3. \A q \in DOMAIN bank : bank[q].at \in Nat /\ bank[q].no \in Nat
    BY <2>2 DEF BankTable, QuestionRow
  <2>4. QED
    BY <2>2, <2>3 DEF BankTypeOK
<1>2. PICK key : key = <<mode, levels>>
  OBVIOUS
<1>3. CASE key \notin DOMAIN c
  <2>1. Pool(c, mode, levels) = FullPool(mode, levels)
    BY <1>2, <1>3 DEF Pool
  <2>2. PoolInv(FullPool(mode, levels), mode, levels, Missed(over, w, <<mode, levels>>))
    <3>1. PoolOK(FullPool(mode, levels))
      BY <1>1, ListedIn DEF PoolOK, FullPool
    <3>2. \A q \in DOMAIN bank : /\ q \in Matching(bank, mode, levels) <=> Belongs(bank[q], mode, levels)
                                 /\ ~(bank[q].no > commits)
      BY <1>1 DEF Matching
    <3>3. QED
      BY <3>1, <3>2 DEF PoolInv, FullPool
  <2>3. QED
    BY <2>1, <2>2
<1>4. CASE key \in DOMAIN c
  <2>1. PICK pool : pool = c[key]
    OBVIOUS
  <2>2. PoolInv(pool, mode, levels, Missed(over, w, <<mode, levels>>))
    BY <1>2, <1>4, <2>1 DEF CacheInv
  <2>3. CASE pool.at + CacheTime >= second
    BY <1>2, <1>4, <2>1, <2>2, <2>3 DEF Pool
  <2>4. CASE ~(pool.at + CacheTime >= second)
    <3>1. PICK changes \in SUBSET DOMAIN bank : changes = StampedSince(pool)
      BY DEF StampedSince
    <3>2. PICK stamps : stamps = {pool.mark} \cup {bank[q].at : q \in changes}
      OBVIOUS
    <3>3. Max(stamps) \in 0..second
      <4>1. stamps \subseteq 0..second /\ stamps # {}
        BY <1>1, <2>2, <3>2 DEF PoolInv, PoolOK
      <4>2. QED
        BY <1>1, <4>1, MaxOf
    <3>4. PICK new : new = [ids |-> (pool.ids \ changes) \cup {q \in changes : Belongs(bank[q], mode, levels)},
                            at |-> second, mark |-> Max(stamps), no |-> commits]
      OBVIOUS
    <3>5. Pool(c, mode, levels) = new
      BY <1>2, <1>4, <2>1, <2>4, <3>1, <3>2, <3>4 DEF Pool, RefreshedPool
    <3>6. /\ new.ids = (pool.ids \ changes) \cup {q \in changes : Belongs(bank[q], mode, levels)}
          /\ new.at = second /\ new.mark = Max(stamps) /\ new.no = commits
      BY <3>4
    <3>7. pool.ids \subseteq QuestionIds /\ IsFiniteSet(pool.ids) /\ pool.mark \in Nat /\ pool.no \in Nat
      BY <2>2 DEF PoolInv, PoolOK
    <3>8. new.ids \subseteq QuestionIds /\ IsFiniteSet(new.ids)
      <4>1. IsFiniteSet(pool.ids \cup DOMAIN bank) /\ DOMAIN bank \subseteq QuestionIds
        BY <1>1, <3>7, FS_Union DEF BankTable
      <4>2. new.ids \in SUBSET (pool.ids \cup DOMAIN bank)
        BY <3>6
      <4>3. QED
        BY <3>7, <4>1, <4>2, FS_Subset
    <3>9. PoolOK(new)
      BY <1>1, <3>3, <3>4, <3>6, <3>8 DEF PoolOK
    <3>10. ASSUME NEW q \in DOMAIN bank
           PROVE  /\ q \notin Missed(over, w, <<mode, levels>>)
                       => (q \in new.ids <=> Belongs(bank[q], mode, levels))
                  /\ ~(bank[q].no > new.no)
      <4>1. CASE q \in changes
        BY <1>1, <3>6, <4>1
      <4>2. CASE q \notin changes
        <5>1. bank[q].at <= pool.mark /\ (q \in new.ids <=> q \in pool.ids)
          BY <1>1, <3>1, <3>6, <3>7, <4>2 DEF StampedSince
        <5>2. bank[q].no <= pool.no \/ q \in Missed(over, w, <<mode, levels>>)
          BY <1>1, <2>2, <3>7, <5>1 DEF PoolInv
        <5>3. QED
          BY <1>1, <2>2, <3>6, <5>1, <5>2 DEF PoolInv
      <4>3. QED
        BY <4>1, <4>2
    <3>11. ASSUME commits = 0 PROVE new.ids = Matching(bank, mode, levels)
      <4>1. pool.ids = Matching(bank, mode, levels)
        BY <2>2, <3>11 DEF PoolInv
      <4>2. QED
        BY <3>6, <4>1 DEF Matching
    <3>12. QED
      BY <3>5, <3>9, <3>10, <3>11 DEF PoolInv
  <2>5. QED
    BY <2>3, <2>4
<1>5. QED
  BY <1>3, <1>4

\* Pools that were cleared are read from the table, all at this moment.
LEMMA FreshPool ==
  ASSUME NEW c, FreshPools(c), NEW mode, NEW levels, second \in Nat
  PROVE  Pool(c, mode, levels).ids = Matching(bank, mode, levels) /\ Pool(c, mode, levels).at = second
<1>1. CASE <<mode, levels>> \notin DOMAIN c
  BY <1>1 DEF Pool, FullPool
<1>2. CASE <<mode, levels>> \in DOMAIN c
  <2>1. PICK pool : pool = c[<<mode, levels>>]
    OBVIOUS
  <2>2. pool.ids = Matching(bank, mode, levels) /\ pool.at = second
    BY <1>2, <2>1 DEF FreshPools
  <2>3. pool.at + CacheTime >= second
    BY <2>2, BankLimits
  <2>4. Pool(c, mode, levels) = pool
    BY <1>2, <2>1, <2>3 DEF Pool
  <2>5. QED
    BY <2>2, <2>4
<1>3. QED
  BY <1>1, <1>2

LEMMA StoredHolds ==
  ASSUME NEW c, NEW w, NEW over, NEW mode \in Scopes, NEW levels \in SUBSET AnyLevel, NEW pool
  PROVE  /\ CacheInv(c, w, over) /\ PoolInv(pool, mode, levels, Missed(over, w, <<mode, levels>>))
              => CacheInv(Stored(c, <<mode, levels>>, pool), w, over)
         /\ FreshPools(c) /\ pool.ids = Matching(bank, mode, levels) /\ pool.at = second
              => FreshPools(Stored(c, <<mode, levels>>, pool))
<1>1. PICK new : new = Stored(c, <<mode, levels>>, pool)
  OBVIOUS
<1>2. /\ DOMAIN new = DOMAIN c \cup {<<mode, levels>>} /\ new[<<mode, levels>>] = pool
      /\ \A key \in DOMAIN c : key # <<mode, levels>> => new[key] = c[key]
  BY <1>1 DEF Stored
<1>3. ASSUME CacheInv(c, w, over), PoolInv(pool, mode, levels, Missed(over, w, <<mode, levels>>))
      PROVE  CacheInv(new, w, over)
  <2>1. ASSUME NEW key \in DOMAIN new
        PROVE  key \in Scopes \X SUBSET AnyLevel /\ PoolInv(new[key], key[1], key[2], Missed(over, w, key))
    <3>1. CASE key = <<mode, levels>>
      BY <1>2, <1>3, <3>1
    <3>2. CASE key # <<mode, levels>>
      BY <1>2, <1>3, <2>1, <3>2 DEF CacheInv
    <3>3. QED
      BY <3>1, <3>2
  <2>2. QED
    BY <2>1 DEF CacheInv
<1>4. ASSUME FreshPools(c), pool.ids = Matching(bank, mode, levels), pool.at = second
      PROVE  FreshPools(new)
  BY <1>2, <1>4 DEF FreshPools
<1>5. QED
  BY <1>1, <1>3, <1>4

\* A choice: a question of the pool it names, one asked of late only when as many were as the
\* pool has; and the one that the table tells, when the pools are as the table is.
LEMMA SelectHolds ==
  ASSUME BankTypeOK, NEW c, NEW w \in Staff, NEW over, CacheInv(c, w, over), NEW d, Demand(d),
         d.mode \in Scopes, NEW n \in Nat
  PROVE  LET r == SelectCandidate(c, d, n) IN
         /\ CacheInv(r.cache, w, over) /\ (FreshPools(c) => FreshPools(r.cache))
         /\ r.id \in Nat \cup {Nobody} /\ r.of \subseteq QuestionIds /\ IsFiniteSet(r.of)
         /\ Repeated(r.id, d, r.of)
         /\ commits = 0 \/ FreshPools(c) => r.id = Chosen(d, n)
<1>1. /\ TriedFirst(d) \in SUBSET AnyLevel /\ d.allowed \in SUBSET AnyLevel
      /\ d.recent \subseteq Nat /\ IsFiniteSet(d.recent)
  BY FirstLevels DEF Demand, QuestionIds
<1>2. second \in Nat
  BY DecksPossible DEF BankTypeOK
<1>3. PICK pool : pool = Pool(c, d.mode, TriedFirst(d))
  OBVIOUS
<1>4. PICK mine : mine = Stored(c, <<d.mode, TriedFirst(d)>>, pool)
  OBVIOUS
<1>5. PICK q : q = PickOrRepeat(pool.ids, d.recent, n)
  OBVIOUS
<1>6. PICK wide : wide = Pool(mine, d.mode, d.allowed)
  OBVIOUS
<1>7. PICK p : p = PickOrRepeat(wide.ids, d.recent, n)
  OBVIOUS
<1>8. PICK r : r = SelectCandidate(c, d, n)
  OBVIOUS
<1>9. r = IF q # Nobody \/ d.allowed = {}
          THEN [cache |-> mine, id |-> q, of |-> pool.ids]
          ELSE [cache |-> Stored(mine, <<d.mode, d.allowed>>, wide), id |-> p, of |-> wide.ids]
  BY <1>3, <1>4, <1>5, <1>6, <1>7, <1>8 DEF SelectCandidate
<1>10. /\ PoolInv(pool, d.mode, TriedFirst(d), Missed(over, w, <<d.mode, TriedFirst(d)>>))
       /\ CacheInv(mine, w, over)
       /\ FreshPools(c) => FreshPools(mine) /\ pool.ids = Matching(bank, d.mode, TriedFirst(d))
  <2>1. PoolInv(pool, d.mode, TriedFirst(d), Missed(over, w, <<d.mode, TriedFirst(d)>>))
    BY <1>1, <1>3, PoolHolds
  <2>2. FreshPools(c) => pool.ids = Matching(bank, d.mode, TriedFirst(d)) /\ pool.at = second
    BY <1>2, <1>3, FreshPool
  <2>3. QED
    BY <1>1, <1>4, <2>1, <2>2, StoredHolds
<1>11. /\ PoolInv(wide, d.mode, d.allowed, Missed(over, w, <<d.mode, d.allowed>>))
       /\ CacheInv(Stored(mine, <<d.mode, d.allowed>>, wide), w, over)
       /\ FreshPools(c) => /\ FreshPools(Stored(mine, <<d.mode, d.allowed>>, wide))
                           /\ wide.ids = Matching(bank, d.mode, d.allowed)
  <2>1. PoolInv(wide, d.mode, d.allowed, Missed(over, w, <<d.mode, d.allowed>>))
    BY <1>1, <1>6, <1>10, PoolHolds
  <2>2. FreshPools(c) => wide.ids = Matching(bank, d.mode, d.allowed) /\ wide.at = second
    BY <1>2, <1>6, <1>10, FreshPool
  <2>3. QED
    BY <1>1, <1>10, <2>1, <2>2, StoredHolds
<1>12. /\ pool.ids \subseteq Nat /\ pool.ids \subseteq QuestionIds /\ IsFiniteSet(pool.ids)
       /\ wide.ids \subseteq Nat /\ wide.ids \subseteq QuestionIds /\ IsFiniteSet(wide.ids)
  BY <1>10, <1>11 DEF PoolInv, PoolOK, QuestionIds
<1>13. /\ q \in Nat \cup {Nobody} /\ (q \in d.recent => Cardinality(d.recent) >= Cardinality(pool.ids))
       /\ p \in Nat \cup {Nobody} /\ (p \in d.recent => Cardinality(d.recent) >= Cardinality(wide.ids))
  <2>1. /\ pool.ids = {} => q = Nobody
        /\ pool.ids # {} => q \in pool.ids
        /\ q \in d.recent => Cardinality(d.recent) >= Cardinality(pool.ids)
    BY <1>1, <1>5, <1>12, PickOrRepeatIs
  <2>2. /\ wide.ids = {} => p = Nobody
        /\ wide.ids # {} => p \in wide.ids
        /\ p \in d.recent => Cardinality(d.recent) >= Cardinality(wide.ids)
    BY <1>1, <1>7, <1>12, PickOrRepeatIs
  <2>3. QED
    BY <1>12, <2>1, <2>2
<1>14. CacheInv(r.cache, w, over) /\ (FreshPools(c) => FreshPools(r.cache))
  BY <1>9, <1>10, <1>11
<1>15. /\ r.id \in Nat \cup {Nobody} /\ r.of \subseteq QuestionIds /\ IsFiniteSet(r.of)
       /\ Repeated(r.id, d, r.of)
  BY <1>9, <1>12, <1>13 DEF Repeated
<1>16. ASSUME commits = 0 \/ FreshPools(c) PROVE r.id = Chosen(d, n)
  <2>1. pool.ids = Matching(bank, d.mode, TriedFirst(d)) /\ wide.ids = Matching(bank, d.mode, d.allowed)
    BY <1>10, <1>11, <1>16 DEF PoolInv
  <2>2. r.id = IF q # Nobody \/ d.allowed = {} THEN q ELSE p
    BY <1>9
  <2>3. QED
    BY <1>5, <1>7, <2>1, <2>2 DEF Chosen
<1>17. QED
  BY <1>8, <1>14, <1>15, <1>16

\* The table tells a question that is in it.
LEMMA ChosenThere ==
  ASSUME BankTypeOK, NEW d, Demand(d), NEW n \in Nat
  PROVE  Chosen(d, n) \in DOMAIN bank \cup {Nobody}
<1>1. BankTable(bank) /\ d.recent \subseteq Nat /\ IsFiniteSet(d.recent)
  BY DEF BankTypeOK, Demand, QuestionIds
<1>2. ASSUME NEW levels
      PROVE  PickOrRepeat(Matching(bank, d.mode, levels), d.recent, n) \in DOMAIN bank \cup {Nobody}
  <2>1. PICK ids : ids = Matching(bank, d.mode, levels)
    OBVIOUS
  <2>2. ids \subseteq DOMAIN bank /\ ids \subseteq Nat /\ IsFiniteSet(ids)
    BY <1>1, <2>1, ListedIn
  <2>3. /\ ids = {} => PickOrRepeat(ids, d.recent, n) = Nobody
        /\ ids # {} => PickOrRepeat(ids, d.recent, n) \in ids
    BY <1>1, <2>2, PickOrRepeatIs
  <2>4. QED
    BY <2>1, <2>2, <2>3
<1>3. QED
  BY <1>2 DEF Chosen

LEMMA NoPools ==
  ASSUME NEW w, NEW over
  PROVE  CacheInv(<<>>, w, over) /\ FreshPools(<<>>)
<1>1. DOMAIN <<>> = {}
  OBVIOUS
<1>2. QED
  BY <1>1 DEF CacheInv, FreshPools

\* What a worker knows to be overtaken after a choice that may have cleared its pools.
OvertakenOf(w, cleared) == IF cleared THEN {o \in overtaken : o[1] # w} ELSE overtaken

LEMMA ResolvedHolds ==
  ASSUME BankInv, NEW w \in Staff, NEW d, Demand(d), d.mode \in Scopes, NEW n \in Nat
  PROVE  LET r == Resolved(w, d, n) IN
         /\ r.cleared \in BOOLEAN /\ CacheInv(r.cache, w, OvertakenOf(w, r.cleared))
         /\ r.id \in DOMAIN bank \cup {Nobody}
         /\ commits = 0 => r.id = Chosen(d, n)
<1>1. BankTypeOK /\ CacheInv(pools[w], w, overtaken)
  BY DEF BankInv, PoolsInv
<1>2. PICK one : one = SelectCandidate(pools[w], d, n)
  OBVIOUS
<1>3. PICK two : two = SelectCandidate(<<>>, d, n)
  OBVIOUS
<1>4. PICK r : r = Resolved(w, d, n)
  OBVIOUS
<1>5. r = IF one.id = Nobody \/ one.id \in DOMAIN bank
          THEN [cache |-> one.cache, id |-> one.id, cleared |-> FALSE]
          ELSE [cache |-> two.cache, id |-> two.id, cleared |-> TRUE]
  BY <1>2, <1>3, <1>4 DEF Resolved
<1>6. CacheInv(one.cache, w, overtaken) /\ (commits = 0 => one.id = Chosen(d, n))
  BY <1>1, <1>2, SelectHolds
<1>7. CacheInv(two.cache, w, {o \in overtaken : o[1] # w}) /\ two.id = Chosen(d, n)
  <2>1. PICK over : over = {o \in overtaken : o[1] # w}
    OBVIOUS
  <2>2. CacheInv(<<>>, w, over) /\ FreshPools(<<>>)
    BY NoPools
  <2>3. PICK none : none = <<>>
    OBVIOUS
  <2>4. CacheInv(two.cache, w, over) /\ two.id = Chosen(d, n)
    BY <1>1, <1>3, <2>2, <2>3, SelectHolds
  <2>5. QED
    BY <2>1, <2>4
<1>8. Chosen(d, n) \in DOMAIN bank \cup {Nobody}
  BY <1>1, ChosenThere
<1>9. CASE one.id = Nobody \/ one.id \in DOMAIN bank
  <2>1. r.cache = one.cache /\ r.id = one.id /\ r.cleared = FALSE
    BY <1>5, <1>9
  <2>2. QED
    BY <1>4, <1>6, <1>9, <2>1 DEF OvertakenOf
<1>10. CASE ~(one.id = Nobody \/ one.id \in DOMAIN bank)
  <2>1. r.cache = two.cache /\ r.id = two.id /\ r.cleared = TRUE
    BY <1>5, <1>10
  <2>2. QED
    BY <1>4, <1>7, <1>8, <2>1 DEF OvertakenOf
<1>11. QED
  BY <1>9, <1>10

-----------------------------------------------------------------------------
(* The set of the day. *)

LEMMA OwnRowsListed ==
  ASSUME BankTable(bank), NEW levels
  PROVE  OwnRows(bank, levels) \subseteq DOMAIN bank /\ OwnRows(bank, levels) \subseteq Nat /\ IsFiniteSet(OwnRows(bank, levels))
<1>1. OwnRows(bank, levels) \in SUBSET DOMAIN bank
  BY DEF OwnRows
<1>2. QED
  BY <1>1, FS_Subset DEF BankTable, QuestionIds

\* What is of a level is of several.
LEMMA CandidatesAre ==
  ASSUME BankTypeOK, NEW level \in BankLevels
  PROVE  /\ DailyCandidates(bank, level) \subseteq OwnRows(bank, BankLevels)
         /\ OwnRows(bank, BankLevels) # {} => DailyCandidates(bank, level) # {}
         /\ DailyCandidates(bank, level) \subseteq Nat /\ IsFiniteSet(DailyCandidates(bank, level))
<1>1. {level} \subseteq BankLevels /\ LevelsUpTo(level) \subseteq BankLevels
  <2>1. BankLevels = 1..Cardinality(BankLevels) /\ Cardinality(BankLevels) \in Nat
    BY BankLimits, FS_CardinalityType
  <2>2. QED
    BY <2>1 DEF LevelsUpTo
<1>2. \/ DailyCandidates(bank, level) = OwnRows(bank, {level}) /\ DailyCandidates(bank, level) # {}
      \/ DailyCandidates(bank, level) = OwnRows(bank, LevelsUpTo(level)) /\ DailyCandidates(bank, level) # {}
      \/ DailyCandidates(bank, level) = OwnRows(bank, BankLevels)
  BY DEF DailyCandidates
<1>3. /\ OwnRows(bank, {level}) \subseteq OwnRows(bank, BankLevels)
      /\ OwnRows(bank, LevelsUpTo(level)) \subseteq OwnRows(bank, BankLevels)
  BY <1>1 DEF OwnRows
<1>4. OwnRows(bank, BankLevels) \subseteq Nat /\ IsFiniteSet(OwnRows(bank, BankLevels))
  BY OwnRowsListed DEF BankTypeOK
<1>5. DailyCandidates(bank, level) \in SUBSET OwnRows(bank, BankLevels)
  BY <1>2, <1>3
<1>6. QED
  BY <1>2, <1>4, <1>5, FS_Subset

\* The first m positions of a set of the day.
Prefix(s, m, all) ==
  /\ s \in [1..m -> all]
  /\ \A p \in 1..m :
       s[p] = PickOrRepeat(DailyCandidates(bank, PositionLevels[p]), {s[k] : k \in 1..(p - 1)}, deck.dice[p])

LEMMA PrefixGrows ==
  ASSUME BankTypeOK, NEW all, all = OwnRows(bank, BankLevels), all # {},
         NEW m \in Nat, m < Len(PositionLevels), NEW s, Prefix(s, m, all)
  PROVE  \E t : Prefix(t, m + 1, all)
<1>1. m + 1 \in DOMAIN PositionLevels /\ PositionLevels[m + 1] \in BankLevels
  BY BankLimits
<1>2. deck.dice[m + 1] \in Nat
  BY <1>1, DecksPossible DEF BankTypeOK
<1>3. PICK candidates : candidates = DailyCandidates(bank, PositionLevels[m + 1])
  OBVIOUS
<1>4. candidates \subseteq all /\ candidates # {} /\ candidates \subseteq Nat /\ IsFiniteSet(candidates)
  BY <1>1, <1>3, CandidatesAre
<1>5. all \subseteq Nat
  BY OwnRowsListed DEF BankTypeOK
<1>6. PICK before : before = {s[k] : k \in 1..m}
  OBVIOUS
<1>7. before \subseteq Nat /\ IsFiniteSet(before)
  <2>1. s \in [1..m -> all]
    BY DEF Prefix
  <2>2. before \in SUBSET all
    BY <1>6, <2>1
  <2>3. IsFiniteSet(all)
    BY OwnRowsListed DEF BankTypeOK
  <2>4. QED
    BY <1>5, <2>2, <2>3, FS_Subset
<1>8. PICK q : q = PickOrRepeat(candidates, before, deck.dice[m + 1])
  OBVIOUS
<1>9. q \in all
  BY <1>2, <1>4, <1>7, <1>8, PickOrRepeatIs
<1>10. PICK t : t = [k \in 1..(m + 1) |-> IF k = m + 1 THEN q ELSE s[k]]
  OBVIOUS
<1>11. t \in [1..(m + 1) -> all] /\ t[m + 1] = q /\ \A k \in 1..m : t[k] = s[k]
  BY <1>9, <1>10 DEF Prefix
<1>12. ASSUME NEW p \in 1..(m + 1)
       PROVE  t[p] = PickOrRepeat(DailyCandidates(bank, PositionLevels[p]), {t[k] : k \in 1..(p - 1)}, deck.dice[p])
  <2>1. {t[k] : k \in 1..(p - 1)} = {s[k] : k \in 1..(p - 1)}
    BY <1>11
  <2>2. CASE p = m + 1
    <3>1. p - 1 = m
      BY <2>2
    <3>2. {t[k] : k \in 1..(p - 1)} = before
      BY <1>6, <2>1, <3>1
    <3>3. QED
      BY <1>3, <1>8, <1>11, <2>2, <3>2
  <2>3. CASE p \in 1..m
    BY <1>11, <2>1, <2>3 DEF Prefix
  <2>4. QED
    BY <2>2, <2>3
<1>13. QED
  BY <1>11, <1>12 DEF Prefix

\* There is a set of the day as soon as there is a candidate.
LEMMA PrefixPossible ==
  ASSUME BankTypeOK, NEW all, all = OwnRows(bank, BankLevels), all # {}
  PROVE  \E s : Prefix(s, Len(PositionLevels), all)
<1>1. Len(PositionLevels) \in Nat
  BY BankLimits
<1>2. PICK T : T = {m \in 0..Len(PositionLevels) : ~\E s : Prefix(s, m, all)}
  OBVIOUS
<1>3. ASSUME T # {} PROVE FALSE
  <2>1. T \subseteq Nat
    BY <1>2
  <2>2. PICK x \in T : \A y \in T : x <= y
    BY <1>3, <2>1, LeastNumber
  <2>3. x \in 0..Len(PositionLevels) /\ ~\E s : Prefix(s, x, all)
    BY <1>2, <2>2
  <2>4. x # 0
    <3>1. PICK s : s = [k \in 1..0 |-> 0]
      OBVIOUS
    <3>2. s \in [1..0 -> all] /\ 1..0 = {}
      BY <3>1
    <3>3. Prefix(s, 0, all)
      BY <3>2 DEF Prefix
    <3>4. QED
      BY <2>3, <3>3
  <2>5. PICK m \in Nat : x = m + 1
    BY <2>3, <2>4
  <2>6. m \in 0..Len(PositionLevels) /\ m < Len(PositionLevels) /\ ~(x <= m)
    BY <1>1, <2>3, <2>5
  <2>7. m \notin T
    BY <2>2, <2>6
  <2>8. PICK s : Prefix(s, m, all)
    BY <1>2, <2>6, <2>7
  <2>9. \E t : Prefix(t, m + 1, all)
    BY <2>6, <2>8, PrefixGrows
  <2>10. QED
    BY <2>3, <2>5, <2>9
<1>4. QED
  BY <1>1, <1>2, <1>3

LEMMA NewSetTyped ==
  ASSUME BankTypeOK, NEW fallback \in Nat \cup {Nobody}
  PROVE  NewSet(fallback) \in [DOMAIN PositionLevels -> Nat]
<1>1. PICK all : all = OwnRows(bank, BankLevels)
  OBVIOUS
<1>2. all \subseteq Nat
  BY <1>1, OwnRowsListed DEF BankTypeOK
<1>3. DOMAIN PositionLevels = 1..Len(PositionLevels)
  BY BankLimits
<1>4. CASE all = {}
  <2>1. BuiltSet(bank, deck.dice) = <<>>
    BY <1>1, <1>4 DEF BuiltSet
  <2>2. QED
    BY <2>1 DEF NewSet, Static
<1>5. CASE all # {}
  <2>1. \E s \in [DOMAIN PositionLevels -> all] :
          \A p \in DOMAIN PositionLevels :
            s[p] = PickOrRepeat(DailyCandidates(bank, PositionLevels[p]), {s[k] : k \in 1..(p - 1)}, deck.dice[p])
    <3>1. PICK s : Prefix(s, Len(PositionLevels), all)
      BY <1>1, <1>5, PrefixPossible
    <3>2. s \in [DOMAIN PositionLevels -> all]
      BY <1>3, <3>1 DEF Prefix
    <3>3. \A p \in DOMAIN PositionLevels :
            s[p] = PickOrRepeat(DailyCandidates(bank, PositionLevels[p]), {s[k] : k \in 1..(p - 1)}, deck.dice[p])
      BY <1>3, <3>1 DEF Prefix
    <3>4. QED
      BY <3>2, <3>3
  <2>2. BuiltSet(bank, deck.dice) \in [DOMAIN PositionLevels -> all]
    BY <1>1, <1>5, <2>1 DEF BuiltSet
  <2>3. [DOMAIN PositionLevels -> all] \subseteq [DOMAIN PositionLevels -> Nat]
    BY <1>2
  <2>4. QED
    BY <2>2, <2>3 DEF NewSet, Static
<1>6. QED
  BY <1>4, <1>5

-----------------------------------------------------------------------------
(* What lasts while the table does. *)

Steady == UNCHANGED <<second, bank, deck, commits>>

LEMMA SteadySet ==
  ASSUME Steady
  PROVE  /\ Scopes' = Scopes /\ DaySet' = DaySet /\ OpeningDay' = OpeningDay
         /\ (BankTable(bank) => BankTable(bank)')
<1>1. Scopes' = Scopes /\ OpeningDay' = OpeningDay /\ (BankTable(bank) => BankTable(bank)')
  BY DEF Steady, Scopes, OpeningDay
<1>2. DaySet' = DaySet
  BY DEF Steady, DaySet, NewSet, Chosen
<1>3. QED
  BY <1>1, <1>2

LEMMA SteadyCache ==
  ASSUME Steady, NEW c, NEW w, NEW over, CacheInv(c, w, over)
  PROVE  CacheInv(c, w, over)'
BY SteadySet DEF Steady, CacheInv, PoolInv, PoolOK, Missed

LEMMA SteadyHand ==
  ASSUME Steady, NEW a
  PROVE  /\ Fetching(a) => Fetching(a)'
         /\ HandInv(a) => HandInv(a)'
BY SteadySet DEF Steady, Fetching, HandInv

LEMMA SteadyChoice ==
  ASSUME Steady
  PROVE  /\ \A d, n : Chosen(d, n)' = Chosen(d, n)
         /\ \A k : DayAnswer(k)' = DayAnswer(k)
<1>1. \A d, n : Chosen(d, n)' = Chosen(d, n)
  BY DEF Steady, Chosen
<1>2. \A k : DayAnswer(k)' = DayAnswer(k)
  BY <1>1, SteadySet DEF Steady, DayAnswer
<1>3. QED
  BY <1>1, <1>2

LEMMA SteadyAsked ==
  ASSUME Steady, deleted \subseteq deleted', NEW e, AskedInv(e)
  PROVE  AskedInv(e)'
BY SteadySet, SteadyChoice DEF Steady, AskedInv

-----------------------------------------------------------------------------
(* The parts of the invariant that a step may leave alone. *)

TableTyped ==
  /\ deck \in Decks
  /\ second \in 0..deck.end /\ commits \in Nat
  /\ BankTable(bank) /\ \A q \in DOMAIN bank : bank[q].at <= second /\ bank[q].no <= commits

ImportTyped ==
  \/ import = Nobody
  \/ /\ import \in [rows : {import.rows}, replace : BOOLEAN]
     /\ BankTable(import.rows) /\ \A q \in DOMAIN import.rows : import.rows[q].at <= second

PoolsTyped ==
  /\ DOMAIN pools = Staff
  /\ \A w \in Staff : \A key \in DOMAIN pools[w] :
       key \in Scopes \X SUBSET AnyLevel /\ PoolOK(pools[w][key])

HandTyped(a) == a = Idle \/ Fetching(a) \/ a \in OpeningDay \cup Planning

WorkTyped == DOMAIN asking = Staff /\ \A w \in Staff : HandTyped(asking[w])

LEMMA BankParts ==
  BankTypeOK <=> /\ TableTyped /\ ImportTyped /\ PoolsTyped /\ WorkTyped
                 /\ today7 \in {<<>>} \cup [DOMAIN PositionLevels -> Nat]
BY DEF BankTypeOK, TableTyped, ImportTyped, PoolsTyped, WorkTyped, HandTyped

LEMMA Bounds ==
  ASSUME TableTyped
  PROVE  /\ second \in Nat /\ commits \in Nat /\ deck.end \in Nat /\ BankTable(bank)
         /\ DOMAIN bank \subseteq QuestionIds /\ DOMAIN bank \subseteq Nat
         /\ \A q \in DOMAIN bank : bank[q] \in QuestionRow /\ bank[q].at \in 0..second /\ bank[q].no \in 0..commits
<1>1. deck.end \in Nat
  BY DecksPossible DEF TableTyped
<1>2. second \in Nat /\ commits \in Nat /\ BankTable(bank)
  BY <1>1 DEF TableTyped
<1>3. \A q \in DOMAIN bank : bank[q] \in QuestionRow
  BY <1>2 DEF BankTable
<1>4. \A q \in DOMAIN bank : bank[q].at \in Nat /\ bank[q].no \in Nat
  BY <1>3 DEF QuestionRow
<1>5. QED
  BY <1>1, <1>2, <1>3, <1>4 DEF TableTyped, BankTable, QuestionIds

LEMMA SteadyTable ==
  ASSUME Steady
  PROVE  /\ TableTyped => TableTyped'
         /\ ImportTyped /\ import' = import => ImportTyped'
<1>1. TableTyped => TableTyped'
  BY DEF Steady, TableTyped, BankTable
<1>2. ImportTyped /\ import' = import => ImportTyped'
  BY DEF Steady, ImportTyped, BankTable
<1>3. QED
  BY <1>1, <1>2

LEMMA PoolsStay ==
  ASSUME BankInv, Steady, pools' = pools, overtaken' = overtaken
  PROVE  PoolsInv' /\ PoolsTyped'
<1>1. ASSUME NEW w \in Staff PROVE CacheInv(pools[w], w, overtaken)'
  <2>1. PICK c : c = pools[w]
    OBVIOUS
  <2>2. PICK over : over = overtaken
    OBVIOUS
  <2>3. CacheInv(c, w, over)
    BY <2>1, <2>2 DEF BankInv, PoolsInv
  <2>4. CacheInv(c, w, over)'
    BY <2>3, SteadyCache
  <2>5. QED
    BY <2>1, <2>2, <2>4
<1>2. PoolsInv'
  BY <1>1 DEF PoolsInv
<1>3. DOMAIN pools' = Staff
  BY DEF BankInv, BankTypeOK
<1>4. QED
  BY <1>2, <1>3 DEF PoolsInv, CacheInv, PoolInv, PoolsTyped

\* A worker's pools change, and with them perhaps what it was overtaken by.
LEMMA OneCache ==
  ASSUME BankInv, Steady, NEW w \in Staff, NEW c, NEW cleared \in BOOLEAN,
         CacheInv(c, w, OvertakenOf(w, cleared)), pools' = [pools EXCEPT ![w] = c], overtaken' = OvertakenOf(w, cleared)
  PROVE  PoolsInv' /\ PoolsTyped'
<1>1. DOMAIN pools = Staff
  BY DEF BankInv, BankTypeOK
<1>2. ASSUME NEW v \in Staff PROVE CacheInv(pools[v], v, overtaken)'
  <2>1. PICK old : old = overtaken
    OBVIOUS
  <2>2. PICK over : over = OvertakenOf(w, cleared)
    OBVIOUS
  <2>3. PICK mine : mine = pools'[v]
    OBVIOUS
  <2>4. CacheInv(mine, v, over)
    <3>1. CASE v = w
      BY <1>1, <2>2, <2>3, <3>1
    <3>2. CASE v # w
      <4>1. mine = pools[v] /\ CacheInv(mine, v, old)
        BY <1>1, <2>1, <2>3, <3>2 DEF BankInv, PoolsInv
      <4>2. \A key : Missed(over, v, key) = Missed(old, v, key)
        BY <2>1, <2>2, <3>2 DEF Missed, OvertakenOf
      <4>3. QED
        BY <4>1, <4>2 DEF CacheInv
    <3>3. QED
      BY <3>1, <3>2
  <2>5. CacheInv(mine, v, over)'
    BY <2>4, SteadyCache
  <2>6. QED
    BY <2>2, <2>3, <2>5
<1>3. PoolsInv'
  BY <1>2 DEF PoolsInv
<1>4. QED
  BY <1>1, <1>3 DEF PoolsInv, CacheInv, PoolInv, PoolsTyped

LEMMA OneHand ==
  ASSUME BankInv, Steady, NEW w \in Staff, NEW a, HandTyped(a), HandInv(a), asking' = [asking EXCEPT ![w] = a]
  PROVE  WorkTyped' /\ WorkInv'
<1>1. DOMAIN asking = Staff /\ \A v \in Staff : HandTyped(asking[v]) /\ HandInv(asking[v])
  BY DEF BankInv, BankTypeOK, HandTyped, WorkInv
<1>2. ASSUME NEW v \in Staff PROVE HandTyped(asking[v])' /\ HandInv(asking[v])'
  <2>1. PICK b : b = asking'[v]
    OBVIOUS
  <2>2. HandTyped(b) /\ HandInv(b)
    BY <1>1, <2>1
  <2>3. HandInv(b)'
    BY <2>2, SteadyHand
  <2>4. HandTyped(b)'
    BY <2>2, SteadyHand, SteadySet DEF HandTyped
  <2>5. QED
    BY <2>1, <2>3, <2>4
<1>3. QED
  BY <1>1, <1>2 DEF WorkTyped, WorkInv

LEMMA HandsStay ==
  ASSUME BankInv, Steady, asking' = asking
  PROVE  WorkTyped' /\ WorkInv'
<1>1. ASSUME NEW v \in Staff PROVE HandTyped(asking[v])' /\ HandInv(asking[v])'
  <2>1. PICK b : b = asking[v]
    OBVIOUS
  <2>2. HandTyped(b) /\ HandInv(b)
    BY <2>1 DEF BankInv, BankTypeOK, HandTyped, WorkInv
  <2>3. HandInv(b)'
    BY <2>2, SteadyHand
  <2>4. HandTyped(b)'
    BY <2>2, SteadyHand, SteadySet DEF HandTyped
  <2>5. QED
    BY <2>1, <2>3, <2>4
<1>2. QED
  BY <1>1 DEF WorkTyped, WorkInv, BankInv, BankTypeOK

\* What was asked stays asked, and what was graded graded.
LEMMA AnswersStay ==
  ASSUME BankInv, Steady, asked' = asked, deleted' = deleted,
         \A g \in graded' : \/ g \in graded
                            \/ g.n \in DOMAIN asked /\ (g.id = asked[g.n].id \/ asked[g.n].id \in deleted)
  PROVE  AnswersInv'
<1>1. ASSUME NEW n \in DOMAIN asked PROVE AskedInv(asked[n])'
  <2>1. PICK e : e = asked[n]
    OBVIOUS
  <2>2. AskedInv(e)
    BY <1>1, <2>1 DEF BankInv, AnswersInv
  <2>3. AskedInv(e)'
    BY <2>2, SteadyAsked
  <2>4. QED
    BY <2>1, <2>3
<1>2. \A g \in graded' : g.n \in DOMAIN asked /\ (g.id = asked[g.n].id \/ asked[g.n].id \in deleted)
  BY DEF BankInv, AnswersInv
<1>3. asked \in Seq(ToSet(asked))
  BY DEF BankInv, AnswersInv
<1>4. QED
  BY <1>1, <1>2, <1>3 DEF AnswersInv, ToSet

LEMMA DayStays ==
  ASSUME BankInv, Steady, today7' = today7, renewed' = renewed
  PROVE  DayInv'
BY SteadySet DEF BankInv, DayInv, Steady

LEMMA Together ==
  ASSUME BankInv, Steady, import' = import \/ ImportTyped', PoolsInv', PoolsTyped', WorkTyped', WorkInv',
         AnswersInv', DayInv', today7' \in {<<>>} \cup [DOMAIN PositionLevels -> Nat], PlansInv'
  PROVE  BankInv'
<1>1. TableTyped' /\ ImportTyped'
  BY SteadyTable, BankParts DEF BankInv
<1>2. BankTypeOK'
  BY <1>1 DEF BankTypeOK, TableTyped, ImportTyped, PoolsTyped, WorkTyped, HandTyped
<1>3. QED
  BY <1>2 DEF BankInv

-----------------------------------------------------------------------------
(* One lemma for each action. *)

LEMMA DeckTyped ==
  ASSUME BankInv
  PROVE  /\ \A d \in deck.demands : Demand(d) /\ d.mode \in Scopes
         /\ deck.seeds \subseteq Nat /\ deck.positions \subseteq DOMAIN PositionLevels
         /\ deck.dice \in [DOMAIN PositionLevels -> Nat] /\ deck.lot \in Nat /\ deck.rounds \in Seq(BankLevels)
         /\ \A b \in deck.batches : BankTable(b.rows) /\ b.replace \in BOOLEAN
<1>1. deck \in Decks
  BY DEF BankInv, BankTypeOK
<1>2. QED
  BY <1>1, DecksPossible DEF Scopes

LEMMA PlansStay ==
  ASSUME BankInv, plans' = plans
  PROVE  PlansInv'
BY DEF BankInv, PlansInv

\* One more question is asked.
LEMMA AskHolds ==
  ASSUME BankInv, Steady, NEW e, AskedInv(e), asked' = Append(asked, e), deleted' = deleted, graded' = graded
  PROVE  AnswersInv'
<1>1. PICK old : old = asked
  OBVIOUS
<1>2. PICK now : now = Append(old, e)
  OBVIOUS
<1>3. old \in Seq(ToSet(old)) /\ \A n \in DOMAIN old : AskedInv(old[n])
  BY <1>1 DEF BankInv, AnswersInv
<1>4. /\ DOMAIN old = 1..Len(old) /\ Len(old) \in Nat
      /\ DOMAIN now = 1..(Len(old) + 1) /\ now[Len(old) + 1] = e /\ \A n \in DOMAIN old : now[n] = old[n]
  <2>1. PICK S : S = ToSet(old) \cup {e}
    OBVIOUS
  <2>2. old \in Seq(S) /\ e \in S
    BY <1>3, <2>1
  <2>3. QED
    BY <1>2, <2>2
<1>5. now \in Seq(ToSet(now))
  <2>1. PICK T : T = ToSet(now)
    OBVIOUS
  <2>2. e \in T /\ \A n \in DOMAIN old : old[n] \in T
    BY <1>4, <2>1 DEF ToSet
  <2>3. old \in Seq(T)
    BY <1>3, <1>4, <2>2
  <2>4. QED
    BY <1>2, <2>1, <2>2, <2>3
<1>6. ASSUME NEW n \in DOMAIN now PROVE AskedInv(now[n])'
  <2>1. PICK x : x = now[n]
    OBVIOUS
  <2>2. AskedInv(x)
    BY <1>3, <1>4, <2>1
  <2>3. AskedInv(x)'
    BY <2>2, SteadyAsked
  <2>4. QED
    BY <2>1, <2>3
<1>7. \A g \in graded : g.n \in DOMAIN now /\ (g.id = now[g.n].id \/ now[g.n].id \in deleted)
  <2>1. \A g \in graded : g.n \in DOMAIN old /\ (g.id = old[g.n].id \/ old[g.n].id \in deleted)
    BY <1>1 DEF BankInv, AnswersInv
  <2>2. DOMAIN old \subseteq DOMAIN now
    BY <1>4
  <2>3. QED
    BY <1>4, <2>1, <2>2
<1>8. asked' = now
  BY <1>1, <1>2
<1>9. QED
  BY <1>5, <1>6, <1>7, <1>8 DEF AnswersInv

LEMMA IdleHolds == HandTyped(Idle) /\ HandInv(Idle)
BY DEF HandTyped, HandInv, Idle

LEMMA ChooseStep ==
  ASSUME BankInv, NEW w \in Staff, NEW d \in deck.demands, NEW n \in deck.seeds, ChooseQuestion(w, d, n)
  PROVE  BankInv'
<1>1. Steady
  BY DEF ChooseQuestion, Steady
<1>2. Demand(d) /\ d.mode \in Scopes /\ n \in Nat
  BY DeckTyped
<1>3. PICK r : r = SelectCandidate(pools[w], d, n)
  OBVIOUS
<1>4. BankTypeOK /\ CacheInv(pools[w], w, overtaken)
  BY DEF BankInv, PoolsInv
<1>5. /\ CacheInv(r.cache, w, overtaken)
      /\ r.id \in Nat \cup {Nobody} /\ r.of \subseteq QuestionIds /\ IsFiniteSet(r.of) /\ Repeated(r.id, d, r.of)
  BY <1>2, <1>3, <1>4, SelectHolds
<1>6. PICK a : a = [do |-> "FETCH", demand |-> d, n |-> n, id |-> r.id, of |-> r.of, again |-> FALSE]
  OBVIOUS
<1>7. HandTyped(a) /\ HandInv(a)
  <2>1. /\ a \in [do : {"FETCH"}, demand : deck.demands, n : deck.seeds, id : Nat \cup {Nobody},
                  of : SUBSET QuestionIds, again : BOOLEAN]
        /\ a.do = "FETCH" /\ a.id = r.id /\ a.demand = d /\ a.of = r.of
    BY <1>5, <1>6
  <2>2. QED
    BY <1>5, <2>1 DEF HandTyped, Fetching, HandInv
<1>8. WorkTyped' /\ WorkInv'
  BY <1>1, <1>3, <1>6, <1>7, OneHand DEF ChooseQuestion
<1>9. PoolsInv' /\ PoolsTyped'
  BY <1>1, <1>3, <1>5, OneCache DEF ChooseQuestion, OvertakenOf
<1>10. AnswersInv' /\ DayInv' /\ PlansInv'
  BY <1>1, AnswersStay, DayStays, PlansStay DEF ChooseQuestion, BankInv, AnswersInv
<1>11. today7' \in {<<>>} \cup [DOMAIN PositionLevels -> Nat]
  BY DEF BankInv, BankTypeOK, ChooseQuestion
<1>12. QED
  BY <1>1, <1>8, <1>9, <1>10, <1>11, Together DEF ChooseQuestion

LEMMA FetchStep ==
  ASSUME BankInv, NEW w \in Staff, Fetch(w)
  PROVE  BankInv'
<1>1. Steady /\ DayInv' /\ PlansInv' /\ today7' \in {<<>>} \cup [DOMAIN PositionLevels -> Nat]
  <2>1. Steady
    BY DEF Fetch, Steady
  <2>2. QED
    BY <2>1, DayStays, PlansStay DEF Fetch, BankInv, BankTypeOK
<1>2. PICK a : a = asking[w]
  OBVIOUS
<1>3. Fetching(a) /\ Repeated(a.id, a.demand, a.of)
  <2>1. a.do = "FETCH" /\ HandInv(a) /\ (a = Idle \/ Fetching(a) \/ a \in OpeningDay \cup Planning)
    BY <1>2 DEF Fetch, BankInv, BankTypeOK, WorkInv
  <2>2. QED
    BY <2>1 DEF HandInv, Idle, OpeningDay, Planning
<1>4. PICK d : d = a.demand
  OBVIOUS
<1>5. /\ d \in deck.demands /\ Demand(d) /\ d.mode \in Scopes /\ a.n \in Nat /\ a.id \in Nat \cup {Nobody}
      /\ d.recent \subseteq QuestionIds
  <2>1. d \in deck.demands /\ a.n \in deck.seeds /\ a.id \in Nat \cup {Nobody}
    BY <1>3, <1>4 DEF Fetching
  <2>2. QED
    BY <2>1, DeckTyped DEF Demand
<1>6. ASSUME NEW id, id \in {Static, Nobody} \/ (id = a.id /\ id \in DOMAIN bank), Serve(w, d, id, a.of, 0),
             UNCHANGED <<pools, overtaken>>
      PROVE  BankInv'
  <2>1. PICK e : e = [demand |-> d, id |-> id, of |-> a.of, daily |-> 0, there |-> id \in DOMAIN bank]
    OBVIOUS
  <2>2. /\ e.demand = d /\ e.id = id /\ e.of = a.of /\ e.daily = 0
        /\ (id \in DOMAIN bank => e.there)
    BY <2>1
  <2>3. Repeated(id, d, a.of)
    <3>1. Static \notin QuestionIds /\ Nobody \notin QuestionIds
      BY BankLimits DEF QuestionIds
    <3>2. QED
      BY <1>3, <1>4, <1>5, <1>6, <3>1 DEF Repeated
  <2>4. id \in Nat \cup {Nobody}
    BY <1>5, <1>6 DEF Static
  <2>5. AskedInv(e)
    BY <1>5, <1>6, <2>2, <2>3, <2>4 DEF AskedInv
  <2>6. AnswersInv'
    BY <1>1, <1>6, <2>1, <2>5, AskHolds DEF Serve, Fetch
  <2>7. WorkTyped' /\ WorkInv'
    BY <1>1, <1>6, IdleHolds, OneHand DEF Serve
  <2>8. PoolsInv' /\ PoolsTyped'
    BY <1>1, <1>6, PoolsStay
  <2>9. QED
    BY <1>1, <2>6, <2>7, <2>8, Together DEF Fetch
<1>7. CASE a.id = Nobody \/ (a.again /\ a.id \notin DOMAIN bank)
  <2>1. PICK id : id = StaticFor(d)
    OBVIOUS
  <2>2. id \in {Static, Nobody}
    BY <2>1 DEF StaticFor
  <2>3. Serve(w, d, id, a.of, 0) /\ UNCHANGED <<pools, overtaken>>
    BY <1>2, <1>4, <1>7, <2>1 DEF Fetch
  <2>4. QED
    BY <1>6, <2>2, <2>3
<1>8. CASE ~(a.id = Nobody \/ (a.again /\ a.id \notin DOMAIN bank)) /\ a.id \in DOMAIN bank
  <2>1. Serve(w, d, a.id, a.of, 0) /\ UNCHANGED <<pools, overtaken>>
    BY <1>2, <1>4, <1>8 DEF Fetch
  <2>2. QED
    BY <1>6, <1>8, <2>1
<1>9. CASE ~(a.id = Nobody \/ (a.again /\ a.id \notin DOMAIN bank)) /\ a.id \notin DOMAIN bank
  <2>1. PICK r : r = SelectCandidate(<<>>, d, a.n)
    OBVIOUS
  <2>2. PICK over : over = OvertakenOf(w, TRUE)
    OBVIOUS
  <2>3. PICK none : none = <<>>
    OBVIOUS
  <2>4. /\ CacheInv(r.cache, w, over)
        /\ r.id \in Nat \cup {Nobody} /\ r.of \subseteq QuestionIds /\ IsFiniteSet(r.of) /\ Repeated(r.id, d, r.of)
    <3>1. BankTypeOK /\ CacheInv(none, w, over)
      BY <2>3, NoPools DEF BankInv
    <3>2. r = SelectCandidate(none, d, a.n)
      BY <2>1, <2>3
    <3>3. QED
      BY <1>5, <3>1, <3>2, SelectHolds
  <2>5. PICK b : b = [a EXCEPT !.id = r.id, !.of = r.of, !.again = TRUE]
    OBVIOUS
  <2>6. /\ pools' = [pools EXCEPT ![w] = r.cache] /\ overtaken' = over
        /\ asking' = [asking EXCEPT ![w] = b] /\ asked' = asked
    BY <1>2, <1>4, <1>9, <2>1, <2>2, <2>5 DEF Fetch, OvertakenOf
  <2>7. HandTyped(b) /\ HandInv(b)
    <3>1. /\ b \in [do : {"FETCH"}, demand : deck.demands, n : deck.seeds, id : Nat \cup {Nobody},
                    of : SUBSET QuestionIds, again : BOOLEAN]
          /\ b.do = "FETCH" /\ b.id = r.id /\ b.demand = d /\ b.of = r.of
      BY <1>3, <1>4, <2>4, <2>5 DEF Fetching
    <3>2. QED
      BY <2>4, <3>1 DEF HandTyped, Fetching, HandInv
  <2>8. WorkTyped' /\ WorkInv'
    BY <1>1, <2>6, <2>7, OneHand
  <2>9. PoolsInv' /\ PoolsTyped'
    BY <1>1, <2>2, <2>4, <2>6, OneCache
  <2>10. AnswersInv'
    BY <1>1, <2>6, AnswersStay DEF Fetch, BankInv, AnswersInv
  <2>11. QED
    BY <1>1, <2>8, <2>9, <2>10, Together DEF Fetch
<1>10. QED
  BY <1>7, <1>8, <1>9

LEMMA GradeStep ==
  ASSUME BankInv, NEW w \in Staff, NEW n \in DOMAIN asked, Grade(w, n)
  PROVE  BankInv'
<1>1. Steady /\ DayInv' /\ PlansInv' /\ WorkTyped' /\ WorkInv' /\ today7' \in {<<>>} \cup [DOMAIN PositionLevels -> Nat]
  <2>1. Steady
    BY DEF Grade, Steady
  <2>2. QED
    BY <2>1, DayStays, PlansStay, HandsStay DEF Grade, BankInv, BankTypeOK
<1>2. PICK e : e = asked[n]
  OBVIOUS
<1>3. AskedInv(e) /\ e.id # Nobody
  BY <1>2 DEF BankInv, AnswersInv, Grade
<1>4. CASE e.id = Static \/ e.id \in DOMAIN bank
  <2>1. graded' = graded \cup {[n |-> n, id |-> e.id]} /\ pools' = pools /\ overtaken' = overtaken
    BY <1>2, <1>4 DEF Grade
  <2>2. \A g \in graded' : g \in graded \/ (g.n \in DOMAIN asked /\ g.id = asked[g.n].id)
    BY <1>2, <2>1
  <2>3. AnswersInv'
    BY <1>1, <2>2, AnswersStay DEF Grade
  <2>4. PoolsInv' /\ PoolsTyped'
    BY <1>1, <2>1, PoolsStay
  <2>5. QED
    BY <1>1, <2>3, <2>4, Together DEF Grade
<1>5. CASE ~(e.id = Static \/ e.id \in DOMAIN bank)
  <2>1. PICK any : any = [mode |-> e.demand.mode, levels |-> AnyLevel, allowed |-> {}, recent |-> {}]
    OBVIOUS
  <2>2. Demand(any) /\ any.mode \in Scopes
    <3>1. e.demand.mode \in STRING /\ e.demand.mode \in Scopes
      BY <1>3 DEF AskedInv, Demand
    <3>2. any.recent = {} /\ any.mode = e.demand.mode
      BY <2>1
    <3>3. any \in [mode : STRING, levels : SUBSET AnyLevel, allowed : SUBSET BankLevels, recent : {any.recent}]
      BY <2>1, <3>1, <3>2
    <3>4. QED
      BY <3>1, <3>2, <3>3, FS_EmptySet DEF Demand
  <2>3. PICK other : other = Resolved(w, any, 0)
    OBVIOUS
  <2>4. PICK x : x = IF other.id = Nobody THEN Static ELSE other.id
    OBVIOUS
  <2>5. other.cleared \in BOOLEAN /\ CacheInv(other.cache, w, OvertakenOf(w, other.cleared))
    BY <2>2, <2>3, ResolvedHolds
  <2>6. graded' = graded \cup {[n |-> n, id |-> x]} /\ Cache(w, other)
    BY <1>2, <1>5, <2>1, <2>3, <2>4 DEF Grade
  <2>7. e.id \in deleted
    BY <1>3, <1>5 DEF AskedInv
  <2>8. \A g \in graded' : g \in graded \/ (g.n \in DOMAIN asked /\ asked[g.n].id \in deleted)
    BY <1>2, <2>6, <2>7
  <2>9. AnswersInv'
    BY <1>1, <2>8, AnswersStay DEF Grade
  <2>10. PoolsInv' /\ PoolsTyped'
    BY <1>1, <2>5, <2>6, OneCache DEF Cache, OvertakenOf
  <2>11. QED
    BY <1>1, <2>9, <2>10, Together DEF Grade
<1>6. QED
  BY <1>4, <1>5

LEMMA FallbackTyped ==
  ASSUME BankInv, NEW position \in DOMAIN PositionLevels
  PROVE  Demand(FallbackDemand) /\ FallbackDemand.mode \in Scopes
<1>1. PICK d : d = FallbackDemand
  OBVIOUS
<1>2. PositionLevels[1] \in BankLevels
  BY BankLimits
<1>3. MixMode \in STRING
  BY BankLimits, Zenon
<1>4. d.recent = {} /\ d.mode = MixMode
  BY <1>1 DEF FallbackDemand
<1>5. d \in [mode : STRING, levels : SUBSET AnyLevel, allowed : SUBSET BankLevels, recent : {d.recent}]
  BY <1>1, <1>2, <1>3, <1>4 DEF FallbackDemand, AnyLevel
<1>6. QED
  BY <1>1, <1>4, <1>5, FS_EmptySet DEF Demand, Scopes

LEMMA OpenDailyStep ==
  ASSUME BankInv, NEW w \in Staff, NEW position \in deck.positions, OpenDaily(w, position)
  PROVE  BankInv'
<1>1. Steady /\ DayInv' /\ PlansInv' /\ today7' \in {<<>>} \cup [DOMAIN PositionLevels -> Nat]
  <2>1. Steady
    BY DEF OpenDaily, Steady
  <2>2. QED
    BY <2>1, DayStays, PlansStay DEF OpenDaily, BankInv, BankTypeOK
<1>2. PICK fallback : fallback = Resolved(w, FallbackDemand, deck.lot)
  OBVIOUS
<1>3. /\ fallback.cleared \in BOOLEAN /\ CacheInv(fallback.cache, w, OvertakenOf(w, fallback.cleared))
      /\ fallback.id \in DOMAIN bank \cup {Nobody}
      /\ commits = 0 => fallback.id = Chosen(FallbackDemand, deck.lot)
  <2>1. position \in DOMAIN PositionLevels /\ deck.lot \in Nat
    BY DeckTyped
  <2>2. QED
    BY <1>2, <2>1, FallbackTyped, ResolvedHolds
<1>4. PICK new : new = NewSet(fallback.id)
  OBVIOUS
<1>5. new \in [DOMAIN PositionLevels -> Nat] /\ (commits = 0 => new = DaySet)
  <2>1. fallback.id \in Nat \cup {Nobody}
    BY <1>3, BankParts DEF BankInv, BankTypeOK, BankTable, QuestionIds
  <2>2. QED
    BY <1>3, <1>4, <2>1, NewSetTyped DEF BankInv, DaySet
<1>6. /\ today7 \in {<<>>} \cup [DOMAIN PositionLevels -> Nat]
      /\ commits = 0 => today7 \in {<<>>, DaySet}
  BY DEF BankInv, BankTypeOK, DayInv
<1>7. PICK built : built = IF today7 # <<>> THEN today7 ELSE new
  OBVIOUS
<1>8. PICK a : a = [do |-> "DAILY", position |-> position, seen |-> today7, unseen |-> today7 # <<>>,
                    built |-> built]
  OBVIOUS
<1>9. /\ a.do = "DAILY" /\ a.seen = today7 /\ a.built = built /\ (a.unseen <=> today7 # <<>>)
      /\ a \in OpeningDay
  BY <1>5, <1>6, <1>7, <1>8 DEF OpeningDay
<1>10. HandTyped(a) /\ HandInv(a)
  BY <1>5, <1>6, <1>7, <1>9 DEF HandTyped, HandInv
<1>11. /\ asking' = [asking EXCEPT ![w] = a]
       /\ UNCHANGED <<pools, overtaken>> \/ Cache(w, fallback)
  BY <1>2, <1>4, <1>7, <1>8 DEF OpenDaily, SeenSet
<1>12. WorkTyped' /\ WorkInv'
  BY <1>1, <1>10, <1>11, OneHand
<1>13. AnswersInv'
  BY <1>1, AnswersStay DEF OpenDaily, BankInv, AnswersInv
<1>14. PoolsInv' /\ PoolsTyped'
  <2>1. CASE UNCHANGED <<pools, overtaken>>
    BY <1>1, <2>1, PoolsStay
  <2>2. CASE Cache(w, fallback)
    BY <1>1, <1>3, <2>2, OneCache DEF Cache, OvertakenOf
  <2>3. QED
    BY <1>11, <2>1, <2>2
<1>15. QED
  BY <1>1, <1>12, <1>13, <1>14, Together DEF OpenDaily

LEMMA DailyDemandTyped ==
  ASSUME BankInv, NEW position \in DOMAIN PositionLevels
  PROVE  Demand(DailyDemand(position)) /\ DailyDemand(position).mode \in Scopes /\ DailyDemand(position).recent = {}
<1>1. PICK d : d = DailyDemand(position)
  OBVIOUS
<1>2. PositionLevels[position] \in BankLevels /\ MixMode \in STRING
  <2>1. PositionLevels[position] \in BankLevels
    BY BankLimits
  <2>2. MixMode \in STRING
    BY BankLimits, Zenon
  <2>3. QED
    BY <2>1, <2>2
<1>3. LevelsUpTo(PositionLevels[position]) \subseteq BankLevels
  <2>1. BankLevels = 1..Cardinality(BankLevels) /\ Cardinality(BankLevels) \in Nat
    BY BankLimits, FS_CardinalityType
  <2>2. QED
    BY <1>2, <2>1 DEF LevelsUpTo
<1>4. d.recent = {} /\ d.mode = MixMode
  BY <1>1 DEF DailyDemand
<1>5. d \in [mode : STRING, levels : SUBSET AnyLevel, allowed : SUBSET BankLevels, recent : {d.recent}]
  BY <1>1, <1>2, <1>3, <1>4 DEF DailyDemand, AnyLevel
<1>6. QED
  BY <1>1, <1>4, <1>5, FS_EmptySet DEF Demand, Scopes

LEMMA AskDailyStep ==
  ASSUME BankInv, NEW w \in Staff, AskDaily(w)
  PROVE  BankInv'
<1>1. Steady /\ PlansInv'
  <2>1. Steady
    BY DEF AskDaily, Steady
  <2>2. QED
    BY <2>1, PlansStay DEF AskDaily
<1>2. PICK a : a = asking[w]
  OBVIOUS
<1>3. PICK new : new = DaySet
  OBVIOUS
<1>4. /\ a \in OpeningDay /\ (a.seen = <<>> => ~a.unseen) /\ (commits = 0 => a.built = new)
      /\ a.position \in DOMAIN PositionLevels /\ a.built \in [DOMAIN PositionLevels -> Nat] /\ a.built[a.position] \in Nat
  <2>1. a.do = "DAILY" /\ HandInv(a) /\ (a = Idle \/ Fetching(a) \/ a \in OpeningDay \cup Planning)
    BY <1>2 DEF AskDaily, BankInv, BankTypeOK, WorkInv
  <2>2. a \in OpeningDay
    BY <2>1 DEF Idle, Fetching, Planning
  <2>3. a.position \in DOMAIN PositionLevels /\ a.built \in [DOMAIN PositionLevels -> Nat]
    BY <2>2, DeckTyped DEF OpeningDay
  <2>4. QED
    BY <1>3, <2>1, <2>2, <2>3 DEF HandInv
<1>5. DayInv' /\ today7' \in {<<>>} \cup [DOMAIN PositionLevels -> Nat]
  <2>1. /\ renewed = 0 /\ (commits = 0 => today7 \in {<<>>, new})
        /\ today7 \in {<<>>} \cup [DOMAIN PositionLevels -> Nat]
    BY <1>3 DEF BankInv, BankTypeOK, DayInv
  <2>2. UpsertSet(a)
    BY <1>2 DEF AskDaily
  <2>3. renewed' = 0 /\ today7' \in {today7, a.built}
    BY <1>4, <2>1, <2>2 DEF UpsertSet
  <2>4. DaySet' = new /\ commits' = commits
    BY <1>1, <1>3, SteadySet DEF Steady
  <2>5. QED
    BY <1>4, <2>1, <2>3, <2>4 DEF DayInv
<1>6. PICK d : d = DailyDemand(a.position)
  OBVIOUS
<1>7. PICK id : id = a.built[a.position]
  OBVIOUS
<1>8. PICK other : other = Resolved(w, d, deck.lot)
  OBVIOUS
<1>9. PICK good \in BOOLEAN : good <=> (id \in DOMAIN bank /\ bank[id].level \in d.allowed)
  OBVIOUS
<1>10. PICK x : x = IF good THEN id ELSE IF other.id = Nobody THEN Static ELSE other.id
  OBVIOUS
<1>11. Demand(d) /\ d.mode \in Scopes /\ d.recent = {}
  BY <1>4, <1>6, DailyDemandTyped
<1>12. deck.lot \in Nat
  BY DeckTyped
<1>13. /\ other.cleared \in BOOLEAN /\ CacheInv(other.cache, w, OvertakenOf(w, other.cleared))
       /\ other.id \in DOMAIN bank \cup {Nobody}
       /\ commits = 0 => other.id = Chosen(d, deck.lot)
  BY <1>8, <1>11, <1>12, ResolvedHolds
<1>14. /\ Serve(w, d, x, {}, a.position)
       /\ IF good THEN UNCHANGED <<pools, overtaken>> ELSE Cache(w, other)
  BY <1>2, <1>6, <1>7, <1>8, <1>9, <1>10 DEF AskDaily
<1>15. PICK e : e = [demand |-> d, id |-> x, of |-> {}, daily |-> a.position, there |-> x \in DOMAIN bank]
  OBVIOUS
<1>16. AskedInv(e)
  <2>1. e.demand = d /\ e.id = x /\ e.of = {} /\ e.daily = a.position /\ (x \in DOMAIN bank => e.there)
    BY <1>15
  <2>2. x = Static \/ x \in DOMAIN bank
    BY <1>9, <1>10, <1>13
  <2>3. x \in Nat
    BY <2>2, Bounds, BankParts DEF BankInv, Static
  <2>4. commits = 0 => x = DayAnswer(a.position)
    BY <1>3, <1>4, <1>6, <1>7, <1>9, <1>10, <1>13 DEF DayAnswer
  <2>5. Repeated(x, d, {})
    BY <1>11 DEF Repeated
  <2>6. QED
    BY <1>11, <2>1, <2>2, <2>3, <2>4, <2>5 DEF AskedInv
<1>17. AnswersInv'
  BY <1>1, <1>14, <1>15, <1>16, AskHolds DEF Serve, AskDaily
<1>18. WorkTyped' /\ WorkInv'
  BY <1>1, <1>14, IdleHolds, OneHand DEF Serve
<1>19. PoolsInv' /\ PoolsTyped'
  <2>1. CASE good
    BY <1>1, <1>14, <2>1, PoolsStay
  <2>2. CASE ~good
    BY <1>1, <1>13, <1>14, <2>2, OneCache DEF Cache, OvertakenOf
  <2>3. QED
    BY <2>1, <2>2
<1>20. QED
  BY <1>1, <1>5, <1>17, <1>18, <1>19, Together DEF AskDaily

LEMMA OpenPlanStep ==
  ASSUME BankInv, NEW w \in Staff, OpenPlan(w)
  PROVE  BankInv'
<1>1. Steady
  BY DEF OpenPlan, Steady
<1>2. /\ PoolsInv' /\ PoolsTyped' /\ AnswersInv' /\ DayInv' /\ PlansInv'
      /\ today7' \in {<<>>} \cup [DOMAIN PositionLevels -> Nat]
  BY <1>1, PoolsStay, AnswersStay, DayStays, PlansStay DEF OpenPlan, BankInv, BankTypeOK, AnswersInv
<1>3. PICK a : a = [do |-> "PLAN", ids |-> <<>>, left |-> <<>>]
  OBVIOUS
<1>4. HandTyped(a) /\ HandInv(a)
  <2>1. a.do = "PLAN" /\ a.ids = <<>> /\ a.left = <<>> /\ a \in Planning
    BY <1>3 DEF Planning
  <2>2. Varied(a)
    BY <2>1 DEF Varied
  <2>3. QED
    BY <2>1, <2>2 DEF HandTyped, HandInv
<1>5. asking' = [asking EXCEPT ![w] = a]
  BY <1>3 DEF OpenPlan
<1>6. WorkTyped' /\ WorkInv'
  BY <1>1, <1>4, <1>5, OneHand
<1>7. QED
  BY <1>1, <1>2, <1>6, Together DEF OpenPlan

\* A candidate of a round was not used, or all of the round's level were.
LEMMA RoundCandidatesAre ==
  ASSUME BankInv, NEW used, NEW level \in BankLevels
  PROVE  /\ RoundCandidates(used, level) \subseteq DOMAIN bank
         /\ OfLevel(level) \ used = {} \/ RoundCandidates(used, level) \cap used = {}
<1>1. PICK own : own = OfLevel(level)
  OBVIOUS
<1>2. {level} # AnyLevel
  <2>1. BankLevels = 1..Cardinality(BankLevels) /\ Cardinality(BankLevels) \in Nat
    BY BankLimits, FS_CardinalityType
  <2>2. 0 \notin BankLevels /\ 0 \in AnyLevel
    BY <2>1 DEF AnyLevel
  <2>3. QED
    BY <2>2
<1>3. own = Matching(bank, deck.duelMode, {level})
  BY <1>1, <1>2 DEF OfLevel, Matching, Belongs
<1>4. \/ own \ used # {} /\ RoundCandidates(used, level) = own \ used
      \/ own \ used = {} /\ RoundCandidates(used, level) \subseteq own \cup Matching(bank, deck.duelMode, AnyLevel)
  BY <1>3 DEF RoundCandidates
<1>5. own \subseteq DOMAIN bank /\ Matching(bank, deck.duelMode, AnyLevel) \subseteq DOMAIN bank
  BY <1>1 DEF Matching, OfLevel
<1>6. QED
  BY <1>1, <1>4, <1>5

LEMMA PlanRoundStep ==
  ASSUME BankInv, NEW w \in Staff, PlanRound(w)
  PROVE  BankInv'
<1>1. Steady
  BY DEF PlanRound, Steady
<1>2. /\ PoolsInv' /\ PoolsTyped' /\ AnswersInv' /\ DayInv' /\ PlansInv'
      /\ today7' \in {<<>>} \cup [DOMAIN PositionLevels -> Nat]
  BY <1>1, PoolsStay, AnswersStay, DayStays, PlansStay DEF PlanRound, BankInv, BankTypeOK, AnswersInv
<1>3. PICK a : a = asking[w]
  OBVIOUS
<1>4. a \in Planning /\ Len(a.ids) = Len(a.left) /\ Varied(a)
  <2>1. a.do = "PLAN" /\ HandInv(a) /\ (a = Idle \/ Fetching(a) \/ a \in OpeningDay \cup Planning)
    BY <1>3 DEF PlanRound, BankInv, BankTypeOK, WorkInv
  <2>2. QED
    BY <2>1 DEF HandInv, Idle, Fetching, OpeningDay
<1>5. PICK ids \in Seq(Nat) : ids = a.ids
  BY <1>4 DEF Planning
<1>6. PICK left \in Seq(Nat) : left = a.left
  BY <1>4 DEF Planning
<1>7. Len(ids) < Len(deck.rounds) /\ Len(ids) = Len(left) /\ a.do = "PLAN"
  BY <1>3, <1>4, <1>5, <1>6 DEF PlanRound
<1>8. PICK level \in BankLevels : level = deck.rounds[Len(ids) + 1]
  BY <1>7, DeckTyped
<1>9. PICK used : used = ToSet(ids)
  OBVIOUS
<1>10. PICK own : own = OfLevel(level)
  OBVIOUS
<1>11. PICK candidates : candidates = RoundCandidates(used, level)
  OBVIOUS
<1>12. candidates \subseteq DOMAIN bank /\ (own \ used = {} \/ candidates \cap used = {})
  BY <1>10, <1>11, RoundCandidatesAre
<1>13. BankTable(bank) /\ DOMAIN bank \subseteq Nat
  BY Bounds, BankParts DEF BankInv
<1>14. PICK rest : rest = Cardinality(own \ used)
  OBVIOUS
<1>15. rest \in Nat /\ (own \ used = {} => rest = 0)
  <2>1. own \ used \in SUBSET DOMAIN bank
    BY <1>10 DEF OfLevel
  <2>2. QED
    BY <1>13, <1>14, <2>1, FS_Subset, FS_CardinalityType, FS_EmptySet DEF BankTable
<1>16. PICK q : /\ q = Static \/ q \in candidates
                /\ asking' = [asking EXCEPT ![w] = [a EXCEPT !.ids = Append(@, q), !.left = Append(@, rest)]]
  <2>1. \/ asking' = [asking EXCEPT ![w] = [a EXCEPT !.ids = Append(@, Static), !.left = Append(@, rest)]]
        \/ \E q \in LeastUsed(candidates, ids) :
             asking' = [asking EXCEPT ![w] = [a EXCEPT !.ids = Append(@, q), !.left = Append(@, rest)]]
    BY <1>3, <1>5, <1>8, <1>9, <1>10, <1>11, <1>14 DEF PlanRound
  <2>2. LeastUsed(candidates, ids) \subseteq candidates
    BY DEF LeastUsed
  <2>3. QED
    BY <2>1, <2>2
<1>17. PICK b : b = [a EXCEPT !.ids = Append(@, q), !.left = Append(@, rest)]
  OBVIOUS
<1>18. q \in Nat
  BY <1>12, <1>13, <1>16 DEF Static
<1>19. PICK new : new = Append(ids, q)
  OBVIOUS
<1>20. PICK over : over = Append(left, rest)
  OBVIOUS
<1>21. /\ new \in Seq(Nat) /\ over \in Seq(Nat) /\ Len(new) = Len(over)
       /\ DOMAIN ids = 1..Len(ids) /\ DOMAIN new = 1..(Len(ids) + 1) /\ Len(ids) \in Nat
       /\ new[Len(ids) + 1] = q /\ over[Len(ids) + 1] = rest
       /\ \A n \in 1..Len(ids) : new[n] = ids[n] /\ over[n] = left[n]
  BY <1>7, <1>15, <1>18, <1>19, <1>20
<1>22. b.do = "PLAN" /\ b.ids = new /\ b.left = over /\ b \in Planning
  BY <1>4, <1>5, <1>6, <1>17, <1>19, <1>20, <1>21 DEF Planning
<1>23. Varied(b)
  <2>1. ASSUME NEW n \in 1..(Len(ids) + 1), new[n] # Static, NEW k \in 1..(n - 1), new[k] = new[n]
        PROVE  over[n] = 0
    <3>1. k \in 1..Len(ids) /\ new[k] = ids[k]
      <4>1. Len(ids) \in Nat /\ \A i \in 1..Len(ids) : new[i] = ids[i]
        BY <1>21
      <4>2. k \in 1..Len(ids)
        BY <2>1, <4>1
      <4>3. QED
        BY <4>1, <4>2
    <3>2. CASE n = Len(ids) + 1
      <4>1. q \in candidates
        BY <1>16, <1>21, <2>1, <3>2
      <4>2. ids[k] = q /\ k \in DOMAIN ids
        BY <1>21, <2>1, <3>1, <3>2
      <4>3. q \in used
        BY <1>9, <4>2 DEF ToSet
      <4>4. QED
        BY <1>12, <1>15, <1>21, <3>2, <4>1, <4>3
    <3>3. CASE n \in 1..Len(ids)
      <4>1. ids[n] # Static /\ ids[k] = ids[n]
        BY <1>21, <2>1, <3>1, <3>3
      <4>2. left[n] = 0
        BY <1>4, <1>5, <1>6, <1>21, <2>1, <3>3, <4>1 DEF Varied
      <4>3. QED
        BY <1>21, <3>3, <4>2
    <3>4. QED
      BY <1>21, <3>2, <3>3
  <2>2. QED
    BY <1>21, <1>22, <2>1 DEF Varied
<1>24. HandTyped(b) /\ HandInv(b)
  BY <1>21, <1>22, <1>23 DEF HandTyped, HandInv
<1>25. WorkTyped' /\ WorkInv'
  BY <1>1, <1>16, <1>17, <1>24, OneHand
<1>26. QED
  BY <1>1, <1>2, <1>25, Together DEF PlanRound

LEMMA ClosePlanStep ==
  ASSUME BankInv, NEW w \in Staff, ClosePlan(w)
  PROVE  BankInv'
<1>1. Steady
  BY DEF ClosePlan, Steady
<1>2. PoolsInv' /\ PoolsTyped' /\ AnswersInv' /\ DayInv' /\ today7' \in {<<>>} \cup [DOMAIN PositionLevels -> Nat]
  BY <1>1, PoolsStay, AnswersStay, DayStays DEF ClosePlan, BankInv, BankTypeOK, AnswersInv
<1>3. WorkTyped' /\ WorkInv'
  BY <1>1, IdleHolds, OneHand DEF ClosePlan
<1>4. PICK p : p = [ids |-> asking[w].ids, left |-> asking[w].left]
  OBVIOUS
<1>5. Varied(p)
  <2>1. Varied(asking[w])
    BY DEF ClosePlan, BankInv, WorkInv, HandInv
  <2>2. p.ids = asking[w].ids /\ p.left = asking[w].left
    BY <1>4
  <2>3. QED
    BY <2>1, <2>2 DEF Varied
<1>6. PlansInv'
  BY <1>4, <1>5 DEF ClosePlan, PlansInv, BankInv
<1>7. QED
  BY <1>1, <1>2, <1>3, <1>6, Together DEF ClosePlan

LEMMA BuildStep ==
  ASSUME BankInv, BuildRecords
  PROVE  BankInv'
<1>1. Steady
  BY DEF BuildRecords, Steady
<1>2. /\ PoolsInv' /\ PoolsTyped' /\ WorkTyped' /\ WorkInv' /\ AnswersInv' /\ DayInv' /\ PlansInv'
      /\ today7' \in {<<>>} \cup [DOMAIN PositionLevels -> Nat]
  BY <1>1, PoolsStay, HandsStay, AnswersStay, DayStays, PlansStay
     DEF BuildRecords, BankInv, BankTypeOK, AnswersInv
<1>3. PICK batch \in deck.batches :
        import' = [rows |-> [q \in DOMAIN batch.rows |-> [batch.rows[q] EXCEPT !.at = second]],
                   replace |-> batch.replace]
  BY DEF BuildRecords
<1>4. BankTable(batch.rows) /\ batch.replace \in BOOLEAN
  BY DeckTyped
<1>5. second \in Nat
  BY Bounds, BankParts DEF BankInv
<1>6. PICK stamped : stamped = [q \in DOMAIN batch.rows |-> [batch.rows[q] EXCEPT !.at = second]]
  OBVIOUS
<1>7. BankTable(stamped) /\ \A q \in DOMAIN stamped : stamped[q].at = second
  <2>1. DOMAIN stamped = DOMAIN batch.rows
    BY <1>6
  <2>2. ASSUME NEW q \in DOMAIN stamped PROVE stamped[q] \in QuestionRow /\ stamped[q].at = second
    BY <1>4, <1>5, <1>6, <2>1 DEF BankTable, QuestionRow
  <2>3. stamped \in [DOMAIN stamped -> QuestionRow]
    BY <1>6, <2>1, <2>2
  <2>4. QED
    BY <1>4, <2>1, <2>2, <2>3 DEF BankTable
<1>8. PICK i : i = [rows |-> stamped, replace |-> batch.replace]
  OBVIOUS
<1>9. i.rows = stamped /\ i \in [rows : {i.rows}, replace : BOOLEAN] /\ import' = i
  BY <1>3, <1>4, <1>6, <1>8
<1>10. second' = second
  BY DEF BuildRecords
<1>11. ImportTyped'
  BY <1>5, <1>7, <1>9, <1>10 DEF ImportTyped
<1>12. QED
  BY <1>1, <1>2, <1>11, Together

LEMMA SecondStep ==
  ASSUME BankInv, Second
  PROVE  BankInv'
<1>1. /\ second \in Nat /\ deck.end \in Nat /\ commits \in Nat /\ second' = second + 1 /\ second' \in 0..deck.end
      /\ UNCHANGED <<bank, import, pools, asking, today7, deck, commits, overtaken, asked, plans, renewed, graded, deleted>>
  BY Bounds, BankParts DEF BankInv, Second
<1>2. Scopes' = Scopes /\ OpeningDay' = OpeningDay /\ DaySet' = DaySet
  BY <1>1 DEF Scopes, OpeningDay, DaySet, NewSet, Chosen
<1>3. TableTyped'
  <2>1. \A q \in DOMAIN bank : bank[q].at <= second'
    BY <1>1, Bounds, BankParts DEF BankInv
  <2>2. QED
    BY <1>1, <2>1 DEF BankInv, BankTypeOK, TableTyped
<1>4. ImportTyped'
  <2>1. CASE import = Nobody
    BY <1>1, <2>1 DEF ImportTyped
  <2>2. CASE import # Nobody
    <3>1. /\ import \in [rows : {import.rows}, replace : BOOLEAN]
          /\ BankTable(import.rows) /\ \A q \in DOMAIN import.rows : import.rows[q].at <= second
      BY <2>2 DEF BankInv, BankTypeOK
    <3>2. \A q \in DOMAIN import.rows : import.rows[q].at \in Nat
      BY <3>1 DEF BankTable, QuestionRow
    <3>3. \A q \in DOMAIN import.rows : import.rows[q].at <= second'
      BY <1>1, <3>1, <3>2
    <3>4. QED
      BY <1>1, <3>1, <3>3 DEF ImportTyped
  <2>3. QED
    BY <2>1, <2>2
<1>5. PoolsInv'
  <2>1. ASSUME NEW w \in Staff, NEW key \in DOMAIN pools[w]
        PROVE  key \in Scopes \X SUBSET AnyLevel
               /\ PoolInv(pools[w][key], key[1], key[2], Missed(overtaken, w, key))'
    <3>1. PICK pool : pool = pools[w][key]
      OBVIOUS
    <3>2. PICK over : over = Missed(overtaken, w, key)
      OBVIOUS
    <3>3. key \in Scopes \X SUBSET AnyLevel /\ PoolInv(pool, key[1], key[2], over)
      BY <2>1, <3>1, <3>2 DEF BankInv, PoolsInv, CacheInv
    <3>4. PoolOK(pool)'
      BY <1>1, <3>3 DEF PoolInv, PoolOK
    <3>5. PoolInv(pool, key[1], key[2], over)'
      BY <1>1, <3>3, <3>4 DEF PoolInv, Matching
    <3>6. pools'[w][key] = pool /\ Missed(overtaken, w, key)' = over
      BY <1>1, <3>1, <3>2 DEF Missed
    <3>7. QED
      BY <3>3, <3>5, <3>6
  <2>2. QED
    BY <1>1, <1>2, <2>1 DEF PoolsInv, CacheInv
<1>6. PoolsTyped'
  <2>1. DOMAIN pools' = Staff
    BY <1>1 DEF BankInv, BankTypeOK
  <2>2. QED
    BY <1>5, <2>1 DEF PoolsInv, CacheInv, PoolInv, PoolsTyped
<1>7. WorkTyped' /\ WorkInv'
  <2>1. ASSUME NEW v \in Staff PROVE HandTyped(asking[v])' /\ HandInv(asking[v])'
    <3>1. PICK b : b = asking[v]
      OBVIOUS
    <3>2. HandTyped(b) /\ HandInv(b)
      BY <3>1 DEF BankInv, BankTypeOK, HandTyped, WorkInv
    <3>3. HandTyped(b)' /\ HandInv(b)'
      BY <1>1, <1>2, <3>2 DEF HandTyped, HandInv, Fetching
    <3>4. QED
      BY <1>1, <3>1, <3>3
  <2>2. DOMAIN asking' = Staff
    BY <1>1 DEF BankInv, BankTypeOK
  <2>3. QED
    BY <2>1, <2>2 DEF WorkTyped, WorkInv
<1>8. AnswersInv'
  <2>1. \A k : DayAnswer(k)' = DayAnswer(k)
    <3>1. \A d, n : Chosen(d, n)' = Chosen(d, n)
      BY <1>1 DEF Chosen
    <3>2. QED
      BY <1>1, <1>2, <3>1 DEF DayAnswer
  <2>2. ASSUME NEW n \in DOMAIN asked PROVE AskedInv(asked[n])'
    <3>1. PICK e : e = asked[n]
      OBVIOUS
    <3>2. AskedInv(e)
      BY <2>2, <3>1 DEF BankInv, AnswersInv
    <3>3. AskedInv(e)'
      BY <1>1, <1>2, <2>1, <3>2 DEF AskedInv
    <3>4. QED
      BY <1>1, <3>1, <3>3
  <2>3. QED
    BY <1>1, <2>2 DEF BankInv, AnswersInv
<1>9. DayInv' /\ PlansInv' /\ today7' \in {<<>>} \cup [DOMAIN PositionLevels -> Nat]
  BY <1>1, <1>2 DEF BankInv, BankTypeOK, DayInv, PlansInv
<1>10. BankTypeOK'
  BY <1>3, <1>4, <1>6, <1>7, <1>9 DEF BankTypeOK, TableTyped, ImportTyped, PoolsTyped, WorkTyped, HandTyped
<1>11. QED
  BY <1>5, <1>7, <1>8, <1>9, <1>10 DEF BankInv

LEMMA PersistStep ==
  ASSUME BankInv, PersistRecords
  PROVE  BankInv'
<1>1. PICK new : new = import.rows
  OBVIOUS
<1>2. PICK staying : staying = IF import.replace THEN {} ELSE DOMAIN bank \ DOMAIN new
  OBVIOUS
<1>3. /\ import # Nobody /\ commits' = commits + 1 /\ import' = Nobody
      /\ bank' = [q \in staying \cup DOMAIN new |->
                    IF q \in DOMAIN new THEN [new[q] EXCEPT !.no = commits + 1] ELSE bank[q]]
      /\ deleted' = deleted \cup (DOMAIN bank \ (staying \cup DOMAIN new))
      /\ UNCHANGED <<second, pools, asking, today7, deck, asked, plans, renewed, graded>>
  BY <1>1, <1>2 DEF PersistRecords
<1>4. /\ second \in Nat /\ second' = second /\ commits \in Nat /\ commits' \in Nat /\ commits' # 0 /\ deck' = deck
      /\ BankTable(bank)
      /\ \A q \in DOMAIN bank : bank[q] \in QuestionRow /\ bank[q].at \in 0..second /\ bank[q].no \in 0..commits
  BY <1>3, Bounds, BankParts DEF BankInv
<1>5. BankTable(new) /\ \A q \in DOMAIN new : new[q] \in QuestionRow /\ new[q].at \in 0..second
  <2>1. BankTable(new) /\ \A q \in DOMAIN new : new[q].at <= second
    BY <1>1, <1>3 DEF BankInv, BankTypeOK
  <2>2. \A q \in DOMAIN new : new[q] \in QuestionRow
    BY <2>1 DEF BankTable
  <2>3. \A q \in DOMAIN new : new[q].at \in Nat
    BY <2>2 DEF QuestionRow
  <2>4. QED
    BY <1>4, <2>1, <2>2, <2>3
<1>6. PICK table : table = bank'
  OBVIOUS
<1>7. /\ staying \subseteq DOMAIN bank \ DOMAIN new /\ DOMAIN table = staying \cup DOMAIN new
      /\ \A q \in DOMAIN new : table[q] = [new[q] EXCEPT !.no = commits + 1]
      /\ \A q \in staying : table[q] = bank[q]
  BY <1>2, <1>3, <1>6
<1>8. \A q \in DOMAIN new : /\ table[q] \in QuestionRow /\ table[q].no = commits + 1 /\ table[q].at = new[q].at
  BY <1>4, <1>5, <1>7 DEF QuestionRow
<1>9. BankTable(table) /\ \A q \in DOMAIN table : table[q].at <= second /\ table[q].no <= commits + 1
  <2>1. \A q \in DOMAIN table : table[q] \in QuestionRow /\ table[q].at <= second /\ table[q].no <= commits + 1
    BY <1>4, <1>5, <1>7, <1>8
  <2>2. IsFiniteSet(DOMAIN table) /\ DOMAIN table \subseteq QuestionIds
    <3>1. IsFiniteSet(DOMAIN bank \cup DOMAIN new)
      BY <1>4, <1>5, FS_Union DEF BankTable
    <3>2. DOMAIN table \in SUBSET (DOMAIN bank \cup DOMAIN new)
      BY <1>7
    <3>3. QED
      BY <1>4, <1>5, <1>7, <3>1, <3>2, FS_Subset DEF BankTable
  <2>3. table \in [DOMAIN table -> QuestionRow]
    BY <1>3, <1>6, <2>1
  <2>4. QED
    BY <2>1, <2>2, <2>3 DEF BankTable
<1>10. TableTyped' /\ ImportTyped'
  BY <1>3, <1>4, <1>6, <1>9 DEF TableTyped, ImportTyped, BankInv, BankTypeOK
<1>11. Scopes' = Scopes /\ OpeningDay' = OpeningDay
  BY <1>4 DEF Scopes, OpeningDay
<1>12. PICK over : over = overtaken'
  OBVIOUS
<1>13. /\ overtaken \subseteq over
       /\ \A w \in Staff : \A key \in DOMAIN pools[w] : \A q \in DOMAIN new :
            new[q].at <= pools[w][key].mark => <<w, key, q>> \in over
  <2>1. over = overtaken \cup
          UNION {{<<w, key, q>> :
                    key \in {k \in DOMAIN pools[w] : \E r \in DOMAIN new : new[r].at <= pools[w][k].mark},
                    q \in DOMAIN new} : w \in Staff}
    BY <1>1, <1>12 DEF PersistRecords
  <2>2. ASSUME NEW w \in Staff, NEW key \in DOMAIN pools[w], NEW q \in DOMAIN new, new[q].at <= pools[w][key].mark
        PROVE  <<w, key, q>> \in over
    BY <2>1, <2>2
  <2>3. QED
    BY <2>1, <2>2
<1>14. PoolsInv'
  <2>1. ASSUME NEW w \in Staff, NEW key \in DOMAIN pools[w]
        PROVE  key \in Scopes \X SUBSET AnyLevel
               /\ PoolInv(pools[w][key], key[1], key[2], Missed(overtaken, w, key))'
    <3>1. PICK pool : pool = pools[w][key]
      OBVIOUS
    <3>2. key \in Scopes \X SUBSET AnyLevel /\ PoolInv(pool, key[1], key[2], Missed(overtaken, w, key))
      BY <2>1, <3>1 DEF BankInv, PoolsInv, CacheInv
    <3>3. PoolOK(pool) /\ pool.no \in 0..commits /\ pool.mark \in 0..second
      BY <3>2 DEF PoolInv, PoolOK
    <3>4. PoolOK(pool)'
      BY <1>3, <1>4, <3>3 DEF PoolOK
    <3>5. PICK missed : missed = Missed(overtaken, w, key)'
      OBVIOUS
    <3>6. missed = {q \in DOMAIN table : <<w, key, q>> \in over}
      BY <1>6, <1>12, <3>5 DEF Missed
    <3>7. ASSUME NEW q \in DOMAIN table
          PROVE  /\ table[q].no <= pool.no /\ q \notin missed => (q \in pool.ids <=> Belongs(table[q], key[1], key[2]))
                 /\ table[q].no > pool.no /\ table[q].at <= pool.mark => q \in missed
      <4>1. CASE q \in DOMAIN new
        <5>1. new[q].at <= pool.mark => q \in missed
          BY <1>13, <2>1, <3>1, <3>6, <3>7, <4>1
        <5>2. table[q].no > pool.no
          BY <1>4, <1>8, <3>3, <4>1
        <5>3. ~(table[q].no <= pool.no)
          BY <1>4, <1>8, <3>3, <4>1
        <5>4. QED
          BY <1>8, <4>1, <5>1, <5>3
      <4>2. CASE q \in staying
        <5>1. q \in DOMAIN bank /\ table[q] = bank[q]
          BY <1>7, <4>2
        <5>2. q \in Missed(overtaken, w, key) => q \in missed
          BY <1>13, <3>6, <3>7 DEF Missed
        <5>3. QED
          BY <3>2, <5>1, <5>2 DEF PoolInv
      <4>3. QED
        BY <1>7, <4>1, <4>2
    <3>8. PoolInv(pool, key[1], key[2], missed)'
      BY <1>4, <1>6, <3>4, <3>7 DEF PoolInv
    <3>9. pools'[w][key] = pool
      BY <1>3, <3>1
    <3>10. QED
      BY <3>2, <3>5, <3>8, <3>9
  <2>2. QED
    BY <1>3, <1>11, <2>1 DEF PoolsInv, CacheInv
<1>15. PoolsTyped'
  <2>1. DOMAIN pools' = Staff
    BY <1>3 DEF BankInv, BankTypeOK
  <2>2. QED
    BY <1>14, <2>1 DEF PoolsInv, CacheInv, PoolInv, PoolsTyped
<1>16. WorkTyped' /\ WorkInv'
  <2>1. ASSUME NEW v \in Staff PROVE HandTyped(asking[v])' /\ HandInv(asking[v])'
    <3>1. PICK b : b = asking[v]
      OBVIOUS
    <3>2. HandTyped(b) /\ HandInv(b)
      BY <3>1 DEF BankInv, BankTypeOK, HandTyped, WorkInv
    <3>3. HandTyped(b)' /\ HandInv(b)'
      BY <1>4, <1>11, <3>2 DEF HandTyped, HandInv, Fetching
    <3>4. QED
      BY <1>3, <3>1, <3>3
  <2>2. DOMAIN asking' = Staff
    BY <1>3 DEF BankInv, BankTypeOK
  <2>3. QED
    BY <2>1, <2>2 DEF WorkTyped, WorkInv
<1>17. AnswersInv'
  <2>1. DOMAIN bank \cup deleted \subseteq DOMAIN table \cup deleted'
    BY <1>3, <1>7
  <2>2. ASSUME NEW n \in DOMAIN asked PROVE AskedInv(asked[n])'
    <3>1. PICK e : e = asked[n]
      OBVIOUS
    <3>2. AskedInv(e)
      BY <2>2, <3>1 DEF BankInv, AnswersInv
    <3>3. AskedInv(e)'
      BY <1>4, <1>6, <1>11, <2>1, <3>2 DEF AskedInv
    <3>4. QED
      BY <1>3, <3>1, <3>3
  <2>3. deleted \subseteq deleted'
    BY <1>3
  <2>4. QED
    BY <1>3, <2>2, <2>3 DEF BankInv, AnswersInv
<1>18. DayInv' /\ PlansInv' /\ today7' \in {<<>>} \cup [DOMAIN PositionLevels -> Nat]
  BY <1>3, <1>4 DEF BankInv, BankTypeOK, DayInv, PlansInv
<1>19. BankTypeOK'
  BY <1>10, <1>15, <1>16, <1>18 DEF BankTypeOK, TableTyped, ImportTyped, PoolsTyped, WorkTyped, HandTyped
<1>20. QED
  BY <1>14, <1>16, <1>17, <1>18, <1>19 DEF BankInv

LEMMA BankStutter ==
  ASSUME BankInv, UNCHANGED bankVars
  PROVE  BankInv'
<1>1. Steady /\ import' = import
  BY DEF bankVars, Steady
<1>2. /\ PoolsInv' /\ PoolsTyped' /\ WorkTyped' /\ WorkInv' /\ AnswersInv' /\ DayInv' /\ PlansInv'
      /\ today7' \in {<<>>} \cup [DOMAIN PositionLevels -> Nat]
  BY <1>1, PoolsStay, HandsStay, AnswersStay, DayStays, PlansStay
     DEF bankVars, BankInv, BankTypeOK, AnswersInv
<1>3. QED
  BY <1>1, <1>2, Together

LEMMA BankStart ==
  ASSUME BankInit
  PROVE  BankInv
<1>1. deck \in Decks
  BY DEF BankInit
<1>2. /\ deck.end \in Nat \ {0} /\ BankTable(deck.bank)
      /\ \A q \in DOMAIN deck.bank : deck.bank[q].at = 0 /\ deck.bank[q].no = 0
  BY <1>1, DecksPossible
<1>3. TableTyped /\ ImportTyped
  BY <1>1, <1>2 DEF BankInit, TableTyped, ImportTyped
<1>4. \A w \in Staff : pools[w] = <<>> /\ asking[w] = Idle
  BY DEF BankInit
<1>5. PoolsInv /\ PoolsTyped
  <2>1. \A w \in Staff : DOMAIN pools[w] = {}
    BY <1>4
  <2>2. DOMAIN pools = Staff
    BY DEF BankInit
  <2>3. QED
    BY <2>1, <2>2 DEF PoolsInv, CacheInv, PoolsTyped
<1>6. WorkTyped /\ WorkInv
  <2>1. DOMAIN asking = Staff
    BY DEF BankInit
  <2>2. QED
    BY <1>4, <2>1, IdleHolds DEF WorkTyped, WorkInv
<1>7. AnswersInv
  <2>1. asked = <<>> /\ graded = {}
    BY DEF BankInit
  <2>2. DOMAIN asked = {} /\ asked \in Seq(ToSet(asked))
    BY <2>1
  <2>3. QED
    BY <2>1, <2>2 DEF AnswersInv
<1>8. DayInv /\ PlansInv /\ today7 \in {<<>>} \cup [DOMAIN PositionLevels -> Nat]
  BY DEF BankInit, DayInv, PlansInv
<1>9. QED
  BY <1>3, <1>5, <1>6, <1>7, <1>8, BankParts DEF BankInv

LEMMA BankStep ==
  ASSUME BankInv, BankNext
  PROVE  BankInv'
<1>1. CASE BuildRecords
  BY <1>1, BuildStep
<1>2. CASE PersistRecords
  BY <1>2, PersistStep
<1>3. CASE Second
  BY <1>3, SecondStep
<1>4. ASSUME NEW w \in Staff, NEW d \in deck.demands, NEW n \in deck.seeds, ChooseQuestion(w, d, n)
      PROVE  BankInv'
  BY <1>4, ChooseStep
<1>5. ASSUME NEW w \in Staff, NEW position \in deck.positions, OpenDaily(w, position)
      PROVE  BankInv'
  BY <1>5, OpenDailyStep
<1>6. ASSUME NEW w \in Staff, NEW n \in DOMAIN asked, Grade(w, n)
      PROVE  BankInv'
  BY <1>6, GradeStep
<1>7. ASSUME NEW w \in Staff, Fetch(w)
      PROVE  BankInv'
  BY <1>7, FetchStep
<1>8. ASSUME NEW w \in Staff, AskDaily(w)
      PROVE  BankInv'
  BY <1>8, AskDailyStep
<1>9. ASSUME NEW w \in Staff, OpenPlan(w)
      PROVE  BankInv'
  BY <1>9, OpenPlanStep
<1>10. ASSUME NEW w \in Staff, PlanRound(w)
       PROVE  BankInv'
  BY <1>10, PlanRoundStep
<1>11. ASSUME NEW w \in Staff, ClosePlan(w)
       PROVE  BankInv'
  BY <1>11, ClosePlanStep
<1>12. QED
  BY <1>1, <1>2, <1>3, <1>4, <1>5, <1>6, <1>7, <1>8, <1>9, <1>10, <1>11 DEF BankNext

\* The invariant of the questions holds in every behaviour.
THEOREM BankInvariant == BankSpec => []BankInv
<1>1. BankInit => BankInv
  BY BankStart
<1>2. BankInv /\ [BankNext]_bankVars => BankInv'
  BY BankStep, BankStutter
<1>3. QED
  BY <1>1, <1>2, PTL DEF BankSpec

-----------------------------------------------------------------------------
(* The properties. *)

LEMMA PoolsAreCurrent ==
  ASSUME BankInv
  PROVE  PoolsCurrent
<1>1. ASSUME NEW w \in Staff, NEW key \in DOMAIN pools[w], NEW q \in DOMAIN bank,
             bank[q].no <= pools[w][key].no, <<w, key, q>> \notin overtaken
      PROVE  q \in pools[w][key].ids <=> Belongs(bank[q], key[1], key[2])
  <2>1. PoolInv(pools[w][key], key[1], key[2], Missed(overtaken, w, key))
    BY DEF BankInv, PoolsInv, CacheInv
  <2>2. q \notin Missed(overtaken, w, key)
    BY <1>1 DEF Missed
  <2>3. QED
    BY <1>1, <2>1, <2>2 DEF PoolInv
<1>2. QED
  BY <1>1 DEF PoolsCurrent

LEMMA QuestionsAreSound ==
  ASSUME BankInv
  PROVE  AskedSound /\ DailySame /\ GradedAsAsked /\ PlanVaried
<1>1. \A n \in DOMAIN asked : AskedInv(asked[n])
  BY DEF BankInv, AnswersInv
<1>2. AskedSound
  BY <1>1 DEF AskedSound, AskedInv, Repeated
<1>3. DailySame
  <2>1. ASSUME commits = 0, NEW m \in DOMAIN asked, NEW n \in DOMAIN asked,
               asked[m].daily # 0, asked[m].daily = asked[n].daily
        PROVE  asked[m].id = asked[n].id
    BY <1>1, <2>1 DEF AskedInv
  <2>2. QED
    BY <2>1 DEF DailySame, BankInv, DayInv
<1>4. GradedAsAsked
  BY DEF GradedAsAsked, BankInv, AnswersInv
<1>5. PlanVaried
  BY DEF PlanVaried, BankInv, PlansInv, Varied
<1>6. QED
  BY <1>2, <1>3, <1>4, <1>5

\* Pools agree with the table as of their last refresh but for what cannot be noticed, in every behaviour.
THEOREM PoolsCurrentThm == BankSpec => []PoolsCurrent
<1>1. BankInv => PoolsCurrent
  BY PoolsAreCurrent
<1>2. QED
  BY <1>1, BankInvariant, PTL

\* What is asked is in the bank, the same for all on a day, graded as asked, and varied in a duel;
\* and the types of the table, pools and updates hold, in every behaviour.
THEOREM BankSoundThm == BankSpec => []BankSound
<1>1. BankInv => BankSound
  BY PoolsAreCurrent, QuestionsAreSound DEF BankSound, BankInv
<1>2. QED
  BY <1>1, BankInvariant, PTL

=============================================================================
