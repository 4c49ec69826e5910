-------------------------------- MODULE Arrivals --------------------------------
(***************************************************************************)
(* Who comes to the bot, and whom the bot calls: the first message of a    *)
(* user and the row it creates, links to a duel, the bonus for joining the *)
(* channel, and the daily pushes.                                          *)
(*                                                                         *)
(* A handler reads the row of its user without a lock, creates it or stamps*)
(* it (and so holds it until it commits), does its work, commits, and only *)
(* then sends messages.  A handler that fails or dies is given its update  *)
(* again (module UpdateIntake).  A push job is a task of its own, and two  *)
(* of them may run at once.                                                *)
(***************************************************************************)
EXTENDS Naturals, Sequences, FiniteSets

CONSTANTS
  People,    \* users, by id: 1..n
  Crew,      \* workers that handle updates
  PushMax,   \* DUEL_MAX_PUSH_PER_USER
  Batch,     \* DAILY_PUSH_BATCH_SIZE
  Visits,    \* bounds: what may happen in one behaviour
  NoGuest    \* NULL

PushKinds == {"MORNING", "EVENING_REMINDER"}
MailKinds == {"HOME", "LOBBY", "DAILY", "OFFER", "CHECK", "DUEL"}

\* Who writes, what he presses, and whom or what a /start names.
Messages == [user : People, kind : MailKinds, link : People \cup {NoGuest}]

ASSUME PeopleAssumption == People \subseteq Nat \ {0} /\ NoGuest \notin People
ASSUME LimitsAssumption == PushMax \in Nat /\ Batch \in Nat \ {0}
ASSUME VisitsAssumption ==
  \A v \in Visits :
    /\ v.mail \in Seq(Messages)
    /\ v.here \subseteq People
    /\ v.creator \in People \cup {NoGuest}
    /\ v.runs \in Seq(PushKinds)
    /\ v.faults \in Nat

VARIABLES
  rows,      \* users, with the day's run in rows[u].done
  duel,      \* the row of the duel the links lead to
  mail,      \* updates: NEW, DOING, DONE
  crew,      \* what each worker is doing
  logs,      \* rows of daily_push_logs: a user and a kind of push
  runs,      \* push jobs
  faults,    \* deaths and refused replies so far
  visit,     \* the bounds of this behaviour

\* History, never read by an action.
  claims,    \* bonuses granted, by user
  made,      \* rows created, by user
  heard,      \* how often the creator heard of the opponent
  called,    \* pushes delivered
  due        \* whom a push job had to reach when it began

guestVars == <<rows, duel, mail, crew, logs, runs, faults, visit, claims, made, heard, called, due>>
handling == <<rows, duel, mail, crew, claims, made, heard>>
pushing == <<logs, runs, called, due>>

Resting == [at |-> "IDLE"]
User(k) == visit.mail[k].user
Guest(w) == User(crew[w].k)

\* What a /start names: an inviter, the duel, a tournament or nothing.
Link(w) == visit.mail[crew[w].k].link

Troubles == faults < visit.faults

\* What a worker holds of the update it handles.
Handling ==
  {Resting}
  \cup [at : {"READ", "HOLD"}, k : DOMAIN visit.mail, found : BOOLEAN, claimed : BOOLEAN]
  \cup [at : {"TELL"}, k : DOMAIN visit.mail, joined : BOOLEAN]
  \cup [at : {"REPLY"}, k : DOMAIN visit.mail]

ArrivalsTypeOK ==
  /\ visit \in Visits
  /\ rows \in [People -> [here : BOOLEAN, claimed : BOOLEAN, done : BOOLEAN, by : People \cup {NoGuest}]]
  /\ \A u \in People : rows[u].claimed \/ rows[u].by # NoGuest => rows[u].here
  /\ duel \in [with : People \cup {NoGuest}, over : BOOLEAN, played : BOOLEAN, pushes : 0..PushMax]
  /\ mail \in [DOMAIN visit.mail -> {"NEW", "DOING", "DONE"}]
  /\ crew \in [Crew -> Handling]
  /\ logs \subseteq People \X PushKinds /\ IsFiniteSet(logs)
  /\ runs \in [DOMAIN visit.runs ->
               [at : {"NEW", "LIST", "LOG", "SEND", "END", "LOST"}, after : Nat, left : SUBSET People]]
  /\ faults \in Nat /\ heard \in Nat
  /\ claims \in [People -> Nat] /\ made \in [People -> Nat]
  /\ called \in [People \X PushKinds -> Nat]
  /\ due \in [DOMAIN visit.runs -> SUBSET People]

ArrivalsInit ==
  /\ visit \in Visits
  /\ rows = [u \in People |-> [here |-> u \in visit.here, claimed |-> FALSE, done |-> FALSE, by |-> NoGuest]]
  /\ duel = [with |-> NoGuest, over |-> FALSE, played |-> FALSE, pushes |-> 0]
  /\ mail = [k \in DOMAIN visit.mail |-> "NEW"]
  /\ crew = [w \in Crew |-> Resting]
  /\ logs = {}
  /\ runs = [r \in DOMAIN visit.runs |-> [at |-> "NEW", after |-> 0, left |-> {}]]
  /\ faults = 0
  /\ claims = [u \in People |-> 0] /\ made = [u \in People |-> 0]
  /\ heard = 0
  /\ called = [c \in People \X PushKinds |-> 0]
  /\ due = [r \in DOMAIN visit.runs |-> {}]

-----------------------------------------------------------------------------
(* One update. *)

\* The handler begins and looks for the row of the user.
Take(w, k) ==
  /\ mail[k] = "NEW" /\ crew[w] = Resting
  /\ mail' = [mail EXCEPT ![k] = "DOING"]
  /\ crew' = [crew EXCEPT ![w] =
       [at |-> "READ", k |-> k, found |-> rows[User(k)].here, claimed |-> rows[User(k)].claimed]]
  /\ UNCHANGED <<rows, duel, claims, made, heard, faults, visit>> /\ UNCHANGED pushing

\* What is not committed is gone, and the update will be handled again.
Again(w) ==
  /\ mail' = [mail EXCEPT ![crew[w].k] = "NEW"]
  /\ crew' = [crew EXCEPT ![w] = Resting]

Held(u) == \E w \in Crew : crew[w].at = "HOLD" /\ Guest(w) = u

\* A row of that telegram_user_id was committed meanwhile.
Taken(w) == ~crew[w].found /\ rows[Guest(w)].here

\* It inserts the row, or stamps last_seen_at, once nobody else holds it.
TouchOrCreate(w) ==
  /\ crew[w].at = "READ" /\ ~Held(Guest(w)) /\ ~Taken(w)
  /\ crew' = [crew EXCEPT ![w].at = "HOLD"]
  /\ UNCHANGED <<rows, duel, mail, claims, made, heard, faults, visit>> /\ UNCHANGED pushing

CreateFails(w) ==
  /\ crew[w].at = "READ" /\ ~Held(Guest(w)) /\ Taken(w)
  /\ Again(w)
  /\ UNCHANGED <<rows, duel, claims, made, heard, faults, visit>> /\ UNCHANGED pushing

\* The row at commit: created with the inviter its own /start named, if any.
Settle(w, row) ==
  LET u == Guest(w)
      invited == ~crew[w].found /\ Link(w) \in People \ {u} /\ rows[Link(w)].here
      by == IF invited THEN Link(w) ELSE row.by
  IN /\ rows' = [rows EXCEPT ![u] = [row EXCEPT !.here = TRUE, !.by = by]]
     /\ made' = IF crew[w].found THEN made ELSE [made EXCEPT ![u] = @ + 1]

Tells(w, joined) == crew' = [crew EXCEPT ![w] = [at |-> "TELL", k |-> crew[w].k, joined |-> joined]]

\* A plain /start, the home menu and the shop are shown after the commit.
Home(w) ==
  /\ Settle(w, rows[Guest(w)]) /\ Tells(w, FALSE)
  /\ UNCHANGED <<duel, claims>>

\* The lobby of a tournament is shown before it: a refusal takes it all back.
OpenTournament(w) ==
  /\ Settle(w, rows[Guest(w)])
  /\ crew' = [crew EXCEPT ![w] = [at |-> "REPLY", k |-> crew[w].k]]
  /\ UNCHANGED <<duel, claims>>

\* The answer that completes the run of the day.
CompleteDaily(w) ==
  /\ Settle(w, [rows[Guest(w)] EXCEPT !.done = TRUE]) /\ Tells(w, FALSE)
  /\ UNCHANGED <<duel, claims>>

\* A mutant of Claimed: the row as the handler first read it.
ClaimedAsRead(w) == crew[w].claimed

\* The row under its lock.
Claimed(w) == rows[Guest(w)].claimed

Claim(w) ==
  LET u == Guest(w) IN
  IF Claimed(w) THEN Settle(w, rows[u]) /\ UNCHANGED claims
  ELSE /\ Settle(w, [rows[u] EXCEPT !.claimed = TRUE])
       /\ claims' = [claims EXCEPT ![u] = @ + 1]

\* Telegram may not answer, or not know the user as a member.
CheckBonus(w) ==
  /\ \/ Claim(w)
     \/ Settle(w, rows[Guest(w)]) /\ UNCHANGED claims
  /\ Tells(w, FALSE)
  /\ UNCHANGED duel

\* The offer is shown like a lobby; that there is none, like the shop.
OpenBonus(w) == IF Claimed(w) THEN Home(w) ELSE OpenTournament(w)

\* A mutant of JoinedNow: also who is the opponent already.
JoinedAgain(u) == ~duel.over /\ u # visit.creator /\ duel.with \in {u, NoGuest}

JoinedNow(u) == ~duel.over /\ u # visit.creator /\ duel.with = NoGuest

\* A link to a duel: a seat that is taken and a duel that is over are refused in
\* a message.
JoinByLink(w) ==
  LET u == Guest(w) IN
  /\ Settle(w, rows[u])
  /\ duel' = IF JoinedNow(u) THEN [duel EXCEPT !.with = u] ELSE duel
  /\ Tells(w, JoinedNow(u))
  /\ UNCHANGED claims

Commit(w) ==
  LET kind == visit.mail[crew[w].k].kind IN
  /\ crew[w].at = "HOLD"
  /\ \/ kind = "HOME" /\ Home(w)
     \/ kind = "LOBBY" /\ OpenTournament(w)
     \/ kind = "DAILY" /\ CompleteDaily(w)
     \/ kind = "OFFER" /\ OpenBonus(w)
     \/ kind = "CHECK" /\ CheckBonus(w)
     \/ kind = "DUEL" /\ JoinByLink(w)
  /\ UNCHANGED <<mail, heard, faults, visit>> /\ UNCHANGED pushing

\* After the commit, the creator is heard if there is something left to tell;
\* Telegram may refuse.
NotifyCreator(w) ==
  LET push == crew[w].joined /\ ~duel.played /\ duel.pushes < PushMax IN
  /\ crew[w].at = "TELL"
  /\ duel' = IF push THEN [duel EXCEPT !.pushes = @ + 1] ELSE duel
  /\ \/ heard' = IF push THEN heard + 1 ELSE heard
     \/ push /\ heard' = heard
  /\ crew' = [crew EXCEPT ![w] = [at |-> "REPLY", k |-> crew[w].k]]
  /\ UNCHANGED <<rows, mail, claims, made, faults, visit>> /\ UNCHANGED pushing

Reply(w) ==
  /\ crew[w].at = "REPLY"
  /\ mail' = [mail EXCEPT ![crew[w].k] = "DONE"]
  /\ crew' = [crew EXCEPT ![w] = Resting]
  /\ UNCHANGED <<rows, duel, claims, made, heard, faults, visit>> /\ UNCHANGED pushing

\* The worker dies at any point, or Telegram refuses the reply.
Break(w) ==
  /\ crew[w] # Resting /\ Troubles
  /\ faults' = faults + 1
  /\ Again(w)
  /\ UNCHANGED <<rows, duel, claims, made, heard, visit>> /\ UNCHANGED pushing

\* What module Duel does to the duel meanwhile.
DuelGoesOn ==
  /\ visit.creator # NoGuest
  /\ \/ ~duel.played /\ duel' = [duel EXCEPT !.played = TRUE]
     \/ ~duel.over /\ duel' = [duel EXCEPT !.over = TRUE]
  /\ UNCHANGED <<rows, mail, crew, claims, made, heard, faults, visit>> /\ UNCHANGED pushing

-----------------------------------------------------------------------------
(* A push job. *)

Targets(kind, after) ==
  {u \in People : rows[u].here /\ ~rows[u].done /\ <<u, kind>> \notin logs /\ u > after}

\* The next batch, in the order of the ids.
FirstOf(users) == {u \in users : Cardinality({v \in users : v < u}) < Batch}

ListTargets(r) ==
  LET kind == visit.runs[r]
      found == Targets(kind, runs[r].after)
  IN /\ runs[r].at \in {"NEW", "LIST"}
     /\ runs' = [runs EXCEPT ![r] =
           [@ EXCEPT !.at = IF found = {} THEN "END" ELSE "LOG", !.left = FirstOf(found)]]
     /\ due' = IF runs[r].at = "NEW" THEN [due EXCEPT ![r] = Targets(kind, 0)] ELSE due
     /\ UNCHANGED <<logs, called, faults, visit>> /\ UNCHANGED handling

\* The next one of the batch.
Foremost(u, run) == u \in run.left /\ \A v \in run.left : u <= v

\* u is dealt with.
Onwards(run, u) ==
  [at |-> IF run.left = {u} THEN "LIST" ELSE "LOG", after |-> u, left |-> run.left \ {u}]

\* A mutant of CreatedOnce: the row may be there already.
CreatedAnyway(u, kind) == u \in People

CreatedOnce(u, kind) == <<u, kind>> \notin logs

\* The log row is committed before the message goes out.
LogPush(r) ==
  /\ runs[r].at = "LOG"
  /\ \E u \in People :
       /\ Foremost(u, runs[r])
       /\ IF CreatedOnce(u, visit.runs[r])
          THEN /\ logs' = logs \cup {<<u, visit.runs[r]>>}
               /\ runs' = [runs EXCEPT ![r].at = "SEND"]
          ELSE /\ runs' = [runs EXCEPT ![r] = Onwards(@, u)]
               /\ UNCHANGED logs
  /\ UNCHANGED <<called, due, faults, visit>> /\ UNCHANGED handling

SendPush(r) ==
  /\ runs[r].at = "SEND"
  /\ \E u \in People :
       /\ Foremost(u, runs[r])
       /\ called' = [called EXCEPT ![<<u, visit.runs[r]>>] = @ + 1]
       /\ runs' = [runs EXCEPT ![r] = Onwards(@, u)]
  /\ UNCHANGED <<logs, due, faults, visit>> /\ UNCHANGED handling

\* Telegram refuses this user; the job goes on.
RefusePush(r) ==
  /\ runs[r].at = "SEND" /\ Troubles
  /\ faults' = faults + 1
  /\ \E u \in People : Foremost(u, runs[r]) /\ runs' = [runs EXCEPT ![r] = Onwards(@, u)]
  /\ UNCHANGED <<logs, called, due, visit>> /\ UNCHANGED handling

RunDies(r) ==
  /\ runs[r].at \in {"LIST", "LOG", "SEND"} /\ Troubles
  /\ faults' = faults + 1
  /\ runs' = [runs EXCEPT ![r].at = "LOST"]
  /\ UNCHANGED <<logs, called, due, visit>> /\ UNCHANGED handling

ArrivalsNext ==
  \/ \E w \in Crew :
       \/ \E k \in DOMAIN mail : Take(w, k)
       \/ TouchOrCreate(w) \/ CreateFails(w) \/ Commit(w) \/ NotifyCreator(w) \/ Reply(w) \/ Break(w)
  \/ DuelGoesOn
  \/ \E r \in DOMAIN runs :
       ListTargets(r) \/ LogPush(r) \/ SendPush(r) \/ RefusePush(r) \/ RunDies(r)

ArrivalsSpec == ArrivalsInit /\ [][ArrivalsNext]_guestVars

-----------------------------------------------------------------------------
(* Properties. *)

\* A user has one row and one bonus, however many first messages and presses
\* of the button race, fail and are handled again.
BonusOnce ==
  \A u \in People :
    /\ made[u] = (IF rows[u].here /\ u \notin visit.here THEN 1 ELSE 0)
    /\ claims[u] = (IF rows[u].claimed THEN 1 ELSE 0)

\* The creator hears of the opponent at most once, and only of a seat that is
\* taken, though the update that took it may be handled several times.
ToldOnce == heard <= 1 /\ (heard = 1 => duel.with # NoGuest)

\* Nobody gets a push of the day twice, whatever jobs overlap; a job that runs
\* to its end passed over nobody it had to reach; and a push is lost only when
\* something failed.
PushedOnce ==
  /\ \A c \in DOMAIN called : called[c] <= 1
  /\ \A r \in DOMAIN runs : runs[r].at = "END" =>
       \A u \in due[r] : rows[u].done \/ <<u, visit.runs[r]>> \in logs
  /\ LET sending == {r \in DOMAIN runs : runs[r].at = "SEND"}
         sent == {c \in DOMAIN called : called[c] # 0}
     IN sent \subseteq logs /\ Cardinality(logs \ sent) <= faults + Cardinality(sending)

\* However first messages, presses and jobs race, fail and are handled again: one account
\* and one bonus for a user, one message to the creator, one push of a kind a day
\* (user_onboarding.py, channel_bonus.py, daily_challenge_async.py).
ArrivalsSound == ArrivalsTypeOK /\ BonusOnce /\ ToldOnce /\ PushedOnce
=============================================================================
