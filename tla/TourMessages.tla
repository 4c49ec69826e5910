---------------------------- MODULE TourMessages ----------------------------
(***************************************************************************)
(* What the players of a tournament are told: the registration push of the *)
(* cup, a standings message that is edited from round to round, reminders  *)
(* and proof cards.                                                        *)
(*                                                                         *)
(* Every message is the work of a Celery task that reads the tournament in *)
(* one transaction, talks to Telegram player by player, and stores what it *)
(* sent in a last one.  Several tasks may run at once.  A task that fails  *)
(* is not run again (the invitation is, which claims every player first).  *)
(*                                                                         *)
(* Stage 0 is the registration, then come the rounds, LastStage is         *)
(* COMPLETED.  Bounds: one waiting task of each kind and origin; deaths,   *)
(* tasks that overlap with one of their kind, messages deleted by players  *)
(* and tasks that players or the clock ask for are Trouble together, but   *)
(* for the death of a push or of a repeated reminder, which is counted     *)
(* apart; and Trouble times does a round last ten minutes longer.          *)
(***************************************************************************)
EXTENDS Naturals, FiniteSets, SequencesExt

CONSTANTS
  Members,       \* the players, 1..n, in the order of the standings
  LastStage,     \* the stage of a completed tournament
  Mailers,       \* worker processes
  Trouble,       \* bound
  Silences,      \* sets of players who may have shut the bot out
  NoId           \* NULL in a column of message ids

ASSUME MailLimits ==
  /\ Members \subseteq Nat /\ IsFiniteSet(Members)
  /\ Mailers \subseteq Nat /\ IsFiniteSet(Mailers)
  /\ LastStage \in Nat \ {0} /\ Trouble \in Nat
  /\ Silences \subseteq SUBSET Members /\ NoId \notin Nat

VARIABLES
  board,    \* the tournament and its participants' rows
  chats,    \* what every player has received
  mails,    \* tasks in the queue
  mailers,  \* tasks under way
  mishaps   \* counted: deaths, overlapping tasks, failed tasks, deletions, extra tasks,
            \* stamps of a reminder that have lapsed

mailVars == <<board, chats, mails, mailers, mishaps>>

Troubled == mishaps.deaths + mishaps.overlaps + mishaps.deletions + mishaps.extras < Trouble
Resting == [do |-> "rest"]
MailKinds == {"round", "final", "cards", "push", "remind"}
Mail(k, who, from) == [do |-> k, who |-> who, from |-> from]

\* The columns a participant has for messages, and the claims of the pushes.
BoardRows ==
  [kind : {"PRIVATE", "DAILY_ARENA"}, stage : 0..LastStage,
   moving : {"no", "early", "late", "owed"}, forgot : BOOLEAN, published : BOOLEAN,
   ids : [Members -> Nat \cup {NoId}], carded : SUBSET Members,
   pushed : SUBSET Members, stamped : BOOLEAN, silent : SUBSET Members]

Over == board.stage = LastStage

\* What waits in the queue, and what a worker has in hand that has sent something to who:
\* the row as its task has read it.
Tasks ==
  [do : MailKinds, who : SUBSET Members, from : {"move", "match", "evening", "player", "clock"}]
Jobs(who) ==
  [do : MailKinds, task : Tasks, stage : 0..LastStage, ids : [Members -> Nat \cup {NoId}],
   carded : SUBSET Members, left : SUBSET Members, sent : [who -> Nat]]

MailTypeOK ==
  /\ board \in BoardRows /\ (board.moving \in {"early", "late"} => ~Over)
  /\ chats \in [Members -> [boards : Seq(0..LastStage), cards : Nat, pushes : Nat, nudges : Nat]]
  /\ mails \subseteq Tasks
  /\ DOMAIN mailers = Mailers
  /\ \A w \in Mailers : mailers[w] = Resting \/ \E who \in SUBSET Members : mailers[w] \in Jobs(who)
  /\ mishaps \in [deaths : Nat, overlaps : Nat, failures : Nat, lost : Nat, deletions : Nat,
                  extras : Nat, lapses : Nat]

MailInit ==
  /\ \E k \in {"PRIVATE", "DAILY_ARENA"}, off \in Silences :
       board = [kind |-> k, stage |-> 0, moving |-> "no", forgot |-> FALSE, published |-> FALSE,
                ids |-> [p \in Members |-> NoId], carded |-> {}, pushed |-> {},
                stamped |-> FALSE, silent |-> off]
  /\ chats = [p \in Members |-> [boards |-> <<>>, cards |-> 0, pushes |-> 0, nudges |-> 0]]
  /\ mails = {} /\ mailers = [w \in Mailers |-> Resting]
  /\ mishaps = [deaths |-> 0, overlaps |-> 0, failures |-> 0, lost |-> 0, deletions |-> 0,
               extras |-> 0, lapses |-> 0]

-----------------------------------------------------------------------------
(* The tournament moves on. *)

News(stage) == Mail(IF stage = LastStage THEN "final" ELSE "round", Members, "move")

\* A new round of the cup, and its end when an answer brings it about, are announced before
\* the transaction commits; everything else afterwards.
MayBeEarly == board.kind = "DAILY_ARENA" /\ board.stage > 0
MayBeLate == board.kind = "PRIVATE" \/ board.stage = 0 \/ board.stage + 1 = LastStage

OpenMove ==
  /\ board.moving = "no" /\ ~Over
  /\ \/ /\ MayBeEarly
        /\ mails' = mails \cup {News(board.stage + 1)}
        /\ board' = [board EXCEPT !.moving = "early"]
     \/ /\ MayBeLate
        /\ board' = [board EXCEPT !.moving = "late"]
        /\ UNCHANGED mails
  /\ UNCHANGED <<chats, mailers, mishaps>>

CommitMove ==
  /\ board.moving \in {"early", "late"}
  /\ board' = [board EXCEPT !.stage = @ + 1, !.stamped = FALSE,
                            !.moving = IF @ = "early" THEN "no" ELSE "owed"]
  /\ UNCHANGED <<chats, mails, mailers, mishaps>>

\* The end of a private tournament is also the time for its proof cards.
Announce ==
  /\ board.moving = "owed"
  /\ mails' = mails \cup {News(board.stage)}
              \cup IF Over /\ board.kind = "PRIVATE" THEN {Mail("cards", Members, "move")} ELSE {}
  /\ board' = [board EXCEPT !.moving = "no"]
  /\ UNCHANGED <<chats, mailers, mishaps>>

\* The worker dies after the commit, or the broker refuses the task: nobody is told.
Forget ==
  /\ board.moving = "owed" /\ Troubled
  /\ mishaps' = [mishaps EXCEPT !.deaths = @ + 1]
  /\ board' = [board EXCEPT !.moving = "no", !.forgot = TRUE]
  /\ UNCHANGED <<chats, mails, mailers>>

Asks(tasks) ==
  /\ Troubled
  /\ mishaps' = [mishaps EXCEPT !.extras = @ + 1]
  /\ mails' = mails \cup tasks

\* A finished private match asks for new boards, and for the cards in case it was the last.
PostMatch ==
  /\ board.kind = "PRIVATE" /\ board.stage \in 1..(LastStage - 1)
  /\ Asks({Mail("round", Members, "match"), Mail("cards", Members, "match")})
  /\ UNCHANGED <<board, chats, mailers>>

\* In the evening the results of the cup are sent once more.
PublishFinal ==
  /\ board.kind = "DAILY_ARENA" /\ Over /\ ~board.published
  /\ mails' = mails \cup {Mail("final", Members, "evening")}
  /\ board' = [board EXCEPT !.published = TRUE]
  /\ UNCHANGED <<chats, mailers, mishaps>>

RequestCard(p) ==
  /\ Over /\ board.kind = "DAILY_ARENA"
  /\ Asks({Mail("cards", {p}, "player")})
  /\ UNCHANGED <<board, chats, mailers>>

\* Whoever shares the result of a private tournament gets his card again.
ShareResult(p) ==
  /\ Over /\ board.kind = "PRIVATE"
  /\ Asks({Mail("cards", {p}, "player")})
  /\ UNCHANGED <<board, chats, mailers>>

\* Invitation and last call are pushes to everybody who has not had them.
SchedulePush ==
  /\ board.kind = "DAILY_ARENA" /\ board.stage = 0
  /\ Asks({Mail("push", Members, "clock")})
  /\ UNCHANGED <<board, chats, mailers>>

ScheduleReminder ==
  /\ board.kind = "DAILY_ARENA" /\ board.stage \in 1..(LastStage - 1)
  /\ Asks({Mail("remind", Members, "clock")})
  /\ UNCHANGED <<board, chats, mailers>>

\* Ten minutes after the stamp it holds no longer, the round goes on, and the job of every
\* ten minutes comes again.
StampLapses ==
  /\ board.stamped /\ board.stage \in 1..(LastStage - 1)
  /\ mishaps.lapses < Trouble
  /\ mishaps' = [mishaps EXCEPT !.lapses = @ + 1]
  /\ board' = [board EXCEPT !.stamped = FALSE]
  /\ mails' = mails \cup {Mail("remind", Members, "clock")}
  /\ UNCHANGED <<chats, mailers>>

-----------------------------------------------------------------------------
(* The tasks. *)

Family(k) == IF k \in {"round", "final"} THEN "boards" ELSE k

\* What a task finds when it reads the tournament: nothing to do, or whom to write to.
Audience(t) ==
  CASE t.do \in {"round", "final"} -> IF board.stage > 0 THEN t.who ELSE {}
    [] t.do = "cards" -> IF Over THEN t.who ELSE {}
    [] t.do = "push" -> IF board.stage = 0 THEN t.who \ board.pushed ELSE {}
    [] OTHER -> IF board.stage \in 1..(LastStage - 1) /\ ~board.stamped THEN t.who ELSE {}

\* Reminders are stamped in the transaction that looks for them; a stamp that is younger
\* than ten minutes keeps the next run of the job away.
Stamped(t) == t.do = "remind"

\* Workers are alike: the first that is free takes the task.
BeginMail(w) ==
  /\ mailers[w] = Resting /\ \A v \in Mailers : v < w => mailers[v] # Resting
  /\ \E t \in mails :
       /\ mails' = mails \ {t}
       /\ board' = IF Stamped(t) /\ Audience(t) # {} THEN [board EXCEPT !.stamped = TRUE] ELSE board
       /\ IF Audience(t) = {} THEN UNCHANGED <<mailers, mishaps>>
          ELSE /\ mailers' = [mailers EXCEPT ![w] =
                    [do |-> t.do, task |-> t, stage |-> board.stage, ids |-> board.ids,
                     carded |-> board.carded, left |-> Audience(t), sent |-> <<>>]]
               /\ \/ /\ \A v \in Mailers : Family(mailers[v].do) # Family(t.do)
                     /\ UNCHANGED mishaps
                  \/ /\ \E v \in Mailers : Family(mailers[v].do) = Family(t.do)
                     /\ Troubled
                     /\ mishaps' = [mishaps EXCEPT !.overlaps = @ + 1]
  /\ UNCHANGED chats

Send(w, p, id) ==
  mailers' = [mailers EXCEPT ![w].left = @ \ {p},
                             ![w].sent = IF id = NoId THEN @ ELSE
                               [q \in DOMAIN @ \cup {p} |-> IF q = p THEN id ELSE @[q]]]

\* Telegram refuses: a task of the cup's boards fails as a whole, the task of a private
\* tournament goes on to store what it has sent, the others skip the player.
Refused(w, p) ==
  /\ mailers' = IF mailers[w].do \notin {"round", "final"} THEN [mailers EXCEPT ![w].left = @ \ {p}]
                ELSE IF board.kind = "PRIVATE" THEN [mailers EXCEPT ![w].left = {}]
                ELSE [mailers EXCEPT ![w] = Resting]
  /\ mishaps' = IF mailers'[w] = Resting THEN [mishaps EXCEPT !.failures = @ + 1] ELSE mishaps
  /\ UNCHANGED <<board, chats>>

\* A mutant of PostBoard: the task fails when a message to be edited is gone.
PostBoardOrFail(w, p) ==
  LET j == mailers[w]  id == j.ids[p]
  IN IF p \in board.silent \/ (id # NoId /\ chats[p].boards[id] = 0) THEN Refused(w, p)
     ELSE /\ chats' = [chats EXCEPT ![p].boards = IF id = NoId THEN Append(@, j.stage)
                                                  ELSE [@ EXCEPT ![id] = j.stage]]
          /\ Send(w, p, IF id = NoId THEN Len(chats[p].boards) + 1 ELSE NoId)
          /\ UNCHANGED <<board, mishaps>>

\* A board is edited where it stands; a new one is sent when there is none, or it is gone.
PostBoard(w, p) ==
  LET j == mailers[w]
      id == j.ids[p]
      stands == id # NoId /\ chats[p].boards[id] # 0
  IN IF p \in board.silent THEN Refused(w, p)
     ELSE /\ chats' = [chats EXCEPT ![p].boards = IF stands THEN [@ EXCEPT ![id] = j.stage]
                                                  ELSE Append(@, j.stage)]
          /\ Send(w, p, IF stands THEN NoId ELSE Len(chats[p].boards) + 1)
          /\ UNCHANGED <<board, mishaps>>

SendCard(w, p) ==
  IF p \in board.silent THEN Refused(w, p)
  ELSE /\ chats' = [chats EXCEPT ![p].cards = @ + 1]
       /\ Send(w, p, 1)
       /\ UNCHANGED <<board, mishaps>>

\* The cup sends a card to nobody twice, as far as the task has read.
PostCard(w, p) ==
  IF board.kind = "DAILY_ARENA" /\ p \in mailers[w].carded
  THEN Send(w, p, NoId) /\ UNCHANGED <<board, chats, mishaps>>
  ELSE SendCard(w, p)

\* The claim of a push and its message are one transaction: whoever claims first, sends.
Claimed(p) == p \in board.pushed
PostPush(w, p) ==
  IF Claimed(p) THEN Send(w, p, NoId) /\ UNCHANGED <<board, chats, mishaps>>
  ELSE /\ board' = [board EXCEPT !.pushed = @ \cup {p}]
       /\ chats' = IF p \in board.silent THEN chats ELSE [chats EXCEPT ![p].pushes = @ + 1]
       /\ Send(w, p, NoId)
       /\ UNCHANGED mishaps

PostNudge(w, p) ==
  IF p \in board.silent THEN Refused(w, p)
  ELSE /\ chats' = [chats EXCEPT ![p].nudges = @ + 1]
       /\ Send(w, p, NoId)
       /\ UNCHANGED <<board, mishaps>>

Busy(w) == mailers[w] # Resting /\ mailers[w].left # {}
Post(w) ==
  /\ Busy(w)
  /\ LET p == Min(mailers[w].left)
     IN CASE mailers[w].do \in {"round", "final"} -> PostBoard(w, p)
          [] mailers[w].do = "cards" -> PostCard(w, p)
          [] mailers[w].do = "push" -> PostPush(w, p)
          [] mailers[w].do = "remind" -> PostNudge(w, p)
  /\ UNCHANGED mails

\* A mutant of StoredIds: the id of a message that replaces another is not kept.
FirstIds(j) ==
  [p \in Members |-> IF p \in DOMAIN j.sent /\ board.ids[p] = NoId THEN j.sent[p] ELSE board.ids[p]]

\* A first message is stored unless another task was faster, one that replaces is stored.
StoredIds(j) ==
  [p \in Members |-> IF p \in DOMAIN j.sent /\ (board.ids[p] = NoId \/ j.ids[p] # NoId)
                     THEN j.sent[p] ELSE board.ids[p]]

Followups(j) ==
  IF j.do = "final" /\ j.stage = LastStage /\ board.kind = "DAILY_ARENA"
  THEN {Mail("cards", Members, j.task.from)} ELSE {}

StoreMail(w) ==
  /\ mailers[w] # Resting /\ mailers[w].left = {}
  /\ LET j == mailers[w]
     IN /\ board' = CASE j.do \in {"round", "final"} -> [board EXCEPT !.ids = StoredIds(j)]
                      [] j.do = "cards" -> [board EXCEPT !.carded = @ \cup DOMAIN j.sent]
                      [] OTHER -> board
        /\ mails' = mails \cup Followups(j)
  /\ mailers' = [mailers EXCEPT ![w] = Resting]
  /\ UNCHANGED <<chats, mishaps>>

\* A push that was asked for may die on top of that, and so may a reminder that is repeated.
MayDie(w) ==
  \/ Troubled
  \/ /\ mishaps.deaths < Trouble
     /\ mailers[w].do = "push" \/ (mailers[w].do = "remind" /\ mishaps.lapses > 0)

\* The worker dies: its task is delivered again (acks_late) when the whole worker is gone,
\* but lost when only the process that runs it is.
MailerDies(w) ==
  /\ mailers[w] # Resting /\ MayDie(w)
  /\ \/ /\ mails' = mails \cup {mailers[w].task}
        /\ mishaps' = [mishaps EXCEPT !.deaths = @ + 1]
     \/ /\ mishaps' = [mishaps EXCEPT !.deaths = @ + 1, !.lost = @ + 1]
        /\ UNCHANGED mails
  /\ mailers' = [mailers EXCEPT ![w] = Resting]
  /\ UNCHANGED <<board, chats>>

\* It dies between the message of a push and the commit of its claim.
PusherDies(w) ==
  /\ Busy(w) /\ mailers[w].do = "push" /\ MayDie(w)
  /\ LET p == Min(mailers[w].left)
     IN p \notin board.silent /\ ~Claimed(p) /\ chats' = [chats EXCEPT ![p].pushes = @ + 1]
  /\ mishaps' = [mishaps EXCEPT !.deaths = @ + 1]
  /\ mails' = mails \cup {mailers[w].task}
  /\ mailers' = [mailers EXCEPT ![w] = Resting]
  /\ UNCHANGED board

PlayerDeletes(p) ==
  /\ Troubled
  /\ \E i \in DOMAIN chats[p].boards :
       chats[p].boards[i] # 0 /\ chats' = [chats EXCEPT ![p].boards[i] = 0]
  /\ mishaps' = [mishaps EXCEPT !.deletions = @ + 1]
  /\ UNCHANGED <<board, mails, mailers>>

MailNext ==
  \/ OpenMove \/ CommitMove \/ Announce \/ Forget \/ PostMatch \/ PublishFinal
  \/ SchedulePush \/ ScheduleReminder \/ StampLapses
  \/ \E p \in Members : RequestCard(p) \/ ShareResult(p) \/ PlayerDeletes(p)
  \/ \E w \in Mailers : BeginMail(w) \/ Post(w) \/ StoreMail(w) \/ MailerDies(w) \/ PusherDies(w)

\* Workers work, transactions end, the beat of the evening comes.
MailFairness ==
  /\ WF_mailVars(CommitMove) /\ WF_mailVars(Announce) /\ WF_mailVars(PublishFinal)
  /\ \A w \in Mailers : WF_mailVars(BeginMail(w) \/ Post(w) \/ StoreMail(w))
MailSpec == MailInit /\ [][MailNext]_mailVars /\ MailFairness

-----------------------------------------------------------------------------
(* Properties. *)

\* Whatever a player has once too often is paid for by a worker that died, by two tasks
\* that ran at once, or by a task of the cup's boards that failed as a whole: boards that
\* stand in his chat, proof cards of the cup, pushes.  Reminders are repeated on purpose,
\* but a worker that dies or a task delivered again never adds one: he has one at most in
\* every round, and one more for every stamp that was ten minutes old before the round was
\* over (run_daily_cup_turn_reminders_async).
NothingTwice ==
  \A p \in Members :
    LET boards == Cardinality({i \in DOMAIN chats[p].boards : chats[p].boards[i] # 0})
        paid == mishaps.deaths + mishaps.overlaps
    IN /\ boards <= 1 + paid + mishaps.failures
       /\ board.kind = "DAILY_ARENA" => chats[p].cards <= 1 + paid
       /\ chats[p].pushes <= 1 + mishaps.deaths
       /\ chats[p].nudges <= board.stage + mishaps.lapses

MailSound == MailTypeOK /\ NothingTwice

\* Whoever the bot can reach sees how it ended: in the cup everybody listed before the first
\* player who has shut the bot out, in a private tournament unless the news was lost.
\* It stays so.  Excused are a task lost with its process, and an older task that was still
\* at work and wrote over it.
ResultSeen ==
  \A p \in Members :
    (Over /\ {q \in board.silent : q <= p} = {})
      ~> \/ mishaps.overlaps + mishaps.lost > 0
         \/ board.forgot /\ board.kind = "PRIVATE"
         \/ \E i \in DOMAIN chats[p].boards : chats[p].boards[i] \in {0, LastStage}
=============================================================================
