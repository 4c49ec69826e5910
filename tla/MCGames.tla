------------------------------ MODULE MCGames -------------------------------
(***************************************************************************)
(* Four parts side by side in one instance for TLC: a duel with players    *)
(* who open the list that writes without a lock, the duels of two friends, *)
(* a tournament, and the messages of a tournament.  The scene is chosen at *)
(* the start: its part takes all the steps, the others stay in one of      *)
(* their initial states.  All but the single duel are extended, so that    *)
(* TLC evaluates what they assume of their constants, and keep the names   *)
(* of what they promise.                                                   *)
(***************************************************************************)
EXTENDS Lobby, Tournament, TourMessages, TLC

CONSTANTS creator, f1, q1, q2, q3, ana, ben, none

VARIABLES
  scene,
  duel, plan, asked, retired, due, lists, first

duelPart == <<duel, plan, asked, retired, due, lists, first>>

D == INSTANCE Duel WITH
  Creator <- creator, Friends <- {f1}, NoUser <- none, Rounds <- 2, Questions <- {q1, q2, q3},
  NoQuestion <- none, Plans <- {<<q1, q2>>, <<none, none>>}, Retirable <- {q1},
  Listing <- {creator, f1}

-----------------------------------------------------------------------------
(* Two friends and their duels. *)

Story(users, does, past, rich, n, ticks, tickets, lag) ==
  [users |-> users, does |-> does, past |-> past, premium |-> rich, duels |-> n,
   ticks |-> ticks, tickets |-> tickets, lag |-> lag]

OldGame(series, best, who) ==
  [by |-> ana, with |-> ben, open |-> FALSE, access |-> "PREMIUM", winner |-> who,
   status |-> "COMPLETED", series |-> series, game |-> 1, best |-> best, made |-> 0, ends |-> 2,
   done |-> {"by", "with"}, pushed |-> [s \in {"by", "with"} |-> 0], reminded |-> FALSE, cards |-> {}]

LobbyStories ==
  LET both == {ana, ben} IN
  { Story({ana}, {"create", "spend"}, <<>>, {}, 3, 3, 1, 1),
    Story({ana}, {"create", "spend"}, <<>>, {ana}, 3, 1, 1, 1),
    Story(both, {"create", "play"}, <<>>, both, 2, 1, 0, 0),
    Story(both, {"create", "play", "late", "push"}, <<>>, {}, 1, 3, 0, 1),
    Story(both, {"rematch", "play"}, <<OldGame(1, 3, ana)>>, both, 3, 0, 0, 0),
    Story(both, {"rematch", "spend"}, <<OldGame(0, 1, none)>>, {ben}, 3, 1, 1, 1),
    Story(both, {"cards"}, <<OldGame(0, 1, none)>>, {}, 2, 0, 0, 0) }

-----------------------------------------------------------------------------
(* All of them. *)

GamesInit ==
  /\ scene \in {"duel", "lobby", "tournament", "messages"}
  /\ D!Init /\ (scene # "duel" => duel.opponent = none /\ plan = <<q1, q2>>)
  /\ LobbyInit /\ (scene # "lobby" => story = CHOOSE x \in LobbyStories : TRUE)
  /\ TourInit /\ (scene # "tournament" => tour.kind = "PRIVATE")
  /\ MailInit /\ (scene # "messages" => board.kind = "PRIVATE" /\ board.silent = {})

GamesNext ==
  \/ scene = "duel" /\ D!Next /\ UNCHANGED <<scene, lobbyVars, tourVars, mailVars>>
  \/ scene = "lobby" /\ LobbyNext /\ UNCHANGED <<scene, duelPart, tourVars, mailVars>>
  \/ scene = "tournament" /\ TourNext /\ UNCHANGED <<scene, duelPart, lobbyVars, mailVars>>
  \/ scene = "messages" /\ MailNext /\ UNCHANGED <<scene, duelPart, lobbyVars, tourVars>>

gameVars == <<scene, duelPart, lobbyVars, tourVars, mailVars>>

\* What each game assumes of its clock, its jobs and its workers.
DuelFairness ==
  LET others == <<scene, lobbyVars, tourVars, mailVars>>
  IN /\ WF_gameVars(scene = "duel" /\ D!DeadlinePasses /\ UNCHANGED others)
     /\ WF_gameVars(scene = "duel" /\ D!ExpireDue /\ UNCHANGED others)
     /\ WF_gameVars(scene = "duel" /\ (\E u \in {creator, f1} : D!WriteMyDuels(u))
                    /\ UNCHANGED others)

TournamentFairness ==
  LET others == <<scene, duelPart, lobbyVars, mailVars>>
  IN /\ WF_gameVars(scene = "tournament" /\ TourClock /\ UNCHANGED others)
     /\ WF_gameVars(scene = "tournament" /\ BeginSweep /\ UNCHANGED others)
     /\ []<>(sweep = none \/ GameLocks \cap OfRound(tour) # {})
     /\ \A p \in Entrants : []<>(p \notin DOMAIN turns)
     /\ <>[][\A p \in Entrants : ~DropAnswer(p)]_gameVars

MessagesFairness ==
  LET others == <<scene, duelPart, lobbyVars, tourVars>>
  IN /\ WF_gameVars(scene = "messages" /\ CommitMove /\ UNCHANGED others)
     /\ WF_gameVars(scene = "messages" /\ Announce /\ UNCHANGED others)
     /\ WF_gameVars(scene = "messages" /\ PublishFinal /\ UNCHANGED others)
     /\ \A w \in Mailers :
          WF_gameVars(scene = "messages" /\ (BeginMail(w) \/ Post(w) \/ StoreMail(w))
                      /\ UNCHANGED others)

GamesSpec ==
  GamesInit /\ [][GamesNext]_gameVars /\ DuelFairness /\ TournamentFairness /\ MessagesFairness

\* A duel that is over never comes back to life, not even through a list that was
\* loaded before.
StaysOver == [][duel.status \in D!Over => duel'.status \in D!Over]_duelPart

\* A duel somebody joined comes to an end, whoever opens his list meanwhile.
JoinedDuelEnds == D!JoinedDuelEnds

\* What a tournament promises its players, at every moment and in every step.
TourHolds == [](scene = "tournament" => TourSound) /\ [][TourStep]_tourVars
=============================================================================
