------------------------------- MODULE Match -------------------------------
(***************************************************************************)
(* What a duel promises its two players, whatever messages, jobs and       *)
(* delays lie behind it: each answers every round once, the better score   *)
(* wins, a game that runs out of time is decided for the one who finished, *)
(* and a result stands.                                                    *)
(***************************************************************************)
EXTENDS Naturals

CONSTANT Rounds  \* at least one

VARIABLES
  phase,   \* "open": nobody has taken the second seat yet; "running"; "over"
  played,  \* rounds a side has answered
  points,  \* rounds a side has answered correctly
  winner   \* a side, or "none"

matchVars == <<phase, played, points, winner>>

Sides == {"creator", "opponent"}

Leader(score) ==
  IF score["creator"] > score["opponent"] THEN "creator"
  ELSE IF score["opponent"] > score["creator"] THEN "opponent" ELSE "none"

\* The side that has answered everything when the other has not.
SoleFinisher(rounds) ==
  IF rounds["creator"] = Rounds /\ rounds["opponent"] < Rounds THEN "creator"
  ELSE IF rounds["opponent"] = Rounds /\ rounds["creator"] < Rounds THEN "opponent" ELSE "none"

Init ==
  /\ phase \in {"open", "running"}
  /\ played = [s \in Sides |-> 0]
  /\ points = [s \in Sides |-> 0]
  /\ winner = "none"

Accept ==
  /\ phase = "open"
  /\ phase' = "running"
  /\ UNCHANGED <<played, points, winner>>

\* The creator may play before anybody has accepted.
Play(s, gain) ==
  /\ phase = "running" \/ (phase = "open" /\ s = "creator")
  /\ played[s] < Rounds
  /\ played' = [played EXCEPT ![s] = @ + 1]
  /\ points' = [points EXCEPT ![s] = @ + gain]
  /\ IF \A side \in Sides : played'[side] = Rounds
       THEN phase' = "over" /\ winner' = Leader(points')
       ELSE UNCHANGED <<phase, winner>>

\* Nobody came: the invitation ends and the points stay as they are.
Withdraw ==
  /\ phase = "open"
  /\ played["creator"] < Rounds
  /\ phase' = "over"
  /\ UNCHANGED <<played, points, winner>>

\* Time is up: who finished alone wins, everybody else's points are forfeit.
Forfeit ==
  /\ phase = "running" \/ (phase = "open" /\ played["creator"] = Rounds)
  /\ phase' = "over"
  /\ winner' = SoleFinisher(played)
  /\ points' = [s \in Sides |-> IF s = SoleFinisher(played) THEN points[s] ELSE 0]
  /\ UNCHANGED played

Next ==
  \/ Accept
  \/ \E s \in Sides, gain \in {0, 1} : Play(s, gain)
  \/ Withdraw
  \/ Forfeit

Spec == Init /\ [][Next]_matchVars
=============================================================================
