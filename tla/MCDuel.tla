------------------------------- MODULE MCDuel -------------------------------
(* Instances of Duel for TLC: which questions a duel is planned with. *)
EXTENDS Duel, TLC

CONSTANTS f1, f2, q1, q2, q3

TwoRounds == {<<q1, q2>>, <<NoQuestion, NoQuestion>>}
ThreeRounds == {<<q1, q2, q3>>, <<NoQuestion, NoQuestion, NoQuestion>>}
=============================================================================
