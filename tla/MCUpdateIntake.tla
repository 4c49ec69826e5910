--------------------------- MODULE MCUpdateIntake ---------------------------
(* Instances of UpdateIntake for TLC. *)
EXTENDS UpdateIntake, TLC

\* The tasks of a safety run are interchangeable.
TaskSymmetry == Permutations(Tasks)
=============================================================================
