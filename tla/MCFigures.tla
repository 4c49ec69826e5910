------------------------------ MODULE MCFigures ------------------------------
(***************************************************************************)
(* An instance of Figures for TLC: a day on which one user of the bot      *)
(* comes and two pay, and the hours in which it is still counted.          *)
(***************************************************************************)
EXTENDS Figures

DayOfSales ==
  {[end |-> 2, visits |-> 1, games |-> 0, sales |-> 2, events |-> 0,
    late |-> FALSE, dies |-> FALSE, jobs |-> <<"analytics_daily">>]}
=============================================================================
