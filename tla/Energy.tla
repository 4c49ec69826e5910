------------------------------- MODULE Energy -------------------------------
(***************************************************************************)
(* The rules of energy: what regeneration, the daily top-up, a question    *)
(* and a credit do to the row of one user.                                 *)
(*                                                                         *)
(* Time is counted in regeneration intervals: last_regen_at only ever      *)
(* moves by whole intervals, so the remainder is never lost and need not   *)
(* be modelled.  A Berlin date is DayTicks of them.                        *)
(***************************************************************************)
EXTENDS Naturals

CONSTANTS
  FreeCap,   \* free_cap, also what a new user starts with
  DayTicks   \* regeneration intervals of one Berlin date

Day(t) == t \div DayTicks

EnergyRows(days, ticks, most) ==
  [free : 0..FreeCap, paid : 0..most, regenAt : ticks, topup : days]

NewEnergy(t) == [free |-> FreeCap, paid |-> 0, regenAt |-> t, topup |-> Day(t)]

Least(a, b) == IF a < b THEN a ELSE b

\* A mutant of Regen: the anchor stays, the same intervals are paid again.
RegenAnchored(e, t, premium) ==
  IF t <= e.regenAt \/ premium THEN e
  ELSE [e EXCEPT !.free = Least(FreeCap, @ + (t - e.regenAt))]

\* Under premium the anchor moves on but nothing is added.
Regen(e, t, premium) ==
  IF t <= e.regenAt THEN e
  ELSE [e EXCEPT !.regenAt = t,
                 !.free = IF premium THEN @ ELSE Least(FreeCap, @ + (t - e.regenAt))]

TopUp(e, t) ==
  IF Day(t) <= e.topup THEN e
  ELSE [e EXCEPT !.free = FreeCap, !.topup = Day(t)]

SyncEnergyClock(e, t, premium) == TopUp(Regen(e, t, premium), t)

FillToFreeCap(e, t, premium) == [SyncEnergyClock(e, t, premium) EXCEPT !.free = FreeCap]

\* Which energy pays for a question: free energy first.
ConsumedAsset(e) ==
  IF e.free > 0 THEN "FREE_ENERGY" ELSE IF e.paid > 0 THEN "PAID_ENERGY" ELSE "NONE"

Spend(e) ==
  CASE ConsumedAsset(e) = "FREE_ENERGY" -> [e EXCEPT !.free = @ - 1]
    [] ConsumedAsset(e) = "PAID_ENERGY" -> [e EXCEPT !.paid = @ - 1]
    [] OTHER -> e

CreditPaidEnergy(e, amount, t, premium) ==
  [SyncEnergyClock(e, t, premium) EXCEPT !.paid = @ + amount]
=============================================================================
