-------------------------- MODULE PaymentContract --------------------------
(***************************************************************************)
(* What the payment subsystem promises of each purchase, whatever happens  *)
(* to its row, its invoice and the jobs that run over it: the goods are    *)
(* handed over for money, once, and taken back at most once.               *)
(***************************************************************************)
EXTENDS Naturals

CONSTANT Purchases

VARIABLES
  charged,   \* purchases Telegram took Stars for
  granted,   \* how often the goods of a purchase were handed over
  returned   \* purchases whose goods were taken back

vars == <<charged, granted, returned>>

Init ==
  /\ charged \subseteq Purchases
  /\ granted = [p \in Purchases |-> 0]
  /\ returned = {}

Charge(p) ==
  /\ charged' = charged \cup {p}
  /\ UNCHANGED <<granted, returned>>

Grant(p) ==
  /\ p \in charged
  /\ granted[p] = 0
  /\ granted' = [granted EXCEPT ![p] = 1]
  /\ UNCHANGED <<charged, returned>>

Return(p) ==
  /\ granted[p] = 1
  /\ p \notin returned
  /\ returned' = returned \cup {p}
  /\ UNCHANGED <<charged, granted>>

Next == \E p \in Purchases : Charge(p) \/ Grant(p) \/ Return(p)

Spec == Init /\ [][Next]_vars
=============================================================================
