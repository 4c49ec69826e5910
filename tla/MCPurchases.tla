---------------------------- MODULE MCPurchases ----------------------------
(* Instances of Purchases for TLC: who buys what, with which code. *)
EXTENDS Purchases, TLC

CONSTANTS u1, u2, p1, p2, r1, r2, c1, c2

Order(u, k) == [user |-> u, product |-> k]

\* Two purchases that get in each other's way: the same product twice, the
\* two premium plans, or two users after the last use of a code.
TwoPurchases ==
  {(p1 :> Order(u1, "SAVER")) @@ (p2 :> Order(u1, "SAVER")),
   (p1 :> Order(u1, "STARTER")) @@ (p2 :> Order(u1, "MONTH")),
   (p1 :> Order(u1, "ENERGY")) @@ (p2 :> Order(u2, "TICKET"))}

\* A plan and, later, its renewal.
RenewalOrders == {(p1 :> Order(u1, "STARTER")) @@ (p2 :> Order(u1, "STARTER"))}
NoVouchers == {<<>>}

\* The first purchase is the one to recover; the other user or the other plan
\* gets in its way.
RecoveryOrders ==
  {(p1 :> Order(u1, "STARTER")) @@ (p2 :> Order(u1, "MONTH")),
   (p1 :> Order(u1, "ENERGY")) @@ (p2 :> Order(u2, "TICKET"))}

Voucher(u, c) == [user |-> u, code |-> c]

\* Two users hold the same code, or one user holds two codes; the second code
\* makes a purchase free.
TwoVouchers ==
  {(r1 :> Voucher(u1, c1)) @@ (r2 :> Voucher(u2, c1)),
   (r1 :> Voucher(u1, c1)) @@ (r2 :> Voucher(u1, c2))}

\* The purchase to recover holds the last use of a code.
RecoveryVouchers == {(r1 :> Voucher(u1, c1)) @@ (r2 :> Voucher(u2, c1))}

LastUse == (c1 :> 1) @@ (c2 :> 1)
LastUse1 == c1 :> 1
=============================================================================
