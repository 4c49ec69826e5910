-------------------------- MODULE PurchasesProofs --------------------------
(***************************************************************************)
(* What Purchases guarantees for every set of users, purchases, codes and  *)
(* redemptions.                                                            *)
(*                                                                         *)
(* Typing needs the order of the messages (Counted).  The ledger, the      *)
(* statuses and the goods depend on one another and are proved together    *)
(* (Booked), and with them the contract holds step by step.  The open      *)
(* invoices, the approved ones (with ApprovedIsPast) and the redemptions   *)
(* (with AttachedExists) need no more than types.  A code is not oversold  *)
(* because a credit raises used_total only below the limit.  The premium   *)
(* and the streak saver rest on Booked again: the first on who holds the   *)
(* entitlement, the second on the one open invoice that may exist while    *)
(* the saver is not locked (SaverWindow).                                  *)
(*                                                                         *)
(* Imported = {} is assumed where an imported row breaks the property; the *)
(* README says how.                                                        *)
(***************************************************************************)
EXTENDS Purchases, FiniteSetTheorems, TLAPS

USE RowsAssumption, NullAssumption, CodesAssumption, BoundsAssumption

-----------------------------------------------------------------------------
\* Messages are not handled before they were sent, and recovery stops counting.
Counted ==
  \A p \in Purchases :
    /\ inbox[p] <= charges[p] /\ charges[p] <= approved[p] /\ approved[p] <= invoices[p]
    /\ status[p] = "PAID_UNCREDITED" => failures[p] < MaxRecoveryAttempts

\* The buy button and the redeem request of a row are in range.
LEMMA RowTypes ==
  ASSUME TypeOK
  PROVE  /\ \A p \in Purchases : UserOf(p) \in Users /\ ProductOf(p) \in Products
         /\ \A r \in Redemptions : HolderOf(r) \in Users /\ CodeOf(r) \in Codes
BY DEF TypeOK, UserOf, ProductOf, HolderOf, CodeOf

\* Goods handed over, taken back or used up leave the wallets well-typed.
LEMMA HandOverType ==
  ASSUME TypeOK, NEW p \in Purchases, HandOver(p)
  PROVE  /\ ent' \in [Purchases -> {"NONE", "ACTIVE", "REVOKED"}]
         /\ over' \in [Purchases -> BOOLEAN]
         /\ stock' \in [Users -> [Stocked -> Nat]]
         /\ saverLock' \in [Users -> BOOLEAN]
         /\ goods' \in [Purchases -> Nat]
         /\ savers' \in [Users -> Nat]
<1>1. UserOf(p) \in Users
  BY RowTypes
<1>2. ent' \in [Purchases -> {"NONE", "ACTIVE", "REVOKED"}]
  BY DEF TypeOK, HandOver
<1>3. stock' \in [Users -> [Stocked -> Nat]]
  <2>1. \A u \in Users, k \in Stocked : stock[u][k] \in Nat /\ stock[u][k] + 1 \in Nat
    BY DEF TypeOK
  <2>2. stock' = [u \in Users |-> [k \in Stocked |->
                    IF u = UserOf(p) /\ k = ProductOf(p) THEN stock[u][k] + 1 ELSE stock[u][k]]]
    BY DEF HandOver
  <2> QED BY <2>1, <2>2
<1>4. saverLock' \in [Users -> BOOLEAN] /\ savers' \in [Users -> Nat]
  <2>1. \/ saverLock' = [saverLock EXCEPT ![UserOf(p)] = TRUE]
           /\ savers' = [savers EXCEPT ![UserOf(p)] = @ + 1]
        \/ UNCHANGED <<saverLock, savers>>
    BY DEF HandOver
  <2>2. /\ saverLock \in [Users -> BOOLEAN] /\ savers \in [Users -> Nat]
        /\ savers[UserOf(p)] + 1 \in Nat
    BY <1>1 DEF TypeOK
  <2>3. saverLock' \in [Users -> BOOLEAN]
    <3> HIDE DEF TypeOK
    <3> QED BY ONLY <2>1, <2>2
  <2>4. savers' \in [Users -> Nat]
    BY ONLY <2>1, <2>2
  <2> QED BY <2>3, <2>4
<1>5. over' \in [Purchases -> BOOLEAN] /\ goods' \in [Purchases -> Nat]
  BY DEF TypeOK, HandOver
<1> QED
  BY <1>2, <1>3, <1>4, <1>5

LEMMA TakeBackType ==
  ASSUME TypeOK, NEW p \in Purchases, TakeBack(p)
  PROVE  /\ ent' \in [Purchases -> {"NONE", "ACTIVE", "REVOKED"}]
         /\ over' \in [Purchases -> BOOLEAN]
         /\ stock' \in [Users -> [Stocked -> Nat]]
         /\ saverLock' \in [Users -> BOOLEAN]
         /\ goods' \in [Purchases -> Nat]
         /\ savers' \in [Users -> Nat]
         /\ ledger' \subseteq {"credit", "refund"} \X Purchases
BY DEF TypeOK, TakeBack, Less

LEMMA CreditType ==
  ASSUME TypeOK, NEW p \in Purchases, Credit(p), UNCHANGED <<invoices, approved, charges, refused>>,
         inbox' \in [Purchases -> 0..MaxInvoices]
  PROVE  TypeOK'
<1>1. /\ rows' = rows /\ HandOver(p)
      /\ status' = [status EXCEPT ![p] = "CREDITED"]
      /\ ledger' = ledger \cup {<<"credit", p>>}
  BY DEF Credit
<1>2. /\ rstatus' \in [Redemptions -> {"NONE", "RESERVED", "APPLIED", "EXPIRED", "REVOKED"}]
      /\ used' \in [Codes -> Nat]
      /\ UNCHANGED <<rlive, attached, usable>>
  BY DEF TypeOK, Credit, ApplyDiscount
<1>3. status' \in [Purchases -> Statuses]
  BY <1>1 DEF TypeOK, Statuses
<1> QED
  BY <1>1, <1>2, <1>3, HandOverType DEF TypeOK, rows

LEMMA TypedAndCounted == Spec => [](TypeOK /\ Counted)
<1> DEFINE Inv == TypeOK /\ Counted
<1>1. Init => Inv
  <2> SUFFICES ASSUME Init PROVE Inv
    OBVIOUS
  <2> USE DEF Init, TypeOK, Counted
  <2>1. \A r \in Redemptions : CodeOf(r) \in Codes
    BY DEF CodeOf
  <2>2. \A p \in Purchases : (\E r \in Redemptions : attached[r] = p) =>
                               (CHOOSE r \in Redemptions : attached[r] = p) \in Redemptions
    OBVIOUS
  <2>3. code \in [Purchases -> Codes \cup {NoCode}]
    BY <2>1, <2>2
  <2>4. attached \in [Redemptions -> Purchases \cup {NoPurchase}]
    BY DEF ImportedPromos
  <2> QED
    BY <2>3, <2>4 DEF Statuses, ActiveInvoice, MaxRecoveryAttempts
<1>2. Inv /\ [Next]_vars => TypeOK'
  <2> SUFFICES ASSUME Inv, [Next]_vars PROVE TypeOK'
    OBVIOUS
  <2> USE DEF TypeOK, Statuses, ActiveInvoice, rows, promoVars, assetVars, telegramVars
  <2>1. ASSUME NEW p \in Purchases, Buyer(p) PROVE TypeOK'
    <3>1. CASE Buy(p) BY <3>1 DEF Buy
    <3>2. ASSUME NEW r \in Redemptions, BuyDiscounted(p, r) PROVE TypeOK'
      BY <3>2, RowTypes DEF BuyDiscounted
    <3>3. CASE SendInvoice(p) BY <3>3 DEF SendInvoice
    <3>4. CASE MarkInvoiceSent(p) BY <3>4 DEF MarkInvoiceSent
    <3>5. CASE Precheckout(p)
      <4>1. approved[p] + 1 \in 0..MaxInvoices
        BY <3>5 DEF Precheckout
      <4> QED BY <3>5, <4>1 DEF Precheckout
    <3>6. CASE Charge(p)
      <4>1. inbox[p] + 1 \in 0..MaxInvoices /\ charges[p] + 1 \in 0..MaxInvoices
        BY <3>6 DEF Charge, Counted
      <4> QED BY <3>6, <4>1 DEF Charge
    <3> QED BY <2>1, <3>1, <3>2, <3>3, <3>4, <3>5, <3>6 DEF Buyer
  <2>2. ASSUME NEW p \in Purchases, Payment(p) PROVE TypeOK'
    <3>1. TakePayment(p)
      BY <2>2 DEF Payment, PaymentCredited, PaymentReplayed, PaymentRefused
    <3>2. inbox' \in [Purchases -> 0..MaxInvoices] /\ UNCHANGED <<invoices, approved, charges>>
      BY <3>1 DEF TakePayment
    <3>3. CASE PaymentCredited(p)
      BY <3>2, <3>3, CreditType DEF PaymentCredited
    <3>4. CASE PaymentReplayed(p)
      BY <3>2, <3>4 DEF PaymentReplayed
    <3>5. CASE PaymentRefused(p)
      BY <3>2, <3>5 DEF PaymentRefused
    <3> QED BY <2>2, <3>3, <3>4, <3>5 DEF Payment
  <2>3. ASSUME NEW p \in Purchases, FreeCheckoutRefused(p) PROVE TypeOK'
    BY <2>3 DEF FreeCheckoutRefused
  <2>4. ASSUME NEW p \in Purchases, Refund(p) PROVE TypeOK'
    BY <2>4, TakeBackType DEF Refund, RevokeRedemption
  <2>5. ASSUME NEW p \in Purchases, RecoverPaid(p) PROVE TypeOK'
    <3>1. CASE Recover(p)
      BY <3>1, CreditType DEF Recover
    <3>2. CASE RecoveryFails(p)
      <4>0. /\ failures' = [failures EXCEPT ![p] = @ + 1]
            /\ failures \in [Purchases -> 0..MaxRecoveryAttempts]
            /\ failures[p] < MaxRecoveryAttempts
        BY <3>2 DEF RecoveryFails, Counted
      <4>1. failures' \in [Purchases -> 0..MaxRecoveryAttempts]
        <5> HIDE DEF TypeOK
        <5> QED BY <4>0 DEF MaxRecoveryAttempts
      <4>2. UNCHANGED assetVars \/ (HandOver(p) /\ UNCHANGED ledger)
        BY <3>2 DEF RecoveryFails, HandOverWithoutCredit
      <4> QED BY <3>2, <4>1, <4>2, HandOverType DEF RecoveryFails
    <3> QED BY <2>5, <3>1, <3>2 DEF RecoverPaid
  <2>6. ASSUME NEW r \in Redemptions, Redeem(r) PROVE TypeOK'
    BY <2>6 DEF Redeem
  <2>7. ASSUME NEW c \in Codes, Campaign(c) PROVE TypeOK'
    <3>1. CASE CloseCode(c)
      BY <3>1 DEF CloseCode
    <3>2. CASE ReopenCode(c)
      BY <3>2 DEF ReopenCode
    <3>3. CASE RevokeReservations(c)
      BY <3>3 DEF RevokeReservations
    <3> QED BY <2>7, <3>1, <3>2, <3>3 DEF Campaign
  <2>8. ASSUME NEW u \in Users, NEW k \in Stocked, UseStock(u, k) PROVE TypeOK'
    <3>1. /\ stock[u] \in [Stocked -> Nat] /\ stock[u][k] - 1 \in Nat
          /\ stock' = [stock EXCEPT ![u][k] = @ - 1]
      BY <2>8 DEF UseStock
    <3>2. [stock[u] EXCEPT ![k] = @ - 1] \in [Stocked -> Nat]
      BY <3>1
    <3>3. stock' = [stock EXCEPT ![u] = [stock[u] EXCEPT ![k] = @ - 1]]
      BY <3>1
    <3>4. stock' \in [Users -> [Stocked -> Nat]]
      BY <3>2, <3>3
    <3> QED BY <2>8, <3>4 DEF UseStock
  <2>9. CASE ExpireReservations
    BY <2>9 DEF ExpireReservations
  <2>10. CASE ExpireStaleInvoices
    BY <2>10 DEF ExpireStaleInvoices
  <2>11. CASE Time
    <3>1. ASSUME NEW r \in Redemptions, ReservationLapses(r) PROVE TypeOK'
      BY <3>1 DEF ReservationLapses
    <3>2. ASSUME NEW p \in Purchases, InvoiceGoesStale(p) PROVE TypeOK'
      BY <3>2 DEF InvoiceGoesStale
    <3>3. ASSUME NEW p \in Purchases, PremiumEnds(p) PROVE TypeOK'
      BY <3>3 DEF PremiumEnds
    <3>4. ASSUME NEW u \in Users, SaverWindowEnds(u) PROVE TypeOK'
      BY <3>4 DEF SaverWindowEnds
    <3> QED BY <2>11, <3>1, <3>2, <3>3, <3>4 DEF Time
  <2>12. CASE UNCHANGED vars
    BY <2>12 DEF vars
  <2> QED
    BY <2>1, <2>2, <2>3, <2>4, <2>5, <2>6, <2>7, <2>8, <2>9, <2>10, <2>11, <2>12 DEF Next
<1>3. Inv /\ [Next]_vars => Counted'
  <2> SUFFICES ASSUME Inv, [Next]_vars PROVE Counted'
    OBVIOUS
  <2> USE DEF TypeOK, Counted, rows, telegramVars
  <2>1. ASSUME NEW p \in Purchases, Buyer(p) PROVE Counted'
    <3>1. CASE Buy(p) BY <3>1 DEF Buy
    <3>2. ASSUME NEW r \in Redemptions, BuyDiscounted(p, r) PROVE Counted'
      BY <3>2 DEF BuyDiscounted
    <3>3. CASE SendInvoice(p) BY <3>3 DEF SendInvoice
    <3>4. CASE MarkInvoiceSent(p) BY <3>4 DEF MarkInvoiceSent
    <3>5. CASE Precheckout(p) BY <3>5 DEF Precheckout
    <3>6. CASE Charge(p)
      <4>1. inbox[p] + 1 <= charges[p] + 1 /\ charges[p] + 1 <= approved[p]
        BY <3>6 DEF Charge
      <4> QED BY <3>6, <4>1 DEF Charge
    <3> QED BY <2>1, <3>1, <3>2, <3>3, <3>4, <3>5, <3>6 DEF Buyer
  <2>2. ASSUME NEW p \in Purchases, Payment(p) PROVE Counted'
    <3>1. TakePayment(p) /\ rows' = rows
          /\ status' \in {status, [status EXCEPT ![p] = "CREDITED"]}
      BY <2>2 DEF Payment, PaymentCredited, PaymentReplayed, PaymentRefused, Credit
    <3> QED BY <3>1 DEF TakePayment
  <2>3. ASSUME NEW p \in Purchases, RecoverPaid(p) PROVE Counted'
    <3>1. CASE Recover(p) BY <3>1 DEF Recover, Credit
    <3>2. CASE RecoveryFails(p)
      <4>1. /\ failures' = [failures EXCEPT ![p] = @ + 1]
            /\ status' = [status EXCEPT ![p] = IF failures'[p] >= MaxRecoveryAttempts
                                                 THEN "FAILED_CREDIT_PENDING_REVIEW" ELSE @]
            /\ UNCHANGED telegramVars
        BY <3>2 DEF RecoveryFails
      <4>2. failures[p] \in 0..MaxRecoveryAttempts
        OBVIOUS
      <4>3. failures'[p] = failures[p] + 1
        BY <4>1
      <4> QED BY <4>1, <4>2, <4>3 DEF MaxRecoveryAttempts
    <3> QED BY <2>3, <3>1, <3>2 DEF RecoverPaid
  <2>4. ASSUME NEW p \in Purchases, FreeCheckoutRefused(p) \/ Refund(p) PROVE Counted'
    BY <2>4 DEF FreeCheckoutRefused, Refund
  <2>5. ASSUME NEW r \in Redemptions, Redeem(r) PROVE Counted'
    BY <2>5 DEF Redeem
  <2>6. ASSUME NEW c \in Codes, Campaign(c) PROVE Counted'
    BY <2>6 DEF Campaign, CloseCode, ReopenCode, RevokeReservations
  <2>7. ASSUME NEW u \in Users, NEW k \in Stocked, UseStock(u, k) PROVE Counted'
    BY <2>7 DEF UseStock
  <2>8. CASE ExpireReservations \/ ExpireStaleInvoices
    BY <2>8 DEF ExpireReservations, ExpireStaleInvoices
  <2>9. CASE Time
    BY <2>9 DEF Time, ReservationLapses, InvoiceGoesStale, PremiumEnds, SaverWindowEnds
  <2>10. CASE UNCHANGED vars
    BY <2>10 DEF vars
  <2> QED
    BY <2>1, <2>2, <2>3, <2>4, <2>5, <2>6, <2>7, <2>8, <2>9, <2>10 DEF Next
<1> QED
  BY <1>1, <1>2, <1>3, PTL DEF Spec

\* Every column keeps the values its type and its CHECK constraint allow.
THEOREM TypeCorrect == Spec => []TypeOK
BY TypedAndCounted, PTL

-----------------------------------------------------------------------------
\* The credit of a purchase writes its ledger entry, hands over its goods and
\* touches no other purchase.
LEMMA CreditEffect ==
  ASSUME TypeOK, NEW p \in Purchases, Credit(p)
  PROVE  /\ <<"credit", p>> \notin ledger
         /\ ledger' = ledger \cup {<<"credit", p>>}
         /\ status' = [status EXCEPT ![p] = "CREDITED"]
         /\ goods' = [goods EXCEPT ![p] = @ + 1]
BY DEF Credit, CreditOK, HandOver

\* What LedgerMatchesStatus and GoodsMatchLedger say together: status, ledger and
\* goods go hand in hand, and neither of the two properties is inductive alone,
\* as a credit relies on the ledger and a refund on the status.
Booked == LedgerMatchesStatus /\ GoodsMatchLedger

LEMMA BookedSteps ==
  ASSUME TypeOK, Booked, [Next]_vars
  PROVE  Booked'
<1> USE DEF TypeOK, Booked, LedgerMatchesStatus, GoodsMatchLedger, ActiveInvoice, rows,
            promoVars, assetVars
<1>1. ASSUME NEW p \in Purchases, Buyer(p) PROVE Booked'
  <2>1. ledger' = ledger /\ goods' = goods
    BY <1>1 DEF Buyer, Buy, BuyDiscounted, SendInvoice, MarkInvoiceSent, Precheckout, Charge
  <2> DEFINE Opens(q) ==
        \/ status'[q] = status[q]
        \/ /\ status[q] \in ActiveInvoice \cup {"NONE"}
           /\ status'[q] \in ActiveInvoice \cup {"FAILED"}
  <2>2. ASSUME NEW q \in Purchases PROVE Opens(q)
    <3>1. CASE Buy(p) BY <3>1 DEF Buy, MayBuy
    <3>2. ASSUME NEW r \in Redemptions, BuyDiscounted(p, r) PROVE Opens(q)
      BY <3>2 DEF BuyDiscounted, MayBuy, OpenInvoices
    <3>3. CASE SendInvoice(p) \/ Charge(p) BY <3>3 DEF SendInvoice, Charge
    <3>4. CASE MarkInvoiceSent(p) BY <3>4 DEF MarkInvoiceSent
    <3>5. CASE Precheckout(p) BY <3>5 DEF Precheckout
    <3> QED BY <1>1, <3>1, <3>2, <3>3, <3>4, <3>5 DEF Buyer
  <2> QED BY <2>1, <2>2
<1>2. ASSUME NEW p \in Purchases, Payment(p) \/ Recover(p) PROVE Booked'
  <2>1. CASE PaymentCredited(p) \/ Recover(p)
    <3>1. Credit(p) /\ status[p] \in Creditable
      BY <2>1 DEF PaymentCredited, Recover, Creditable
    <3>2. /\ <<"credit", p>> \notin ledger
          /\ ledger' = ledger \cup {<<"credit", p>>}
          /\ status' = [status EXCEPT ![p] = "CREDITED"]
          /\ goods' = [goods EXCEPT ![p] = @ + 1]
      BY <3>1, CreditEffect
    <3>3. LedgerMatchesStatus'
      BY <3>1, <3>2 DEF Creditable
    <3>4. GoodsMatchLedger'
      <4>1. goods[p] = 0
        BY <3>2
      <4>2. goods' = [goods EXCEPT ![p] = 1]
        BY <3>2, <4>1
      <4> QED BY <3>2, <4>2
    <3> QED BY <3>3, <3>4
  <2>2. CASE PaymentReplayed(p) \/ PaymentRefused(p)
    BY <2>2 DEF PaymentReplayed, PaymentRefused
  <2> QED BY <1>2, <2>1, <2>2 DEF Payment
<1>3. ASSUME NEW p \in Purchases, RecoveryFails(p) PROVE Booked'
  BY <1>3 DEF RecoveryFails
<1>4. ASSUME NEW p \in Purchases, FreeCheckoutRefused(p) PROVE Booked'
  BY <1>4 DEF FreeCheckoutRefused
<1>5. ASSUME NEW p \in Purchases, Refund(p) PROVE Booked'
  BY <1>5 DEF Refund, TakeBack
<1>6. ASSUME NEW r \in Redemptions, Redeem(r) PROVE Booked'
  BY <1>6 DEF Redeem
<1>7. ASSUME NEW c \in Codes, Campaign(c) PROVE Booked'
  BY <1>7 DEF Campaign, CloseCode, ReopenCode, RevokeReservations
<1>8. ASSUME NEW u \in Users, NEW k \in Stocked, UseStock(u, k) PROVE Booked'
  BY <1>8 DEF UseStock
<1>9. CASE ExpireReservations
  BY <1>9 DEF ExpireReservations
<1>10. CASE ExpireStaleInvoices
  BY <1>10 DEF ExpireStaleInvoices
<1>11. CASE Time
  BY <1>11 DEF Time, ReservationLapses, InvoiceGoesStale, PremiumEnds, SaverWindowEnds
<1>12. CASE UNCHANGED vars
  BY <1>12 DEF vars
<1> QED
  BY <1>1, <1>2, <1>3, <1>4, <1>5, <1>6, <1>7, <1>8, <1>9, <1>10, <1>11, <1>12
  DEF Next, RecoverPaid

LEMMA BookedAlways == ASSUME Imported = {} PROVE Spec => []Booked
<1>1. Init => Booked
  BY DEF Init, Booked, LedgerMatchesStatus, GoodsMatchLedger
<1> QED
  BY <1>1, BookedSteps, TypeCorrect, PTL DEF Spec

\* Without imported rows the ledger and the statuses tell the same story: the
\* reconciliation job finds no difference and the recovery job no work.
THEOREM LedgerMatchesStatusThm ==
  ASSUME Imported = {} PROVE Spec => []LedgerMatchesStatus
<1>1. Booked => LedgerMatchesStatus
  BY DEF Booked
<1> QED BY <1>1, BookedAlways, PTL

\* Without imported rows the goods of a purchase are handed over once, with the
\* ledger entry, however often its payment message is delivered.
THEOREM GoodsMatchLedgerThm ==
  ASSUME Imported = {} PROVE Spec => []GoodsMatchLedger
<1>1. Booked => GoodsMatchLedger
  BY DEF Booked
<1> QED BY <1>1, BookedAlways, PTL

-----------------------------------------------------------------------------
\* The charges, the goods and the ledger are all the contract sees.
LEMMA ContractStutter ==
  ASSUME UNCHANGED <<charges, goods, ledger>>
  PROVE  UNCHANGED Contract!vars
BY DEF Contract!vars

\* A step is a charge, a grant or a return of the contract, or nothing to it.
LEMMA ContractStep ==
  ASSUME TypeOK, Counted, Booked, [Next]_vars
  PROVE  [Contract!Next]_(Contract!vars)
<1> USE DEF rows, promoVars, assetVars, telegramVars
<1>1. ASSUME NEW p \in Purchases, Charge(p) PROVE Contract!Charge(p)
  <2>1. charges' = [charges EXCEPT ![p] = @ + 1] /\ goods' = goods /\ ledger' = ledger
    BY <1>1 DEF Charge
  <2>2. charges[p] + 1 > 0
    BY DEF TypeOK
  <2>3. {q \in Purchases : charges'[q] > 0} = {q \in Purchases : charges[q] > 0} \cup {p}
    BY <2>1, <2>2 DEF TypeOK
  <2> QED BY <2>1, <2>3 DEF Contract!Charge
<1>2. ASSUME NEW p \in Purchases, PaymentCredited(p) PROVE Contract!Grant(p)
  <2>1. charges[p] > 0
    <3>1. inbox[p] > 0
      BY <1>2 DEF PaymentCredited, TakePayment
    <3> QED BY <3>1 DEF TypeOK, Counted
  <2>2. charges' = charges
    BY <1>2 DEF PaymentCredited, TakePayment
  <2>3. /\ <<"credit", p>> \notin ledger
        /\ ledger' = ledger \cup {<<"credit", p>>}
        /\ goods' = [goods EXCEPT ![p] = @ + 1]
    BY <1>2, CreditEffect DEF PaymentCredited
  <2>4. goods[p] = 0
    BY <2>3 DEF Booked, GoodsMatchLedger
  <2>5. goods' = [goods EXCEPT ![p] = 1]
    BY <2>3, <2>4
  <2>6. \A q \in Purchases : <<"refund", q>> \in ledger' <=> <<"refund", q>> \in ledger
    BY <2>3
  <2> QED BY <2>1, <2>2, <2>4, <2>5, <2>6 DEF Contract!Grant
<1>3. ASSUME NEW p \in Purchases, Refund(p) PROVE Contract!Return(p)
  <2>1. status[p] = "CREDITED" /\ <<"credit", p>> \in ledger /\ TakeBack(p)
    BY <1>3 DEF Refund, Booked, LedgerMatchesStatus
  <2>2. goods[p] = 1 /\ <<"refund", p>> \notin ledger
    BY <2>1 DEF Booked, LedgerMatchesStatus, GoodsMatchLedger
  <2>3. ledger' = ledger \cup {<<"refund", p>>} /\ goods' = goods /\ charges' = charges
    BY <1>3, <2>1 DEF Refund, TakeBack
  <2>4. \A q \in Purchases :
          <<"refund", q>> \in ledger' <=> <<"refund", q>> \in ledger \/ q = p
    BY <2>3
  <2> QED BY <2>2, <2>3, <2>4 DEF Contract!Return
<1>4. ASSUME NEW p \in Purchases, RecoverPaid(p) PROVE FALSE
  BY <1>4 DEF RecoverPaid, Recover, RecoveryFails, Booked, LedgerMatchesStatus
<1>5. ASSUME NEW p \in Purchases,
             \/ Buyer(p) /\ ~Charge(p)
             \/ Payment(p) /\ ~PaymentCredited(p)
             \/ FreeCheckoutRefused(p)
      PROVE  UNCHANGED <<charges, goods, ledger>>
  BY <1>5 DEF Buyer, Buy, BuyDiscounted, SendInvoice, MarkInvoiceSent, Precheckout,
              Payment, PaymentReplayed, PaymentRefused, TakePayment, FreeCheckoutRefused
<1>6. ASSUME \/ \E r \in Redemptions : Redeem(r)
             \/ \E c \in Codes : Campaign(c)
             \/ \E u \in Users, k \in Stocked : UseStock(u, k)
             \/ ExpireReservations \/ ExpireStaleInvoices \/ Time \/ UNCHANGED vars
      PROVE  UNCHANGED <<charges, goods, ledger>>
  BY <1>6 DEF Redeem, Campaign, CloseCode, ReopenCode,
              RevokeReservations, UseStock, ExpireReservations, ExpireStaleInvoices, Time,
              ReservationLapses, InvoiceGoesStale, PremiumEnds, SaverWindowEnds, vars
<1> QED
  BY <1>1, <1>2, <1>3, <1>4, <1>5, <1>6, ContractStutter DEF Next, Contract!Next, Buyer, Payment

\* Without imported rows the handlers and jobs implement the payment contract:
\* no goods without a charge, never twice, taken back at most once.
THEOREM ContractThm == ASSUME Imported = {} PROVE Spec => ContractHolds
<1>1. Init => Contract!Init
  <2> SUFFICES ASSUME Init PROVE Contract!Init
    OBVIOUS
  <2>1. goods = [p \in Purchases |-> 0] /\ ledger = {}
    BY DEF Init
  <2> QED BY <2>1 DEF Contract!Init
<1> QED
  BY <1>1, ContractStep, TypedAndCounted, BookedAlways, PTL DEF Spec, ContractHolds, Contract!Spec

-----------------------------------------------------------------------------
\* An invoice is opened by a buy button alone, which leaves no other invoice of
\* the user for the product open.
Opened(p) ==
  \A q \in Purchases : status'[q] \in ActiveInvoice =>
    q = p \/ (status[q] \in ActiveInvoice /\ q \notin OpenInvoices(p))

LEMMA OpenStep ==
  ASSUME TypeOK, [Next]_vars
  PROVE  /\ order' = order
         /\ \/ \A q \in Purchases : status'[q] \in ActiveInvoice => status[q] \in ActiveInvoice
            \/ \E p \in Purchases : MayBuy(p) /\ Opened(p)
<1> DEFINE Closes == \A q \in Purchases : status'[q] \in ActiveInvoice => status[q] \in ActiveInvoice
<1> DEFINE Goal == order' = order /\ (Closes \/ \E p \in Purchases : MayBuy(p) /\ Opened(p))
<1> SUFFICES Goal
  OBVIOUS
<1> USE DEF TypeOK, ActiveInvoice, rows
<1>1. ASSUME NEW p \in Purchases, Buyer(p) PROVE Goal
  <2>1. CASE Buy(p)
    <3>1. MayBuy(p) /\ Opened(p) /\ order' = order
      BY <2>1 DEF Buy, Opened, OpenInvoices
    <3> QED BY <3>1
  <2>2. ASSUME NEW r \in Redemptions, BuyDiscounted(p, r) PROVE Goal
    <3>1. MayBuy(p) /\ Opened(p) /\ order' = order
      BY <2>2 DEF BuyDiscounted, Opened, OpenInvoices
    <3> QED BY <3>1
  <2>3. CASE SendInvoice(p) \/ Charge(p)
    BY <2>3 DEF SendInvoice, Charge
  <2>4. CASE MarkInvoiceSent(p)
    BY <2>4 DEF MarkInvoiceSent
  <2>5. CASE Precheckout(p)
    BY <2>5 DEF Precheckout
  <2> QED BY <1>1, <2>1, <2>2, <2>3, <2>4, <2>5 DEF Buyer
<1>2. ASSUME NEW p \in Purchases, Payment(p) \/ RecoverPaid(p) PROVE Goal
  <2>1. CASE PaymentCredited(p) \/ Recover(p)
    BY <2>1 DEF PaymentCredited, Recover, Credit
  <2>2. CASE PaymentReplayed(p) \/ PaymentRefused(p)
    BY <2>2 DEF PaymentReplayed, PaymentRefused
  <2>3. CASE RecoveryFails(p)
    BY <2>3 DEF RecoveryFails
  <2> QED BY <1>2, <2>1, <2>2, <2>3 DEF Payment, RecoverPaid
<1>3. ASSUME NEW p \in Purchases, FreeCheckoutRefused(p) \/ Refund(p) PROVE Goal
  BY <1>3 DEF FreeCheckoutRefused, Refund
<1>4. CASE ExpireStaleInvoices
  BY <1>4 DEF ExpireStaleInvoices
<1>5. ASSUME \/ \E r \in Redemptions : Redeem(r)
             \/ \E c \in Codes : Campaign(c)
             \/ \E u \in Users, k \in Stocked : UseStock(u, k)
             \/ ExpireReservations \/ Time \/ UNCHANGED vars
      PROVE  status' = status /\ order' = order
  BY <1>5 DEF Redeem, Campaign, CloseCode, ReopenCode,
              RevokeReservations, UseStock, ExpireReservations, Time,
              ReservationLapses, InvoiceGoesStale, PremiumEnds, SaverWindowEnds, vars
<1> QED
  BY <1>1, <1>2, <1>3, <1>4, <1>5 DEF Next

\* A user never has two open invoices for a product, so that no product can be
\* paid for twice.
THEOREM OneOpenInvoiceThm == Spec => []OneOpenInvoice
<1>1. Init => OneOpenInvoice
  BY DEF Init, OneOpenInvoice, ActiveInvoice
<1>2. TypeOK /\ OneOpenInvoice /\ [Next]_vars => OneOpenInvoice'
  <2> SUFFICES ASSUME TypeOK, OneOpenInvoice, [Next]_vars PROVE OneOpenInvoice'
    OBVIOUS
  <2>1. CASE \A q \in Purchases : status'[q] \in ActiveInvoice => status[q] \in ActiveInvoice
    BY <2>1, OpenStep DEF OneOpenInvoice, UserOf, ProductOf
  <2>2. ASSUME NEW p \in Purchases, Opened(p) PROVE OneOpenInvoice'
    BY <2>2, OpenStep DEF OneOpenInvoice, Opened, OpenInvoices, UserOf, ProductOf
  <2> QED BY <2>1, <2>2, OpenStep
<1> QED
  BY <1>1, <1>2, TypeCorrect, PTL DEF Spec

-----------------------------------------------------------------------------
\* An approved invoice is past the stages the expiry job closes.
ApprovedIsPast ==
  \A p \in Purchases : approved[p] > 0 => status[p] \notin {"NONE", "CREATED", "INVOICE_SENT"}

\* An invoice that was approved for payment is closed unpaid only by a discounted
\* one of the same user for the same product, never by the expiry job.
THEOREM ApprovedInvoiceKeptThm == Spec => []ApprovedInvoiceKept
<1> DEFINE Inv == ApprovedIsPast /\ ApprovedInvoiceKept
<1>1. Init => Inv
  BY DEF Init, ApprovedIsPast, ApprovedInvoiceKept
<1>2. TypeOK /\ Inv /\ [Next]_vars => Inv'
  <2> SUFFICES ASSUME TypeOK, Inv, [Next]_vars PROVE Inv'
    OBVIOUS
  <2> DEFINE Frame == UNCHANGED <<order, code, approved>>
  <2>1. ASSUME Frame,
               \A q \in Purchases :
                 \/ status'[q] = status[q]
                 \/ status'[q] \notin {"NONE", "CREATED", "INVOICE_SENT", "FAILED"}
                 \/ approved[q] = 0
        PROVE  Inv'
    <3>1. ApprovedIsPast'
      BY <2>1 DEF TypeOK, ApprovedIsPast
    <3>2. ASSUME NEW q \in Purchases, approved'[q] > 0, status'[q] = "FAILED"
          PROVE  \E w \in Purchases : /\ w # q /\ code'[w] # NoCode
                                      /\ UserOf(w)' = UserOf(q)' /\ ProductOf(w)' = ProductOf(q)'
      <4>1. status[q] = "FAILED" /\ approved[q] > 0
        BY <2>1, <3>2
      <4> QED BY <2>1, <4>1 DEF ApprovedInvoiceKept, UserOf, ProductOf
    <3> QED BY <3>1, <3>2 DEF ApprovedInvoiceKept
  <2> USE DEF rows, telegramVars
  <2>2. ASSUME NEW p \in Purchases, Buyer(p) PROVE Inv'
    <3>1. CASE Buy(p)
      <4>1. approved[p] = 0
        BY <3>1 DEF Buy, MayBuy, ApprovedIsPast, TypeOK
      <4> QED BY <2>1, <3>1, <4>1 DEF Buy, TypeOK
    <3>2. ASSUME NEW r \in Redemptions, BuyDiscounted(p, r) PROVE Inv'
      <4> USE <3>2 DEF BuyDiscounted
      <4>1. approved[p] = 0 /\ status[p] = "NONE" /\ status'[p] = "CREATED"
        BY DEF MayBuy, ApprovedIsPast, TypeOK
      <4>2. /\ UNCHANGED <<order, approved>>
            /\ code' = [code EXCEPT ![p] = CodeOf(r)] /\ CodeOf(r) # NoCode
        BY RowTypes
      <4>3. \A q \in Purchases :
              \/ q = p
              \/ status'[q] = status[q]
              \/ status'[q] = "FAILED" /\ q \in OpenInvoices(p)
        OBVIOUS
      <4>4. code'[p] # NoCode /\ \A q \in Purchases : code[q] # NoCode => code'[q] # NoCode
        BY <4>2 DEF TypeOK
      <4>5. ApprovedIsPast'
        BY <4>1, <4>2, <4>3 DEF ApprovedIsPast
      <4>6. ASSUME NEW q \in Purchases, approved'[q] > 0, status'[q] = "FAILED"
            PROVE  \E w \in Purchases : /\ w # q /\ code'[w] # NoCode
                                        /\ UserOf(w)' = UserOf(q)' /\ ProductOf(w)' = ProductOf(q)'
        <5>1. CASE q \in OpenInvoices(p)
          BY <4>1, <4>2, <4>4, <4>6, <5>1 DEF OpenInvoices, UserOf, ProductOf
        <5>2. CASE q \notin OpenInvoices(p)
          <6>1. status[q] = "FAILED" /\ approved[q] > 0
            BY <4>1, <4>2, <4>3, <4>6, <5>2
          <6> QED BY <4>2, <4>4, <6>1 DEF ApprovedInvoiceKept, UserOf, ProductOf
        <5> QED BY <5>1, <5>2
      <4> QED BY <4>5, <4>6 DEF ApprovedInvoiceKept
    <3>3. CASE SendInvoice(p) \/ Charge(p)
      BY <2>1, <3>3 DEF SendInvoice, Charge
    <3>4. CASE MarkInvoiceSent(p)
      <4>1. approved[p] = 0
        BY <3>4 DEF MarkInvoiceSent, ApprovedIsPast, TypeOK
      <4> QED BY <2>1, <3>4, <4>1 DEF MarkInvoiceSent, TypeOK
    <3>5. CASE Precheckout(p)
      BY <3>5 DEF Precheckout, TypeOK, ApprovedIsPast, ApprovedInvoiceKept, UserOf, ProductOf
    <3> QED BY <2>2, <3>1, <3>2, <3>3, <3>4, <3>5 DEF Buyer
  <2>3. ASSUME NEW p \in Purchases, Payment(p) \/ RecoverPaid(p) PROVE Inv'
    <3>1. CASE PaymentCredited(p) \/ Recover(p)
      BY <2>1, <3>1 DEF PaymentCredited, Recover, Credit, TakePayment, TypeOK
    <3>2. CASE PaymentReplayed(p) \/ PaymentRefused(p)
      BY <2>1, <3>2 DEF PaymentReplayed, PaymentRefused, TakePayment
    <3>3. CASE RecoveryFails(p)
      BY <2>1, <3>3 DEF RecoveryFails, TypeOK
    <3> QED BY <2>3, <3>1, <3>2, <3>3 DEF Payment, RecoverPaid
  <2>4. ASSUME NEW p \in Purchases, FreeCheckoutRefused(p) \/ Refund(p) PROVE Inv'
    BY <2>1, <2>4 DEF FreeCheckoutRefused, Refund, TypeOK
  <2>5. CASE ExpireStaleInvoices
    <3>1. Frame /\ \A q \in Purchases : status'[q] = status[q] \/ approved[q] = 0
      BY <2>5 DEF ExpireStaleInvoices, ApprovedIsPast, TypeOK
    <3> QED BY <2>1, <3>1
  <2>6. ASSUME \/ \E r \in Redemptions : Redeem(r)
               \/ \E c \in Codes : Campaign(c)
               \/ \E u \in Users, k \in Stocked : UseStock(u, k)
               \/ ExpireReservations \/ Time \/ UNCHANGED vars
        PROVE  Inv'
    <3>1. Frame /\ status' = status
      BY <2>6 DEF Redeem, Campaign, CloseCode, ReopenCode,
              RevokeReservations, UseStock, ExpireReservations, Time,
                  ReservationLapses, InvoiceGoesStale, PremiumEnds, SaverWindowEnds, vars
    <3> QED BY <2>1, <3>1
  <2> QED
    BY <2>2, <2>3, <2>4, <2>5, <2>6 DEF Next
<1> QED
  BY <1>1, <1>2, TypeCorrect, PTL DEF Spec

-----------------------------------------------------------------------------
\* A redemption is attached to a purchase that exists, once it exists itself.
AttachedExists ==
  \A r \in Redemptions :
    /\ attached[r] # NoPurchase => status[attached[r]] # "NONE"
    /\ rstatus[r] = "NONE" => attached[r] = NoPurchase

PromoInv == PromoConsistent /\ AttachedExists

LEMMA PromoInit ==
  ASSUME Init PROVE PromoInv
<1> USE DEF Init
<1>1. /\ \A r \in Redemptions : attached[r] \in Imported \cup {NoPurchase}
      /\ \A q, r \in Redemptions : attached[q] = attached[r] /\ attached[r] # NoPurchase => q = r
  BY DEF ImportedPromos
<1>2. ASSUME NEW r \in Redemptions, attached[r] # NoPurchase
      PROVE  code[attached[r]] = CodeOf(r)
  <2>1. (CHOOSE q \in Redemptions : attached[q] = attached[r]) = r
    BY <1>1, <1>2
  <2> QED BY <1>1, <1>2, <2>1
<1>3. ASSUME NEW p \in Purchases, code[p] # NoCode
      PROVE  \E r \in Redemptions : attached[r] = p
  BY <1>3
<1>4. \A p \in Purchases : status[p] \in {"NONE", "PAID_UNCREDITED"}
  OBVIOUS
<1>5. PromoConsistent
  BY <1>1, <1>2, <1>3, <1>4 DEF PromoConsistent
<1>6. AttachedExists
  BY <1>1 DEF AttachedExists
<1> QED BY <1>5, <1>6 DEF PromoInv

\* A step that leaves the redemptions alone, creates no purchase and settles none.
LEMMA PromoUntouched ==
  ASSUME TypeOK, PromoInv, UNCHANGED <<voucher, code, rstatus, attached>>,
         \A p \in Purchases :
           \/ status'[p] = status[p]
           \/ status[p] \notin {"CREDITED", "REFUNDED"} /\ status'[p] \notin {"NONE", "CREDITED", "REFUNDED"}
  PROVE  PromoInv'
<1>0. \A r \in Redemptions : attached[r] # NoPurchase => attached[r] \in Purchases
  BY DEF TypeOK
<1>1. PromoConsistent'
  BY <1>0 DEF PromoInv, PromoConsistent, AttachedExists, CodeOf
<1>2. AttachedExists'
  BY <1>0 DEF PromoInv, AttachedExists
<1> QED BY <1>1, <1>2 DEF PromoInv

LEMMA PromoBuyDiscounted ==
  ASSUME TypeOK, PromoInv, NEW p \in Purchases, NEW r \in Redemptions, BuyDiscounted(p, r)
  PROVE  PromoInv'
<1> USE DEF PromoInv
<1>0. \A q \in Redemptions : attached[q] # NoPurchase => attached[q] \in Purchases
  BY DEF TypeOK
<1>1. /\ status[p] = "NONE" /\ status'[p] = "CREATED"
      /\ \A q \in Purchases : q # p =>
           \/ status'[q] = status[q]
           \/ status[q] \in ActiveInvoice /\ status'[q] = "FAILED"
  BY DEF BuyDiscounted, MayBuy, OpenInvoices, TypeOK
<1>2. /\ attached[r] = NoPurchase /\ attached' = [attached EXCEPT ![r] = p]
      /\ code' = [code EXCEPT ![p] = CodeOf(r)] /\ voucher' = voucher
      /\ rstatus[r] = "RESERVED"
  BY DEF BuyDiscounted, MayReserve
<1>3. \A q \in Redemptions :
        rstatus'[q] = rstatus[q] \/ (rstatus[q] = "RESERVED" /\ rstatus'[q] = "EXPIRED")
  BY DEF BuyDiscounted, TypeOK
<1>4. \A q \in Redemptions : attached[q] # p
  BY <1>1, <1>2 DEF AttachedExists
<1>5. \A q \in Redemptions : attached'[q] = (IF q = r THEN p ELSE attached[q]) /\ CodeOf(q)' = CodeOf(q)
  BY <1>2 DEF CodeOf, TypeOK
<1>6. \A q \in Purchases : code'[q] = IF q = p THEN CodeOf(r) ELSE code[q]
  BY <1>2 DEF TypeOK
<1>7. AttachedExists'
  BY <1>0, <1>1, <1>2, <1>3, <1>5 DEF AttachedExists, ActiveInvoice
<1>8. PromoConsistent'
  <2>1. ASSUME NEW q \in Redemptions, attached'[q] # NoPurchase
        PROVE  code'[attached'[q]] = CodeOf(q)'
    BY <1>0, <1>4, <1>5, <1>6, <2>1 DEF PromoConsistent
  <2>2. ASSUME NEW q \in Redemptions, rstatus'[q] = "APPLIED"
        PROVE  attached'[q] # NoPurchase /\ status'[attached'[q]] = "CREDITED"
    <3>1. q # r /\ rstatus[q] = "APPLIED"
      BY <1>2, <1>3, <2>2
    <3>2. attached'[q] = attached[q] /\ status[attached[q]] = "CREDITED" /\ attached[q] # NoPurchase
      BY <3>1, <1>5 DEF PromoConsistent
    <3> QED BY <1>0, <1>1, <3>2 DEF ActiveInvoice
  <2>3. \A q, w \in Redemptions :
          attached'[q] = attached'[w] /\ attached'[w] # NoPurchase => q = w
    BY <1>4, <1>5 DEF PromoConsistent
  <2>4. ASSUME NEW o \in Purchases, code'[o] # NoCode
        PROVE  \E q \in Redemptions : /\ attached'[q] = o
                                      /\ status'[o] = "CREDITED" => rstatus'[q] = "APPLIED"
                                      /\ status'[o] = "REFUNDED" => rstatus'[q] = "REVOKED"
    <3>1. CASE o = p
      BY <1>1, <1>5, <3>1
    <3>2. CASE o # p
      <4>1. PICK q \in Redemptions : /\ attached[q] = o
                                     /\ status[o] = "CREDITED" => rstatus[q] = "APPLIED"
                                     /\ status[o] = "REFUNDED" => rstatus[q] = "REVOKED"
        BY <1>6, <2>4, <3>2 DEF PromoConsistent
      <4>2. attached'[q] = o
        BY <1>2, <1>5, <4>1
      <4> QED BY <1>1, <1>3, <3>2, <4>1, <4>2 DEF ActiveInvoice
    <3> QED BY <3>1, <3>2
  <2> QED BY <2>1, <2>2, <2>3, <2>4 DEF PromoConsistent
<1> QED BY <1>7, <1>8

\* Applying the discount of a purchase, or revoking it with a refund, settles the
\* redemption together with the purchase.
LEMMA PromoSettles ==
  ASSUME TypeOK, PromoInv, NEW p \in Purchases, status[p] \notin {"NONE", "REFUNDED"},
         UNCHANGED <<voucher, code, attached>>,
         NEW s \in {"CREDITED", "REFUNDED"},
         status' = [status EXCEPT ![p] = s],
         rstatus' = [r \in Redemptions |->
                       IF attached[r] = p
                         THEN IF s = "CREDITED" THEN "APPLIED" ELSE "REVOKED"
                         ELSE rstatus[r]]
  PROVE  PromoInv'
<1> USE DEF PromoInv
<1>1. \A q \in Redemptions : attached[q] # NoPurchase => attached[q] \in Purchases
  BY DEF TypeOK
<1>2. \A q \in Purchases : status'[q] = IF q = p THEN s ELSE status[q]
  BY DEF TypeOK
<1>3. AttachedExists'
  BY <1>1, <1>2 DEF AttachedExists
<1>4. PromoConsistent'
  <2>1. ASSUME NEW q \in Redemptions, attached'[q] # NoPurchase
        PROVE  code'[attached'[q]] = CodeOf(q)'
    BY <2>1 DEF PromoConsistent, CodeOf
  <2>2. ASSUME NEW q \in Redemptions, rstatus'[q] = "APPLIED"
        PROVE  attached'[q] # NoPurchase /\ status'[attached'[q]] = "CREDITED"
    <3>1. CASE attached[q] = p
      BY <1>2, <2>2, <3>1
    <3>2. CASE attached[q] # p
      BY <1>1, <1>2, <2>2, <3>2 DEF PromoConsistent
    <3> QED BY <3>1, <3>2
  <2>3. \A q, w \in Redemptions :
          attached'[q] = attached'[w] /\ attached'[w] # NoPurchase => q = w
    BY DEF PromoConsistent
  <2>4. ASSUME NEW o \in Purchases, code'[o] # NoCode
        PROVE  \E q \in Redemptions : /\ attached'[q] = o
                                      /\ status'[o] = "CREDITED" => rstatus'[q] = "APPLIED"
                                      /\ status'[o] = "REFUNDED" => rstatus'[q] = "REVOKED"
    <3>1. PICK q \in Redemptions : /\ attached[q] = o
                                   /\ status[o] = "CREDITED" => rstatus[q] = "APPLIED"
                                   /\ status[o] = "REFUNDED" => rstatus[q] = "REVOKED"
      BY <2>4 DEF PromoConsistent
    <3> QED BY <1>2, <3>1
  <2> QED BY <2>1, <2>2, <2>3, <2>4 DEF PromoConsistent
<1> QED BY <1>3, <1>4

LEMMA PromoSteps ==
  ASSUME TypeOK, PromoInv, [Next]_vars
  PROVE  PromoInv'
<1> USE DEF rows, promoVars
<1>1. ASSUME NEW p \in Purchases, Buyer(p) PROVE PromoInv'
  <2>1. ASSUME NEW r \in Redemptions, BuyDiscounted(p, r) PROVE PromoInv'
    BY <2>1, PromoBuyDiscounted
  <2>2. CASE Buy(p)
    BY <2>2, PromoUntouched DEF Buy, MayBuy, TypeOK
  <2>3. CASE SendInvoice(p) \/ Charge(p)
    BY <2>3, PromoUntouched DEF SendInvoice, Charge
  <2>4. CASE MarkInvoiceSent(p)
    BY <2>4, PromoUntouched DEF MarkInvoiceSent, TypeOK
  <2>5. CASE Precheckout(p)
    BY <2>5, PromoUntouched DEF Precheckout, ActiveInvoice, TypeOK
  <2> QED BY <1>1, <2>1, <2>2, <2>3, <2>4, <2>5 DEF Buyer
<1>2. ASSUME NEW p \in Purchases, PaymentCredited(p) \/ Recover(p) PROVE PromoInv'
  <2>1. /\ status[p] \notin {"NONE", "REFUNDED"} /\ UNCHANGED <<voucher, code, attached>>
        /\ status' = [status EXCEPT ![p] = "CREDITED"]
        /\ rstatus' = [r \in Redemptions |-> IF attached[r] = p THEN "APPLIED" ELSE rstatus[r]]
    BY <1>2 DEF PaymentCredited, Recover, Credit, ApplyDiscount, Creditable, ActiveInvoice
  <2> QED BY <2>1, PromoSettles
<1>3. ASSUME NEW p \in Purchases, Refund(p) PROVE PromoInv'
  <2>1. /\ status[p] \notin {"NONE", "REFUNDED"} /\ UNCHANGED <<voucher, code, attached>>
        /\ status' = [status EXCEPT ![p] = "REFUNDED"]
        /\ rstatus' = [r \in Redemptions |-> IF attached[r] = p THEN "REVOKED" ELSE rstatus[r]]
    BY <1>3 DEF Refund, RevokeRedemption
  <2> QED BY <2>1, PromoSettles
<1>4. ASSUME NEW p \in Purchases,
             PaymentReplayed(p) \/ PaymentRefused(p) \/ FreeCheckoutRefused(p) \/ RecoveryFails(p)
      PROVE  PromoInv'
  <2>1. CASE RecoveryFails(p)
    BY <2>1, PromoUntouched DEF RecoveryFails, TypeOK
  <2>2. CASE ~RecoveryFails(p)
    BY <1>4, <2>2, PromoUntouched DEF PaymentReplayed, PaymentRefused, FreeCheckoutRefused
  <2> QED BY <2>1, <2>2
<1>5. CASE ExpireStaleInvoices
  BY <1>5, PromoUntouched DEF ExpireStaleInvoices, TypeOK
<1>6. ASSUME UNCHANGED <<voucher, code, status, attached>>,
             \A q \in Redemptions :
               \/ rstatus'[q] = rstatus[q]
               \/ rstatus[q] = "NONE" /\ rstatus'[q] = "RESERVED"
               \/ rstatus[q] = "RESERVED" /\ rstatus'[q] \in {"EXPIRED", "REVOKED"}
      PROVE  PromoInv'
  <2>1. PromoConsistent'
    BY <1>6 DEF PromoInv, PromoConsistent, AttachedExists, CodeOf
  <2>2. AttachedExists'
    BY <1>6 DEF PromoInv, AttachedExists
  <2> QED BY <2>1, <2>2 DEF PromoInv
<1>7. ASSUME NEW r \in Redemptions, Redeem(r) PROVE PromoInv'
  BY <1>6, <1>7 DEF Redeem, TypeOK
<1>8. CASE ExpireReservations
  BY <1>6, <1>8 DEF ExpireReservations
<1>9. ASSUME NEW c \in Codes, Campaign(c) PROVE PromoInv'
  BY <1>6, <1>9 DEF Campaign, CloseCode, ReopenCode, RevokeReservations, LiveReservations
<1>10. ASSUME \/ \E u \in Users, k \in Stocked : UseStock(u, k)
              \/ Time \/ UNCHANGED vars
      PROVE  PromoInv'
  <2>1. UNCHANGED <<voucher, code, status, attached, rstatus>>
    BY <1>10 DEF UseStock, Time, ReservationLapses, InvoiceGoesStale, PremiumEnds,
                 SaverWindowEnds, vars
  <2> QED BY <2>1, <1>6
<1> QED
  BY <1>1, <1>2, <1>3, <1>4, <1>5, <1>7, <1>8, <1>9, <1>10 DEF Next, Payment, RecoverPaid

LEMMA PromoAlways == Spec => []PromoInv
BY PromoInit, PromoSteps, TypeCorrect, PTL DEF Spec

\* A purchase and the redemption that pays part of it always tell the same story:
\* held, applied with the credit, revoked with the refund.
THEOREM PromoConsistentThm == Spec => []PromoConsistent
<1>1. PromoInv => PromoConsistent
  BY DEF PromoInv
<1> QED BY <1>1, PromoAlways, PTL

\* The uses of a code never exceed the limit of its campaign, although Redeem
\* hands out more live reservations than uses are left.
THEOREM CodeNotOversoldThm == Spec => []CodeNotOversold
<1>1. Init => CodeNotOversold
  BY DEF Init, CodeNotOversold
<1>2. TypeOK /\ PromoInv /\ CodeNotOversold /\ [Next]_vars => CodeNotOversold'
  <2> SUFFICES ASSUME TypeOK, PromoInv, CodeNotOversold, [Next]_vars PROVE CodeNotOversold'
    OBVIOUS
  <2> USE DEF promoVars
  <2>1. ASSUME NEW p \in Purchases, Credit(p) PROVE CodeNotOversold'
    <3>1. /\ used' = [c \in Codes |-> IF c = code[p] THEN used[c] + 1 ELSE used[c]]
          /\ DiscountOK(p)
      BY <2>1 DEF Credit, CreditOK, ApplyDiscount
    <3>2. CASE code[p] = NoCode
      BY <3>1, <3>2 DEF CodeNotOversold
    <3>3. CASE code[p] # NoCode
      <4>1. PICK r \in Redemptions : attached[r] = p /\ CapacityFor(r)
        BY <3>1, <3>3 DEF DiscountOK, DiscountHeld
      <4>2. code[p] = CodeOf(r) /\ CodeOf(r) \in Codes
        BY <4>1, RowTypes DEF PromoInv, PromoConsistent
      <4>3. Cardinality(LiveReservations(CodeOf(r)) \ {r}) \in Nat
        BY FiniteAssumption, FS_Subset, FS_CardinalityType DEF LiveReservations
      <4>4. used[CodeOf(r)] + 1 <= MaxUses[CodeOf(r)]
        BY <4>1, <4>2, <4>3 DEF CapacityFor, TypeOK
      <4> QED BY <3>1, <4>2, <4>4 DEF CodeNotOversold
    <3> QED BY <3>2, <3>3
  <2>2. CASE used' = used
    BY <2>2 DEF CodeNotOversold
  <2>3. ASSUME NEW p \in Purchases,
               \/ Buyer(p) \/ PaymentReplayed(p) \/ PaymentRefused(p) \/ FreeCheckoutRefused(p)
               \/ Refund(p) \/ RecoveryFails(p)
        PROVE  used' = used
    BY <2>3 DEF Buyer, Buy, BuyDiscounted, SendInvoice, MarkInvoiceSent, Precheckout, Charge,
                PaymentReplayed, PaymentRefused, FreeCheckoutRefused, Refund, RevokeRedemption,
                RecoveryFails
  <2>4. ASSUME \/ \E r \in Redemptions : Redeem(r)
               \/ \E c \in Codes : Campaign(c)
               \/ \E u \in Users, k \in Stocked : UseStock(u, k)
               \/ ExpireReservations \/ ExpireStaleInvoices \/ Time \/ UNCHANGED vars
        PROVE  used' = used
    BY <2>4 DEF Redeem, Campaign, CloseCode, ReopenCode,
              RevokeReservations, UseStock, ExpireReservations, ExpireStaleInvoices, Time,
                ReservationLapses, InvoiceGoesStale, PremiumEnds, SaverWindowEnds, vars
  <2> QED
    BY <2>1, <2>2, <2>3, <2>4 DEF Next, Payment, PaymentCredited, RecoverPaid, Recover
<1> QED
  BY <1>1, <1>2, PromoAlways, TypeCorrect, PTL DEF Spec

-----------------------------------------------------------------------------
\* Without imported rows the recovery job does nothing, and a payment credits an
\* open invoice.
LEMMA NoRecovery ==
  ASSUME Booked, NEW p \in Purchases
  PROVE  /\ ~RecoverPaid(p)
         /\ PaymentCredited(p) => status[p] \in ActiveInvoice /\ Credit(p)
BY DEF Booked, LedgerMatchesStatus, RecoverPaid, Recover, RecoveryFails, PaymentCredited, Creditable

\* Steps that neither credit nor refund nor let time pass.
LEMMA OtherSteps ==
  ASSUME \/ \E p \in Purchases : \/ Buyer(p) \/ PaymentReplayed(p) \/ PaymentRefused(p)
                                 \/ FreeCheckoutRefused(p)
         \/ \E r \in Redemptions : Redeem(r) \/ ReservationLapses(r)
         \/ \E c \in Codes : Campaign(c)
         \/ \E u \in Users, k \in Stocked : UseStock(u, k)
         \/ \E p \in Purchases : InvoiceGoesStale(p) \/ PremiumEnds(p)
         \/ ExpireReservations \/ ExpireStaleInvoices \/ UNCHANGED vars
  PROVE  UNCHANGED <<ent, saverLock, savers>>
<1> USE DEF rows, promoVars, assetVars
<1>1. ASSUME NEW p \in Purchases, Buyer(p) PROVE UNCHANGED <<ent, saverLock, savers>>
  BY <1>1 DEF Buyer, Buy, BuyDiscounted, SendInvoice, MarkInvoiceSent, Precheckout, Charge
<1> QED
  BY <1>1 DEF PaymentReplayed, PaymentRefused, FreeCheckoutRefused, Redeem, ReservationLapses,
              Campaign, CloseCode, ReopenCode, RevokeReservations, UseStock,
              InvoiceGoesStale, PremiumEnds, ExpireReservations,
              ExpireStaleInvoices, vars

\* A purchase that was credited stays so until it is refunded.
LEMMA CreditedStays ==
  ASSUME TypeOK, [Next]_vars, NEW q \in Purchases, status[q] = "CREDITED", ~Refund(q)
  PROVE  status'[q] = "CREDITED"
<1> USE DEF TypeOK, rows, ActiveInvoice
<1>1. ASSUME NEW p \in Purchases, Buyer(p) PROVE status'[q] = "CREDITED"
  <2>1. CASE Buy(p) BY <2>1 DEF Buy, MayBuy
  <2>2. ASSUME NEW r \in Redemptions, BuyDiscounted(p, r) PROVE status'[q] = "CREDITED"
    BY <2>2 DEF BuyDiscounted, MayBuy, OpenInvoices
  <2>3. CASE SendInvoice(p) \/ Charge(p) BY <2>3 DEF SendInvoice, Charge
  <2>4. CASE MarkInvoiceSent(p) BY <2>4 DEF MarkInvoiceSent
  <2>5. CASE Precheckout(p) BY <2>5 DEF Precheckout
  <2> QED BY <1>1, <2>1, <2>2, <2>3, <2>4, <2>5 DEF Buyer
<1>2. ASSUME NEW p \in Purchases, Payment(p) \/ RecoverPaid(p) PROVE status'[q] = "CREDITED"
  <2>1. CASE Credit(p) BY <2>1 DEF Credit
  <2>2. CASE ~Credit(p) /\ ~RecoveryFails(p)
    BY <1>2, <2>2 DEF Payment, PaymentCredited, PaymentReplayed, PaymentRefused, RecoverPaid, Recover
  <2>3. CASE RecoveryFails(p) BY <2>3 DEF RecoveryFails
  <2> QED BY <2>1, <2>2, <2>3
<1>3. ASSUME NEW p \in Purchases, FreeCheckoutRefused(p) \/ Refund(p) PROVE status'[q] = "CREDITED"
  BY <1>3 DEF FreeCheckoutRefused, Refund
<1>4. CASE ExpireStaleInvoices
  BY <1>4 DEF ExpireStaleInvoices
<1>5. ASSUME \/ \E r \in Redemptions : Redeem(r)
             \/ \E c \in Codes : Campaign(c)
             \/ \E u \in Users, k \in Stocked : UseStock(u, k)
             \/ ExpireReservations \/ Time \/ UNCHANGED vars
      PROVE  status' = status
  BY <1>5 DEF Redeem, Campaign, CloseCode, ReopenCode,
              RevokeReservations, UseStock, ExpireReservations, Time,
              ReservationLapses, InvoiceGoesStale, PremiumEnds, SaverWindowEnds, vars
<1> QED
  BY <1>1, <1>2, <1>3, <1>4, <1>5 DEF Next

\* Without imported rows a user has at most one ACTIVE premium, and it was paid
\* for and not refunded: upgrades revoke it, refunds take it back.
THEOREM ActivePremiumPaidThm == ASSUME Imported = {} PROVE Spec => []ActivePremiumPaid
<1>1. Init => ActivePremiumPaid
  BY DEF Init, ActivePremiumPaid
<1>2. TypeOK /\ Booked /\ ActivePremiumPaid /\ [Next]_vars => ActivePremiumPaid'
  <2> SUFFICES ASSUME TypeOK, Booked, ActivePremiumPaid, [Next]_vars PROVE ActivePremiumPaid'
    OBVIOUS
  <2>1. order' = order
    BY OpenStep
  <2>2. ASSUME NEW p \in Purchases, PaymentCredited(p) PROVE ActivePremiumPaid'
    <3>1. /\ EntitlementOK(p)
          /\ status' = [status EXCEPT ![p] = "CREDITED"]
          /\ ent' = [q \in Purchases |->
                       IF Premium(p) /\ q = p THEN "ACTIVE"
                       ELSE IF Premium(p) /\ q \in LivePremium(UserOf(p)) THEN "REVOKED"
                       ELSE ent[q]]
      BY <2>2 DEF PaymentCredited, Credit, CreditOK, HandOver
    <3>2. \A q \in Purchases : ent'[q] = "ACTIVE" => status'[q] = "CREDITED"
      BY <3>1 DEF ActivePremiumPaid, TypeOK
    <3>3. ASSUME NEW o \in Purchases, NEW q \in Purchases,
                 ent'[o] = "ACTIVE", ent'[q] = "ACTIVE", UserOf(o) = UserOf(q)
          PROVE  o = q
      <4>1. CASE ~Premium(p)
        BY <3>1, <3>3, <4>1 DEF ActivePremiumPaid
      <4>2. CASE Premium(p)
        <5>1. \A w \in Purchases : ent'[w] = "ACTIVE" /\ UserOf(w) = UserOf(p) => w = p
          BY <3>1, <4>2 DEF EntitlementOK, LapsedPremium, LivePremium
        <5>2. \A w \in Purchases : ent'[w] = "ACTIVE" => w = p \/ ent[w] = "ACTIVE"
          BY <3>1
        <5> QED BY <3>3, <5>1, <5>2 DEF ActivePremiumPaid
      <4> QED BY <4>1, <4>2
    <3> QED BY <2>1, <3>2, <3>3 DEF ActivePremiumPaid, UserOf
  <2>3. ASSUME NEW p \in Purchases, Refund(p) PROVE ActivePremiumPaid'
    <3>1. TakeBack(p) /\ status' = [status EXCEPT ![p] = "REFUNDED"]
      BY <2>3 DEF Refund, Booked, LedgerMatchesStatus
    <3>2. \A q \in Purchases : ent'[q] = "ACTIVE" => ent[q] = "ACTIVE" /\ q # p
      BY <3>1 DEF TakeBack, TypeOK
    <3> QED BY <2>1, <3>1, <3>2 DEF ActivePremiumPaid, TypeOK, UserOf
  <2>4. CASE ent' = ent /\ ~\E p \in Purchases : Refund(p)
    BY <2>1, <2>4, CreditedStays DEF ActivePremiumPaid, UserOf
  <2>5. ASSUME NEW u \in Users, SaverWindowEnds(u) PROVE ActivePremiumPaid'
    <3>1. ent' = ent /\ status' = status
      BY <2>5 DEF SaverWindowEnds
    <3> QED BY <2>1, <3>1 DEF ActivePremiumPaid, UserOf
  <2> QED
    BY <2>2, <2>3, <2>4, <2>5, OtherSteps, NoRecovery DEF Next, Payment, Time
<1> QED
  BY <1>1, <1>2, TypeCorrect, BookedAlways, PTL DEF Spec

\* While the window of a bought streak saver lasts, no invoice for another is open.
SaverWindow ==
  \A u \in Users : savers[u] > 0 =>
    /\ savers[u] = 1 /\ saverLock[u]
    /\ \A q \in Purchases :
         UserOf(q) = u /\ ProductOf(q) = "SAVER" => status[q] \notin ActiveInvoice

\* Without imported rows a user is credited one streak saver in 7 days, although
\* the limit is checked when the invoice is made and not when it is paid.
THEOREM SaverOncePerWindowThm == ASSUME Imported = {} PROVE Spec => []SaverOncePerWindow
<1>1. Init => SaverWindow
  BY DEF Init, SaverWindow
<1>2. TypeOK /\ Booked /\ OneOpenInvoice /\ SaverWindow /\ [Next]_vars => SaverWindow'
  <2> SUFFICES ASSUME TypeOK, Booked, OneOpenInvoice, SaverWindow, [Next]_vars PROVE SaverWindow'
    OBVIOUS
  <2>1. order' = order
    BY OpenStep
  <2>2. ASSUME NEW u \in Users, saverLock[u], NEW q \in Purchases,
               UserOf(q) = u, ProductOf(q) = "SAVER", status'[q] \in ActiveInvoice
        PROVE  status[q] \in ActiveInvoice
    BY <2>2, OpenStep DEF Opened, MayBuy
  <2>3. CASE UNCHANGED <<saverLock, savers>>
    BY <2>1, <2>2, <2>3 DEF SaverWindow, UserOf, ProductOf
  <2>4. ASSUME NEW p \in Purchases, PaymentCredited(p) PROVE SaverWindow'
    <3>1. status[p] \in ActiveInvoice /\ HandOver(p) /\ status' = [status EXCEPT ![p] = "CREDITED"]
      BY <2>4, NoRecovery DEF Credit
    <3>2. CASE ProductOf(p) # "SAVER"
      BY <2>3, <3>1, <3>2 DEF HandOver
    <3>3. CASE ProductOf(p) = "SAVER"
      <4>1. UserOf(p) \in Users /\ savers[UserOf(p)] = 0
        <5>1. UserOf(p) \in Users
          BY RowTypes
        <5>2. savers[UserOf(p)] \in Nat
          BY <5>1 DEF TypeOK
        <5>3. ~(savers[UserOf(p)] > 0)
          BY <3>1, <3>3, <5>1 DEF SaverWindow
        <5> QED BY <5>1, <5>2, <5>3
      <4>2. /\ saverLock' = [saverLock EXCEPT ![UserOf(p)] = TRUE]
            /\ savers' = [savers EXCEPT ![UserOf(p)] = 1]
        BY <3>1, <3>3, <4>1 DEF HandOver
      <4>3. \A q \in Purchases :
              UserOf(q) = UserOf(p) /\ ProductOf(q) = "SAVER" => status'[q] \notin ActiveInvoice
        <5>1. \A q \in Purchases : q # p => status'[q] = status[q]
          BY <3>1 DEF TypeOK
        <5>2. status'[p] \notin ActiveInvoice
          BY <3>1 DEF TypeOK, ActiveInvoice
        <5> QED BY <3>1, <3>3, <5>1, <5>2 DEF OneOpenInvoice
      <4>4. \A q \in Purchases : status'[q] \in ActiveInvoice => status[q] \in ActiveInvoice
        BY <3>1 DEF TypeOK, ActiveInvoice
      <4> QED BY <2>1, <4>1, <4>2, <4>3, <4>4 DEF SaverWindow, UserOf, ProductOf, TypeOK
    <3> QED BY <3>2, <3>3
  <2>5. ASSUME NEW u \in Users, SaverWindowEnds(u) PROVE SaverWindow'
    <3>1. /\ saverLock' = [saverLock EXCEPT ![u] = FALSE]
          /\ savers' = [savers EXCEPT ![u] = 0] /\ status' = status
      BY <2>5 DEF SaverWindowEnds
    <3> QED BY <2>1, <3>1 DEF SaverWindow, UserOf, ProductOf, TypeOK
  <2>6. ASSUME NEW p \in Purchases, Refund(p) PROVE UNCHANGED <<saverLock, savers>>
    BY <2>6 DEF Refund, TakeBack, assetVars
  <2> QED
    BY <2>3, <2>4, <2>5, <2>6, OtherSteps, NoRecovery DEF Next, Payment, Time
<1>3. TypeOK /\ SaverWindow => SaverOncePerWindow
  <2> SUFFICES ASSUME TypeOK, SaverWindow, NEW u \in Users PROVE savers[u] <= 1
    BY DEF SaverOncePerWindow
  <2>1. savers[u] \in Nat
    BY DEF TypeOK
  <2> QED BY <2>1 DEF SaverWindow
<1> QED
  BY <1>1, <1>2, <1>3, TypeCorrect, BookedAlways, OneOpenInvoiceThm, PTL DEF Spec
=============================================================================
