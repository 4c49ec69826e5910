----------------------------- MODULE Purchases -----------------------------
(***************************************************************************)
(* The life of a purchase: from the buy button to the invoice, Telegram's  *)
(* pre-checkout query and payment message, the credit, the refund, and the *)
(* jobs that expire, recover and revoke.  A purchase may carry a discount, *)
(* held by a reservation of a promo code.                                  *)
(*                                                                         *)
(* Every action is one database transaction.  The handlers lock the rows   *)
(* they read, except a row that does not exist yet (an active invoice, an  *)
(* entitlement): there the loser of a race fails on a unique index and is  *)
(* rolled back, as if it had not run.  A handler that raises changes       *)
(* nothing either and is no action, unless it leaves the user without what *)
(* was paid for: those are the Refused actions.                            *)
(***************************************************************************)
EXTENDS Naturals, FiniteSets

CONSTANTS
  Users, Purchases, Redemptions, Codes,
  NoCode, NoPurchase,  \* NULL in applied_promo_code_id and applied_purchase_id
  Orders,              \* the buy buttons to look at: values of order
  Vouchers,            \* the redeem requests to look at: values of voucher
  FreeCodes,           \* codes that leave nothing to pay: FREE, 100 PERCENT, large FIXED
  MaxUses,             \* max_total_uses of a code
  Imported,            \* purchases that are PAID_UNCREDITED from the start
  MaxInvoices          \* bound: invoice messages sent for one purchase

Products == {"ENERGY", "SAVER", "TICKET", "STARTER", "MONTH"}

\* MICRO goods that are kept in a wallet; other MICRO goods are only counted.
Stocked == {"ENERGY", "SAVER"}

\* PREMIUM_PLAN_RANKS; 0 for a MICRO product.
Rank(product) ==
  CASE product = "STARTER" -> 1
    [] product = "MONTH" -> 2
    [] OTHER -> 0

ASSUME RowsAssumption ==
  /\ Orders \subseteq [Purchases -> [user : Users, product : Products]]
  /\ Vouchers \subseteq [Redemptions -> [user : Users, code : Codes]]
  /\ Imported \subseteq Purchases
ASSUME NullAssumption == NoCode \notin Codes /\ NoPurchase \notin Purchases
ASSUME CodesAssumption == FreeCodes \subseteq Codes /\ MaxUses \in [Codes -> Nat \ {0}]
ASSUME BoundsAssumption == MaxInvoices \in Nat \ {0}
ASSUME FiniteAssumption == IsFiniteSet(Redemptions)

VARIABLES
  \* purchases
  order,       \* user_id and product_code, those of the buy button
  status,      \* status, or NONE when there is no row
  code,        \* applied_promo_code_id
  stale,       \* created_at is 30 minutes ago
  failures,    \* _credit_recovery_failures
  \* promo_redemptions and promo_codes
  voucher,     \* user_id and promo_code_id, those of the redeem request
  rstatus,     \* status, or NONE when there is no row
  rlive,       \* reserved_until > now()
  attached,    \* applied_purchase_id
  usable,      \* promo_codes.status is ACTIVE and valid_from <= now() < valid_until
  used,        \* used_total
  \* what a credit writes
  ledger,      \* ledger_entries: <<"credit" or "refund", purchase>>
  ent,         \* status of the entitlement with this source_purchase_id
  over,        \* its ends_at has passed
  stock,       \* paid_energy and streak_saver_tokens, in packages
  saverLock,   \* streak_saver_last_purchase_at is less than 7 days ago
  \* Telegram
  invoices,    \* invoice messages sent
  approved,    \* pre-checkout queries answered with ok
  charges,     \* payments Telegram took
  inbox        \* successful_payment messages not done with

\* History, never read by an action.
VARIABLES
  goods,       \* how often the goods of a purchase were handed over
  savers,      \* streak savers a user was credited in the current 7 days
  refused      \* purchases paid for, or free, whose credit was turned away

rows == <<order, voucher, code, stale, failures>>
promoVars == <<rstatus, rlive, attached, usable, used>>
assetVars == <<ledger, ent, over, stock, saverLock, goods, savers>>
telegramVars == <<invoices, approved, charges, inbox>>
vars == <<rows, status, promoVars, assetVars, telegramVars, refused>>

UserOf(p) == order[p].user
ProductOf(p) == order[p].product
HolderOf(r) == voucher[r].user
CodeOf(r) == voucher[r].code

ActiveInvoice == {"CREATED", "INVOICE_SENT", "PRECHECKOUT_OK"}
Statuses == ActiveInvoice \cup {"NONE", "PAID_UNCREDITED", "CREDITED", "FAILED",
                                "FAILED_CREDIT_PENDING_REVIEW", "REFUNDED"}

MaxRecoveryAttempts == 3

TypeOK ==
  /\ order \in Orders
  /\ voucher \in Vouchers
  /\ status \in [Purchases -> Statuses]
  /\ code \in [Purchases -> Codes \cup {NoCode}]
  /\ stale \in [Purchases -> BOOLEAN]
  /\ failures \in [Purchases -> 0..MaxRecoveryAttempts]
  /\ rstatus \in [Redemptions -> {"NONE", "RESERVED", "APPLIED", "EXPIRED", "REVOKED"}]
  /\ rlive \in [Redemptions -> BOOLEAN]
  /\ attached \in [Redemptions -> Purchases \cup {NoPurchase}]
  /\ usable \in [Codes -> BOOLEAN]
  /\ used \in [Codes -> Nat]
  /\ ledger \subseteq {"credit", "refund"} \X Purchases
  /\ ent \in [Purchases -> {"NONE", "ACTIVE", "REVOKED"}]
  /\ over \in [Purchases -> BOOLEAN]
  /\ stock \in [Users -> [Stocked -> Nat]]
  /\ saverLock \in [Users -> BOOLEAN]
  /\ invoices \in [Purchases -> 0..MaxInvoices]
  /\ approved \in [Purchases -> 0..MaxInvoices]
  /\ charges \in [Purchases -> 0..MaxInvoices]
  /\ inbox \in [Purchases -> 0..MaxInvoices]
  /\ goods \in [Purchases -> Nat]
  /\ savers \in [Users -> Nat]
  /\ refused \subseteq Purchases

\* Nothing in this release commits PAID_UNCREDITED: an imported purchase is a row
\* an operator or an earlier release left behind, as the tests of the recovery
\* job insert it.  It may carry a reservation that is live or has run out.
ImportedPromos ==
  {f \in [Redemptions -> Imported \cup {NoPurchase}] :
     /\ \A r \in Redemptions : f[r] # NoPurchase => HolderOf(r) = UserOf(f[r])
     /\ \A q, r \in Redemptions : f[q] = f[r] /\ f[r] # NoPurchase => q = r}

Init ==
  /\ order \in Orders
  /\ voucher \in Vouchers
  /\ attached \in ImportedPromos
  /\ rlive \in {f \in [Redemptions -> BOOLEAN] :
                  \A r \in Redemptions : f[r] => attached[r] # NoPurchase}
  /\ rstatus = [r \in Redemptions |-> IF attached[r] = NoPurchase THEN "NONE" ELSE "RESERVED"]
  /\ code = [p \in Purchases |->
               IF \E r \in Redemptions : attached[r] = p
                 THEN CodeOf(CHOOSE r \in Redemptions : attached[r] = p) ELSE NoCode]
  /\ \A r \in Redemptions : attached[r] # NoPurchase => CodeOf(r) \notin FreeCodes
  /\ status = [p \in Purchases |-> IF p \in Imported THEN "PAID_UNCREDITED" ELSE "NONE"]
  /\ stale = [p \in Purchases |-> FALSE]
  /\ failures = [p \in Purchases |-> 0]
  /\ usable = [c \in Codes |-> TRUE]
  /\ used = [c \in Codes |-> 0]
  /\ ledger = {}
  /\ ent = [p \in Purchases |-> "NONE"]
  /\ over = [p \in Purchases |-> FALSE]
  /\ stock = [u \in Users |-> [k \in Stocked |-> 0]]
  /\ saverLock = [u \in Users |-> FALSE]
  /\ LET sold == [p \in Purchases |-> IF p \in Imported THEN 1 ELSE 0]
     IN invoices = sold /\ approved = sold /\ charges = sold
  /\ inbox = [p \in Purchases |-> 0]
  /\ goods = [p \in Purchases |-> 0]
  /\ savers = [u \in Users |-> 0]
  /\ refused = {}

-----------------------------------------------------------------------------
\* promo codes and their reservations

LiveReservations(c) ==
  {r \in Redemptions : CodeOf(r) = c /\ rstatus[r] = "RESERVED" /\ rlive[r]}

\* A mutant of CapacityFor: off by one.
CapacityUpTo(r) ==
  used[CodeOf(r)] + Cardinality(LiveReservations(CodeOf(r)) \ {r}) <= MaxUses[CodeOf(r)]

\* _ensure_discount_capacity_available: the other live reservations count too.
CapacityFor(r) ==
  used[CodeOf(r)] + Cardinality(LiveReservations(CodeOf(r)) \ {r}) < MaxUses[CodeOf(r)]

\* can_user_retry_promo, for max_uses_per_user = 1.
MayRetry(r) ==
  LET earlier == {q \in Redemptions :
                    HolderOf(q) = HolderOf(r) /\ CodeOf(q) = CodeOf(r) /\ rstatus[q] # "NONE"}
  IN /\ \A q \in earlier : rstatus[q] \notin {"RESERVED", "APPLIED"} /\ attached[q] = NoPurchase
     /\ Cardinality(earlier) < 2

\* PromoService.redeem for a discount code.  Unlike a purchase it looks at
\* used_total alone, so live reservations may outnumber the uses left.
Redeem(r) ==
  /\ rstatus[r] = "NONE"
  /\ MayRetry(r)
  /\ usable[CodeOf(r)]
  /\ used[CodeOf(r)] < MaxUses[CodeOf(r)]
  /\ rstatus' = [rstatus EXCEPT ![r] = "RESERVED"]
  /\ rlive' = [rlive EXCEPT ![r] = TRUE]
  /\ UNCHANGED <<rows, status, attached, usable, used, assetVars, telegramVars, refused>>

\* _validate_reserved_discount_for_purchase
DiscountHeld(p) ==
  \E r \in Redemptions :
    /\ attached[r] = p
    /\ rstatus[r] = "RESERVED" /\ rlive[r]
    /\ usable[code[p]]
    /\ CapacityFor(r)
DiscountOK(p) == code[p] = NoCode \/ DiscountHeld(p)

\* A mutant of ExpireReservations: reservations with a purchase are left out.
ExpireUnattached ==
  /\ \E r \in Redemptions : rstatus[r] = "RESERVED" /\ ~rlive[r] /\ attached[r] = NoPurchase
  /\ rstatus' = [r \in Redemptions |->
                   IF rstatus[r] = "RESERVED" /\ ~rlive[r] /\ attached[r] = NoPurchase
                     THEN "EXPIRED" ELSE rstatus[r]]
  /\ UNCHANGED <<rows, status, rlive, attached, usable, used, assetVars, telegramVars, refused>>

\* run_promo_reservation_expiry
ExpireReservations ==
  /\ \E r \in Redemptions : rstatus[r] = "RESERVED" /\ ~rlive[r]
  /\ rstatus' = [r \in Redemptions |->
                   IF rstatus[r] = "RESERVED" /\ ~rlive[r] THEN "EXPIRED" ELSE rstatus[r]]
  /\ UNCHANGED <<rows, status, rlive, attached, usable, used, assetVars, telegramVars, refused>>

\* The campaign ends (and run_promo_campaign_status_rollover writes EXPIRED later),
\* or run_promo_bruteforce_guard or an operator pauses it.  The status DEPLETED,
\* written when used_total has reached max_total_uses, forbids nothing that the
\* capacity checks do not forbid already.
CloseCode(c) ==
  /\ usable[c]
  /\ usable' = [usable EXCEPT ![c] = FALSE]
  /\ UNCHANGED <<rows, status, rstatus, rlive, attached, used, assetVars, telegramVars, refused>>

\* toggle_promo: an operator activates a paused code, or extends the campaign.
ReopenCode(c) ==
  /\ ~usable[c]
  /\ usable' = [usable EXCEPT ![c] = TRUE]
  /\ UNCHANGED <<rows, status, rstatus, rlive, attached, used, assetVars, telegramVars, refused>>

\* revoke_promo: an operator takes back the live reservations of a code, those
\* that hold the discount of an invoice included.
RevokeReservations(c) ==
  /\ LiveReservations(c) # {}
  /\ rstatus' = [r \in Redemptions |->
                   IF r \in LiveReservations(c) THEN "REVOKED" ELSE rstatus[r]]
  /\ rlive' = [r \in Redemptions |-> r \notin LiveReservations(c) /\ rlive[r]]
  /\ UNCHANGED <<rows, status, attached, usable, used, assetVars, telegramVars, refused>>

Campaign(c) == CloseCode(c) \/ ReopenCode(c) \/ RevokeReservations(c)

-----------------------------------------------------------------------------
\* init_purchase

LivePremium(u) == {q \in Purchases : UserOf(q) = u /\ ent[q] = "ACTIVE" /\ ~over[q]}
LapsedPremium(u) == {q \in Purchases : UserOf(q) = u /\ ent[q] = "ACTIVE" /\ over[q]}

\* A plan of the same or a higher rank is running: PremiumDowngradeNotAllowed.
RankBlocks(p) ==
  /\ Rank(ProductOf(p)) > 0
  /\ \E q \in LivePremium(UserOf(p)) : Rank(ProductOf(p)) <= Rank(ProductOf(q))

\* A mutant of OpenInvoices: an approved invoice does not count as open.
UnapprovedInvoices(p) ==
  {q \in Purchases : /\ UserOf(q) = UserOf(p) /\ ProductOf(q) = ProductOf(p)
                     /\ status[q] \in {"CREATED", "INVOICE_SENT"}}

\* get_active_invoice_for_user_product_for_update
OpenInvoices(p) ==
  {q \in Purchases : /\ UserOf(q) = UserOf(p) /\ ProductOf(q) = ProductOf(p)
                     /\ status[q] \in ActiveInvoice}

\* A mutant of MayBuy: the streak saver limit is not checked.
MayBuyAnytime(p) ==
  /\ status[p] = "NONE"
  /\ ~RankBlocks(p)

MayBuy(p) ==
  /\ status[p] = "NONE"
  /\ ProductOf(p) = "SAVER" => ~saverLock[UserOf(p)]
  /\ ~RankBlocks(p)

\* A new invoice at the full price.  With an active invoice for the product the
\* buyer gets that one again, discount included, and nothing changes.
Buy(p) ==
  /\ MayBuy(p)
  /\ OpenInvoices(p) = {}
  /\ status' = [status EXCEPT ![p] = "CREATED"]
  /\ UNCHANGED <<rows, promoVars, assetVars, telegramVars, refused>>

\* _validate_and_reserve_discount_redemption
MayReserve(p, r) ==
  /\ rstatus[r] = "RESERVED" /\ rlive[r]
  /\ HolderOf(r) = UserOf(p)
  /\ attached[r] = NoPurchase
  /\ usable[CodeOf(r)]
  /\ CapacityFor(r)

\* A new invoice with a discount.  It replaces an active invoice that does not
\* carry the same code, whatever the stage that one has reached.
BuyDiscounted(p, r) ==
  /\ MayBuy(p)
  /\ MayReserve(p, r)
  /\ \A q \in OpenInvoices(p) : code[q] # CodeOf(r)
  /\ status' = [q \in Purchases |-> IF q = p THEN "CREATED"
                                    ELSE IF q \in OpenInvoices(p) THEN "FAILED"
                                    ELSE status[q]]
  /\ code' = [code EXCEPT ![p] = CodeOf(r)]
  /\ attached' = [attached EXCEPT ![r] = p]
  /\ LET dropped == {q \in Redemptions :
                       attached[q] \in OpenInvoices(p) /\ rstatus[q] = "RESERVED"}
     IN /\ rstatus' = [q \in Redemptions |-> IF q \in dropped THEN "EXPIRED" ELSE rstatus[q]]
        /\ rlive' = [q \in Redemptions |-> q \notin dropped /\ rlive[q]]
  /\ UNCHANGED <<order, voucher, stale, failures, usable, used, assetVars, telegramVars, refused>>

-----------------------------------------------------------------------------
\* Telegram and the handlers of its messages

Free(p) == code[p] \in FreeCodes

\* handle_buy sends an invoice message, again when the callback is delivered
\* again or the active invoice is reused.
SendInvoice(p) ==
  /\ status[p] # "NONE"
  /\ ~Free(p)
  /\ invoices[p] < MaxInvoices
  /\ invoices' = [invoices EXCEPT ![p] = @ + 1]
  /\ UNCHANGED <<rows, status, promoVars, assetVars, approved, charges, inbox, refused>>

MarkInvoiceSent(p) ==
  /\ status[p] = "CREATED"
  /\ invoices[p] > 0
  /\ status' = [status EXCEPT ![p] = "INVOICE_SENT"]
  /\ UNCHANGED <<rows, promoVars, assetVars, telegramVars, refused>>

\* validate_precheckout, answered with ok.
Precheckout(p) ==
  /\ approved[p] < invoices[p]
  /\ status[p] \in ActiveInvoice
  /\ DiscountOK(p)
  /\ status' = [status EXCEPT ![p] = "PRECHECKOUT_OK"]
  /\ approved' = [approved EXCEPT ![p] = @ + 1]
  /\ UNCHANGED <<rows, promoVars, assetVars, invoices, charges, inbox, refused>>

\* Telegram takes the Stars once the pre-checkout query is approved, some time
\* later or never, and sends the payment message.
Charge(p) ==
  /\ charges[p] < approved[p]
  /\ charges' = [charges EXCEPT ![p] = @ + 1]
  /\ inbox' = [inbox EXCEPT ![p] = @ + 1]
  /\ UNCHANGED <<rows, status, promoVars, assetVars, invoices, approved, refused>>

\* A payment message is handled: done with, or delivered again.
TakePayment(p) ==
  /\ inbox[p] > 0
  /\ \E rest \in {inbox[p] - 1, inbox[p]} : inbox' = [inbox EXCEPT ![p] = rest]
  /\ UNCHANGED <<invoices, approved, charges>>

-----------------------------------------------------------------------------
\* credit_purchase_assets, in the order in which it can fail.

Premium(p) == Rank(ProductOf(p)) > 0

\* _apply_premium_entitlement: the rank is checked again, and the insert fails on
\* the unique index if an ACTIVE entitlement is left whose time is over.
EntitlementOK(p) == Premium(p) => ~RankBlocks(p) /\ LapsedPremium(UserOf(p)) = {}

HandOver(p) ==
  /\ ent' = [q \in Purchases |->
               IF Premium(p) /\ q = p THEN "ACTIVE"
               ELSE IF Premium(p) /\ q \in LivePremium(UserOf(p)) THEN "REVOKED"
               ELSE ent[q]]
  /\ stock' = [u \in Users |-> [k \in Stocked |->
                 IF u = UserOf(p) /\ k = ProductOf(p) THEN stock[u][k] + 1 ELSE stock[u][k]]]
  /\ IF ProductOf(p) = "SAVER"
       THEN /\ saverLock' = [saverLock EXCEPT ![UserOf(p)] = TRUE]
            /\ savers' = [savers EXCEPT ![UserOf(p)] = @ + 1]
       ELSE UNCHANGED <<saverLock, savers>>
  /\ goods' = [goods EXCEPT ![p] = @ + 1]
  /\ UNCHANGED over

ApplyDiscount(p) ==
  /\ rstatus' = [r \in Redemptions |-> IF attached[r] = p THEN "APPLIED" ELSE rstatus[r]]
  /\ used' = [c \in Codes |-> IF c = code[p] THEN used[c] + 1 ELSE used[c]]
  /\ UNCHANGED <<rlive, attached, usable>>

\* The credit entry is for stars_amount, which ledger_entries wants positive; its
\* idempotency key is unique.
CreditOK(p) ==
  EntitlementOK(p) /\ DiscountOK(p) /\ ~Free(p) /\ <<"credit", p>> \notin ledger
Credit(p) ==
  /\ CreditOK(p)
  /\ HandOver(p)
  /\ ApplyDiscount(p)
  /\ ledger' = ledger \cup {<<"credit", p>>}
  /\ status' = [status EXCEPT ![p] = "CREDITED"]
  /\ UNCHANGED rows

Creditable == ActiveInvoice \cup {"PAID_UNCREDITED"}

\* handle_successful_payment: the payment is recorded and credited in one
\* transaction,
PaymentCredited(p) ==
  /\ TakePayment(p)
  /\ status[p] \in Creditable
  /\ Credit(p)
  /\ UNCHANGED refused

\* (a mutant of PaymentReplayed: the goods are handed over again)
PaymentCreditedAgain(p) ==
  /\ TakePayment(p)
  /\ status[p] = "CREDITED"
  /\ HandOver(p)
  /\ UNCHANGED <<rows, status, promoVars, ledger, refused>>

\* found to be credited already,
PaymentReplayed(p) ==
  /\ TakePayment(p)
  /\ status[p] = "CREDITED"
  /\ UNCHANGED <<rows, status, promoVars, assetVars, refused>>

\* (a mutant of PaymentRefused: PAID_UNCREDITED is committed before the credit)
PaymentParked(p) ==
  /\ TakePayment(p)
  /\ status[p] \in Creditable /\ ~CreditOK(p)
  /\ status' = [status EXCEPT ![p] = "PAID_UNCREDITED"]
  /\ refused' = refused \cup {p}
  /\ UNCHANGED <<rows, promoVars, assetVars>>

\* or turned away: the rollback undoes PAID_UNCREDITED and the charge id too.
\* (A late duplicate for a purchase that was refunded costs the user nothing.)
PaymentRefused(p) ==
  /\ TakePayment(p)
  /\ status[p] # "CREDITED"
  /\ ~(status[p] \in Creditable /\ CreditOK(p))
  /\ refused' = IF status[p] = "REFUNDED" THEN refused ELSE refused \cup {p}
  /\ UNCHANGED <<rows, status, promoVars, assetVars>>

\* handle_buy credits a purchase that costs nothing without an invoice: the
\* ledger does not take its entry.
FreeCheckoutRefused(p) ==
  /\ Free(p)
  /\ status[p] \in Creditable
  /\ ~CreditOK(p)
  /\ refused' = refused \cup {p}
  /\ UNCHANGED <<rows, status, promoVars, assetVars, telegramVars>>

-----------------------------------------------------------------------------
\* payments_reliability

\* A mutant of ExpireStaleInvoices: approved invoices expire too.
ExpireStaleActive ==
  LET unpaid == {p \in Purchases : status[p] \in ActiveInvoice /\ stale[p]}
  IN /\ unpaid # {}
     /\ status' = [p \in Purchases |-> IF p \in unpaid THEN "FAILED" ELSE status[p]]
     /\ UNCHANGED <<rows, promoVars, assetVars, telegramVars, refused>>

\* A mutant of ExpireStaleInvoices: invoices that were sent do not expire.
ExpireStaleCreated ==
  LET unpaid == {p \in Purchases : status[p] = "CREATED" /\ stale[p]}
  IN /\ unpaid # {}
     /\ status' = [p \in Purchases |-> IF p \in unpaid THEN "FAILED" ELSE status[p]]
     /\ UNCHANGED <<rows, promoVars, assetVars, telegramVars, refused>>

\* expire_stale_unpaid_invoices
ExpireStaleInvoices ==
  LET unpaid == {p \in Purchases : status[p] \in {"CREATED", "INVOICE_SENT"} /\ stale[p]}
  IN /\ unpaid # {}
     /\ status' = [p \in Purchases |-> IF p \in unpaid THEN "FAILED" ELSE status[p]]
     /\ UNCHANGED <<rows, promoVars, assetVars, telegramVars, refused>>

\* _recover_single_purchase
Recover(p) ==
  /\ status[p] = "PAID_UNCREDITED"
  /\ Credit(p)
  /\ UNCHANGED <<telegramVars, refused>>

\* A ticket is the CREDITED row itself, other goods are rows of their own.
HandOverWithoutCredit(p) ==
  IF ProductOf(p) = "TICKET" THEN UNCHANGED assetVars ELSE HandOver(p) /\ UNCHANGED ledger

\* A mutant of RecoveryFails: failed attempts are not counted.
RecoveryFailsUncounted(p) ==
  /\ status[p] = "PAID_UNCREDITED"
  /\ \/ RankBlocks(p) /\ UNCHANGED assetVars
     \/ EntitlementOK(p) /\ ~DiscountOK(p) /\ HandOverWithoutCredit(p)
  /\ UNCHANGED <<rows, status, promoVars, telegramVars, refused>>

\* A validation error is caught inside the transaction, which then commits: what
\* was handed over before the discount turned out to be gone stays.  (A refused
\* insert rolls the attempt back, and it is not counted.)
RecoveryFails(p) ==
  /\ status[p] = "PAID_UNCREDITED"
  /\ \/ RankBlocks(p) /\ UNCHANGED assetVars
     \/ EntitlementOK(p) /\ ~DiscountOK(p) /\ HandOverWithoutCredit(p)
  /\ failures' = [failures EXCEPT ![p] = @ + 1]
  /\ status' = [status EXCEPT ![p] =
                  IF failures'[p] >= MaxRecoveryAttempts THEN "FAILED_CREDIT_PENDING_REVIEW" ELSE @]
  /\ UNCHANGED <<order, voucher, code, stale, promoVars, telegramVars, refused>>

RecoverPaid(p) == Recover(p) \/ RecoveryFails(p)

-----------------------------------------------------------------------------
\* rollback_promo_for_refund: refund_purchase and revoke_redemption_for_refund.

\* A mutant of Less: the debit is not limited to what is left.
Debit(n) == n - 1

Less(n) == IF n > 0 THEN n - 1 ELSE 0

\* A mutant of TakeBack: the entitlement is not revoked.
TakeBackStock(p) ==
  /\ stock' = [u \in Users |-> [k \in Stocked |->
                 IF u = UserOf(p) /\ k = ProductOf(p) THEN Less(stock[u][k]) ELSE stock[u][k]]]
  /\ ledger' = ledger \cup {<<"refund", p>>}
  /\ UNCHANGED <<ent, over, saverLock, goods, savers>>

\* Goods that were used up already cannot be taken back.
TakeBack(p) ==
  /\ stock' = [u \in Users |-> [k \in Stocked |->
                 IF u = UserOf(p) /\ k = ProductOf(p) THEN Less(stock[u][k]) ELSE stock[u][k]]]
  /\ ent' = [ent EXCEPT ![p] = IF @ = "ACTIVE" THEN "REVOKED" ELSE @]
  /\ ledger' = ledger \cup {<<"refund", p>>}
  /\ UNCHANGED <<over, saverLock, goods, savers>>

\* A mutant of RevokeRedemption: the redemption stays as it is.
KeepRedemption(p) == UNCHANGED promoVars

RevokeRedemption(p) ==
  /\ rstatus' = [r \in Redemptions |-> IF attached[r] = p THEN "REVOKED" ELSE rstatus[r]]
  /\ UNCHANGED <<rlive, attached, usable, used>>

Refund(p) ==
  /\ \/ status[p] = "CREDITED" /\ <<"credit", p>> \in ledger /\ TakeBack(p)
     \/ status[p] = "PAID_UNCREDITED" /\ UNCHANGED assetVars
  /\ status' = [status EXCEPT ![p] = "REFUNDED"]
  /\ RevokeRedemption(p)
  /\ UNCHANGED <<rows, telegramVars, refused>>

-----------------------------------------------------------------------------
\* The game and the clock

\* A quiz takes energy, a missed day takes a streak saver.
UseStock(u, k) ==
  /\ stock[u][k] > 0
  /\ stock' = [stock EXCEPT ![u][k] = @ - 1]
  /\ UNCHANGED <<rows, status, promoVars, ledger, ent, over, saverLock, goods, savers,
                 telegramVars, refused>>

ReservationLapses(r) ==
  /\ rstatus[r] = "RESERVED" /\ rlive[r]
  /\ rlive' = [rlive EXCEPT ![r] = FALSE]
  /\ UNCHANGED <<rows, status, rstatus, attached, usable, used, assetVars, telegramVars, refused>>

\* An invoice is 30 minutes old; the reservation it was made with lasts 15.
InvoiceGoesStale(p) ==
  /\ status[p] \in ActiveInvoice
  /\ ~stale[p]
  /\ \A r \in Redemptions : attached[r] = p => ~rlive[r]
  /\ stale' = [stale EXCEPT ![p] = TRUE]
  /\ UNCHANGED <<order, voucher, status, code, failures, promoVars, assetVars, telegramVars, refused>>

\* ends_at passes.  No job sets the status of the entitlement to EXPIRED.
PremiumEnds(p) ==
  /\ ent[p] = "ACTIVE" /\ ~over[p]
  /\ over' = [over EXCEPT ![p] = TRUE]
  /\ UNCHANGED <<rows, status, promoVars, ledger, ent, stock, saverLock, goods, savers,
                 telegramVars, refused>>

SaverWindowEnds(u) ==
  /\ saverLock[u]
  /\ saverLock' = [saverLock EXCEPT ![u] = FALSE]
  /\ savers' = [savers EXCEPT ![u] = 0]
  /\ UNCHANGED <<rows, status, promoVars, ledger, ent, over, stock, goods, telegramVars, refused>>

-----------------------------------------------------------------------------
Buyer(p) ==
  \/ Buy(p) \/ \E r \in Redemptions : BuyDiscounted(p, r)
  \/ SendInvoice(p) \/ MarkInvoiceSent(p)
  \/ Precheckout(p) \/ Charge(p)
Payment(p) == PaymentCredited(p) \/ PaymentReplayed(p) \/ PaymentRefused(p)
Time ==
  \/ \E r \in Redemptions : ReservationLapses(r)
  \/ \E p \in Purchases : InvoiceGoesStale(p) \/ PremiumEnds(p)
  \/ \E u \in Users : SaverWindowEnds(u)

Next ==
  \/ \E p \in Purchases : Buyer(p) \/ Payment(p) \/ FreeCheckoutRefused(p) \/ Refund(p)
                          \/ RecoverPaid(p)
  \/ \E r \in Redemptions : Redeem(r)
  \/ \E c \in Codes : Campaign(c)
  \/ \E u \in Users, k \in Stocked : UseStock(u, k)
  \/ ExpireReservations \/ ExpireStaleInvoices
  \/ Time

Spec == Init /\ [][Next]_vars

\* Celery beat runs the jobs again and again.  Nothing is assumed of users,
\* Telegram or the clock.
FairSpec ==
  /\ Spec
  /\ WF_vars(ExpireReservations) /\ WF_vars(ExpireStaleInvoices)
  /\ \A p \in Purchases : WF_vars(RecoverPaid(p))

-----------------------------------------------------------------------------
\* Properties

\* The ledger tells exactly what the statuses tell: a credit for every purchase
\* that was paid, a debit for every refund.  This is the diff of the payments
\* reconciliation job, and why the recovery job finds no work of this release's.
LedgerMatchesStatus ==
  \A p \in Purchases :
    /\ <<"credit", p>> \in ledger <=> status[p] \in {"CREDITED", "REFUNDED"}
    /\ <<"refund", p>> \in ledger <=> status[p] = "REFUNDED"
    /\ status[p] # "PAID_UNCREDITED"

\* The goods of a purchase are handed over once, and only with a ledger entry.
GoodsMatchLedger ==
  \A p \in Purchases : goods[p] = IF <<"credit", p>> \in ledger THEN 1 ELSE 0

\* A redemption, the purchase it is attached to and the code of that purchase
\* agree at every stage: a credited discount is an applied redemption and the
\* other way round, a refund revokes it, and no purchase holds two.
PromoConsistent ==
  /\ \A r \in Redemptions :
       /\ attached[r] # NoPurchase => code[attached[r]] = CodeOf(r)
       /\ rstatus[r] = "APPLIED" => attached[r] # NoPurchase /\ status[attached[r]] = "CREDITED"
  /\ \A q, r \in Redemptions : attached[q] = attached[r] /\ attached[r] # NoPurchase => q = r
  /\ \A p \in Purchases : code[p] # NoCode =>
       \E r \in Redemptions : /\ attached[r] = p
                              /\ status[p] = "CREDITED" => rstatus[r] = "APPLIED"
                              /\ status[p] = "REFUNDED" => rstatus[r] = "REVOKED"

\* No code is used more often than its campaign allows.
CodeNotOversold == \A c \in Codes : used[c] <= MaxUses[c]

\* A user has one open invoice for a product.
OneOpenInvoice ==
  \A p, q \in Purchases :
    /\ UserOf(p) = UserOf(q) /\ ProductOf(p) = ProductOf(q)
    /\ status[p] \in ActiveInvoice /\ status[q] \in ActiveInvoice
    => p = q

\* A user has one ACTIVE premium, from a purchase that was credited and not
\* refunded.
ActivePremiumPaid ==
  /\ \A p \in Purchases : ent[p] = "ACTIVE" => status[p] = "CREDITED"
  /\ \A p, q \in Purchases :
       ent[p] = "ACTIVE" /\ ent[q] = "ACTIVE" /\ UserOf(p) = UserOf(q) => p = q

\* The limit of one streak saver in 7 days is checked when the invoice is made,
\* and holds when it is paid.
SaverOncePerWindow == \A u \in Users : savers[u] <= 1

\* An invoice approved for payment is closed unpaid only by a discounted one that
\* replaces it, never by the expiry job.
ApprovedInvoiceKept ==
  \A p \in Purchases : approved[p] > 0 /\ status[p] = "FAILED" =>
    \E q \in Purchases : /\ q # p /\ code[q] # NoCode
                         /\ UserOf(q) = UserOf(p) /\ ProductOf(q) = ProductOf(p)

\* A payment Telegram took, and a free checkout, is never turned away.
PaymentHonoured == refused = {}

\* What is charged, handed over and taken back, as the contract sees it.
Contract == INSTANCE PaymentContract WITH
  charged <- {p \in Purchases : charges[p] > 0},
  granted <- goods,
  returned <- {p \in Purchases : <<"refund", p>> \in ledger}

\* Every transaction of the handlers and jobs is a step the contract allows:
\* goods for money, once, taken back at most once.
ContractHolds == Contract!Spec

\* The recovery job is done with a purchase after a bounded number of attempts,
\* unless an entitlement that has run out stands in the way of a premium plan.
RecoverySettles ==
  \A p \in Purchases :
    status[p] = "PAID_UNCREDITED"
      ~> status[p] # "PAID_UNCREDITED" \/ (Premium(p) /\ LapsedPremium(UserOf(p)) # {})

\* A reservation that has run out is expired by the job, unless it was used.
ReservationsSettle ==
  \A r \in Redemptions : rstatus[r] = "RESERVED" /\ ~rlive[r] ~> rstatus[r] # "RESERVED"

\* An invoice nobody was approved to pay does not stay open for ever.
InvoicesSettle ==
  \A p \in Purchases :
    stale[p] /\ status[p] \in {"CREATED", "INVOICE_SENT"}
      ~> status[p] \notin {"CREATED", "INVOICE_SENT"}
=============================================================================
