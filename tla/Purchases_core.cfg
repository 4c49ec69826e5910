SPECIFICATION Spec
CONSTANTS
  u1 = u1
  u2 = u2
  p1 = p1
  p2 = p2
  r1 = r1
  r2 = r2
  c1 = c1
  c2 = c2
  Users = {u1, u2}
  Purchases = {p1, p2}
  Redemptions = {r1, r2}
  Codes = {c1, c2}
  NoCode = NoCode
  NoPurchase = NoPurchase
  Orders <- TwoPurchases
  Vouchers <- TwoVouchers
  FreeCodes = {c2}
  MaxUses <- LastUse
  Imported = {}
  MaxInvoices = 1
INVARIANTS TypeOK LedgerMatchesStatus GoodsMatchLedger PromoConsistent CodeNotOversold OneOpenInvoice ActivePremiumPaid SaverOncePerWindow ApprovedInvoiceKept
PROPERTIES ContractHolds
CHECK_DEADLOCK FALSE
