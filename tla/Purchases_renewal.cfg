SPECIFICATION Spec
CONSTANTS
  u1 = u1
  u2 = u2
  p1 = p1
  p2 = p2
  r1 = r1
  r2 = r2
  c1 = c1
  c2 = c2
  Users = {u1}
  Purchases = {p1, p2}
  Redemptions = {}
  Codes = {c1}
  NoCode = NoCode
  NoPurchase = NoPurchase
  Orders <- RenewalOrders
  Vouchers <- NoVouchers
  FreeCodes = {}
  MaxUses <- LastUse1
  Imported = {}
  MaxInvoices = 1
INVARIANTS PaymentHonoured
CHECK_DEADLOCK FALSE
