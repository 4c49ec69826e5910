SPECIFICATION FairSpec
CONSTANTS
  u1 = u1
  u2 = u2
  p1 = p1
  p2 = p2
  r1 = r1
  r2 = r2
  c1 = c1
  c2 = c2
  Users = {u1, u2}
  Purchases = {p1, p2}
  Redemptions = {r1, r2}
  Codes = {c1}
  NoCode = NoCode
  NoPurchase = NoPurchase
  Orders <- RecoveryOrders
  Vouchers <- RecoveryVouchers
  FreeCodes = {}
  MaxUses <- LastUse1
  Imported = {p1}
  MaxInvoices = 1
PROPERTIES RecoverySettles ReservationsSettle InvoicesSettle
CHECK_DEADLOCK FALSE
