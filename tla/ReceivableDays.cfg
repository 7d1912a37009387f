SPECIFICATION Spec
CONSTANTS
  i1 = i1  i2 = i2  p1 = p1  p2 = p2  r1 = r1  r2 = r2
  k1 = k1  k2 = k2  k3 = k3  m1 = m1  v1 = v1  t1 = t1
  NoPo = NoPo  NoReceipt = NoReceipt  NoInvoice = NoInvoice
  Invoice = {i1, i2}
  Po = {p1, p2}
  Receipt = {r1, r2}
  Payment = {k1, k2, k3}
  Note = {m1}
  Revision = {v1}
  Txn = {t1}
  Base = {1, 2}
  Total <- MCTotal
  Cash = {1, 2}
  Orders = {2, 3}
  MaxMoney = 9
  Opening <- MCOpening
  MaxOps = 3
  MaxOverlaps = 1
SYMMETRY FreshPayments
INVARIANTS TypeOK PaymentsAddUp BalanceDue PoAccounts NeverOverdrawn
CHECK_DEADLOCK FALSE
