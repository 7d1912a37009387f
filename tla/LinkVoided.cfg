SPECIFICATION Spec
CONSTANTS
  t1 = t1
  t2 = t2
  Txn = {t1, t2}
  MaxLinks = 2
  MaxOps = 4
  MaxOverlaps = 0
SYMMETRY TxnSymmetry
CHECK_DEADLOCK FALSE
PROPERTIES
  VoidedPassDoesNotCount
