SPECIFICATION Spec
CONSTANTS
  t1 = t1
  t2 = t2
  Txn = {t1, t2}
  MaxLinks = 2
  MaxOps = 5
  MaxOverlaps = 1
SYMMETRY TxnSymmetry
CHECK_DEADLOCK FALSE
INVARIANTS
  TypeOK
  VerdictAnnounced
  VerdictMatchesScore
  RejectedIsClosed
  PassedIsHandedOff
PROPERTIES
  ClosedStaysClosed
