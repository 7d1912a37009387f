SPECIFICATION Spec
CONSTANTS
  ts1 = ts1  ts2 = ts2  u1 = u1  u2 = u2
  NoFigures = NoFigures  NoSheet = NoSheet
  Sheet = {ts1, ts2}
  User = {u1, u2}
  NoEntries <- Empty
  Opening <- OneDay
  Contents <- Fillings
  Policies <- Modes
  CompOffLimit = 2
  MaxRequests = 6
  MaxOverlaps = 1
  MaxPolicies = 1
SYMMETRY SheetSymmetry
INVARIANTS TypeOK PaidLeaveConserved ReleasedWithStatus FullyCharged CompOffAccounted CreditedOnce
CHECK_DEADLOCK FALSE
