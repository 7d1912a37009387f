SPECIFICATION Spec
CONSTANTS
  ts1 = ts1  ts2 = ts2  u1 = u1  u2 = u2
  NoFigures = NoFigures  NoSheet = NoSheet
  Sheet = {ts1, ts2}
  User = {u1, u2}
  NoEntries <- Empty
  Opening <- OneDay
  Contents <- LeaveOnly
  Policies <- Credited
  CompOffLimit = 2
  MaxRequests = 6
  MaxOverlaps = 0
  MaxPolicies = 0
SYMMETRY SheetSymmetry
INVARIANTS FrozenSplitIsFinal
CHECK_DEADLOCK FALSE
