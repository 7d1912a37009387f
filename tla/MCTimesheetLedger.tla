--------------------------- MODULE MCTimesheetLedger ---------------------------
(* Small instances of TimesheetLedger for TLC.                              *)
EXTENDS TimesheetLedger, TLC

CONSTANTS ts1, ts2, u1, u2

Days(l, c, w) == [leave |-> l, compoff |-> c, worked |-> w]
Rules(credit, covers) == [credit |-> credit, covers |-> covers]

Empty == Days(0, 0, 0)
OneDay == [t \in Paid |-> IF t = "leave" THEN 1 ELSE 0]

(* A day of leave; two weekend days worked; a weekend day worked and a day   *)
(* of comp-off taken.                                                       *)
Fillings == {Days(1, 0, 0), Days(1, 0, 2), Days(0, 2, 1)}
LeaveOnly == {Days(1, 0, 0)}

Modes == {Rules(TRUE, FALSE), Rules(TRUE, TRUE), Rules(FALSE, FALSE)}
Credited == {Rules(TRUE, FALSE)}

SheetSymmetry == Permutations(Sheet) \cup Permutations(User)
==============================================================================
