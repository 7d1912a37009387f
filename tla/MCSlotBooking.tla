---------------------------- MODULE MCSlotBooking ----------------------------
(* Small instances of SlotBooking for TLC.                                  *)
EXTENDS SlotBooking, TLC

CONSTANTS b1, b2, c1, c2, c3, s1, s2, s3, ta1, ta2

(* c1 and c2 submit the same link twice; c3 is another candidate.           *)
MCBookingOf == c1 :> b1 @@ c2 :> b1 @@ c3 :> b2
MCTwo == c1 :> b1 @@ c3 :> b2
TwoTabs == c1 :> b1 @@ c2 :> b1
OneTab == c1 :> b1

SlotSymmetry == Permutations(Slot)
==============================================================================
