---- MODULE MCAiInterviewSync ----
(* A candidacy with two invitations and two database sessions. *)
EXTENDS AiInterviewSync, TLC

CONSTANTS t1, t2

TxnSymmetry == Permutations({t1, t2})
==================================
