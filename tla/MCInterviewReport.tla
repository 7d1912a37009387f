-------------------------- MODULE MCInterviewReport --------------------------
(* Small instances of InterviewReport for TLC.                              *)
EXTENDS InterviewReport, TLC

CONSTANTS j1, j2

ThreadSymmetry == Permutations(Thread)
==============================================================================
