---------------------------- MODULE MCEmailOutbox ----------------------------
(* Small instances of EmailOutbox for TLC.                                  *)
EXTENDS EmailOutbox, TLC

CONSTANTS w1, w2, a1, a2, r1, r2, r3, m1, m2, m3, ics, k1, k2, t1, t2, t3, e1

(* Two or three requests that announce the same things: m1 and m2 carry     *)
(* dedupe keys, m3 repeats the text of m1 without a key.                    *)
MCKeyOf == m1 :> k1 @@ m2 :> k2 @@ m3 :> NoKey @@ ics :> NoKey
MCTextOf == m1 :> t1 @@ m2 :> t2 @@ m3 :> t1 @@ ics :> t3
MCEventOf == m1 :> e1 @@ m2 :> e1 @@ m3 :> e1 @@ ics :> e1

AsksQueue == r1 :> {m1, m2} @@ r2 :> {m1, m2} @@ r3 :> {m3}
AsksDrain == r1 :> {m2, m3}
AsksInline == r1 :> {m1, ics}
AsksOne == r1 :> {m1}
AsksTwice == r1 :> {m1} @@ r2 :> {m1}

WorkerSymmetry == Permutations(Worker)
AdminSymmetry == Permutations(Admin)
Symmetry == Permutations(Worker) \cup Permutations(Admin)
==============================================================================
