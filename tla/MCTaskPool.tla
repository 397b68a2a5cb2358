---------------------------- MODULE MCTaskPool -----------------------------
(***************************************************************************)
(* Small instances of TaskPool. Workers and tasks are interchangeable, so  *)
(* runs without liveness properties may use MCSymmetry; Stalled is a set   *)
(* of its own kind of tasks there.                                         *)
(***************************************************************************)
EXTENDS TaskPool, TLC

CONSTANTS w1, w2, t1, t2, t3, s1

MCSymmetry == Permutations({w1, w2}) \cup Permutations({t1, t2, t3})

=============================================================================
