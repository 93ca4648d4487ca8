----------------------------- MODULE MCTaskLease -----------------------------
(***************************************************************************)
(* TaskLease for TLC: the workers are interchangeable.                      *)
(***************************************************************************)
EXTENDS TaskLease, TLC

Symmetry == Permutations(Worker)
=============================================================================
