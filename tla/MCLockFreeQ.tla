---------------------------- MODULE MCLockFreeQ -----------------------------
(* A small instance of LockFreeQ for TLC.                                   *)
EXTENDS LockFreeQ, TLC

Symmetry == Permutations(Nodes)
=============================================================================
