-------------------------- MODULE MCLockFreeStack ---------------------------
(* Small instances of LockFreeStack for TLC.                               *)
EXTENDS LockFreeStack, TLC

Symmetry == Permutations(Poppers) \cup Permutations(Pushers) \cup Permutations(Nodes)
=============================================================================
