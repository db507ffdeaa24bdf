--------------------------- MODULE MCTlsFreeList ----------------------------
(* Small instances of TlsFreeList for TLC.                                 *)
EXTENDS TlsFreeList, TLC

Symmetry == Permutations(Threads) \cup Permutations(Chunks)
=============================================================================
