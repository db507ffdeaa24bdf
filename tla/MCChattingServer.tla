-------------------------- MODULE MCChattingServer --------------------------
(* Small instances of ChattingServer for TLC.                              *)
EXTENDS ChattingServer, TLC

Symmetry == Permutations(Sessions) \cup Permutations(Players)
=============================================================================
