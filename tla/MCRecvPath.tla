----------------------------- MODULE MCRecvPath ------------------------------
(* A small instance of RecvPath for TLC: bytes of two bits.                *)
EXTENDS RecvPath, Bitwise

XorOfBits(a, b) == a ^^ b

SmallContents == {<<1>>, <<2, 3>>}
=============================================================================
