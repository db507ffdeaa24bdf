-------------------------------- MODULE Codec --------------------------------
(***************************************************************************)
(* The packets of CNetServer (NetServer.cpp: Setheader, Encoding,          *)
(* Decoding).  A packet is a header and the data; the check sum, the last  *)
(* byte of the header, and the data are coded byte by byte with a key that *)
(* goes with the packet and one that both ends know.                       *)
(*                                                                         *)
(* The coded part of a packet is a function from 0 .. n, as the pointer    *)
(* ptr of the code sees it: the check sum at 0, the n bytes of data behind *)
(* it.  The length takes one place of the model's header, so HEADER_SIZE   *)
(* is 4 here.                                                              *)
(***************************************************************************)
EXTENDS Integers, Sequences, Functions

CONSTANTS
  ByteSize,    \* how many values a BYTE has
  ByteXor(_, _),   \* the operator ^ on bytes
  MsgCode,     \* MSG_CODE
  MsgKey       \* MSG_KEY

Byte == 0 .. ByteSize - 1

ASSUME ByteAssumption == ByteSize \in Nat \ {0, 1} /\ MsgCode \in Byte /\ MsgKey \in Byte

(* What the code relies on: a byte xored twice with the same is itself.    *)
ASSUME XorAssumption ==
  \A a, b \in Byte : ByteXor(a, b) \in Byte /\ ByteXor(ByteXor(a, b), b) = a

HeaderSize == 4

Header(code, len, rand) == <<code, len, rand>>

-----------------------------------------------------------------------------
(* The sum over the data, in a BYTE.                                       *)
CheckSum(data) == FoldFunction(LAMBDA a, b : (a + b) % ByteSize, 0, data)

(* What Setheader leaves for Encoding: the check sum and the data.         *)
Plain(data) == [i \in 0 .. Len(data) |-> IF i = 0 THEN CheckSum(data) ELSE data[i]]

(* previous + key + i + 1 in a BYTE.  Before the first byte there is no    *)
(* previous one, and nothing is added for it.                              *)
Mask(f, i, key) == ((IF i = 0 THEN 0 ELSE f[i - 1]) + key + i + 1) % ByteSize

(* Encoding leaves coded where plain was: at each i its loop sets PKey     *)
(* from the byte and the old PKey, and EKey from PKey and the old EKey.    *)
Encoding(plain, rand, coded) ==
  \E pkey \in [DOMAIN plain -> Byte] :
    \A i \in DOMAIN plain :
      /\ pkey[i] = ByteXor(plain[i], Mask(pkey, i, rand))
      /\ coded[i] = ByteXor(pkey[i], Mask(coded, i, MsgKey))

(* Mutant: PKeyOld is not carried from one byte to the next.               *)
Decoding_NoCarry(coded, rand) ==
  LET pkey == [i \in DOMAIN coded |-> ByteXor(coded[i], Mask(coded, i, MsgKey))]
  IN  [i \in DOMAIN coded |-> ByteXor(pkey[i], (rand + i + 1) % ByteSize)]

(* Decoding.  EKeyOld is the byte before as it came, PKeyOld what the step *)
(* before made of it.                                                      *)
Decoding(coded, rand) ==
  LET pkey == [i \in DOMAIN coded |-> ByteXor(coded[i], Mask(coded, i, MsgKey))]
  IN  [i \in DOMAIN coded |-> ByteXor(pkey[i], Mask(pkey, i, rand))]

(* The bytes of f from 0 on, as they lie in a buffer.                      *)
Bytes(f, n) == [i \in 1 .. n + 1 |-> f[i - 1]]

(* The coded part of a packet in a buffer, as Decoding sees it.            *)
Coded(b) == [i \in 0 .. b[2] |-> b[i + HeaderSize]]

(* What goes over the network for data: Setheader and Encoding.            *)
Packets(data, rand) ==
  {Header(MsgCode, Len(data), rand) \o Bytes(coded, Len(data)) :
     coded \in {c \in [0 .. Len(data) -> Byte] : Encoding(Plain(data), rand, c)}}
=============================================================================
