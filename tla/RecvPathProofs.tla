--------------------------- MODULE RecvPathProofs ----------------------------
(***************************************************************************)
(* Proofs about RecvPath, and about the coding of Codec that it uses: for  *)
(* any width of a byte, any two keys, any contents, any size of RecvQ, any *)
(* number of messages, and however TCP cuts the stream, the queue holds    *)
(* what has come and was not yet passed on, the worker leaves no packet in *)
(* it, a message is in one place, and the content reads what was sent.     *)
(*                                                                         *)
(* The inductive invariant is Inv, in the parts that it is made of: how    *)
(* the packets lie in the stream (Framed), where in it RecvQ begins        *)
(* (Frontier), what the worker has in its hands (Shape), why it waits      *)
(* (Waiting), where the messages are (Books) and what they say (Hearing).  *)
(***************************************************************************)
EXTENDS RecvPath, TLAPS, FiniteSetTheorems, SequenceTheorems

-----------------------------------------------------------------------------
(* The coding.                                                             *)

(* A mask is a byte, whatever lies before the position it is for.          *)
LEMMA MaskByte ==
  ASSUME NEW n \in Nat, NEW f \in [0 .. n -> Byte], NEW i \in 0 .. n, NEW key \in Byte
  PROVE  Mask(f, i, key) \in Byte
<1> DEFINE k == (IF i = 0 THEN 0 ELSE f[i - 1]) + key + i + 1
<1>1. i = 0 \/ f[i - 1] \in Byte
  OBVIOUS
<1>2. k \in Nat
  BY <1>1, ByteAssumption DEF Byte
<1> HIDE DEF k
<1>3. k % ByteSize \in 0 .. ByteSize - 1
  BY <1>2, ByteAssumption
<1>4. QED
  BY <1>3 DEF Mask, Byte, k

(* What Encoding has made of the check sum and the data, Decoding with the *)
(* same keys turns back into them: the two loops carry their keys along in *)
(* step, although one carries what it has read and the other what it has   *)
(* written.                                                                *)
THEOREM DecodingUndoesEncoding ==
  ASSUME NEW n \in Nat, NEW plain \in [0 .. n -> Byte], NEW coded \in [0 .. n -> Byte],
         NEW rand \in Byte, Encoding(plain, rand, coded)
  PROVE  Decoding(coded, rand) = plain
<1>1. PICK pkey \in [0 .. n -> Byte] :
        \A i \in 0 .. n : /\ pkey[i] = ByteXor(plain[i], Mask(pkey, i, rand))
                          /\ coded[i] = ByteXor(pkey[i], Mask(coded, i, MsgKey))
  BY DEF Encoding
<1> DEFINE old == [i \in 0 .. n |-> ByteXor(coded[i], Mask(coded, i, MsgKey))]
<1>2. old = pkey
  <2>1. ASSUME NEW i \in 0 .. n
        PROVE  ByteXor(coded[i], Mask(coded, i, MsgKey)) = pkey[i]
    <3>1. Mask(coded, i, MsgKey) \in Byte
      BY MaskByte, ByteAssumption
    <3>2. pkey[i] \in Byte /\ coded[i] = ByteXor(pkey[i], Mask(coded, i, MsgKey))
      BY <1>1
    <3>3. QED
      BY <3>1, <3>2, XorAssumption
  <2>2. QED
    BY <2>1
<1>3. ASSUME NEW i \in 0 .. n
      PROVE  ByteXor(pkey[i], Mask(pkey, i, rand)) = plain[i]
  <2>1. Mask(pkey, i, rand) \in Byte
    BY MaskByte
  <2>2. plain[i] \in Byte /\ pkey[i] = ByteXor(plain[i], Mask(pkey, i, rand))
    BY <1>1
  <2>3. QED
    BY <2>1, <2>2, XorAssumption
<1>4. Decoding(coded, rand) = [i \in 0 .. n |-> ByteXor(old[i], Mask(old, i, rand))]
  BY DEF Decoding
<1>5. QED
  BY <1>2, <1>3, <1>4

(* A packet announces the length of its data, carries the key it was coded *)
(* with, and ends with what Encoding made of the check sum and the data.   *)
LEMMA PacketLayout ==
  ASSUME NEW data \in Seq(Byte), NEW rand \in Byte, NEW p \in Packets(data, rand)
  PROVE  /\ p \in Seq(Nat) /\ Len(p) = HeaderSize + Len(data)
         /\ p[1] = MsgCode /\ p[2] = Len(data) /\ p[3] = rand
         /\ Coded(p) \in [0 .. Len(data) -> Byte]
         /\ Encoding(Plain(data), rand, Coded(p))
<1> DEFINE n == Len(data)
<1>1. PICK c \in [0 .. n -> Byte] :
        Encoding(Plain(data), rand, c) /\ p = Header(MsgCode, n, rand) \o Bytes(c, n)
  BY DEF Packets
<1>2. n \in Nat /\ Header(MsgCode, n, rand) = <<MsgCode, n, rand>>
  BY DEF Header
<1>3. Bytes(c, n) \in Seq(Byte) /\ Len(Bytes(c, n)) = n + 1
  BY <1>2 DEF Bytes
<1>4. /\ Len(p) = n + 4
      /\ p[1] = MsgCode /\ p[2] = n /\ p[3] = rand
      /\ \A i \in 1 .. n + 1 : p[i + 3] = Bytes(c, n)[i]
  <2> DEFINE b == Bytes(c, n)
  <2>1. b \in Seq(Byte) /\ Len(b) = n + 1
    BY <1>3
  <2>2. p = <<MsgCode, n, rand>> \o b
    BY <1>1, <1>2
  <2> HIDE DEF b
  <2>3. QED
    BY <1>2, <2>1, <2>2 DEF b
<1>5. Coded(p) = c
  <2>1. ASSUME NEW i \in 0 .. n PROVE p[i + 4] = c[i]
    <3>1. i + 1 \in 1 .. n + 1 /\ (i + 1) + 3 = i + 4 /\ (i + 1) - 1 = i
      BY <1>2
    <3>2. Bytes(c, n)[i + 1] = c[(i + 1) - 1]
      BY <3>1 DEF Bytes
    <3>3. p[(i + 1) + 3] = Bytes(c, n)[i + 1]
      BY <3>1, <1>4
    <3>4. QED
      BY <3>1, <3>2, <3>3
  <2>2. Coded(p) = [i \in 0 .. n |-> p[i + 4]]
    BY <1>4 DEF Coded, HeaderSize
  <2>3. QED
    BY <2>1, <2>2
<1>6. p \in Seq(Nat)
  <2>1. Byte \subseteq Nat
    BY ByteAssumption DEF Byte
  <2>2. Bytes(c, n) \in Seq(Nat)
    BY <1>2, <2>1 DEF Bytes
  <2>3. MsgCode \in Nat /\ rand \in Nat
    BY <2>1, ByteAssumption
  <2>4. <<MsgCode, n, rand>> \in Seq(Nat)
    BY <1>2, <2>3
  <2>5. QED
    BY <1>1, <1>2, <2>2, <2>4, ConcatProperties
<1>7. QED
  BY <1>1, <1>4, <1>5, <1>6 DEF HeaderSize

(* What Decoding makes of the data of a packet, whatever the check sum is. *)
LEMMA DataDecoded ==
  ASSUME NEW data \in Seq(Byte), NEW rand \in Byte, NEW n, n = Len(data),
         NEW coded \in [0 .. n -> Byte], Encoding(Plain(data), rand, coded)
  PROVE  /\ Decoding(coded, rand) \in [0 .. n -> Byte]
         /\ \A i \in 1 .. n : Decoding(coded, rand)[i] = data[i]
<1>0. n \in Nat /\ DOMAIN Plain(data) = 0 .. n
  BY DEF Plain
<1>1. PICK pkey \in [0 .. n -> Byte] :
        \A i \in 0 .. n : /\ pkey[i] = ByteXor(Plain(data)[i], Mask(pkey, i, rand))
                          /\ coded[i] = ByteXor(pkey[i], Mask(coded, i, MsgKey))
  BY <1>0 DEF Encoding
<1> DEFINE old == [i \in 0 .. n |-> ByteXor(coded[i], Mask(coded, i, MsgKey))]
<1>2. old = pkey
  <2>1. ASSUME NEW i \in 0 .. n
        PROVE  ByteXor(coded[i], Mask(coded, i, MsgKey)) = pkey[i]
    <3>1. Mask(coded, i, MsgKey) \in Byte
      BY <1>0, MaskByte, ByteAssumption
    <3>2. pkey[i] \in Byte /\ coded[i] = ByteXor(pkey[i], Mask(coded, i, MsgKey))
      BY <1>1
    <3>3. QED
      BY <3>1, <3>2, XorAssumption
  <2>2. QED
    BY <2>1
<1>3. Decoding(coded, rand) = [i \in 0 .. n |-> ByteXor(pkey[i], Mask(pkey, i, rand))]
  BY <1>2 DEF Decoding
<1>4. ASSUME NEW i \in 0 .. n
      PROVE  /\ Mask(pkey, i, rand) \in Byte /\ pkey[i] \in Byte
             /\ ByteXor(pkey[i], Mask(pkey, i, rand)) \in Byte
  <2>1. Mask(pkey, i, rand) \in Byte /\ pkey[i] \in Byte
    BY <1>0, MaskByte
  <2>2. QED
    BY <2>1, XorAssumption
<1>5. ASSUME NEW i \in 1 .. n
      PROVE  ByteXor(pkey[i], Mask(pkey, i, rand)) = data[i]
  <2>1. i \in 0 .. n /\ i # 0
    BY <1>0
  <2>2. Plain(data)[i] = data[i] /\ data[i] \in Byte
    BY <2>1, <1>0 DEF Plain
  <2>3. pkey[i] = ByteXor(data[i], Mask(pkey, i, rand))
    BY <2>1, <2>2, <1>1
  <2>4. QED
    BY <2>1, <2>2, <2>3, <1>4, XorAssumption
<1>6. 1 .. n \subseteq 0 .. n
  BY <1>0
<1>7. QED
  BY <1>3, <1>4, <1>5, <1>6

(* Decoding of a packet as it lies in the receiver's buffer gives the data *)
(* it was made of, and, given that it is a byte, the check sum too.        *)
THEOREM PacketReadBack ==
  ASSUME NEW data \in Seq(Byte), NEW rand \in Byte, NEW p \in Packets(data, rand)
  PROVE  /\ \A i \in 1 .. Len(data) : Decoding(Coded(p), p[3])[i] = data[i]
         /\ CheckSum(data) \in Byte => Decoding(Coded(p), p[3]) = Plain(data)
<1>1. PICK n \in Nat : n = Len(data)
  OBVIOUS
<1>2. PICK c : c = Coded(p)
  OBVIOUS
<1>3. p[3] = rand /\ c \in [0 .. n -> Byte] /\ Encoding(Plain(data), rand, c)
  BY <1>1, <1>2, PacketLayout
<1>4. \A i \in 1 .. n : Decoding(c, rand)[i] = data[i]
  BY <1>1, <1>3, DataDecoded
<1>5. ASSUME CheckSum(data) \in Byte
      PROVE  Decoding(c, rand) = Plain(data)
  <2>1. Plain(data) \in [0 .. n -> Byte]
    BY <1>1, <1>5 DEF Plain
  <2>2. QED
    BY <1>3, <2>1, DecodingUndoesEncoding
<1>6. QED
  BY <1>1, <1>2, <1>3, <1>4, <1>5

-----------------------------------------------------------------------------
(* The inductive invariant.                                                *)

(* The packets that have been taken out of RecvQ: one more than those that *)
(* were passed on, while the worker decodes it.                            *)
Handed == frames + (IF pc \in {"decode", "deliver"} THEN 1 ELSE 0)

TypeOK ==
  /\ sent \in Seq([bytes : Seq(Nat), data : Seq(Byte), end : Nat])
  /\ stream \in Seq(Nat) /\ arrived \in 0 .. Len(stream)
  /\ ring \in [0 .. RingSize - 1 -> Nat]
  /\ front \in 0 .. RingSize - 1 /\ rear \in 0 .. RingSize - 1
  /\ pending \in BOOLEAN /\ disconFlag \in BOOLEAN /\ shared \in BOOLEAN
  /\ pc \in {"idle", "loop", "decode", "deliver", "post"}
  /\ msg \in Messages \cup {NoMsg} /\ job \in Messages \cup {NoMsg}
  /\ passed \in Nat /\ frames \in Nat
  /\ pool \subseteq Messages /\ lost \subseteq Messages
  /\ ref \in [Messages -> Int] /\ body \in [Messages -> Seq(Nat)]
  /\ jobs \in Seq(Messages) /\ heard \in Seq(Seq(Nat))

(* A packet as a peer sends it: one that the server can take, or one that  *)
(* it refuses or that never fits into RecvQ.                               *)
Sound(b, d) ==
  /\ b \in Seq(Nat) /\ Len(b) >= HeaderSize
  /\ \/ d \in Contents /\ \E r \in RandKeys : b \in Packets(d, r)
     \/ d = <<>> /\ (b[1] # MsgCode \/ b[2] = 0 \/ b[2] = RingSize)

(* The packets lie in the stream one behind the other.                     *)
Framed ==
  /\ \A i \in 1 .. Len(sent) :
       /\ Sound(sent[i].bytes, sent[i].data)
       /\ sent[i].end = SentSize(i - 1) + Len(sent[i].bytes)
       /\ sent[i].end <= Len(stream)
       /\ \A j \in 1 .. Len(sent[i].bytes) :
            stream[SentSize(i - 1) + j] = sent[i].bytes[j]
  /\ SentSize(Len(sent)) = Len(stream)
  /\ \E k \in 0 .. Len(sent) : Taken = 1 .. k

(* RecvQ begins where the last packet ends that was taken out, and holds   *)
(* what has come since.                                                    *)
Frontier ==
  /\ Handed <= Len(sent) /\ \A i \in 1 .. Handed : sent[i].data # <<>>
  /\ SentSize(Handed) <= arrived
  /\ UseSize = arrived - SentSize(Handed)
  /\ \A i \in 0 .. UseSize - 1 : Peek(i) = stream[SentSize(Handed) + 1 + i]

(* What the worker has in its hands at each place.                         *)
Shape ==
  /\ pc \in {"idle", "post"} <=> msg = NoMsg
  /\ pending => pc = "idle"
  /\ ~shared /\ pc \in {"decode", "deliver"} => passed = 0
  /\ pc = "decode" => body[msg] = sent[Handed].bytes
  /\ pc = "deliver" => Data(body[msg]) = sent[Handed].data

(* The loop ends for one of three reasons.                                 *)
Waiting ==
  (pc = "post" \/ pending) /\ ~disconFlag /\ UseSize >= HeaderSize =>
    ~Refused /\ UseSize < HeaderSize + Size

(* The messages on their way to the content or with it, and the one that   *)
(* the worker has passed nothing on with.                                  *)
InQueue == {jobs[i] : i \in 1 .. Len(jobs)} \cup ({job} \ {NoMsg})
InHand  == IF passed = 0 THEN {msg} \ {NoMsg} ELSE {}

(* A message is in one place.                                              *)
Books ==
  ~shared =>
    /\ Messages = pool \cup lost \cup InHand \cup InQueue
    /\ pool \cap lost = {} /\ (pool \cup lost) \cap InHand = {}
    /\ (pool \cup lost \cup InHand) \cap InQueue = {}
    /\ \A i, j \in 1 .. Len(jobs) : jobs[i] = jobs[j] => i = j
    /\ \A i \in 1 .. Len(jobs) : jobs[i] # job
    /\ \A m \in Messages : ref[m] = IF m \in pool THEN 0 ELSE 1

(* Every packet that was passed on has been read or is in the queue, with  *)
(* its data.                                                               *)
Hearing ==
  /\ Len(heard) + Len(jobs) = frames
  /\ ~shared =>
       /\ \A i \in 1 .. Len(heard) : heard[i] = sent[i].data
       /\ \A i \in 1 .. Len(jobs) : Data(body[jobs[i]]) = sent[Len(heard) + i].data

Inv == TypeOK /\ Framed /\ Frontier /\ Shape /\ Waiting /\ Books /\ Hearing


-----------------------------------------------------------------------------
(* Packets, read and decoded.                                              *)

(* The bytes from i on of a sequence, also where it is too short.          *)
LEMMA DataIs ==
  ASSUME NEW b \in Seq(Nat)
  PROVE  /\ Data(b) \in Seq(Nat)
         /\ Len(b) >= HeaderSize =>
              /\ Len(Data(b)) = Len(b) - HeaderSize
              /\ \A i \in 1 .. Len(b) - HeaderSize : Data(b)[i] = b[HeaderSize + i]
<1>1. PICK n \in Nat : n = Len(b)
  OBVIOUS
<1>2. PICK d : d = SubSeq(b, 5, n)
  OBVIOUS
<1>3. \A i \in 5 .. n : b[i] \in Nat
  BY <1>1
<1>4. /\ d \in Seq(Nat) /\ Len(d) = IF 5 <= n THEN n - 5 + 1 ELSE 0
      /\ \A i \in 1 .. n - 5 + 1 : d[i] = b[5 + i - 1]
  BY <1>2, <1>3, SubSeqProperties
<1>5. n >= 4 => Len(d) = n - 4 /\ \A i \in 1 .. n - 4 : d[i] = b[4 + i]
  BY <1>4
<1>6. Data(b) = d /\ HeaderSize = 4
  BY <1>1, <1>2 DEF Data, HeaderSize
<1>7. QED
  BY <1>1, <1>4, <1>5, <1>6

(* Reading and decoding a packet gives its data.                           *)
LEMMA PacketHeard ==
  ASSUME NEW data \in Seq(Byte), NEW rand \in Byte, NEW p \in Packets(data, rand)
  PROVE  /\ SubSeq(p, 1, HeaderSize - 1) \o Bytes(Decoding(Coded(p), p[3]), p[2])
              \in Seq(Nat)
         /\ Data(SubSeq(p, 1, HeaderSize - 1) \o Bytes(Decoding(Coded(p), p[3]), p[2]))
              = data
<1> DEFINE n == Len(data)
           h == SubSeq(p, 1, HeaderSize - 1)
           d == Decoding(Coded(p), p[3])
           t == Bytes(d, n)
<1>1. /\ n \in Nat /\ p \in Seq(Nat) /\ Len(p) = 4 + n /\ p[2] = n /\ p[3] = rand
  BY PacketLayout DEF HeaderSize
<1>2. d \in [0 .. n -> Byte] /\ \A i \in 1 .. n : d[i] = data[i]
  BY <1>1, PacketLayout, DataDecoded
<1> HIDE DEF d
<1>3. t \in Seq(Nat) /\ Len(t) = n + 1 /\ \A i \in 1 .. n + 1 : t[i] = d[i - 1]
  <2>1. Byte \subseteq Nat
    BY ByteAssumption DEF Byte
  <2>2. \A i \in 1 .. n + 1 : i - 1 \in 0 .. n
    BY <1>1
  <2>3. t = [i \in 1 .. n + 1 |-> d[i - 1]]
    BY DEF Bytes
  <2>4. \A i \in 1 .. n + 1 : d[i - 1] \in Nat
    BY <1>2, <2>1, <2>2
  <2>5. t \in [1 .. n + 1 -> Nat] /\ n + 1 \in Nat
    BY <1>1, <2>3, <2>4
  <2> HIDE DEF t
  <2>6. QED
    BY <2>3, <2>5
<1>4. h \in Seq(Nat) /\ Len(h) = 3
  <2>1. h = SubSeq(p, 1, 3)
    BY DEF HeaderSize
  <2>2. \A i \in 1 .. 3 : p[i] \in Nat
    BY <1>1
  <2>3. SubSeq(p, 1, 3) \in Seq(Nat) /\ Len(SubSeq(p, 1, 3)) = 3
    BY <2>2, SubSeqProperties
  <2>4. QED
    BY <2>1, <2>3
<1> HIDE DEF h, t
<1>5. PICK b : b = h \o t
  OBVIOUS
<1>6. b \in Seq(Nat) /\ Len(b) = n + 4 /\ \A i \in 1 .. n + 1 : b[i + 3] = t[i]
  <2>1. /\ b \in Seq(Nat) /\ Len(b) = Len(h) + Len(t)
        /\ \A i \in 1 .. Len(h) + Len(t) : b[i] = IF i <= Len(h) THEN h[i] ELSE t[i - Len(h)]
    BY <1>3, <1>4, <1>5, ConcatProperties
  <2>2. Len(b) = n + 4
    BY <1>1, <1>3, <1>4, <2>1
  <2>3. ASSUME NEW i \in 1 .. n + 1 PROVE b[i + 3] = t[i]
    <3>1. i + 3 \in 1 .. Len(h) + Len(t) /\ ~(i + 3 <= Len(h)) /\ (i + 3) - Len(h) = i
      BY <1>1, <1>3, <1>4
    <3>2. QED
      BY <2>1, <3>1
  <2>4. QED
    BY <2>1, <2>2, <2>3
<1>7. Data(b) = data
  <2>1. PICK m \in Nat : m = n
    BY <1>1
  <2>2. /\ Data(b) \in Seq(Nat) /\ Len(Data(b)) = m
        /\ \A i \in 1 .. m : Data(b)[i] = b[4 + i]
    <3>1. HeaderSize = 4 /\ b \in Seq(Nat) /\ Len(b) = m + 4
      BY <1>6, <2>1 DEF HeaderSize
    <3>2. Len(b) >= HeaderSize /\ Len(b) - HeaderSize = m
      BY <3>1
    <3>3. QED
      BY <3>1, <3>2, DataIs
  <2>3. ASSUME NEW i \in 1 .. m PROVE Data(b)[i] = data[i]
    <3>1. i + 1 \in 1 .. m + 1 /\ (i + 1) + 3 = 4 + i /\ (i + 1) - 1 = i
      OBVIOUS
    <3>2. b[4 + i] = t[i + 1] /\ t[i + 1] = d[i]
      BY <1>3, <1>6, <2>1, <3>1
    <3>3. QED
      BY <1>2, <2>1, <2>2, <3>2
  <2>4. data \in Seq(Byte) /\ Len(data) = m
    BY <2>1
  <2>5. QED
    BY <2>2, <2>3, <2>4, SeqEqual
<1>8. Bytes(Decoding(Coded(p), p[3]), p[2]) = t
  BY <1>1 DEF t, d
<1>9. QED
  BY <1>5, <1>6, <1>7, <1>8 DEF h

(* The other packets of a peer.                                            *)
LEMMA BadSound ==
  ASSUME NEW p \in Bad
  PROVE  Sound(p.bytes, p.data)
<1> DEFINE zeros(n) == Bytes([i \in 0 .. n |-> 0], n)
<1>1. PICK code \in Byte, n \in Nat :
        /\ p.bytes = Header(code, n, 0) \o zeros(n) /\ p.data = <<>>
        /\ code # MsgCode \/ n = 0 \/ n = RingSize
  <2>1. \/ p = [bytes |-> Header(MsgCode, 0, 0) \o zeros(0), data |-> <<>>]
        \/ p = [bytes |-> Header((MsgCode + 1) % ByteSize, 1, 0) \o zeros(1), data |-> <<>>]
        \/ p = [bytes |-> Header(MsgCode, RingSize, 0) \o zeros(RingSize), data |-> <<>>]
    BY DEF Bad
  <2>2. MsgCode \in Byte /\ 0 \in Nat /\ 1 \in Nat /\ RingSize \in Nat
    BY ByteAssumption, BoundsAssumption
  <2>3. (MsgCode + 1) % ByteSize \in Byte /\ (MsgCode + 1) % ByteSize # MsgCode
    BY ByteAssumption DEF Byte
  <2> HIDE DEF zeros
  <2>4. CASE p = [bytes |-> Header(MsgCode, 0, 0) \o zeros(0), data |-> <<>>]
    BY <2>2, <2>4
  <2>5. CASE p = [bytes |-> Header((MsgCode + 1) % ByteSize, 1, 0) \o zeros(1),
                  data |-> <<>>]
    BY <2>2, <2>3, <2>5
  <2>6. CASE p = [bytes |-> Header(MsgCode, RingSize, 0) \o zeros(RingSize),
                  data |-> <<>>]
    BY <2>2, <2>6
  <2>7. QED
    BY <2>1, <2>4, <2>5, <2>6
<1>2. zeros(n) \in Seq(Nat) /\ Len(zeros(n)) = n + 1
  BY DEF Bytes
<1> HIDE DEF zeros
<1>3. code \in Nat /\ Header(code, n, 0) = <<code, n, 0>>
  BY ByteAssumption DEF Byte, Header
<1>4. /\ p.bytes \in Seq(Nat) /\ Len(p.bytes) = n + 4
      /\ p.bytes[1] = code /\ p.bytes[2] = n
  <2> DEFINE z == zeros(n)
  <2>1. z \in Seq(Nat) /\ Len(z) = n + 1 /\ p.bytes = <<code, n, 0>> \o z
    BY <1>1, <1>2, <1>3
  <2> HIDE DEF z
  <2>2. QED
    BY <1>3, <2>1
<1>5. QED
  BY <1>1, <1>4, SMTT(30) DEF Sound, HeaderSize

(* The packets of a peer are sound.                                        *)
LEMMA PeerSound ==
  ASSUME NEW p \in Good \cup Bad
  PROVE  Sound(p.bytes, p.data)
<1>1. CASE p \in Good
  <2>0. PICK d \in Contents, r \in RandKeys :
          p \in {[bytes |-> q, data |-> d] : q \in Packets(d, r)}
    BY <1>1 DEF Good
  <2>1. PICK q \in Packets(d, r) : p = [bytes |-> q, data |-> d]
    BY <2>0
  <2>2. d \in Seq(Byte) /\ r \in Byte
    BY ContentsAssumption
  <2>3. q \in Seq(Nat) /\ Len(q) = HeaderSize + Len(d) /\ Len(d) \in Nat
    BY <2>2, PacketLayout
  <2>4. QED
    BY <2>1, <2>3 DEF Sound, HeaderSize
<1>2. CASE p \in Bad
  BY <1>2, BadSound
<1>3. QED
  BY <1>1, <1>2

(* A packet that the loop does not refuse, and that fits into RecvQ, is    *)
(* one of the contents.                                                    *)
LEMMA SoundTaken ==
  ASSUME NEW b, NEW d, Sound(b, d), b[1] = MsgCode, b[2] > 0, b[2] < RingSize
  PROVE  /\ d \in Seq(Byte) /\ d # <<>> /\ Len(b) = HeaderSize + b[2]
         /\ \E r \in Byte : b \in Packets(d, r)
<1>1. RingSize \in Nat
  BY BoundsAssumption
<1>2. PICK r \in RandKeys : d \in Contents /\ b \in Packets(d, r)
  BY <1>1 DEF Sound
<1>3. d \in Seq(Byte) /\ d # <<>> /\ r \in Byte
  BY <1>2, ContentsAssumption
<1>4. QED
  BY <1>2, <1>3, PacketLayout


-----------------------------------------------------------------------------
(* RecvQ: places round its end.                                            *)

(* A place is at most one turn behind the start of the ring.               *)
LEMMA ModuloIs ==
  ASSUME NEW n \in Nat \ {0}, NEW a \in 0 .. 2 * n - 1
  PROVE  a % n = IF a < n THEN a ELSE a - n
<1>1. CASE a < n
  BY <1>1
<1>2. CASE a >= n
  <2>1. PICK b \in 0 .. n - 1 : a = b + n
    BY <1>2
  <2>2. (b + n) % n = b
    OBVIOUS
  <2>3. QED
    BY <2>1, <2>2
<1>3. QED
  BY <1>1, <1>2

(* The distance of two places, round the end.                              *)
LEMMA DistanceIs ==
  ASSUME NEW n \in Nat \ {0}, NEW a \in 0 .. n - 1, NEW b \in 0 .. n - 1
  PROVE  (a - b) % n = IF a >= b THEN a - b ELSE a - b + n
OBVIOUS

(* The sizes of RecvQ, without the modulus.                                *)
LEMMA SizesAre ==
  ASSUME TypeOK
  PROVE  /\ RingSize \in Nat /\ RingSize >= 2
         /\ UseSize = IF rear >= front THEN rear - front ELSE rear - front + RingSize
         /\ UseSize \in 0 .. RingSize - 1
         /\ FreeSize = RingSize - 1 - UseSize /\ FreeSize \in 0 .. RingSize - 1
<1>1. /\ RingSize \in Nat /\ RingSize >= 2
      /\ front \in 0 .. RingSize - 1 /\ rear \in 0 .. RingSize - 1
  BY BoundsAssumption DEF TypeOK
<1>2. (rear - front) % RingSize
        = IF rear >= front THEN rear - front ELSE rear - front + RingSize
  <2>1. RingSize \in Nat \ {0}
    BY <1>1
  <2>2. QED
    BY <1>1, <2>1, DistanceIs
<1>3. UseSize = IF rear >= front THEN rear - front ELSE rear - front + RingSize
  BY <1>2 DEF UseSize
<1>4. UseSize \in 0 .. RingSize - 1
  BY <1>1, <1>3
<1>5. QED
  BY <1>1, <1>3, <1>4 DEF FreeSize

(* WSARecv fills the places from rear on, round the end.                   *)
LEMMA BuffersAre ==
  ASSUME TypeOK
  PROVE  \A j \in 1 .. FreeSize : RecvBuffers[j] = (rear + j - 1) % RingSize
<1>1. PICK r, f, n, u \in Nat :
        r = rear /\ f = front /\ n = RingSize /\ u = FreeSize
  <2>1. /\ rear \in 0 .. RingSize - 1 /\ front \in 0 .. RingSize - 1
        /\ RingSize \in Nat
    BY BoundsAssumption DEF TypeOK
  <2>2. UseSize \in 0 .. RingSize - 1 /\ FreeSize \in 0 .. RingSize - 1
    BY SizesAre
  <2>3. rear \in Nat /\ front \in Nat /\ UseSize \in Nat /\ FreeSize \in Nat
    BY <2>1, <2>2
  <2>4. QED
    BY <2>1, <2>3
<1>2. /\ r \in 0 .. n - 1 /\ f \in 0 .. n - 1 /\ n >= 2
      /\ u = n - 1 - (IF r >= f THEN r - f ELSE r - f + n)
  BY <1>1, SizesAre DEF TypeOK
<1>3. PICK d : d = (IF r >= f THEN n - r ELSE f - r - 1)
  OBVIOUS
<1>9. d \in Int
  BY <1>1, <1>3
<1>4. DirectEnqueSize = d
  BY <1>1, <1>3 DEF DirectEnqueSize
<1>5. ASSUME NEW j \in 1 .. u
      PROVE  (r + j - 1) % n = IF r + j - 1 < n THEN r + j - 1 ELSE r + j - 1 - n
  <2>1. PICK a \in 0 .. 2 * n - 1 : a = r + j - 1
    BY <1>2
  <2>2. a % n = IF a < n THEN a ELSE a - n
    <3>1. n \in Nat \ {0}
      BY <1>2
    <3>2. QED
      BY <2>1, <3>1, ModuloIs
  <2>3. QED
    BY <2>1, <2>2
<1>6. CASE d - 1 = u
  <2>1. f = 0 /\ r + u < n
    BY <1>2, <1>3, <1>6
  <2>2. RecvBuffers = [i \in 1 .. u |-> r + i - 1]
    BY <1>1, <1>4, <1>6 DEF RecvBuffers, Places
  <2>3. ASSUME NEW j \in 1 .. u PROVE RecvBuffers[j] = (r + j - 1) % n
    <3>1. r + j - 1 < n
      BY <1>2, <2>1
    <3>2. QED
      BY <1>5, <2>2, <3>1
  <2>4. QED
    BY <1>1, <2>3
<1>7. CASE d - 1 # u
  <2>1. d \in 0 .. u /\ (r < f => d = u) /\ (d < u => r + d = n)
    BY <1>2, <1>3, <1>7
  <2>2. PICK a : a = Places(r, d)
    OBVIOUS
  <2>3. PICK e \in Nat : e = u - d
    BY <2>1
  <2>4. PICK b : b = Places(0, e)
    OBVIOUS
  <2>5. a = [i \in 1 .. d |-> r + i - 1] /\ b = [i \in 1 .. e |-> 0 + i - 1]
    BY <2>2, <2>4 DEF Places
  <2>6. /\ a \in Seq(Int) /\ Len(a) = d
        /\ b \in Seq(Int) /\ Len(b) = e
    BY <2>1, <2>5
  <2>7. RecvBuffers = a \o b
    BY <1>1, <1>4, <1>7, <2>2, <2>3, <2>4 DEF RecvBuffers
  <2>8. \A i \in 1 .. d + e : RecvBuffers[i] = IF i <= d THEN a[i] ELSE b[i - d]
    BY <2>6, <2>7, ConcatProperties
  <2>9. ASSUME NEW j \in 1 .. u PROVE RecvBuffers[j] = (r + j - 1) % n
    <3>1. CASE j <= d
      <4>1. RecvBuffers[j] = r + j - 1
        BY <2>1, <2>3, <2>5, <2>8, <3>1
      <4>2. r + j - 1 < n
        BY <1>2, <1>3, <3>1
      <4>3. QED
        BY <1>5, <4>1, <4>2
    <3>2. CASE j > d
      <4>1. RecvBuffers[j] = j - d - 1
        <5>1. j - d \in 1 .. e /\ j \in 1 .. d + e /\ ~(j <= d)
          BY <2>1, <2>3, <3>2
        <5>2. RecvBuffers[j] = b[j - d]
          BY <2>8, <5>1
        <5>3. b[j - d] = 0 + (j - d) - 1
          BY <2>5, <5>1
        <5>4. QED
          BY <1>9, <5>2, <5>3
      <4>2. r + d = n
        BY <2>1, <3>2
      <4>3. QED
        BY <1>2, <1>5, <2>1, <3>2, <4>1, <4>2
    <3>3. QED
      BY <2>1, <3>1, <3>2
  <2>10. QED
    BY <1>1, <2>9
<1>8. QED
  BY <1>6, <1>7

(* The places of RecvQ from front on are different, and RingSize - 1 of    *)
(* them are one behind the other.                                          *)
LEMMA PlacesDiffer ==
  ASSUME TypeOK
  PROVE  /\ \A i \in 0 .. RingSize - 1 :
              /\ (front + i) % RingSize \in 0 .. RingSize - 1
              /\ (front + i) % RingSize
                   = IF front + i < RingSize THEN front + i ELSE front + i - RingSize
         /\ \A i, j \in 0 .. RingSize - 1 :
              (front + i) % RingSize = (front + j) % RingSize => i = j
         /\ \A j \in 1 .. FreeSize :
              (rear + j - 1) % RingSize = (front + (UseSize + j - 1)) % RingSize
<1>1. PICK r, f, n, u \in Nat :
        r = rear /\ f = front /\ n = RingSize /\ u = UseSize
  <2>1. /\ rear \in 0 .. RingSize - 1 /\ front \in 0 .. RingSize - 1
        /\ RingSize \in Nat
    BY BoundsAssumption DEF TypeOK
  <2>2. UseSize \in 0 .. RingSize - 1 /\ FreeSize \in 0 .. RingSize - 1
    BY SizesAre
  <2>3. rear \in Nat /\ front \in Nat /\ UseSize \in Nat /\ FreeSize \in Nat
    BY <2>1, <2>2
  <2>4. QED
    BY <2>1, <2>3
<1>2. /\ r \in 0 .. n - 1 /\ f \in 0 .. n - 1 /\ n >= 2 /\ FreeSize = n - 1 - u
      /\ u = (IF r >= f THEN r - f ELSE r - f + n)
  BY <1>1, SizesAre DEF TypeOK
<1>3. ASSUME NEW i \in 0 .. n - 1
      PROVE  (f + i) % n = IF f + i < n THEN f + i ELSE f + i - n
  <2>1. PICK a \in 0 .. 2 * n - 1 : a = f + i
    BY <1>2
  <2>2. a % n = IF a < n THEN a ELSE a - n
    <3>1. n \in Nat \ {0}
      BY <1>2
    <3>2. QED
      BY <2>1, <3>1, ModuloIs
  <2>3. QED
    BY <2>1, <2>2
<1>4. ASSUME NEW i \in 0 .. n - 1 PROVE (f + i) % n \in 0 .. n - 1
  BY <1>2, <1>3
<1>5. ASSUME NEW i \in 0 .. n - 1, NEW j \in 0 .. n - 1, (f + i) % n = (f + j) % n
      PROVE  i = j
  BY <1>2, <1>3, <1>5
<1>6. ASSUME NEW j \in 1 .. n - 1 - u
      PROVE  (r + j - 1) % n = (f + (u + j - 1)) % n
  <2>1. u + j - 1 \in 0 .. n - 1
    BY <1>2
  <2>5. PICK a \in 0 .. 2 * n - 1 : a = r + j - 1
    BY <1>2
  <2>6. a % n = IF a < n THEN a ELSE a - n
    <3>1. n \in Nat \ {0}
      BY <1>2
    <3>2. QED
      BY <2>5, <3>1, ModuloIs
  <2>2. (r + j - 1) % n = IF r + j - 1 < n THEN r + j - 1 ELSE r + j - 1 - n
    BY <2>5, <2>6
  <2>3. (f + (u + j - 1)) % n
          = IF f + (u + j - 1) < n THEN f + (u + j - 1) ELSE f + (u + j - 1) - n
    BY <1>3, <2>1
  <2>4. QED
    BY <1>2, <2>1, <2>2, <2>3
<1>7. QED
  BY <1>1, <1>2, <1>3, <1>4, <1>5, <1>6


(* What a receive leaves in RecvQ: what was there, and the bytes that came *)
(* behind it.                                                              *)
LEMMA Enqueued ==
  ASSUME TypeOK, NEW k \in 1 .. FreeSize, arrived + k <= Len(stream), NEW r,
         r = [i \in DOMAIN ring |->
                LET hits == {j \in 1 .. k : RecvBuffers[j] = i}
                IN  IF hits = {} THEN ring[i] ELSE stream[arrived + Max(hits)]]
  PROVE  /\ r \in [0 .. RingSize - 1 -> Nat]
         /\ \A i \in 0 .. UseSize - 1 : r[(front + i) % RingSize] = Peek(i)
         /\ \A j \in 1 .. k :
              r[(front + (UseSize + j - 1)) % RingSize] = stream[arrived + j]
<1> DEFINE hits(i) == {j \in 1 .. k : RecvBuffers[j] = i}
           place(i) == (front + i) % RingSize
<1>1. PICK u, n, a \in Nat : u = UseSize /\ n = RingSize /\ a = arrived
  <2>1. UseSize \in Nat /\ RingSize \in Nat
    BY SizesAre
  <2>2. arrived \in Nat
    BY DEF TypeOK
  <2>3. QED
    BY <2>1, <2>2
<1>2. k \in Nat /\ u + k <= n - 1 /\ n >= 2 /\ k <= FreeSize
  BY <1>1, SizesAre
<1>3. DOMAIN ring = 0 .. n - 1 /\ stream \in Seq(Nat) /\ a + k <= Len(stream)
  BY <1>1 DEF TypeOK
<1>4. ASSUME NEW j \in 1 .. k
      PROVE  RecvBuffers[j] = place(u + j - 1) /\ u + j - 1 \in 0 .. n - 1
  <2>1. j \in 1 .. FreeSize
    BY <1>2, SizesAre
  <2>2. RecvBuffers[j] = (rear + j - 1) % RingSize
    BY <2>1, BuffersAre
  <2>3. (rear + j - 1) % RingSize = (front + (UseSize + j - 1)) % RingSize
    BY <2>1, PlacesDiffer
  <2>4. QED
    BY <1>1, <1>2, <2>2, <2>3
<1>5. \A i, j \in 0 .. n - 1 : place(i) = place(j) => i = j
  BY <1>1, PlacesDiffer
<1>6. \A i \in 0 .. n - 1 : place(i) \in 0 .. n - 1
  BY <1>1, PlacesDiffer
<1> HIDE DEF place
<1>7. ASSUME NEW i \in 0 .. u - 1 PROVE hits(place(i)) = {}
  <2>1. ASSUME NEW j \in 1 .. k PROVE RecvBuffers[j] # place(i)
    <3>1. i \in 0 .. n - 1 /\ u + j - 1 # i
      BY <1>2
    <3>2. QED
      BY <1>4, <1>5, <3>1
  <2>2. QED
    BY <2>1
<1>8. ASSUME NEW j \in 1 .. k PROVE hits(place(u + j - 1)) = {j}
  <2>1. ASSUME NEW h \in 1 .. k, RecvBuffers[h] = place(u + j - 1) PROVE h = j
    <3>1. place(u + h - 1) = place(u + j - 1)
      BY <1>4, <2>1
    <3>2. u + h - 1 = u + j - 1
      BY <1>4, <1>5, <3>1
    <3>3. QED
      BY <1>2, <3>2
  <2>2. QED
    BY <1>4, <2>1
<1>9. ASSUME NEW j \in 1 .. k PROVE Max({j}) = j
  <2>1. \A y \in {j} : j >= y
    BY <1>2
  <2>2. QED
    BY <2>1 DEF Max
<1>10. ASSUME NEW i \in 0 .. n - 1, hits(i) # {}
       PROVE  \E j \in 1 .. k : hits(i) = {j}
  <2>1. PICK j \in 1 .. k : RecvBuffers[j] = i
    BY <1>10
  <2>2. hits(i) = {j}
    BY <1>4, <1>8, <2>1
  <2>3. QED
    BY <2>2
<1>11. r = [i \in 0 .. n - 1 |->
              IF hits(i) = {} THEN ring[i] ELSE stream[a + Max(hits(i))]]
  BY <1>1, <1>3
<1> HIDE DEF hits
<1>12. ASSUME NEW j \in 1 .. k PROVE stream[a + j] \in Nat
  <2>1. a + j \in 1 .. Len(stream)
    BY <1>2, <1>3
  <2>2. QED
    BY <1>3, <2>1
<1>13. r \in [0 .. n - 1 -> Nat]
  <2>1. ASSUME NEW i \in 0 .. n - 1 PROVE r[i] \in Nat
    <3>1. CASE hits(i) = {}
      BY <1>1, <1>11, <3>1 DEF TypeOK
    <3>2. CASE hits(i) # {}
      <4>1. PICK j \in 1 .. k : hits(i) = {j}
        BY <1>10, <3>2
      <4>2. Max(hits(i)) = j
        BY <1>9, <4>1
      <4>3. r[i] = stream[a + j]
        BY <1>11, <3>2, <4>2
      <4>4. QED
        BY <1>12, <4>3
    <3>3. QED
      BY <3>1, <3>2
  <2>2. QED
    BY <1>11, <2>1
<1>14. ASSUME NEW i \in 0 .. u - 1 PROVE r[place(i)] = ring[place(i)]
  <2>1. i \in 0 .. n - 1
    BY <1>2
  <2>2. place(i) \in 0 .. n - 1 /\ hits(place(i)) = {}
    BY <1>6, <1>7, <2>1
  <2>3. QED
    BY <1>11, <2>2
<1>15. ASSUME NEW j \in 1 .. k PROVE r[place(u + j - 1)] = stream[a + j]
  <2>1. place(u + j - 1) \in 0 .. n - 1 /\ hits(place(u + j - 1)) = {j}
    BY <1>4, <1>6, <1>8
  <2>2. hits(place(u + j - 1)) # {} /\ Max(hits(place(u + j - 1))) = j
    BY <1>9, <2>1
  <2>3. QED
    BY <1>11, <2>1, <2>2
<1>16. QED
  BY <1>1, <1>13, <1>14, <1>15 DEF place, Peek

-----------------------------------------------------------------------------
(* The steps.                                                              *)

(* Nothing has been sent, and all messages are in the pool.                *)
LEMMA InitInv == Init => Inv
<1> SUFFICES ASSUME Init PROVE Inv
  OBVIOUS
<1>1. RingSize \in Nat /\ RingSize >= 2 /\ NoMsg \notin Messages
  BY BoundsAssumption, MessagesAssumption
<1>2. TypeOK
  <2>1. /\ sent \in Seq([bytes : Seq(Nat), data : Seq(Byte), end : Nat])
        /\ stream \in Seq(Nat) /\ Len(stream) = 0
        /\ jobs \in Seq(Messages) /\ heard \in Seq(Seq(Nat))
    BY DEF Init
  <2>2. ring \in [0 .. RingSize - 1 -> Nat] /\ ref \in [Messages -> Int]
    BY <1>1 DEF Init
  <2>3. body \in [Messages -> Seq(Nat)]
    BY DEF Init
  <2>4. /\ arrived \in 0 .. Len(stream)
        /\ front \in 0 .. RingSize - 1 /\ rear \in 0 .. RingSize - 1
    BY <1>1, <2>1 DEF Init
  <2>5. /\ pending \in BOOLEAN /\ disconFlag \in BOOLEAN /\ shared \in BOOLEAN
        /\ pc \in {"idle", "loop", "decode", "deliver", "post"}
        /\ msg \in Messages \cup {NoMsg} /\ job \in Messages \cup {NoMsg}
        /\ passed \in Nat /\ frames \in Nat
        /\ pool \subseteq Messages /\ lost \subseteq Messages
    BY DEF Init
  <2>6. QED
    BY <2>1, <2>2, <2>3, <2>4, <2>5 DEF TypeOK
<1>3. UseSize = 0
  BY <1>2, SizesAre DEF Init
<1>4. Framed
  <2>1. Taken = 1 .. 0
    BY DEF Init, Taken
  <2>2. QED
    BY <2>1 DEF Init, Framed, SentSize
<1>5. Frontier
  BY <1>3 DEF Init, Frontier, Handed, SentSize
<1>6. Shape /\ Waiting
  BY <1>3 DEF Init, Shape, Waiting, HeaderSize
<1>7. Books
  <2>1. InQueue = {} /\ InHand = {}
    BY DEF Init, InQueue, InHand
  <2>2. QED
    BY <2>1 DEF Init, Books
<1>8. Hearing
  BY DEF Init, Hearing
<1>9. QED
  BY <1>2, <1>4, <1>5, <1>6, <1>7, <1>8 DEF Inv

(* The stream is as it was.                                                *)
LEMMA FramedKept ==
  ASSUME Framed, UNCHANGED <<sent, stream>>
  PROVE  Framed'
BY DEF Framed, SentSize, Taken

(* RecvQ is as it was, and so is what was taken out of it.                 *)
LEMMA FrontierKept ==
  ASSUME Frontier, UNCHANGED <<network, queue>>, Handed' = Handed
  PROVE  Frontier'
BY DEF Frontier, SentSize, UseSize, Peek, network, queue

(* The worker and the messages in RecvQ are as they were.                  *)
LEMMA WaitingKept ==
  ASSUME Waiting, UNCHANGED <<queue, pending, disconFlag, pc>>
  PROVE  Waiting'
BY DEF Waiting, UseSize, Refused, Code, Size, Peek, queue

(* The messages are where they were.                                       *)
LEMMA BooksKept ==
  ASSUME Books, UNCHANGED <<shared, pool, ref, lost, passed, msg, job, jobs>>
  PROVE  Books'
BY DEF Books, InQueue, InHand

(* The packets passed on are those they were.                              *)
LEMMA HearingKept ==
  ASSUME Hearing, UNCHANGED <<shared, sent, heard, jobs, body, frames>>
  PROVE  Hearing'
BY DEF Hearing, Data


(* The fields of a packet that was sent.                                   *)
LEMMA SentFields ==
  ASSUME TypeOK, NEW i \in 1 .. Len(sent)
  PROVE  sent[i].bytes \in Seq(Nat) /\ sent[i].data \in Seq(Byte) /\ sent[i].end \in Nat
<1>1. PICK S : S = [bytes : Seq(Nat), data : Seq(Byte), end : Nat]
  OBVIOUS
<1>2. sent \in Seq(S)
  BY <1>1 DEF TypeOK
<1>3. sent[i] \in S
  BY <1>2, ElementOfSeq
<1>4. QED
  BY <1>1, <1>3

(* The packets that were taken out of RecvQ were sent, and end somewhere.  *)
LEMMA HandedIs ==
  ASSUME TypeOK, Frontier
  PROVE  Handed \in 0 .. Len(sent) /\ SentSize(Handed) \in Nat
<1>1. Handed \in 0 .. Len(sent)
  BY DEF Frontier, Handed, TypeOK
<1>2. CASE Handed = 0
  BY <1>1, <1>2 DEF SentSize
<1>3. CASE Handed # 0
  <2>1. Handed \in 1 .. Len(sent)
    BY <1>1, <1>3
  <2>2. sent[Handed].end \in Nat
    BY <2>1, SentFields
  <2>3. QED
    BY <1>1, <1>3, <2>2 DEF SentSize
<1>4. QED
  BY <1>2, <1>3

(* A packet more is sent: the stream grows at its end.                     *)
LEMMA PeerSendsInv ==
  ASSUME Inv, NEW p \in Good \cup Bad, PeerSends(p)
  PROVE  Inv'
<1>1. TypeOK /\ Framed /\ Frontier /\ Shape /\ Waiting /\ Books /\ Hearing
  BY DEF Inv
<1>2. Sound(p.bytes, p.data)
  BY PeerSound
<1>3. p.bytes \in Seq(Nat) /\ p.data \in Seq(Byte)
  <2>1. <<>> \in Seq(Byte)
    OBVIOUS
  <2>2. QED
    BY <1>2, <2>1, ContentsAssumption DEF Sound
<1>4. PICK n, l, b \in Nat : n = Len(sent) /\ l = Len(stream) /\ b = Len(p.bytes)
  BY <1>1, <1>3 DEF TypeOK
<1>5. /\ stream' \in Seq(Nat) /\ Len(stream') = l + b
      /\ \A i \in 1 .. l : stream'[i] = stream[i]
      /\ \A j \in 1 .. b : stream'[l + j] = p.bytes[j]
  <2>1. stream' = stream \o p.bytes /\ stream \in Seq(Nat)
    BY <1>1 DEF PeerSends, TypeOK
  <2>2. /\ stream' \in Seq(Nat) /\ Len(stream') = Len(stream) + Len(p.bytes)
        /\ \A i \in 1 .. Len(stream) + Len(p.bytes) :
             stream'[i] = IF i <= Len(stream) THEN stream[i] ELSE p.bytes[i - Len(stream)]
    BY <1>3, <2>1, ConcatProperties
  <2>3. ASSUME NEW j \in 1 .. b PROVE stream'[l + j] = p.bytes[j]
    <3>1. l + j \in 1 .. l + b /\ ~(l + j <= l) /\ (l + j) - l = j
      BY <1>4
    <3>2. QED
      BY <1>4, <2>2, <3>1
  <2>4. ASSUME NEW i \in 1 .. l PROVE stream'[i] = stream[i]
    <3>1. i \in 1 .. l + b /\ i <= l
      BY <1>4
    <3>2. QED
      BY <1>4, <2>2, <3>1
  <2>5. QED
    BY <1>4, <2>2, <2>3, <2>4
<1>6. PICK e : e = [bytes |-> p.bytes, data |-> p.data, end |-> l + b]
  OBVIOUS
<1>7. e \in [bytes : Seq(Nat), data : Seq(Byte), end : Nat]
  BY <1>3, <1>4, <1>6
<1>8. /\ sent' \in Seq([bytes : Seq(Nat), data : Seq(Byte), end : Nat])
      /\ Len(sent') = n + 1 /\ sent'[n + 1] = e
      /\ \A i \in 1 .. n : sent'[i] = sent[i]
  <2>1. sent' = Append(sent, e)
    BY <1>5, <1>6 DEF PeerSends
  <2>2. QED
    BY <1>1, <1>4, <1>7, <2>1, AppendProperties DEF TypeOK
<1>9. \A i \in 0 .. n : SentSize(i)' = SentSize(i)
  BY <1>4, <1>8, SMTT(30) DEF SentSize
<1>10. ASSUME NEW i \in 1 .. n PROVE SentSize(i) = sent[i].end /\ SentSize(i) \in 0 .. l
  <2>1. sent[i].end \in Nat
    BY <1>1, <1>4, SentFields
  <2>3. i # 0 /\ sent[i].end <= l
    BY <1>1, <1>4 DEF Framed
  <2>2. QED
    BY <1>4, <2>1, <2>3 DEF SentSize
<1>11. \A i \in 0 .. n : SentSize(i) \in 0 .. l
  BY <1>4, <1>10 DEF SentSize
<1>12. TypeOK'
  <2>1. arrived' \in 0 .. Len(stream')
    BY <1>1, <1>4, <1>5 DEF PeerSends, TypeOK
  <2>2. UNCHANGED <<queue, pending, disconFlag, worker, memory, content, history>>
    BY DEF PeerSends
  <2>3. QED
    BY <1>1, <1>5, <1>8, <2>1, <2>2
       DEF TypeOK, queue, worker, memory, content, history
<1>13. Framed'
  <2>1. ASSUME NEW i \in 1 .. n
        PROVE  /\ Sound(sent'[i].bytes, sent'[i].data)
               /\ sent'[i].end = SentSize(i - 1)' + Len(sent'[i].bytes)
               /\ sent'[i].end <= Len(stream')
               /\ \A j \in 1 .. Len(sent'[i].bytes) :
                    stream'[SentSize(i - 1)' + j] = sent'[i].bytes[j]
    <3>1. /\ Sound(sent[i].bytes, sent[i].data)
          /\ sent[i].end = SentSize(i - 1) + Len(sent[i].bytes)
          /\ sent[i].end <= l
          /\ \A j \in 1 .. Len(sent[i].bytes) :
               stream[SentSize(i - 1) + j] = sent[i].bytes[j]
      BY <1>1, <1>4 DEF Framed
    <3>2. sent'[i] = sent[i] /\ i - 1 \in 0 .. n
      BY <1>4, <1>8
    <3>3. SentSize(i - 1)' = SentSize(i - 1)
      BY <1>9, <3>2
    <3>4. PICK s, k \in Nat : s = SentSize(i - 1) /\ k = Len(sent[i].bytes)
      <4>1. sent[i].bytes \in Seq(Nat)
        BY <1>1, <1>4, SentFields
      <4>2. SentSize(i - 1) \in Nat
        BY <1>11, <3>2
      <4>3. QED
        BY <4>1, <4>2
    <3>5. ASSUME NEW j \in 1 .. k PROVE stream'[s + j] = sent[i].bytes[j]
      <4>1. s + j \in 1 .. l
        BY <1>4, <3>1, <3>4
      <4>2. QED
        BY <1>5, <3>1, <3>4, <4>1
    <3>6. sent[i].end <= Len(stream')
      BY <1>4, <1>5, <1>10, <3>1
    <3>7. QED
      BY <3>1, <3>2, <3>3, <3>4, <3>5, <3>6
  <2>2. /\ Sound(e.bytes, e.data) /\ e.end = SentSize(n)' + Len(e.bytes)
        /\ e.end = Len(stream')
        /\ \A j \in 1 .. Len(e.bytes) : stream'[SentSize(n)' + j] = e.bytes[j]
    <3>1. SentSize(n)' = l
      BY <1>1, <1>4, <1>9 DEF Framed
    <3>2. QED
      BY <1>2, <1>4, <1>5, <1>6, <3>1
  <2>3. ASSUME NEW i \in 1 .. n + 1
        PROVE  /\ Sound(sent'[i].bytes, sent'[i].data)
               /\ sent'[i].end = SentSize(i - 1)' + Len(sent'[i].bytes)
               /\ sent'[i].end <= Len(stream')
               /\ \A j \in 1 .. Len(sent'[i].bytes) :
                    stream'[SentSize(i - 1)' + j] = sent'[i].bytes[j]
    <3>1. CASE i \in 1 .. n
      BY <2>1, <3>1
    <3>2. CASE i = n + 1
      <4>1. sent'[i] = e /\ i - 1 = n /\ Len(stream') \in Nat
        BY <1>4, <1>5, <1>8, <3>2
      <4>2. e.end <= Len(stream')
        BY <2>2, <4>1
      <4>3. QED
        BY <2>2, <4>1, <4>2
    <3>3. QED
      BY <1>4, <3>1, <3>2
  <2>4. SentSize(n + 1)' = l + b
    <3>1. n + 1 # 0 /\ e.end = l + b
      BY <1>4, <1>6
    <3>2. QED
      BY <1>8, <3>1 DEF SentSize
  <2>5. \E k \in 0 .. n + 1 : Taken' = 1 .. k
    <3>1. PICK k \in 0 .. n : Taken = 1 .. k
      BY <1>1, <1>4 DEF Framed
    <3>2. /\ Taken = {i \in 1 .. n : \A j \in 1 .. i : sent[j].data # <<>>}
          /\ Taken' = {i \in 1 .. n + 1 : \A j \in 1 .. i : sent'[j].data # <<>>}
      <4>1. DOMAIN sent = 1 .. n /\ DOMAIN sent' = 1 .. n + 1
        BY <1>1, <1>4, <1>8 DEF TypeOK
      <4>2. QED
        BY <4>1 DEF Taken
    <3>3. ASSUME NEW i \in 1 .. n PROVE i \in Taken' <=> i \in Taken
      <4>1. \A j \in 1 .. i : sent'[j] = sent[j]
        BY <1>4, <1>8
      <4>2. i \in 1 .. n + 1
        BY <1>4
      <4>3. QED
        BY <3>2, <4>1, <4>2
    <3>4. CASE n + 1 \in Taken'
      <4>1. \A j \in 1 .. n + 1 : sent'[j].data # <<>>
        BY <3>2, <3>4
      <4>2. Taken' = 1 .. n + 1
        <5>1. ASSUME NEW i \in 1 .. n + 1 PROVE i \in Taken'
          <6>1. \A j \in 1 .. i : j \in 1 .. n + 1
            BY <1>4
          <6>2. QED
            BY <3>2, <4>1, <6>1
        <5>2. QED
          BY <3>2, <5>1
      <4>3. QED
        BY <1>4, <4>2
    <3>5. CASE n + 1 \notin Taken'
      <4>1. Taken' \subseteq 1 .. n /\ Taken \subseteq 1 .. n
        BY <1>4, <3>2, <3>5
      <4>2. Taken' = Taken
        BY <3>3, <4>1
      <4>3. k \in 0 .. n + 1
        BY <1>4
      <4>4. QED
        BY <3>1, <4>2, <4>3
    <3>6. QED
      BY <3>4, <3>5
  <2>6. QED
    BY <1>5, <1>8, <2>3, <2>4, <2>5 DEF Framed
<1>14. Handed' = Handed /\ Handed \in 0 .. n /\ frames \in 0 .. n
  <2>1. Handed' = Handed
    BY DEF PeerSends, Handed, worker, history
  <2>2. Handed \in Nat /\ Handed <= n /\ frames \in Nat /\ frames <= Handed
    BY <1>1, <1>4 DEF Handed, Frontier, TypeOK
  <2>3. QED
    BY <1>4, <2>1, <2>2
<1>15. Frontier'
  <2>1. PICK h \in 0 .. n : h = Handed
    BY <1>14
  <2>2. UseSize' = UseSize /\ arrived' = arrived /\ \A i : Peek(i)' = Peek(i)
    BY DEF PeerSends, UseSize, Peek, queue
  <2>3. SentSize(Handed)' = SentSize(h)
    BY <1>9, <1>14, <2>1
  <2>4. PICK s, u, a \in Nat : s = SentSize(h) /\ u = UseSize /\ a = arrived
    <3>1. SentSize(h) \in Nat
      BY <1>11, <2>1
    <3>2. UseSize \in Nat
      BY <1>1, SizesAre
    <3>3. arrived \in Nat
      BY <1>1 DEF TypeOK
    <3>4. QED
      BY <3>1, <3>2, <3>3
  <2>5. s <= a /\ u = a - s /\ a <= l
    BY <1>1, <1>4, <2>1, <2>4 DEF Frontier, TypeOK
  <2>6. ASSUME NEW i \in 0 .. u - 1 PROVE Peek(i)' = stream'[s + 1 + i]
    <3>1. s + 1 + i \in 1 .. l
      BY <1>4, <2>4, <2>5
    <3>2. Peek(i) = stream[s + 1 + i]
      BY <1>1, <2>1, <2>4 DEF Frontier
    <3>3. QED
      BY <1>5, <2>2, <3>1, <3>2
  <2>7. \A i \in 1 .. h : sent'[i].data # <<>>
    <3>1. \A i \in 1 .. h : i \in 1 .. n /\ sent[i].data # <<>>
      BY <1>1, <1>4, <2>1 DEF Frontier
    <3>2. QED
      BY <1>8, <3>1
  <2>8. Handed' <= Len(sent')
    BY <1>4, <1>8, <1>14
  <2>9. QED
    BY <1>14, <2>1, <2>2, <2>3, <2>4, <2>5, <2>6, <2>7, <2>8 DEF Frontier
<1>16. Shape'
  <2>1. UNCHANGED <<pc, msg, passed, pending, shared, body>>
    BY DEF PeerSends, worker, history, memory
  <2>2. ASSUME pc \in {"decode", "deliver"} PROVE sent'[Handed] = sent[Handed]
    <3>1. Handed = frames + 1
      BY <2>2 DEF Handed
    <3>2. Handed \in 1 .. n
      BY <1>4, <1>14, <3>1
    <3>3. QED
      BY <1>8, <3>2
  <2>3. QED
    BY <1>1, <1>14, <2>1, <2>2 DEF Shape, Data
<1>17. Waiting'
  BY <1>1, WaitingKept DEF PeerSends, worker
<1>18. Books'
  BY <1>1, BooksKept DEF PeerSends, worker, memory, content, history
<1>19. Hearing'
  <2>1. UNCHANGED <<frames, heard, jobs, body, shared>>
    BY DEF PeerSends, memory, content, history
  <2>2. PICK h, j \in Nat : h = Len(heard) /\ j = Len(jobs) /\ h + j <= n
    BY <1>1, <1>4, <1>14 DEF Hearing, TypeOK
  <2>3. ASSUME NEW i \in 1 .. h PROVE sent'[i] = sent[i]
    <3>1. i \in 1 .. n
      BY <1>4, <2>2
    <3>2. QED
      BY <1>8, <3>1
  <2>4. ASSUME NEW i \in 1 .. j PROVE sent'[h + i] = sent[h + i]
    <3>1. h + i \in 1 .. n
      BY <1>4, <2>2
    <3>2. QED
      BY <1>8, <3>1
  <2>5. QED
    BY <1>1, <2>1, <2>2, <2>3, <2>4 DEF Hearing, Data
<1>20. QED
  BY <1>12, <1>13, <1>15, <1>16, <1>17, <1>18, <1>19 DEF Inv


(* A receive completes: what came lies behind what was in RecvQ, and the   *)
(* worker has a message from the pool.                                     *)
LEMMA RecvCompleteInv ==
  ASSUME Inv, NEW k \in 1 .. RingSize, NEW m \in Messages, RecvComplete(k, m)
  PROVE  Inv'
<1>1. TypeOK /\ Framed /\ Frontier /\ Shape /\ Waiting /\ Books /\ Hearing
  BY DEF Inv
<1>2. /\ pending /\ pending' = FALSE /\ m \in pool /\ pc = "idle" /\ msg = NoMsg
      /\ pc' = "loop" /\ msg' = m /\ passed' = 0
  BY <1>1 DEF RecvComplete, Alloc, Shape
<1>3. k \in 1 .. FreeSize /\ arrived + k <= Len(stream) /\ arrived' = arrived + k
  BY DEF RecvComplete
<1>4. /\ ring' \in [0 .. RingSize - 1 -> Nat]
      /\ \A i \in 0 .. UseSize - 1 : ring'[(front + i) % RingSize] = Peek(i)
      /\ \A j \in 1 .. k :
           ring'[(front + (UseSize + j - 1)) % RingSize] = stream[arrived + j]
  <2>1. ring' = [i \in DOMAIN ring |->
                   LET hits == {j \in 1 .. k : RecvBuffers[j] = i}
                   IN  IF hits = {} THEN ring[i] ELSE stream[arrived + Max(hits)]]
    BY DEF RecvComplete
  <2>2. QED
    BY <1>1, <1>3, <2>1, Enqueued, ZenonT(30)
<1>5. PICK u, n, a, s, f, r, q \in Nat :
        /\ u = UseSize /\ n = RingSize /\ a = arrived /\ s = SentSize(Handed)
        /\ f = front /\ r = rear /\ q = rear'
  <2>1. UseSize \in Nat /\ RingSize \in Nat \ {0} /\ rear \in Nat /\ front \in Nat
    BY <1>1, SizesAre DEF TypeOK
  <2>2. arrived \in Nat /\ UseSize = arrived - SentSize(Handed)
    BY <1>1 DEF Frontier, TypeOK
  <2>3. rear' = (rear + k) % RingSize
    BY DEF RecvComplete
  <2>4. rear' \in Nat
    BY <2>1, <2>3
  <2>5. SentSize(Handed) \in Nat
    BY <1>1, HandedIs
  <2>6. QED
    BY <2>1, <2>2, <2>4, <2>5
<1>6. /\ n \in Nat \ {0} /\ u = a - s /\ u + k <= n - 1
      /\ f \in 0 .. n - 1 /\ r \in 0 .. n - 1
      /\ u = IF r >= f THEN r - f ELSE r - f + n
  <2>1. /\ UseSize = IF rear >= front THEN rear - front ELSE rear - front + RingSize
        /\ RingSize >= 2 /\ FreeSize = RingSize - 1 - UseSize
    BY <1>1, SizesAre
  <2>2. UseSize = arrived - SentSize(Handed)
    BY <1>1 DEF Frontier
  <2>3. front \in 0 .. RingSize - 1 /\ rear \in 0 .. RingSize - 1
    BY <1>1 DEF TypeOK
  <2>4. QED
    BY <1>3, <1>5, <2>1, <2>2, <2>3
<1>7. q = (IF r + k < n THEN r + k ELSE r + k - n) /\ q \in 0 .. n - 1
  <2>1. PICK b \in 0 .. 2 * n - 1 : b = r + k
    BY <1>6
  <2>2. q = b % n
    BY <1>5, <2>1 DEF RecvComplete
  <2>3. b % n = IF b < n THEN b ELSE b - n
    BY <1>6, <2>1, ModuloIs
  <2>4. QED
    BY <1>6, <2>1, <2>2, <2>3
<1>8. UseSize' = u + k
  <2>1. front' = f
    BY <1>5 DEF RecvComplete
  <2>2. UseSize' = (q - f) % n
    BY <1>5, <2>1 DEF UseSize
  <2>3. (q - f) % n = IF q >= f THEN q - f ELSE q - f + n
    BY <1>6, <1>7, DistanceIs
  <2>4. QED
    BY <1>6, <1>7, <2>2, <2>3
<1>9. UNCHANGED <<sent, stream, front, disconFlag, body, content, history>>
  BY DEF RecvComplete
<1>10. TypeOK'
  <2>1. arrived' \in 0 .. Len(stream')
    BY <1>3, <1>5, <1>9
  <2>2. rear' \in 0 .. RingSize - 1
    BY <1>5, <1>7
  <2>3. pool' \subseteq Messages /\ ref' \in [Messages -> Int]
    <3>1. pool' = pool \ {m} /\ ref' = [ref EXCEPT ![m] = 1]
      BY DEF RecvComplete, Alloc
    <3>2. pool \subseteq Messages /\ ref \in [Messages -> Int]
      BY <1>1 DEF TypeOK
    <3>3. QED
      BY <3>1, <3>2
  <2>4. QED
    BY <1>1, <1>2, <1>4, <1>9, <2>1, <2>2, <2>3 DEF TypeOK, content, history
<1>11. Framed'
  BY <1>1, <1>9, FramedKept
<1>12. Frontier'
  <2>1. Handed' = Handed
    BY <1>2, <1>9 DEF Handed, history
  <2>2. SentSize(Handed)' = s
    BY <1>5, <1>9, <2>1 DEF SentSize
  <2>3. ASSUME NEW i \in 0 .. u + k - 1 PROVE Peek(i)' = stream'[s + 1 + i]
    <3>1. Peek(i)' = ring'[(front + i) % RingSize]
      BY <1>9 DEF Peek
    <3>2. CASE i \in 0 .. u - 1
      <4>1. Peek(i) = stream[s + 1 + i]
        BY <1>1, <1>5, <3>2 DEF Frontier
      <4>2. QED
        BY <1>4, <1>5, <1>9, <3>1, <3>2, <4>1
    <3>3. CASE i \notin 0 .. u - 1
      <4>1. PICK j \in 1 .. k : i = u + j - 1
        <5>1. i - u + 1 \in 1 .. k /\ i = u + (i - u + 1) - 1
          BY <1>3, <3>3
        <5>2. QED
          BY <5>1
      <4>2. Peek(i)' = stream[a + j]
        BY <1>4, <1>5, <3>1, <4>1
      <4>3. a + j = s + 1 + i
        BY <1>6, <4>1
      <4>4. QED
        BY <1>9, <4>2, <4>3
    <3>4. QED
      BY <3>2, <3>3
  <2>4. s <= arrived' /\ UseSize' = arrived' - s
    <3>1. arrived' = a + k /\ UseSize' = u + k /\ u = a - s
      BY <1>3, <1>5, <1>6, <1>8
    <3>2. k \in Nat
      BY <1>5
    <3>3. QED
      BY <1>5, <3>1, <3>2
  <2>5. QED
    BY <1>1, <1>8, <1>9, <2>1, <2>2, <2>3, <2>4 DEF Frontier
<1>13. Shape' /\ Waiting'
  BY <1>2, MessagesAssumption DEF Shape, Waiting
<1>14. Books'
  <2> SUFFICES ASSUME ~shared PROVE Books'
    BY <1>9 DEF Books, history
  <2>1. pool' = pool \ {m} /\ ref' = [ref EXCEPT ![m] = 1]
    BY DEF RecvComplete, Alloc
  <2>2. InQueue' = InQueue /\ lost' = lost /\ jobs' = jobs /\ job' = job
    BY <1>9 DEF InQueue, content, history
  <2>3. InHand = {} /\ InHand' = {m}
    BY <1>2, MessagesAssumption DEF InHand
  <2>4. /\ Messages = pool \cup lost \cup InHand \cup InQueue
        /\ pool \cap lost = {} /\ (pool \cup lost) \cap InHand = {}
        /\ (pool \cup lost \cup InHand) \cap InQueue = {}
    BY <1>1 DEF Books
  <2>5. /\ Messages = pool' \cup lost' \cup InHand' \cup InQueue'
        /\ pool' \cap lost' = {} /\ (pool' \cup lost') \cap InHand' = {}
        /\ (pool' \cup lost' \cup InHand') \cap InQueue' = {}
    BY <1>2, <2>1, <2>2, <2>3, <2>4
  <2>6. \A o \in Messages : ref'[o] = IF o \in pool' THEN 0 ELSE 1
    <3>1. \A o \in Messages : ref[o] = IF o \in pool THEN 0 ELSE 1
      BY <1>1 DEF Books
    <3>2. \A o \in Messages : ref'[o] = IF o = m THEN 1 ELSE ref[o]
      BY <1>1, <2>1 DEF TypeOK
    <3>3. QED
      BY <2>1, <3>1, <3>2
  <2>7. /\ \A i, j \in 1 .. Len(jobs) : jobs[i] = jobs[j] => i = j
        /\ \A i \in 1 .. Len(jobs) : jobs[i] # job
    BY <1>1 DEF Books
  <2>8. QED
    BY <2>2, <2>5, <2>6, <2>7 DEF Books
<1>15. Hearing'
  BY <1>1, <1>9, HearingKept DEF content, history
<1>16. QED
  BY <1>10, <1>11, <1>12, <1>13, <1>14, <1>15 DEF Inv

(* A receive ends without bytes, and none is posted any more.              *)
LEMMA RecvEndsInv ==
  ASSUME Inv, RecvEnds
  PROVE  Inv'
<1>1. TypeOK /\ Framed /\ Frontier /\ Shape /\ Waiting /\ Books /\ Hearing
  BY DEF Inv
<1>2. pending' = FALSE /\ disconFlag' = TRUE
  BY DEF RecvEnds
<1>3. UNCHANGED <<network, queue, worker, memory, content, history>>
  BY DEF RecvEnds
<1>4. TypeOK'
  BY <1>1, <1>2, <1>3
     DEF TypeOK, network, queue, worker, memory, content, history
<1>5. Handed' = Handed
  BY <1>3 DEF Handed, worker, history
<1>6. Framed' /\ Frontier'
  BY <1>1, <1>3, <1>5, FramedKept, FrontierKept DEF network
<1>7. Shape'
  BY <1>1, <1>2, <1>3, <1>5 DEF Shape, Data, worker, history, memory, network
<1>8. Waiting'
  BY <1>2 DEF Waiting
<1>9. Books' /\ Hearing'
  BY <1>1, <1>3, BooksKept, HearingKept DEF network, worker, memory, content, history
<1>10. QED
  BY <1>4, <1>6, <1>7, <1>8, <1>9 DEF Inv

(* The loop is left: RecvQ holds no whole packet that the server can take, *)
(* or the session is to be disconnected, and a message that nothing was    *)
(* passed on with is lost.                                                 *)
LEMMA EndLoopInv ==
  ASSUME Inv, NEW why, NEW dis \in BOOLEAN, EndLoop(why, dis),
         ~dis /\ UseSize >= HeaderSize => ~Refused /\ UseSize < HeaderSize + Size
  PROVE  Inv'
<1>1. TypeOK /\ Framed /\ Frontier /\ Shape /\ Waiting /\ Books /\ Hearing
  BY DEF Inv
<1>2. /\ pc = "loop" /\ pc' = "post" /\ msg' = NoMsg /\ disconFlag' = (disconFlag \/ dis)
      /\ lost' = IF passed = 0 THEN lost \cup {msg} ELSE lost
  BY DEF EndLoop
<1>3. UNCHANGED <<network, queue, pending, passed, memory, content, frames, shared>>
  BY DEF EndLoop
<1>4. msg \in Messages
  BY <1>1, <1>2, MessagesAssumption DEF Shape, TypeOK
<1>5. TypeOK'
  BY <1>1, <1>2, <1>3, <1>4 DEF TypeOK, network, queue, memory, content
<1>6. Handed' = Handed
  BY <1>2, <1>3 DEF Handed
<1>7. Framed' /\ Frontier'
  BY <1>1, <1>3, <1>6, FramedKept, FrontierKept DEF network
<1>8. Shape'
  BY <1>1, <1>2, <1>3 DEF Shape
<1>9. Waiting'
  <2>1. UseSize' = UseSize /\ Size' = Size /\ Refused' = Refused
    BY <1>3 DEF UseSize, Size, Refused, Code, Peek, queue
  <2>2. QED
    BY <1>2, <2>1 DEF Waiting
<1>10. Books'
  <2> SUFFICES ASSUME ~shared PROVE Books'
    BY <1>3 DEF Books
  <2>1. /\ pool' = pool /\ ref' = ref /\ jobs' = jobs /\ job' = job /\ InQueue' = InQueue
        /\ passed' = passed
    BY <1>3 DEF memory, content, InQueue
  <2>2. lost' \cup InHand' = lost \cup InHand /\ InHand' = {}
    BY <1>2, <1>4, <2>1, MessagesAssumption DEF InHand
  <2>3. /\ Messages = pool \cup lost \cup InHand \cup InQueue
        /\ pool \cap lost = {} /\ (pool \cup lost) \cap InHand = {}
        /\ (pool \cup lost \cup InHand) \cap InQueue = {}
    BY <1>1 DEF Books
  <2>4. /\ Messages = pool \cup lost' \cup InHand' \cup InQueue
        /\ pool \cap lost' = {} /\ (pool \cup lost') \cap InHand' = {}
        /\ (pool \cup lost' \cup InHand') \cap InQueue = {}
    BY <2>2, <2>3
  <2>5. QED
    BY <1>1, <1>3, <2>1, <2>4 DEF Books
<1>11. Hearing'
  BY <1>1, <1>3, HearingKept DEF network, memory, content
<1>12. QED
  BY <1>5, <1>7, <1>8, <1>9, <1>10, <1>11 DEF Inv


(* What the loop takes for a whole packet is the next one that was sent,   *)
(* and its data is what a content is made of.                              *)
LEMMA NextPacket ==
  ASSUME Inv, pc = "loop", UseSize >= HeaderSize, ~Refused, Whole
  PROVE  /\ Handed + 1 \in 1 .. Len(sent)
         /\ sent[Handed + 1].data \in Seq(Byte) /\ sent[Handed + 1].data # <<>>
         /\ \E r \in Byte : sent[Handed + 1].bytes \in Packets(sent[Handed + 1].data, r)
         /\ Size \in Nat /\ Size + HeaderSize <= UseSize
         /\ Len(sent[Handed + 1].bytes) = Size + HeaderSize
         /\ Queued(Size + HeaderSize) = sent[Handed + 1].bytes
<1>1. TypeOK /\ Framed /\ Frontier /\ Shape
  BY DEF Inv
<1>2. PICK h, l, a, s, u, n \in Nat :
        /\ h = Handed /\ l = Len(sent) /\ a = arrived /\ s = SentSize(Handed)
        /\ u = UseSize /\ n = RingSize
  <2>1. /\ Handed \in Nat /\ SentSize(Handed) \in Nat
        /\ UseSize \in Nat /\ RingSize \in Nat
    BY <1>1, HandedIs, SizesAre
  <2>2. Len(sent) \in Nat /\ arrived \in Nat
    BY <1>1 DEF TypeOK
  <2>3. QED
    BY <2>1, <2>2
<1>3. /\ h <= l /\ u = a - s /\ u >= 4 /\ u <= n - 1
      /\ a <= Len(stream) /\ Len(stream) \in Nat /\ SentSize(l) = Len(stream)
  <2>1. UseSize \in 0 .. RingSize - 1
    BY <1>1, SizesAre
  <2>2. QED
    BY <1>1, <1>2, <2>1 DEF Frontier, Framed, TypeOK, HeaderSize
<1>4. h # l
  <2>1. SUFFICES ASSUME h = l PROVE FALSE
    OBVIOUS
  <2>2. SentSize(h) = Len(stream) /\ s = SentSize(h)
    BY <1>2, <1>3, <2>1
  <2>3. QED
    BY <1>2, <1>3, <2>2
<1>5. h + 1 \in 1 .. l /\ (h + 1) - 1 = h
  BY <1>2, <1>3, <1>4
<1>6. PICK b, d : b = sent[h + 1].bytes /\ d = sent[h + 1].data
  OBVIOUS
<1>7. /\ Sound(b, d) /\ sent[h + 1].end = s + Len(b)
      /\ \A j \in 1 .. Len(b) : stream[s + j] = b[j]
  BY <1>1, <1>2, <1>5, <1>6 DEF Framed
<1>8. PICK c \in Nat : c = Len(b) /\ c >= 4 /\ b \in Seq(Nat)
  BY <1>7 DEF Sound, HeaderSize
<1>9. \A i \in 0 .. u - 1 : Peek(i) = stream[s + 1 + i]
  BY <1>1, <1>2 DEF Frontier
<1>10. ASSUME NEW i \in 0 .. u - 1, i < c PROVE Peek(i) = b[i + 1]
  <2>1. i + 1 \in 1 .. c /\ s + 1 + i = s + (i + 1)
    BY <1>2, <1>8, <1>10
  <2>2. QED
    BY <1>7, <1>8, <1>9, <2>1
<1>11. Code = b[1] /\ Size = b[2]
  <2>1. 0 \in 0 .. u - 1 /\ 1 \in 0 .. u - 1 /\ 0 < c /\ 1 < c
    BY <1>3, <1>8
  <2>2. Peek(0) = b[0 + 1] /\ Peek(1) = b[1 + 1]
    BY <1>10, <2>1
  <2>3. QED
    BY <2>2 DEF Code, Size
<1>12. b[2] \in Nat
  BY <1>8
<1>13. b[1] = MsgCode /\ b[2] > 0 /\ b[2] < n /\ b[2] + 4 <= u
  BY <1>2, <1>3, <1>11, <1>12, SMTT(30) DEF Refused, Whole, HeaderSize
<1>14. /\ d \in Seq(Byte) /\ d # <<>> /\ c = 4 + b[2]
       /\ \E r \in Byte : b \in Packets(d, r)
  BY <1>2, <1>7, <1>8, <1>13, SoundTaken DEF HeaderSize
<1>15. Queued(Size + HeaderSize) = b
  <2>1. Size + HeaderSize = c
    BY <1>11, <1>12, <1>14 DEF HeaderSize
  <2>2. PICK q : q = Queued(c)
    OBVIOUS
  <2>3. ASSUME NEW i \in 1 .. c PROVE Peek(i - 1) = b[i]
    <3>1. i - 1 \in 0 .. u - 1 /\ i - 1 < c /\ (i - 1) + 1 = i
      BY <1>12, <1>13, <1>14
    <3>2. QED
      BY <1>10, <3>1
  <2>4. q = [i \in 1 .. c |-> b[i]]
    BY <2>2, <2>3 DEF Queued
  <2>5. b = [i \in 1 .. c |-> b[i]]
    BY <1>8
  <2>6. QED
    BY <2>1, <2>2, <2>4, <2>5
<1>16. QED
  BY <1>2, <1>5, <1>6, <1>8, <1>11, <1>12, <1>13, <1>14, <1>15 DEF HeaderSize

(* A packet is taken out of RecvQ: the queue begins behind it.             *)
LEMMA ReadFrontier ==
  ASSUME Inv, Read
  PROVE  /\ front' \in 0 .. RingSize - 1
         /\ Frontier'
<1>1. TypeOK /\ Framed /\ Frontier /\ Shape
  BY DEF Inv
<1>2. pc = "loop" /\ UseSize >= HeaderSize /\ ~Refused /\ Whole
  BY DEF Read
<1>3. /\ Handed + 1 \in 1 .. Len(sent) /\ sent[Handed + 1].data # <<>>
      /\ Size \in Nat /\ Size + HeaderSize <= UseSize
      /\ Len(sent[Handed + 1].bytes) = Size + HeaderSize
  BY <1>2, NextPacket
<1>4. PICK h, a, s, u, n, f, r, t \in Nat :
        /\ h = Handed /\ a = arrived /\ s = SentSize(Handed) /\ u = UseSize
        /\ n = RingSize /\ f = front /\ r = rear /\ t = Size + HeaderSize
  <2>1. /\ Handed \in Nat /\ SentSize(Handed) \in Nat
        /\ UseSize \in Nat /\ RingSize \in Nat
    BY <1>1, HandedIs, SizesAre
  <2>2. arrived \in Nat /\ front \in Nat /\ rear \in Nat
    BY <1>1, <2>1 DEF TypeOK
  <2>3. Size + HeaderSize \in Nat
    BY <1>3 DEF HeaderSize
  <2>4. QED
    BY <2>1, <2>2, <2>3
<1>5. /\ n \in Nat \ {0} /\ u = a - s /\ u <= n - 1 /\ t <= u /\ s <= a
      /\ f \in 0 .. n - 1 /\ r \in 0 .. n - 1
      /\ u = IF r >= f THEN r - f ELSE r - f + n
  <2>1. /\ UseSize = IF rear >= front THEN rear - front ELSE rear - front + RingSize
        /\ RingSize >= 2 /\ UseSize \in 0 .. RingSize - 1
    BY <1>1, SizesAre
  <2>2. UseSize = arrived - SentSize(Handed)
    BY <1>1 DEF Frontier
  <2>3. front \in 0 .. RingSize - 1 /\ rear \in 0 .. RingSize - 1
    BY <1>1 DEF TypeOK
  <2>4. QED
    <3>1. u = a - s /\ f \in 0 .. n - 1 /\ r \in 0 .. n - 1 /\ n \in Nat \ {0}
      BY <1>4, <2>1, <2>2, <2>3
    <3>2. u = IF r >= f THEN r - f ELSE r - f + n
      BY <1>4, <2>1
    <3>3. u <= n - 1 /\ t <= u
      BY <1>3, <1>4, <2>1
    <3>4. s <= a
      BY <1>1, <1>4 DEF Frontier
    <3>5. QED
      BY <3>1, <3>2, <3>3, <3>4
<1>6. UNCHANGED <<network, ring, rear, frames>> /\ pc' = "decode"
  BY DEF Read
<1>7. PICK g : g = front'
  OBVIOUS
<1>8. g = (IF f + t < n THEN f + t ELSE f + t - n) /\ g \in 0 .. n - 1
  <2>1. PICK b \in 0 .. 2 * n - 1 : b = f + t
    BY <1>5
  <2>2. front' = (front + Size + HeaderSize) % RingSize
    BY DEF Read
  <2>3. front + Size + HeaderSize = f + t
    BY <1>3, <1>4 DEF HeaderSize
  <2>4. g = b % n
    BY <1>4, <1>7, <2>1, <2>2, <2>3
  <2>5. b % n = IF b < n THEN b ELSE b - n
    BY <1>5, <2>1, ModuloIs
  <2>6. QED
    BY <1>5, <2>1, <2>4, <2>5
<1>9. UseSize' = u - t
  <2>1. UseSize' = (r - g) % n
    BY <1>4, <1>6, <1>7 DEF UseSize
  <2>2. (r - g) % n = IF r >= g THEN r - g ELSE r - g + n
    BY <1>5, <1>8, DistanceIs
  <2>3. QED
    BY <1>5, <1>8, <2>1, <2>2
<1>10. ASSUME NEW i \in 0 .. u - t - 1 PROVE Peek(i)' = Peek(t + i)
  <2>1. Peek(i)' = ring[(g + i) % n]
    BY <1>4, <1>6, <1>7 DEF Peek
  <2>2. Peek(t + i) = ring[(f + (t + i)) % n]
    BY <1>4 DEF Peek
  <2>3. PICK b \in 0 .. 2 * n - 1 : b = g + i
    <3>1. g \in 0 .. n - 1 /\ i \in 0 .. n - 1
      BY <1>4, <1>5, <1>8
    <3>2. g + i \in 0 .. 2 * n - 1
      BY <1>4, <3>1
    <3>3. QED
      BY <3>2
  <2>4. PICK c \in 0 .. 2 * n - 1 : c = f + (t + i)
    BY <1>5
  <2>5. b % n = (IF b < n THEN b ELSE b - n) /\ c % n = (IF c < n THEN c ELSE c - n)
    BY <1>5, <2>3, <2>4, ModuloIs
  <2>6. b % n = c % n
    BY <1>5, <1>8, <2>3, <2>4, <2>5
  <2>7. QED
    BY <2>1, <2>2, <2>3, <2>4, <2>6
<1>11. Handed' = h + 1
  <2>1. frames = h /\ pc' \in {"decode", "deliver"}
    BY <1>1, <1>2, <1>4, <1>6 DEF Handed, TypeOK
  <2>2. QED
    BY <1>6, <2>1 DEF Handed
<1>12. SentSize(Handed)' = s + t
  <2>1. sent[h + 1].end = SentSize((h + 1) - 1) + Len(sent[h + 1].bytes)
    BY <1>1, <1>3, <1>4 DEF Framed
  <2>2. (h + 1) - 1 = h /\ h + 1 # 0
    BY <1>4
  <2>3. sent[h + 1].end = s + t
    BY <1>3, <1>4, <2>1, <2>2
  <2>4. sent' = sent
    BY <1>6 DEF network
  <2>5. QED
    BY <1>11, <2>2, <2>3, <2>4 DEF SentSize
<1>13. ASSUME NEW i \in 0 .. u - t - 1 PROVE Peek(i)' = stream'[s + t + 1 + i]
  <2>1. t + i \in 0 .. u - 1 /\ s + 1 + (t + i) = s + t + 1 + i
    BY <1>4, <1>5
  <2>2. Peek(t + i) = stream[s + 1 + (t + i)]
    BY <1>1, <1>4, <2>1 DEF Frontier
  <2>3. QED
    BY <1>6, <1>10, <2>1, <2>2 DEF network
<1>14. Handed' <= Len(sent') /\ \A i \in 1 .. Handed' : sent'[i].data # <<>>
  <2>1. h + 1 <= Len(sent) /\ \A i \in 1 .. h : sent[i].data # <<>>
    BY <1>1, <1>3, <1>4 DEF Frontier
  <2>2. sent[h + 1].data # <<>>
    BY <1>3, <1>4
  <2>3. \A i \in 1 .. h + 1 : i \in 1 .. h \/ i = h + 1
    BY <1>4
  <2>4. QED
    BY <1>6, <1>11, <2>1, <2>2, <2>3 DEF network
<1>15. s + t <= arrived' /\ UseSize' = arrived' - (s + t)
  BY <1>4, <1>5, <1>6, <1>9 DEF network
<1>16. QED
  BY <1>4, <1>7, <1>8, <1>9, <1>12, <1>13, <1>14, <1>15 DEF Frontier


(* A packet is taken out of RecvQ: the worker has it in its hands.  If it  *)
(* is the first of its completion, nobody else has its message.            *)
LEMMA ReadInv ==
  ASSUME Inv, Read
  PROVE  Inv'
<1>1. TypeOK /\ Framed /\ Frontier /\ Shape /\ Waiting /\ Books /\ Hearing
  BY DEF Inv
<1>2. /\ pc = "loop" /\ UseSize >= HeaderSize /\ ~Refused /\ Whole
      /\ pc' = "decode" /\ shared' = (shared \/ passed > 0)
      /\ body' = [body EXCEPT ![msg] = Queued(Size + HeaderSize)]
  BY DEF Read
<1>3. UNCHANGED <<network, ring, rear, pending, disconFlag, msg, passed, pool, ref,
                  content, frames, lost, recvs>>
  BY DEF Read
<1>4. /\ Handed + 1 \in 1 .. Len(sent)
      /\ Queued(Size + HeaderSize) = sent[Handed + 1].bytes
  BY <1>2, NextPacket
<1>5. Handed = frames /\ Handed' = frames + 1
  <2>1. pc \notin {"decode", "deliver"} /\ pc' \in {"decode", "deliver"} /\ frames \in Nat
    BY <1>1, <1>2 DEF TypeOK
  <2>2. QED
    BY <1>3, <2>1 DEF Handed
<1>13. ASSUME ~shared' PROVE ~shared /\ passed = 0
  <2>1. ~shared /\ ~(passed > 0)
    BY <1>2, <1>13
  <2>2. passed \in Nat
    BY <1>1 DEF TypeOK
  <2>3. QED
    BY <2>1, <2>2
<1>6. msg \in Messages /\ msg # NoMsg
  BY <1>1, <1>2, MessagesAssumption DEF Shape, TypeOK
<1>7. /\ body' \in [Messages -> Seq(Nat)] /\ body'[msg] = sent[Handed + 1].bytes
      /\ \A m \in Messages : m # msg => body'[m] = body[m]
  <2>1. sent[Handed + 1].bytes \in Seq(Nat)
    BY <1>1, <1>4, SentFields
  <2>2. QED
    BY <1>1, <1>2, <1>4, <1>6, <2>1 DEF TypeOK
<1>8. front' \in 0 .. RingSize - 1 /\ Frontier'
  BY ReadFrontier
<1>9. TypeOK'
  <2>1. shared' \in BOOLEAN
    BY <1>2
  <2>2. QED
    BY <1>1, <1>2, <1>3, <1>7, <1>8, <2>1 DEF TypeOK, network, content
<1>10. Framed'
  BY <1>1, <1>3, FramedKept DEF network
<1>11. Shape'
  <2>1. pc' \notin {"idle", "post"} /\ pc' # "deliver" /\ msg' # NoMsg
    BY <1>2, <1>3, <1>6
  <2>2. ~pending'
    BY <1>1, <1>2, <1>3 DEF Shape
  <2>3. ~shared' => passed' = 0
    BY <1>3, <1>13
  <2>4. body'[msg'] = sent'[Handed'].bytes
    BY <1>3, <1>5, <1>7 DEF network
  <2>5. QED
    BY <2>1, <2>2, <2>3, <2>4 DEF Shape
<1>12. Waiting'
  BY <1>1, <1>2, <1>3 DEF Shape, Waiting
<1>14. Books'
  <2> SUFFICES ASSUME ~shared' PROVE Books'
    BY DEF Books
  <2>1. /\ pool' = pool /\ lost' = lost /\ ref' = ref /\ jobs' = jobs /\ job' = job
        /\ InQueue' = InQueue /\ InHand' = InHand
    BY <1>3 DEF content, InQueue, InHand
  <2>2. QED
    BY <1>1, <1>13, <2>1 DEF Books
<1>15. Hearing'
  <2>1. heard' = heard /\ jobs' = jobs /\ frames' = frames /\ sent' = sent
    BY <1>3 DEF content, network
  <2>2. ASSUME ~shared', NEW i \in 1 .. Len(jobs) PROVE body'[jobs[i]] = body[jobs[i]]
    <3>1. jobs[i] \in InQueue /\ msg \in InHand
      BY <1>6, <1>13, <2>2 DEF InQueue, InHand
    <3>2. InHand \cap InQueue = {}
      BY <1>1, <1>13, <2>2 DEF Books
    <3>3. jobs[i] # msg
      BY <3>1, <3>2
    <3>4. jobs[i] \in Messages
      BY <1>1 DEF TypeOK
    <3>5. QED
      BY <1>7, <3>3, <3>4
  <2>3. ASSUME ~shared', NEW i \in 1 .. Len(jobs)
        PROVE  Data(body'[jobs[i]]) = sent[Len(heard) + i].data
    <3>1. Data(body[jobs[i]]) = sent[Len(heard) + i].data
      BY <1>1, <1>13, <2>3 DEF Hearing
    <3>2. QED
      BY <2>2, <2>3, <3>1
  <2>4. QED
    BY <1>1, <1>13, <2>1, <2>3 DEF Hearing, Data
<1>16. QED
  BY <1>8, <1>9, <1>10, <1>11, <1>12, <1>14, <1>15 DEF Inv

(* The packet in the hands of the worker was sent, and is one that it can  *)
(* decode.                                                                 *)
LEMMA PacketInHand ==
  ASSUME Inv, pc \in {"decode", "deliver"}
  PROVE  /\ Handed = frames + 1 /\ Handed \in 1 .. Len(sent)
         /\ sent[Handed].data \in Seq(Byte) \ {<<>>}
         /\ \E r \in Byte : sent[Handed].bytes \in Packets(sent[Handed].data, r)
<1>1. TypeOK /\ Framed /\ Frontier
  BY DEF Inv
<1>2. Handed = frames + 1 /\ frames \in Nat
  BY <1>1 DEF Handed, TypeOK
<1>3. Handed \in 1 .. Len(sent) /\ Handed \in 1 .. Handed
  BY <1>1, <1>2, HandedIs
<1>4. sent[Handed].data # <<>> /\ Sound(sent[Handed].bytes, sent[Handed].data)
  BY <1>1, <1>3 DEF Framed, Frontier
<1>5. QED
  BY <1>2, <1>3, <1>4, ContentsAssumption DEF Sound

(* The packet is decoded in its message.                                   *)
LEMMA DecodeInv ==
  ASSUME Inv, Decode
  PROVE  Inv'
<1>1. TypeOK /\ Framed /\ Frontier /\ Shape /\ Waiting /\ Books /\ Hearing
  BY DEF Inv
<1>2. /\ pc = "decode" /\ pc' = "deliver"
      /\ body' = [body EXCEPT ![msg] = SubSeq(body[msg], 1, HeaderSize - 1)
                     \o Bytes(Decoding(Coded(body[msg]), body[msg][3]), body[msg][2])]
  BY DEF Decode
<1>3. UNCHANGED <<network, queue, pending, disconFlag, msg, passed, pool, ref, content,
                  history, recvs>>
  BY DEF Decode
<1>4. msg \in Messages /\ msg # NoMsg
  BY <1>1, <1>2, MessagesAssumption DEF Shape, TypeOK
<1>5. PICK r, d, b :
        /\ r \in Byte
        /\ d = sent[Handed].data /\ b = sent[Handed].bytes
        /\ d \in Seq(Byte) /\ b \in Packets(d, r)
  BY <1>2, PacketInHand
<1>6. PICK t : t = SubSeq(b, 1, HeaderSize - 1) \o Bytes(Decoding(Coded(b), b[3]), b[2])
  OBVIOUS
<1>7. t \in Seq(Nat) /\ Data(t) = d
  BY <1>5, <1>6, PacketHeard
<1>8. body[msg] = b
  BY <1>1, <1>2, <1>5 DEF Shape
<1>9. /\ body' \in [Messages -> Seq(Nat)] /\ body'[msg] = t
      /\ \A m \in Messages : m # msg => body'[m] = body[m]
  <2>1. body' = [body EXCEPT ![msg] = t]
    BY <1>2, <1>6, <1>8
  <2>2. body \in [Messages -> Seq(Nat)]
    BY <1>1 DEF TypeOK
  <2>3. QED
    BY <1>4, <1>7, <2>1, <2>2
<1>10. Handed' = Handed
  BY <1>2, <1>3 DEF Handed, history
<1>11. TypeOK'
  BY <1>1, <1>2, <1>3, <1>9 DEF TypeOK, network, queue, content, history
<1>12. Framed' /\ Frontier'
  BY <1>1, <1>3, <1>10, FramedKept, FrontierKept DEF network
<1>13. Shape'
  <2>1. pc' \notin {"idle", "post"} /\ pc' # "decode" /\ msg' # NoMsg /\ ~pending'
    BY <1>1, <1>2, <1>3, <1>4 DEF Shape
  <2>2. ~shared' => passed' = 0
    BY <1>1, <1>2, <1>3 DEF Shape, history
  <2>3. Data(body[msg])' = sent'[Handed'].data
    <3>1. Data(body[msg])' = Data(t)
      BY <1>3, <1>9 DEF Data
    <3>2. QED
      BY <1>3, <1>5, <1>7, <1>10, <3>1 DEF network
  <2>4. QED
    BY <2>1, <2>2, <2>3 DEF Shape
<1>14. Waiting'
  BY <1>1, <1>2, <1>3 DEF Shape, Waiting
<1>15. Books'
  BY <1>1, <1>3, BooksKept DEF content, history
<1>16. Hearing'
  <2>1. heard' = heard /\ jobs' = jobs /\ frames' = frames /\ sent' = sent /\ shared' = shared
    BY <1>3 DEF content, network, history
  <2>2. ASSUME ~shared, NEW i \in 1 .. Len(jobs) PROVE body'[jobs[i]] = body[jobs[i]]
    <3>1. passed = 0
      BY <1>1, <1>2, <2>2 DEF Shape
    <3>2. jobs[i] \in InQueue /\ msg \in InHand
      BY <1>4, <3>1 DEF InQueue, InHand
    <3>3. InHand \cap InQueue = {}
      BY <1>1, <2>2 DEF Books
    <3>4. jobs[i] # msg
      BY <3>2, <3>3
    <3>5. jobs[i] \in Messages
      BY <1>1 DEF TypeOK
    <3>6. QED
      BY <1>9, <3>4, <3>5
  <2>3. ASSUME ~shared, NEW i \in 1 .. Len(jobs)
        PROVE  Data(body'[jobs[i]]) = sent[Len(heard) + i].data
    <3>1. Data(body[jobs[i]]) = sent[Len(heard) + i].data
      BY <1>1, <2>3 DEF Hearing
    <3>2. QED
      BY <2>2, <2>3, <3>1
  <2>4. QED
    BY <1>1, <2>1, <2>3 DEF Hearing, Data
<1>17. QED
  BY <1>11, <1>12, <1>13, <1>14, <1>15, <1>16 DEF Inv


(* The packet is passed on: its message is in the queue of UpdateThread.   *)
LEMMA OnRecvInv ==
  ASSUME Inv, OnRecv
  PROVE  Inv'
<1>1. TypeOK /\ Framed /\ Frontier /\ Shape /\ Waiting /\ Books /\ Hearing
  BY DEF Inv
<1>2. /\ pc = "deliver" /\ pc' = "loop" /\ jobs' = Append(jobs, msg)
      /\ frames' = frames + 1 /\ passed' = passed + 1
  BY DEF OnRecv
<1>3. UNCHANGED <<network, queue, pending, disconFlag, msg, memory, job, heard, lost,
                  shared, recvs>>
  BY DEF OnRecv
<1>4. msg \in Messages /\ msg # NoMsg
  BY <1>1, <1>2, MessagesAssumption DEF Shape, TypeOK
<1>5. PICK l, h \in Nat : l = Len(jobs) /\ h = Len(heard)
  BY <1>1 DEF TypeOK
<1>6. /\ jobs' \in Seq(Messages) /\ Len(jobs') = l + 1 /\ jobs'[l + 1] = msg
      /\ \A i \in 1 .. l : jobs'[i] = jobs[i]
  BY <1>1, <1>2, <1>4, <1>5, AppendProperties DEF TypeOK
<1>7. Handed = frames + 1 /\ Handed' = Handed
  <2>1. pc' \notin {"decode", "deliver"} /\ frames \in Nat
    BY <1>1, <1>2 DEF TypeOK
  <2>2. QED
    BY <1>2, <2>1 DEF Handed
<1>8. TypeOK'
  <2>1. passed' \in Nat /\ frames' \in Nat
    BY <1>1, <1>2 DEF TypeOK
  <2>2. QED
    BY <1>1, <1>2, <1>3, <1>6, <2>1 DEF TypeOK, network, queue, memory
<1>9. Framed' /\ Frontier'
  BY <1>1, <1>3, <1>7, FramedKept, FrontierKept DEF network
<1>10. Shape' /\ Waiting'
  BY <1>1, <1>2, <1>3, <1>4 DEF Shape, Waiting
<1>11. ASSUME ~shared PROVE InHand = {msg} /\ InHand' = {}
  <2>1. passed = 0 /\ passed' # 0
    BY <1>1, <1>2, <1>11 DEF Shape
  <2>2. QED
    BY <1>3, <1>4, <2>1 DEF InHand
<1>12. Books'
  <2> SUFFICES ASSUME ~shared PROVE Books'
    BY <1>3 DEF Books
  <2>1. pool' = pool /\ ref' = ref /\ lost' = lost /\ job' = job
    BY <1>3 DEF memory
  <2>2. InQueue' = InQueue \cup {msg}
    <3>1. {jobs'[i] : i \in 1 .. l + 1} = {jobs[i] : i \in 1 .. l} \cup {msg}
      <4>1. \A i \in 1 .. l + 1 : i \in 1 .. l \/ i = l + 1
        BY <1>5
      <4>2. l + 1 \in 1 .. l + 1 /\ \A i \in 1 .. l : i \in 1 .. l + 1
        BY <1>5
      <4>3. QED
        BY <1>6, <4>1, <4>2
    <3>2. QED
      BY <1>5, <1>6, <2>1, <3>1 DEF InQueue
  <2>3. /\ Messages = pool \cup lost \cup InHand \cup InQueue
        /\ pool \cap lost = {} /\ (pool \cup lost) \cap InHand = {}
        /\ (pool \cup lost \cup InHand) \cap InQueue = {}
    BY <1>1 DEF Books
  <2>4. /\ Messages = pool \cup lost \cup InHand' \cup InQueue'
        /\ (pool \cup lost) \cap InHand' = {}
        /\ (pool \cup lost \cup InHand') \cap InQueue' = {}
    BY <1>11, <2>2, <2>3
  <2>5. msg # job /\ \A i \in 1 .. l : jobs[i] # msg
    <3>1. msg \notin InQueue
      BY <1>11, <2>3
    <3>2. QED
      BY <1>4, <1>5, <3>1 DEF InQueue
  <2>6. /\ \A i, j \in 1 .. l : jobs[i] = jobs[j] => i = j
        /\ \A i \in 1 .. l : jobs[i] # job
    BY <1>1, <1>5 DEF Books
  <2>7. /\ \A i, j \in 1 .. l + 1 : jobs'[i] = jobs'[j] => i = j
        /\ \A i \in 1 .. l + 1 : jobs'[i] # job
    <3>1. \A i \in 1 .. l + 1 : i \in 1 .. l \/ i = l + 1
      BY <1>5
    <3>2. QED
      BY <1>6, <2>5, <2>6, <3>1
  <2>8. \A m \in Messages : ref[m] = IF m \in pool THEN 0 ELSE 1
    BY <1>1 DEF Books
  <2>9. QED
    BY <1>6, <2>1, <2>3, <2>4, <2>7, <2>8 DEF Books
<1>13. Hearing'
  <2>1. body' = body /\ heard' = heard /\ sent' = sent /\ shared' = shared
    BY <1>3 DEF memory, network
  <2>2. h + l = frames
    BY <1>1, <1>5 DEF Hearing
  <2>3. ASSUME ~shared, NEW i \in 1 .. l + 1
        PROVE  Data(body[jobs'[i]]) = sent[h + i].data
    <3>1. CASE i \in 1 .. l
      <4>1. Data(body[jobs[i]]) = sent[h + i].data
        BY <1>1, <1>5, <2>3, <3>1 DEF Hearing
      <4>2. QED
        BY <1>6, <3>1, <4>1
    <3>2. CASE i = l + 1
      <4>1. h + i = Handed
        BY <1>5, <1>7, <2>2, <3>2
      <4>2. Data(body[msg]) = sent[Handed].data
        BY <1>1, <1>2 DEF Shape
      <4>3. QED
        BY <1>6, <3>2, <4>1, <4>2
    <3>3. QED
      BY <1>5, <3>1, <3>2
  <2>4. h + (l + 1) = frames'
    BY <1>2, <1>5, <2>2
  <2>5. QED
    BY <1>1, <1>5, <1>6, <2>1, <2>3, <2>4 DEF Hearing, Data
<1>14. QED
  BY <1>8, <1>9, <1>10, <1>12, <1>13 DEF Inv

(* The next receive is posted, unless the session is to be disconnected.   *)
LEMMA RecvPostInv ==
  ASSUME Inv, RecvPost
  PROVE  Inv'
<1>1. TypeOK /\ Framed /\ Frontier /\ Shape /\ Waiting /\ Books /\ Hearing
  BY DEF Inv
<1>2. pc = "post" /\ pc' = "idle" /\ pending' = ~disconFlag
  BY DEF RecvPost
<1>3. UNCHANGED <<network, queue, disconFlag, msg, passed, memory, content, history,
                  recvs>>
  BY DEF RecvPost
<1>4. TypeOK'
  <2>1. pending' \in BOOLEAN
    BY <1>2
  <2>2. QED
    BY <1>1, <1>2, <1>3, <2>1 DEF TypeOK, network, queue, memory, content, history
<1>5. Handed' = Handed
  BY <1>2, <1>3 DEF Handed, history
<1>6. Framed' /\ Frontier'
  BY <1>1, <1>3, <1>5, FramedKept, FrontierKept DEF network
<1>7. Shape'
  BY <1>1, <1>2, <1>3 DEF Shape
<1>8. Waiting'
  <2>1. UseSize' = UseSize /\ Size' = Size /\ Refused' = Refused
    BY <1>3 DEF UseSize, Size, Refused, Code, Peek, queue
  <2>2. QED
    BY <1>1, <1>2, <1>3, <2>1 DEF Waiting
<1>9. Books' /\ Hearing'
  BY <1>1, <1>3, BooksKept, HearingKept DEF network, memory, content, history
<1>10. QED
  BY <1>4, <1>6, <1>7, <1>8, <1>9 DEF Inv

(* UpdateThread takes the message at the head of its queue and reads it.   *)
LEMMA TakeJobInv ==
  ASSUME Inv, TakeJob
  PROVE  Inv'
<1>1. TypeOK /\ Framed /\ Frontier /\ Shape /\ Waiting /\ Books /\ Hearing
  BY DEF Inv
<1>2. /\ job = NoMsg /\ jobs # <<>> /\ job' = Head(jobs) /\ jobs' = Tail(jobs)
      /\ heard' = Append(heard, Data(body[Head(jobs)]))
  BY DEF TakeJob
<1>3. UNCHANGED <<network, queue, pending, disconFlag, worker, memory, history, recvs>>
  BY DEF TakeJob
<1>4. PICK l, h \in Nat : l = Len(jobs) /\ h = Len(heard)
  BY <1>1 DEF TypeOK
<1>5. /\ jobs' \in Seq(Messages) /\ l >= 1 /\ Len(jobs') = l - 1
      /\ job' = jobs[1] /\ jobs[1] \in Messages /\ jobs[1] # NoMsg
      /\ \A i \in 1 .. l - 1 : jobs'[i] = jobs[i + 1]
  <2>1. jobs \in Seq(Messages) /\ l # 0
    BY <1>1, <1>2, <1>4, EmptySeq DEF TypeOK
  <2>2. jobs[1] \in Messages
    BY <1>4, <2>1
  <2>3. /\ Head(jobs) = jobs[1] /\ Tail(jobs) \in Seq(Messages)
        /\ Len(Tail(jobs)) = l - 1
        /\ \A i \in 1 .. l - 1 : Tail(jobs)[i] = jobs[i + 1]
    BY <1>2, <1>4, <2>1, HeadTailProperties
  <2>4. QED
    BY <1>2, <1>4, <2>1, <2>2, <2>3, MessagesAssumption
<1>6. PICK d : d = Data(body[jobs[1]])
  OBVIOUS
<1>7. d \in Seq(Nat)
  BY <1>1, <1>5, <1>6, DataIs DEF TypeOK
<1>8. /\ heard' \in Seq(Seq(Nat)) /\ Len(heard') = h + 1 /\ heard'[h + 1] = d
      /\ \A i \in 1 .. h : heard'[i] = heard[i]
  <2>1. heard' = Append(heard, d) /\ heard \in Seq(Seq(Nat))
    BY <1>1, <1>2, <1>5, <1>6 DEF TypeOK
  <2>2. QED
    BY <1>4, <1>7, <2>1, AppendProperties
<1>9. TypeOK'
  BY <1>1, <1>3, <1>5, <1>8 DEF TypeOK, network, queue, worker, memory, history
<1>10. Handed' = Handed
  BY <1>3 DEF Handed, worker, history
<1>11. Framed' /\ Frontier'
  BY <1>1, <1>3, <1>10, FramedKept, FrontierKept DEF network
<1>12. Shape'
  BY <1>1, <1>3, <1>10 DEF Shape, Data, worker, history, memory, network
<1>13. Waiting'
  BY <1>1, <1>3, WaitingKept DEF worker
<1>14. Books'
  <2> SUFFICES ASSUME ~shared PROVE Books'
    BY <1>3 DEF Books, history
  <2>1. pool' = pool /\ ref' = ref /\ lost' = lost /\ InHand' = InHand
    BY <1>3 DEF memory, worker, history, InHand
  <2>2. InQueue' = InQueue
    <3>1. InQueue = {jobs[i] : i \in 1 .. l}
      BY <1>2, <1>4 DEF InQueue
    <3>2. InQueue' = {jobs'[i] : i \in 1 .. l - 1} \cup {jobs[1]}
      BY <1>5 DEF InQueue
    <3>3. ASSUME NEW i \in 1 .. l PROVE jobs[i] \in InQueue'
      <4>1. i = 1 \/ (i - 1 \in 1 .. l - 1 /\ (i - 1) + 1 = i)
        BY <1>4
      <4>2. QED
        BY <1>5, <3>2, <4>1
    <3>4. ASSUME NEW i \in 1 .. l - 1 PROVE jobs'[i] \in InQueue
      <4>1. i + 1 \in 1 .. l
        BY <1>4
      <4>2. QED
        BY <1>5, <3>1, <4>1
    <3>5. jobs[1] \in InQueue
      BY <1>4, <1>5, <3>1
    <3>6. QED
      BY <3>1, <3>2, <3>3, <3>4, <3>5
  <2>3. \A i, j \in 1 .. l : jobs[i] = jobs[j] => i = j
    BY <1>1, <1>4 DEF Books
  <2>4. ASSUME NEW i \in 1 .. l - 1, NEW j \in 1 .. l - 1, jobs'[i] = jobs'[j]
        PROVE  i = j
    <3>1. i + 1 \in 1 .. l /\ j + 1 \in 1 .. l
      BY <1>4
    <3>2. i + 1 = j + 1
      BY <1>5, <2>3, <2>4, <3>1
    <3>3. QED
      BY <3>2
  <2>5. ASSUME NEW i \in 1 .. l - 1 PROVE jobs'[i] # job'
    <3>1. i + 1 \in 1 .. l /\ 1 \in 1 .. l /\ i + 1 # 1
      BY <1>4, <1>5
    <3>2. QED
      BY <1>5, <2>3, <3>1
  <2>6. QED
    BY <1>1, <1>5, <2>1, <2>2, <2>4, <2>5 DEF Books
<1>15. Hearing'
  <2>1. body' = body /\ sent' = sent /\ shared' = shared /\ frames' = frames
    BY <1>3 DEF memory, network, history
  <2>2. (h + 1) + (l - 1) = frames
    BY <1>1, <1>4 DEF Hearing
  <2>3. ASSUME ~shared
        PROVE  /\ \A i \in 1 .. h : heard[i] = sent[i].data
               /\ \A i \in 1 .. l : Data(body[jobs[i]]) = sent[h + i].data
    BY <1>1, <1>4, <2>3 DEF Hearing
  <2>4. ASSUME ~shared, NEW i \in 1 .. h + 1 PROVE heard'[i] = sent[i].data
    <3>1. CASE i \in 1 .. h
      BY <1>8, <2>3, <2>4, <3>1
    <3>2. CASE i = h + 1
      <4>1. 1 \in 1 .. l
        BY <1>4, <1>5
      <4>2. QED
        BY <1>6, <1>8, <2>3, <2>4, <3>2, <4>1
    <3>3. QED
      BY <1>4, <3>1, <3>2
  <2>5. ASSUME ~shared, NEW i \in 1 .. l - 1
        PROVE  Data(body[jobs'[i]]) = sent[(h + 1) + i].data
    <3>1. i + 1 \in 1 .. l /\ h + (i + 1) = (h + 1) + i
      BY <1>4
    <3>2. QED
      BY <1>5, <2>3, <2>5, <3>1
  <2>6. QED
    BY <1>5, <1>8, <2>1, <2>2, <2>4, <2>5 DEF Hearing, Data
<1>16. QED
  BY <1>9, <1>11, <1>12, <1>13, <1>14, <1>15 DEF Inv

(* UpdateThread gives the message back: it was counted once.               *)
LEMMA HandleJobInv ==
  ASSUME Inv, HandleJob
  PROVE  Inv'
<1>1. TypeOK /\ Framed /\ Frontier /\ Shape /\ Waiting /\ Books /\ Hearing
  BY DEF Inv
<1>2. /\ job # NoMsg /\ job' = NoMsg /\ disconFlag' \in {disconFlag, TRUE}
      /\ ref' = [ref EXCEPT ![job] = ref[job] - 1]
      /\ pool' = IF ref[job] = 1 THEN pool \cup {job} ELSE pool
  BY DEF HandleJob, Finish, SubRef
<1>3. UNCHANGED <<network, queue, pending, worker, body, jobs, heard, history, recvs>>
  BY DEF HandleJob, Finish
<1>4. job \in Messages
  BY <1>1, <1>2 DEF TypeOK
<1>5. TypeOK'
  <2>1. pool' \subseteq Messages /\ job' \in Messages \cup {NoMsg}
    BY <1>1, <1>2, <1>4 DEF TypeOK
  <2>2. ref' \in [Messages -> Int]
    <3>1. ref \in [Messages -> Int] /\ ref[job] - 1 \in Int
      BY <1>1, <1>4 DEF TypeOK
    <3>2. QED
      BY <1>2, <3>1
  <2>3. disconFlag' \in BOOLEAN
    BY <1>1, <1>2 DEF TypeOK
  <2>4. QED
    BY <1>1, <1>3, <2>1, <2>2, <2>3 DEF TypeOK, network, queue, worker, history
<1>6. Handed' = Handed
  BY <1>3 DEF Handed, worker, history
<1>7. Framed' /\ Frontier'
  BY <1>1, <1>3, <1>6, FramedKept, FrontierKept DEF network
<1>8. Shape'
  BY <1>1, <1>3, <1>6 DEF Shape, Data, worker, history, network
<1>9. Waiting'
  <2>1. UseSize' = UseSize /\ Size' = Size /\ Refused' = Refused
    BY <1>3 DEF UseSize, Size, Refused, Code, Peek, queue
  <2>2. ~disconFlag' => ~disconFlag
    BY <1>2
  <2>3. QED
    BY <1>1, <1>3, <2>1, <2>2 DEF Waiting, worker
<1>10. Books'
  <2> SUFFICES ASSUME ~shared PROVE Books'
    BY <1>3 DEF Books, history
  <2>1. /\ Messages = pool \cup lost \cup InHand \cup InQueue
        /\ pool \cap lost = {} /\ (pool \cup lost) \cap InHand = {}
        /\ (pool \cup lost \cup InHand) \cap InQueue = {}
        /\ \A i \in 1 .. Len(jobs) : jobs[i] # job
        /\ \A m \in Messages : ref[m] = IF m \in pool THEN 0 ELSE 1
    BY <1>1 DEF Books
  <2>2. job \in InQueue
    BY <1>2 DEF InQueue
  <2>3. ref[job] = 1
    BY <1>4, <2>1, <2>2
  <2>4. pool' = pool \cup {job}
    BY <1>2, <2>3
  <2>5. lost' = lost /\ InHand' = InHand /\ jobs' = jobs
    BY <1>3 DEF worker, history, InHand
  <2>6. InQueue' = InQueue \ {job}
    BY <1>2, <2>1, <2>5 DEF InQueue
  <2>7. /\ Messages = pool' \cup lost' \cup InHand' \cup InQueue'
        /\ pool' \cap lost' = {} /\ (pool' \cup lost') \cap InHand' = {}
        /\ (pool' \cup lost' \cup InHand') \cap InQueue' = {}
    BY <1>4, <2>1, <2>2, <2>4, <2>5, <2>6
  <2>8. \A m \in Messages : ref'[m] = IF m \in pool' THEN 0 ELSE 1
    <3>1. \A m \in Messages : ref'[m] = IF m = job THEN 0 ELSE ref[m]
      <4>1. ref \in [Messages -> Int] /\ ref[job] - 1 = 0
        BY <1>1, <2>3 DEF TypeOK
      <4>2. QED
        BY <1>2, <4>1
    <3>2. QED
      BY <2>1, <2>4, <3>1
  <2>9. \A i \in 1 .. Len(jobs) : jobs[i] # NoMsg
    <3>1. \A i \in 1 .. Len(jobs) : jobs[i] \in Messages
      BY <1>1 DEF TypeOK
    <3>2. QED
      BY <3>1, MessagesAssumption
  <2>10. \A i, j \in 1 .. Len(jobs) : jobs[i] = jobs[j] => i = j
    BY <1>1 DEF Books
  <2>11. QED
    BY <1>2, <2>5, <2>7, <2>8, <2>9, <2>10 DEF Books
<1>11. Hearing'
  BY <1>1, <1>3, HearingKept DEF network, history
<1>12. QED
  BY <1>5, <1>7, <1>8, <1>9, <1>10, <1>11 DEF Inv


(* The three ways out of the loop.                                         *)
LEMMA LoopLeftInv ==
  ASSUME Inv, NoPacket \/ BadHeader \/ PartOfPacket
  PROVE  Inv'
<1>1. TypeOK
  BY DEF Inv
<1>2. Size \in Nat
  <2>1. RingSize \in Nat /\ 1 \in 0 .. RingSize - 1
    BY <1>1, SizesAre
  <2>2. (front + 1) % RingSize \in 0 .. RingSize - 1
    BY <1>1, <2>1, PlacesDiffer
  <2>3. QED
    BY <1>1, <2>2 DEF Size, Peek, TypeOK
<1>3. UseSize \in Nat
  BY <1>1, SizesAre
<1>4. CASE NoPacket
  <2>1. EndLoop(UseSize < HeaderSize, FALSE) /\ UseSize < HeaderSize
    BY <1>4 DEF NoPacket, EndLoop
  <2>2. ~(UseSize >= HeaderSize)
    BY <1>3, <2>1 DEF HeaderSize
  <2>3. QED
    BY <2>1, <2>2, EndLoopInv
<1>5. CASE BadHeader
  <2>1. EndLoop(UseSize >= HeaderSize /\ Refused, TRUE)
    BY <1>5 DEF BadHeader
  <2>2. QED
    BY <2>1, EndLoopInv
<1>6. CASE PartOfPacket
  <2>1. /\ EndLoop(UseSize >= HeaderSize /\ ~Refused /\ ~Whole, FALSE)
        /\ ~Refused /\ ~Whole
    BY <1>6 DEF PartOfPacket, EndLoop
  <2>2. UseSize < HeaderSize + Size
    BY <1>2, <1>3, <2>1 DEF Whole, HeaderSize
  <2>3. QED
    BY <2>1, <2>2, EndLoopInv
<1>7. QED
  BY <1>4, <1>5, <1>6

(* Nothing happens.                                                        *)
LEMMA StutterInv ==
  ASSUME Inv, UNCHANGED vars
  PROVE  Inv'
<1>1. /\ TypeOK /\ Framed /\ Frontier /\ Shape /\ Waiting /\ Books /\ Hearing
      /\ UNCHANGED <<network, queue, pending, disconFlag, worker, memory, content,
                     history, recvs>>
  BY DEF Inv, vars
<1>2. Handed' = Handed
  BY <1>1 DEF Handed, worker, history
<1>3. TypeOK'
  BY <1>1 DEF TypeOK, network, queue, worker, memory, content, history
<1>4. Framed' /\ Frontier' /\ Waiting' /\ Books' /\ Hearing'
  BY <1>1, <1>2, FramedKept, FrontierKept, WaitingKept, BooksKept, HearingKept
     DEF network, worker, memory, content, history
<1>5. Shape'
  BY <1>1, <1>2 DEF Shape, Data, network, worker, memory, history
<1>6. QED
  BY <1>3, <1>4, <1>5 DEF Inv

(* The invariant holds in every state: each step keeps it.                 *)
THEOREM ReceivingInvariant == Spec => []Inv
<1>1. Init => Inv
  BY InitInv
<1>2. Inv /\ [Next]_vars => Inv'
  <2> SUFFICES ASSUME Inv, [Next]_vars PROVE Inv'
    OBVIOUS
  <2>1. ASSUME NEW p \in Good \cup Bad, PeerSends(p) PROVE Inv'
    BY <2>1, PeerSendsInv
  <2>2. ASSUME NEW k \in 1 .. RingSize, NEW m \in Messages, RecvComplete(k, m)
        PROVE  Inv'
    BY <2>2, RecvCompleteInv
  <2>3. CASE RecvEnds
    BY <2>3, RecvEndsInv
  <2>4. CASE NoPacket \/ BadHeader \/ PartOfPacket
    BY <2>4, LoopLeftInv
  <2>5. CASE Read
    BY <2>5, ReadInv
  <2>6. CASE Decode
    BY <2>6, DecodeInv
  <2>7. CASE OnRecv
    BY <2>7, OnRecvInv
  <2>8. CASE RecvPost
    BY <2>8, RecvPostInv
  <2>9. CASE TakeJob
    BY <2>9, TakeJobInv
  <2>10. CASE HandleJob
    BY <2>10, HandleJobInv
  <2>11. CASE UNCHANGED vars
    BY <2>11, StutterInv
  <2>12. QED
    BY <2>1, <2>2, <2>3, <2>4, <2>5, <2>6, <2>7, <2>8, <2>9, <2>10, <2>11
       DEF Next, Loop, UpdateThread
<1>3. QED
  BY <1>1, <1>2, PTL DEF Spec

-----------------------------------------------------------------------------
(* What it says.                                                           *)

(* However TCP cuts the stream and wherever RecvQ wraps: what is in RecvQ  *)
(* is what has come and was not yet passed on, with no byte lost, doubled  *)
(* or overwritten.                                                         *)
THEOREM QueueIsExact == Spec => []QueueExact
<1>1. ASSUME Inv PROVE QueueExact
  <2>1. TypeOK /\ Frontier
    BY <1>1 DEF Inv
  <2>2. PICK u, s, a \in Nat : u = UseSize /\ s = SentSize(Handed) /\ a = arrived
    <3>1. UseSize \in Nat /\ SentSize(Handed) \in Nat
      BY <2>1, SizesAre, HandedIs
    <3>2. arrived \in Nat
      BY <2>1 DEF TypeOK
    <3>3. QED
      BY <3>1, <3>2
  <2>3. /\ u = a - s /\ s <= a /\ a <= Len(stream) /\ stream \in Seq(Nat)
        /\ \A i \in 0 .. u - 1 : Peek(i) = stream[s + 1 + i]
    BY <2>1, <2>2 DEF Frontier, TypeOK
  <2>4. \A i \in s + 1 .. a : stream[i] \in Nat
    <3>1. \A i \in s + 1 .. a : i \in 1 .. Len(stream)
      BY <2>2, <2>3
    <3>2. QED
      BY <2>3, <3>1
  <2>5. PICK t : t = SubSeq(stream, s + 1, a)
    OBVIOUS
  <2>6. /\ t \in Seq(Nat) /\ Len(t) = u
        /\ \A i \in 1 .. u : t[i] = stream[(s + 1) + i - 1]
    <3>1. s + 1 \in Int /\ a \in Int
      BY <2>2
    <3>2. /\ t \in Seq(Nat)
          /\ Len(t) = IF s + 1 <= a THEN a - (s + 1) + 1 ELSE 0
          /\ \A i \in 1 .. a - (s + 1) + 1 : t[i] = stream[(s + 1) + i - 1]
      BY <2>4, <2>5, <3>1, SubSeqProperties
    <3>3. a - (s + 1) + 1 = u /\ (s + 1 <= a \/ u = 0)
      BY <2>2, <2>3
    <3>4. QED
      BY <3>2, <3>3
  <2>7. ASSUME NEW i \in 1 .. u PROVE Peek(i - 1) = t[i]
    <3>1. i - 1 \in 0 .. u - 1 /\ s + 1 + (i - 1) = (s + 1) + i - 1
      BY <2>2
    <3>2. QED
      BY <2>3, <2>6, <3>1
  <2>8. Queued(u) = t
    <3>1. Queued(u) = [i \in 1 .. u |-> t[i]]
      BY <2>7 DEF Queued
    <3>2. t = [i \in 1 .. u |-> t[i]]
      BY <2>6
    <3>3. QED
      BY <3>1, <3>2
  <2>9. Consumed = s
    BY <2>2 DEF Consumed, Handed
  <2>10. QED
    BY <2>2, <2>5, <2>8, <2>9 DEF QueueExact
<1>2. QED
  BY <1>1, ReceivingInvariant, PTL

(* A worker that waits for more has left no packet in RecvQ.               *)
THEOREM NothingIsLeft == Spec => []NothingLeftBehind
<1>1. Inv => NothingLeftBehind
  BY DEF Inv, Waiting, NothingLeftBehind
<1>2. QED
  BY <1>1, ReceivingInvariant, PTL

(* The content reads what the peer put into its packets, in this order and *)
(* decoded, as long as no completion has held two packets.                 *)
THEOREM ContentHearsWhatWasSent == Spec => []HeardAsSent
<1>1. ASSUME Inv PROVE HeardAsSent
  <2> SUFFICES ASSUME ~shared PROVE IsPrefix(heard, SentData)
    BY DEF HeardAsSent
  <2>1. TypeOK /\ Framed /\ Frontier /\ Hearing
    BY <1>1 DEF Inv
  <2>2. PICK n, h, g \in Nat : n = Len(sent) /\ h = Len(heard) /\ g = Handed
    <3>1. Handed \in Nat
      BY <2>1, HandedIs DEF TypeOK
    <3>2. QED
      BY <2>1, <3>1 DEF TypeOK
  <2>3. h <= g
    <3>1. h + Len(jobs) = frames /\ Len(jobs) \in Nat
      BY <2>1, <2>2 DEF Hearing, TypeOK
    <3>2. g = frames \/ g = frames + 1
      BY <2>1, <2>2 DEF Handed, TypeOK
    <3>3. QED
      BY <2>2, <3>1, <3>2
  <2>4. PICK k \in 0 .. n : Taken = 1 .. k
    BY <2>1, <2>2 DEF Framed
  <2>5. g <= k
    <3>1. CASE g = 0
      BY <2>4, <3>1
    <3>2. CASE g # 0
      <4>1. \A j \in 1 .. g : sent[j].data # <<>>
        BY <2>1, <2>2 DEF Frontier
      <4>2. g \in DOMAIN sent
        <5>1. g \in 1 .. n
          BY <2>1, <2>2, <3>2 DEF Frontier
        <5>2. QED
          BY <2>1, <2>2, <5>1 DEF TypeOK
      <4>3. g \in Taken
        BY <4>1, <4>2 DEF Taken
      <4>4. QED
        BY <2>4, <4>3
    <3>3. QED
      BY <3>1, <3>2
  <2>6. PICK d : d = SentData
    OBVIOUS
  <2>7. d = [i \in 1 .. k |-> sent[i].data]
    BY <2>4, <2>6 DEF SentData
  <2>8. k \in Nat /\ h <= k
    BY <2>2, <2>3, <2>4, <2>5
  <2>9. Len(d) = k
    BY <2>7, <2>8
  <2>10. ASSUME NEW i \in 1 .. h PROVE heard[i] = d[i] /\ heard[i] \in Seq(Nat)
    <3>1. i \in 1 .. k
      BY <2>2, <2>8
    <3>2. heard[i] = sent[i].data
      BY <2>1, <2>2 DEF Hearing
    <3>3. heard[i] \in Seq(Nat)
      BY <2>1, <2>2, ElementOfSeq DEF TypeOK
    <3>4. QED
      BY <2>7, <3>1, <3>2, <3>3
  <2>11. PICK a, b : a = SubSeq(heard, 1, h) /\ b = SubSeq(d, 1, h)
    OBVIOUS
  <2>12. /\ a \in Seq(Seq(Nat)) /\ Len(a) = h
         /\ \A i \in 1 .. h : a[i] = heard[1 + i - 1]
    <3>1. /\ a \in Seq(Seq(Nat)) /\ Len(a) = IF 1 <= h THEN h - 1 + 1 ELSE 0
          /\ \A i \in 1 .. h - 1 + 1 : a[i] = heard[1 + i - 1]
      BY <2>2, <2>10, <2>11, SubSeqProperties
    <3>2. h - 1 + 1 = h /\ (1 <= h \/ h = 0)
      BY <2>2
    <3>3. QED
      BY <3>1, <3>2
  <2>13. /\ b \in Seq(Seq(Nat)) /\ Len(b) = h
         /\ \A i \in 1 .. h : b[i] = d[1 + i - 1]
    <3>1. /\ b \in Seq(Seq(Nat)) /\ Len(b) = IF 1 <= h THEN h - 1 + 1 ELSE 0
          /\ \A i \in 1 .. h - 1 + 1 : b[i] = d[1 + i - 1]
      BY <2>2, <2>10, <2>11, SubSeqProperties
    <3>2. h - 1 + 1 = h /\ (1 <= h \/ h = 0)
      BY <2>2
    <3>3. QED
      BY <3>1, <3>2
  <2>14. ASSUME NEW i \in 1 .. h PROVE a[i] = b[i]
    <3>1. 1 + i - 1 = i
      BY <2>2
    <3>2. QED
      BY <2>10, <2>12, <2>13, <3>1
  <2>15. a = b
    BY <2>12, <2>13, <2>14, SeqEqual
  <2>16. QED
    BY <2>2, <2>6, <2>8, <2>9, <2>11, <2>15 DEF IsPrefix
<1>2. QED
  BY <1>1, ReceivingInvariant, PTL

(* A message is in one place: in the pool, with the worker, on its way to  *)
(* the content or with it, or lost, and its count says whether it is out.  *)
THEOREM MessagesBooked == Spec => []MessageBooks
<1>1. ASSUME Inv PROVE MessageBooks
  <2> SUFFICES ASSUME ~shared, NEW m \in Messages
               PROVE  /\ One(m \in pool) + One(m \in lost) + One(msg = m /\ passed = 0)
                           + InJobs(m) = 1
                      /\ ref[m] = 1 - One(m \in pool)
    BY DEF MessageBooks
  <2>1. TypeOK /\ Books
    BY <1>1 DEF Inv
  <2>2. /\ Messages = pool \cup lost \cup InHand \cup InQueue
        /\ pool \cap lost = {} /\ (pool \cup lost) \cap InHand = {}
        /\ (pool \cup lost \cup InHand) \cap InQueue = {}
        /\ \A i, j \in 1 .. Len(jobs) : jobs[i] = jobs[j] => i = j
        /\ \A i \in 1 .. Len(jobs) : jobs[i] # job
        /\ ref[m] = IF m \in pool THEN 0 ELSE 1
    BY <2>1 DEF Books
  <2>3. m # NoMsg
    BY MessagesAssumption
  <2>4. msg = m /\ passed = 0 <=> m \in InHand
    BY <2>3 DEF InHand
  <2>5. PICK q, l : q = <<job>> \o jobs /\ l = Len(jobs) /\ l \in Nat
    <3>1. Len(jobs) \in Nat
      BY <2>1 DEF TypeOK
    <3>2. QED
      BY <3>1
  <2>6. /\ DOMAIN q = 1 .. l + 1 /\ q[1] = job
        /\ \A i \in 1 .. l : q[i + 1] = jobs[i]
    <3>1. <<job>> \in Seq(Messages \cup {NoMsg}) /\ Len(<<job>>) = 1 /\ <<job>>[1] = job
      BY <2>1 DEF TypeOK
    <3>2. jobs \in Seq(Messages \cup {NoMsg})
      BY <2>1, SeqMonotonic DEF TypeOK
    <3>3. /\ q \in Seq(Messages \cup {NoMsg}) /\ Len(q) = 1 + l
          /\ \A i \in 1 .. 1 + l : q[i] = IF i <= 1 THEN <<job>>[i] ELSE jobs[i - 1]
      BY <2>5, <3>1, <3>2, ConcatProperties
    <3>4. DOMAIN q = 1 .. l + 1
      BY <2>5, <3>3, LenProperties
    <3>5. q[1] = job
      BY <2>5, <3>1, <3>3
    <3>6. ASSUME NEW i \in 1 .. l PROVE q[i + 1] = jobs[i]
      <4>1. i + 1 \in 1 .. 1 + l /\ ~(i + 1 <= 1) /\ (i + 1) - 1 = i
        BY <2>5
      <4>2. QED
        BY <3>3, <4>1
    <3>7. QED
      BY <3>4, <3>5, <3>6
  <2>7. PICK S : S = {i \in DOMAIN q : q[i] = m}
    OBVIOUS
  <2>8. InJobs(m) = Cardinality(S)
    BY <2>5, <2>7 DEF InJobs
  <2>9. \A i \in 1 .. l + 1 : i = 1 \/ \E j \in 1 .. l : i = j + 1
    <3>1. ASSUME NEW i \in 1 .. l + 1, i # 1 PROVE i - 1 \in 1 .. l /\ i = (i - 1) + 1
      BY <2>5, <3>1
    <3>2. QED
      BY <3>1
  <2>10. S # {} <=> m \in InQueue
    <3>1. ASSUME NEW i \in S PROVE m \in InQueue
      BY <2>3, <2>5, <2>6, <2>7, <2>9, <3>1 DEF InQueue
    <3>2. ASSUME m \in InQueue PROVE S # {}
      <4>1. CASE m = job
        <5>1. 1 \in DOMAIN q
          BY <2>5, <2>6
        <5>2. QED
          BY <2>6, <2>7, <4>1, <5>1
      <4>2. CASE \E i \in 1 .. l : m = jobs[i]
        <5>1. PICK i \in 1 .. l : m = jobs[i]
          BY <4>2
        <5>2. i + 1 \in DOMAIN q
          BY <2>5, <2>6
        <5>3. QED
          BY <2>6, <2>7, <5>1, <5>2
      <4>3. QED
        BY <2>5, <3>2, <4>1, <4>2 DEF InQueue
    <3>3. QED
      BY <3>1, <3>2
  <2>11. ASSUME NEW i \in S, NEW j \in S PROVE i = j
    <3>1. i \in 1 .. l + 1 /\ j \in 1 .. l + 1 /\ q[i] = m /\ q[j] = m
      BY <2>6, <2>7
    <3>2. QED
      BY <2>2, <2>5, <2>6, <2>9, <3>1
  <2>12. Cardinality(S) = IF m \in InQueue THEN 1 ELSE 0
    <3>1. CASE m \in InQueue
      <4>1. PICK i : i \in S
        BY <2>10, <3>1
      <4>2. S = {i}
        BY <2>11, <4>1
      <4>3. QED
        BY <3>1, <4>2, FS_Singleton
    <3>2. CASE m \notin InQueue
      BY <2>10, <3>2, FS_EmptySet
    <3>3. QED
      BY <3>1, <3>2
  <2>13. One(m \in pool) = (IF m \in pool THEN 1 ELSE 0)
         /\ One(m \in lost) = (IF m \in lost THEN 1 ELSE 0)
         /\ One(msg = m /\ passed = 0) = (IF m \in InHand THEN 1 ELSE 0)
    BY <2>4 DEF One
  <2>14. ref[m] = 1 - One(m \in pool)
    BY <2>2, <2>13
  <2>15. \/ m \in pool /\ m \notin lost /\ m \notin InHand /\ m \notin InQueue
         \/ m \notin pool /\ m \in lost /\ m \notin InHand /\ m \notin InQueue
         \/ m \notin pool /\ m \notin lost /\ m \in InHand /\ m \notin InQueue
         \/ m \notin pool /\ m \notin lost /\ m \notin InHand /\ m \in InQueue
    BY <2>2
  <2>16. QED
    BY <2>8, <2>12, <2>13, <2>14, <2>15
<1>2. QED
  BY <1>1, ReceivingInvariant, PTL
=============================================================================
