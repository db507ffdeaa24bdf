------------------------------ MODULE RecvPath -------------------------------
(***************************************************************************)
(* How a packet gets from a peer to the content (NetServer.cpp: RecvPost,  *)
(* RecvComplete; ChattingServer.cpp: OnRecv, UpdateThread, ON_RECV_FUNC),  *)
(* for one session: TCP delivers a stream of bytes in pieces of any size,  *)
(* WSARecv writes them into the ring buffer RecvQ, a worker cuts packets   *)
(* out of it into a CMsg, decodes them and gives them to OnRecv, which     *)
(* queues the message for UpdateThread.  A CMsg is counted: Alloc gives it *)
(* out with one reference, and SubRef returns it to the pool at zero.      *)
(*                                                                         *)
(* Only one worker at a time is between the completion of a receive and    *)
(* the next WSARecv of its session.  What happens to the session and its   *)
(* IOCount meanwhile is the matter of module Session.                      *)
(***************************************************************************)
EXTENDS Codec, FiniteSets, SequencesExt

CONSTANTS
  Messages, NoMsg,      \* the CMsg objects of the pool, and none
  RingSize,             \* the bytes of RecvQ, of which one stays empty
  Contents,             \* the data of packets, as sequences of bytes
  RandKeys,             \* the RandKeys they use
  MaxPackets, MaxRecvs  \* bounds on what a peer sends, and on the completions

ASSUME MessagesAssumption == IsFiniteSet(Messages) /\ NoMsg \notin Messages
ASSUME ContentsAssumption ==
  Contents \subseteq Seq(Byte) \ {<<>>} /\ RandKeys \subseteq Byte
ASSUME BoundsAssumption ==
  MaxPackets \in Nat /\ MaxRecvs \in Nat /\ RingSize \in Nat \ {0, 1}

VARIABLES
  sent,                \* the packets the peer has sent: their bytes and their data,
                       \* and where they end in the stream
  stream,              \* the stream they make, byte after byte
  arrived,             \* how many bytes of it have reached RecvQ
  ring, front, rear,   \* RecvQ
  pending,             \* a WSARecv is with the kernel
  disconFlag,          \* DisconFlag
  pc, msg,             \* RecvComplete: where it is, and its CMsg
  passed,              \* the packets it has passed to OnRecv since the completion
  pool, ref, body,     \* the messages in the pool, their references, what is in them
  jobs, job,           \* the queue of UpdateThread, the message it is working on
  frames, heard,       \* history: packets passed to OnRecv, data read by the content
  lost, shared,        \* history: see EndLoop and Read
  recvs                \* the completions so far

network  == <<sent, stream, arrived>>
queue    == <<ring, front, rear>>
worker   == <<pc, msg, passed>>
memory   == <<pool, ref, body>>
content  == <<jobs, job, heard>>
history  == <<frames, lost, shared>>
vars     == <<network, queue, pending, disconFlag, worker, memory, content, history,
              recvs>>

-----------------------------------------------------------------------------
(* CRingBuff: the data are from front up to rear, round the end.           *)

UseSize  == (rear - front) % RingSize
FreeSize == RingSize - 1 - UseSize
DirectEnqueSize == IF rear >= front THEN RingSize - rear ELSE front - rear - 1
Peek(i)  == ring[(front + i) % RingSize]
Queued(n) == [i \in 1 .. n |-> Peek(i - 1)]

(* The two WSABUFs of RecvPost, as the places they cover, in order.        *)
Places(from, len) == [i \in 1 .. len |-> from + i - 1]

(* Mutant: the buffers are swapped.                                        *)
RecvBuffers_Swapped ==
  IF DirectEnqueSize - 1 = FreeSize
  THEN Places(rear, FreeSize)
  ELSE Places(0, FreeSize - DirectEnqueSize) \o Places(rear, DirectEnqueSize)

RecvBuffers ==
  IF DirectEnqueSize - 1 = FreeSize
  THEN Places(rear, FreeSize)
  ELSE Places(rear, DirectEnqueSize) \o Places(0, FreeSize - DirectEnqueSize)

(* The header at the front of the queue.                                   *)
Code == Peek(0)
Size == Peek(1)

-----------------------------------------------------------------------------
(* What the peer sends: coded packets, headers that the server refuses     *)
(* (another Code, or no data), and packets that do not fit into RecvQ.     *)
Good == UNION {{[bytes |-> p, data |-> d] : p \in Packets(d, r)} :
                 d \in Contents, r \in RandKeys}
Bad  ==
  LET packet(code, n) ==
        [bytes |-> Header(code, n, 0) \o Bytes([i \in 0 .. n |-> 0], n), data |-> <<>>]
  IN  {packet(MsgCode, 0), packet((MsgCode + 1) % ByteSize, 1),
       packet(MsgCode, RingSize)}

(* CMsg::SubRef.                                                           *)
SubRef(m) ==
  /\ ref' = [ref EXCEPT ![m] = @ - 1]
  /\ pool' = IF ref[m] = 1 THEN pool \cup {m} ELSE pool

(* CMsg::Alloc.                                                            *)
Alloc(m) ==
  /\ m \in pool
  /\ pool' = pool \ {m}
  /\ ref' = [ref EXCEPT ![m] = 1]

(* A session after AcceptComplete: nothing has come, a receive is posted.  *)
Init ==
  /\ sent = <<>> /\ stream = <<>> /\ arrived = 0
  /\ ring = [i \in 0 .. RingSize - 1 |-> 0] /\ front = 0 /\ rear = 0
  /\ pending = TRUE /\ disconFlag = FALSE
  /\ pc = "idle" /\ msg = NoMsg /\ passed = 0
  /\ pool = Messages /\ ref = [m \in Messages |-> 0]
  /\ body = [m \in Messages |-> <<>>]
  /\ jobs = <<>> /\ job = NoMsg
  /\ frames = 0 /\ heard = <<>>
  /\ lost = {} /\ shared = FALSE
  /\ recvs = 0

-----------------------------------------------------------------------------
PeerSends(p) ==
  /\ Len(sent) < MaxPackets
  /\ stream' = stream \o p.bytes
  /\ sent' = Append(sent, [bytes |-> p.bytes, data |-> p.data, end |-> Len(stream')])
  /\ UNCHANGED <<arrived, queue, pending, disconFlag, worker, memory, content,
                 history, recvs>>

(* A WSARecv completes with k bytes: RecvComplete moves the rear of RecvQ  *)
(* over them and allocates the one CMsg of this completion.                *)
RecvComplete(k, m) ==
  /\ pending /\ recvs < MaxRecvs
  /\ k \in 1 .. FreeSize /\ arrived + k <= Len(stream)
  /\ pending' = FALSE
  /\ recvs' = recvs + 1
  /\ arrived' = arrived + k
  /\ ring' = [i \in DOMAIN ring |->
                LET hits == {j \in 1 .. k : RecvBuffers[j] = i}
                IN  IF hits = {} THEN ring[i] ELSE stream[arrived + Max(hits)]]
  /\ rear' = (rear + k) % RingSize
  /\ Alloc(m)
  /\ pc' = "loop" /\ msg' = m /\ passed' = 0
  /\ UNCHANGED <<sent, stream, front, disconFlag, body, content, history>>

(* Cancelled by DisconnectSession, or completed with no bytes because the  *)
(* buffers have none: the worker takes that for the end of the connection. *)
RecvEnds ==
  /\ pending
  /\ disconFlag \/ (FreeSize = 0 /\ arrived < Len(stream))
  /\ pending' = FALSE /\ disconFlag' = TRUE
  /\ UNCHANGED <<network, queue, worker, memory, content, history, recvs>>

-----------------------------------------------------------------------------
(* The loop of RecvComplete.  It is left without giving the message back;  *)
(* if no packet was passed on with it, nobody will.                        *)
Refused == Code # MsgCode \/ Size <= 0

(* Mutant: a packet that has just come complete is taken for a part.       *)
Whole_OffByOne == Size < UseSize - HeaderSize

Whole == Size <= UseSize - HeaderSize

EndLoop(why, dis) ==
  /\ pc = "loop" /\ why
  /\ disconFlag' = (disconFlag \/ dis)
  /\ lost' = IF passed = 0 THEN lost \cup {msg} ELSE lost
  /\ pc' = "post" /\ msg' = NoMsg
  /\ UNCHANGED <<network, queue, pending, passed, memory, content, frames,
                 shared, recvs>>

(* Mutant: the loop is an if.                                              *)
NoPacket_Once == EndLoop(UseSize < HeaderSize \/ (passed > 0 /\ ~Refused), FALSE)

NoPacket == EndLoop(UseSize < HeaderSize, FALSE)

(* DisconnectSession, which may find that another call has taken the       *)
(* socket and is about to set DisconFlag; here the flag is set at once.    *)
BadHeader == EndLoop(UseSize >= HeaderSize /\ Refused, TRUE)

PartOfPacket == EndLoop(UseSize >= HeaderSize /\ ~Refused /\ ~Whole, FALSE)

(* Clear, Deque and MoveWritePos.  If a packet of this completion has been *)
(* passed on already, it was with the same message.                        *)
Read ==
  /\ pc = "loop"
  /\ UseSize >= HeaderSize /\ ~Refused /\ Whole
  /\ body' = [body EXCEPT ![msg] = Queued(Size + HeaderSize)]
  /\ front' = (front + Size + HeaderSize) % RingSize
  /\ shared' = (shared \/ passed > 0)
  /\ pc' = "decode"
  /\ UNCHANGED <<network, ring, rear, pending, disconFlag, msg, passed, pool, ref,
                 content, frames, lost, recvs>>

(* Decoding, in place.                                                     *)
Decode ==
  LET b == body[msg]
      plain == Decoding(Coded(b), b[3])
  IN
  /\ pc = "decode"
  /\ body' = [body EXCEPT ![msg] = SubSeq(b, 1, HeaderSize - 1) \o Bytes(plain, b[2])]
  /\ pc' = "deliver"
  /\ UNCHANGED <<network, queue, pending, disconFlag, msg, passed, pool, ref, content,
                 history, recvs>>

(* The data a reader of the message finds.                                 *)
Data(b) == SubSeq(b, HeaderSize + 1, Len(b))

(* OnRecv: the message goes to UpdateThread, which is to give it back.     *)
OnRecv ==
  /\ pc = "deliver"
  /\ jobs' = Append(jobs, msg)
  /\ frames' = frames + 1
  /\ passed' = passed + 1
  /\ pc' = "loop"
  /\ UNCHANGED <<network, queue, pending, disconFlag, msg, memory, job, heard, lost,
                 shared, recvs>>

RecvPost ==
  /\ pc = "post"
  /\ pc' = "idle"
  /\ pending' = ~disconFlag
  /\ UNCHANGED <<network, queue, disconFlag, msg, passed, memory, content, history,
                 recvs>>

-----------------------------------------------------------------------------
(* UpdateThread.                                                           *)

TakeJob ==
  /\ job = NoMsg /\ jobs # <<>>
  /\ job' = Head(jobs) /\ jobs' = Tail(jobs)
  /\ heard' = Append(heard, Data(body[Head(jobs)]))
  /\ UNCHANGED <<network, queue, pending, disconFlag, worker, memory, history,
                 recvs>>

(* The content may call DisconnectSession for what it has read.            *)
Finish(m) ==
  /\ job # NoMsg
  /\ SubRef(m)
  /\ job' = NoMsg
  /\ disconFlag' \in {disconFlag, TRUE}
  /\ UNCHANGED <<network, queue, pending, worker, body, jobs, heard, history,
                 recvs>>

(* Mutant: a request that ends in DisconnectSession returns at once.       *)
HandleJob_Return ==
  \/ Finish(job)
  \/ /\ job # NoMsg /\ ~disconFlag
     /\ job' = NoMsg /\ disconFlag' = TRUE
     /\ UNCHANGED <<network, queue, pending, worker, memory, jobs, heard, history,
                    recvs>>

(* ON_RECV_FUNC ends with SubRef.                                          *)
HandleJob == Finish(job)

-----------------------------------------------------------------------------
Loop == NoPacket \/ BadHeader \/ PartOfPacket \/ Read \/ Decode \/ OnRecv \/ RecvPost

UpdateThread == TakeJob \/ HandleJob

Next ==
  \/ \E p \in Good \cup Bad : PeerSends(p)
  \/ \E k \in 1 .. RingSize, m \in Messages : RecvComplete(k, m)
  \/ RecvEnds
  \/ Loop
  \/ UpdateThread

Spec == Init /\ [][Next]_vars

(* A worker that has a completion and UpdateThread run on; peers, and what *)
(* TCP delivers when, are free.                                            *)
FairSpec == Spec /\ WF_vars(Loop) /\ WF_vars(UpdateThread)

-----------------------------------------------------------------------------
(* The packets the server is to take: those before one that it cannot.     *)
Taken ==
  {i \in DOMAIN sent : \A j \in 1 .. i : sent[j].data # <<>>}
SentData == [i \in Taken |-> sent[i].data]
SentSize(n) == IF n = 0 THEN 0 ELSE sent[n].end

(* What the worker has taken out of RecvQ: between Read and OnRecv it has  *)
(* a packet more in its hands.                                             *)
Consumed ==
  SentSize(frames + (IF pc \in {"decode", "deliver"} THEN 1 ELSE 0))

(* However TCP cuts the stream and wherever RecvQ wraps: what is in RecvQ  *)
(* is what has come and was not yet passed on, with no byte lost, doubled  *)
(* or overwritten.                                                         *)
QueueExact == Queued(UseSize) = SubSeq(stream, Consumed + 1, arrived)

(* A worker that waits for more has left no packet in RecvQ: one that was  *)
(* complete would be late until the peer happens to send again.            *)
NothingLeftBehind ==
  pending /\ ~disconFlag /\ UseSize >= HeaderSize =>
    ~Refused /\ UseSize < HeaderSize + Size

(* The content reads what the peer put into its packets, in this order and *)
(* decoded, as long as no completion has held two packets: they share one  *)
(* CMsg, and the second is written over the first, or into a message that  *)
(* the content has already given back.                                     *)
HeardAsSent == ~shared => IsPrefix(heard, SentData)

(* A message is in one place: in the pool, with the worker, on its way to  *)
(* the content or with it, and its count says whether it is out.  Apart    *)
(* from these only the messages of completions that passed no packet on    *)
(* are out of the pool, and those never come back.                         *)
InJobs(m) == Cardinality({i \in DOMAIN (<<job>> \o jobs) : (<<job>> \o jobs)[i] = m})
One(p)    == IF p THEN 1 ELSE 0
MessageBooks ==
  ~shared =>
    \A m \in Messages :
      /\ One(m \in pool) + One(m \in lost) + One(msg = m /\ passed = 0) + InJobs(m) = 1
      /\ ref[m] = 1 - One(m \in pool)

(* Every packet that has come complete is read by the content, also when   *)
(* the session is being disconnected meanwhile.                            *)
ArrivedIsHeard ==
  \A n \in 1 .. MaxPackets :
    n \in Taken /\ arrived >= SentSize(n) ~> Len(heard) >= n
=============================================================================
