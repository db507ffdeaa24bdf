---------------------------- MODULE SessionProofs ----------------------------
(***************************************************************************)
(* Proofs about the sessions of CNetServer, for any number of indexes,     *)
(* workers, connections and messages: every index of _SessionArray has one *)
(* owner, whatever late calls do to IOCount (Inductive); and, until a call *)
(* is too late, IOCount counts the uses, so a released session is at rest  *)
(* and one thread at a time sends (Sound).                                 *)
(***************************************************************************)
EXTENDS Session, FiniteSetTheorems, SequenceTheorems, TLAPS

USE DEF At

(* The inputs so far.                                                      *)
CountOK ==
  count \in [accepts : Nat, blocked : Nat, msgs : Nat, recvs : Nat, disconnects : Nat,
             late : Nat, to : Seq(Nat)]

(* StartUseSession returns to its caller, and a SendPacket that it returns *)
(* to still has its message.                                               *)
Using == {"use_inc", "use_undo"}
Returns ==
  \A t \in Threads :
    /\ pc[t] \in Using => ret[t] # <<>>
    /\ pc[t] \in {"snd_check", "snd_enqueue"} => msg[t] # 0
    /\ \A i \in DOMAIN ret[t] :
         ret[t][i] = "snd_check" => i = 1 /\ pc[t] \in Using /\ msg[t] # 0

(* A connection has a number from the time its slot is given one.          *)
Numbered ==
  \A t \in Threads :
    /\ At(t, "init_id") => count.accepts > 0
    /\ pc[t] \in {"init_io", "init_flag"} => sessionID[cur[t]] # 0

(* A slot that a thread, the kernel, the port or the content has to do     *)
(* with belongs to a live session or to one whose flag is set.             *)
SlotsOf(q) == {q[i].slot : i \in DOMAIN q}
Pending    == recvPend \cup sendPend \cup SlotsOf(cq) \cup SlotsOf(posted)
Busy(t)    == pc[t] \notin {"idle"} \cup InitPoints
Touched(s) == s \in Pending \/ \E t \in Threads : cur[t] = s /\ Busy(t)
Settled    == \A s \in Slots : Touched(s) => releaseFlag[s] \/ Live(s)

Inductive == TypeOK /\ CountOK /\ Returns /\ Numbered /\ Settled /\ SlotOwnership

-----------------------------------------------------------------------------
(* What a queue of records mentions, when one is added or taken.           *)
LEMMA Appended ==
  ASSUME NEW S, NEW q \in Seq(S), NEW e \in S
  PROVE  Append(q, e) \in Seq(S) /\ SlotsOf(Append(q, e)) = SlotsOf(q) \cup {e.slot}
<1>1. /\ Append(q, e) \in Seq(S) /\ Len(q) \in Nat /\ DOMAIN q = 1 .. Len(q)
      /\ DOMAIN Append(q, e) = 1 .. Len(q) + 1
      /\ Append(q, e)[Len(q) + 1] = e
      /\ \A i \in 1 .. Len(q) : Append(q, e)[i] = q[i]
  BY AppendProperties, LenProperties
<1>2. ASSUME NEW s, s \in SlotsOf(Append(q, e)) PROVE s \in SlotsOf(q) \cup {e.slot}
  BY <1>1, <1>2 DEF SlotsOf
<1>3. ASSUME NEW s, s \in SlotsOf(q) PROVE s \in SlotsOf(Append(q, e))
  <2>1. PICK i \in 1 .. Len(q) : s = q[i].slot
    BY <1>1, <1>3 DEF SlotsOf
  <2>2. i \in DOMAIN Append(q, e) /\ Append(q, e)[i] = q[i]
    BY <1>1, <2>1
  <2> QED
    BY <2>1, <2>2 DEF SlotsOf
<1>4. e.slot \in SlotsOf(Append(q, e))
  <2>1. Len(q) + 1 \in DOMAIN Append(q, e)
    BY <1>1
  <2> QED
    BY <1>1, <2>1 DEF SlotsOf
<1> QED
  BY <1>1, <1>2, <1>3, <1>4

(* The head of a queue and the rest of it.                                 *)
LEMMA Shortened ==
  ASSUME NEW S, NEW q \in Seq(S), q # <<>>
  PROVE  /\ Head(q) \in S /\ Tail(q) \in Seq(S) /\ Len(q) \in Nat \ {0}
         /\ Len(Tail(q)) = Len(q) - 1
         /\ \A i \in DOMAIN Tail(q) : i + 1 \in DOMAIN q /\ Tail(q)[i] = q[i + 1]
         /\ Head(q) = q[1] /\ 1 \in DOMAIN q
         /\ Head(q).slot \in SlotsOf(q) /\ SlotsOf(Tail(q)) \subseteq SlotsOf(q)
<1>1. /\ Len(q) \in Nat /\ Len(q) # 0 /\ DOMAIN q = 1 .. Len(q)
      /\ Head(q) = q[1] /\ Head(q) \in S
      /\ Tail(q) \in Seq(S) /\ Len(Tail(q)) = Len(q) - 1
      /\ \A i \in 1 .. Len(q) - 1 : Tail(q)[i] = q[i + 1]
  BY HeadTailProperties, LenProperties, EmptySeq
<1>2. DOMAIN Tail(q) = 1 .. Len(q) - 1
  BY <1>1, LenProperties
<1>3. /\ \A i \in DOMAIN Tail(q) : i + 1 \in DOMAIN q /\ Tail(q)[i] = q[i + 1]
      /\ 1 \in DOMAIN q
  BY <1>1, <1>2
<1>4. Head(q).slot \in SlotsOf(q) /\ SlotsOf(Tail(q)) \subseteq SlotsOf(q)
  BY <1>1, <1>3 DEF SlotsOf
<1> QED
  BY <1>1, <1>3, <1>4

(* SubRef only counts.                                                     *)
LEMMA SubRefAllType ==
  ASSUME TypeOK, NEW S, NEW q \in Seq(S), SubRefAll(q)
  PROVE  freed' \in [Msgs -> Nat]
<1>1. IsFiniteSet(DOMAIN q)
  BY LenProperties, FS_Interval
<1>2. ASSUME NEW m \in Msgs PROVE Occurs(q, m) \in Nat
  BY <1>1, FS_Subset, FS_CardinalityType DEF Occurs, Positions
<1> QED
  BY <1>2 DEF SubRefAll, TypeOK

(* The threads are finitely many.                                          *)
LEMMA ThreadsFinite == IsFiniteSet(Threads)
<1>1. IsFiniteSet({}) /\ IsFiniteSet({} \cup {Acceptor})
  BY FS_EmptySet, FS_AddElement
<1>2. IsFiniteSet({} \cup {Acceptor} \cup {Content})
  BY <1>1, FS_AddElement
<1>3. Threads = ({} \cup {Acceptor} \cup {Content}) \cup Workers
  BY DEF Threads
<1> QED
  BY <1>2, <1>3, FiniteAssumption, FS_Union

(* The decrements still to come are finitely many.                         *)
LEMMA HoldsType ==
  ASSUME TypeOK, NEW s \in Slots
  PROVE  Holds(s) \in Int
<1>1. IsFiniteSet(Threads)
  BY ThreadsFinite
<1>3. IsFiniteSet(DOMAIN cq)
  BY LenProperties, FS_Interval DEF TypeOK, NetType
<1>4. Cardinality({t \in Threads : cur[t] = s /\ pc[t] \in HoldPoints}) \in Nat
  BY <1>1, FS_Subset, FS_CardinalityType
<1>5. Cardinality({t \in Threads : cur[t] = s /\ Owes(t)}) \in Nat
  BY <1>1, FS_Subset, FS_CardinalityType
<1>6. Cardinality({s} \cap recvPend) \in Nat /\ Cardinality({s} \cap sendPend) \in Nat
  <2>1. IsFiniteSet({s})
    BY FS_Singleton
  <2>2. {s} \cap recvPend \in SUBSET {s} /\ {s} \cap sendPend \in SUBSET {s}
    OBVIOUS
  <2> QED
    BY <2>1, <2>2, FS_Subset, FS_CardinalityType
<1>7. Cardinality({i \in DOMAIN cq : cq[i].slot = s}) \in Nat
  BY <1>3, FS_Subset, FS_CardinalityType
<1> QED
  BY <1>4, <1>5, <1>6, <1>7 DEF Holds

-----------------------------------------------------------------------------

(* Where a thread goes, and what it will return to.                        *)
Settle(t) ==
  /\ pc' \in [Threads -> Points] /\ ret' \in [Threads -> Seq(ReturnPoints)]
  /\ \A u \in Threads : u # t => pc'[u] = pc[u] /\ ret'[u] = ret[u]

(* A thread goes to a point.                                                *)
LEMMA GotoIs ==
  ASSUME TypeOK, NEW t \in Threads, NEW p \in Points, Goto(t, p)
  PROVE  Settle(t) /\ pc'[t] = p /\ ret' = ret
BY DEF Goto, TypeOK, ControlType, Settle

(* A call begins.                                                          *)
LEMMA EnterIs ==
  ASSUME TypeOK, NEW t \in Threads, NEW p \in Points, NEW after \in Seq(ReturnPoints),
         Enter(t, p, after)
  PROVE  Settle(t) /\ pc'[t] = p /\ ret'[t] = after
BY DEF Enter, TypeOK, ControlType, Settle

(* A call ends.  Only StartUseSession returns to SendPacket.               *)
LEMMA ReturnIs ==
  ASSUME TypeOK, Returns, NEW t \in Threads, Return(t)
  PROVE  /\ Settle(t) /\ pc'[t] \in {"idle"} \cup ReturnPoints
         /\ pc'[t] = "snd_check" => msg[t] # 0 /\ pc[t] \in Using
         /\ \A i \in DOMAIN ret'[t] : ret'[t][i] # "snd_check"
<1> ret[t] \in Seq(ReturnPoints)
  BY DEF TypeOK, ControlType
<1> {"idle"} \cup ReturnPoints \subseteq Points
  BY DEF ReturnPoints, Points, HoldPoints, OtherPoints
<1>1. CASE ret[t] = <<>>
  BY <1>1 DEF Return, TypeOK, ControlType, Settle
<1>2. CASE ret[t] # <<>>
  <2>1. /\ Head(ret[t]) \in ReturnPoints /\ Tail(ret[t]) \in Seq(ReturnPoints)
        /\ Head(ret[t]) = ret[t][1] /\ 1 \in DOMAIN ret[t]
        /\ \A i \in DOMAIN Tail(ret[t]) :
             i \in Nat \ {0} /\ i + 1 \in DOMAIN ret[t] /\ Tail(ret[t])[i] = ret[t][i + 1]
    BY <1>2, Shortened, LenProperties
  <2>2. pc'[t] = Head(ret[t]) /\ ret'[t] = Tail(ret[t])
    BY <1>2 DEF Return, TypeOK, ControlType
  <2>3. Settle(t)
    BY <1>2, <2>1 DEF Return, TypeOK, ControlType, Settle
  <2> QED
    BY <2>1, <2>2, <2>3 DEF Returns
<1> QED
  BY <1>1, <1>2

(* StartUseSession fails: it goes on with the release, and does not return.*)
LEMMA TailIs ==
  ASSUME TypeOK, Returns, NEW t \in Threads, pc[t] \in Using
  PROVE  /\ Tail(ret[t]) \in Seq(ReturnPoints)
         /\ \A i \in DOMAIN Tail(ret[t]) : Tail(ret[t])[i] # "snd_check"
<1>1. ret[t] \in Seq(ReturnPoints) /\ ret[t] # <<>>
  BY DEF TypeOK, ControlType, Returns
<1>2. /\ Tail(ret[t]) \in Seq(ReturnPoints)
      /\ \A i \in DOMAIN Tail(ret[t]) :
           i \in Nat \ {0} /\ i + 1 \in DOMAIN ret[t] /\ Tail(ret[t])[i] = ret[t][i + 1]
  BY <1>1, Shortened, LenProperties
<1> QED
  BY <1>2 DEF Returns

-----------------------------------------------------------------------------
(* Types, and what calls return to: one step for each action.              *)
Typed == TypeOK /\ CountOK /\ Returns

(* A thread that is not in StartUseSession, nor about to use its message,  *)
(* with none of its calls returning there.                                 *)
Apart(t) ==
  /\ pc'[t] \notin Using \cup {"snd_check", "snd_enqueue"}
  /\ \A i \in DOMAIN ret'[t] : ret'[t][i] # "snd_check"
  /\ \A u \in Threads : u # t => msg'[u] = msg[u]

(* A thread that is in no SendPacket keeps what others return to.           *)
LEMMA ReturnsKept ==
  ASSUME Returns, NEW t \in Threads, Settle(t), Apart(t)
  PROVE  Returns'
BY DEF Returns, Settle, Apart

(* What a step leaves alone keeps its type.                                *)
LEMMA TypesKept ==
  ASSUME TypeOK
  PROVE  /\ UNCHANGED <<life, freeIdx, drift>> => LifeType'
         /\ UNCHANGED send => SendType'
         /\ UNCHANGED sock => SockType'
         /\ UNCHANGED call => CallType'
         /\ UNCHANGED net => NetType'
         /\ UNCHANGED events => EventType'
         /\ UNCHANGED freed => freed' \in [Msgs -> Nat]
<1> USE DEF TypeOK
<1>1. UNCHANGED <<life, freeIdx, drift>> => LifeType'
  BY DEF life, LifeType
<1>2. UNCHANGED send => SendType'
  BY DEF send, SendType
<1>3. UNCHANGED sock => SockType'
  BY DEF sock, SockType
<1>4. UNCHANGED call => CallType'
  BY DEF call, CallType
<1>5. UNCHANGED net => NetType'
  BY DEF net, NetType
<1>6. UNCHANGED events => EventType'
  BY DEF events, EventType
<1> QED
  BY <1>1, <1>2, <1>3, <1>4, <1>5, <1>6

(* A step that moves a thread is typed when what it writes is.              *)
LEMMA TypedBy ==
  ASSUME Typed, NEW t \in Threads, Settle(t), Apart(t) \/ Returns',
         LifeType' \/ UNCHANGED <<life, freeIdx, drift>>,
         SendType' \/ UNCHANGED send, SockType' \/ UNCHANGED sock,
         CallType' \/ UNCHANGED call, NetType' \/ UNCHANGED net,
         EventType' \/ UNCHANGED events,
         freed' \in [Msgs -> Nat] \/ UNCHANGED freed,
         CountOK' \/ UNCHANGED count
  PROVE  Typed'
<1>1. ControlType'
  BY DEF Settle, ControlType
<1>2. TypeOK'
  BY <1>1, TypesKept DEF Typed, TypeOK
<1>3. CountOK'
  BY DEF Typed, CountOK
<1> QED
  BY <1>2, <1>3, ReturnsKept DEF Typed

(* IOCount goes up or down.                                                *)
LEMMA AddIOType ==
  ASSUME TypeOK, NEW t \in Threads, NEW k \in Int, AddIO(t, k), UNCHANGED freeIdx,
         drift' \in [Slots -> Int]
  PROVE  LifeType'
<1>1. cur[t] \in Slots /\ LifeType
  BY DEF TypeOK, CallType
<1>2. ioCount' \in [Slots -> Int]
  BY <1>1 DEF AddIO, LifeType
<1> QED
  BY <1>1, <1>2 DEF AddIO, LifeType

(* What a step of a call leaves of the owners of indexes: it neither begins*)
(* nor ends the preparation or the release of a session, and what it puts  *)
(* into a queue is about its own session.                                  *)
Moves(t) ==
  /\ Settle(t) /\ Busy(t)
  /\ pc'[t] \notin InitPoints /\ (pc'[t] \in ReleasePoints <=> pc[t] \in ReleasePoints)
  /\ UNCHANGED <<sessionID, releaseFlag, freeIdx, cur, count>>
  /\ Pending' \subseteq Pending \cup {cur[t]}

(* Most steps go from one of these points to another or end the call.      *)
Elsewhere ==
  (HoldPoints \cup OtherPoints) \ (Using \cup {"snd_check", "snd_enqueue"})
Inside(t)  == pc[t] \in (HoldPoints \cup OtherPoints) \ ({"idle"} \cup Using)
GoesOn(t)  ==
  Return(t) \/ \E p \in Elsewhere : Goto(t, p) \/ Enter(t, p, <<"dec">>)

(* How the sets of program points lie to each other.                        *)
LEMMA PointSets ==
  /\ Elsewhere \subseteq Points
  /\ {"idle"} \cup ReturnPoints \subseteq Elsewhere \cup {"snd_check"}
  /\ ReturnPoints \subseteq Points
  /\ (HoldPoints \cup OtherPoints) \cap (InitPoints \cup ReleasePoints) = {}
  /\ Using \subseteq HoldPoints \cup OtherPoints
  /\ \A t \in Threads : Inside(t) => Busy(t) /\ pc[t] \notin Using \cup ReleasePoints
<1>1. ReturnPoints \subseteq Points
  BY DEF Points, HoldPoints, OtherPoints, ReturnPoints
<1>2. Elsewhere \subseteq Points
  BY DEF Elsewhere, Points
<1>3. "idle" \in Points /\ Using \subseteq HoldPoints \cup OtherPoints
  BY DEF Points, Using, HoldPoints, OtherPoints
<1>4. {"idle"} \cup ReturnPoints \subseteq Elsewhere \cup {"snd_check"}
  BY DEF Elsewhere, Using, HoldPoints, OtherPoints, ReturnPoints
<1>5. (HoldPoints \cup OtherPoints) \cap (InitPoints \cup ReleasePoints) = {}
  BY DEF HoldPoints, OtherPoints, InitPoints, ReleasePoints
<1>6. ASSUME NEW t \in Threads, Inside(t)
      PROVE  Busy(t) /\ pc[t] \notin Using \cup ReleasePoints
  BY <1>5, <1>6 DEF Inside, Busy
<1> QED
  BY <1>1, <1>2, <1>3, <1>4, <1>5, <1>6

(* A thread that goes on inside its call keeps clear of Initialize and Release. *)
LEMMA MovedOn ==
  ASSUME Typed, NEW t \in Threads, pc[t] \notin Using, GoesOn(t),
         \A u \in Threads : u # t => msg'[u] = msg[u]
  PROVE  Settle(t) /\ Apart(t) /\ pc'[t] \notin InitPoints \cup ReleasePoints
<1>1. CASE Return(t)
  BY <1>1, PointSets, ReturnIs DEF Typed, Apart, Elsewhere
<1>2. ASSUME NEW p \in Elsewhere, Goto(t, p)
      PROVE  Settle(t) /\ Apart(t) /\ pc'[t] \notin InitPoints \cup ReleasePoints
  <2>1. Settle(t) /\ pc'[t] = p /\ ret' = ret
    BY <1>2, PointSets, GotoIs DEF Typed
  <2> QED
    BY <1>2, <2>1, PointSets DEF Typed, Apart, Elsewhere, Returns
<1>3. ASSUME NEW p \in Elsewhere, Enter(t, p, <<"dec">>)
      PROVE  Settle(t) /\ Apart(t) /\ pc'[t] \notin InitPoints \cup ReleasePoints
  <2>1. <<"dec">> \in Seq(ReturnPoints) /\ \A i \in DOMAIN <<"dec">> : <<"dec">>[i] = "dec"
    BY DEF ReturnPoints
  <2>2. Settle(t) /\ pc'[t] = p /\ ret'[t] = <<"dec">>
    BY <1>3, <2>1, PointSets, EnterIs DEF Typed
  <2> QED
    BY <1>3, <2>1, <2>2, PointSets DEF Apart, Elsewhere
<1> QED
  BY <1>1, <1>2, <1>3 DEF GoesOn

(* A step inside a call that leaves the identity of the slots alone.        *)
LEMMA MovedBy ==
  ASSUME Typed, NEW t \in Threads, Inside(t), GoesOn(t),
         \A u \in Threads : u # t => msg'[u] = msg[u],
         UNCHANGED <<sessionID, releaseFlag, freeIdx, cur, count>>,
         UNCHANGED <<recvPend, sendPend, cq, posted>>
           \/ Pending' \subseteq Pending \cup {cur[t]},
         LifeType' \/ UNCHANGED <<life, drift>>,
         SendType' \/ UNCHANGED send, SockType' \/ UNCHANGED sock,
         CallType' \/ UNCHANGED call, NetType' \/ UNCHANGED net,
         EventType' \/ UNCHANGED events,
         freed' \in [Msgs -> Nat] \/ UNCHANGED freed
  PROVE  Typed' /\ Moves(t)
<1>1. Settle(t) /\ Apart(t) /\ pc'[t] \notin InitPoints \cup ReleasePoints
      /\ Busy(t) /\ pc[t] \notin ReleasePoints
  BY MovedOn, PointSets
<1>2. Pending' \subseteq Pending \cup {cur[t]}
  BY DEF Pending
<1>3. Typed'
  BY <1>1, TypedBy
<1> QED
  BY <1>1, <1>2, <1>3 DEF Moves

(* Steps that change nothing but where the thread is.                      *)
LEMMA ControlMoves ==
  ASSUME Typed, NEW t \in Threads, Inside(t), GoesOn(t),
         UNCHANGED <<life, send, sock, freeIdx, call, net, log>>
  PROVE  Typed' /\ Moves(t)
BY MovedBy DEF life, call, net, events, log

(* Steps that raise or lower IOCount.                                      *)
LEMMA CountMoves ==
  ASSUME Typed, NEW t \in Threads, Inside(t), GoesOn(t), NEW k \in Int, AddIO(t, k),
         UNCHANGED <<send, sock, freeIdx, call, net, log>>
  PROVE  Typed' /\ Moves(t)
<1>1. LifeType'
  BY AddIOType DEF Typed, TypeOK, LifeType, log
<1> QED
  BY <1>1, MovedBy DEF AddIO, call, net, events, log

(* A completion is queued.                                                 *)
Kinds == {"recv", "recv_end", "request", "sent"}

(* What PostQueuedCompletionStatus adds to the port.                        *)
LEMMA QueueIs ==
  ASSUME TypeOK, NEW s \in Slots, NEW k \in Kinds, Queue(k, s)
  PROVE  /\ cq' \in Seq([kind : Kinds, slot : Slots])
         /\ SlotsOf(cq') = SlotsOf(cq) \cup {s}
<1> DEFINE R == [kind : Kinds, slot : Slots]
<1>1. PICK e : e = [kind |-> k, slot |-> s]
  OBVIOUS
<1>2. e \in R /\ e.slot = s
  BY <1>1
<1>3. cq \in Seq(R)
  BY DEF TypeOK, NetType, Kinds
<1>4. cq' = Append(cq, e)
  BY <1>1 DEF Queue
<1> HIDE DEF R
<1>5. cq' \in Seq(R) /\ SlotsOf(cq') = SlotsOf(cq) \cup {s}
  BY <1>2, <1>3, <1>4, Appended
<1> QED
  BY <1>5 DEF R

(* A pending receive is cancelled.                                         *)
LEMMA CancelIs ==
  ASSUME TypeOK, NEW s \in Slots, Cancel(s), UNCHANGED <<sendPend, gone, opened, posted>>
  PROVE  NetType' /\ Pending' \subseteq Pending \cup {s}
<1>1. /\ recvPend' \subseteq recvPend
      /\ cq' \in Seq([kind : Kinds, slot : Slots])
      /\ SlotsOf(cq') \subseteq SlotsOf(cq) \cup {s}
  <2>1. CASE Queue("recv_end", s) /\ recvPend' = recvPend \ {s}
    BY <2>1, QueueIs DEF Kinds
  <2>2. CASE UNCHANGED <<recvPend, cq>>
    BY <2>2 DEF TypeOK, NetType, Kinds
  <2> QED
    BY <2>1, <2>2 DEF Cancel
<1> QED
  BY <1>1 DEF Pending, TypeOK, NetType, Kinds

(* The steps of DisconnectInLib only use the slot they were given.          *)
LEMMA DisconnectMoves ==
  ASSUME Typed, NEW t \in Threads,
         \/ DisconnectCheck(t) \/ DisconnectFlag(t) \/ DisconnectSocket(t)
         \/ DisconnectMark(t) \/ DisconnectCancel(t)
  PROVE  Typed' /\ Moves(t)
<1> USE DEF Inside, GoesOn, Elsewhere, Using, HoldPoints, OtherPoints
<1>1. CASE DisconnectCheck(t)
  BY <1>1, ControlMoves DEF DisconnectCheck
<1>2. CASE DisconnectFlag(t)
  BY <1>2, ControlMoves DEF DisconnectFlag
<1>3. CASE DisconnectSocket(t)
  <2>1. SockType'
    BY <1>3 DEF DisconnectSocket, Typed, TypeOK, SockType
  <2>2. Inside(t) /\ GoesOn(t)
    BY <1>3 DEF DisconnectSocket
  <2> QED
    BY <1>3, <2>1, <2>2, MovedBy DEF DisconnectSocket, life, call, net, events, log
<1>4. CASE DisconnectMark(t)
  <2>1. SockType'
    BY <1>4 DEF DisconnectMark, Typed, TypeOK, SockType
  <2>2. Inside(t) /\ GoesOn(t)
    BY <1>4 DEF DisconnectMark
  <2> QED
    BY <1>4, <2>1, <2>2, MovedBy DEF DisconnectMark, life, call, net, events, log
<1>5. CASE DisconnectCancel(t)
  <2>1. cur[t] \in Slots
    BY DEF Typed, TypeOK, CallType
  <2>2. NetType' /\ Pending' \subseteq Pending \cup {cur[t]}
    BY <1>5, <2>1, CancelIs DEF DisconnectCancel, Typed, log, events
  <2>3. Inside(t) /\ GoesOn(t)
    BY <1>5 DEF DisconnectCancel
  <2> QED
    BY <1>5, <2>2, <2>3, MovedBy DEF DisconnectCancel, life, call, events, log
<1> QED
  BY <1>1, <1>2, <1>3, <1>4, <1>5

(* The steps of RecvPost only use the slot they were given.                 *)
LEMMA RecvMoves ==
  ASSUME Typed, NEW t \in Threads,
         RecvPost(t) \/ RecvInc(t) \/ RecvIssue(t) \/ RecvPended(t) \/ RecvFailed(t)
  PROVE  Typed' /\ Moves(t)
<1> USE DEF Inside, GoesOn, Elsewhere, Using, HoldPoints, OtherPoints
<1>1. cur[t] \in Slots
  BY DEF Typed, TypeOK, CallType
<1>2. CASE RecvPost(t)
  BY <1>2, ControlMoves DEF RecvPost
<1>3. CASE RecvInc(t)
  BY <1>3, CountMoves DEF RecvInc, CountRecv
<1>4. CASE RecvIssue(t)
  <2>1. NetType' /\ Pending' \subseteq Pending \cup {cur[t]}
    BY <1>1, <1>4 DEF RecvIssue, Typed, TypeOK, NetType, Pending, log, events
  <2>2. Inside(t) /\ GoesOn(t)
    BY <1>4 DEF RecvIssue
  <2> QED
    BY <1>4, <2>1, <2>2, MovedBy DEF RecvIssue, life, call, events, log
<1>5. CASE RecvPended(t)
  <2>1. NetType' /\ Pending' \subseteq Pending \cup {cur[t]}
    <3>1. CASE Cancel(cur[t])
      BY <1>1, <1>5, <3>1, CancelIs DEF RecvPended, Typed, log, events
    <3>2. CASE UNCHANGED <<recvPend, cq>>
      BY <1>5, <3>2 DEF RecvPended, Typed, TypeOK, NetType, Pending, log, events
    <3> QED
      BY <1>5, <3>1, <3>2 DEF RecvPended
  <2>2. Inside(t) /\ GoesOn(t)
    BY <1>5 DEF RecvPended
  <2> QED
    BY <1>5, <2>1, <2>2, MovedBy DEF RecvPended, life, call, events, log
<1>6. CASE RecvFailed(t)
  <2>1. LifeType'
    BY <1>1, <1>6 DEF RecvFailed, Drift, Typed, TypeOK, LifeType, life
  <2>2. Inside(t) /\ GoesOn(t)
    BY <1>6 DEF RecvFailed
  <2> QED
    BY <1>6, <2>1, <2>2, MovedBy DEF RecvFailed, life, call, net, events
<1> QED
  BY <1>2, <1>3, <1>4, <1>5, <1>6

(* A batch is taken out of SendQ.                                          *)
LEMMA BatchTyped ==
  ASSUME SendType, NEW s \in Slots, NEW n \in 1 .. Len(sendQ[s]),
         sending' = [sending EXCEPT ![s] = SubSeq(sendQ[s], 1, n)],
         sendQ' = [sendQ EXCEPT ![s] = SubSeq(@, n + 1, Len(@))],
         UNCHANGED sendFlag
  PROVE  SendType'
<1>1. sendQ[s] \in Seq(Msgs) /\ Len(sendQ[s]) \in Nat
  BY LenProperties DEF SendType
<1>2. /\ SubSeq(sendQ[s], 1, n) \in Seq(Msgs)
      /\ SubSeq(sendQ[s], n + 1, Len(sendQ[s])) \in Seq(Msgs)
  <2>1. /\ \A i \in 1 .. n : i \in 1 .. Len(sendQ[s])
        /\ \A i \in n + 1 .. Len(sendQ[s]) : i \in 1 .. Len(sendQ[s])
    BY <1>1
  <2> QED
    BY <1>1, <2>1, SubSeqProperties
<1> QED
  BY <1>2 DEF SendType

(* The steps of SendPost only use the slot they were given.                 *)
LEMMA SendMoves ==
  ASSUME Typed, NEW t \in Threads,
         \/ SendPost(t) \/ SendClaim(t) \/ SendSize(t) \/ SendClear(t) \/ SendInc(t)
         \/ SendTake(t) \/ SendIssue(t) \/ SentFlag(t) \/ SentCheck(t)
  PROVE  Typed' /\ Moves(t)
<1> USE DEF Inside, GoesOn, Elsewhere, Using, HoldPoints, OtherPoints
<1>1. cur[t] \in Slots
  BY DEF Typed, TypeOK, CallType
<1>2. CASE SendPost(t)
  BY <1>2, ControlMoves DEF SendPost
<1>3. CASE SendClaim(t)
  <2>1. SendType' /\ Inside(t) /\ GoesOn(t)
    BY <1>1, <1>3 DEF SendClaim, Claim, Typed, TypeOK, SendType
  <2> QED
    BY <1>3, <2>1, MovedBy DEF SendClaim, Claim, life, call, net, events, log
<1>4. CASE SendSize(t)
  BY <1>4, ControlMoves DEF SendSize
<1>5. CASE SendClear(t)
  <2>1. SendType' /\ Inside(t) /\ GoesOn(t)
    BY <1>1, <1>5 DEF SendClear, Typed, TypeOK, SendType
  <2> QED
    BY <1>5, <2>1, MovedBy DEF SendClear, life, call, net, events, log
<1>6. CASE SendInc(t)
  BY <1>6, CountMoves DEF SendInc
<1>7. CASE SendTake(t)
  <2>1. SendType' /\ LifeType'
    <3>1. Len(sendQ[cur[t]]) \in Nat /\ SendMax \in Nat \ {0} /\ SendType /\ LifeType
      BY <1>1, LenProperties, BoundsAssumption DEF Typed, TypeOK, SendType
    <3>2. PICK n \in Nat : n <= Len(sendQ[cur[t]])
            /\ n = IF Len(sendQ[cur[t]]) > SendMax THEN SendMax ELSE Len(sendQ[cur[t]])
      BY <3>1
    <3>3. CASE n > 0
      <4>1. /\ sending' = [sending EXCEPT ![cur[t]] = SubSeq(sendQ[cur[t]], 1, n)]
            /\ sendQ' = [sendQ EXCEPT ![cur[t]] = SubSeq(@, n + 1, Len(@))]
            /\ UNCHANGED <<sendFlag, drift, life, freeIdx>>
        BY <1>7, <3>2, <3>3 DEF SendTake
      <4>2. n \in 1 .. Len(sendQ[cur[t]])
        BY <3>1, <3>2, <3>3
      <4>3. SendType'
        BY <1>1, <3>1, <4>1, <4>2, BatchTyped
      <4> QED
        BY <3>1, <4>1, <4>3 DEF life, LifeType
    <3>4. CASE n = 0
      <4>1. /\ sendFlag' = [sendFlag EXCEPT ![cur[t]] = FALSE]
            /\ Drift(t, 1)
            /\ UNCHANGED <<sendQ, sending, life, freeIdx>>
        <5>1. (IF Len(sendQ[cur[t]]) > SendMax THEN SendMax ELSE Len(sendQ[cur[t]])) = 0
          BY <3>2, <3>4
        <5>2. ~(0 > 0)
          OBVIOUS
        <5> QED
          BY <1>7, <5>1, <5>2 DEF SendTake
      <4> QED
        BY <1>1, <3>1, <4>1 DEF Drift, life, LifeType, SendType
    <3> QED
      BY <3>2, <3>3, <3>4
  <2>2. Inside(t) /\ GoesOn(t)
    BY <1>7 DEF SendTake
  <2> QED
    BY <1>7, <2>1, <2>2, MovedBy DEF SendTake, life, call, net, events
<1>8. CASE SendIssue(t)
  <2>1. NetType' /\ Pending' \subseteq Pending \cup {cur[t]}
    BY <1>1, <1>8 DEF SendIssue, Typed, TypeOK, NetType, Pending, log, events
  <2>2. Inside(t) /\ GoesOn(t)
    BY <1>8 DEF SendIssue
  <2> QED
    BY <1>8, <2>1, <2>2, MovedBy DEF SendIssue, life, call, events, log
<1>9. CASE SentFlag(t)
  <2>1. SendType' /\ Inside(t) /\ GoesOn(t)
    BY <1>1, <1>9 DEF SentFlag, Typed, TypeOK, SendType
  <2> QED
    BY <1>9, <2>1, MovedBy DEF SentFlag, life, call, net, events, log
<1>10. CASE SentCheck(t)
  BY <1>10, ControlMoves DEF SentCheck
<1> QED
  BY <1>2, <1>3, <1>4, <1>5, <1>6, <1>7, <1>8, <1>9, <1>10

(* A callback is made.                                                     *)
LEMMA PostIs ==
  ASSUME TypeOK, NEW t \in Threads, NEW k \in {"join", "recv", "leave"}, NEW n \in Nat,
         Post(k, t, n), UNCHANGED taken
  PROVE  EventType' /\ SlotsOf(posted') = SlotsOf(posted) \cup {cur[t]}
<1> DEFINE R == [kind : {"join", "recv", "leave"}, slot : Slots, conn : Nat]
<1>1. cur[t] \in Slots
  BY DEF TypeOK, CallType
<1>2. PICK e : e = [kind |-> k, slot |-> cur[t], conn |-> n]
  OBVIOUS
<1>3. e \in R /\ e.slot = cur[t]
  BY <1>1, <1>2
<1>4. posted \in Seq(R) /\ taken \in Nat
  BY DEF TypeOK, EventType
<1>5. posted' = Append(posted, e)
  BY <1>2 DEF Post
<1> HIDE DEF R
<1>6. posted' \in Seq(R) /\ SlotsOf(posted') = SlotsOf(posted) \cup {cur[t]}
  BY <1>3, <1>4, <1>5, Appended
<1> QED
  BY <1>4, <1>6 DEF R, EventType

(* The release of a session.                                               *)
LEMMA LeaveMoves ==
  ASSUME Typed, NEW t \in Threads, ReleaseLeave(t)
  PROVE  Typed' /\ Moves(t)
<1>1. /\ pc[t] = "rel_leave" /\ Post("leave", t, sessionID[cur[t]]) /\ Goto(t, "rel_clean")
      /\ UNCHANGED <<life, send, sock, freeIdx, call, net, taken, freed, drift, count>>
  BY DEF ReleaseLeave
<1>2. EventType' /\ SlotsOf(posted') = SlotsOf(posted) \cup {cur[t]}
  <2>1. sessionID[cur[t]] \in Nat
    BY DEF Typed, TypeOK, LifeType, CallType
  <2> QED
    BY <1>1, <2>1, PostIs DEF Typed
<1>3. Settle(t) /\ pc'[t] = "rel_clean" /\ ret' = ret
  BY <1>1, GotoIs DEF Typed, Points, ReleasePoints
<1>4. Apart(t) /\ Busy(t) /\ pc'[t] \notin InitPoints
  BY <1>1, <1>3 DEF Apart, Using, call, Typed, Returns, Busy, InitPoints
<1>5. Typed'
  BY <1>1, <1>2, <1>3, <1>4, TypedBy
<1> QED
  BY <1>1, <1>2, <1>3, <1>4, <1>5 DEF Moves, ReleasePoints, Pending, life, call, net

(* Clearing the send queue of a released session.                           *)
LEMMA CleanMoves ==
  ASSUME Typed, NEW t \in Threads, ReleaseClean(t)
  PROVE  Typed' /\ Moves(t)
<1>1. cur[t] \in Slots
  BY DEF Typed, TypeOK, CallType
<1>2. /\ pc[t] = "rel_clean" /\ opened' = opened \ {ioSocket[cur[t]]}
      /\ SubRefAll(sending[cur[t]] \o sendQ[cur[t]])
      /\ sendQ' = [sendQ EXCEPT ![cur[t]] = <<>>]
      /\ Goto(t, "rel_push")
      /\ UNCHANGED <<life, sendFlag, sending, sock, freeIdx, call, recvPend, sendPend, cq,
                     gone, events, drift, count>>
  BY DEF ReleaseClean, CleanUp
<1>3. sending[cur[t]] \o sendQ[cur[t]] \in Seq(Msgs)
  BY <1>1, ConcatProperties DEF Typed, TypeOK, SendType
<1>4. freed' \in [Msgs -> Nat]
  BY <1>2, <1>3, SubRefAllType DEF Typed
<1>5. <<>> \in Seq(Msgs)
  OBVIOUS
<1>6. SendType' /\ NetType'
  BY <1>1, <1>2, <1>5 DEF Typed, TypeOK, SendType, NetType
<1>7. Settle(t) /\ pc'[t] = "rel_push" /\ ret' = ret
  BY <1>2, GotoIs DEF Typed, Points, ReleasePoints
<1>8. Apart(t) /\ Busy(t) /\ pc'[t] \notin InitPoints
  BY <1>2, <1>7 DEF Apart, Using, call, Typed, Returns, Busy, InitPoints
<1>9. Typed'
  BY <1>2, <1>4, <1>6, <1>7, <1>8, TypedBy
<1> QED
  BY <1>2, <1>7, <1>8, <1>9 DEF Moves, ReleasePoints, Pending, life, call, events

(* The exchange on IOCount that releases: the flag is set.                  *)
LEMMA CommitTyped ==
  ASSUME Typed, NEW t \in Threads, ReleaseCommit(t), ioCount[cur[t]] = 0, ~releaseFlag[cur[t]]
  PROVE  /\ Typed' /\ Settle(t) /\ pc[t] = "rel_cas" /\ pc'[t] = "rel_leave"
         /\ releaseFlag' = [releaseFlag EXCEPT ![cur[t]] = TRUE]
         /\ UNCHANGED <<sessionID, freeIdx, cur, count, recvPend, sendPend, cq, posted>>
<1>1. /\ pc[t] = "rel_cas" /\ releaseFlag' = [releaseFlag EXCEPT ![cur[t]] = TRUE]
      /\ Goto(t, "rel_leave")
      /\ UNCHANGED <<sessionID, ioCount, send, sock, freeIdx, call, net, log>>
  BY DEF ReleaseCommit, ReleaseIf
<1>2. LifeType'
  BY <1>1 DEF Typed, TypeOK, LifeType, CallType, log
<1>3. Settle(t) /\ pc'[t] = "rel_leave" /\ ret' = ret
  BY <1>1, GotoIs DEF Typed, Points, ReleasePoints
<1>4. Apart(t)
  BY <1>1, <1>3 DEF Apart, Using, call, Typed, Returns
<1>5. Typed'
  BY <1>1, <1>2, <1>3, <1>4, TypedBy DEF log
<1> QED
  BY <1>1, <1>3, <1>5 DEF call, net, log, events

(* The index goes back to the free list.                                    *)
LEMMA PushTyped ==
  ASSUME Typed, NEW t \in Threads, ReleasePush(t)
  PROVE  /\ Typed' /\ Settle(t) /\ pc[t] = "rel_push"
         /\ pc'[t] \notin InitPoints \cup ReleasePoints
         /\ freeIdx' = [freeIdx EXCEPT ![cur[t]] = @ + 1]
         /\ UNCHANGED <<sessionID, releaseFlag, cur, count, recvPend, sendPend, cq, posted>>
<1>1. /\ pc[t] = "rel_push" /\ freeIdx' = [freeIdx EXCEPT ![cur[t]] = @ + 1]
      /\ Return(t) /\ UNCHANGED <<life, send, sock, call, net, log>>
  BY DEF ReleasePush
<1>2. LifeType'
  BY <1>1 DEF Typed, TypeOK, LifeType, CallType, life, log
<1>3. Settle(t) /\ Apart(t) /\ pc'[t] \notin InitPoints \cup ReleasePoints
  BY <1>1, MovedOn DEF GoesOn, Using, call
<1>4. Typed'
  BY <1>1, <1>2, <1>3, TypedBy DEF log
<1> QED
  BY <1>1, <1>3, <1>4 DEF life, call, net, log, events

(* StartUseSession and what SendPacket does with its message.              *)
LEMMA UseIncMoves ==
  ASSUME Typed, NEW t \in Threads, UseInc(t)
  PROVE  Typed' /\ Moves(t)
<1>1. /\ pc[t] = "use_inc" /\ AddIO(t, 1) /\ (Goto(t, "use_undo") \/ Return(t))
      /\ UNCHANGED <<send, sock, freeIdx, call, net, log>>
  BY DEF UseInc, Increment
<1>2. LifeType'
  BY <1>1, AddIOType DEF Typed, TypeOK, LifeType, log
<1>3. Settle(t) /\ Returns' /\ pc'[t] \notin InitPoints \cup ReleasePoints
  <2>1. CASE Goto(t, "use_undo")
    <3>1. Settle(t) /\ pc'[t] = "use_undo" /\ ret' = ret
      BY <2>1, GotoIs DEF Typed, Points, HoldPoints
    <3> QED
      BY <1>1, <3>1 DEF Typed, Returns, Settle, Using, call, InitPoints, ReleasePoints
  <2>2. CASE Return(t)
    <3>1. /\ Settle(t) /\ pc'[t] \in {"idle"} \cup ReturnPoints
          /\ pc'[t] = "snd_check" => msg[t] # 0
          /\ \A i \in DOMAIN ret'[t] : ret'[t][i] # "snd_check"
      BY <2>2, ReturnIs DEF Typed
    <3>2. pc'[t] \notin Using \cup {"snd_enqueue"} \cup InitPoints \cup ReleasePoints
      BY <3>1 DEF ReturnPoints, Using, InitPoints, ReleasePoints
    <3> QED
      BY <1>1, <3>1, <3>2 DEF Typed, Returns, Settle, call
  <2> QED
    BY <1>1, <2>1, <2>2
<1>4. Busy(t) /\ pc[t] \notin ReleasePoints
  BY <1>1 DEF Busy, InitPoints, ReleasePoints
<1>5. Typed'
  BY <1>1, <1>2, <1>3, TypedBy DEF log
<1> QED
  BY <1>1, <1>3, <1>4, <1>5 DEF Moves, AddIO, call, net, log, events, Pending

(* StartUseSession gives its reference up.                                  *)
LEMMA UseUndoMoves ==
  ASSUME Typed, NEW t \in Threads, UseUndo(t)
  PROVE  Typed' /\ Moves(t)
<1>1. /\ pc[t] = "use_undo" /\ AddIO(t, -1)
      /\ UNCHANGED <<send, sock, freeIdx, cur, id, net, events, count>>
  BY DEF UseUndo, Undo
<1>2. cur[t] \in Slots /\ LifeType /\ msg \in [Threads -> 0 .. MaxMsgs] /\ CallType
  BY DEF Typed, TypeOK, CallType
<1>3. /\ Settle(t) /\ Returns' /\ pc'[t] \notin InitPoints \cup ReleasePoints
      /\ LifeType' /\ CallType' /\ freed' \in [Msgs -> Nat]
  <2>1. CASE ioCount[cur[t]] = 1
    <3>1. /\ Enter(t, "rel_cas", Tail(ret[t])) /\ SubRefAll(<<msg[t]>>)
          /\ msg' = [msg EXCEPT ![t] = 0] /\ UNCHANGED drift
      BY <2>1 DEF UseUndo, Undo
    <3>2. /\ Tail(ret[t]) \in Seq(ReturnPoints)
          /\ \A i \in DOMAIN Tail(ret[t]) : Tail(ret[t])[i] # "snd_check"
      BY <1>1, TailIs DEF Typed, Using
    <3>3. Settle(t) /\ pc'[t] = "rel_cas" /\ ret'[t] = Tail(ret[t])
      BY <3>1, <3>2, EnterIs DEF Typed, Points, OtherPoints
    <3>4. freed' \in [Msgs -> Nat]
      <4>1. <<msg[t]>> \in Seq(0 .. MaxMsgs)
        BY <1>2
      <4> QED
        BY <3>1, <4>1, SubRefAllType DEF Typed
    <3>5. CallType'
      BY <1>1, <1>2, <3>1, BoundsAssumption DEF CallType
    <3>6. LifeType'
      BY <1>1, <1>2, <3>1, AddIOType DEF Typed, LifeType
    <3>7. Returns'
      <4>1. \A u \in Threads : u # t => msg'[u] = msg[u]
        BY <1>2, <3>1
      <4>2. Apart(t)
        BY <3>2, <3>3, <4>1 DEF Apart, Using
      <4> QED
        BY <3>3, <4>2, ReturnsKept DEF Typed
    <3> QED
      BY <3>3, <3>4, <3>5, <3>6, <3>7 DEF InitPoints, ReleasePoints
  <2>2. CASE ioCount[cur[t]] # 1
    <3>1. Return(t) /\ Drift(t, -1) /\ UNCHANGED <<freed, msg>>
      BY <2>2 DEF UseUndo, Undo
    <3>2. /\ Settle(t) /\ pc'[t] \in {"idle"} \cup ReturnPoints
          /\ pc'[t] = "snd_check" => msg[t] # 0
          /\ \A i \in DOMAIN ret'[t] : ret'[t][i] # "snd_check"
      BY <3>1, ReturnIs DEF Typed
    <3>3. pc'[t] \notin Using \cup {"snd_enqueue"} \cup InitPoints \cup ReleasePoints
      BY <3>2 DEF ReturnPoints, Using, InitPoints, ReleasePoints
    <3>4. drift' \in [Slots -> Int]
      BY <1>2, <3>1 DEF Drift, LifeType
    <3>5. LifeType'
      BY <1>1, <3>4, AddIOType DEF Typed
    <3> QED
      BY <1>1, <1>2, <3>1, <3>2, <3>3, <3>5 DEF Typed, TypeOK, CallType, Returns, Settle
  <2> QED
    BY <2>1, <2>2
<1>4. Busy(t) /\ pc[t] \notin ReleasePoints
  BY <1>1 DEF Busy, InitPoints, ReleasePoints
<1>5. Typed'
  BY <1>1, <1>3, TypedBy
<1> QED
  BY <1>1, <1>3, <1>4, <1>5 DEF Moves, AddIO, net, events, Pending

(* The steps of SendPacket.                                                 *)
LEMMA SendPacketMoves ==
  ASSUME Typed, NEW t \in Threads, SendCheck(t) \/ SendEnqueue(t) \/ SendNotify(t)
  PROVE  Typed' /\ Moves(t)
<1>1. cur[t] \in Slots /\ msg \in [Threads -> 0 .. MaxMsgs] /\ CallType /\ LifeType
  BY DEF Typed, TypeOK, CallType
<1>2. CASE SendCheck(t)
  <2>1. pc[t] = "snd_check" /\ msg[t] # 0
        /\ UNCHANGED <<life, send, sock, freeIdx, cur, id, net, events, drift, count>>
    BY <1>2 DEF SendCheck, CheckID, Typed, Returns
  <2>2. CASE Goto(t, "snd_enqueue") /\ UNCHANGED <<freed, msg>>
    <3>1. Settle(t) /\ pc'[t] = "snd_enqueue" /\ ret' = ret
      BY <2>2, GotoIs DEF Typed, Points, HoldPoints
    <3>2. Returns'
      BY <2>1, <2>2, <3>1 DEF Typed, Returns, Settle, Using
    <3>3. Typed'
      BY <2>1, <2>2, <3>1, <3>2, TypedBy DEF call
    <3> QED
      BY <2>1, <3>1, <3>3
         DEF Moves, Busy, InitPoints, ReleasePoints, life, net, events, Pending
  <2>3. CASE Goto(t, "dec") /\ SubRefAll(<<msg[t]>>) /\ msg' = [msg EXCEPT ![t] = 0]
    <3>1. freed' \in [Msgs -> Nat]
      <4>1. <<msg[t]>> \in Seq(0 .. MaxMsgs)
        BY <1>1
      <4> QED
        BY <2>3, <4>1, SubRefAllType DEF Typed
    <3>2. CallType'
      BY <1>1, <2>1, <2>3, BoundsAssumption DEF CallType
    <3>3. Inside(t) /\ GoesOn(t)
      BY <2>1, <2>3 DEF Inside, GoesOn, Elsewhere, Using, HoldPoints, OtherPoints
    <3> QED
      BY <1>1, <2>1, <2>3, <3>1, <3>2, <3>3, MovedBy DEF life, net, events
  <2> QED
    BY <1>2, <2>2, <2>3 DEF SendCheck, CheckID
<1>3. CASE SendEnqueue(t)
  <2>1. /\ pc[t] = "snd_enqueue" /\ msg[t] # 0
        /\ sendQ' = [sendQ EXCEPT ![cur[t]] = Append(@, msg[t])]
        /\ msg' = [msg EXCEPT ![t] = 0] /\ Goto(t, "snd_notify")
        /\ UNCHANGED <<life, sendFlag, sending, sock, freeIdx, cur, id, net, log>>
    BY <1>3 DEF SendEnqueue, Typed, Returns
  <2>2. SendType'
    <3>1. msg[t] \in Msgs
      BY <1>1, <2>1, BoundsAssumption DEF Msgs
    <3>2. Append(sendQ[cur[t]], msg[t]) \in Seq(Msgs)
      BY <1>1, <3>1, AppendProperties DEF Typed, TypeOK, SendType
    <3> QED
      BY <1>1, <2>1, <3>2 DEF Typed, TypeOK, SendType
  <2>3. CallType'
    BY <1>1, <2>1, BoundsAssumption DEF CallType
  <2>4. Inside(t) /\ GoesOn(t)
    BY <2>1 DEF Inside, GoesOn, Elsewhere, Using, HoldPoints, OtherPoints
  <2> QED
    BY <1>1, <2>1, <2>2, <2>3, <2>4, MovedBy DEF life, net, events, log
<1>4. CASE SendNotify(t)
  <2>1. /\ pc[t] = "snd_notify" /\ Return(t)
        /\ UNCHANGED <<life, send, sock, freeIdx, call, recvPend, sendPend, gone, opened,
                       events, freed, count>>
    BY <1>4 DEF SendNotify
  <2>2. LifeType' /\ NetType' /\ Pending' \subseteq Pending \cup {cur[t]}
    <3>1. CASE Queue("request", cur[t]) /\ UNCHANGED drift
      <4>1. /\ cq' \in Seq([kind : Kinds, slot : Slots])
            /\ SlotsOf(cq') = SlotsOf(cq) \cup {cur[t]}
        BY <1>1, <3>1, QueueIs DEF Typed, Kinds
      <4> QED
        BY <1>1, <2>1, <3>1, <4>1
           DEF Typed, TypeOK, LifeType, NetType, Kinds, Pending, life, events
    <3>2. CASE Drift(t, 1) /\ UNCHANGED cq
      BY <1>1, <2>1, <3>2 DEF Drift, Typed, TypeOK, LifeType, NetType, Pending, life, events
    <3> QED
      BY <1>4, <3>1, <3>2 DEF SendNotify
  <2>3. Inside(t) /\ GoesOn(t)
    BY <2>1 DEF Inside, GoesOn, Using, HoldPoints, OtherPoints
  <2> QED
    BY <2>1, <2>2, <2>3, MovedBy DEF life, call, events
<1> QED
  BY <1>2, <1>3, <1>4

-----------------------------------------------------------------------------
(* The accept thread.                                                      *)
LEMMA AcceptTyped ==
  ASSUME Typed, NEW t \in Threads, NEW s \in Slots, Accept(t, s)
  PROVE  /\ Typed' /\ Settle(t) /\ pc[t] = "idle" /\ pc'[t] = "init_id"
         /\ freeIdx[s] > 0 /\ freeIdx' = [freeIdx EXCEPT ![s] = @ - 1]
         /\ cur' = [cur EXCEPT ![t] = s] /\ count'.accepts > 0
         /\ UNCHANGED <<sessionID, releaseFlag, recvPend, sendPend, cq, posted>>
<1>1. /\ pc[t] = "idle" /\ freeIdx[s] > 0
      /\ freeIdx' = [freeIdx EXCEPT ![s] = @ - 1]
      /\ count' = [count EXCEPT !.accepts = @ + 1]
      /\ opened' = opened \cup {count.accepts + 1}
      /\ cur' = [cur EXCEPT ![t] = s] /\ Enter(t, "init_id", <<>>)
      /\ UNCHANGED <<life, send, sock, id, msg, recvPend, sendPend, cq, gone, events, freed,
                     drift>>
  BY DEF Accept
<1>2. CountOK' /\ count.accepts \in Nat /\ count'.accepts = count.accepts + 1
  <2>1. CountOK /\ count.accepts \in Nat
    BY DEF Typed, CountOK
  <2>2. count'.accepts = count.accepts + 1
    BY <1>1, <2>1 DEF CountOK
  <2>3. PICK a : a = count.accepts + 1
    OBVIOUS
  <2>4. CountOK'
    <3>1. a \in Nat /\ count' = [count EXCEPT !.accepts = a]
      BY <1>1, <2>1, <2>3
    <3> QED
      BY <2>1, <3>1 DEF CountOK
  <2> QED
    BY <2>1, <2>2, <2>4
<1>3. LifeType'
  BY <1>1 DEF Typed, TypeOK, LifeType, life
<1>4. CallType' /\ NetType'
  BY <1>1, <1>2 DEF Typed, TypeOK, CallType, NetType
<1>5. Settle(t) /\ pc'[t] = "init_id" /\ ret'[t] = <<>>
  <2>1. "init_id" \in Points /\ <<>> \in Seq(ReturnPoints)
    BY DEF Points, InitPoints
  <2> QED
    BY <1>1, <2>1, EnterIs DEF Typed
<1>6. Apart(t)
  BY <1>1, <1>5 DEF Apart, Using
<1>7. Typed'
  BY <1>1, <1>2, <1>3, <1>4, <1>5, <1>6, TypedBy
<1> QED
  BY <1>1, <1>2, <1>5, <1>7 DEF life, events

(* Initialize writes the session number.                                    *)
LEMMA InitIDTyped ==
  ASSUME Typed, NEW t \in Threads, InitID(t)
  PROVE  /\ Typed' /\ Settle(t) /\ pc[t] = "init_id" /\ pc'[t] = "init_io"
         /\ sessionID' = [sessionID EXCEPT ![cur[t]] = count.accepts]
         /\ UNCHANGED <<releaseFlag, freeIdx, cur, count, recvPend, sendPend, cq, posted>>
<1>1. /\ pc[t] = "init_id" /\ Goto(t, "init_io")
      /\ sessionID' = [sessionID EXCEPT ![cur[t]] = count.accepts]
      /\ UNCHANGED <<ioCount, releaseFlag, send, sock, freeIdx, call, net, log>>
  BY DEF InitID
<1>2. count.accepts \in Nat
  BY DEF Typed, CountOK
<1>3. LifeType'
  BY <1>1, <1>2 DEF Typed, TypeOK, LifeType, log
<1>4. Settle(t) /\ pc'[t] = "init_io" /\ ret' = ret
  BY <1>1, GotoIs DEF Typed, Points, InitPoints
<1>5. Apart(t)
  BY <1>1, <1>4 DEF Apart, Using, Typed, Returns, call
<1>6. Typed'
  BY <1>1, <1>3, <1>4, <1>5, TypedBy DEF log
<1> QED
  BY <1>1, <1>4, <1>6 DEF call, net, log, events

(* Initialize counts the reference of the accept.                           *)
LEMMA InitIOTyped ==
  ASSUME Typed, NEW t \in Threads, InitIO(t)
  PROVE  /\ Typed' /\ Settle(t) /\ pc[t] = "init_io" /\ pc'[t] = "init_flag"
         /\ count'.accepts = count.accepts
         /\ UNCHANGED <<sessionID, releaseFlag, freeIdx, cur, recvPend, sendPend, cq, posted>>
<1>1. /\ pc[t] = "init_io" /\ Goto(t, "init_flag")
      /\ ioCount' = [ioCount EXCEPT ![cur[t]] = 0]
      /\ drift' = [drift EXCEPT ![cur[t]] = - Holds(cur[t])]
      /\ UNCHANGED <<sessionID, releaseFlag, send, sock, freeIdx, call, net, events, freed>>
  BY DEF InitIO
<1>2. cur[t] \in Slots /\ Holds(cur[t]) \in Int
  BY HoldsType DEF Typed, TypeOK, CallType
<1>3. LifeType'
  BY <1>1, <1>2 DEF Typed, TypeOK, LifeType
<1>4. CountOK' /\ count'.accepts = count.accepts
  <2>1. PICK l \in Nat : count' = [count EXCEPT !.late = l]
    <3>1. (IF count.late = 0 /\ LateCall(cur[t]) THEN count.accepts ELSE count.late) \in Nat
      BY DEF Typed, CountOK
    <3> QED
      BY <3>1 DEF InitIO
  <2> QED
    BY <2>1 DEF Typed, CountOK
<1>5. Settle(t) /\ pc'[t] = "init_flag" /\ ret' = ret
  BY <1>1, GotoIs DEF Typed, Points, InitPoints
<1>6. Apart(t)
  BY <1>1, <1>5 DEF Apart, Using, Typed, Returns, call
<1>7. Typed'
  BY <1>1, <1>3, <1>4, <1>5, <1>6, TypedBy
<1> QED
  BY <1>1, <1>4, <1>5, <1>7 DEF call, net, events

(* Initialize clears the release flag.                                      *)
LEMMA InitFlagTyped ==
  ASSUME Typed, NEW t \in Threads, InitFlag(t)
  PROVE  /\ Typed' /\ Settle(t) /\ pc[t] = "init_flag" /\ pc'[t] = "init_rest"
         /\ releaseFlag' = [releaseFlag EXCEPT ![cur[t]] = FALSE]
         /\ UNCHANGED <<sessionID, freeIdx, cur, count, recvPend, sendPend, cq, posted>>
<1>1. /\ pc[t] = "init_flag" /\ Goto(t, "init_rest")
      /\ releaseFlag' = [releaseFlag EXCEPT ![cur[t]] = FALSE]
      /\ UNCHANGED <<sessionID, ioCount, send, sock, freeIdx, call, net, log>>
  BY DEF InitFlag
<1>2. LifeType'
  BY <1>1 DEF Typed, TypeOK, LifeType, log
<1>3. Settle(t) /\ pc'[t] = "init_rest" /\ ret' = ret
  BY <1>1, GotoIs DEF Typed, Points, OtherPoints
<1>4. Apart(t)
  BY <1>1, <1>3 DEF Apart, Using, Typed, Returns, call
<1>5. Typed'
  BY <1>1, <1>2, <1>3, <1>4, TypedBy DEF log
<1> QED
  BY <1>1, <1>3, <1>5 DEF call, net, log, events

(* The accept thread after the flag is cleared.                             *)
LEMMA AcceptMoves ==
  ASSUME Typed, NEW t \in Threads, InitRest(t) \/ AcceptHold(t) \/ AcceptJoin(t)
  PROVE  Typed' /\ Moves(t)
<1> USE DEF Inside, GoesOn, Elsewhere, Using, HoldPoints, OtherPoints
<1>1. CASE InitRest(t)
  <2>1. count.accepts \in Nat /\ <<>> \in Seq(Msgs)
    BY DEF Typed, CountOK
  <2>2. SendType'
    BY <1>1, <2>1 DEF InitRest, Typed, TypeOK, SendType
  <2>3. SockType'
    BY <1>1, <2>1 DEF InitRest, Typed, TypeOK, SockType
  <2>4. Inside(t) /\ GoesOn(t)
    BY <1>1 DEF InitRest
  <2> QED
    BY <1>1, <2>2, <2>3, <2>4, MovedBy DEF InitRest, life, call, net, events, log
<1>2. CASE AcceptHold(t)
  BY <1>2, CountMoves DEF AcceptHold, Hold
<1>3. CASE AcceptJoin(t)
  <2>1. sessionID[cur[t]] \in Nat
    BY DEF Typed, TypeOK, LifeType, CallType
  <2>2. EventType' /\ SlotsOf(posted') = SlotsOf(posted) \cup {cur[t]}
    BY <1>3, <2>1, PostIs DEF AcceptJoin, Typed
  <2>3. Pending' \subseteq Pending \cup {cur[t]}
    BY <1>3, <2>2 DEF AcceptJoin, Pending, net
  <2>4. Inside(t) /\ GoesOn(t)
    BY <1>3 DEF AcceptJoin
  <2> QED
    BY <1>3, <2>2, <2>3, <2>4, MovedBy DEF AcceptJoin, life, call, net
<1> QED
  BY <1>1, <1>2, <1>3

-----------------------------------------------------------------------------
(* Calls that begin, by a completion or by the content: they are about a   *)
(* session that the port or a callback has named.                          *)
Begins(t) ==
  /\ Settle(t) /\ pc[t] = "idle" /\ pc'[t] \notin InitPoints \cup ReleasePoints
  /\ \E s \in Slots : /\ s \in Pending /\ cur' = [cur EXCEPT ![t] = s]
                      /\ Pending' \subseteq Pending
  /\ UNCHANGED <<sessionID, releaseFlag, freeIdx>> /\ count'.accepts = count.accepts

(* Steps of the environment, and calls that end at once.                   *)
Rests ==
  /\ UNCHANGED <<pc, ret, cur, msg, sessionID, releaseFlag, freeIdx>>
  /\ count'.accepts = count.accepts /\ Pending' \subseteq Pending

(* An input is counted.                                                     *)
LEMMA CountUp ==
  ASSUME CountOK, NEW a \in Nat,
         \/ count' = [count EXCEPT !.blocked = a]
         \/ count' = [count EXCEPT !.recvs = a]
         \/ count' = [count EXCEPT !.disconnects = a]
  PROVE  CountOK' /\ count'.accepts = count.accepts
BY DEF CountOK

(* A worker takes the head of the port.                                     *)
LEMMA TakeIs ==
  ASSUME Typed, NEW t \in Threads, NEW k \in Kinds, Take(t, k)
  PROVE  /\ pc[t] = "idle" /\ Head(cq).slot \in Slots /\ Head(cq).slot \in SlotsOf(cq)
         /\ cur' = [cur EXCEPT ![t] = Head(cq).slot] /\ cur' \in [Threads -> Slots]
         /\ cq' \in Seq([kind : Kinds, slot : Slots]) /\ SlotsOf(cq') \subseteq SlotsOf(cq)
<1> DEFINE R == [kind : Kinds, slot : Slots]
<1>1. cq \in Seq(R) /\ cq # <<>> /\ cq' = Tail(cq)
  BY DEF Take, Typed, TypeOK, NetType, Kinds
<1>2. \A e \in R : e.slot \in Slots
  OBVIOUS
<1> HIDE DEF R
<1>3. /\ Head(cq) \in R /\ cq' \in Seq(R) /\ Head(cq).slot \in SlotsOf(cq)
      /\ SlotsOf(cq') \subseteq SlotsOf(cq)
  BY <1>1, Shortened
<1>4. cur \in [Threads -> Slots]
  BY DEF Typed, TypeOK, CallType
<1> QED
  BY <1>2, <1>3, <1>4 DEF Take, R

(* A completion whose handler begins elsewhere than in StartUseSession.    *)
LEMMA WorkBegins ==
  ASSUME Typed, NEW t \in Threads, WorkerEnd(t) \/ WorkerRequest(t) \/ WorkerSent(t)
  PROVE  Typed' /\ Begins(t)
<1>1. PICK k \in Kinds : Take(t, k)
  BY DEF WorkerEnd, WorkerRequest, WorkerSent, Sent, Kinds
<1>2. /\ pc[t] = "idle" /\ Head(cq).slot \in Slots /\ Head(cq).slot \in SlotsOf(cq)
      /\ cur' = [cur EXCEPT ![t] = Head(cq).slot] /\ cur' \in [Threads -> Slots]
      /\ cq' \in Seq([kind : Kinds, slot : Slots]) /\ SlotsOf(cq') \subseteq SlotsOf(cq)
  BY <1>1, TakeIs
<1>3. UNCHANGED <<life, freeIdx, id, msg, recvPend, sendPend, gone, opened, events, drift, count>>
  BY DEF WorkerEnd, WorkerRequest, WorkerSent, Sent, log
<1>4. \/ Enter(t, "dec", <<>>) \/ Enter(t, "sp_discon", <<"dec">>)
      \/ Enter(t, "sc_flag", <<>>)
  BY DEF WorkerEnd, WorkerRequest, WorkerSent, Sent
<1>5. /\ Settle(t) /\ pc'[t] \in {"dec", "sp_discon", "sc_flag"}
      /\ ret'[t] \in {<<>>, <<"dec">>}
  <2>1. {"dec", "sp_discon", "sc_flag"} \subseteq Points
    BY DEF Points, HoldPoints, OtherPoints
  <2>2. <<>> \in Seq(ReturnPoints) /\ <<"dec">> \in Seq(ReturnPoints)
    BY DEF ReturnPoints
  <2> QED
    BY <1>4, <2>1, <2>2, EnterIs DEF Typed
<1>6. Apart(t)
  <2>1. \A q \in {<<>>, <<"dec">>} : \A i \in DOMAIN q : q[i] # "snd_check"
    OBVIOUS
  <2> QED
    BY <1>3, <1>5, <2>1 DEF Apart, Using
<1>7. CallType' /\ NetType'
  BY <1>2, <1>3 DEF Typed, TypeOK, CallType, NetType, Kinds
<1>8. SockType'
  BY <1>2 DEF WorkerEnd, WorkerRequest, WorkerSent, Sent, sock, Typed, TypeOK, SockType
<1>9. SendType' /\ freed' \in [Msgs -> Nat]
  <2>1. CASE UNCHANGED <<send, freed>>
    BY <2>1 DEF send, Typed, TypeOK, SendType
  <2>2. CASE WorkerSent(t)
    <3>1. /\ SubRefAll(sending[Head(cq).slot])
          /\ sending' = [sending EXCEPT ![Head(cq).slot] = <<>>]
          /\ UNCHANGED <<sendFlag, sendQ>>
      BY <2>2 DEF WorkerSent, Sent
    <3>2. sending[Head(cq).slot] \in Seq(Msgs) /\ <<>> \in Seq(Msgs)
      BY <1>2 DEF Typed, TypeOK, SendType
    <3> QED
      BY <1>2, <3>1, <3>2, SubRefAllType DEF Typed, TypeOK, SendType
  <2> QED
    BY <2>1, <2>2 DEF WorkerEnd, WorkerRequest, log
<1>10. Typed'
  BY <1>3, <1>5, <1>6, <1>7, <1>8, <1>9, TypedBy
<1> QED
  BY <1>2, <1>3, <1>5, <1>10
     DEF Begins, InitPoints, ReleasePoints, Pending, life, events

(* A thread that enters StartUseSession.                                   *)
LEMMA UseBegins ==
  ASSUME Typed, NEW t \in Threads, NEW after \in Seq(ReturnPoints), after # <<>>,
         \A i \in DOMAIN after : after[i] = "snd_check" => i = 1 /\ msg'[t] # 0,
         \A u \in Threads : u # t => msg'[u] = msg[u],
         Enter(t, "use_inc", after)
  PROVE  Settle(t) /\ pc'[t] = "use_inc" /\ Returns'
<1>1. Settle(t) /\ pc'[t] = "use_inc" /\ ret'[t] = after
  BY EnterIs DEF Typed, Points, OtherPoints
<1> QED
  BY <1>1 DEF Typed, Returns, Settle, Using

(* A worker begins with a receive completion.                               *)
LEMMA RecvBegins ==
  ASSUME Typed, NEW t \in Threads, WorkerRecv(t)
  PROVE  Typed' /\ Begins(t)
<1> DEFINE s == Head(cq).slot
<1>1. Take(t, "recv") /\ "recv" \in Kinds
  BY DEF WorkerRecv, Kinds
<1>2. /\ pc[t] = "idle" /\ s \in Slots /\ s \in SlotsOf(cq)
      /\ cur' = [cur EXCEPT ![t] = s] /\ cur' \in [Threads -> Slots]
      /\ cq' \in Seq([kind : Kinds, slot : Slots]) /\ SlotsOf(cq') \subseteq SlotsOf(cq)
  BY <1>1, TakeIs
<1> HIDE DEF s
<1>3. UNCHANGED <<life, send, sock, freeIdx, msg, recvPend, sendPend, gone, opened,
                  taken, freed, drift>>
  BY DEF WorkerRecv
<1>4. sessionID[s] \in Nat /\ NetType'
  BY <1>2, <1>3 DEF Typed, TypeOK, LifeType, NetType, Kinds
<1>5. <<"dec">> \in Seq(ReturnPoints) /\ \A i \in DOMAIN <<"dec">> : <<"dec">>[i] = "dec"
  BY DEF ReturnPoints
<1>6. /\ <<"dis_check", "rp_discon", "dec">> \in Seq(ReturnPoints)
      /\ <<"dis_check", "rp_discon", "dec">> # <<>>
      /\ \A i \in DOMAIN <<"dis_check", "rp_discon", "dec">> :
           <<"dis_check", "rp_discon", "dec">>[i] # "snd_check"
  BY DEF ReturnPoints
<1>7. CASE /\ Enter(t, "rp_discon", <<"dec">>) /\ UNCHANGED <<id, count>>
           /\ \/ UNCHANGED posted
              \/ posted' = Append(posted, [kind |-> "recv", slot |-> s, conn |-> sessionID[s]])
  <2>1. EventType' /\ SlotsOf(posted') \subseteq SlotsOf(posted) \cup {s}
    <3>1. CASE UNCHANGED posted
      BY <1>3, <3>1 DEF Typed, TypeOK, EventType
    <3>2. CASE posted' = Append(posted, [kind |-> "recv", slot |-> s, conn |-> sessionID[s]])
      <4> DEFINE R == [kind : {"join", "recv", "leave"}, slot : Slots, conn : Nat]
      <4>1. PICK e : e = [kind |-> "recv", slot |-> s, conn |-> sessionID[s]]
        OBVIOUS
      <4>2. e \in R /\ e.slot = s
        BY <1>2, <1>4, <4>1
      <4>3. posted \in Seq(R) /\ taken \in Nat /\ posted' = Append(posted, e)
        BY <3>2, <4>1 DEF Typed, TypeOK, EventType
      <4> HIDE DEF R
      <4>4. posted' \in Seq(R) /\ SlotsOf(posted') = SlotsOf(posted) \cup {s}
        BY <4>2, <4>3, Appended
      <4> QED
        BY <1>3, <4>3, <4>4 DEF R, EventType
    <3> QED
      BY <1>7, <3>1, <3>2
  <2>2. Settle(t) /\ pc'[t] = "rp_discon" /\ ret'[t] = <<"dec">>
    BY <1>5, <1>7, EnterIs DEF Typed, Points, OtherPoints
  <2>3. Apart(t)
    BY <1>3, <1>5, <2>2 DEF Apart, Using
  <2>4. CallType'
    BY <1>2, <1>3, <1>7 DEF Typed, TypeOK, CallType
  <2>5. Typed'
    BY <1>3, <1>4, <1>7, <2>1, <2>2, <2>3, <2>4, TypedBy
  <2> QED
    BY <1>2, <1>3, <1>7, <2>1, <2>2, <2>5
       DEF Begins, InitPoints, ReleasePoints, Pending, life
<1>8. CASE /\ count' = [count EXCEPT !.disconnects = @ + 1]
           /\ id' = [id EXCEPT ![t] = sessionID[s]]
           /\ Enter(t, "use_inc", <<"dis_check", "rp_discon", "dec">>)
           /\ UNCHANGED posted
  <2>1. CountOK' /\ count'.accepts = count.accepts
    <3>1. PICK a : a = count.disconnects + 1
      OBVIOUS
    <3>2. a \in Nat /\ count' = [count EXCEPT !.disconnects = a]
      BY <1>8, <3>1 DEF Typed, CountOK
    <3> QED
      BY <3>2, CountUp DEF Typed
  <2>2. Settle(t) /\ pc'[t] = "use_inc" /\ Returns'
    BY <1>3, <1>6, <1>8, UseBegins
  <2>3. CallType'
    BY <1>2, <1>3, <1>4, <1>8 DEF Typed, TypeOK, CallType
  <2>4. Typed'
    BY <1>3, <1>4, <1>8, <2>1, <2>2, <2>3, TypedBy DEF events
  <2> QED
    BY <1>2, <1>3, <1>8, <2>1, <2>2, <2>4
       DEF Begins, InitPoints, ReleasePoints, Pending, life
<1> QED
  BY <1>7, <1>8 DEF WorkerRecv, s

(* The content knows only slots that a callback has named.                 *)
LEMMA KnownIs ==
  ASSUME Typed, NEW k \in Known
  PROVE  k.slot \in Slots /\ k.conn \in Nat /\ k.slot \in Pending
<1>1. /\ posted \in Seq([kind : {"join", "recv", "leave"}, slot : Slots, conn : Nat])
      /\ taken \in Nat
  BY DEF Typed, TypeOK, EventType
<1>2. PICK i \in DOMAIN posted : k = [slot |-> posted[i].slot, conn |-> posted[i].conn]
  BY DEF Known
<1>3. posted[i] \in [kind : {"join", "recv", "leave"}, slot : Slots, conn : Nat]
  BY <1>1, LenProperties
<1>4. k.slot = posted[i].slot /\ k.conn = posted[i].conn
  BY <1>2
<1>5. posted[i].slot \in SlotsOf(posted)
  BY DEF SlotsOf
<1> QED
  BY <1>3, <1>4, <1>5 DEF Pending

(* The content thread begins a call, or is refused at once.                 *)
LEMMA ContentBegins ==
  ASSUME Typed, NEW t \in Threads, NEW k \in Known,
         SendPacket(t, k.slot, k.conn) \/ Disconnect(t, k.slot, k.conn)
  PROVE  Typed' /\ (Begins(t) \/ Rests)
<1>1. k.slot \in Slots /\ k.conn \in Nat /\ k.slot \in Pending
  BY KnownIs
<1>2. CallType /\ CountOK /\ MaxMsgs \in Nat
  BY BoundsAssumption DEF Typed, TypeOK
<1>3. CASE Disconnect(t, k.slot, k.conn)
  <2>1. /\ pc[t] = "idle" /\ count' = [count EXCEPT !.disconnects = @ + 1]
        /\ cur' = [cur EXCEPT ![t] = k.slot] /\ id' = [id EXCEPT ![t] = k.conn]
        /\ Enter(t, "use_inc", <<"dis_check">>)
        /\ UNCHANGED <<life, send, sock, freeIdx, msg, net, events, freed, drift>>
    BY <1>3 DEF Disconnect
  <2>2. CountOK' /\ count'.accepts = count.accepts
    <3>1. PICK a : a = count.disconnects + 1
      OBVIOUS
    <3>2. a \in Nat /\ count' = [count EXCEPT !.disconnects = a]
      BY <1>2, <2>1, <3>1 DEF CountOK
    <3> QED
      BY <1>2, <3>2, CountUp
  <2>3. /\ <<"dis_check">> \in Seq(ReturnPoints) /\ <<"dis_check">> # <<>>
        /\ \A i \in DOMAIN <<"dis_check">> : <<"dis_check">>[i] # "snd_check"
    BY DEF ReturnPoints
  <2>4. Settle(t) /\ pc'[t] = "use_inc" /\ Returns'
    BY <2>1, <2>3, UseBegins
  <2>5. CallType'
    BY <1>1, <1>2, <2>1 DEF CallType
  <2>6. Typed'
    BY <2>1, <2>2, <2>4, <2>5, TypedBy
  <2>7. Begins(t)
    BY <1>1, <2>1, <2>2, <2>4
       DEF Begins, InitPoints, ReleasePoints, Pending, life, net, events
  <2> QED
    BY <2>6, <2>7
<1>4. CASE SendPacket(t, k.slot, k.conn)
  <2>1. PICK m : m = count.msgs + 1
    OBVIOUS
  <2>2. /\ pc[t] = "idle" /\ m \in Msgs
        /\ count' = [count EXCEPT !.msgs = m, !.to = Append(@, k.conn)]
        /\ UNCHANGED <<life, send, sock, freeIdx, net, events, drift>>
    BY <1>4, <2>1 DEF SendPacket
  <2>3. m \in Nat /\ m # 0 /\ m \in 0 .. MaxMsgs
    BY <1>2, <2>2 DEF Msgs
  <2>4. CountOK' /\ count'.accepts = count.accepts
    <3>1. PICK q : q = Append(count.to, k.conn)
      OBVIOUS
    <3>2. q \in Seq(Nat) /\ count' = [count EXCEPT !.msgs = m, !.to = q]
      <4>1. count.to \in Seq(Nat)
        BY <1>2 DEF CountOK
      <4> QED
        BY <1>1, <1>2, <2>2, <3>1, <4>1, AppendProperties DEF CountOK
    <3> QED
      BY <1>2, <2>3, <3>2 DEF CountOK
  <2>5. CASE /\ cur' = [cur EXCEPT ![t] = k.slot] /\ id' = [id EXCEPT ![t] = k.conn]
             /\ msg' = [msg EXCEPT ![t] = m] /\ Enter(t, "use_inc", <<"snd_check">>)
             /\ UNCHANGED freed
    <3>1. <<"snd_check">> \in Seq(ReturnPoints) /\ <<"snd_check">> # <<>>
      BY DEF ReturnPoints
    <3>2. \A i \in DOMAIN <<"snd_check">> : i = 1
      OBVIOUS
    <3>3. msg'[t] # 0 /\ \A u \in Threads : u # t => msg'[u] = msg[u]
      BY <1>2, <2>3, <2>5 DEF CallType
    <3>4. Settle(t) /\ pc'[t] = "use_inc" /\ Returns'
      BY <2>5, <3>1, <3>2, <3>3, UseBegins
    <3>5. CallType'
      BY <1>1, <1>2, <2>3, <2>5 DEF CallType
    <3>6. Typed'
      BY <2>2, <2>4, <2>5, <3>4, <3>5, TypedBy
    <3>7. Begins(t)
      BY <1>1, <2>2, <2>4, <2>5, <3>4
         DEF Begins, InitPoints, ReleasePoints, Pending, life, net, events
    <3> QED
      BY <3>6, <3>7
  <2>6. CASE SubRefAll(<<m>>) /\ UNCHANGED <<control, call>>
    <3>1. <<m>> \in Seq(Nat)
      BY <2>3
    <3>2. freed' \in [Msgs -> Nat]
      BY <2>6, <3>1, SubRefAllType DEF Typed
    <3>3. Settle(t) /\ Returns'
      BY <2>6 DEF Settle, Typed, TypeOK, ControlType, Returns, control, call
    <3>4. Typed'
      BY <2>2, <2>4, <2>6, <3>2, <3>3, TypedBy
    <3>5. Rests
      BY <2>2, <2>4, <2>6 DEF Rests, control, call, life, net, events, Pending
    <3> QED
      BY <3>4, <3>5
  <2> QED
    BY <1>4, <2>1, <2>5, <2>6 DEF SendPacket
<1> QED
  BY <1>3, <1>4

(* The kernel, the peers, a connection that is turned away, and a callback *)
(* that the content takes note of.                                         *)
LEMMA WorldRests ==
  ASSUME Typed,
         \/ \E s \in Slots : Kernel(s) \/ PeerSends(s)
         \/ \E n \in Conns : PeerLeaves(n)
         \/ \E t \in Threads : AcceptBlocked(t)
         \/ TakeEvent
  PROVE  Typed' /\ Rests
<1>1. CASE \E s \in Slots : Kernel(s) \/ PeerSends(s)
  <2>1. PICK s \in Slots, k \in Kinds :
          /\ s \in recvPend \cup sendPend /\ Queue(k, s)
          /\ recvPend' \subseteq recvPend /\ sendPend' \subseteq sendPend
    BY <1>1 DEF Kernel, RecvEnds, SendDone, PeerSends, Kinds
  <2>2. /\ cq' \in Seq([kind : Kinds, slot : Slots])
        /\ SlotsOf(cq') = SlotsOf(cq) \cup {s}
    BY <2>1, QueueIs DEF Typed
  <2>3. UNCHANGED <<life, send, sock, freeIdx, control, call, gone, opened, events, freed, drift>>
    BY <1>1 DEF Kernel, RecvEnds, SendDone, PeerSends, log
  <2>4. CountOK' /\ count'.accepts = count.accepts
    <3>1. CASE UNCHANGED count
      BY <3>1 DEF Typed, CountOK
    <3>2. CASE count' = [count EXCEPT !.recvs = @ + 1]
      <4>1. PICK a : a = count.recvs + 1
        OBVIOUS
      <4>2. a \in Nat /\ count' = [count EXCEPT !.recvs = a]
        BY <3>2, <4>1 DEF Typed, CountOK
      <4> QED
        BY <4>2, CountUp DEF Typed
    <3> QED
      BY <1>1, <3>1, <3>2 DEF Kernel, RecvEnds, SendDone, PeerSends, log
  <2>5. NetType'
    BY <2>1, <2>2, <2>3 DEF Typed, TypeOK, NetType, Kinds
  <2>6. ControlType' /\ Returns'
    BY <2>3 DEF Typed, TypeOK, ControlType, Returns, control, call
  <2>7. TypeOK'
    BY <2>3, <2>5, <2>6, TypesKept DEF Typed, TypeOK
  <2> QED
    BY <2>1, <2>2, <2>3, <2>4, <2>6, <2>7
       DEF Typed, Rests, Pending, control, call, life, events
<1>2. CASE \E n \in Conns : PeerLeaves(n)
  <2>1. PICK n \in Conns : PeerLeaves(n)
    BY <1>2
  <2>2. UNCHANGED <<life, send, sock, freeIdx, control, call, recvPend, sendPend, cq, opened,
                    log>>
    BY <2>1 DEF PeerLeaves
  <2>3. gone' \subseteq Nat
    BY <2>1, BoundsAssumption DEF PeerLeaves, Conns, Typed, TypeOK, NetType
  <2>4. NetType'
    BY <2>2, <2>3 DEF Typed, TypeOK, NetType
  <2>5. ControlType' /\ Returns' /\ CountOK'
    BY <2>2 DEF Typed, TypeOK, ControlType, Returns, CountOK, control, call, log
  <2>6. TypeOK'
    BY <2>2, <2>4, <2>5, TypesKept DEF Typed, TypeOK, log
  <2> QED
    BY <2>2, <2>5, <2>6 DEF Typed, Rests, Pending, control, call, life, log, events
<1>3. CASE \E t \in Threads : AcceptBlocked(t)
  <2>1. /\ count' = [count EXCEPT !.blocked = @ + 1]
        /\ UNCHANGED <<life, send, sock, freeIdx, control, call, net, events, freed, drift>>
    BY <1>3 DEF AcceptBlocked
  <2>2. CountOK' /\ count'.accepts = count.accepts
    <3>1. PICK a : a = count.blocked + 1
      OBVIOUS
    <3>2. a \in Nat /\ count' = [count EXCEPT !.blocked = a]
      BY <2>1, <3>1 DEF Typed, CountOK
    <3> QED
      BY <3>2, CountUp DEF Typed
  <2>3. ControlType' /\ Returns'
    BY <2>1 DEF Typed, TypeOK, ControlType, Returns, control, call
  <2>4. TypeOK'
    BY <2>1, <2>3, TypesKept DEF Typed, TypeOK
  <2> QED
    BY <2>1, <2>2, <2>3, <2>4 DEF Typed, Rests, Pending, control, call, life, net, events
<1>4. CASE TakeEvent
  <2>1. /\ taken' = taken + 1
        /\ UNCHANGED <<life, send, sock, freeIdx, control, call, net, posted, freed, drift,
                       count>>
    BY <1>4 DEF TakeEvent
  <2>2. EventType'
    BY <2>1 DEF Typed, TypeOK, EventType
  <2>3. ControlType' /\ Returns' /\ CountOK'
    BY <2>1 DEF Typed, TypeOK, ControlType, Returns, CountOK, control, call
  <2>4. TypeOK'
    BY <2>1, <2>2, <2>3, TypesKept DEF Typed, TypeOK
  <2> QED
    BY <2>1, <2>3, <2>4 DEF Typed, Rests, Pending, control, call, life, net
<1> QED
  BY <1>1, <1>2, <1>3, <1>4

-----------------------------------------------------------------------------
(* The owners of an index, as one thread moves.                            *)
LEMMA MoveCard ==
  ASSUME NEW S \in SUBSET Threads, NEW U \in SUBSET Threads, NEW t \in Threads,
         \A u \in Threads : u # t => (u \in S <=> u \in U)
  PROVE  /\ Cardinality(S) \in Nat /\ Cardinality(U) \in Nat
         /\ Cardinality(U) + (IF t \in S THEN 1 ELSE 0)
              = Cardinality(S) + (IF t \in U THEN 1 ELSE 0)
<1>1. /\ IsFiniteSet(S) /\ Cardinality(S) \in Nat
      /\ IsFiniteSet(U) /\ Cardinality(U) \in Nat
  BY ThreadsFinite, FS_Subset, FS_CardinalityType
<1>2. CASE t \in S <=> t \in U
  <2>1. U = S
    BY <1>2
  <2> QED
    BY <1>1, <1>2, <2>1
<1>3. CASE t \notin S /\ t \in U
  <2>1. U = S \cup {t}
    BY <1>3
  <2>2. Cardinality(U) = Cardinality(S) + 1
    BY <1>1, <1>3, <2>1, FS_AddElement
  <2> QED
    BY <1>1, <1>3, <2>2
<1>4. CASE t \in S /\ t \notin U
  <2>1. S = U \cup {t}
    BY <1>4
  <2>2. Cardinality(S) = Cardinality(U) + 1
    BY <1>1, <1>4, <2>1, FS_AddElement
  <2> QED
    BY <1>1, <1>4, <2>2
<1> QED
  BY <1>2, <1>3, <1>4

(* The threads that own a slot are finitely many.                           *)
LEMMA OwnersCount ==
  ASSUME NEW s \in Slots, NEW P
  PROVE  /\ Cardinality(Owners(s, P)) \in Nat
         /\ (Cardinality(Owners(s, P)) = 0 <=> Owners(s, P) = {})
<1>1. Owners(s, P) \in SUBSET Threads
  BY DEF Owners
<1> QED
  BY <1>1, ThreadsFinite, FS_Subset, FS_CardinalityType, FS_EmptySet

(* The part of the invariant that is about owners.                         *)
Owned == Numbered /\ Settled /\ SlotOwnership

(* A step that moves no index from one owner to another keeps it.          *)
LEMMA OwnedBy ==
  ASSUME Typed, Owned, NEW t \in Threads, Settle(t),
         \A s \in Slots : /\ Owners(s, InitPoints)' = Owners(s, InitPoints)
                          /\ Owners(s, ReleasePoints)' = Owners(s, ReleasePoints),
         pc'[t] \notin InitPoints,
         \A u \in Threads : u # t => cur'[u] = cur[u],
         UNCHANGED <<sessionID, releaseFlag, freeIdx>>, count'.accepts = count.accepts,
         cur'[t] \in Slots, Busy(t)' => Touched(cur'[t]), Pending' \subseteq Pending \cup {cur'[t]},
         Pending' \subseteq Pending \/ Touched(cur'[t])
  PROVE  Owned'
<1>1. \A s \in Slots : Live(s)' <=> Live(s)
  BY DEF Live
<1>2. SlotOwnership'
  BY <1>1 DEF Owned, SlotOwnership
<1>3. Numbered'
  BY DEF Owned, Numbered, Settle, InitPoints
<1>4. ASSUME NEW s \in Slots, Touched(s)' PROVE Touched(s)
  <2>1. CASE s \in Pending'
    BY <2>1 DEF Touched
  <2>2. ASSUME NEW u \in Threads, cur'[u] = s, Busy(u)' PROVE Touched(s)
    BY <2>2 DEF Touched, Busy, Settle
  <2> QED
    BY <1>4, <2>1, <2>2 DEF Touched
<1>5. Settled'
  BY <1>1, <1>4 DEF Owned, Settled
<1> QED
  BY <1>2, <1>3, <1>5 DEF Owned

(* A step inside a call changes no owner.                                   *)
LEMMA MovesOwned ==
  ASSUME Typed, Owned, NEW t \in Threads, Moves(t)
  PROVE  Owned'
<1>1. /\ Settle(t) /\ Busy(t) /\ pc'[t] \notin InitPoints /\ pc[t] \notin InitPoints
      /\ (pc'[t] \in ReleasePoints <=> pc[t] \in ReleasePoints)
      /\ UNCHANGED <<sessionID, releaseFlag, freeIdx, cur, count>>
      /\ Pending' \subseteq Pending \cup {cur[t]} /\ cur[t] \in Slots
  BY DEF Moves, Busy, Typed, TypeOK, CallType
<1>2. \A s \in Slots : /\ Owners(s, InitPoints)' = Owners(s, InitPoints)
                       /\ Owners(s, ReleasePoints)' = Owners(s, ReleasePoints)
  BY <1>1 DEF Owners, Settle
<1>3. Touched(cur[t])
  BY <1>1 DEF Touched
<1> QED
  BY <1>1, <1>2, <1>3, OwnedBy

(* A step that begins a call changes no owner.                              *)
LEMMA BeginsOwned ==
  ASSUME Typed, Owned, NEW t \in Threads, Begins(t)
  PROVE  Owned'
<1>1. PICK s \in Slots : s \in Pending /\ cur' = [cur EXCEPT ![t] = s] /\ Pending' \subseteq Pending
  BY DEF Begins
<1>2. /\ Settle(t) /\ pc[t] = "idle" /\ pc'[t] \notin InitPoints \cup ReleasePoints
      /\ UNCHANGED <<sessionID, releaseFlag, freeIdx>> /\ count'.accepts = count.accepts
      /\ cur'[t] = s /\ \A u \in Threads : u # t => cur'[u] = cur[u]
  BY <1>1 DEF Begins, Typed, TypeOK, CallType
<1>3. pc[t] \notin InitPoints \cup ReleasePoints
  BY <1>2 DEF InitPoints, ReleasePoints
<1>4. \A r \in Slots : /\ Owners(r, InitPoints)' = Owners(r, InitPoints)
                       /\ Owners(r, ReleasePoints)' = Owners(r, ReleasePoints)
  BY <1>2, <1>3 DEF Owners, Settle
<1>5. Touched(s)
  BY <1>1 DEF Touched
<1> QED
  BY <1>1, <1>2, <1>4, <1>5, OwnedBy

(* A step of no thread changes no owner.                                    *)
LEMMA RestsOwned ==
  ASSUME Typed, Owned, Rests
  PROVE  Owned'
<1>1. \A s \in Slots : Live(s)' <=> Live(s)
  BY DEF Rests, Live, Owners
<1>2. SlotOwnership'
  BY <1>1 DEF Owned, SlotOwnership, Rests, Owners
<1>3. Numbered' /\ Settled'
  BY <1>1 DEF Owned, Numbered, Settled, Touched, Busy, Rests
<1> QED
  BY <1>2, <1>3 DEF Owned

(* What an index has in the sum, and what a live session has.              *)
LEMMA OneOwner ==
  ASSUME Typed, SlotOwnership, NEW s \in Slots
  PROVE  /\ freeIdx[s] \in Nat
         /\ Live(s) => /\ freeIdx[s] = 0 /\ Owners(s, InitPoints) = {}
                       /\ Owners(s, ReleasePoints) = {}
         /\ Owners(s, InitPoints) # {} =>
              /\ freeIdx[s] = 0 /\ ~Live(s) /\ Owners(s, ReleasePoints) = {}
              /\ Cardinality(Owners(s, InitPoints)) = 1
         /\ Owners(s, ReleasePoints) # {} =>
              /\ freeIdx[s] = 0 /\ ~Live(s) /\ Owners(s, InitPoints) = {}
              /\ Cardinality(Owners(s, ReleasePoints)) = 1
         /\ freeIdx[s] > 0 =>
              /\ freeIdx[s] = 1 /\ ~Live(s) /\ Owners(s, InitPoints) = {}
              /\ Owners(s, ReleasePoints) = {}
<1>1. freeIdx[s] \in Nat
  BY DEF Typed, TypeOK, LifeType
<1>2. /\ Cardinality(Owners(s, InitPoints)) \in Nat
      /\ (Cardinality(Owners(s, InitPoints)) = 0 <=> Owners(s, InitPoints) = {})
      /\ Cardinality(Owners(s, ReleasePoints)) \in Nat
      /\ (Cardinality(Owners(s, ReleasePoints)) = 0 <=> Owners(s, ReleasePoints) = {})
  BY OwnersCount
<1>3. freeIdx[s] + Cardinality(Owners(s, InitPoints)) + Cardinality(Owners(s, ReleasePoints))
        + (IF Live(s) THEN 1 ELSE 0) = 1
  BY DEF SlotOwnership
<1>4. PICK f \in Nat, i \in Nat, r \in Nat :
        /\ f = freeIdx[s] /\ i = Cardinality(Owners(s, InitPoints))
        /\ r = Cardinality(Owners(s, ReleasePoints))
        /\ f + i + r + (IF Live(s) THEN 1 ELSE 0) = 1
  BY <1>1, <1>2, <1>3
<1>5. /\ Live(s) => f = 0 /\ i = 0 /\ r = 0
      /\ i # 0 => f = 0 /\ ~Live(s) /\ r = 0 /\ i = 1
      /\ r # 0 => f = 0 /\ ~Live(s) /\ i = 0 /\ r = 1
      /\ f > 0 => f = 1 /\ ~Live(s) /\ i = 0 /\ r = 0
  <2>1. CASE Live(s)
    <3>1. f + i + r + 1 = 1
      BY <1>4, <2>1
    <3>2. f = 0 /\ i = 0 /\ r = 0
      BY <3>1
    <3> QED
      BY <2>1, <3>2
  <2>2. CASE ~Live(s)
    <3>1. f + i + r + 0 = 1
      BY <1>4, <2>2
    <3>2. /\ i # 0 => f = 0 /\ r = 0 /\ i = 1
          /\ r # 0 => f = 0 /\ i = 0 /\ r = 1
          /\ f > 0 => f = 1 /\ i = 0 /\ r = 0
      BY <3>1
    <3> QED
      BY <2>2, <3>2
  <2> QED
    BY <2>1, <2>2
<1> QED
  BY <1>2, <1>4, <1>5

(* The release becomes the owner of a live session's index.                *)
LEMMA CommitOwned ==
  ASSUME Typed, Owned, NEW t \in Threads, Settle(t), pc[t] = "rel_cas", pc'[t] = "rel_leave",
         ~releaseFlag[cur[t]], releaseFlag' = [releaseFlag EXCEPT ![cur[t]] = TRUE],
         UNCHANGED <<sessionID, freeIdx, cur, count, recvPend, sendPend, cq, posted>>
  PROVE  Owned'
<1> DEFINE s == cur[t]
<1>1. s \in Slots /\ releaseFlag \in [Slots -> BOOLEAN]
  BY DEF Typed, TypeOK, CallType, LifeType
<1>2. Touched(s) /\ Live(s)
  <2>1. Busy(t)
    BY DEF Busy, InitPoints
  <2> QED
    BY <1>1, <2>1 DEF Owned, Settled, Touched
<1>3. /\ freeIdx[s] = 0 /\ Owners(s, InitPoints) = {} /\ Owners(s, ReleasePoints) = {}
  BY <1>1, <1>2, OneOwner DEF Owned
<1>4. \A r \in Slots : Owners(r, InitPoints)' = Owners(r, InitPoints)
  BY DEF Owners, Settle, InitPoints
<1>5. \A r \in Slots \ {s} : /\ Owners(r, ReleasePoints)' = Owners(r, ReleasePoints)
                             /\ (Live(r)' <=> Live(r))
  BY <1>1, <1>4 DEF Owners, Settle, Live
<1>6. Owners(s, ReleasePoints)' = {t} /\ ~Live(s)'
  BY <1>1, <1>3 DEF Owners, Settle, Live, ReleasePoints
<1>7. SlotOwnership'
  <2>1. Cardinality({t}) = 1 /\ Cardinality({}) = 0
    BY FS_Singleton, FS_EmptySet
  <2>2. Owners(s, InitPoints)' = {}
    BY <1>1, <1>3, <1>4
  <2>3. (freeIdx[s] + Cardinality(Owners(s, InitPoints)) + Cardinality(Owners(s, ReleasePoints))
          + (IF Live(s) THEN 1 ELSE 0))' = 1
    BY <1>3, <1>6, <2>1, <2>2
  <2>4. \A r \in Slots \ {s} :
          (freeIdx[r] + Cardinality(Owners(r, InitPoints)) + Cardinality(Owners(r, ReleasePoints))
            + (IF Live(r) THEN 1 ELSE 0))' = 1
    BY <1>4, <1>5 DEF Owned, SlotOwnership
  <2> QED
    BY <2>3, <2>4 DEF SlotOwnership
<1>8. Numbered'
  BY DEF Owned, Numbered, Settle
<1>9. Settled'
  <2>1. \A r \in Slots : Touched(r)' => Touched(r)
    BY DEF Touched, Pending, Busy, Settle, InitPoints
  <2>2. releaseFlag'[s] /\ \A r \in Slots \ {s} : releaseFlag'[r] = releaseFlag[r]
    BY <1>1
  <2> QED
    BY <1>5, <2>1, <2>2 DEF Owned, Settled
<1> QED
  BY <1>7, <1>8, <1>9 DEF Owned

(* What the owners of one index add up to after a step, when those of the  *)
(* others stay as they are.                                                *)
LEMMA OneSlotChanges ==
  ASSUME Owned, NEW s \in Slots,
         \A r \in Slots \ {s} : /\ Owners(r, InitPoints)' = Owners(r, InitPoints)
                                /\ Owners(r, ReleasePoints)' = Owners(r, ReleasePoints)
                                /\ (Live(r)' <=> Live(r)) /\ freeIdx'[r] = freeIdx[r],
         (freeIdx[s] + Cardinality(Owners(s, InitPoints)) + Cardinality(Owners(s, ReleasePoints))
           + (IF Live(s) THEN 1 ELSE 0))' = 1
  PROVE  SlotOwnership'
BY DEF Owned, SlotOwnership

(* The releasing thread hands the slot to the free list.                    *)
LEMMA PushOwned ==
  ASSUME Typed, Owned, NEW t \in Threads, Settle(t), pc[t] = "rel_push",
         pc'[t] \notin InitPoints \cup ReleasePoints,
         freeIdx' = [freeIdx EXCEPT ![cur[t]] = @ + 1],
         UNCHANGED <<sessionID, releaseFlag, cur, count, recvPend, sendPend, cq, posted>>
  PROVE  Owned'
<1> DEFINE s == cur[t]
<1>1. s \in Slots /\ freeIdx \in [Slots -> Nat]
  BY DEF Typed, TypeOK, CallType, LifeType
<1>2. t \in Owners(s, ReleasePoints) /\ Busy(t)
  BY DEF Owners, ReleasePoints, Busy, InitPoints
<1>3. /\ freeIdx[s] = 0 /\ ~Live(s) /\ Owners(s, InitPoints) = {}
      /\ Cardinality(Owners(s, ReleasePoints)) = 1
  BY <1>1, <1>2, OneOwner DEF Owned
<1>4. \A r \in Slots : Owners(r, InitPoints)' = Owners(r, InitPoints) /\ (Live(r)' <=> Live(r))
  <2>1. \A r \in Slots : Owners(r, InitPoints)' = Owners(r, InitPoints)
    BY DEF Owners, Settle, InitPoints
  <2> QED
    BY <2>1 DEF Live
<1>5. \A r \in Slots \ {s} :
        Owners(r, ReleasePoints)' = Owners(r, ReleasePoints) /\ freeIdx'[r] = freeIdx[r]
  BY <1>1 DEF Owners, Settle
<1>6. Cardinality(Owners(s, ReleasePoints)') = 0
  <2>1. /\ Owners(s, ReleasePoints) \in SUBSET Threads
        /\ Owners(s, ReleasePoints)' \in SUBSET Threads
        /\ \A u \in Threads :
             u # t => (u \in Owners(s, ReleasePoints) <=> u \in Owners(s, ReleasePoints)')
        /\ t \notin Owners(s, ReleasePoints)'
    BY DEF Owners, Settle
  <2> QED
    BY <1>2, <1>3, <2>1, MoveCard
<1>7. Cardinality(Owners(s, InitPoints)') = 0
  BY <1>1, <1>3, <1>4, FS_EmptySet
<1>8. (freeIdx[s] + Cardinality(Owners(s, InitPoints)) + Cardinality(Owners(s, ReleasePoints))
        + (IF Live(s) THEN 1 ELSE 0))' = 1
  <2>1. freeIdx'[s] = 1 /\ ~Live(s)'
    BY <1>1, <1>3, <1>4
  <2> QED
    BY <1>6, <1>7, <2>1
<1>9. SlotOwnership'
  BY <1>1, <1>4, <1>5, <1>8, OneSlotChanges
<1>10. Numbered'
  BY DEF Owned, Numbered, Settle, InitPoints
<1>11. Settled'
  <2>1. \A r \in Slots : Touched(r)' => Touched(r)
    BY <1>2 DEF Touched, Pending, Busy, Settle
  <2> QED
    BY <1>4, <2>1 DEF Owned, Settled
<1> QED
  BY <1>9, <1>10, <1>11 DEF Owned

(* The accept takes the index from the stack.                              *)
LEMMA AcceptOwned ==
  ASSUME Typed, Owned, NEW t \in Threads, NEW s \in Slots, Settle(t),
         pc[t] = "idle", pc'[t] = "init_id",
         freeIdx[s] > 0, freeIdx' = [freeIdx EXCEPT ![s] = @ - 1],
         cur' = [cur EXCEPT ![t] = s], count'.accepts > 0,
         UNCHANGED <<sessionID, releaseFlag, recvPend, sendPend, cq, posted>>
  PROVE  Owned'
<1>1. /\ freeIdx \in [Slots -> Nat] /\ cur \in [Threads -> Slots]
      /\ cur'[t] = s /\ \A u \in Threads : u # t => cur'[u] = cur[u]
  BY DEF Typed, TypeOK, CallType, LifeType
<1>2. /\ freeIdx[s] = 1 /\ ~Live(s) /\ Owners(s, InitPoints) = {}
      /\ Owners(s, ReleasePoints) = {}
  BY OneOwner DEF Owned
<1>3. pc[t] \notin InitPoints \cup ReleasePoints /\ ~Busy(t) /\ ~Busy(t)'
      /\ "init_id" \in InitPoints /\ "init_id" \notin ReleasePoints
  BY DEF InitPoints, ReleasePoints, Busy
<1>4. \A r \in Slots : Owners(r, ReleasePoints)' = Owners(r, ReleasePoints)
  BY <1>1, <1>3 DEF Owners, Settle
<1>5. \A r \in Slots \ {s} : /\ Owners(r, InitPoints)' = Owners(r, InitPoints)
                             /\ freeIdx'[r] = freeIdx[r]
  BY <1>1, <1>3 DEF Owners, Settle
<1>6. Owners(s, InitPoints)' = {t}
  BY <1>1, <1>2, <1>3 DEF Owners, Settle
<1>7. ~Live(s)' /\ \A r \in Slots \ {s} : Live(r)' <=> Live(r)
  BY <1>5, <1>6 DEF Live
<1>8. (freeIdx[s] + Cardinality(Owners(s, InitPoints)) + Cardinality(Owners(s, ReleasePoints))
        + (IF Live(s) THEN 1 ELSE 0))' = 1
  <2>1. Cardinality({t}) = 1 /\ Cardinality({}) = 0
    BY FS_Singleton, FS_EmptySet
  <2>2. freeIdx'[s] = 0 /\ Owners(s, ReleasePoints)' = {}
    BY <1>1, <1>2, <1>4
  <2> QED
    BY <1>6, <1>7, <2>1, <2>2
<1>9. SlotOwnership'
  BY <1>4, <1>5, <1>7, <1>8, OneSlotChanges
<1>10. Numbered'
  <2>1. ASSUME NEW u \in Threads, u # t
        PROVE  /\ pc'[u] = "init_id" => count'.accepts > 0
               /\ pc'[u] \in {"init_io", "init_flag"} => sessionID'[cur'[u]] # 0
    BY <1>1, <2>1 DEF Owned, Numbered, Settle
  <2> QED
    BY <2>1 DEF Numbered
<1>11. Settled'
  <2>1. ASSUME NEW r \in Slots, Touched(r)' PROVE Touched(r)
    <3>1. CASE r \in Pending'
      BY <3>1 DEF Touched, Pending
    <3>2. ASSUME NEW u \in Threads, cur'[u] = r, Busy(u)' PROVE Touched(r)
      BY <1>1, <1>3, <3>2 DEF Touched, Busy, Settle
    <3> QED
      BY <2>1, <3>1, <3>2 DEF Touched
  <2> QED
    BY <1>2, <1>7, <2>1 DEF Owned, Settled
<1> QED
  BY <1>9, <1>10, <1>11 DEF Owned

(* A slot in preparation is given a number, and its count is set.          *)
LEMMA PrepareOwned ==
  ASSUME Typed, Owned, NEW t \in Threads, Settle(t),
         UNCHANGED <<releaseFlag, freeIdx, cur, recvPend, sendPend, cq, posted>>,
         count'.accepts = count.accepts,
         \/ /\ pc[t] = "init_id" /\ pc'[t] = "init_io"
            /\ sessionID' = [sessionID EXCEPT ![cur[t]] = count.accepts]
         \/ pc[t] = "init_io" /\ pc'[t] = "init_flag" /\ UNCHANGED sessionID
  PROVE  Owned'
<1> DEFINE s == cur[t]
<1>1. /\ s \in Slots /\ sessionID \in [Slots -> Nat] /\ cur \in [Threads -> Slots]
      /\ \A r \in Slots \ {s} : sessionID'[r] = sessionID[r]
  BY DEF Typed, TypeOK, CallType, LifeType
<1>2. /\ pc[t] \in InitPoints /\ pc'[t] \in InitPoints /\ ~Busy(t) /\ ~Busy(t)'
      /\ pc[t] \notin ReleasePoints /\ pc'[t] \notin ReleasePoints
  BY DEF InitPoints, ReleasePoints, Busy
<1>3. \A r \in Slots : /\ Owners(r, InitPoints)' = Owners(r, InitPoints)
                       /\ Owners(r, ReleasePoints)' = Owners(r, ReleasePoints)
  BY <1>2 DEF Owners, Settle
<1>4. t \in Owners(s, InitPoints)
  BY <1>2 DEF Owners
<1>5. \A r \in Slots : Live(r)' <=> Live(r)
  BY <1>1, <1>3, <1>4 DEF Live
<1>6. SlotOwnership'
  BY <1>3, <1>5 DEF Owned, SlotOwnership
<1>7. Numbered'
  <2>1. sessionID'[s] # 0
    BY <1>1 DEF Owned, Numbered, Typed, CountOK
  <2>2. \A r \in Slots : sessionID[r] # 0 => sessionID'[r] # 0
    BY <1>1, <2>1
  <2>3. ASSUME NEW u \in Threads
        PROVE  /\ pc'[u] = "init_id" => count'.accepts > 0
               /\ pc'[u] \in {"init_io", "init_flag"} => sessionID'[cur'[u]] # 0
    <3>1. CASE u = t
      BY <2>1, <3>1
    <3>2. CASE u # t
      BY <1>1, <2>2, <3>2 DEF Owned, Numbered, Settle
    <3> QED
      BY <3>1, <3>2
  <2> QED
    BY <2>3 DEF Numbered
<1>8. Settled'
  <2>1. \A r \in Slots : Touched(r)' => Touched(r)
    BY <1>2 DEF Touched, Pending, Busy, Settle
  <2> QED
    BY <1>5, <2>1 DEF Owned, Settled
<1> QED
  BY <1>6, <1>7, <1>8 DEF Owned

(* With its flag reset the session is live.                                *)
LEMMA InitFlagOwned ==
  ASSUME Typed, Owned, NEW t \in Threads, Settle(t), pc[t] = "init_flag", pc'[t] = "init_rest",
         releaseFlag' = [releaseFlag EXCEPT ![cur[t]] = FALSE],
         UNCHANGED <<sessionID, freeIdx, cur, count, recvPend, sendPend, cq, posted>>
  PROVE  Owned'
<1> DEFINE s == cur[t]
<1>1. /\ s \in Slots /\ releaseFlag \in [Slots -> BOOLEAN] /\ cur \in [Threads -> Slots]
      /\ sessionID[s] # 0
  BY DEF Typed, TypeOK, CallType, LifeType, Owned, Numbered
<1>2. /\ pc[t] \in InitPoints /\ pc'[t] \notin InitPoints \cup ReleasePoints
      /\ pc[t] \notin ReleasePoints
  BY DEF InitPoints, ReleasePoints
<1>3. t \in Owners(s, InitPoints)
  BY <1>2 DEF Owners
<1>4. /\ freeIdx[s] = 0 /\ ~Live(s) /\ Owners(s, ReleasePoints) = {}
      /\ Cardinality(Owners(s, InitPoints)) = 1
  BY <1>1, <1>3, OneOwner DEF Owned
<1>5. \A r \in Slots : Owners(r, ReleasePoints)' = Owners(r, ReleasePoints)
  BY <1>2 DEF Owners, Settle
<1>6. \A r \in Slots \ {s} : Owners(r, InitPoints)' = Owners(r, InitPoints)
  BY <1>1 DEF Owners, Settle
<1>7. Owners(s, InitPoints)' = {}
  <2>1. /\ Owners(s, InitPoints) \in SUBSET Threads
        /\ Owners(s, InitPoints)' \in SUBSET Threads
        /\ \A u \in Threads :
             u # t => (u \in Owners(s, InitPoints) <=> u \in Owners(s, InitPoints)')
        /\ t \notin Owners(s, InitPoints)'
    BY <1>2 DEF Owners, Settle
  <2>2. Cardinality(Owners(s, InitPoints)') = 0
    BY <1>3, <1>4, <2>1, MoveCard
  <2>3. IsFiniteSet(Owners(s, InitPoints)')
    BY <2>1, ThreadsFinite, FS_Subset
  <2> QED
    BY <2>2, <2>3, FS_EmptySet
<1>8. Live(s)' /\ \A r \in Slots \ {s} : Live(r)' <=> Live(r)
  BY <1>1, <1>6, <1>7 DEF Live
<1>9. (freeIdx[s] + Cardinality(Owners(s, InitPoints)) + Cardinality(Owners(s, ReleasePoints))
        + (IF Live(s) THEN 1 ELSE 0))' = 1
  <2>1. Cardinality({}) = 0 /\ Owners(s, ReleasePoints)' = {} /\ freeIdx'[s] = 0
    BY <1>1, <1>4, <1>5, FS_EmptySet
  <2> QED
    BY <1>7, <1>8, <2>1
<1>10. SlotOwnership'
  BY <1>1, <1>5, <1>6, <1>8, <1>9, OneSlotChanges
<1>11. Numbered'
  BY DEF Owned, Numbered, Settle
<1>12. Settled'
  <2>1. ASSUME NEW r \in Slots, r # s, Touched(r)' PROVE Touched(r)
    BY <2>1 DEF Touched, Pending, Busy, Settle
  <2> QED
    BY <1>1, <1>8, <2>1 DEF Owned, Settled
<1> QED
  BY <1>10, <1>11, <1>12 DEF Owned

-----------------------------------------------------------------------------
(* Start has pushed every index, and no thread is in a call.               *)
LEMMA InitInductive == Init => Inductive
<1> SUFFICES ASSUME Init PROVE Inductive
  OBVIOUS
<1>1. /\ <<>> \in Seq(Msgs) /\ <<>> \in Seq(ReturnPoints) /\ <<>> \in Seq(Nat)
      /\ <<>> \in Seq([kind : {"recv", "recv_end", "request", "sent"}, slot : Slots])
      /\ <<>> \in Seq([kind : {"join", "recv", "leave"}, slot : Slots, conn : Nat])
      /\ DOMAIN <<>> = {}
  OBVIOUS
<1>2. LifeType /\ SendType /\ SockType
  BY <1>1 DEF Init, LifeType, SendType, SockType
<1>3. ControlType
  BY <1>1, PointSets DEF Init, ControlType
<1>4. CallType
  BY BoundsAssumption DEF Init, CallType
<1>5. NetType /\ EventType /\ freed \in [Msgs -> Nat]
  BY <1>1 DEF Init, NetType, EventType
<1>6. CountOK
  BY <1>1 DEF Init, CountOK
<1>7. Returns /\ Numbered
  BY <1>1 DEF Init, Returns, Numbered, Using
<1>8. \A s \in Slots : ~Touched(s)
  BY <1>1 DEF Init, Touched, Pending, Busy, SlotsOf
<1>9. \A s \in Slots : /\ Owners(s, InitPoints) = {} /\ Owners(s, ReleasePoints) = {}
                       /\ ~Live(s)
  BY DEF Init, Owners, Live, InitPoints, ReleasePoints
<1>10. SlotOwnership
  <2>1. Cardinality({}) = 0
    BY FS_EmptySet
  <2>2. ASSUME NEW s \in Slots
        PROVE  freeIdx[s] + Cardinality(Owners(s, InitPoints))
                 + Cardinality(Owners(s, ReleasePoints)) + (IF Live(s) THEN 1 ELSE 0) = 1
    <3>1. freeIdx[s] = 1
      BY DEF Init
    <3>2. /\ Cardinality(Owners(s, InitPoints)) = 0
          /\ Cardinality(Owners(s, ReleasePoints)) = 0
      BY <1>9, <2>1
    <3> QED
      BY <3>1, <3>2, <1>9
  <2> QED
    BY <2>2 DEF SlotOwnership
<1> QED
  BY <1>2, <1>3, <1>4, <1>5, <1>6, <1>7, <1>8, <1>10 DEF Inductive, TypeOK, Settled

(* Every step of a thread in a call.                                       *)
LEMMA CallsInductive ==
  ASSUME Typed, Owned, NEW t \in Threads, Calls(t)
  PROVE  Typed' /\ Owned'
<1>1. CASE Dec(t)
  <2>1. Inside(t) /\ GoesOn(t)
    BY <1>1 DEF Dec, Inside, GoesOn, Elsewhere, Using, HoldPoints, OtherPoints
  <2>2. AddIO(t, -1) /\ UNCHANGED <<send, sock, freeIdx, call, net, log>>
    BY <1>1 DEF Dec
  <2> QED
    BY <2>1, <2>2, CountMoves, MovesOwned
<1>2. CASE ReleaseCommit(t)
  <2>1. CASE ioCount[cur[t]] = 0 /\ ~releaseFlag[cur[t]]
    BY <1>2, <2>1, CommitTyped, CommitOwned
  <2>2. CASE ~(ioCount[cur[t]] = 0 /\ ~releaseFlag[cur[t]])
    <3>1. /\ pc[t] = "rel_cas" /\ Return(t)
          /\ UNCHANGED <<releaseFlag, sessionID, ioCount, send, sock, freeIdx, call, net, log>>
      BY <1>2, <2>2 DEF ReleaseCommit, ReleaseIf
    <3>2. Inside(t) /\ GoesOn(t)
      BY <3>1 DEF Inside, GoesOn, Using, HoldPoints, OtherPoints
    <3> QED
      BY <3>1, <3>2, ControlMoves, MovesOwned DEF life
  <2> QED
    BY <2>1, <2>2
<1>3. CASE ReleaseLeave(t)
  BY <1>3, LeaveMoves, MovesOwned
<1>4. CASE ReleaseClean(t)
  BY <1>4, CleanMoves, MovesOwned
<1>5. CASE ReleasePush(t)
  BY <1>5, PushTyped, PushOwned
<1>6. CASE UseInc(t)
  BY <1>6, UseIncMoves, MovesOwned
<1>7. CASE UseUndo(t)
  BY <1>7, UseUndoMoves, MovesOwned
<1>8. CASE SendCheck(t) \/ SendEnqueue(t) \/ SendNotify(t)
  BY <1>8, SendPacketMoves, MovesOwned
<1>9. CASE \/ DisconnectCheck(t) \/ DisconnectFlag(t) \/ DisconnectSocket(t)
           \/ DisconnectMark(t) \/ DisconnectCancel(t)
  BY <1>9, DisconnectMoves, MovesOwned
<1>10. CASE RecvPost(t) \/ RecvInc(t) \/ RecvIssue(t) \/ RecvPended(t) \/ RecvFailed(t)
  BY <1>10, RecvMoves, MovesOwned
<1>11. CASE \/ SendPost(t) \/ SendClaim(t) \/ SendSize(t) \/ SendClear(t) \/ SendInc(t)
            \/ SendTake(t) \/ SendIssue(t) \/ SentFlag(t) \/ SentCheck(t)
  BY <1>11, SendMoves, MovesOwned
<1> QED
  BY <1>1, <1>2, <1>3, <1>4, <1>5, <1>6, <1>7, <1>8, <1>9, <1>10, <1>11 DEF Calls

(* Every step of the accept thread.                                         *)
LEMMA AcceptingInductive ==
  ASSUME Typed, Owned, NEW t \in Threads, Accepting(t)
  PROVE  Typed' /\ Owned'
<1>1. CASE InitID(t)
  BY <1>1, InitIDTyped, PrepareOwned
<1>2. CASE InitIO(t)
  BY <1>2, InitIOTyped, PrepareOwned
<1>3. CASE InitFlag(t)
  BY <1>3, InitFlagTyped, InitFlagOwned
<1>4. CASE InitRest(t) \/ AcceptHold(t) \/ AcceptJoin(t)
  BY <1>4, AcceptMoves, MovesOwned
<1> QED
  BY <1>1, <1>2, <1>3, <1>4 DEF Accepting

(* Every step keeps the invariant.                                          *)
LEMMA StepInductive == Inductive /\ [Next]_vars => Inductive'
<1> SUFFICES ASSUME Inductive, [Next]_vars PROVE Inductive'
  OBVIOUS
<1>1. Typed /\ Owned
  BY DEF Inductive, Typed, Owned
<1>2. Typed' /\ Owned'
  <2>1. ASSUME NEW t \in Threads, Calls(t) PROVE Typed' /\ Owned'
    BY <1>1, <2>1, CallsInductive
  <2>2. ASSUME NEW t \in Threads, Accepting(t) PROVE Typed' /\ Owned'
    BY <1>1, <2>2, AcceptingInductive
  <2>3. ASSUME NEW t \in Threads, Working(t) PROVE Typed' /\ Owned'
    BY <1>1, <2>3, WorkBegins, RecvBegins, BeginsOwned DEF Working
  <2>4. ASSUME NEW t \in Threads, NEW s \in Slots, Accept(t, s) PROVE Typed' /\ Owned'
    BY <1>1, <2>4, AcceptTyped, AcceptOwned
  <2>5. ASSUME NEW t \in Threads, NEW k \in Known,
               SendPacket(t, k.slot, k.conn) \/ Disconnect(t, k.slot, k.conn)
        PROVE  Typed' /\ Owned'
    BY <1>1, <2>5, ContentBegins, BeginsOwned, RestsOwned
  <2>6. CASE \/ \E s \in Slots : Kernel(s) \/ PeerSends(s)
             \/ \E n \in Conns : PeerLeaves(n)
             \/ \E t \in Threads : AcceptBlocked(t)
             \/ TakeEvent
    BY <1>1, <2>6, WorldRests, RestsOwned
  <2>7. CASE UNCHANGED vars
    <3>1. Rests
      BY <2>7 DEF vars, Rests, life, control, call, net, events, Pending
    <3>2. TypeOK' /\ CountOK' /\ Returns'
      <4>1. ControlType' /\ CountOK' /\ Returns'
        BY <1>1, <2>7
           DEF vars, Typed, TypeOK, ControlType, CountOK, Returns, control, call
      <4> QED
        BY <1>1, <2>7, <4>1, TypesKept DEF vars, Typed, TypeOK
    <3> QED
      BY <1>1, <3>1, <3>2, RestsOwned DEF Typed
  <2> QED
    BY <2>1, <2>2, <2>3, <2>4, <2>5, <2>6, <2>7 DEF Next
<1> QED
  BY <1>2 DEF Inductive, Typed, Owned

(* The parts of the invariant always hold, for any number of indexes,      *)
(* workers, accepts and messages.                                          *)
THEOREM InductiveInvariant == Spec => []Inductive
BY InitInductive, StepInductive, PTL DEF Spec

(* No variable leaves its type: calls return only to the places that made  *)
(* them, and SendPacket never puts the null message into SendQ.            *)
THEOREM TypeCorrect == Spec => []TypeOK
<1>1. Inductive => TypeOK
  BY DEF Inductive
<1> QED
  BY <1>1, InductiveInvariant, PTL

(* An index of _SessionArray always has one owner: _InvalidIndexStack, the *)
(* accept that prepares it, the live session, or the one ReleaseSession    *)
(* that has set its flag.  Late calls may spoil IOCount, but no two        *)
(* threads ever release one session, and no index is given out twice.      *)
THEOREM IndexesOwned == Spec => []SlotOwnership
<1>1. Inductive => SlotOwnership
  BY DEF Inductive
<1> QED
  BY <1>1, InductiveInvariant, PTL

-----------------------------------------------------------------------------
(* IOCount, the reference count of a session.  Until a late call has met   *)
(* the Initailize of its index, IOCount is exactly the number of           *)
(* decrements that threads, the kernel and the completion port still owe,  *)
(* plus those that drift says were lost; so a released session is at rest. *)

(* The points of each call.                                                *)
RecvPoints   == {"rp_discon", "rp_inc", "rp_recv", "rp_failed", "rp_pended"}
SendPoints   == {"sp_discon", "sp_flag", "sp_size", "sp_clear", "sp_inc", "sp_take",
                 "sp_send"}
ClosePoints  == {"dis_check", "dis_flag", "dis_socket", "dis_mark", "dis_cancel"}
PacketPoints == {"snd_check", "snd_enqueue", "snd_notify"}
Window       == {"init_io", "init_flag", "init_rest", "acc_hold", "acc_join"}
UsePoints    == RecvPoints \cup SendPoints \cup ClosePoints \cup PacketPoints
                  \cup {"dec", "sc_flag", "sc_check"}

(* What a thread does follows from where it is: only the accept thread     *)
(* prepares a session, only the content sends packets, only a worker takes *)
(* completions, and each of them gives its own use up where it began it.   *)
ShapeOf(t, p, q) ==
  /\ p \in RecvPoints => t # Content /\ q = <<"dec">>
  /\ p \in SendPoints => t \in Workers /\ q = <<"dec">>
  /\ p \in PacketPoints => t = Content /\ q = <<>>
  /\ p \in {"sc_flag", "sc_check"} => t \in Workers /\ q = <<>>
  /\ p \in ClosePoints =>
       \/ t = Content /\ q = <<>>
       \/ t \in Workers /\ q = <<"rp_discon", "dec">>
  /\ p \in Using =>
       \/ t = Content /\ q \in {<<"snd_check">>, <<"dis_check">>}
       \/ t \in Workers /\ q = <<"dis_check", "rp_discon", "dec">>
  /\ p \in {"dec", "rel_cas"} \cup ReleasePoints =>
       \/ q = <<>>
       \/ t # Content /\ q = <<"dec">>
       \/ t \in Workers /\ q = <<"rp_discon", "dec">>
  /\ p \in {"init_id"} \cup Window => t = Acceptor /\ q = <<>>
  /\ p = "idle" => q = <<>>
Shape(t) == ShapeOf(t, pc[t], ret[t])
Shapes == \A t \in Threads : Shape(t)

(* The connection that is being accepted has the highest number, and       *)
(* nobody has been told of it yet.                                         *)
Preparing == pc[Acceptor] \in {"init_id"} \cup Window
Numbers ==
  /\ \A s \in Slots : sessionID[s] <= count.accepts
  /\ count.late <= count.accepts
  /\ pc[Acceptor] \in Window => sessionID[cur[Acceptor]] = count.accepts
  /\ pc[Acceptor] \in {"init_id", "init_io"} => count.late < count.accepts
Joins ==
  \A i \in DOMAIN posted : posted[i].kind = "join" =>
    posted[i].conn <= count.accepts /\ (Preparing => posted[i].conn < count.accepts)

(* The decrements that one thread owes to a slot, and those of its I/O.    *)
Uses(t, s) == (IF cur[t] = s /\ pc[t] \in HoldPoints THEN 1 ELSE 0)
                + (IF cur[t] = s /\ Owes(t) THEN 1 ELSE 0)
Coming(s)  == Cardinality({i \in DOMAIN cq : cq[i].slot = s})
Net(s)     == (IF s \in recvPend THEN 1 ELSE 0) + (IF s \in sendPend THEN 1 ELSE 0) + Coming(s)

(* Whoever has the right to receive on a session: one thread, one WSARecv  *)
(* or one completion of it; and the same for sending, see Senders.         *)
HasRead(q)  == \E i \in DOMAIN q : q[i] = "rp_discon"
Reads(t)    == pc[t] \in {"rp_discon", "rp_inc", "rp_recv"} \/ HasRead(ret[t])
Readings(s) == {t \in Threads : cur[t] = s /\ Reads(t)}
OfRecv(s)   == {[kind |-> "recv", slot |-> s], [kind |-> "recv_end", slot |-> s]}
ReadNet(s)  == (IF s \in recvPend THEN 1 ELSE 0) + Cardinality({i \in DOMAIN cq : cq[i] \in OfRecv(s)})
Readers(s)  == Cardinality(Readings(s)) + ReadNet(s)
Senderships == {"sp_size", "sp_clear", "sp_inc", "sp_take", "sp_send", "sc_flag"}
OfSent(s)   == {[kind |-> "sent", slot |-> s]}
SendNet(s)  == (IF s \in sendPend THEN 1 ELSE 0) + Cardinality({i \in DOMAIN cq : cq[i] \in OfSent(s)})
OneAtATime(s) ==
  Readers(s) <= 1 /\ Senders(s) <= 1 /\ (Senders(s) = 1 => sendFlag[s])

(* Without a live session the slot is at rest, but for calls of            *)
(* StartUseSession by the content that are about to find out.              *)
AtRest(s) ==
  /\ Net(s) = 0 /\ drift[s] = 0
  /\ \A t \in Threads : cur[t] = s =>
       pc[t] \in Leftover /\ (t # Content => ret[t] = <<>> /\ pc[t] \notin Using)
(* While the accept thread sets a slot up, nobody else has to do with it.  *)
Alone(s) ==
  /\ Net(s) = 0 /\ drift[s] = 0
  /\ \A t \in Threads : cur[t] = s /\ t # Acceptor => pc[t] = "idle"
(* Only the content meets a count of zero, and then nobody else counts.    *)
Undoing(s) ==
  \A t \in Threads : cur[t] = s /\ pc[t] = "use_undo" =>
    t = Content /\ Holds(s) = 1 /\ drift[s] = 0
Balanced(s) ==
  /\ drift[s] >= 0 /\ ioCount[s] = Holds(s) + drift[s]
  /\ OneAtATime(s)
  /\ Undoing(s)
  /\ ~Live(s) => AtRest(s)
  /\ cur[Acceptor] = s /\ pc[Acceptor] \in Window \ {"init_io"} => Alone(s)

Counted == Shapes /\ Numbers /\ Joins /\ \A s \in Slots : OnTime(s) => Balanced(s)
Sound  == Typed /\ Owned /\ Counted

-----------------------------------------------------------------------------
(* Counting.  The entries of a queue that are of interest are finitely     *)
(* many.                                                                   *)
Among(q, V) == {i \in DOMAIN q : q[i] \in V}
LEMMA AmongFinite ==
  ASSUME NEW S, NEW q \in Seq(S), NEW V
  PROVE  IsFiniteSet(Among(q, V)) /\ Cardinality(Among(q, V)) \in Nat
<1>1. Len(q) \in Int /\ 1 \in Int /\ DOMAIN q = 1 .. Len(q)
  BY LenProperties
<1>2. IsFiniteSet(DOMAIN q)
  BY <1>1, FS_Interval, Zenon
<1>3. Among(q, V) \in SUBSET (DOMAIN q)
  BY DEF Among
<1> QED
  BY <1>2, <1>3, FS_Subset, FS_CardinalityType

(* One more entry.                                                         *)
LEMMA AmongAppend ==
  ASSUME NEW S, NEW q \in Seq(S), NEW e \in S, NEW V
  PROVE  /\ Cardinality(Among(q, V)) \in Nat
         /\ Cardinality(Among(Append(q, e), V))
              = Cardinality(Among(q, V)) + (IF e \in V THEN 1 ELSE 0)
<1>1. /\ Len(q) \in Nat /\ DOMAIN q = 1 .. Len(q)
      /\ DOMAIN Append(q, e) = 1 .. Len(q) + 1
      /\ Append(q, e)[Len(q) + 1] = e
      /\ \A i \in 1 .. Len(q) : Append(q, e)[i] = q[i]
  BY AppendProperties, LenProperties, SMTT(30)
<1>2. PICK n \in Nat : n = Len(q)
  BY <1>1
<1>3. n + 1 \notin 1 .. n /\ 1 .. n + 1 = (1 .. n) \cup {n + 1}
  OBVIOUS
<1>4. IsFiniteSet(Among(q, V)) /\ Cardinality(Among(q, V)) \in Nat
  BY AmongFinite
<1>5. n + 1 \notin Among(q, V)
  BY <1>1, <1>2, <1>3 DEF Among
<1>6. CASE e \in V
  <2>1. Among(Append(q, e), V) = Among(q, V) \cup {n + 1}
    BY <1>1, <1>2, <1>3, <1>6 DEF Among
  <2> QED
    BY <1>4, <1>5, <1>6, <2>1, FS_AddElement
<1>7. CASE e \notin V
  <2>1. Among(Append(q, e), V) = Among(q, V)
    BY <1>1, <1>2, <1>3, <1>7 DEF Among
  <2> QED
    BY <1>4, <1>7, <2>1
<1> QED
  BY <1>4, <1>6, <1>7

(* The same when the oldest is taken.                                      *)
LEMMA AmongTail ==
  ASSUME NEW S, NEW q \in Seq(S), q # <<>>, NEW V
  PROVE  /\ Cardinality(Among(Tail(q), V)) \in Nat
         /\ Cardinality(Among(q, V))
              = Cardinality(Among(Tail(q), V)) + (IF Head(q) \in V THEN 1 ELSE 0)
<1>1. /\ Len(q) \in Nat \ {0} /\ DOMAIN q = 1 .. Len(q) /\ Head(q) = q[1]
      /\ Tail(q) \in Seq(S) /\ DOMAIN Tail(q) = 1 .. Len(q) - 1
      /\ \A i \in 1 .. Len(q) - 1 : Tail(q)[i] = q[i + 1]
  BY HeadTailProperties, LenProperties, EmptySeq, SMTT(30)
<1>2. PICK n \in Nat \ {0} : n = Len(q)
  BY <1>1
<1> DEFINE T == Among(Tail(q), V)
           L == {i \in 2 .. n : q[i] \in V}
           f == [i \in T |-> i + 1]
<1>3. /\ \A i \in 1 .. n - 1 : i + 1 \in 2 .. n
      /\ \A j \in 2 .. n : j - 1 \in 1 .. n - 1 /\ (j - 1) + 1 = j
      /\ 1 \notin 2 .. n /\ 1 .. n = {1} \cup 2 .. n /\ n - 1 \in Int
  OBVIOUS
<1>4. IsFiniteSet(T) /\ Cardinality(T) \in Nat
  BY <1>1, AmongFinite
<1>5. f \in Bijection(T, L)
  <2>1. \A i \in T : i \in 1 .. n - 1 /\ q[i + 1] \in V
    BY <1>1, <1>2 DEF Among
  <2>2. f \in [T -> L]
    BY <1>3, <2>1
  <2>3. ASSUME NEW i \in T, NEW j \in T, f[i] = f[j] PROVE i = j
    BY <2>1, <2>3
  <2>4. ASSUME NEW j \in L PROVE \E i \in T : f[i] = j
    <3>1. j - 1 \in 1 .. n - 1 /\ (j - 1) + 1 = j /\ q[j] \in V
      BY <1>3
    <3>2. j - 1 \in DOMAIN Tail(q) /\ Tail(q)[j - 1] = q[j]
      BY <1>1, <1>2, <3>1
    <3>3. j - 1 \in T
      BY <3>1, <3>2 DEF Among
    <3> QED
      BY <3>1, <3>3
  <2> QED
    BY <2>2, <2>3, <2>4 DEF Bijection, Injection, Surjection, IsInjective
<1>6. ExistsBijection(T, L)
  BY <1>5 DEF ExistsBijection
<1>7. IsFiniteSet(L) /\ Cardinality(L) = Cardinality(T)
  BY <1>4, <1>6, FS_Bijection
<1>8. 1 \notin L
  BY <1>3
<1>9. CASE Head(q) \in V
  <2>1. Among(q, V) = L \cup {1}
    BY <1>1, <1>2, <1>3, <1>9 DEF Among
  <2> QED
    BY <1>4, <1>7, <1>8, <1>9, <2>1, FS_AddElement, ZenonT(30)
<1>10. CASE Head(q) \notin V
  <2>1. Among(q, V) = L
    BY <1>1, <1>2, <1>3, <1>10 DEF Among
  <2> QED
    BY <1>4, <1>7, <1>10, <2>1
<1> QED
  BY <1>4, <1>9, <1>10

(* None is of interest when the count is zero.                             *)
LEMMA AmongZero ==
  ASSUME NEW S, NEW q \in Seq(S), NEW V
  PROVE  /\ Cardinality(Among(q, V)) \in Nat
         /\ Cardinality(Among(q, V)) = 0 <=> \A i \in DOMAIN q : q[i] \notin V
<1>1. IsFiniteSet(Among(q, V))
  BY LenProperties, FS_Interval, FS_Subset DEF Among
<1>2. Cardinality(Among(q, V)) \in Nat /\ (Cardinality(Among(q, V)) = 0 <=> Among(q, V) = {})
  BY <1>1, FS_CardinalityType, FS_EmptySet
<1> QED
  BY <1>2 DEF Among

-----------------------------------------------------------------------------
(* The completions of a slot, as entries of interest.                      *)
Completions == [kind : Kinds, slot : Slots]
OfSlot(s)   == {c \in Completions : c.slot = s}
LEMMA ComingIs ==
  ASSUME NEW q \in Seq(Completions), NEW s \in Slots
  PROVE  {i \in DOMAIN q : q[i].slot = s} = Among(q, OfSlot(s))
<1>1. \A i \in DOMAIN q : q[i] \in Completions
  BY LenProperties
<1> QED
  BY <1>1 DEF Among, OfSlot

(* An index of which no I/O is on its way.                                 *)
LEMMA NetZero ==
  ASSUME TypeOK, NEW s \in Slots
  PROVE  /\ Net(s) \in Nat /\ Coming(s) \in Nat
         /\ Net(s) = 0 => /\ s \notin recvPend /\ s \notin sendPend
                          /\ \A i \in DOMAIN cq : cq[i].slot # s
<1>1. cq \in Seq(Completions)
  BY DEF TypeOK, NetType, Completions, Kinds
<1>2. Coming(s) \in Nat /\ (Coming(s) = 0 <=> \A i \in DOMAIN cq : cq[i] \notin OfSlot(s))
  <2>1. Coming(s) = Cardinality(Among(cq, OfSlot(s)))
    BY <1>1, ComingIs DEF Coming
  <2> QED
    BY <1>1, <2>1, AmongZero
<1>3. \A i \in DOMAIN cq : cq[i] \in Completions
  BY <1>1, LenProperties
<1>4. Net(s) \in Nat
  BY <1>2 DEF Net
<1>5. ASSUME Net(s) = 0
      PROVE  s \notin recvPend /\ s \notin sendPend /\ Coming(s) = 0
  BY <1>2, <1>5 DEF Net
<1> QED
  BY <1>2, <1>3, <1>4, <1>5 DEF OfSlot

(* A completion is queued for a slot.                                      *)
LEMMA ComingQueued ==
  ASSUME TypeOK, NEW r \in Slots, NEW k \in Kinds, Queue(k, r), NEW s \in Slots
  PROVE  Coming(s)' = Coming(s) + (IF s = r THEN 1 ELSE 0)
<1>1. cq \in Seq(Completions)
  BY DEF TypeOK, NetType, Completions, Kinds
<1>2. PICK e : e = [kind |-> k, slot |-> r]
  OBVIOUS
<1>3. e \in Completions /\ e.slot = r /\ (e \in OfSlot(s) <=> s = r)
  BY <1>2 DEF Completions, OfSlot
<1>4. cq' = Append(cq, e)
  BY <1>2 DEF Queue
<1>5. cq' \in Seq(Completions)
  BY <1>1, <1>3, <1>4, AppendProperties
<1>6. Coming(s) = Cardinality(Among(cq, OfSlot(s)))
      /\ Coming(s)' = Cardinality(Among(cq', OfSlot(s)))
  BY <1>1, <1>5, ComingIs DEF Coming
<1> QED
  BY <1>1, <1>3, <1>4, <1>6, AmongAppend

(* A worker takes one.                                                     *)
LEMMA ComingTaken ==
  ASSUME TypeOK, NEW t \in Threads, NEW k \in Kinds, Take(t, k), NEW s \in Slots
  PROVE  /\ Coming(s) = Coming(s)' + (IF s = Head(cq).slot THEN 1 ELSE 0)
         /\ Coming(s)' \in Nat
<1>1. cq \in Seq(Completions) /\ cq # <<>> /\ cq' = Tail(cq)
  BY DEF TypeOK, NetType, Completions, Kinds, Take
<1>2. Head(cq) \in Completions /\ cq' \in Seq(Completions)
  BY <1>1, HeadTailProperties
<1>3. Head(cq) \in OfSlot(s) <=> s = Head(cq).slot
  BY <1>2 DEF OfSlot
<1>4. Coming(s) = Cardinality(Among(cq, OfSlot(s)))
      /\ Coming(s)' = Cardinality(Among(cq', OfSlot(s)))
  BY <1>1, <1>2, ComingIs DEF Coming
<1> QED
  BY <1>1, <1>3, <1>4, AmongTail

(* The decrements of a slot: those of threads at a point that holds, those *)
(* that calls will return to, and those of its I/O.                        *)
Holders(s) == {t \in Threads : cur[t] = s /\ pc[t] \in HoldPoints}
Owers(s)   == {t \in Threads : cur[t] = s /\ Owes(t)}
Summed ==
  \A s \in Slots :
    /\ Cardinality(Holders(s)) \in Nat /\ Cardinality(Owers(s)) \in Nat /\ Net(s) \in Nat
    /\ Holds(s) \in Nat
    /\ Holds(s) = Cardinality(Holders(s)) + Cardinality(Owers(s)) + Net(s)
LEMMA HoldsIs == TypeOK => Summed
<1> SUFFICES ASSUME TypeOK, NEW s \in Slots
             PROVE  /\ Cardinality(Holders(s)) \in Nat /\ Cardinality(Owers(s)) \in Nat
                    /\ Net(s) \in Nat /\ Holds(s) \in Nat
                    /\ Holds(s) = Cardinality(Holders(s)) + Cardinality(Owers(s)) + Net(s)
  BY DEF Summed
<1>1. Holders(s) \in SUBSET Threads /\ Owers(s) \in SUBSET Threads
  BY DEF Holders, Owers
<1>2. Cardinality(Holders(s)) \in Nat /\ Cardinality(Owers(s)) \in Nat
  BY <1>1, ThreadsFinite, FS_Subset, FS_CardinalityType
<1>3. Coming(s) \in Nat /\ Net(s) \in Nat
  BY NetZero
<1>4. \A X : Cardinality({s} \cap X) = IF s \in X THEN 1 ELSE 0
  <2>1. Cardinality({s}) = 1 /\ Cardinality({}) = 0
    BY FS_Singleton, FS_EmptySet
  <2>2. ASSUME NEW X PROVE Cardinality({s} \cap X) = IF s \in X THEN 1 ELSE 0
    <3>1. {s} \cap X = IF s \in X THEN {s} ELSE {}
      OBVIOUS
    <3> QED
      BY <2>1, <3>1
  <2> QED
    BY <2>2
<1>5. PICK h \in Nat, o \in Nat, c \in Nat :
        h = Cardinality(Holders(s)) /\ o = Cardinality(Owers(s)) /\ c = Coming(s)
  BY <1>2, <1>3
<1>6. Holds(s) = h + o + (IF s \in recvPend THEN 1 ELSE 0)
                   + (IF s \in sendPend THEN 1 ELSE 0) + c
  BY <1>4, <1>5 DEF Holds, Holders, Owers, Coming
<1>7. Net(s) = (IF s \in recvPend THEN 1 ELSE 0) + (IF s \in sendPend THEN 1 ELSE 0) + c
  BY <1>5 DEF Net
<1>8. Holds(s) = h + o + Net(s) /\ Holds(s) \in Nat
  BY <1>6, <1>7
<1> QED
  BY <1>2, <1>3, <1>5, <1>8

(* What a thread holds is among it, and it is nothing when nobody holds.   *)
LEMMA HoldsAtLeast ==
  ASSUME TypeOK, NEW s \in Slots
  PROVE  /\ \A t \in Threads : /\ Uses(t, s) \in Nat
                               /\ Holds(s) >= Uses(t, s) + Net(s)
                               /\ t \in Holders(s) => Holds(s) >= 1 + Net(s)
         /\ \A t, u \in Threads : t # u /\ Uses(t, s) > 0 /\ u \in Holders(s) => Holds(s) > 1
         /\ Holds(s) = 0 => Net(s) = 0 /\ Holders(s) = {} /\ Owers(s) = {}
         /\ Net(s) = 0 /\ Holders(s) = {} /\ Owers(s) = {} => Holds(s) = 0
<1>1. PICK h \in Nat, o \in Nat, n \in Nat :
        /\ h = Cardinality(Holders(s)) /\ o = Cardinality(Owers(s)) /\ n = Net(s)
        /\ Holds(s) = h + o + n
  BY HoldsIs DEF Summed
<1>2. /\ IsFiniteSet(Holders(s)) /\ IsFiniteSet(Owers(s))
      /\ Holders(s) \in SUBSET Threads /\ Owers(s) \in SUBSET Threads
  BY ThreadsFinite, FS_Subset DEF Holders, Owers
<1>3. (h = 0 <=> Holders(s) = {}) /\ (o = 0 <=> Owers(s) = {})
  BY <1>1, <1>2, FS_EmptySet
<1>4. ASSUME NEW t \in Threads
      PROVE  Uses(t, s) = (IF t \in Holders(s) THEN 1 ELSE 0) + (IF t \in Owers(s) THEN 1 ELSE 0)
  BY DEF Uses, Holders, Owers
<1>5. ASSUME NEW t \in Threads
      PROVE  Uses(t, s) \in Nat /\ Holds(s) >= Uses(t, s) + n
             /\ (t \in Holders(s) => Holds(s) >= 1 + n)
  <2>1. (t \in Holders(s) => h >= 1) /\ (t \in Owers(s) => o >= 1)
    BY <1>1, <1>3
  <2> QED
    BY <1>1, <1>4, <2>1
<1>6. ASSUME NEW t \in Threads, NEW u \in Threads, t # u, Uses(t, s) > 0, u \in Holders(s)
      PROVE  Holds(s) > 1
  <2>1. CASE t \in Owers(s)
    <3>1. h >= 1 /\ o >= 1
      BY <1>1, <1>3, <1>6, <2>1
    <3> QED
      BY <1>1, <3>1
  <2>2. CASE t \notin Owers(s)
    <3>1. t \in Holders(s)
      BY <1>4, <1>6, <2>2
    <3>2. {t, u} \in SUBSET Holders(s)
      BY <1>6, <3>1
    <3>3. IsFiniteSet({}) /\ Cardinality({}) = 0
      BY FS_EmptySet
    <3>4. IsFiniteSet({} \cup {t}) /\ Cardinality({} \cup {t}) = 1
      BY <3>3, FS_AddElement
    <3>5. Cardinality(({} \cup {t}) \cup {u}) = 2
      <4>1. u \notin {} \cup {t}
        BY <1>6
      <4>2. Cardinality(({} \cup {t}) \cup {u}) = Cardinality({} \cup {t}) + 1
        BY <3>4, <4>1, FS_AddElement
      <4> QED
        BY <3>4, <4>2
    <3>6. {t, u} = ({} \cup {t}) \cup {u}
      OBVIOUS
    <3>7. Cardinality({t, u}) <= Cardinality(Holders(s))
      BY <1>2, <3>2, FS_Subset
    <3>8. h >= 2
      BY <1>1, <3>5, <3>6, <3>7
    <3> QED
      BY <1>1, <3>8
  <2> QED
    BY <2>1, <2>2
<1>7. ASSUME Holds(s) = 0 PROVE n = 0 /\ Holders(s) = {} /\ Owers(s) = {}
  <2>1. h + o + n = 0
    BY <1>1, <1>7
  <2>2. h = 0 /\ o = 0 /\ n = 0
    BY <2>1
  <2> QED
    BY <1>3, <2>2
<1>8. ASSUME n = 0, Holders(s) = {}, Owers(s) = {} PROVE Holds(s) = 0
  <2>1. h = 0 /\ o = 0
    BY <1>3, <1>8
  <2> QED
    BY <1>1, <1>8, <2>1
<1> QED
  BY <1>1, <1>5, <1>6, <1>7, <1>8

(* What becomes of the sum when one thread moves.                          *)
LEMMA HoldsStep ==
  ASSUME TypeOK, TypeOK', NEW t \in Threads, Settle(t),
         \A u \in Threads : u # t => cur'[u] = cur[u], NEW s \in Slots
  PROVE  /\ Uses(t, s) \in Nat /\ Uses(t, s)' \in Nat
         /\ Net(s) \in Nat /\ Net(s)' \in Nat /\ Holds(s) \in Nat /\ Holds(s)' \in Nat
         /\ Holds(s)' + Net(s) + Uses(t, s) = Holds(s) + Net(s)' + Uses(t, s)'
<1>1. PICK h \in Nat, o \in Nat, n \in Nat :
        /\ h = Cardinality(Holders(s)) /\ o = Cardinality(Owers(s)) /\ n = Net(s)
        /\ Holds(s) = h + o + n
  BY HoldsIs DEF Summed
<1>2. Summed'
  BY HoldsIs, PTL
<1>3. PICK hh \in Nat, oo \in Nat, nn \in Nat :
        /\ hh = Cardinality(Holders(s)') /\ oo = Cardinality(Owers(s)') /\ nn = Net(s)'
        /\ Holds(s)' = hh + oo + nn
  BY <1>2 DEF Summed
<1>4. /\ Holders(s) \in SUBSET Threads /\ Holders(s)' \in SUBSET Threads
      /\ Owers(s) \in SUBSET Threads /\ Owers(s)' \in SUBSET Threads
      /\ \A u \in Threads : u # t => (u \in Holders(s) <=> u \in Holders(s)')
      /\ \A u \in Threads : u # t => (u \in Owers(s) <=> u \in Owers(s)')
  BY DEF Holders, Owers, Owes, Settle
<1>5. PICK a \in {0, 1}, b \in {0, 1}, c \in {0, 1}, d \in {0, 1} :
        /\ a = (IF t \in Holders(s) THEN 1 ELSE 0) /\ b = (IF t \in Owers(s) THEN 1 ELSE 0)
        /\ c = (IF t \in Holders(s)' THEN 1 ELSE 0) /\ d = (IF t \in Owers(s)' THEN 1 ELSE 0)
  OBVIOUS
<1>6. hh + a = h + c /\ oo + b = o + d
  <2>1. hh + a = h + c
    BY <1>1, <1>3, <1>4, <1>5, MoveCard
  <2>2. oo + b = o + d
    BY <1>1, <1>3, <1>4, <1>5, MoveCard
  <2> QED
    BY <2>1, <2>2
<1>7. Uses(t, s) = a + b /\ Uses(t, s)' = c + d
  BY <1>5 DEF Uses, Holders, Owers
<1> QED
  BY <1>1, <1>3, <1>6, <1>7

(* A slot that no thread comes to or leaves while it uses it.              *)
Off(u, s) ==
  cur'[u] # s /\ (cur[u] # s \/ (pc[u] = "idle" /\ ret[u] = <<>>))
Still(u) == pc'[u] = pc[u] /\ ret'[u] = ret[u] /\ cur'[u] = cur[u]
LEMMA HoldsSame ==
  ASSUME TypeOK, TypeOK', NEW s \in Slots, \A u \in Threads : Still(u) \/ Off(u, s),
         Net(s)' = Net(s)
  PROVE  Holds(s)' = Holds(s)
<1>1. Summed'
  BY HoldsIs, PTL
<1>2. Holds(s) = Cardinality(Holders(s)) + Cardinality(Owers(s)) + Net(s)
  BY HoldsIs DEF Summed
<1>3. "idle" \notin HoldPoints /\ DOMAIN <<>> = {}
  BY DEF HoldPoints
<1>4. Holders(s)' = Holders(s)
  BY <1>3 DEF Holders, Still, Off
<1>5. Owers(s)' = Owers(s)
  BY <1>3 DEF Owers, Owes, Still, Off
<1> QED
  BY <1>1, <1>2, <1>4, <1>5 DEF Summed

-----------------------------------------------------------------------------
(* The calls a thread may have to return from.                             *)
HasDec(q) == \E i \in DOMAIN q : q[i] = "dec"
LEMMA Frames ==
  /\ <<>> \in Seq(ReturnPoints) /\ <<"dec">> \in Seq(ReturnPoints)
  /\ <<"rp_discon", "dec">> \in Seq(ReturnPoints)
  /\ <<"dec">> # <<>> /\ Head(<<"dec">>) = "dec" /\ Tail(<<"dec">>) = <<>>
  /\ <<"rp_discon", "dec">> # <<>> /\ Head(<<"rp_discon", "dec">>) = "rp_discon"
  /\ Tail(<<"rp_discon", "dec">>) = <<"dec">>
  /\ <<"dis_check", "rp_discon", "dec">> # <<>>
  /\ Head(<<"dis_check", "rp_discon", "dec">>) = "dis_check"
  /\ Tail(<<"dis_check", "rp_discon", "dec">>) = <<"rp_discon", "dec">>
  /\ <<"snd_check">> # <<>> /\ Head(<<"snd_check">>) = "snd_check" /\ Tail(<<"snd_check">>) = <<>>
  /\ <<"dis_check">> # <<>> /\ Head(<<"dis_check">>) = "dis_check" /\ Tail(<<"dis_check">>) = <<>>
  /\ ~HasDec(<<>>) /\ ~HasDec(<<"snd_check">>) /\ ~HasDec(<<"dis_check">>)
  /\ HasDec(<<"dec">>) /\ HasDec(<<"rp_discon", "dec">>)
  /\ HasDec(<<"dis_check", "rp_discon", "dec">>)
<1>1. ~HasDec(<<>>) /\ ~HasDec(<<"snd_check">>) /\ ~HasDec(<<"dis_check">>)
  BY DEF HasDec
<1>2. HasDec(<<"dec">>)
  <2>1. 1 \in DOMAIN <<"dec">> /\ <<"dec">>[1] = "dec"
    OBVIOUS
  <2> QED
    BY <2>1 DEF HasDec
<1>3. HasDec(<<"rp_discon", "dec">>)
  <2>1. 2 \in DOMAIN <<"rp_discon", "dec">> /\ <<"rp_discon", "dec">>[2] = "dec"
    OBVIOUS
  <2> QED
    BY <2>1 DEF HasDec
<1>4. HasDec(<<"dis_check", "rp_discon", "dec">>)
  <2>1. /\ 3 \in DOMAIN <<"dis_check", "rp_discon", "dec">>
        /\ <<"dis_check", "rp_discon", "dec">>[3] = "dec"
    OBVIOUS
  <2> QED
    BY <2>1 DEF HasDec
<1>5. /\ <<>> \in Seq(ReturnPoints) /\ <<"dec">> \in Seq(ReturnPoints)
      /\ <<"rp_discon", "dec">> \in Seq(ReturnPoints)
  BY DEF ReturnPoints
<1>6. Tail(<<"dec">>) = <<>> /\ Tail(<<"snd_check">>) = <<>> /\ Tail(<<"dis_check">>) = <<>>
  OBVIOUS
<1>7. Tail(<<"rp_discon", "dec">>) = <<"dec">>
  OBVIOUS
<1>8. Tail(<<"dis_check", "rp_discon", "dec">>) = <<"rp_discon", "dec">>
  OBVIOUS
<1> QED
  BY <1>1, <1>2, <1>3, <1>4, <1>5, <1>6, <1>7, <1>8

(* Where a call returns to.                                                *)
LEMMA ReturnShape ==
  ASSUME TypeOK, NEW t \in Threads, Return(t)
  PROVE  /\ ret[t] = <<>> => pc'[t] = "idle" /\ ret'[t] = <<>>
         /\ ret[t] = <<"dec">> => pc'[t] = "dec" /\ ret'[t] = <<>>
         /\ ret[t] = <<"rp_discon", "dec">> => pc'[t] = "rp_discon" /\ ret'[t] = <<"dec">>
         /\ ret[t] = <<"dis_check", "rp_discon", "dec">> =>
              pc'[t] = "dis_check" /\ ret'[t] = <<"rp_discon", "dec">>
         /\ ret[t] = <<"snd_check">> => pc'[t] = "snd_check" /\ ret'[t] = <<>>
         /\ ret[t] = <<"dis_check">> => pc'[t] = "dis_check" /\ ret'[t] = <<>>
<1>1. /\ pc'[t] = IF ret[t] = <<>> THEN "idle" ELSE Head(ret[t])
      /\ ret'[t] = IF ret[t] = <<>> THEN <<>> ELSE Tail(ret[t])
  BY DEF Return, TypeOK, ControlType
<1> QED
  BY <1>1, Frames

(* A thread at a point of use holds the session: it owes a decrement, now  *)
(* or where it returns to.                                                 *)
UseOf(p, q)  == (IF p \in HoldPoints THEN 1 ELSE 0) + (IF HasDec(q) THEN 1 ELSE 0)
ReadOf(p, q) == p \in {"rp_discon", "rp_inc", "rp_recv"} \/ HasRead(q)
LEMMA UsesIs ==
  ASSUME NEW t \in Threads
  PROVE  /\ Uses(t, cur[t]) = UseOf(pc[t], ret[t])
         /\ \A s : s = cur'[t] => Uses(t, s)' = UseOf(pc'[t], ret'[t])
         /\ \A s : s # cur[t] => Uses(t, s) = 0
         /\ \A s : s # cur'[t] => Uses(t, s)' = 0
BY DEF Uses, UseOf, Owes, HasDec

(* So a thread that uses a session keeps its count from zero.              *)
LEMMA UsersUse ==
  ASSUME NEW t \in Threads, Shape(t), pc[t] \in UsePoints
  PROVE  Uses(t, cur[t]) > 0
<1>1. CASE pc[t] \in RecvPoints \cup SendPoints
  <2>1. ret[t] = <<"dec">>
    BY <1>1 DEF Shape, ShapeOf
  <2> QED
    BY <2>1, UsesIs, Frames DEF UseOf
<1>2. CASE pc[t] \in ClosePoints \cup PacketPoints \cup {"dec", "sc_flag", "sc_check"}
  <2>1. pc[t] \in HoldPoints
    BY <1>2 DEF ClosePoints, PacketPoints, HoldPoints
  <2> QED
    BY <2>1, UsesIs DEF UseOf
<1> QED
  BY <1>1, <1>2 DEF UsePoints

-----------------------------------------------------------------------------
(* What the network's part of the sums becomes.                            *)
Nets(s) == Net(s) \in Nat /\ ReadNet(s) \in Nat /\ SendNet(s) \in Nat
LEMMA NetsType ==
  ASSUME TypeOK, NEW s \in Slots
  PROVE  /\ Nets(s) /\ Cardinality(Among(cq, OfRecv(s))) \in Nat
         /\ Cardinality(Among(cq, OfSent(s))) \in Nat
         /\ ReadNet(s) = (IF s \in recvPend THEN 1 ELSE 0) + Cardinality(Among(cq, OfRecv(s)))
         /\ SendNet(s) = (IF s \in sendPend THEN 1 ELSE 0) + Cardinality(Among(cq, OfSent(s)))
<1>1. cq \in Seq(Completions)
  BY DEF TypeOK, NetType, Completions, Kinds
<1>2. Cardinality(Among(cq, OfRecv(s))) \in Nat /\ Cardinality(Among(cq, OfSent(s))) \in Nat
  BY <1>1, AmongFinite
<1>3. /\ ReadNet(s) = (IF s \in recvPend THEN 1 ELSE 0) + Cardinality(Among(cq, OfRecv(s)))
      /\ SendNet(s) = (IF s \in sendPend THEN 1 ELSE 0) + Cardinality(Among(cq, OfSent(s)))
  BY DEF ReadNet, SendNet, Among
<1> QED
  BY <1>2, <1>3, NetZero DEF Nets

(* A completion of some kind is queued.                                    *)
LEMMA KindQueued ==
  ASSUME TypeOK, NEW r \in Slots, NEW k \in Kinds, Queue(k, r), NEW s \in Slots
  PROVE  /\ Cardinality(Among(cq, OfRecv(s)))' = Cardinality(Among(cq, OfRecv(s)))
                + (IF s = r /\ k \in {"recv", "recv_end"} THEN 1 ELSE 0)
         /\ Cardinality(Among(cq, OfSent(s)))' = Cardinality(Among(cq, OfSent(s)))
                + (IF s = r /\ k = "sent" THEN 1 ELSE 0)
<1>1. cq \in Seq(Completions)
  BY DEF TypeOK, NetType, Completions, Kinds
<1>2. PICK e : e = [kind |-> k, slot |-> r]
  OBVIOUS
<1>3. /\ e \in Completions /\ e.slot = r /\ e.kind = k /\ cq' = Append(cq, e)
  BY <1>2 DEF Completions, Queue
<1>4. e \in OfRecv(s) <=> (s = r /\ k \in {"recv", "recv_end"})
  <2>1. \A x : e = [kind |-> x, slot |-> s] <=> (k = x /\ s = r)
    BY <1>2
  <2> QED
    BY <2>1 DEF OfRecv
<1>5. e \in OfSent(s) <=> (s = r /\ k = "sent")
  <2>1. \A x : e = [kind |-> x, slot |-> s] <=> (k = x /\ s = r)
    BY <1>2
  <2> QED
    BY <2>1 DEF OfSent
<1>6. Cardinality(Among(Append(cq, e), OfRecv(s)))
        = Cardinality(Among(cq, OfRecv(s))) + (IF e \in OfRecv(s) THEN 1 ELSE 0)
  BY <1>1, <1>3, AmongAppend
<1>7. Cardinality(Among(Append(cq, e), OfSent(s)))
        = Cardinality(Among(cq, OfSent(s))) + (IF e \in OfSent(s) THEN 1 ELSE 0)
  BY <1>1, <1>3, AmongAppend
<1>8. /\ Among(cq, OfRecv(s))' = Among(Append(cq, e), OfRecv(s))
      /\ Among(cq, OfSent(s))' = Among(Append(cq, e), OfSent(s))
  BY <1>3 DEF Among, OfRecv, OfSent
<1> QED
  BY <1>4, <1>5, <1>6, <1>7, <1>8

(* The network is left alone.                                              *)
LEMMA NetKept ==
  ASSUME UNCHANGED <<recvPend, sendPend, cq>>, NEW s \in Slots
  PROVE  Net(s)' = Net(s) /\ ReadNet(s)' = ReadNet(s) /\ SendNet(s)' = SendNet(s)
BY DEF Net, Coming, ReadNet, SendNet, OfRecv, OfSent

(* A request is queued.                                                    *)
LEMMA NetRequest ==
  ASSUME TypeOK, NEW r \in Slots, Queue("request", r), UNCHANGED <<recvPend, sendPend>>,
         NEW s \in Slots
  PROVE  /\ Net(s)' = Net(s) + (IF s = r THEN 1 ELSE 0)
         /\ ReadNet(s)' = ReadNet(s) /\ SendNet(s)' = SendNet(s)
<1>1. Coming(s) \in Nat /\ Coming(s)' = Coming(s) + (IF s = r THEN 1 ELSE 0)
  BY ComingQueued, NetZero DEF Kinds
<1>2. /\ Cardinality(Among(cq, OfRecv(s))) \in Nat /\ Cardinality(Among(cq, OfSent(s))) \in Nat
      /\ Cardinality(Among(cq, OfRecv(s)))' = Cardinality(Among(cq, OfRecv(s)))
      /\ Cardinality(Among(cq, OfSent(s)))' = Cardinality(Among(cq, OfSent(s)))
  <2>1. "request" \in Kinds /\ "request" \notin {"recv", "recv_end", "sent"}
    BY DEF Kinds
  <2> QED
    BY <2>1, NetsType, KindQueued
<1>3. Net(s)' = Net(s) + (IF s = r THEN 1 ELSE 0)
  BY <1>1 DEF Net
<1> QED
  BY <1>2, <1>3 DEF ReadNet, SendNet, Among

(* A receive is pending, or a send.                                        *)
LEMMA NetIssued ==
  ASSUME TypeOK, NEW r \in Slots, UNCHANGED cq, NEW s \in Slots
  PROVE  /\ recvPend' = recvPend \cup {r} /\ r \notin recvPend /\ UNCHANGED sendPend =>
              /\ Net(s)' = Net(s) + (IF s = r THEN 1 ELSE 0)
              /\ ReadNet(s)' = ReadNet(s) + (IF s = r THEN 1 ELSE 0)
              /\ SendNet(s)' = SendNet(s)
         /\ sendPend' = sendPend \cup {r} /\ r \notin sendPend /\ UNCHANGED recvPend =>
              /\ Net(s)' = Net(s) + (IF s = r THEN 1 ELSE 0)
              /\ SendNet(s)' = SendNet(s) + (IF s = r THEN 1 ELSE 0)
              /\ ReadNet(s)' = ReadNet(s)
<1>1. PICK c \in Nat, a \in Nat, b \in Nat :
        /\ c = Coming(s) /\ a = Cardinality({i \in DOMAIN cq : cq[i] \in OfRecv(s)})
        /\ b = Cardinality({i \in DOMAIN cq : cq[i] \in OfSent(s)})
  BY NetZero, NetsType DEF Among
<1>2. /\ c = Coming(s)' /\ a = Cardinality({i \in DOMAIN cq : cq[i] \in OfRecv(s)})'
      /\ b = Cardinality({i \in DOMAIN cq : cq[i] \in OfSent(s)})'
  BY <1>1 DEF Coming, OfRecv, OfSent
<1> QED
  BY <1>1, <1>2 DEF Net, ReadNet, SendNet

(* A pending receive ends, or a pending send.                              *)
LEMMA NetEnds ==
  ASSUME TypeOK, NEW r \in Slots, NEW k \in Kinds, Queue(k, r), NEW s \in Slots
  PROVE  /\ /\ r \in recvPend /\ recvPend' = recvPend \ {r} /\ UNCHANGED sendPend
            /\ k \in {"recv", "recv_end"}
            => /\ Net(s)' = Net(s) /\ ReadNet(s)' = ReadNet(s) /\ SendNet(s)' = SendNet(s)
         /\ /\ r \in sendPend /\ sendPend' = sendPend \ {r} /\ UNCHANGED recvPend
            /\ k = "sent"
            => /\ Net(s)' = Net(s) /\ ReadNet(s)' = ReadNet(s) /\ SendNet(s)' = SendNet(s)
<1>1. PICK c \in Nat, a \in Nat, b \in Nat :
        /\ c = Coming(s) /\ a = Cardinality(Among(cq, OfRecv(s)))
        /\ b = Cardinality(Among(cq, OfSent(s)))
  BY NetZero, NetsType
<1>2. /\ Coming(s)' = c + (IF s = r THEN 1 ELSE 0)
      /\ Cardinality(Among(cq, OfRecv(s)))'
           = a + (IF s = r /\ k \in {"recv", "recv_end"} THEN 1 ELSE 0)
      /\ Cardinality(Among(cq, OfSent(s)))' = b + (IF s = r /\ k = "sent" THEN 1 ELSE 0)
  BY <1>1, ComingQueued, KindQueued
<1>3. /\ Net(s) = (IF s \in recvPend THEN 1 ELSE 0) + (IF s \in sendPend THEN 1 ELSE 0) + c
      /\ Net(s)' = (IF s \in recvPend' THEN 1 ELSE 0) + (IF s \in sendPend' THEN 1 ELSE 0)
                     + (c + (IF s = r THEN 1 ELSE 0))
  BY <1>1, <1>2 DEF Net
<1>4. /\ ReadNet(s) = (IF s \in recvPend THEN 1 ELSE 0) + a
      /\ SendNet(s) = (IF s \in sendPend THEN 1 ELSE 0) + b
      /\ ReadNet(s)' = (IF s \in recvPend' THEN 1 ELSE 0)
                         + (a + (IF s = r /\ k \in {"recv", "recv_end"} THEN 1 ELSE 0))
      /\ SendNet(s)' = (IF s \in sendPend' THEN 1 ELSE 0)
                         + (b + (IF s = r /\ k = "sent" THEN 1 ELSE 0))
  BY <1>1, <1>2 DEF ReadNet, SendNet, Among
<1>5. CASE /\ r \in recvPend /\ recvPend' = recvPend \ {r} /\ UNCHANGED sendPend
           /\ k \in {"recv", "recv_end"}
  BY <1>1, <1>3, <1>4, <1>5
<1>6. CASE /\ r \in sendPend /\ sendPend' = sendPend \ {r} /\ UNCHANGED recvPend /\ k = "sent"
  BY <1>1, <1>3, <1>4, <1>6
<1> QED
  BY <1>5, <1>6

(* A worker takes a completion.                                            *)
LEMMA NetTaken ==
  ASSUME TypeOK, NEW t \in Threads, NEW k \in Kinds, Take(t, k),
         UNCHANGED <<recvPend, sendPend>>, NEW s \in Slots
  PROVE  /\ Net(s) = Net(s)' + (IF s = Head(cq).slot THEN 1 ELSE 0)
         /\ ReadNet(s) = ReadNet(s)'
              + (IF s = Head(cq).slot /\ k \in {"recv", "recv_end"} THEN 1 ELSE 0)
         /\ SendNet(s) = SendNet(s)' + (IF s = Head(cq).slot /\ k = "sent" THEN 1 ELSE 0)
         /\ Nets(s)' /\ Head(cq).slot \in Slots
<1>1. /\ cq \in Seq(Completions) /\ cq # <<>> /\ cq' = Tail(cq) /\ Head(cq).kind = k
  BY DEF TypeOK, NetType, Completions, Kinds, Take
<1>2. PICK e \in Completions : e = Head(cq)
  BY <1>1, HeadTailProperties
<1>3. e.kind = k /\ e.slot \in Slots
  BY <1>1, <1>2 DEF Completions
<1>4. e \in OfRecv(s) <=> (s = e.slot /\ k \in {"recv", "recv_end"})
  <2>1. \A x \in Kinds : e = [kind |-> x, slot |-> s] <=> (k = x /\ s = e.slot)
    BY <1>2, <1>3 DEF Completions
  <2> QED
    BY <2>1 DEF OfRecv, Kinds
<1>5. e \in OfSent(s) <=> (s = e.slot /\ k = "sent")
  <2>1. \A x \in Kinds : e = [kind |-> x, slot |-> s] <=> (k = x /\ s = e.slot)
    BY <1>2, <1>3 DEF Completions
  <2> QED
    BY <2>1 DEF OfSent, Kinds
<1>6. PICK c \in Nat, a \in Nat, b \in Nat :
        /\ c = Coming(s)' /\ a = Cardinality(Among(Tail(cq), OfRecv(s)))
        /\ b = Cardinality(Among(Tail(cq), OfSent(s)))
        /\ Coming(s) = c + (IF s = e.slot THEN 1 ELSE 0)
        /\ Cardinality(Among(cq, OfRecv(s))) = a + (IF e \in OfRecv(s) THEN 1 ELSE 0)
        /\ Cardinality(Among(cq, OfSent(s))) = b + (IF e \in OfSent(s) THEN 1 ELSE 0)
  BY <1>1, <1>2, ComingTaken, AmongTail
<1>7. /\ ReadNet(s) = (IF s \in recvPend THEN 1 ELSE 0) + Cardinality(Among(cq, OfRecv(s)))
      /\ SendNet(s) = (IF s \in sendPend THEN 1 ELSE 0) + Cardinality(Among(cq, OfSent(s)))
      /\ ReadNet(s)' = (IF s \in recvPend THEN 1 ELSE 0) + a
      /\ SendNet(s)' = (IF s \in sendPend THEN 1 ELSE 0) + b
  BY <1>1, <1>6 DEF ReadNet, SendNet, Among, OfRecv, OfSent
<1>8. /\ Net(s) = (IF s \in recvPend THEN 1 ELSE 0) + (IF s \in sendPend THEN 1 ELSE 0)
                    + Coming(s)
      /\ Net(s)' = (IF s \in recvPend THEN 1 ELSE 0) + (IF s \in sendPend THEN 1 ELSE 0) + c
  BY <1>6 DEF Net
<1>9. Nets(s)'
  BY <1>6, <1>7, <1>8 DEF Nets
<1> QED
  BY <1>2, <1>3, <1>4, <1>5, <1>6, <1>7, <1>8, <1>9

-----------------------------------------------------------------------------
(* What becomes of the receivers and the senders of a slot when a thread   *)
(* moves.                                                                  *)
ReadUse(t, s) == IF cur[t] = s /\ Reads(t) THEN 1 ELSE 0
SendUse(t, s) == IF cur[t] = s /\ pc[t] \in Senderships THEN 1 ELSE 0
RolesOK ==
  \A s \in Slots :
    /\ Nets(s)
    /\ Cardinality(Readings(s)) \in Nat /\ Cardinality(Owners(s, Senderships)) \in Nat
    /\ Readers(s) = Cardinality(Readings(s)) + ReadNet(s)
    /\ Senders(s) = Cardinality(Owners(s, Senderships)) + SendNet(s)
(* Both sums consist of numbers.                                           *)
LEMMA RolesAre == TypeOK => RolesOK
<1> SUFFICES ASSUME TypeOK, NEW s \in Slots
             PROVE  /\ Nets(s) /\ Cardinality(Readings(s)) \in Nat
                    /\ Cardinality(Owners(s, Senderships)) \in Nat
                    /\ Readers(s) = Cardinality(Readings(s)) + ReadNet(s)
                    /\ Senders(s) = Cardinality(Owners(s, Senderships)) + SendNet(s)
  BY DEF RolesOK
<1>1. Readings(s) \in SUBSET Threads /\ Owners(s, Senderships) \in SUBSET Threads
  BY DEF Readings, Owners
<1>2. Cardinality(Readings(s)) \in Nat /\ Cardinality(Owners(s, Senderships)) \in Nat
  BY <1>1, ThreadsFinite, FS_Subset, FS_CardinalityType
<1>3. Cardinality({s} \cap sendPend) = IF s \in sendPend THEN 1 ELSE 0
  <2>1. {s} \cap sendPend = IF s \in sendPend THEN {s} ELSE {}
    OBVIOUS
  <2> QED
    BY <2>1, FS_Singleton, FS_EmptySet
<1>4. {i \in DOMAIN cq : cq[i] = [kind |-> "sent", slot |-> s]}
        = {i \in DOMAIN cq : cq[i] \in OfSent(s)}
  BY DEF OfSent
<1>5. PICK b \in Nat : b = Cardinality({i \in DOMAIN cq : cq[i] \in OfSent(s)})
  BY NetsType DEF Among
<1>6. Senders(s) = Cardinality(Owners(s, Senderships)) + (IF s \in sendPend THEN 1 ELSE 0) + b
  BY <1>3, <1>4, <1>5 DEF Senders, Senderships
<1>7. SendNet(s) = (IF s \in sendPend THEN 1 ELSE 0) + b
  BY <1>5 DEF SendNet
<1> QED
  BY <1>2, <1>6, <1>7, NetsType DEF Readers

(* One thread moves.                                                       *)
LEMMA RolesStep ==
  ASSUME TypeOK, TypeOK', NEW t \in Threads, Settle(t),
         \A u \in Threads : u # t => cur'[u] = cur[u], NEW s \in Slots
  PROVE  /\ Nets(s) /\ Nets(s)' /\ Readers(s) \in Nat /\ Readers(s)' \in Nat
         /\ Senders(s) \in Nat /\ Senders(s)' \in Nat
         /\ Readers(s)' + ReadNet(s) + ReadUse(t, s)
              = Readers(s) + ReadNet(s)' + ReadUse(t, s)'
         /\ Senders(s)' + SendNet(s) + SendUse(t, s)
              = Senders(s) + SendNet(s)' + SendUse(t, s)'
<1>1. RolesOK /\ RolesOK'
  BY RolesAre, PTL
<1>2. PICK a \in Nat, b \in Nat, m \in Nat, n \in Nat :
        /\ a = Cardinality(Readings(s)) /\ b = Cardinality(Owners(s, Senderships))
        /\ m = ReadNet(s) /\ n = SendNet(s) /\ Readers(s) = a + m /\ Senders(s) = b + n
  BY <1>1 DEF RolesOK, Nets
<1>3. PICK aa \in Nat, bb \in Nat, mm \in Nat, nn \in Nat :
        /\ aa = Cardinality(Readings(s)') /\ bb = Cardinality(Owners(s, Senderships)')
        /\ mm = ReadNet(s)' /\ nn = SendNet(s)' /\ Readers(s)' = aa + mm /\ Senders(s)' = bb + nn
  BY <1>1 DEF RolesOK, Nets
<1>4. /\ Readings(s) \in SUBSET Threads /\ Readings(s)' \in SUBSET Threads
      /\ Owners(s, Senderships) \in SUBSET Threads /\ Owners(s, Senderships)' \in SUBSET Threads
      /\ \A u \in Threads : u # t => (u \in Readings(s) <=> u \in Readings(s)')
      /\ \A u \in Threads :
           u # t => (u \in Owners(s, Senderships) <=> u \in Owners(s, Senderships)')
  BY DEF Readings, Owners, Senderships, Reads, HasRead, Settle
<1>5. /\ aa + (IF t \in Readings(s) THEN 1 ELSE 0) = a + (IF t \in Readings(s)' THEN 1 ELSE 0)
      /\ bb + (IF t \in Owners(s, Senderships) THEN 1 ELSE 0)
           = b + (IF t \in Owners(s, Senderships)' THEN 1 ELSE 0)
  BY <1>2, <1>3, <1>4, MoveCard
<1>6. PICK x \in {0, 1}, y \in {0, 1}, z \in {0, 1}, w \in {0, 1} :
        /\ x = ReadUse(t, s) /\ y = ReadUse(t, s)' /\ z = SendUse(t, s) /\ w = SendUse(t, s)'
        /\ aa + x = a + y /\ bb + z = b + w
  BY <1>5 DEF ReadUse, SendUse, Readings, Owners, Senderships
<1>7. /\ (aa + mm) + m + x = (a + m) + mm + y /\ (bb + nn) + n + z = (b + n) + nn + w
  BY <1>6
<1> QED
  BY <1>1, <1>2, <1>3, <1>6, <1>7 DEF RolesOK

(* Nothing that has to do with the slot changes.                           *)
LEMMA RolesSame ==
  ASSUME TypeOK, TypeOK', NEW s \in Slots, \A u \in Threads : Still(u) \/ Off(u, s),
         ReadNet(s)' = ReadNet(s), SendNet(s)' = SendNet(s)
  PROVE  Readers(s)' = Readers(s) /\ Senders(s)' = Senders(s)
<1>1. RolesOK /\ RolesOK'
  BY RolesAre, PTL
<1>2. "idle" \notin {"rp_discon", "rp_inc", "rp_recv"} \cup Senderships /\ DOMAIN <<>> = {}
  BY DEF Senderships
<1>3. Readings(s)' = Readings(s)
  BY <1>2 DEF Readings, Reads, HasRead, Still, Off
<1>4. Owners(s, Senderships)' = Owners(s, Senderships)
  BY <1>2 DEF Owners, Still, Off
<1> QED
  BY <1>1, <1>3, <1>4 DEF RolesOK

-----------------------------------------------------------------------------
(* A step inside a call that uses its session: what it does to IOCount it  *)
(* does to the decrements that are owed, it passes the right to receive or *)
(* to send on at most once, and other slots are not touched.               *)
Exchanged(s) ==
  /\ drift'[s] >= drift[s]
  /\ ioCount'[s] + drift[s] + Holds(s) = ioCount[s] + drift'[s] + Holds(s)'
Unmoved(s) ==
  /\ ioCount'[s] = ioCount[s] /\ drift'[s] = drift[s] /\ sendFlag'[s] = sendFlag[s]
  /\ Net(s)' = Net(s) /\ ReadNet(s)' = ReadNet(s) /\ SendNet(s)' = SendNet(s)
Trades(t) ==
  /\ pc[t] \in UsePoints /\ Settle(t) /\ Shape(t)'
  /\ pc'[t] \in UsePoints \cup {"idle", "rel_cas"}
  /\ UNCHANGED <<cur, sessionID, releaseFlag, posted, count>>
  /\ OnTime(cur[t]) => Exchanged(cur[t]) /\ OneAtATime(cur[t])'
  /\ \A s \in Slots : s # cur[t] => Unmoved(s)

(* What happens to the count and to drift.                                 *)
Counts(t, k, d) ==
  /\ AddIO(t, k) \/ (k = 0 /\ UNCHANGED life)
  /\ Drift(t, d) \/ (d = 0 /\ UNCHANGED drift)
LEMMA CountsAre ==
  ASSUME Typed, NEW t \in Threads, NEW k \in Int, NEW d \in Nat, Counts(t, k, d)
  PROVE  /\ ioCount'[cur[t]] = ioCount[cur[t]] + k /\ drift'[cur[t]] = drift[cur[t]] + d
         /\ ioCount[cur[t]] \in Int /\ drift[cur[t]] \in Int
         /\ \A s \in Slots : s # cur[t] => ioCount'[s] = ioCount[s] /\ drift'[s] = drift[s]
         /\ UNCHANGED <<sessionID, releaseFlag>>
<1>1. cur[t] \in Slots /\ ioCount \in [Slots -> Int] /\ drift \in [Slots -> Int]
  BY DEF Typed, TypeOK, CallType, LifeType
<1>2. /\ ioCount'[cur[t]] = ioCount[cur[t]] + k
      /\ \A s \in Slots : s # cur[t] => ioCount'[s] = ioCount[s]
      /\ UNCHANGED <<sessionID, releaseFlag>>
  <2>1. CASE AddIO(t, k)
    BY <1>1, <2>1 DEF AddIO
  <2>2. CASE k = 0 /\ UNCHANGED life
    BY <1>1, <2>2 DEF life
  <2> QED
    BY <2>1, <2>2 DEF Counts
<1>3. /\ drift'[cur[t]] = drift[cur[t]] + d
      /\ \A s \in Slots : s # cur[t] => drift'[s] = drift[s]
  <2>1. CASE Drift(t, d)
    BY <1>1, <2>1 DEF Drift
  <2>2. CASE d = 0 /\ UNCHANGED drift
    BY <1>1, <2>2
  <2> QED
    BY <2>1, <2>2 DEF Counts
<1> QED
  BY <1>1, <1>2, <1>3

(* What is added to both sides of a balance.                               *)
LEMMA BothSides ==
  ASSUME NEW i \in Int, NEW e \in Int, NEW k \in Int, NEW d \in Nat, NEW g \in Nat, NEW h \in Nat,
         g + d = h + k
  PROVE  e + d >= e /\ (i + k) + e + h = i + (e + d) + g
<1>1. e + d >= e
  OBVIOUS
<1>2. (i + k) + e + h = i + (e + d) + g
  OBVIOUS
<1> QED
  BY <1>1, <1>2

(* The arithmetic of a step that exchanges.                                *)
LEMMA ExchangedBy ==
  ASSUME Typed, Typed', NEW t \in Threads, Settle(t), UNCHANGED cur,
         NEW k \in Int, NEW d \in Nat, NEW n \in Int, Counts(t, k, d),
         Net(cur[t])' = Net(cur[t]) + n,
         UseOf(pc'[t], ret'[t]) + n + d = UseOf(pc[t], ret[t]) + k
  PROVE  Exchanged(cur[t])
<1>1. cur[t] \in Slots
  BY DEF Typed, TypeOK, CallType
<1>2. /\ Uses(t, cur[t]) = UseOf(pc[t], ret[t]) /\ Uses(t, cur[t])' = UseOf(pc'[t], ret'[t])
  BY UsesIs
<1>3. /\ ioCount'[cur[t]] = ioCount[cur[t]] + k /\ drift'[cur[t]] = drift[cur[t]] + d
      /\ ioCount[cur[t]] \in Int /\ drift[cur[t]] \in Int
  BY CountsAre
<1>4. PICK s \in Slots : s = cur[t]
  BY <1>1
<1>5. /\ Uses(t, s) \in Nat /\ Uses(t, s)' \in Nat /\ Net(s) \in Nat /\ Net(s)' \in Nat
      /\ Holds(s) \in Nat /\ Holds(s)' \in Nat
      /\ Holds(s)' + Net(s) + Uses(t, s) = Holds(s) + Net(s)' + Uses(t, s)'
  BY HoldsStep DEF Typed
<1>6. /\ Uses(t, s)' = Uses(t, cur[t])' /\ Holds(s)' = Holds(cur[t])'
      /\ Net(s)' = Net(cur[t])'
  BY <1>4
<1>7. PICK i \in Int, e \in Int : i = ioCount[cur[t]] /\ e = drift[cur[t]]
  BY <1>3
<1>8. PICK h \in Nat, m \in Nat, u \in Nat :
        h = Holds(cur[t]) /\ m = Net(cur[t]) /\ u = Uses(t, cur[t])
  BY <1>4, <1>5
<1>9. PICK hh \in Nat, v \in Nat : hh = Holds(s)' /\ v = Uses(t, s)'
  BY <1>5
<1>10. Net(s)' = m + n
  BY <1>6, <1>8
<1>11. hh + m + u = h + (m + n) + v
  BY <1>4, <1>5, <1>8, <1>9, <1>10
<1>12. v + n + d = u + k
  BY <1>2, <1>6, <1>8, <1>9
<1>13. e + d >= e /\ (i + k) + e + h = i + (e + d) + hh
  <2>1. hh + d = h + k
    BY <1>11, <1>12
  <2> QED
    BY <2>1, BothSides
<1> QED
  BY <1>3, <1>6, <1>7, <1>8, <1>9, <1>13 DEF Exchanged

(* The rights of a step that exchanges: it may keep them, give them up,    *)
(* or claim the right to send when SendFlag is found clear.                *)
One(b) == IF b THEN 1 ELSE 0
LEMMA RightsKept ==
  ASSUME Typed, Typed', NEW t \in Threads, Settle(t), UNCHANGED cur, OneAtATime(cur[t]),
         NEW a \in Int, ReadNet(cur[t])' = ReadNet(cur[t]) + a,
         NEW b \in Int, SendNet(cur[t])' = SendNet(cur[t]) + b,
         One(ReadOf(pc'[t], ret'[t])) + a <= One(ReadOf(pc[t], ret[t])),
         \/ /\ One(pc'[t] \in Senderships) + b <= One(pc[t] \in Senderships)
            /\ sendFlag'[cur[t]] = sendFlag[cur[t]] \/ sendFlag'[cur[t]] = TRUE
         \/ One(pc'[t] \in Senderships) + b < One(pc[t] \in Senderships)
         \/ b = 0 /\ pc[t] \notin Senderships /\ ~sendFlag[cur[t]] /\ sendFlag'[cur[t]]
  PROVE  OneAtATime(cur[t])'
<1>1. cur[t] \in Slots /\ sendFlag \in [Slots -> BOOLEAN] /\ sendFlag' \in [Slots -> BOOLEAN]
  BY DEF Typed, TypeOK, CallType, SendType
<1>2. PICK s \in Slots : s = cur[t]
  BY <1>1
<1>3. PICK r \in Nat, n \in Nat, x \in Nat, m \in Nat :
        r = Readers(s) /\ n = Senders(s) /\ x = ReadNet(s) /\ m = SendNet(s)
  BY RolesStep DEF Typed, Nets
<1>4. PICK rr \in Nat, nn \in Nat : rr = Readers(s)' /\ nn = Senders(s)'
  BY RolesStep DEF Typed
<1>5. /\ rr = Readers(cur[t])' /\ nn = Senders(cur[t])' /\ sendFlag'[s] = sendFlag[cur[t]]'
      /\ ReadNet(s)' = x + a /\ SendNet(s)' = m + b
  BY <1>2, <1>3, <1>4
<1>6. /\ ReadUse(t, s) = One(ReadOf(pc[t], ret[t])) /\ ReadUse(t, s)' = One(ReadOf(pc'[t], ret'[t]))
      /\ SendUse(t, s) = One(pc[t] \in Senderships)
      /\ SendUse(t, s)' = One(pc'[t] \in Senderships)
  BY <1>2 DEF ReadUse, SendUse, One, ReadOf, Reads, HasRead, Senderships
<1>7. PICK c \in {0, 1}, d \in {0, 1}, e \in {0, 1}, f \in {0, 1} :
        /\ c = One(ReadOf(pc[t], ret[t])) /\ d = One(ReadOf(pc'[t], ret'[t]))
        /\ e = One(pc[t] \in Senderships) /\ f = One(pc'[t] \in Senderships)
  BY DEF One
<1>8. rr + x + c = r + (x + a) + d /\ nn + m + e = n + (m + b) + f
  BY <1>3, <1>4, <1>5, <1>6, <1>7, RolesStep DEF Typed
<1>9. rr <= r
  BY <1>7, <1>8
<1>10. r <= 1 /\ n <= 1 /\ (n = 1 => sendFlag[s])
  BY <1>2, <1>3 DEF OneAtATime
<1>11. nn <= 1 /\ (nn = 1 => sendFlag'[s])
  <2>1. CASE /\ f + b <= e
             /\ sendFlag'[s] = sendFlag[s] \/ sendFlag'[s] = TRUE
    <3>1. nn <= n
      BY <1>8, <2>1
    <3> QED
      BY <1>10, <2>1, <3>1
  <2>2. CASE f + b < e
    <3>1. nn < n
      BY <1>8, <2>2
    <3> QED
      BY <1>10, <3>1
  <2>3. CASE b = 0 /\ e = 0 /\ ~sendFlag[s] /\ sendFlag'[s]
    <3>1. n = 0
      BY <1>10, <2>3
    <3>2. nn <= 1
      BY <1>8, <2>3, <3>1
    <3> QED
      BY <2>3, <3>2
  <2>4. pc[t] \notin Senderships => e = 0
    BY <1>7 DEF One
  <2> QED
    BY <1>2, <1>7, <2>1, <2>2, <2>3, <2>4
<1>12. rr <= 1
  BY <1>9, <1>10
<1> QED
  BY <1>2, <1>5, <1>11, <1>12 DEF OneAtATime

(* A step that changes nothing in the network's part of the sums.          *)
NetSame == \A s \in Slots : Net(s)' = Net(s) /\ ReadNet(s)' = ReadNet(s) /\ SendNet(s)' = SendNet(s)
LEMMA TradesBy ==
  ASSUME Sound, Typed', NEW t \in Threads, pc[t] \in UsePoints, Settle(t),
         pc'[t] \in UsePoints \cup {"idle", "rel_cas"}, ShapeOf(t, pc'[t], ret'[t]),
         UNCHANGED <<cur, posted, count>>, UNCHANGED <<recvPend, sendPend, cq>> \/ NetSame,
         NEW k \in Int, NEW d \in Nat, Counts(t, k, d),
         UseOf(pc'[t], ret'[t]) + d = UseOf(pc[t], ret[t]) + k,
         ReadOf(pc'[t], ret'[t]) => ReadOf(pc[t], ret[t]),
         \A s \in Slots : s # cur[t] => sendFlag'[s] = sendFlag[s],
         \/ /\ pc'[t] \in Senderships => pc[t] \in Senderships
            /\ sendFlag'[cur[t]] = sendFlag[cur[t]] \/ sendFlag'[cur[t]] = TRUE
         \/ pc'[t] \notin Senderships /\ pc[t] \in Senderships
         \/ pc[t] \notin Senderships /\ ~sendFlag[cur[t]] /\ sendFlag'[cur[t]]
  PROVE  Trades(t)
<1>1. cur[t] \in Slots
  BY DEF Sound, Typed, TypeOK, CallType
<1>2. \A s \in Slots : Net(s)' = Net(s) /\ ReadNet(s)' = ReadNet(s) /\ SendNet(s)' = SendNet(s)
  BY NetKept DEF NetSame
<1>3. PICK s \in Slots : s = cur[t]
  BY <1>1
<1>4. /\ Net(cur[t])' = Net(cur[t]) + 0 /\ ReadNet(cur[t])' = ReadNet(cur[t]) + 0
      /\ SendNet(cur[t])' = SendNet(cur[t]) + 0
  <2>1. Net(s) \in Nat /\ ReadNet(s) \in Nat /\ SendNet(s) \in Nat
    BY NetsType DEF Sound, Typed, Nets
  <2>2. Net(s)' = Net(s) + 0 /\ ReadNet(s)' = ReadNet(s) + 0 /\ SendNet(s)' = SendNet(s) + 0
    BY <1>2, <2>1
  <2> QED
    BY <1>3, <2>2
<1>5. Exchanged(cur[t])
  <2>1. UseOf(pc'[t], ret'[t]) + 0 + d = UseOf(pc[t], ret[t]) + k
    BY DEF UseOf
  <2> QED
    BY <1>4, <2>1, ExchangedBy DEF Sound
<1>6. ASSUME OnTime(cur[t]) PROVE OneAtATime(cur[t])'
  <2>1. OneAtATime(cur[t])
    BY <1>1, <1>6 DEF Sound, Counted, Balanced
  <2>2. One(ReadOf(pc'[t], ret'[t])) + 0 <= One(ReadOf(pc[t], ret[t]))
    BY DEF One
  <2>3. \/ /\ One(pc'[t] \in Senderships) + 0 <= One(pc[t] \in Senderships)
           /\ sendFlag'[cur[t]] = sendFlag[cur[t]] \/ sendFlag'[cur[t]] = TRUE
        \/ One(pc'[t] \in Senderships) + 0 < One(pc[t] \in Senderships)
        \/ 0 = 0 /\ pc[t] \notin Senderships /\ ~sendFlag[cur[t]] /\ sendFlag'[cur[t]]
    BY DEF One
  <2>4. Typed /\ 0 \in Int /\ UNCHANGED cur
    BY DEF Sound
  <2> QED
    BY <1>4, <2>1, <2>2, <2>3, <2>4, RightsKept
<1>7. \A r \in Slots : r # cur[t] => Unmoved(r)
  BY <1>2, CountsAre DEF Unmoved, Sound
<1>8. UNCHANGED <<sessionID, releaseFlag>>
  BY CountsAre DEF Sound
<1> QED
  BY <1>5, <1>6, <1>7, <1>8 DEF Trades, Shape

-----------------------------------------------------------------------------
(* The steps of calls, one by one.  The points that matter for the sums.   *)
LEMMA PointsAre ==
  /\ UsePoints \cup {"idle", "rel_cas"} \subseteq Points
  /\ ClosePoints \cup PacketPoints \cup {"dec", "sc_flag", "sc_check"} \subseteq HoldPoints
  /\ {"rp_recv", "rp_failed", "sp_take", "sp_send"} \subseteq HoldPoints
  /\ {"rp_discon", "rp_inc", "rp_pended", "sp_discon", "sp_flag", "sp_size", "sp_clear",
      "sp_inc", "idle", "rel_cas"} \cap HoldPoints = {}
  /\ UsePoints \cap {"idle", "rel_cas", "use_inc", "use_undo", "init_id"} = {}
  /\ UsePoints \cap (Window \cup ReleasePoints) = {}
  /\ "sp_send" \in Senderships /\ "sp_take" \in Senderships
<1>1. RecvPoints \subseteq Points
  BY DEF RecvPoints, Points, HoldPoints, OtherPoints
<1>2. SendPoints \subseteq Points
  BY DEF SendPoints, Points, HoldPoints, OtherPoints
<1>3. ClosePoints \cup PacketPoints \cup {"dec", "sc_flag", "sc_check"} \subseteq HoldPoints
  BY DEF ClosePoints, PacketPoints, HoldPoints
<1>4. HoldPoints \subseteq Points /\ {"idle", "rel_cas"} \subseteq Points
  BY DEF Points, OtherPoints
<1>5. UsePoints \cup {"idle", "rel_cas"} \subseteq Points
  BY <1>1, <1>2, <1>3, <1>4 DEF UsePoints
<1>6. {"rp_recv", "rp_failed", "sp_take", "sp_send"} \subseteq HoldPoints
  BY DEF HoldPoints
<1>7. {"rp_discon", "rp_inc", "rp_pended", "sp_discon", "sp_flag", "sp_size", "sp_clear",
       "sp_inc", "idle", "rel_cas"} \cap HoldPoints = {}
  BY DEF HoldPoints
<1>8. UsePoints \cap {"idle", "rel_cas", "use_inc", "use_undo", "init_id"} = {}
  BY DEF UsePoints, RecvPoints, SendPoints, ClosePoints, PacketPoints
<1>9. UsePoints \cap (Window \cup ReleasePoints) = {}
  BY DEF UsePoints, RecvPoints, SendPoints, ClosePoints, PacketPoints, Window, ReleasePoints
<1> QED
  BY <1>3, <1>5, <1>6, <1>7, <1>8, <1>9 DEF Senderships

(* What a point allows on the way to the next.                             *)
LEMMA ShapesAre ==
  ASSUME NEW t \in Threads, NEW p, NEW q, ShapeOf(t, p, q)
  PROVE  /\ ShapeOf(t, "idle", <<>>) /\ ShapeOf(t, "dec", <<>>)
         /\ p \in RecvPoints \cup SendPoints => q = <<"dec">> /\ t # Content
         /\ p \in SendPoints => t \in Workers
         /\ p \in RecvPoints => \A r \in RecvPoints \cup {"dec"} : ShapeOf(t, r, q)
         /\ p \in SendPoints => \A r \in SendPoints \cup {"dec"} : ShapeOf(t, r, q)
         /\ p \in PacketPoints => /\ q = <<>> /\ t = Content
                                  /\ \A r \in PacketPoints \cup {"dec"} : ShapeOf(t, r, q)
         /\ p \in ClosePoints => /\ q = <<>> \/ q = <<"rp_discon", "dec">>
                                 /\ \A r \in ClosePoints \cup {"dec"} : ShapeOf(t, r, q)
         /\ p = "dec" => ShapeOf(t, "rel_cas", q)
         /\ p \in {"dec", "rel_cas"} =>
              \/ q = <<>> \/ q = <<"dec">>
              \/ q = <<"rp_discon", "dec">> /\ ShapeOf(t, "rp_discon", <<"dec">>)
         /\ p \in {"sc_flag", "sc_check"} =>
              /\ q = <<>> /\ t \in Workers /\ ShapeOf(t, "sp_discon", <<"dec">>)
              /\ \A r \in {"sc_flag", "sc_check", "dec"} : ShapeOf(t, r, q)
<1> USE DEF ShapeOf, RecvPoints, SendPoints, ClosePoints, PacketPoints, Using, ReleasePoints,
        Window
<1>1. ShapeOf(t, "idle", <<>>) /\ ShapeOf(t, "dec", <<>>)
  OBVIOUS
<1>2. t \in Workers => t # Content
  BY ThreadsAssumption
<1>3. ASSUME p \in RecvPoints
      PROVE  /\ q = <<"dec">> /\ t # Content
             /\ \A r \in RecvPoints \cup {"dec"} : ShapeOf(t, r, q)
  BY <1>3
<1>4. ASSUME p \in SendPoints
      PROVE  /\ q = <<"dec">> /\ t # Content /\ t \in Workers
             /\ \A r \in SendPoints \cup {"dec"} : ShapeOf(t, r, q)
  BY <1>2, <1>4
<1>5. ASSUME p \in PacketPoints
      PROVE  q = <<>> /\ t = Content /\ \A r \in PacketPoints \cup {"dec"} : ShapeOf(t, r, q)
  BY <1>5
<1>6. ASSUME p \in ClosePoints
      PROVE  /\ q = <<>> \/ q = <<"rp_discon", "dec">>
             /\ \A r \in ClosePoints \cup {"dec"} : ShapeOf(t, r, q)
  BY <1>6
<1>7. ASSUME p \in {"dec", "rel_cas"}
      PROVE  /\ p = "dec" => ShapeOf(t, "rel_cas", q)
             /\ \/ q = <<>> \/ q = <<"dec">>
                \/ q = <<"rp_discon", "dec">> /\ ShapeOf(t, "rp_discon", <<"dec">>)
  BY <1>2, <1>7
<1>8. ASSUME p \in {"sc_flag", "sc_check"}
      PROVE  /\ q = <<>> /\ t \in Workers /\ ShapeOf(t, "sp_discon", <<"dec">>)
             /\ \A r \in {"sc_flag", "sc_check", "dec"} : ShapeOf(t, r, q)
  BY <1>8
<1> QED
  BY <1>1, <1>3, <1>4, <1>5, <1>6, <1>7, <1>8

(* The right to receive that a return point stands for.                    *)
LEMMA ReadFrames ==
  /\ ~HasRead(<<>>) /\ ~HasRead(<<"dec">>) /\ ~HasRead(<<"snd_check">>)
  /\ ~HasRead(<<"dis_check">>) /\ HasRead(<<"rp_discon", "dec">>)
  /\ HasRead(<<"dis_check", "rp_discon", "dec">>)
<1>1. HasRead(<<"rp_discon", "dec">>)
  <2>1. 1 \in DOMAIN <<"rp_discon", "dec">> /\ <<"rp_discon", "dec">>[1] = "rp_discon"
    OBVIOUS
  <2> QED
    BY <2>1 DEF HasRead
<1>2. HasRead(<<"dis_check", "rp_discon", "dec">>)
  <2>1. /\ 2 \in DOMAIN <<"dis_check", "rp_discon", "dec">>
        /\ <<"dis_check", "rp_discon", "dec">>[2] = "rp_discon"
    OBVIOUS
  <2> QED
    BY <2>1 DEF HasRead
<1>3. ~HasRead(<<>>) /\ ~HasRead(<<"dec">>) /\ ~HasRead(<<"snd_check">>) /\ ~HasRead(<<"dis_check">>)
  BY DEF HasRead
<1> QED
  BY <1>1, <1>2, <1>3

(* A step within a call that leaves IOCount and SendFlag alone.            *)
LEMMA TradesGoto ==
  ASSUME Sound, Typed', NEW t \in Threads, pc[t] \in UsePoints, NEW p \in UsePoints, Goto(t, p),
         ShapeOf(t, p, ret[t]),
         UNCHANGED <<life, sendFlag, cur, posted, count, recvPend, sendPend, cq, drift>>,
         p \in HoldPoints <=> pc[t] \in HoldPoints,
         p \in {"rp_discon", "rp_inc", "rp_recv"} => pc[t] \in {"rp_discon", "rp_inc", "rp_recv"},
         p \in Senderships => pc[t] \in Senderships
  PROVE  Trades(t)
<1>1. p \in Points /\ 0 \in Int /\ 0 \in Nat
  BY PointsAre
<1>2. Settle(t) /\ pc'[t] = p /\ ret'[t] = ret[t]
  BY <1>1, GotoIs DEF Sound, Typed
<1>3. Counts(t, 0, 0)
  BY DEF Counts, life
<1>4. UseOf(pc'[t], ret'[t]) + 0 = UseOf(pc[t], ret[t]) + 0
  BY <1>2 DEF UseOf
<1>5. ReadOf(pc'[t], ret'[t]) => ReadOf(pc[t], ret[t])
  BY <1>2 DEF ReadOf
<1>6. /\ pc'[t] \in UsePoints \cup {"idle", "rel_cas"} /\ ShapeOf(t, pc'[t], ret'[t])
      /\ pc'[t] \in Senderships => pc[t] \in Senderships
  BY <1>2
<1>7. sendFlag'[cur[t]] = sendFlag[cur[t]] /\ \A s \in Slots : s # cur[t] => sendFlag'[s] = sendFlag[s]
  OBVIOUS
<1>8. UNCHANGED <<cur, posted, count, recvPend, sendPend, cq>>
  OBVIOUS
<1> QED
  BY <1>1, <1>2, <1>3, <1>4, <1>5, <1>6, <1>7, <1>8, TradesBy

(* A call ends and its use is given up where it began.                     *)
LEMMA TradesReturn ==
  ASSUME Sound, Typed', NEW t \in Threads, pc[t] \in UsePoints, Return(t), ret[t] = <<"dec">>,
         NEW d \in Nat, Counts(t, 0, d), d = 1 <=> pc[t] \in HoldPoints, d \in {0, 1},
         UNCHANGED <<cur, posted, count>>, UNCHANGED <<recvPend, sendPend, cq>> \/ NetSame,
         \A s \in Slots : s # cur[t] => sendFlag'[s] = sendFlag[s],
         \/ sendFlag'[cur[t]] = sendFlag[cur[t]] \/ sendFlag'[cur[t]] = TRUE
         \/ pc[t] \in Senderships
  PROVE  Trades(t)
<1>1. pc'[t] = "dec" /\ ret'[t] = <<>>
  BY ReturnShape DEF Sound, Typed
<1>2. Settle(t)
  BY ReturnIs DEF Sound, Typed
<1>3. ShapeOf(t, pc[t], ret[t])
  BY DEF Sound, Counted, Shapes, Shape
<1>4. ShapeOf(t, pc'[t], ret'[t])
  BY <1>1, <1>3, ShapesAre
<1>5. "dec" \in HoldPoints /\ "dec" \in UsePoints /\ "dec" \notin Senderships
  BY DEF HoldPoints, UsePoints, Senderships
<1>6. UseOf(pc'[t], ret'[t]) + d = UseOf(pc[t], ret[t]) + 0
  BY <1>1, <1>5, Frames DEF UseOf
<1>7. ~ReadOf(pc'[t], ret'[t])
  BY <1>1, ReadFrames DEF ReadOf
<1>8. \/ /\ pc'[t] \in Senderships => pc[t] \in Senderships
         /\ sendFlag'[cur[t]] = sendFlag[cur[t]] \/ sendFlag'[cur[t]] = TRUE
      \/ pc'[t] \notin Senderships /\ pc[t] \in Senderships
  BY <1>1, <1>5
<1>9. 0 \in Int /\ pc'[t] \in UsePoints \cup {"idle", "rel_cas"}
  BY <1>1, <1>5
<1> QED
  BY <1>2, <1>4, <1>6, <1>7, <1>8, <1>9, TradesBy

(* SendPacket, but for the request it queues, and DisconnectInLib, but for *)
(* the receive it cancels.                                                 *)
LEMMA PlainTrades ==
  ASSUME Sound, Typed', NEW t \in Threads,
         \/ SendCheck(t) \/ SendEnqueue(t) \/ DisconnectCheck(t) \/ DisconnectFlag(t)
         \/ DisconnectSocket(t) \/ DisconnectMark(t)
  PROVE  Trades(t)
<1>1. /\ pc[t] \in ClosePoints \cup PacketPoints
      /\ UNCHANGED <<life, sendFlag, cur, posted, count, recvPend, sendPend, cq, drift>>
  BY DEF SendCheck, CheckID, SendEnqueue, DisconnectCheck, DisconnectFlag, DisconnectSocket,
         DisconnectMark, ClosePoints, PacketPoints, send, call, net, events, log
<1>2. ShapeOf(t, pc[t], ret[t])
  BY DEF Sound, Counted, Shapes, Shape
<1>3. \/ \E p \in PacketPoints \cup {"dec"} : pc[t] \in PacketPoints /\ Goto(t, p)
      \/ \E p \in ClosePoints \cup {"dec"} : pc[t] \in ClosePoints /\ Goto(t, p)
  BY DEF SendCheck, CheckID, SendEnqueue, DisconnectCheck, DisconnectFlag, DisconnectSocket,
         DisconnectMark, ClosePoints, PacketPoints
<1>4. PICK p \in ClosePoints \cup PacketPoints \cup {"dec"} : Goto(t, p) /\ ShapeOf(t, p, ret[t])
  BY <1>2, <1>3, ShapesAre
<1>5. p \in HoldPoints /\ pc[t] \in HoldPoints
  BY <1>1, PointsAre
<1>6. p \notin {"rp_discon", "rp_inc", "rp_recv"} /\ p \notin Senderships
  BY DEF ClosePoints, PacketPoints, Senderships
<1>7. p \in UsePoints /\ pc[t] \in UsePoints
  BY <1>1 DEF UsePoints
<1> QED
  BY <1>1, <1>4, <1>5, <1>6, <1>7, TradesGoto

(* SendPacket hands its use to the worker that will take the request, or   *)
(* it is lost.                                                             *)
LEMMA NotifyTrades ==
  ASSUME Sound, Typed', NEW t \in Threads, SendNotify(t)
  PROVE  Trades(t)
<1>1. /\ pc[t] = "snd_notify" /\ Return(t)
      /\ UNCHANGED <<life, sendFlag, cur, posted, count, recvPend, sendPend>>
  BY DEF SendNotify, send, call, events
<1>2. ShapeOf(t, pc[t], ret[t]) /\ ret[t] = <<>>
  BY <1>1, ShapesAre DEF Sound, Counted, Shapes, Shape, PacketPoints
<1>3. pc'[t] = "idle" /\ ret'[t] = <<>> /\ Settle(t)
  BY <1>1, <1>2, ReturnShape, ReturnIs DEF Sound, Typed
<1>4. /\ "snd_notify" \in HoldPoints /\ "idle" \notin HoldPoints
      /\ "snd_notify" \in UsePoints /\ "snd_notify" \notin Senderships /\ "idle" \notin Senderships
  BY DEF HoldPoints, UsePoints, PacketPoints, Senderships
<1>5. /\ UseOf(pc[t], ret[t]) = 1 /\ UseOf(pc'[t], ret'[t]) = 0
      /\ ~ReadOf(pc[t], ret[t]) /\ ~ReadOf(pc'[t], ret'[t])
  BY <1>1, <1>2, <1>3, <1>4, Frames, ReadFrames DEF UseOf, ReadOf
<1>6. ShapeOf(t, pc'[t], ret'[t]) /\ pc'[t] \in UsePoints \cup {"idle", "rel_cas"}
  BY <1>2, <1>3, ShapesAre
<1>7. Typed /\ cur[t] \in Slots /\ 0 \in Int /\ 0 \in Nat /\ 1 \in Nat /\ 1 \in Int
  BY DEF Sound, Typed, TypeOK, CallType
<1>8. CASE Drift(t, 1) /\ UNCHANGED cq
  <2>1. Counts(t, 0, 1)
    BY <1>1, <1>8 DEF Counts
  <2>2. UseOf(pc'[t], ret'[t]) + 1 = UseOf(pc[t], ret[t]) + 0
    BY <1>5
  <2>3. pc[t] \in UsePoints /\ (pc'[t] \in Senderships => pc[t] \in Senderships)
    BY <1>1, <1>3, <1>4
  <2>4. /\ \A s \in Slots : s # cur[t] => sendFlag'[s] = sendFlag[s]
        /\ sendFlag'[cur[t]] = sendFlag[cur[t]]
    BY <1>1
  <2> QED
    BY <1>1, <1>3, <1>5, <1>6, <1>7, <1>8, <2>1, <2>2, <2>3, <2>4, TradesBy
<1>9. CASE Queue("request", cur[t]) /\ UNCHANGED drift
  <2>1. PICK s \in Slots : s = cur[t]
    BY <1>7
  <2>2. \A r \in Slots : /\ Net(r)' = Net(r) + (IF r = s THEN 1 ELSE 0)
                         /\ ReadNet(r)' = ReadNet(r) /\ SendNet(r)' = SendNet(r)
    BY <1>1, <1>7, <1>9, <2>1, NetRequest DEF Typed
  <2>3. Nets(s)
    BY <1>7, NetsType DEF Typed
  <2>4. Net(s)' = Net(s) + 1 /\ ReadNet(s)' = ReadNet(s) + 0 /\ SendNet(s)' = SendNet(s) + 0
    BY <2>2, <2>3 DEF Nets
  <2>5. Net(cur[t])' = Net(cur[t]) + 1 /\ ReadNet(cur[t])' = ReadNet(cur[t]) + 0
        /\ SendNet(cur[t])' = SendNet(cur[t]) + 0
    BY <1>1, <2>1, <2>4
  <2>6. Counts(t, 0, 0)
    BY <1>1, <1>9 DEF Counts
  <2>7. Exchanged(cur[t])
    <3>1. UseOf(pc'[t], ret'[t]) + 1 + 0 = UseOf(pc[t], ret[t]) + 0
      BY <1>5
    <3> QED
      BY <1>1, <1>3, <1>7, <2>5, <2>6, <3>1, ExchangedBy
  <2>8. ASSUME OnTime(cur[t]) PROVE OneAtATime(cur[t])'
    <3>1. OneAtATime(cur[t])
      BY <1>7, <2>8 DEF Sound, Counted, Balanced
    <3>2. One(ReadOf(pc'[t], ret'[t])) + 0 <= One(ReadOf(pc[t], ret[t]))
      BY <1>5 DEF One
    <3>3. /\ One(pc'[t] \in Senderships) + 0 <= One(pc[t] \in Senderships)
          /\ sendFlag'[cur[t]] = sendFlag[cur[t]]
      BY <1>1, <1>3, <1>4 DEF One
    <3> QED
      BY <1>1, <1>3, <1>7, <2>5, <3>1, <3>2, <3>3, RightsKept
  <2>9. \A r \in Slots : r # cur[t] => Unmoved(r)
    <3>1. ASSUME NEW r \in Slots, r # cur[t] PROVE Net(r)' = Net(r)
      <4>1. Net(r) \in Nat
        BY <1>7, NetsType DEF Nets, Typed
      <4> QED
        BY <2>1, <2>2, <3>1, <4>1
    <3> QED
      BY <1>1, <1>9, <2>2, <3>1 DEF Unmoved, life
  <2> QED
    BY <1>1, <1>3, <1>4, <1>6, <2>7, <2>8, <2>9 DEF Trades, Shape, life
<1> QED
  BY <1>8, <1>9 DEF SendNotify

(* CancelIoEx moves a pending receive to the port.                         *)
LEMMA CancelNet ==
  ASSUME TypeOK, NEW r \in Slots, Cancel(r), UNCHANGED sendPend
  PROVE  NetSame
<1>1. CASE UNCHANGED <<recvPend, cq>>
  BY <1>1, NetKept DEF NetSame
<1>2. CASE r \in recvPend /\ recvPend' = recvPend \ {r} /\ Queue("recv_end", r)
  BY <1>2, NetEnds DEF NetSame, Kinds
<1> QED
  BY <1>1, <1>2 DEF Cancel

(* DisconnectInLib cancels the receive.                                    *)
LEMMA CancelTrades ==
  ASSUME Sound, Typed', NEW t \in Threads, DisconnectCancel(t)
  PROVE  Trades(t)
<1>1. /\ pc[t] = "dis_cancel" /\ Cancel(cur[t]) /\ Goto(t, "dec")
      /\ UNCHANGED <<life, send, cur, posted, count, sendPend, drift>>
  BY DEF DisconnectCancel, call, events, log
<1>2. ShapeOf(t, pc[t], ret[t]) /\ cur[t] \in Slots /\ Typed
  BY DEF Sound, Counted, Shapes, Shape, Typed, TypeOK, CallType
<1>3. /\ {"dis_cancel", "dec"} \subseteq HoldPoints \cap UsePoints
      /\ {"dis_cancel", "dec"} \cap Senderships = {} /\ "dis_cancel" \in ClosePoints
      /\ "dec" \in Points
  BY DEF HoldPoints, UsePoints, ClosePoints, Senderships, Points
<1>4. Settle(t) /\ pc'[t] = "dec" /\ ret'[t] = ret[t]
  BY <1>1, <1>2, <1>3, GotoIs DEF Typed
<1>5. NetSame
  BY <1>1, <1>2, CancelNet DEF Typed
<1>6. Counts(t, 0, 0)
  BY <1>1 DEF Counts
<1>7. ShapeOf(t, pc'[t], ret'[t])
  BY <1>1, <1>2, <1>3, <1>4, ShapesAre
<1>8. UseOf(pc'[t], ret'[t]) + 0 = UseOf(pc[t], ret[t]) + 0
  BY <1>1, <1>3, <1>4 DEF UseOf
<1>9. ReadOf(pc'[t], ret'[t]) => ReadOf(pc[t], ret[t])
  BY <1>4 DEF ReadOf
<1>10. /\ pc[t] \in UsePoints /\ pc'[t] \in UsePoints \cup {"idle", "rel_cas"}
       /\ pc'[t] \in Senderships => pc[t] \in Senderships
       /\ sendFlag'[cur[t]] = sendFlag[cur[t]] /\ UNCHANGED <<cur, posted, count>>
       /\ \A s \in Slots : s # cur[t] => sendFlag'[s] = sendFlag[s]
  BY <1>1, <1>3, <1>4 DEF send
<1>11. 0 \in Int /\ 0 \in Nat
  OBVIOUS
<1> QED
  BY <1>4, <1>5, <1>6, <1>7, <1>8, <1>9, <1>10, <1>11, TradesBy

(* RecvPost, but for the WSARecv that succeeds.                            *)
LEMMA RecvTrades ==
  ASSUME Sound, Typed', NEW t \in Threads,
         \/ RecvPost(t) \/ RecvInc(t) \/ RecvPended(t) \/ RecvFailed(t)
         \/ RecvIssue(t) /\ UNCHANGED recvPend /\ pc'[t] = "rp_failed"
  PROVE  Trades(t)
<1>1. /\ pc[t] \in RecvPoints /\ UNCHANGED <<send, cur, posted, count, sendPend>>
  BY DEF RecvPost, RecvInc, CountRecv, RecvPended, RecvFailed, RecvIssue, RecvPoints, call, events,
         log, net
<1>2. ShapeOf(t, pc[t], ret[t]) /\ cur[t] \in Slots /\ Typed /\ pc[t] \in UsePoints
  BY <1>1 DEF Sound, Counted, Shapes, Shape, Typed, TypeOK, CallType, UsePoints
<1>3. /\ ret[t] = <<"dec">> /\ \A r \in RecvPoints \cup {"dec"} : ShapeOf(t, r, ret[t])
  BY <1>1, <1>2, ShapesAre
<1>4. /\ {"rp_recv", "rp_failed", "dec"} \subseteq HoldPoints
      /\ {"rp_discon", "rp_inc", "rp_pended"} \cap HoldPoints = {}
      /\ RecvPoints \cap Senderships = {} /\ "dec" \notin Senderships
      /\ RecvPoints \cup {"dec"} \subseteq UsePoints
      /\ RecvPoints = {"rp_discon", "rp_inc", "rp_recv", "rp_failed", "rp_pended"}
  BY DEF HoldPoints, RecvPoints, Senderships, UsePoints
<1>5. /\ 0 \in Int /\ 0 \in Nat /\ 1 \in Nat /\ 1 \in Int
      /\ sendFlag'[cur[t]] = sendFlag[cur[t]] /\ \A s \in Slots : s # cur[t] => sendFlag'[s] = sendFlag[s]
      /\ UNCHANGED <<cur, posted, count>>
  BY <1>1 DEF send
<1>6. CASE RecvPost(t)
  <2>1. /\ pc[t] = "rp_discon" /\ UNCHANGED <<life, drift, recvPend, sendPend, cq>>
        /\ Return(t) \/ Goto(t, "rp_inc")
    BY <1>6 DEF RecvPost, net, log
  <2>2. Counts(t, 0, 0)
    BY <2>1 DEF Counts
  <2>3. CASE Return(t)
    <3>1. 0 = 1 <=> pc[t] \in HoldPoints
      BY <1>4, <2>1
    <3> QED
      BY <1>2, <1>3, <1>5, <2>1, <2>2, <2>3, <3>1, TradesReturn
  <2>4. CASE Goto(t, "rp_inc")
    BY <1>1, <1>2, <1>3, <1>4, <2>1, <2>4, TradesGoto DEF send
  <2> QED
    BY <2>1, <2>3, <2>4
<1>7. CASE RecvInc(t)
  <2>1. /\ pc[t] = "rp_inc" /\ AddIO(t, 1) /\ Goto(t, "rp_recv")
        /\ UNCHANGED <<drift, recvPend, sendPend, cq>>
    BY <1>7 DEF RecvInc, CountRecv, net, log
  <2>2. "rp_recv" \in Points
    BY <1>4, PointsAre
  <2>3. Settle(t) /\ pc'[t] = "rp_recv" /\ ret'[t] = ret[t]
    BY <1>2, <2>1, <2>2, GotoIs DEF Typed
  <2>4. Counts(t, 1, 0)
    BY <2>1 DEF Counts
  <2>5. UseOf(pc'[t], ret'[t]) + 0 = UseOf(pc[t], ret[t]) + 1
    BY <1>4, <2>1, <2>3 DEF UseOf
  <2>6. /\ ReadOf(pc'[t], ret'[t]) => ReadOf(pc[t], ret[t])
        /\ ShapeOf(t, pc'[t], ret'[t]) /\ pc'[t] \in UsePoints \cup {"idle", "rel_cas"}
        /\ pc'[t] \in Senderships => pc[t] \in Senderships
    BY <1>3, <1>4, <2>1, <2>3 DEF ReadOf
  <2> QED
    BY <1>2, <1>5, <2>1, <2>3, <2>4, <2>5, <2>6, TradesBy
<1>8. CASE RecvIssue(t) /\ UNCHANGED recvPend /\ pc'[t] = "rp_failed"
  <2>1. /\ pc[t] = "rp_recv" /\ UNCHANGED <<life, drift, recvPend, sendPend, cq>>
        /\ Goto(t, "rp_failed") \/ Goto(t, "rp_pended")
    BY <1>8 DEF RecvIssue, log
  <2>2. Goto(t, "rp_failed")
    <3>1. "rp_pended" \in Points
      BY <1>4, PointsAre
    <3>2. Goto(t, "rp_pended") => pc'[t] = "rp_pended"
      BY <1>2, <3>1, GotoIs DEF Typed
    <3> QED
      BY <1>8, <2>1, <3>2
  <2> QED
    BY <1>1, <1>2, <1>3, <1>4, <2>1, <2>2, TradesGoto DEF send
<1>9. CASE RecvFailed(t)
  <2>1. /\ pc[t] = "rp_failed" /\ UNCHANGED <<life, recvPend, sendPend, cq>>
        /\ (Drift(t, 1) /\ Return(t)) \/ (Goto(t, "dec") /\ UNCHANGED drift)
    BY <1>9 DEF RecvFailed, net
  <2>2. CASE Drift(t, 1) /\ Return(t)
    <3>1. Counts(t, 0, 1)
      BY <2>1, <2>2 DEF Counts
    <3>2. 1 = 1 <=> pc[t] \in HoldPoints
      BY <1>4, <2>1
    <3> QED
      BY <1>2, <1>3, <1>5, <2>1, <2>2, <3>1, <3>2, TradesReturn
  <2>3. CASE Goto(t, "dec") /\ UNCHANGED drift
    BY <1>1, <1>2, <1>3, <1>4, <2>1, <2>3, TradesGoto DEF send
  <2> QED
    BY <2>1, <2>2, <2>3
<1>10. CASE RecvPended(t)
  <2>1. /\ pc[t] = "rp_pended" /\ UNCHANGED <<life, drift, sendPend>> /\ Return(t)
        /\ Cancel(cur[t]) \/ UNCHANGED <<recvPend, cq>>
    BY <1>10 DEF RecvPended, log
  <2>2. NetSame
    BY <1>2, <2>1, CancelNet, NetKept DEF NetSame, Typed
  <2>3. Counts(t, 0, 0)
    BY <2>1 DEF Counts
  <2>4. 0 = 1 <=> pc[t] \in HoldPoints
    BY <1>4, <2>1
  <2> QED
    BY <1>2, <1>3, <1>5, <2>1, <2>2, <2>3, <2>4, TradesReturn
<1> QED
  BY <1>6, <1>7, <1>8, <1>9, <1>10

(* Whoever has the only right to receive, or to send, has no I/O of it     *)
(* pending.                                                                *)
LEMMA NonePending ==
  ASSUME TypeOK, NEW s \in Slots, OneAtATime(s), NEW t \in Threads, cur[t] = s
  PROVE  /\ Reads(t) => s \notin recvPend /\ ReadNet(s) = 0
         /\ pc[t] \in Senderships => s \notin sendPend /\ SendNet(s) = 0
<1>1. RolesOK
  BY RolesAre
<1>2. PICK a \in Nat, b \in Nat, m \in Nat, n \in Nat :
        /\ a = Cardinality(Readings(s)) /\ b = Cardinality(Owners(s, Senderships))
        /\ m = ReadNet(s) /\ n = SendNet(s) /\ Readers(s) = a + m /\ Senders(s) = b + n
  BY <1>1 DEF RolesOK, Nets
<1>3. a + m <= 1 /\ b + n <= 1
  BY <1>2 DEF OneAtATime
<1>4. /\ IsFiniteSet(Readings(s)) /\ IsFiniteSet(Owners(s, Senderships))
  BY ThreadsFinite, FS_Subset DEF Readings, Owners
<1>5. (a = 0 <=> Readings(s) = {}) /\ (b = 0 <=> Owners(s, Senderships) = {})
  BY <1>2, <1>4, FS_EmptySet
<1>6. PICK c \in Nat, d \in Nat :
        /\ m = (IF s \in recvPend THEN 1 ELSE 0) + c
        /\ n = (IF s \in sendPend THEN 1 ELSE 0) + d
  BY <1>2, NetsType
<1>7. ASSUME Reads(t) PROVE s \notin recvPend /\ m = 0
  <2>1. a >= 1
    BY <1>2, <1>5, <1>7 DEF Readings
  <2>2. m = 0
    BY <1>3, <2>1
  <2> QED
    BY <1>6, <2>2
<1>8. ASSUME pc[t] \in Senderships PROVE s \notin sendPend /\ n = 0
  <2>1. b >= 1
    BY <1>2, <1>5, <1>8 DEF Owners
  <2>2. n = 0
    BY <1>3, <2>1
  <2> QED
    BY <1>6, <2>2
<1> QED
  BY <1>2, <1>7, <1>8

(* A WSARecv, or a WSASend, that succeeds hands the thread's use over.     *)
LEMMA IssueTrades ==
  ASSUME Sound, Typed', NEW t \in Threads, UNCHANGED <<life, sendFlag, cur, posted, count, cq, drift>>,
         \/ /\ pc[t] = "rp_recv" /\ Goto(t, "rp_pended")
            /\ recvPend' = recvPend \cup {cur[t]} /\ UNCHANGED sendPend
         \/ /\ pc[t] = "sp_send" /\ Return(t)
            /\ sendPend' = sendPend \cup {cur[t]} /\ UNCHANGED recvPend
  PROVE  Trades(t)
<1>1. ShapeOf(t, pc[t], ret[t]) /\ cur[t] \in Slots /\ Typed
  BY DEF Sound, Counted, Shapes, Shape, Typed, TypeOK, CallType
<1>2. /\ {"rp_recv", "sp_send", "dec"} \subseteq HoldPoints /\ "rp_pended" \notin HoldPoints
      /\ "sp_send" \in Senderships /\ {"rp_pended", "rp_recv", "dec"} \cap Senderships = {}
      /\ "rp_recv" \in RecvPoints /\ "rp_pended" \in RecvPoints /\ "sp_send" \in SendPoints
      /\ "rp_pended" \in Points /\ {"rp_recv", "rp_pended", "sp_send", "dec"} \subseteq UsePoints
  BY DEF HoldPoints, Senderships, RecvPoints, SendPoints, UsePoints, Points, OtherPoints
<1>3. ret[t] = <<"dec">>
  BY <1>1, <1>2, ShapesAre
<1>4. /\ Settle(t) /\ ShapeOf(t, pc'[t], ret'[t]) /\ pc[t] \in UsePoints /\ pc'[t] \in UsePoints
      /\ pc[t] = "rp_recv" => pc'[t] = "rp_pended" /\ ret'[t] = <<"dec">>
      /\ pc[t] = "sp_send" => pc'[t] = "dec" /\ ret'[t] = <<>>
  <2>1. CASE Goto(t, "rp_pended") /\ pc[t] = "rp_recv"
    BY <1>1, <1>2, <1>3, <2>1, GotoIs, ShapesAre DEF Typed
  <2>2. CASE Return(t) /\ pc[t] = "sp_send"
    BY <1>1, <1>2, <1>3, <2>2, ReturnIs, ReturnShape, ShapesAre DEF Typed
  <2> QED
    BY <2>1, <2>2
<1>5. UseOf(pc'[t], ret'[t]) + 1 = UseOf(pc[t], ret[t])
  BY <1>2, <1>3, <1>4, Frames DEF UseOf
<1>6. PICK s \in Slots : s = cur[t]
  BY <1>1
<1>7. PICK a \in {0, 1}, b \in {0, 1} :
        /\ a = One(pc[t] = "rp_recv") /\ b = One(pc[t] = "sp_send") /\ a + b = 1
  BY DEF One
<1>8. \A r \in Slots : r # s =>
        Net(r)' = Net(r) /\ ReadNet(r)' = ReadNet(r) /\ SendNet(r)' = SendNet(r)
  <2> SUFFICES ASSUME NEW r \in Slots, r # s
               PROVE  Net(r)' = Net(r) /\ ReadNet(r)' = ReadNet(r) /\ SendNet(r)' = SendNet(r)
    OBVIOUS
  <2>1. /\ r \in recvPend' <=> r \in recvPend
        /\ r \in sendPend' <=> r \in sendPend
    BY <1>6
  <2> QED
    BY <2>1 DEF Net, Coming, ReadNet, SendNet, OfRecv, OfSent
<1>9. \A r \in Slots : r # cur[t] => Unmoved(r)
  BY <1>6, <1>8 DEF Unmoved, life
<1>10. ASSUME OnTime(cur[t]) PROVE Exchanged(cur[t]) /\ OneAtATime(cur[t])'
  <2>1. OneAtATime(s) /\ OneAtATime(cur[t])
    BY <1>6, <1>10 DEF Sound, Counted, Balanced
  <2>2. (pc[t] = "rp_recv" => s \notin recvPend) /\ (pc[t] = "sp_send" => s \notin sendPend)
    BY <1>1, <1>2, <1>6, <2>1, NonePending DEF Typed, Reads
  <2>3. /\ Net(s)' = Net(s) + 1 /\ ReadNet(s)' = ReadNet(s) + a /\ SendNet(s)' = SendNet(s) + b
    <3>1. Nets(s)
      BY <1>1, NetsType DEF Typed
    <3>2. CASE pc[t] = "rp_recv"
      <4>1. /\ Net(s)' = Net(s) + 1 /\ ReadNet(s)' = ReadNet(s) + 1 /\ SendNet(s)' = SendNet(s)
        BY <1>1, <1>6, <2>2, <3>2, NetIssued DEF Typed
      <4> QED
        BY <1>7, <3>1, <3>2, <4>1 DEF One, Nets
    <3>3. CASE pc[t] = "sp_send"
      <4>1. /\ Net(s)' = Net(s) + 1 /\ SendNet(s)' = SendNet(s) + 1 /\ ReadNet(s)' = ReadNet(s)
        BY <1>1, <1>6, <2>2, <3>3, NetIssued DEF Typed
      <4> QED
        BY <1>7, <3>1, <3>3, <4>1 DEF One, Nets
    <3> QED
      BY <3>2, <3>3
  <2>4. /\ Net(cur[t])' = Net(cur[t]) + 1 /\ ReadNet(cur[t])' = ReadNet(cur[t]) + a
        /\ SendNet(cur[t])' = SendNet(cur[t]) + b
    BY <1>6, <2>3
  <2>5. Counts(t, 0, 0)
    BY DEF Counts
  <2>6. 0 \in Int /\ 0 \in Nat /\ 1 \in Int /\ a \in Int /\ b \in Int
    OBVIOUS
  <2>7. UseOf(pc'[t], ret'[t]) + 1 + 0 = UseOf(pc[t], ret[t]) + 0
    BY <1>5 DEF UseOf
  <2>8. Exchanged(cur[t])
    BY <1>1, <1>4, <2>4, <2>5, <2>6, <2>7, ExchangedBy
  <2>9. One(ReadOf(pc'[t], ret'[t])) + a <= One(ReadOf(pc[t], ret[t]))
    BY <1>3, <1>4, <1>7, ReadFrames DEF One, ReadOf
  <2>10. One(pc'[t] \in Senderships) + b <= One(pc[t] \in Senderships)
    BY <1>2, <1>4, <1>7 DEF One
  <2>11. OneAtATime(cur[t])'
    BY <1>1, <1>4, <2>1, <2>4, <2>6, <2>9, <2>10, RightsKept
  <2> QED
    BY <2>8, <2>11
<1> QED
  BY <1>4, <1>9, <1>10 DEF Trades, Shape, life

(* SendPost and SendComplete, but for the WSASend that succeeds.           *)
LEMMA SendTrades ==
  ASSUME Sound, Typed', NEW t \in Threads,
         \/ SendPost(t) \/ SendClaim(t) \/ SendSize(t) \/ SendClear(t) \/ SendInc(t) \/ SendTake(t)
         \/ pc[t] = "sp_send" /\ Goto(t, "dec") /\ UNCHANGED <<life, send, cur, posted, count, net, drift>>
  PROVE  Trades(t)
<1>1. /\ pc[t] \in SendPoints /\ UNCHANGED <<cur, posted, count, recvPend, sendPend, cq>>
  BY DEF SendPost, SendClaim, Claim, SendSize, SendClear, SendInc, SendTake, SendPoints, call,
         events, log, net
<1>2. ShapeOf(t, pc[t], ret[t]) /\ cur[t] \in Slots /\ Typed /\ pc[t] \in UsePoints
  BY <1>1 DEF Sound, Counted, Shapes, Shape, Typed, TypeOK, CallType, UsePoints
<1>3. /\ ret[t] = <<"dec">> /\ \A r \in SendPoints \cup {"dec"} : ShapeOf(t, r, ret[t])
  BY <1>1, <1>2, ShapesAre
<1>4. /\ {"sp_take", "sp_send", "dec"} \subseteq HoldPoints
      /\ {"sp_discon", "sp_flag", "sp_size", "sp_clear", "sp_inc"} \cap HoldPoints = {}
      /\ {"sp_size", "sp_clear", "sp_inc", "sp_take", "sp_send"} \subseteq Senderships
      /\ {"sp_discon", "sp_flag", "dec"} \cap Senderships = {}
      /\ SendPoints \cup {"dec"} \subseteq UsePoints
      /\ SendPoints = {"sp_discon", "sp_flag", "sp_size", "sp_clear", "sp_inc", "sp_take", "sp_send"}
      /\ \A p \in SendPoints \cup {"dec"} : p \notin {"rp_discon", "rp_inc", "rp_recv"}
  BY DEF HoldPoints, SendPoints, Senderships, UsePoints
<1>5. /\ 0 \in Int /\ 0 \in Nat /\ 1 \in Nat /\ 1 \in Int /\ sendFlag \in [Slots -> BOOLEAN]
  BY <1>2 DEF Typed, TypeOK, SendType
<1>6. CASE SendPost(t)
  <2>1. /\ pc[t] = "sp_discon" /\ UNCHANGED <<life, drift, sendFlag>>
        /\ Return(t) \/ Goto(t, "sp_flag")
    BY <1>6 DEF SendPost, log, send
  <2>2. Counts(t, 0, 0) /\ (0 = 1 <=> pc[t] \in HoldPoints)
    BY <1>4, <2>1 DEF Counts
  <2>3. CASE Return(t)
    BY <1>1, <1>2, <1>3, <1>5, <2>1, <2>2, <2>3, TradesReturn
  <2>4. CASE Goto(t, "sp_flag")
    BY <1>1, <1>2, <1>3, <1>4, <2>1, <2>4, TradesGoto
  <2> QED
    BY <2>1, <2>3, <2>4
<1>7. CASE SendClaim(t)
  <2>1. /\ pc[t] = "sp_flag" /\ UNCHANGED <<life, drift>>
        /\ sendFlag' = [sendFlag EXCEPT ![cur[t]] = TRUE]
        /\ IF sendFlag[cur[t]] THEN Return(t) ELSE Goto(t, "sp_size")
    BY <1>7 DEF SendClaim, Claim, log
  <2>2. Counts(t, 0, 0) /\ (0 = 1 <=> pc[t] \in HoldPoints)
    BY <1>4, <2>1 DEF Counts
  <2>3. sendFlag'[cur[t]] = TRUE /\ \A s \in Slots : s # cur[t] => sendFlag'[s] = sendFlag[s]
    BY <1>2, <1>5, <2>1
  <2>4. CASE sendFlag[cur[t]]
    BY <1>1, <1>2, <1>3, <1>5, <2>1, <2>2, <2>3, <2>4, TradesReturn
  <2>5. CASE ~sendFlag[cur[t]]
    <3>1. "sp_size" \in Points
      BY <1>4, PointsAre
    <3>2. Settle(t) /\ pc'[t] = "sp_size" /\ ret'[t] = ret[t]
      BY <1>2, <2>1, <2>5, <3>1, GotoIs DEF Typed
    <3>3. UseOf(pc'[t], ret'[t]) + 0 = UseOf(pc[t], ret[t]) + 0
      BY <1>4, <2>1, <3>2 DEF UseOf
    <3>4. /\ ReadOf(pc'[t], ret'[t]) => ReadOf(pc[t], ret[t])
          /\ ShapeOf(t, pc'[t], ret'[t]) /\ pc'[t] \in UsePoints \cup {"idle", "rel_cas"}
          /\ pc[t] \notin Senderships
      BY <1>3, <1>4, <2>1, <3>2 DEF ReadOf
    <3> QED
      BY <1>1, <1>2, <1>5, <2>2, <2>3, <2>5, <3>2, <3>3, <3>4, TradesBy
  <2> QED
    BY <2>4, <2>5
<1>8. CASE SendSize(t)
  <2>1. /\ pc[t] = "sp_size" /\ UNCHANGED <<life, drift, sendFlag>>
        /\ Goto(t, "sp_clear") \/ Goto(t, "sp_inc")
    BY <1>8 DEF SendSize, log, send
  <2>2. PICK p \in {"sp_clear", "sp_inc"} : Goto(t, p)
    BY <2>1
  <2>3. /\ p \in SendPoints /\ p \in UsePoints /\ p \notin HoldPoints /\ pc[t] \notin HoldPoints
        /\ pc[t] \in Senderships
    BY <1>4, <2>1
  <2> QED
    BY <1>1, <1>2, <1>3, <1>4, <2>1, <2>2, <2>3, TradesGoto
<1>9. CASE SendClear(t)
  <2>1. /\ pc[t] = "sp_clear" /\ UNCHANGED <<life, drift>>
        /\ sendFlag' = [sendFlag EXCEPT ![cur[t]] = FALSE] /\ Return(t)
    BY <1>9 DEF SendClear, log
  <2>2. Counts(t, 0, 0) /\ (0 = 1 <=> pc[t] \in HoldPoints) /\ pc[t] \in Senderships
    BY <1>4, <2>1 DEF Counts
  <2>3. \A s \in Slots : s # cur[t] => sendFlag'[s] = sendFlag[s]
    BY <1>5, <2>1
  <2> QED
    BY <1>1, <1>2, <1>3, <1>5, <2>1, <2>2, <2>3, TradesReturn
<1>10. CASE SendInc(t)
  <2>1. /\ pc[t] = "sp_inc" /\ AddIO(t, 1) /\ Goto(t, "sp_take") /\ UNCHANGED <<drift, sendFlag>>
    BY <1>10 DEF SendInc, log, send
  <2>2. "sp_take" \in Points
    BY <1>4, PointsAre
  <2>3. Settle(t) /\ pc'[t] = "sp_take" /\ ret'[t] = ret[t]
    BY <1>2, <2>1, <2>2, GotoIs DEF Typed
  <2>4. Counts(t, 1, 0)
    BY <2>1 DEF Counts
  <2>5. UseOf(pc'[t], ret'[t]) + 0 = UseOf(pc[t], ret[t]) + 1
    BY <1>4, <2>1, <2>3 DEF UseOf
  <2>6. /\ ReadOf(pc'[t], ret'[t]) => ReadOf(pc[t], ret[t])
        /\ ShapeOf(t, pc'[t], ret'[t]) /\ pc'[t] \in UsePoints \cup {"idle", "rel_cas"}
        /\ pc[t] \in Senderships /\ sendFlag'[cur[t]] = sendFlag[cur[t]]
        /\ \A s \in Slots : s # cur[t] => sendFlag'[s] = sendFlag[s]
    BY <1>3, <1>4, <2>1, <2>3 DEF ReadOf
  <2> QED
    BY <1>1, <1>2, <1>5, <2>3, <2>4, <2>5, <2>6, TradesBy
<1>11. CASE SendTake(t)
  <2>1. /\ pc[t] = "sp_take" /\ UNCHANGED life
        /\ \/ Goto(t, "sp_send") /\ UNCHANGED <<sendFlag, drift>>
           \/ /\ sendFlag' = [sendFlag EXCEPT ![cur[t]] = FALSE]
              /\ Drift(t, 1) /\ Return(t)
    BY <1>11 DEF SendTake
  <2>2. CASE Goto(t, "sp_send") /\ UNCHANGED <<sendFlag, drift>>
    BY <1>1, <1>2, <1>3, <1>4, <2>1, <2>2, TradesGoto
  <2>3. CASE /\ sendFlag' = [sendFlag EXCEPT ![cur[t]] = FALSE]
             /\ Drift(t, 1) /\ Return(t)
    <3>1. Counts(t, 0, 1) /\ (1 = 1 <=> pc[t] \in HoldPoints) /\ pc[t] \in Senderships
      BY <1>4, <2>1, <2>3 DEF Counts
    <3>2. \A s \in Slots : s # cur[t] => sendFlag'[s] = sendFlag[s]
      BY <1>5, <2>3
    <3> QED
      BY <1>1, <1>2, <1>3, <1>5, <2>3, <3>1, <3>2, TradesReturn
  <2> QED
    BY <2>1, <2>2, <2>3
<1>12. CASE pc[t] = "sp_send" /\ Goto(t, "dec") /\ UNCHANGED <<life, send, cur, posted, count, net, drift>>
  BY <1>1, <1>2, <1>3, <1>4, <1>12, TradesGoto DEF send
<1> QED
  BY <1>6, <1>7, <1>8, <1>9, <1>10, <1>11, <1>12

(* SendComplete gives the right to send up, and may begin another round.   *)
LEMMA SentTrades ==
  ASSUME Sound, Typed', NEW t \in Threads, SentFlag(t) \/ SentCheck(t)
  PROVE  Trades(t)
<1>1. /\ pc[t] \in {"sc_flag", "sc_check"} /\ UNCHANGED <<life, drift>>
      /\ UNCHANGED <<cur, posted, count, recvPend, sendPend, cq>>
  BY DEF SentFlag, SentCheck, call, events, log, net
<1>2. ShapeOf(t, pc[t], ret[t]) /\ cur[t] \in Slots /\ Typed /\ pc[t] \in UsePoints
  BY <1>1 DEF Sound, Counted, Shapes, Shape, Typed, TypeOK, CallType, UsePoints
<1>3. /\ ret[t] = <<>> /\ t \in Workers /\ ShapeOf(t, "sp_discon", <<"dec">>)
      /\ \A r \in {"sc_flag", "sc_check", "dec"} : ShapeOf(t, r, ret[t])
  BY <1>1, <1>2, ShapesAre
<1>4. /\ {"sc_flag", "sc_check", "dec"} \subseteq HoldPoints /\ "sp_discon" \notin HoldPoints
      /\ "sc_flag" \in Senderships /\ {"sp_discon", "sc_check", "dec"} \cap Senderships = {}
      /\ {"sc_flag", "sc_check", "dec", "sp_discon"} \subseteq UsePoints
      /\ {"sc_check", "sp_discon"} \subseteq Points
  BY DEF HoldPoints, SendPoints, Senderships, UsePoints, Points, OtherPoints
<1>5. /\ 0 \in Int /\ 0 \in Nat /\ sendFlag \in [Slots -> BOOLEAN] /\ Counts(t, 0, 0)
  BY <1>1, <1>2 DEF Typed, TypeOK, SendType, Counts
<1>6. CASE SentFlag(t)
  <2>1. pc[t] = "sc_flag" /\ sendFlag' = [sendFlag EXCEPT ![cur[t]] = FALSE] /\ Goto(t, "sc_check")
    BY <1>6 DEF SentFlag
  <2>2. Settle(t) /\ pc'[t] = "sc_check" /\ ret'[t] = ret[t]
    BY <1>2, <1>4, <2>1, GotoIs DEF Typed
  <2>3. UseOf(pc'[t], ret'[t]) + 0 = UseOf(pc[t], ret[t]) + 0
    BY <1>4, <2>1, <2>2 DEF UseOf
  <2>4. /\ ReadOf(pc'[t], ret'[t]) => ReadOf(pc[t], ret[t])
        /\ ShapeOf(t, pc'[t], ret'[t]) /\ pc'[t] \in UsePoints \cup {"idle", "rel_cas"}
        /\ pc[t] \in Senderships /\ pc'[t] \notin Senderships
        /\ \A s \in Slots : s # cur[t] => sendFlag'[s] = sendFlag[s]
    BY <1>3, <1>4, <1>5, <2>1, <2>2 DEF ReadOf
  <2> QED
    BY <1>1, <1>2, <1>5, <2>2, <2>3, <2>4, TradesBy
<1>7. CASE SentCheck(t)
  <2>1. /\ pc[t] = "sc_check" /\ UNCHANGED sendFlag
        /\ Enter(t, "sp_discon", <<"dec">>) \/ Goto(t, "dec")
    BY <1>7 DEF SentCheck, send
  <2>2. CASE Goto(t, "dec")
    BY <1>1, <1>2, <1>3, <1>4, <2>1, <2>2, TradesGoto
  <2>3. CASE Enter(t, "sp_discon", <<"dec">>)
    <3>1. Settle(t) /\ pc'[t] = "sp_discon" /\ ret'[t] = <<"dec">>
      BY <1>2, <1>4, <2>3, Frames, EnterIs DEF Typed
    <3>2. UseOf(pc'[t], ret'[t]) + 0 = UseOf(pc[t], ret[t]) + 0
      BY <1>3, <1>4, <2>1, <3>1, Frames DEF UseOf
    <3>3. /\ ~ReadOf(pc'[t], ret'[t])
          /\ ShapeOf(t, pc'[t], ret'[t]) /\ pc'[t] \in UsePoints \cup {"idle", "rel_cas"}
          /\ pc'[t] \notin Senderships /\ sendFlag'[cur[t]] = sendFlag[cur[t]]
          /\ \A s \in Slots : s # cur[t] => sendFlag'[s] = sendFlag[s]
      BY <1>3, <1>4, <2>1, <3>1, ReadFrames DEF ReadOf
    <3> QED
      BY <1>1, <1>2, <1>5, <3>1, <3>2, <3>3, TradesBy
  <2> QED
    BY <2>1, <2>2, <2>3
<1> QED
  BY <1>6, <1>7

(* A use is given up.                                                      *)
LEMMA DecTrades ==
  ASSUME Sound, Typed', NEW t \in Threads, Dec(t)
  PROVE  Trades(t)
<1>1. /\ pc[t] = "dec" /\ AddIO(t, -1)
      /\ Goto(t, "rel_cas") \/ Return(t)
      /\ UNCHANGED <<cur, posted, count, recvPend, sendPend, cq, sendFlag, drift>>
  BY DEF Dec, call, events, log, net, send
<1>2. ShapeOf(t, pc[t], ret[t]) /\ cur[t] \in Slots /\ Typed
  BY DEF Sound, Counted, Shapes, Shape, Typed, TypeOK, CallType
<1>3. /\ ShapeOf(t, "rel_cas", ret[t]) /\ ShapeOf(t, "idle", <<>>) /\ ShapeOf(t, "dec", <<>>)
      /\ \/ ret[t] = <<>> \/ ret[t] = <<"dec">>
         \/ ret[t] = <<"rp_discon", "dec">> /\ ShapeOf(t, "rp_discon", <<"dec">>)
  BY <1>1, <1>2, ShapesAre
<1>4. /\ "dec" \in HoldPoints /\ {"rel_cas", "idle", "rp_discon"} \cap HoldPoints = {}
      /\ {"rel_cas", "idle", "rp_discon", "dec"} \cap Senderships = {}
      /\ "dec" \in UsePoints /\ "rp_discon" \in UsePoints /\ "rel_cas" \in Points
      /\ -1 \in Int /\ 0 \in Nat
  BY DEF HoldPoints, Senderships, UsePoints, RecvPoints, Points, OtherPoints
<1>5. /\ Settle(t) /\ ShapeOf(t, pc'[t], ret'[t]) /\ pc'[t] \in {"rel_cas", "idle", "rp_discon", "dec"}
      /\ UseOf(pc'[t], ret'[t]) + 0 = UseOf(pc[t], ret[t]) + (-1)
      /\ ReadOf(pc'[t], ret'[t]) => ReadOf(pc[t], ret[t])
  <2>1. CASE Goto(t, "rel_cas")
    <3>1. Settle(t) /\ pc'[t] = "rel_cas" /\ ret'[t] = ret[t]
      BY <1>2, <1>4, <2>1, GotoIs DEF Typed
    <3> QED
      BY <1>1, <1>3, <1>4, <3>1 DEF UseOf, ReadOf
  <2>2. CASE Return(t)
    <3>1. Settle(t)
      BY <1>2, <2>2, ReturnIs DEF Typed
    <3>2. \/ ret[t] = <<>> /\ pc'[t] = "idle" /\ ret'[t] = <<>>
          \/ ret[t] = <<"dec">> /\ pc'[t] = "dec" /\ ret'[t] = <<>>
          \/ /\ ret[t] = <<"rp_discon", "dec">> /\ pc'[t] = "rp_discon" /\ ret'[t] = <<"dec">>
             /\ ShapeOf(t, pc'[t], ret'[t])
      BY <1>2, <1>3, <2>2, ReturnShape DEF Typed
    <3>3. ShapeOf(t, pc'[t], ret'[t]) /\ pc'[t] \in {"rel_cas", "idle", "rp_discon", "dec"}
      BY <1>3, <3>2
    <3>4. UseOf(pc'[t], ret'[t]) + 0 = UseOf(pc[t], ret[t]) + (-1)
      BY <1>1, <1>4, <3>2, Frames DEF UseOf
    <3>5. ReadOf(pc'[t], ret'[t]) => ReadOf(pc[t], ret[t])
      BY <1>1, <3>2, ReadFrames DEF ReadOf
    <3> QED
      BY <3>1, <3>3, <3>4, <3>5
  <2> QED
    BY <1>1, <2>1, <2>2
<1>6. Counts(t, -1, 0)
  BY <1>1 DEF Counts
<1>7. /\ pc'[t] \in UsePoints \cup {"idle", "rel_cas"} /\ pc'[t] \notin Senderships
      /\ sendFlag'[cur[t]] = sendFlag[cur[t]] /\ pc[t] \in UsePoints
      /\ \A s \in Slots : s # cur[t] => sendFlag'[s] = sendFlag[s]
  BY <1>1, <1>4, <1>5
<1> QED
  BY <1>1, <1>4, <1>5, <1>6, <1>7, TradesBy

-----------------------------------------------------------------------------
(* The invariant is kept.  First the slots that a step does not touch.     *)
LEMMA SlotKept ==
  ASSUME TypeOK, TypeOK', NEW s \in Slots, \A u \in Threads : Still(u) \/ Off(u, s),
         Unmoved(s), Live(s) => Live(s)', Balanced(s)
  PROVE  Balanced(s)'
<1>1. Holds(s)' = Holds(s) /\ Readers(s)' = Readers(s) /\ Senders(s)' = Senders(s)
  BY HoldsSame, RolesSame DEF Unmoved
<1>2. drift'[s] >= 0 /\ ioCount'[s] = Holds(s)' + drift'[s]
  BY <1>1 DEF Balanced, Unmoved
<1>3. OneAtATime(s)'
  BY <1>1 DEF Balanced, OneAtATime, Unmoved
<1>4. \A u \in Threads : cur'[u] = s => Still(u)
  BY DEF Off
<1>5. Undoing(s)'
  BY <1>1, <1>4 DEF Balanced, Undoing, Unmoved, Still
<1>6. ASSUME ~Live(s)' PROVE AtRest(s)'
  <2>1. AtRest(s)
    BY <1>6 DEF Balanced
  <2> QED
    BY <1>4, <2>1 DEF AtRest, Unmoved, Still
<1>7. ASSUME cur'[Acceptor] = s, pc'[Acceptor] \in Window \ {"init_io"} PROVE Alone(s)'
  <2>1. Acceptor \in Threads
    BY DEF Threads
  <2>2. Alone(s)
    BY <1>4, <1>7, <2>1 DEF Still, Balanced
  <2> QED
    BY <1>4, <2>2 DEF Alone, Unmoved, Still
<1> QED
  BY <1>2, <1>3, <1>5, <1>6, <1>7 DEF Balanced

(* A session that somebody uses, or that has I/O, is live, and nobody is   *)
(* setting it up or undoing a use of it.                                   *)
InUse(s) ==
  /\ Live(s)
  /\ cur[Acceptor] = s => pc[Acceptor] \notin ({"init_id"} \cup Window) \ {"acc_join"}
  /\ \A u \in Threads : cur[u] = s => pc[u] # "use_undo"
LEMMA Occupied ==
  ASSUME Sound, NEW s \in Slots, OnTime(s), NEW t \in Threads,
         (cur[t] = s /\ pc[t] \in UsePoints) \/ Net(s) > 0
  PROVE  InUse(s) /\ (cur[Acceptor] = s => pc[Acceptor] # "acc_join")
<1>1. Balanced(s) /\ Typed /\ Shape(t) /\ Acceptor \in Threads
  BY DEF Sound, Counted, Shapes, Threads
<1>2. Leftover \cap UsePoints = {} /\ UsePoints \cap (Window \cup {"idle"}) = {}
  BY DEF Leftover, UsePoints, RecvPoints, SendPoints, ClosePoints, PacketPoints, Window,
         ReleasePoints, InitPoints
<1>3. Live(s)
  <2>1. Net(s) = 0 \/ ~(Net(s) = 0)
    OBVIOUS
  <2>2. ASSUME AtRest(s) PROVE FALSE
    BY <1>2, <2>2 DEF AtRest
  <2> QED
    BY <1>1, <2>2 DEF Balanced
<1>4. ASSUME cur[Acceptor] = s, pc[Acceptor] \in {"init_id"} \cup Window PROVE FALSE
  <2>1. pc[Acceptor] \notin InitPoints
    BY <1>1, <1>3, <1>4 DEF Live, Owners
  <2>2. pc[Acceptor] \in Window \ {"init_io"}
    BY <1>4, <2>1 DEF InitPoints, Window
  <2>3. Alone(s)
    BY <1>1, <1>4, <2>2 DEF Balanced
  <2>4. cur[t] = s /\ pc[t] \in UsePoints /\ t # Acceptor
    <3>1. Net(s) = 0
      BY <2>3 DEF Alone
    <3>2. cur[t] = s /\ pc[t] \in UsePoints
      BY <3>1
    <3> QED
      BY <1>2, <2>2, <3>2
  <2> QED
    BY <1>2, <2>3, <2>4 DEF Alone
<1>5. ASSUME NEW u \in Threads, cur[u] = s, pc[u] = "use_undo" PROVE FALSE
  <2>1. Holds(s) = 1 /\ u \in Holders(s)
    BY <1>1, <1>5 DEF Balanced, Undoing, Holders, HoldPoints
  <2>2. Net(s) \in Nat
    BY <1>1, NetsType DEF Typed, Nets
  <2>3. ASSUME Net(s) > 0 PROVE FALSE
    <3>1. Holds(s) >= 1 + Net(s)
      BY <1>1, <2>1, HoldsAtLeast DEF Typed
    <3> QED
      BY <2>1, <2>2, <2>3, <3>1
  <2>4. cur[t] = s /\ pc[t] \in UsePoints
    BY <2>3
  <2>5. t # u
    BY <1>5, <2>4, PointsAre
  <2>6. Uses(t, s) > 0
    BY <1>1, <2>4, UsersUse
  <2>7. Holds(s) > 1
    BY <1>1, <2>1, <2>5, <2>6, HoldsAtLeast DEF Typed
  <2> QED
    BY <2>1, <2>7
<1> QED
  BY <1>3, <1>4, <1>5 DEF InUse, Window

(* The slot that a thread goes on to use.                                  *)
LEMMA SlotUsed ==
  ASSUME NEW t \in Threads, Settle(t), \A u \in Threads : u # t => cur'[u] = cur[u],
         NEW s \in Slots, InUse(s), cur[Acceptor] = s => pc[Acceptor] # "acc_join" \/ t = Acceptor,
         pc'[t] \notin Window \cup {"use_undo", "init_id"},
         sessionID'[s] = sessionID[s], releaseFlag'[s] = releaseFlag[s],
         drift'[s] >= 0, ioCount'[s] = Holds(s)' + drift'[s], OneAtATime(s)'
  PROVE  Balanced(s)'
<1>1. Acceptor \in Threads /\ "use_undo" \notin Window
  BY DEF Threads, Window
<1>2. Undoing(s)'
  BY DEF Undoing, InUse, Settle
<1>3. pc'[t] \notin InitPoints
  BY DEF InitPoints, Window
<1>4. Live(s)'
  BY <1>3 DEF InUse, Live, Owners, Settle
<1>5. cur'[Acceptor] = s => pc'[Acceptor] \notin Window \ {"init_io"}
  BY <1>1 DEF InUse, Settle
<1> QED
  BY <1>2, <1>4, <1>5 DEF Balanced

(* Where the threads are, after one of them moved.                         *)
LEMMA ShapesBy ==
  ASSUME Shapes, NEW t \in Threads, Settle(t), ShapeOf(t, pc'[t], ret'[t])
  PROVE  Shapes'
BY SMTT(30) DEF Shapes, Shape, Settle, ShapeOf

(* A step that numbers no connection and sets none up.                     *)
LEMMA NumbersBy ==
  ASSUME Numbers, UNCHANGED sessionID, count'.accepts = count.accepts, count'.late = count.late,
         \/ UNCHANGED <<cur, pc>>
         \/ \E t \in Threads : /\ Settle(t) /\ pc'[t] \notin {"init_id"} \cup Window
                               /\ \A u \in Threads : u # t => cur'[u] = cur[u]
  PROVE  Numbers' /\ (Preparing' => Preparing)
<1>1. Acceptor \in Threads
  BY DEF Threads
<1>2. \/ pc'[Acceptor] = pc[Acceptor] /\ cur'[Acceptor] = cur[Acceptor]
      \/ pc'[Acceptor] \notin {"init_id"} \cup Window
  BY <1>1 DEF Settle
<1> QED
  BY <1>2 DEF Numbers, Preparing, Window

(* A callback that is not OnClientJoin, or none.                           *)
LEMMA JoinsBy ==
  ASSUME TypeOK, Joins, count'.accepts = count.accepts, Preparing' => Preparing,
         \/ UNCHANGED posted
         \/ \E e \in [kind : {"join", "recv", "leave"}, slot : Slots, conn : Nat] :
              /\ posted' = Append(posted, e)
              /\ e.kind = "join" => e.conn <= count.accepts /\ ~Preparing'
  PROVE  Joins'
<1>1. CASE UNCHANGED posted
  BY <1>1 DEF Joins
<1>2. ASSUME NEW e \in [kind : {"join", "recv", "leave"}, slot : Slots, conn : Nat],
             posted' = Append(posted, e), e.kind = "join" => e.conn <= count.accepts /\ ~Preparing'
      PROVE  Joins'
  <2>1. posted \in Seq([kind : {"join", "recv", "leave"}, slot : Slots, conn : Nat])
    BY DEF TypeOK, EventType
  <2>2. PICK n \in Nat : n = Len(posted)
    BY <2>1, LenProperties
  <2>3. /\ DOMAIN posted = 1 .. n /\ DOMAIN posted' = 1 .. n + 1 /\ posted'[n + 1] = e
        /\ \A i \in 1 .. n : posted'[i] = posted[i]
    BY <1>2, <2>1, <2>2, AppendProperties, LenProperties
  <2>4. \A i \in 1 .. n + 1 : i \in 1 .. n \/ i = n + 1
    BY <2>2
  <2> QED
    BY <1>2, <2>3, <2>4 DEF Joins
<1> QED
  BY <1>1, <1>2

(* A step inside a call.                                                   *)
LEMMA TradesCounted ==
  ASSUME Sound, Typed', NEW t \in Threads, Trades(t)
  PROVE  Counted'
<1>1. /\ Settle(t) /\ ShapeOf(t, pc'[t], ret'[t]) /\ cur[t] \in Slots /\ Typed
      /\ UNCHANGED <<cur, sessionID, releaseFlag, posted, count>>
      /\ pc'[t] \notin Window \cup {"use_undo", "init_id"}
  BY PointsAre DEF Trades, Shape, Sound, Typed, TypeOK, CallType, Window
<1>2. Shapes'
  BY <1>1, ShapesBy DEF Sound, Counted
<1>3. Numbers' /\ (Preparing' => Preparing)
  BY <1>1, NumbersBy DEF Sound, Counted
<1>4. Joins'
  BY <1>1, <1>3, JoinsBy DEF Sound, Counted, Typed
<1>5. ASSUME NEW s \in Slots, OnTime(s)' PROVE Balanced(s)'
  <2>1. OnTime(s) /\ Balanced(s)
    BY <1>1, <1>5 DEF OnTime, Sound, Counted
  <2>2. CASE s = cur[t]
    <3>1. InUse(s) /\ (cur[Acceptor] = s => pc[Acceptor] # "acc_join")
      BY <2>1, <2>2, Occupied DEF Trades
    <3>2. Exchanged(s) /\ OneAtATime(s)'
      BY <1>1, <2>1, <2>2 DEF Trades, OneAtATime, Readers, Senders, ReadNet, Readings, Reads,
                             HasRead, Owners, OfRecv
    <3>3. PICK h \in Nat, hh \in Nat : h = Holds(s) /\ hh = Holds(s)'
      BY <1>1, HoldsStep DEF Typed
    <3>4. PICK i \in Int, e \in Int : i = ioCount[s] /\ e = drift[s]
      BY <1>1 DEF Typed, TypeOK, LifeType
    <3>5. PICK ii \in Int, ee \in Int : ii = ioCount'[s] /\ ee = drift'[s]
      BY DEF Typed, TypeOK, LifeType
    <3>6. ee >= e /\ ii + e + h = i + ee + hh /\ e >= 0 /\ i = h + e
      BY <2>1, <3>2, <3>3, <3>4, <3>5 DEF Exchanged, Balanced
    <3>7. ee >= 0 /\ ii = hh + ee
      BY <3>6
    <3> QED
      BY <1>1, <3>1, <3>2, <3>3, <3>5, <3>7, SlotUsed
  <2>3. CASE s # cur[t]
    <3>1. \A u \in Threads : Still(u) \/ Off(u, s)
      BY <1>1, <2>3 DEF Still, Off, Settle
    <3>2. Unmoved(s)
      BY <2>3 DEF Trades
    <3>3. Live(s) => Live(s)'
      BY <1>1 DEF Live, Owners, InitPoints, Window, Settle
    <3> QED
      BY <1>1, <2>1, <3>1, <3>2, <3>3, SlotKept DEF Typed
  <2> QED
    BY <2>2, <2>3
<1> QED
  BY <1>2, <1>3, <1>4, <1>5 DEF Counted

(* A worker takes a completion, and with it the use and the right that the *)
(* completion stands for.                                                  *)
LEMMA TakeCounted ==
  ASSUME Sound, Typed', NEW t \in Threads, NEW k \in Kinds, Take(t, k), Settle(t),
         ShapeOf(t, pc'[t], ret'[t]), pc'[t] \notin Window \cup {"use_undo", "init_id"} \cup InitPoints,
         UseOf(pc'[t], ret'[t]) = 1,
         ReadOf(pc'[t], ret'[t]) => k \in {"recv", "recv_end"},
         pc'[t] \in Senderships => k = "sent",
         UNCHANGED <<life, sendFlag, recvPend, sendPend, drift>>,
         count'.accepts = count.accepts, count'.late = count.late,
         \/ UNCHANGED posted
         \/ \E e \in [kind : {"join", "recv", "leave"}, slot : Slots, conn : Nat] :
              posted' = Append(posted, e) /\ e.kind # "join"
  PROVE  Counted'
<1>1. /\ pc[t] = "idle" /\ t \in Workers /\ Typed /\ Owned /\ Head(cq).slot \in Slots
      /\ cur' = [cur EXCEPT ![t] = Head(cq).slot] /\ cur \in [Threads -> Slots]
  BY TakeIs DEF Take, Sound, Typed, TypeOK, CallType
<1>2. PICK h \in Slots : h = Head(cq).slot
  BY <1>1
<1>3. cur'[t] = h /\ \A u \in Threads : u # t => cur'[u] = cur[u]
  BY <1>1, <1>2
<1>4. ret[t] = <<>> /\ "idle" \notin HoldPoints \cup Senderships \cup InitPoints
  BY <1>1 DEF Sound, Counted, Shapes, Shape, ShapeOf, HoldPoints, Senderships, InitPoints
<1>5. Shapes'
  BY ShapesBy DEF Sound, Counted
<1>6. Numbers' /\ (Preparing' => Preparing)
  BY <1>3, NumbersBy DEF Sound, Counted, life
<1>7. Joins'
  BY <1>1, <1>6, JoinsBy DEF Sound, Counted, Typed
<1>8. \A s \in Slots :
        /\ Net(s) = Net(s)' + (IF s = h THEN 1 ELSE 0)
        /\ ReadNet(s) = ReadNet(s)' + (IF s = h /\ k \in {"recv", "recv_end"} THEN 1 ELSE 0)
        /\ SendNet(s) = SendNet(s)' + (IF s = h /\ k = "sent" THEN 1 ELSE 0)
        /\ Nets(s)'
  BY <1>1, <1>2, NetTaken DEF Typed
<1>9. ASSUME NEW s \in Slots, OnTime(s)' PROVE Balanced(s)'
  <2>1. OnTime(s) /\ Balanced(s)
    BY <1>9 DEF OnTime, Sound, Counted, life
  <2>2. CASE s = h
    <3>1. Net(s) > 0
      <4>1. Net(s) = Net(s)' + 1 /\ Net(s)' \in Nat
        BY <1>8, <2>2 DEF Nets
      <4> QED
        BY <4>1
    <3>2. InUse(s) /\ (cur[Acceptor] = s => pc[Acceptor] # "acc_join")
      BY <2>1, <3>1, Occupied
    <3>3. /\ Holds(s) \in Nat /\ Holds(s)' \in Nat /\ Uses(t, s)' = 1 /\ Uses(t, s) = 0
          /\ Holds(s)' + Net(s) + Uses(t, s) = Holds(s) + Net(s)' + Uses(t, s)'
      <4>1. Uses(t, s)' = 1
        BY <1>3, <2>2, UsesIs
      <4>2. ~Owes(t)
        BY <1>4 DEF Owes
      <4>3. Uses(t, s) = 0
        BY <1>1, <1>4, <4>2 DEF Uses
      <4> QED
        BY <1>1, <1>3, <4>1, <4>3, HoldsStep DEF Typed
    <3>4. PICK n \in Nat : n = Net(s)'
      BY <1>8 DEF Nets
    <3>5. PICK hh \in Nat, hs \in Nat : hh = Holds(s)' /\ hs = Holds(s)
      BY <3>3
    <3>6. hh + (n + 1) + 0 = hs + n + 1
      BY <1>8, <2>2, <3>3, <3>4, <3>5
    <3>7. hh = hs
      BY <3>6
    <3>8. drift'[s] >= 0 /\ ioCount'[s] = Holds(s)' + drift'[s]
      BY <2>1, <3>5, <3>7 DEF Balanced, life
    <3>9. OneAtATime(s)'
      <4>1. PICK a \in {0, 1}, b \in {0, 1} :
              /\ a = (IF k \in {"recv", "recv_end"} THEN 1 ELSE 0)
              /\ b = (IF k = "sent" THEN 1 ELSE 0)
        OBVIOUS
      <4>2. PICK x \in {0, 1}, y \in {0, 1} : x = ReadUse(t, s)' /\ y = SendUse(t, s)'
        BY DEF ReadUse, SendUse
      <4>3. x <= a /\ y <= b
        BY <1>3, <4>1, <4>2 DEF ReadUse, SendUse, ReadOf, Reads, HasRead
      <4>4. ReadUse(t, s) = 0 /\ SendUse(t, s) = 0
        BY <1>1, <1>4 DEF ReadUse, SendUse, Reads, HasRead
      <4>5. PICK m \in Nat, w \in Nat : m = ReadNet(s)' /\ w = SendNet(s)'
        BY <1>8 DEF Nets
      <4>6. ReadNet(s) = m + a /\ SendNet(s) = w + b
        BY <1>8, <2>2, <4>1, <4>5
      <4>7. PICK r \in Nat, d \in Nat, rr \in Nat, dd \in Nat :
              r = Readers(s) /\ d = Senders(s) /\ rr = Readers(s)' /\ dd = Senders(s)'
        BY <1>1, <1>3, RolesStep DEF Typed
      <4>8. rr + (m + a) + 0 = r + m + x /\ dd + (w + b) + 0 = d + w + y
        BY <1>1, <1>3, <4>2, <4>4, <4>5, <4>6, <4>7, RolesStep, SMTT(30) DEF Typed
      <4>9. rr <= r /\ dd <= d
        BY <4>3, <4>8
      <4>10. r <= 1 /\ d <= 1 /\ (d = 1 => sendFlag[s])
        BY <2>1, <4>7 DEF Balanced, OneAtATime
      <4>11. rr <= 1 /\ dd <= 1 /\ (dd = 1 => sendFlag'[s])
        BY <4>9, <4>10
      <4> QED
        BY <4>7, <4>11 DEF OneAtATime
    <3> QED
      BY <1>3, <3>2, <3>8, <3>9, SlotUsed DEF life
  <2>3. CASE s # h
    <3>1. \A u \in Threads : Still(u) \/ Off(u, s)
      BY <1>1, <1>3, <1>4, <2>3 DEF Still, Off, Settle
    <3>2. Net(s)' = Net(s) /\ ReadNet(s)' = ReadNet(s) /\ SendNet(s)' = SendNet(s)
      BY <1>8, <2>3 DEF Nets
    <3>3. Unmoved(s)
      BY <3>2 DEF Unmoved, life
    <3>4. Live(s) => Live(s)'
      BY <1>1, <1>3, <1>4 DEF Live, Owners, Settle, life
    <3> QED
      BY <1>1, <2>1, <3>1, <3>3, <3>4, SlotKept DEF Typed
  <2> QED
    BY <2>2, <2>3
<1> QED
  BY <1>5, <1>6, <1>7, <1>9 DEF Counted

(* The handlers of completions.                                            *)
LEMMA WorkCounted ==
  ASSUME Sound, Typed', NEW t \in Threads, Working(t)
  PROVE  Counted'
<1>1. Typed /\ CountOK
  BY DEF Sound, Typed
<1>2. /\ {"dec", "sp_discon", "sc_flag", "rp_discon", "use_inc"} \subseteq Points
      /\ {"dec", "sc_flag"} \subseteq HoldPoints
      /\ {"sp_discon", "rp_discon", "use_inc"} \cap HoldPoints = {}
      /\ "sc_flag" \in Senderships /\ {"dec", "sp_discon", "rp_discon", "use_inc"} \cap Senderships = {}
      /\ {"dec", "sp_discon", "sc_flag", "rp_discon", "use_inc"} \cap
           (Window \cup {"use_undo", "init_id"} \cup InitPoints) = {}
  BY DEF Points, HoldPoints, OtherPoints, Senderships, Window, InitPoints
<1>3. <<"dis_check", "rp_discon", "dec">> \in Seq(ReturnPoints)
  BY DEF ReturnPoints
<1>4. \A p \in Points : \A q \in Seq(ReturnPoints) :
        Enter(t, p, q) => Settle(t) /\ pc'[t] = p /\ ret'[t] = q
  BY <1>1, EnterIs DEF Typed
<1>5. t \in Workers /\ t # Content
  BY ThreadsAssumption
     DEF Working, WorkerEnd, WorkerRequest, WorkerSent, Sent, WorkerRecv, Take
<1>6. /\ ShapeOf(t, "dec", <<>>) /\ ShapeOf(t, "sp_discon", <<"dec">>) /\ ShapeOf(t, "sc_flag", <<>>)
      /\ ShapeOf(t, "rp_discon", <<"dec">>)
      /\ ShapeOf(t, "use_inc", <<"dis_check", "rp_discon", "dec">>)
  BY <1>5 DEF ShapeOf, RecvPoints, SendPoints, PacketPoints, ClosePoints, Using, ReleasePoints,
              Window
<1>7. CASE WorkerEnd(t)
  <2>1. Take(t, "recv_end") /\ Enter(t, "dec", <<>>)
        /\ UNCHANGED <<life, sendFlag, recvPend, sendPend, drift, count, posted>>
    BY <1>7 DEF WorkerEnd, send, log, events
  <2>2. Settle(t) /\ pc'[t] = "dec" /\ ret'[t] = <<>>
    BY <1>2, <1>4, <2>1, Frames
  <2>3. UseOf(pc'[t], ret'[t]) = 1 /\ ~ReadOf(pc'[t], ret'[t])
    BY <1>2, <2>2, Frames, ReadFrames DEF UseOf, ReadOf
  <2>4. "recv_end" \in Kinds /\ pc'[t] \notin Senderships /\ ShapeOf(t, pc'[t], ret'[t])
        /\ pc'[t] \notin Window \cup {"use_undo", "init_id"} \cup InitPoints
    BY <1>2, <1>6, <2>2 DEF Kinds
  <2> QED
    BY <2>1, <2>2, <2>3, <2>4, TakeCounted
<1>8. CASE WorkerRequest(t)
  <2>1. Take(t, "request") /\ Enter(t, "sp_discon", <<"dec">>)
        /\ UNCHANGED <<life, sendFlag, recvPend, sendPend, drift, count, posted>>
    BY <1>8 DEF WorkerRequest, send, log, events
  <2>2. Settle(t) /\ pc'[t] = "sp_discon" /\ ret'[t] = <<"dec">>
    BY <1>2, <1>4, <2>1, Frames
  <2>3. UseOf(pc'[t], ret'[t]) = 1 /\ ~ReadOf(pc'[t], ret'[t])
    BY <1>2, <2>2, Frames, ReadFrames DEF UseOf, ReadOf
  <2>4. "request" \in Kinds /\ pc'[t] \notin Senderships /\ ShapeOf(t, pc'[t], ret'[t])
        /\ pc'[t] \notin Window \cup {"use_undo", "init_id"} \cup InitPoints
    BY <1>2, <1>6, <2>2 DEF Kinds
  <2> QED
    BY <2>1, <2>2, <2>3, <2>4, TakeCounted
<1>9. CASE WorkerSent(t)
  <2>1. Take(t, "sent") /\ Enter(t, "sc_flag", <<>>)
        /\ UNCHANGED <<life, sendFlag, recvPend, sendPend, drift, count, posted>>
    BY <1>9 DEF WorkerSent, Sent, events
  <2>2. Settle(t) /\ pc'[t] = "sc_flag" /\ ret'[t] = <<>>
    BY <1>2, <1>4, <2>1, Frames
  <2>3. UseOf(pc'[t], ret'[t]) = 1 /\ ~ReadOf(pc'[t], ret'[t])
    BY <1>2, <2>2, Frames, ReadFrames DEF UseOf, ReadOf
  <2>4. "sent" \in Kinds /\ ShapeOf(t, pc'[t], ret'[t])
        /\ pc'[t] \notin Window \cup {"use_undo", "init_id"} \cup InitPoints
    BY <1>2, <1>6, <2>2 DEF Kinds
  <2> QED
    BY <2>1, <2>2, <2>3, <2>4, TakeCounted
<1>10. CASE WorkerRecv(t)
  <2>1. /\ Take(t, "recv") /\ UNCHANGED <<life, sendFlag, recvPend, sendPend, drift>>
        /\ \/ Enter(t, "rp_discon", <<"dec">>) /\ UNCHANGED count
           \/ /\ Enter(t, "use_inc", <<"dis_check", "rp_discon", "dec">>)
              /\ count' = [count EXCEPT !.disconnects = @ + 1]
        /\ \/ UNCHANGED posted
           \/ posted' = Append(posted, [kind |-> "recv", slot |-> Head(cq).slot,
                                        conn |-> sessionID[Head(cq).slot]])
    BY <1>10 DEF WorkerRecv, send
  <2>2. /\ Settle(t) /\ UseOf(pc'[t], ret'[t]) = 1 /\ pc'[t] \notin Senderships
        /\ ShapeOf(t, pc'[t], ret'[t])
        /\ pc'[t] \notin Window \cup {"use_undo", "init_id"} \cup InitPoints
    <3>1. CASE Enter(t, "rp_discon", <<"dec">>)
      <4>1. Settle(t) /\ pc'[t] = "rp_discon" /\ ret'[t] = <<"dec">>
        BY <1>2, <1>4, <3>1, Frames
      <4> QED
        BY <1>2, <1>6, <4>1, Frames DEF UseOf
    <3>2. CASE Enter(t, "use_inc", <<"dis_check", "rp_discon", "dec">>)
      <4>1. Settle(t) /\ pc'[t] = "use_inc" /\ ret'[t] = <<"dis_check", "rp_discon", "dec">>
        BY <1>2, <1>3, <1>4, <3>2
      <4> QED
        BY <1>2, <1>6, <4>1, Frames DEF UseOf
    <3> QED
      BY <2>1, <3>1, <3>2
  <2>3. count'.accepts = count.accepts /\ count'.late = count.late
    BY <1>1, <2>1 DEF CountOK
  <2>4. \/ UNCHANGED posted
        \/ \E e \in [kind : {"join", "recv", "leave"}, slot : Slots, conn : Nat] :
             posted' = Append(posted, e) /\ e.kind # "join"
    <3>1. "recv" \in Kinds
      BY DEF Kinds
    <3>2. Head(cq).slot \in Slots
      BY <1>1, <2>1, <3>1, TakeIs
    <3>3. sessionID[Head(cq).slot] \in Nat
      BY <1>1, <3>2 DEF Typed, TypeOK, LifeType
    <3>4. PICK e : e = [kind |-> "recv", slot |-> Head(cq).slot, conn |-> sessionID[Head(cq).slot]]
      OBVIOUS
    <3>5. e \in [kind : {"join", "recv", "leave"}, slot : Slots, conn : Nat] /\ e.kind # "join"
      BY <3>2, <3>3, <3>4
    <3> QED
      BY <2>1, <3>4, <3>5
  <2>5. "recv" \in Kinds
    BY DEF Kinds
  <2> QED
    BY <2>1, <2>2, <2>3, <2>4, <2>5, TakeCounted
<1> QED
  BY <1>7, <1>8, <1>9, <1>10 DEF Working

(* A thread goes on at a slot, or comes to it, without a change of what is *)
(* counted there.                                                          *)
LEMMA SlotPassed ==
  ASSUME TypeOK, TypeOK', NEW t \in Threads, Settle(t),
         \A u \in Threads : u # t => cur'[u] = cur[u],
         NEW s \in Slots, cur'[t] = s, Unmoved(s), Balanced(s),
         Uses(t, s)' = Uses(t, s), ReadUse(t, s)' = ReadUse(t, s), SendUse(t, s)' = SendUse(t, s),
         pc'[t] # "use_undo", Live(s) => Live(s)',
         AtRest(s) => pc'[t] \in Leftover /\ (t # Content => ret'[t] = <<>> /\ pc'[t] \notin Using),
         cur'[Acceptor] = s => pc'[Acceptor] \notin Window \ {"init_io"}
  PROVE  Balanced(s)'
<1>1. Holds(s)' = Holds(s)
  <2>1. PICK h \in Nat, n \in Nat, u \in Nat : h = Holds(s) /\ n = Net(s) /\ u = Uses(t, s)
    BY HoldsStep
  <2>2. PICK hh \in Nat : hh = Holds(s)'
    BY HoldsStep
  <2>3. hh + n + u = h + n + u
    BY <2>1, <2>2, HoldsStep DEF Unmoved
  <2>4. hh = h
    BY <2>3
  <2> QED
    BY <2>1, <2>2, <2>4
<1>2. Readers(s)' = Readers(s) /\ Senders(s)' = Senders(s)
  <2>1. PICK r \in Nat, d \in Nat, m \in Nat, w \in Nat :
          r = Readers(s) /\ d = Senders(s) /\ m = ReadNet(s) /\ w = SendNet(s)
    BY RolesStep DEF Nets
  <2>2. PICK rr \in Nat, dd \in Nat : rr = Readers(s)' /\ dd = Senders(s)'
    BY RolesStep
  <2>3. PICK x \in {0, 1}, y \in {0, 1} : x = ReadUse(t, s) /\ y = SendUse(t, s)
    BY DEF ReadUse, SendUse
  <2>4. rr + m + x = r + m + x /\ dd + w + y = d + w + y
    BY <2>1, <2>2, <2>3, RolesStep DEF Unmoved
  <2>5. rr = r /\ dd = d
    BY <2>4
  <2> QED
    BY <2>1, <2>2, <2>5
<1>3. drift'[s] >= 0 /\ ioCount'[s] = Holds(s)' + drift'[s]
  BY <1>1 DEF Balanced, Unmoved
<1>4. OneAtATime(s)'
  BY <1>2 DEF Balanced, OneAtATime, Unmoved
<1>5. Undoing(s)'
  BY <1>1 DEF Balanced, Undoing, Unmoved, Settle
<1>6. ASSUME ~Live(s)' PROVE AtRest(s)'
  <2>1. AtRest(s)
    BY <1>6 DEF Balanced
  <2> QED
    BY <2>1 DEF AtRest, Unmoved, Settle
<1> QED
  BY <1>3, <1>4, <1>5, <1>6 DEF Balanced

(* Steps of the environment, and calls that end at once.                   *)
LEMMA RestsCounted ==
  ASSUME Sound, Typed', UNCHANGED <<pc, ret, cur, life, sendFlag, drift, posted>>,
         count'.accepts = count.accepts, count'.late = count.late,
         UNCHANGED <<recvPend, sendPend, cq>> \/ NetSame
  PROVE  Counted'
<1>1. Shapes' /\ Typed
  BY DEF Sound, Counted, Shapes, Shape, ShapeOf
<1>2. Numbers' /\ (Preparing' => Preparing)
  BY NumbersBy DEF Sound, Counted, life
<1>3. Joins'
  BY <1>1, <1>2, JoinsBy DEF Sound, Counted, Typed
<1>4. NetSame
  BY NetKept DEF NetSame
<1>5. ASSUME NEW s \in Slots, OnTime(s)' PROVE Balanced(s)'
  <2>1. OnTime(s) /\ Balanced(s)
    BY <1>5 DEF OnTime, Sound, Counted, life
  <2>2. Unmoved(s) /\ (Live(s) => Live(s)') /\ \A u \in Threads : Still(u) \/ Off(u, s)
    BY <1>4 DEF Unmoved, NetSame, life, Live, Owners, Still
  <2> QED
    BY <1>1, <2>1, <2>2, SlotKept DEF Typed
<1> QED
  BY <1>1, <1>2, <1>3, <1>5 DEF Counted

(* The same, action by action.                                             *)
LEMMA WorldCounted ==
  ASSUME Sound, Typed',
         \/ \E s \in Slots : Kernel(s) \/ PeerSends(s)
         \/ \E n \in Conns : PeerLeaves(n)
         \/ \E t \in Threads : AcceptBlocked(t)
         \/ TakeEvent
  PROVE  Counted'
<1>1. Typed /\ CountOK
  BY DEF Sound, Typed
<1>2. /\ UNCHANGED <<pc, ret, cur, life, sendFlag, drift, posted>>
      /\ count'.accepts = count.accepts /\ count'.late = count.late
  BY <1>1 DEF Kernel, RecvEnds, SendDone, PeerSends, PeerLeaves, AcceptBlocked, TakeEvent, control,
              call, log, events, send, CountOK
<1>3. UNCHANGED <<recvPend, sendPend, cq>> \/ NetSame
  <2>1. ASSUME NEW s \in Slots, RecvEnds(s) \/ PeerSends(s) PROVE NetSame
    <3>1. PICK k \in {"recv", "recv_end"} : Queue(k, s) /\ s \in recvPend /\ recvPend' = recvPend \ {s}
      BY <2>1 DEF RecvEnds, PeerSends
    <3>2. k \in Kinds /\ UNCHANGED sendPend
      BY <2>1 DEF RecvEnds, PeerSends, Kinds
    <3> QED
      BY <1>1, <3>1, <3>2, NetEnds DEF Typed, NetSame
  <2>2. ASSUME NEW s \in Slots, SendDone(s) PROVE NetSame
    BY <1>1, <2>2, NetEnds DEF Typed, NetSame, SendDone, Kinds
  <2>3. CASE \/ \E n \in Conns : PeerLeaves(n)
             \/ \E t \in Threads : AcceptBlocked(t)
             \/ TakeEvent
    BY <2>3 DEF PeerLeaves, AcceptBlocked, TakeEvent, net
  <2> QED
    BY <2>1, <2>2, <2>3 DEF Kernel
<1> QED
  BY <1>2, <1>3, RestsCounted

(* A thread in ReleaseSession leaves the count alone; a thread that gives  *)
(* the release up, or ends it, returns to where its own use is given up.   *)
LEMMA PassedCounted ==
  ASSUME Sound, Typed', NEW t \in Threads, pc[t] \in {"rel_cas"} \cup ReleasePoints,
         \/ Return(t)
         \/ pc[t] # "rel_cas" /\ \E p \in ReleasePoints : Goto(t, p),
         UNCHANGED <<life, sendFlag, cur, count, drift, recvPend, sendPend, cq>>,
         \/ UNCHANGED posted
         \/ \E e \in [kind : {"join", "recv", "leave"}, slot : Slots, conn : Nat] :
              posted' = Append(posted, e) /\ e.kind # "join"
  PROVE  Counted'
<1>1. Typed /\ cur[t] \in Slots /\ ShapeOf(t, pc[t], ret[t])
  BY DEF Sound, Typed, TypeOK, CallType, Counted, Shapes, Shape
<1>2. /\ \/ ret[t] = <<>>
         \/ t # Content /\ ret[t] = <<"dec">>
         \/ t \in Workers /\ ret[t] = <<"rp_discon", "dec">>
      /\ \A p \in ReleasePoints : ShapeOf(t, p, ret[t])
      /\ ShapeOf(t, "idle", <<>>) /\ ShapeOf(t, "dec", <<>>)
      /\ t # Content => ShapeOf(t, "rp_discon", <<"dec">>)
  BY <1>1 DEF ShapeOf, RecvPoints, SendPoints, PacketPoints, ClosePoints, Using, ReleasePoints, Window
<1>3. t \in Workers => t # Content
  BY ThreadsAssumption
<1>4. /\ {"rel_cas"} \cup ReleasePoints \subseteq Points \ HoldPoints
      /\ "dec" \in HoldPoints /\ {"idle", "rp_discon"} \cap HoldPoints = {}
      /\ ({"rel_cas", "idle", "dec", "rp_discon"} \cup ReleasePoints) \cap Senderships = {}
      /\ ({"rel_cas", "idle", "dec", "rp_discon"} \cup ReleasePoints) \cap
           (Window \cup InitPoints \cup {"use_undo", "init_id"}) = {}
      /\ ({"rel_cas"} \cup ReleasePoints) \cap {"rp_discon", "rp_inc", "rp_recv", "idle"} = {}
      /\ {"rel_cas", "idle"} \cup ReleasePoints \subseteq Leftover
      /\ ({"rel_cas", "idle"} \cup ReleasePoints) \cap Using = {}
  BY DEF ReleasePoints, Points, HoldPoints, OtherPoints, Senderships, Window, InitPoints, Leftover,
         Using
<1>5. /\ Settle(t)
      /\ \/ pc'[t] \in ReleasePoints /\ ret'[t] = ret[t]
         \/ pc'[t] = "idle" /\ ret[t] = <<>> /\ ret'[t] = <<>>
         \/ pc'[t] = "dec" /\ ret[t] = <<"dec">> /\ ret'[t] = <<>> /\ t # Content
         \/ pc'[t] = "rp_discon" /\ ret[t] = <<"rp_discon", "dec">> /\ ret'[t] = <<"dec">> /\ t # Content
  <2>1. CASE Return(t)
    BY <1>1, <1>2, <1>3, <2>1, ReturnIs, ReturnShape DEF Typed
  <2>2. ASSUME NEW p \in ReleasePoints, Goto(t, p)
        PROVE  Settle(t) /\ pc'[t] \in ReleasePoints /\ ret'[t] = ret[t]
    BY <1>1, <1>4, <2>2, GotoIs DEF Typed
  <2> QED
    BY <2>1, <2>2
<1>6. ShapeOf(t, pc'[t], ret'[t])
  BY <1>2, <1>5
<1>7. /\ pc'[t] \notin Window \cup InitPoints \cup {"use_undo", "init_id"}
      /\ pc'[t] \notin Senderships /\ pc[t] \notin Senderships /\ pc[t] # "idle"
      /\ pc[t] \notin InitPoints
  BY <1>4, <1>5
<1>8. UseOf(pc'[t], ret'[t]) = UseOf(pc[t], ret[t])
  BY <1>4, <1>5, Frames DEF UseOf
<1>9. ReadOf(pc'[t], ret'[t]) <=> ReadOf(pc[t], ret[t])
  <2>1. pc[t] \notin {"rp_discon", "rp_inc", "rp_recv"}
    BY <1>4
  <2>2. pc'[t] \in ReleasePoints => pc'[t] \notin {"rp_discon", "rp_inc", "rp_recv"}
    BY <1>4
  <2> QED
    BY <1>5, <2>1, <2>2, ReadFrames DEF ReadOf
<1>10. Shapes'
  BY <1>5, <1>6, ShapesBy DEF Sound, Counted
<1>11. Numbers' /\ (Preparing' => Preparing)
  BY <1>5, <1>7, NumbersBy DEF Sound, Counted, life
<1>12. Joins'
  BY <1>1, <1>11, JoinsBy DEF Sound, Counted, Typed
<1>13. ASSUME NEW s \in Slots, OnTime(s)' PROVE Balanced(s)'
  <2>1. OnTime(s) /\ Balanced(s)
    BY <1>13 DEF OnTime, Sound, Counted, life
  <2>2. Unmoved(s)
    BY NetKept DEF Unmoved, life
  <2>3. Live(s) => Live(s)'
    BY <1>5, <1>7 DEF Live, Owners, Settle, life
  <2>4. CASE s # cur[t]
    BY <1>1, <1>5, <2>1, <2>2, <2>3, <2>4, SlotKept DEF Typed, Still, Off, Settle
  <2>5. CASE s = cur[t]
    <3>1. Uses(t, s)' = Uses(t, s)
      BY <1>8, <2>5, UsesIs
    <3>2. ReadUse(t, s)' = ReadUse(t, s) /\ SendUse(t, s)' = SendUse(t, s)
      BY <1>7, <1>9 DEF ReadUse, SendUse, ReadOf, Reads, HasRead
    <3>3. ASSUME AtRest(s)
          PROVE  pc'[t] \in Leftover /\ (t # Content => ret'[t] = <<>> /\ pc'[t] \notin Using)
      <4>1. t # Content => ret[t] = <<>>
        BY <2>5, <3>3 DEF AtRest
      <4>2. pc'[t] \in ReleasePoints \cup {"idle"} /\ (t # Content => ret'[t] = <<>>)
        BY <1>5, <4>1, Frames
      <4> QED
        BY <1>4, <4>2
    <3>4. cur'[Acceptor] = s => pc'[Acceptor] \notin Window \ {"init_io"}
      <4>1. Acceptor \in Threads
        BY DEF Threads
      <4>2. ASSUME cur[Acceptor] = s, pc[Acceptor] \in Window \ {"init_io"}, t # Acceptor
            PROVE  FALSE
        <5>1. Alone(s)
          BY <2>1, <4>2 DEF Balanced
        <5> QED
          BY <1>7, <2>5, <4>2, <5>1 DEF Alone
      <4> QED
        BY <1>5, <1>7, <4>1, <4>2 DEF Settle
    <3>5. /\ cur'[t] = s /\ \A u \in Threads : u # t => cur'[u] = cur[u]
          /\ TypeOK /\ TypeOK' /\ pc'[t] # "use_undo"
      BY <1>1, <1>7, <2>5 DEF Typed
    <3> QED
      BY <1>5, <2>1, <2>2, <2>3, <3>1, <3>2, <3>3, <3>4, <3>5, SlotPassed
  <2> QED
    BY <2>4, <2>5
<1> QED
  BY <1>10, <1>11, <1>12, <1>13 DEF Counted

(* Nobody sets a slot up while another thread is there.                    *)
LEMMA NobodyPrepares ==
  ASSUME NEW s \in Slots, Balanced(s), NEW t \in Threads, cur[t] = s, t # Acceptor, pc[t] # "idle"
  PROVE  cur[Acceptor] = s => pc[Acceptor] \notin Window \ {"init_io"}
BY DEF Balanced, Alone

(* The exchange of the count and the flag succeeds: nobody uses the        *)
(* session any more, and nobody will but to find that out.                 *)
LEMMA CommitCounted ==
  ASSUME Sound, Typed', Owned', NEW t \in Threads, ReleaseCommit(t),
         ioCount[cur[t]] = 0, ~releaseFlag[cur[t]]
  PROVE  Counted'
<1>1. /\ pc[t] = "rel_cas" /\ releaseFlag' = [releaseFlag EXCEPT ![cur[t]] = TRUE] /\ Goto(t, "rel_leave")
      /\ UNCHANGED <<sessionID, ioCount, sendFlag, cur, count, drift, recvPend, sendPend, cq, posted>>
  BY DEF ReleaseCommit, ReleaseIf, send, call, net, log, events
<1>2. Typed /\ cur[t] \in Slots /\ ShapeOf(t, pc[t], ret[t]) /\ releaseFlag \in [Slots -> BOOLEAN]
  BY DEF Sound, Typed, TypeOK, CallType, Counted, Shapes, Shape, LifeType
<1>3. /\ "rel_leave" \in Points \ HoldPoints /\ "rel_cas" \notin HoldPoints
      /\ {"rel_cas", "rel_leave"} \cap Senderships = {}
      /\ {"rel_cas", "rel_leave"} \cap
           (Window \cup InitPoints \cup {"use_undo", "init_id", "idle", "rp_discon", "rp_inc", "rp_recv"}) = {}
  BY DEF ReleasePoints, Points, HoldPoints, OtherPoints, Senderships, Window, InitPoints
<1>4. Settle(t) /\ pc'[t] = "rel_leave" /\ ret'[t] = ret[t]
  BY <1>1, <1>2, <1>3, GotoIs DEF Typed
<1>5. ShapeOf(t, pc'[t], ret'[t])
  BY <1>1, <1>2, <1>4
     DEF ShapeOf, RecvPoints, SendPoints, PacketPoints, ClosePoints, Using, ReleasePoints, Window
<1>6. Shapes'
  BY <1>4, <1>5, ShapesBy DEF Sound, Counted
<1>7. Numbers' /\ (Preparing' => Preparing)
  BY <1>1, <1>3, <1>4, NumbersBy DEF Sound, Counted
<1>8. Joins'
  BY <1>1, <1>2, <1>7, JoinsBy DEF Sound, Counted, Typed
<1>9. ASSUME NEW s \in Slots, OnTime(s)' PROVE Balanced(s)'
  <2>1. OnTime(s) /\ Balanced(s)
    BY <1>1, <1>9 DEF OnTime, Sound, Counted
  <2>2. NetSame
    BY <1>1, NetKept DEF NetSame
  <2>3. Unmoved(s)
    BY <1>1, <2>2 DEF Unmoved, NetSame
  <2>4. CASE s # cur[t]
    <3>1. Live(s) => Live(s)'
      <4>1. releaseFlag'[s] = releaseFlag[s] /\ sessionID' = sessionID
        BY <1>1, <1>2, <2>4
      <4>2. \A u \in Threads : cur'[u] = cur[u] /\ (cur[u] = s => pc'[u] = pc[u])
        BY <1>1, <1>4, <2>4 DEF Settle
      <4> QED
        BY <4>1, <4>2 DEF Live, Owners
    <3>2. \A u \in Threads : Still(u) \/ Off(u, s)
      BY <1>1, <1>4, <2>4 DEF Still, Off, Settle
    <3> QED
      BY <1>2, <2>1, <2>3, <3>1, <3>2, SlotKept DEF Typed
  <2>5. CASE s = cur[t]
    <3>1. Holds(s) \in Nat /\ drift[s] \in Int
      BY <1>2, HoldsIs DEF Typed, Summed, TypeOK, LifeType
    <3>2. PICK h \in Nat, d \in Int : h = Holds(s) /\ d = drift[s]
      BY <3>1
    <3>3. d >= 0 /\ 0 = h + d
      BY <2>1, <2>5, <3>2 DEF Balanced
    <3>4. h = 0 /\ d = 0
      BY <3>2, <3>3
    <3>5. Net(s) = 0 /\ Holders(s) = {} /\ Owers(s) = {}
      BY <1>2, <3>2, <3>4, HoldsAtLeast DEF Typed
    <3>6. cur[Acceptor] = s => pc[Acceptor] \notin Window \ {"init_io"}
      <4>1. CASE t = Acceptor
        BY <1>1, <1>3, <4>1
      <4>2. CASE t # Acceptor
        BY <1>1, <2>1, <2>5, <4>2, NobodyPrepares
      <4> QED
        BY <4>1, <4>2
    <3>7. ASSUME NEW u \in Threads, cur[u] = s
          PROVE  \/ pc[u] \in Leftover /\ (u # Content => ret[u] = <<>> /\ pc[u] \notin Using)
                 \/ u = t
      <4>1. pc[u] \notin HoldPoints /\ ~HasDec(ret[u])
        BY <3>5, <3>7 DEF Holders, Owers, Owes, HasDec
      <4>2. ShapeOf(u, pc[u], ret[u]) /\ pc[u] \in Points
        BY <1>2 DEF Sound, Counted, Shapes, Shape, Typed, TypeOK, ControlType
      <4>3. ret[u] # <<"dec">> /\ ret[u] # <<"rp_discon", "dec">>
            /\ ret[u] # <<"dis_check", "rp_discon", "dec">>
        BY <4>1, Frames
      <4>4. pc[u] \notin RecvPoints \cup SendPoints
        BY <4>2, <4>3 DEF ShapeOf
      <4>5. pc[u] \notin {"init_rest", "acc_hold"}
        BY <3>6, <3>7, <4>2 DEF ShapeOf, Window
      <4>6. pc[u] \in Leftover
        BY <4>1, <4>2, <4>4, <4>5
           DEF Points, HoldPoints, OtherPoints, Leftover, RecvPoints, SendPoints, PacketPoints, ClosePoints
      <4>7. u # Content => ret[u] = <<>> /\ pc[u] \notin Using
        BY <4>2, <4>3, <4>6 DEF ShapeOf, Leftover, InitPoints, Window, Using
      <4> QED
        BY <4>6, <4>7
    <3>8. t # Content => ret[t] = <<>>
      <4>1. ~HasDec(ret[t])
        BY <2>5, <3>5 DEF Owers, Owes, HasDec
      <4>2. ret[t] # <<"dec">> /\ ret[t] # <<"rp_discon", "dec">>
        BY <4>1, Frames
      <4> QED
        BY <1>1, <1>2, <4>2 DEF ShapeOf
    <3>9. AtRest(s)'
      <4>1. "rel_leave" \in Leftover /\ "rel_leave" \notin Using
        BY DEF Leftover, ReleasePoints, Using
      <4>2. Net(s)' = 0 /\ drift'[s] = 0
        BY <2>3, <3>2, <3>4, <3>5 DEF Unmoved
      <4> QED
        BY <1>1, <1>4, <3>7, <3>8, <4>1, <4>2 DEF AtRest, Settle
    <3>10. Undoing(s)'
      <4>1. \A u \in Threads : cur[u] = s => pc[u] # "use_undo"
        BY <3>5 DEF Holders, HoldPoints
      <4> QED
        BY <1>1, <1>3, <1>4, <4>1 DEF Undoing, Settle
    <3>11. Holds(s)' = Holds(s) /\ OneAtATime(s)'
      <4>1. /\ Uses(t, s)' = Uses(t, s) /\ ReadUse(t, s)' = ReadUse(t, s)
            /\ SendUse(t, s)' = SendUse(t, s)
        BY <1>1, <1>3, <1>4 DEF Uses, Owes, ReadUse, SendUse, Reads, HasRead
      <4>2. PICK n \in Nat, u \in Nat, hh \in Nat : n = Net(s) /\ u = Uses(t, s) /\ hh = Holds(s)'
        BY <1>1, <1>2, <1>4, HoldsStep DEF Typed
      <4>3. hh + n + u = h + n + u
        BY <1>1, <1>2, <1>4, <2>3, <3>2, <4>1, <4>2, HoldsStep DEF Typed, Unmoved
      <4>4. hh = h
        BY <4>3
      <4>5. PICK r \in Nat, e \in Nat, m \in Nat, w \in Nat :
              r = Readers(s) /\ e = Senders(s) /\ m = ReadNet(s) /\ w = SendNet(s)
        BY <1>1, <1>2, <1>4, RolesStep DEF Nets, Typed
      <4>6. PICK rr \in Nat, ee \in Nat : rr = Readers(s)' /\ ee = Senders(s)'
        BY <1>1, <1>2, <1>4, RolesStep DEF Typed
      <4>7. PICK x \in {0, 1}, y \in {0, 1} : x = ReadUse(t, s) /\ y = SendUse(t, s)
        BY DEF ReadUse, SendUse
      <4>8. rr + m + x = r + m + x /\ ee + w + y = e + w + y
        BY <1>1, <1>2, <1>4, <2>3, <4>1, <4>5, <4>6, <4>7, RolesStep DEF Typed, Unmoved
      <4>9. rr = r /\ ee = e
        BY <4>8
      <4> QED
        BY <1>1, <2>1, <3>2, <4>2, <4>4, <4>5, <4>6, <4>9 DEF OneAtATime, Balanced
    <3>12. drift'[s] >= 0 /\ ioCount'[s] = Holds(s)' + drift'[s]
      BY <1>1, <2>1, <3>11 DEF Balanced
    <3>13. cur'[Acceptor] = s => pc'[Acceptor] \notin Window \ {"init_io"}
      BY <1>1, <1>3, <1>4, <3>6 DEF Settle, Threads
    <3> QED
      BY <3>9, <3>10, <3>11, <3>12, <3>13 DEF Balanced
  <2> QED
    BY <2>4, <2>5
<1> QED
  BY <1>6, <1>7, <1>8, <1>9 DEF Counted

(* ReleaseSession.                                                         *)
LEMMA ReleaseCounted ==
  ASSUME Sound, Typed', Owned', NEW t \in Threads,
         ReleaseCommit(t) \/ ReleaseLeave(t) \/ ReleaseClean(t) \/ ReleasePush(t)
  PROVE  Counted'
<1>1. CASE ReleaseCommit(t) /\ ioCount[cur[t]] = 0 /\ ~releaseFlag[cur[t]]
  BY <1>1, CommitCounted
<1>2. CASE ReleaseCommit(t) /\ ~(ioCount[cur[t]] = 0 /\ ~releaseFlag[cur[t]])
  BY <1>2, PassedCounted
     DEF ReleaseCommit, ReleaseIf, life, send, call, net, log, events
<1>3. CASE ReleaseLeave(t)
  <2>1. Typed /\ cur[t] \in Slots /\ sessionID[cur[t]] \in Nat
    BY DEF Sound, Typed, TypeOK, CallType, LifeType
  <2>2. PICK e : e = [kind |-> "leave", slot |-> cur[t], conn |-> sessionID[cur[t]]]
    OBVIOUS
  <2>3. e \in [kind : {"join", "recv", "leave"}, slot : Slots, conn : Nat] /\ e.kind # "join"
    BY <2>1, <2>2
  <2>4. posted' = Append(posted, e)
    BY <1>3, <2>2 DEF ReleaseLeave, Post
  <2>5. /\ pc[t] = "rel_leave" /\ Goto(t, "rel_clean")
        /\ UNCHANGED <<life, sendFlag, cur, count, drift, recvPend, sendPend, cq>>
    BY <1>3 DEF ReleaseLeave, send, call, net
  <2>6. {"rel_leave", "rel_clean"} \subseteq ReleasePoints /\ "rel_leave" # "rel_cas"
    BY DEF ReleasePoints
  <2> QED
    BY <2>3, <2>4, <2>5, <2>6, PassedCounted
<1>4. CASE ReleaseClean(t)
  <2>1. /\ pc[t] = "rel_clean" /\ Goto(t, "rel_push")
        /\ UNCHANGED <<life, sendFlag, cur, count, drift, recvPend, sendPend, cq, posted>>
    BY <1>4 DEF ReleaseClean, CleanUp, call, events
  <2>2. {"rel_clean", "rel_push"} \subseteq ReleasePoints /\ "rel_clean" # "rel_cas"
    BY DEF ReleasePoints
  <2> QED
    BY <2>1, <2>2, PassedCounted
<1>5. CASE ReleasePush(t)
  <2>1. /\ pc[t] = "rel_push" /\ Return(t)
        /\ UNCHANGED <<life, sendFlag, cur, count, drift, recvPend, sendPend, cq, posted>>
    BY <1>5 DEF ReleasePush, send, call, net, log, events
  <2>2. "rel_push" \in ReleasePoints
    BY DEF ReleasePoints
  <2> QED
    BY <2>1, <2>2, PassedCounted
<1> QED
  BY <1>1, <1>2, <1>3, <1>4, <1>5

(* StartUseSession raises the count.  Only the content can find it zero.   *)
LEMMA UseIncCounted ==
  ASSUME Sound, Typed', NEW t \in Threads, UseInc(t)
  PROVE  Counted'
<1>1. /\ pc[t] = "use_inc" /\ AddIO(t, 1)
      /\ IF ioCount[cur[t]] = 0 THEN Goto(t, "use_undo") ELSE Return(t)
      /\ UNCHANGED <<sessionID, releaseFlag, sendFlag, cur, count, drift, recvPend, sendPend, cq, posted>>
  BY DEF UseInc, Increment, AddIO, send, call, net, log, events
<1>2. Typed /\ cur[t] \in Slots /\ ShapeOf(t, pc[t], ret[t])
  BY DEF Sound, Typed, TypeOK, CallType, Counted, Shapes, Shape
<1>3. /\ {"use_undo", "snd_check", "dis_check"} \subseteq HoldPoints \cap Points
      /\ "use_inc" \notin HoldPoints
      /\ {"use_inc", "use_undo", "snd_check", "dis_check"} \cap Senderships = {}
      /\ {"use_inc", "use_undo", "snd_check", "dis_check"} \cap
           (Window \cup InitPoints \cup {"init_id", "idle", "rp_discon", "rp_inc", "rp_recv"}) = {}
      /\ "use_inc" \in Using
  BY DEF Points, HoldPoints, Senderships, Window, InitPoints, Using
<1>4. \/ t = Content /\ ret[t] \in {<<"snd_check">>, <<"dis_check">>}
      \/ t \in Workers /\ ret[t] = <<"dis_check", "rp_discon", "dec">>
  BY <1>1, <1>2, <1>3 DEF ShapeOf
<1>5. /\ ShapeOf(t, "use_undo", ret[t])
      /\ t = Content => ShapeOf(t, "snd_check", <<>>) /\ ShapeOf(t, "dis_check", <<>>)
      /\ t \in Workers => ShapeOf(t, "dis_check", <<"rp_discon", "dec">>)
      /\ t # Acceptor
  BY <1>4, ThreadsAssumption
     DEF ShapeOf, RecvPoints, SendPoints, PacketPoints, ClosePoints, Using, ReleasePoints, Window
<1>6. /\ Settle(t)
      /\ \/ ioCount[cur[t]] = 0 /\ pc'[t] = "use_undo" /\ ret'[t] = ret[t]
         \/ ret[t] = <<"snd_check">> /\ pc'[t] = "snd_check" /\ ret'[t] = <<>>
         \/ ret[t] = <<"dis_check">> /\ pc'[t] = "dis_check" /\ ret'[t] = <<>>
         \/ /\ ret[t] = <<"dis_check", "rp_discon", "dec">> /\ pc'[t] = "dis_check"
            /\ ret'[t] = <<"rp_discon", "dec">>
      /\ ioCount[cur[t]] = 0 => pc'[t] = "use_undo"
      /\ ioCount[cur[t]] # 0 => pc'[t] # "use_undo"
  <2>1. CASE ioCount[cur[t]] = 0
    BY <1>1, <1>2, <1>3, <2>1, GotoIs DEF Typed
  <2>2. CASE ioCount[cur[t]] # 0
    BY <1>1, <1>2, <1>4, <2>2, ReturnIs, ReturnShape DEF Typed
  <2> QED
    BY <2>1, <2>2
<1>7. ShapeOf(t, pc'[t], ret'[t])
  BY <1>4, <1>5, <1>6
<1>8. UseOf(pc'[t], ret'[t]) + 0 + 0 = UseOf(pc[t], ret[t]) + 1
  BY <1>1, <1>3, <1>6, Frames DEF UseOf
<1>9. ReadOf(pc'[t], ret'[t]) <=> ReadOf(pc[t], ret[t])
  BY <1>1, <1>3, <1>4, <1>6, ReadFrames DEF ReadOf
<1>10. /\ pc[t] \notin Senderships /\ pc'[t] \notin Senderships
       /\ pc'[t] \notin Window \cup InitPoints \cup {"init_id"}
  BY <1>1, <1>3, <1>6
<1>11. Shapes'
  BY <1>6, <1>7, ShapesBy DEF Sound, Counted
<1>12. Numbers' /\ (Preparing' => Preparing)
  BY <1>1, <1>6, <1>10, NumbersBy DEF Sound, Counted
<1>13. Joins'
  BY <1>1, <1>2, <1>12, JoinsBy DEF Sound, Counted, Typed
<1>14. NetSame
  BY <1>1, NetKept DEF NetSame
<1>15. Counts(t, 1, 0) /\ 1 \in Int /\ 0 \in Nat /\ 0 \in Int
  BY <1>1 DEF Counts
<1>16. ASSUME NEW s \in Slots, OnTime(s)' PROVE Balanced(s)'
  <2>1. OnTime(s) /\ Balanced(s)
    BY <1>1, <1>16 DEF OnTime, Sound, Counted
  <2>2. Live(s) => Live(s)'
    BY <1>1, <1>6, <1>10 DEF Live, Owners, Settle
  <2>3. CASE s # cur[t]
    <3>1. \A u \in Threads : Still(u) \/ Off(u, s)
      BY <1>1, <1>6, <2>3 DEF Still, Off, Settle
    <3>2. Unmoved(s)
      BY <1>1, <1>2, <1>14, <1>15, <2>3, CountsAre DEF Unmoved, NetSame
    <3> QED
      BY <1>2, <2>1, <2>2, <3>1, <3>2, SlotKept DEF Typed
  <2>4. CASE s = cur[t]
    <3>1. PICK h \in Nat, hh \in Nat : h = Holds(s) /\ hh = Holds(s)'
      BY <1>1, <1>2, <1>6, HoldsStep DEF Typed
    <3>2. PICK i \in Int, e \in Int : i = ioCount[s] /\ e = drift[s]
      BY <1>2 DEF Typed, TypeOK, LifeType
    <3>3. ioCount'[s] = i + 1 /\ drift'[s] = e /\ e >= 0 /\ i = h + e
      BY <1>1, <1>2, <1>15, <2>1, <2>4, <3>1, <3>2, CountsAre DEF Balanced
    <3>4. hh = h + 1
      <4>1. Uses(t, s)' = Uses(t, s) + 1 /\ Uses(t, s) \in Nat
        BY <1>1, <1>8, <2>4, UsesIs DEF UseOf
      <4>2. PICK n \in Nat, u \in Nat : n = Net(s) /\ u = Uses(t, s)
        BY <1>1, <1>2, <1>6, HoldsStep DEF Typed
      <4>3. hh + n + u = h + n + (u + 1)
        BY <1>1, <1>2, <1>6, <1>14, <3>1, <4>1, <4>2, HoldsStep DEF Typed, NetSame
      <4> QED
        BY <4>3
    <3>5. drift'[s] >= 0 /\ ioCount'[s] = Holds(s)' + drift'[s]
      BY <3>1, <3>3, <3>4
    <3>6. OneAtATime(s)'
      <4>1. OneAtATime(cur[t])
        BY <2>1, <2>4 DEF Balanced
      <4>2. ReadNet(cur[t])' = ReadNet(cur[t]) + 0 /\ SendNet(cur[t])' = SendNet(cur[t]) + 0
        <5>1. Nets(s)
          BY <1>2, NetsType DEF Typed
        <5>2. ReadNet(s)' = ReadNet(s) + 0 /\ SendNet(s)' = SendNet(s) + 0
          BY <1>14, <5>1 DEF NetSame, Nets
        <5> QED
          BY <1>1, <2>4, <5>2
      <4>3. One(ReadOf(pc'[t], ret'[t])) + 0 <= One(ReadOf(pc[t], ret[t]))
        BY <1>9 DEF One
      <4>4. /\ One(pc'[t] \in Senderships) + 0 <= One(pc[t] \in Senderships)
            /\ sendFlag'[cur[t]] = sendFlag[cur[t]]
        BY <1>1, <1>10 DEF One
      <4>5. OneAtATime(cur[t])'
        BY <1>1, <1>2, <1>6, <1>15, <4>1, <4>2, <4>3, <4>4, RightsKept
      <4> QED
        BY <1>1, <2>4, <4>5
          DEF OneAtATime, Readers, Senders, ReadNet, Readings, Reads, HasRead, Owners, OfRecv
    <3>7. i = 0 => h = 0 /\ e = 0
      BY <3>3
    <3>8. t \in Workers => Uses(t, s) > 0
      BY <1>4, <2>4, ThreadsAssumption, UsesIs, Frames DEF UseOf
    <3>9. t \in Workers => h # 0
      <4>1. PICK n \in Nat, u \in Nat : n = Net(s) /\ u = Uses(t, s)
        BY <1>1, <1>2, <1>6, HoldsStep DEF Typed
      <4>2. h >= u + n
        BY <1>2, <3>1, <4>1, HoldsAtLeast DEF Typed
      <4> QED
        BY <3>8, <4>1, <4>2
    <3>10. Undoing(s)'
      <4>1. ASSUME NEW u \in Threads, u # t, cur[u] = s, pc[u] = "use_undo" PROVE FALSE
        <5>1. u = Content /\ h = 1 /\ u \in Holders(s)
          BY <2>1, <3>1, <4>1 DEF Balanced, Undoing, Holders, HoldPoints
        <5>2. t \in Workers
          BY <1>4, <4>1, <5>1
        <5>3. Uses(t, s) > 0 /\ t # u
          BY <3>8, <4>1, <5>2
        <5>4. Holds(s) > 1
          BY <1>2, <5>1, <5>3, HoldsAtLeast DEF Typed
        <5> QED
          BY <3>1, <5>1, <5>4
      <4>2. pc'[t] = "use_undo" => t = Content /\ hh = 1 /\ drift'[s] = 0
        <5>1. pc'[t] = "use_undo" => i = 0
          BY <1>6, <2>4, <3>2
        <5> QED
          BY <1>4, <3>3, <3>4, <3>7, <3>9, <5>1
      <4> QED
        BY <1>1, <1>6, <3>1, <4>1, <4>2 DEF Undoing, Settle
    <3>11. ASSUME ~Live(s)' PROVE AtRest(s)'
      <4>1. AtRest(s)
        BY <2>1, <2>2, <3>11 DEF Balanced
      <4>2. t = Content
        BY <1>1, <1>3, <2>4, <4>1 DEF AtRest
      <4>3. Holders(s) = {}
        <5>1. Leftover \cap HoldPoints = {"use_undo"}
          BY DEF Leftover, HoldPoints, ReleasePoints, InitPoints
        <5>2. \A u \in Threads : cur[u] = s /\ pc[u] \in HoldPoints => pc[u] = "use_undo"
          BY <4>1, <5>1 DEF AtRest
        <5>3. \A u \in Threads : cur[u] = s /\ pc[u] = "use_undo" => u = Content
          BY <2>1 DEF Balanced, Undoing
        <5> QED
          BY <1>1, <4>2, <5>2, <5>3 DEF Holders
      <4>4. Owers(s) = {}
        <5>1. ~HasDec(ret[t])
          BY <1>4, <4>2, ThreadsAssumption, Frames
        <5>2. \A u \in Threads : cur[u] = s /\ u # t => ret[u] = <<>>
          BY <4>1, <4>2 DEF AtRest
        <5> QED
          BY <5>1, <5>2, Frames DEF Owers, Owes, HasDec
      <4>5. h = 0
        BY <1>2, <3>1, <4>1, <4>3, <4>4, HoldsAtLeast DEF AtRest, Typed
      <4>6. i = 0
        BY <3>2, <3>3, <4>1, <4>5 DEF AtRest
      <4>7. pc'[t] = "use_undo"
        BY <1>6, <2>4, <3>2, <4>6
      <4>8. "use_undo" \in Leftover
        BY DEF Leftover
      <4>9. Net(s)' = 0 /\ drift'[s] = 0
        BY <1>1, <1>14, <4>1 DEF NetSame, AtRest
      <4> QED
        BY <1>1, <1>6, <4>1, <4>2, <4>7, <4>8, <4>9 DEF AtRest, Settle
    <3>12. cur'[Acceptor] = s => pc'[Acceptor] \notin Window \ {"init_io"}
      <4>1. cur[Acceptor] = s => pc[Acceptor] \notin Window \ {"init_io"}
        BY <1>1, <1>3, <1>5, <2>1, <2>4, NobodyPrepares
      <4> QED
        BY <1>1, <1>5, <1>6, <4>1 DEF Settle, Threads
    <3> QED
      BY <3>5, <3>6, <3>10, <3>11, <3>12 DEF Balanced
  <2> QED
    BY <2>3, <2>4
<1> QED
  BY <1>11, <1>12, <1>13, <1>16 DEF Counted

(* StartUseSession gives its use up; what it met was a count of zero, so   *)
(* it goes on with the release.                                            *)
LEMMA UseUndoCounted ==
  ASSUME Sound, Typed', NEW t \in Threads, UseUndo(t)
  PROVE  Counted'
<1>1. /\ pc[t] = "use_undo" /\ AddIO(t, -1)
      /\ IF ioCount[cur[t]] = 1
         THEN Enter(t, "rel_cas", Tail(ret[t])) /\ UNCHANGED drift
         ELSE Return(t) /\ Drift(t, -1)
      /\ UNCHANGED <<sessionID, releaseFlag, sendFlag, cur, count, recvPend, sendPend, cq, posted>>
  BY DEF UseUndo, Undo, AddIO, send, net, events
<1>2. Typed /\ cur[t] \in Slots /\ ShapeOf(t, pc[t], ret[t]) /\ ioCount \in [Slots -> Int]
      /\ drift \in [Slots -> Int]
  BY DEF Sound, Typed, TypeOK, CallType, Counted, Shapes, Shape, LifeType
<1>3. /\ {"use_undo", "snd_check", "dis_check"} \subseteq HoldPoints
      /\ "rel_cas" \notin HoldPoints /\ "rel_cas" \in Points
      /\ {"rel_cas", "use_undo", "snd_check", "dis_check"} \cap Senderships = {}
      /\ {"rel_cas", "use_undo", "snd_check", "dis_check"} \cap
           (Window \cup InitPoints \cup {"init_id", "idle", "rp_discon", "rp_inc", "rp_recv"}) = {}
      /\ "use_undo" \in Using
  BY DEF Points, HoldPoints, OtherPoints, Senderships, Window, InitPoints, Using
<1>4. \/ t = Content /\ ret[t] \in {<<"snd_check">>, <<"dis_check">>}
      \/ t \in Workers /\ ret[t] = <<"dis_check", "rp_discon", "dec">>
  BY <1>1, <1>2, <1>3 DEF ShapeOf
<1>5. /\ ShapeOf(t, "rel_cas", <<>>)
      /\ t = Content => ShapeOf(t, "snd_check", <<>>) /\ ShapeOf(t, "dis_check", <<>>)
      /\ t \in Workers => /\ ShapeOf(t, "dis_check", <<"rp_discon", "dec">>)
                          /\ ShapeOf(t, "rel_cas", <<"rp_discon", "dec">>)
      /\ t # Acceptor
  BY <1>4, ThreadsAssumption
     DEF ShapeOf, RecvPoints, SendPoints, PacketPoints, ClosePoints, Using, ReleasePoints, Window
<1>6. /\ Settle(t)
      /\ pc'[t] = "rel_cas" => ret'[t] = Tail(ret[t])
      /\ \/ pc'[t] = "rel_cas"
         \/ ret[t] = <<"snd_check">> /\ pc'[t] = "snd_check" /\ ret'[t] = <<>>
         \/ ret[t] = <<"dis_check">> /\ pc'[t] = "dis_check" /\ ret'[t] = <<>>
         \/ /\ ret[t] = <<"dis_check", "rp_discon", "dec">> /\ pc'[t] = "dis_check"
            /\ ret'[t] = <<"rp_discon", "dec">>
      /\ ioCount[cur[t]] = 1 => pc'[t] = "rel_cas"
  <2>1. CASE ioCount[cur[t]] = 1
    <3>1. Tail(ret[t]) \in Seq(ReturnPoints)
      BY <1>2, <1>1, <1>3, TailIs DEF Typed
    <3> QED
      BY <1>1, <1>2, <1>3, <2>1, <3>1, EnterIs, ZenonT(30) DEF Typed
  <2>2. CASE ioCount[cur[t]] # 1
    BY <1>1, <1>2, <1>4, <2>2, ReturnIs, ReturnShape DEF Typed
  <2> QED
    BY <2>1, <2>2
<1>7. /\ t = Content => Tail(ret[t]) = <<>>
      /\ t \in Workers => Tail(ret[t]) = <<"rp_discon", "dec">>
  BY <1>4, ThreadsAssumption, Frames
<1>8. ShapeOf(t, pc'[t], ret'[t])
  <2>1. CASE pc'[t] = "rel_cas"
    <3>1. ret'[t] = Tail(ret[t])
      BY <1>6, <2>1
    <3>2. CASE t = Content
      BY <1>5, <1>7, <2>1, <3>1, <3>2
    <3>3. CASE t \in Workers
      BY <1>5, <1>7, <2>1, <3>1, <3>3
    <3> QED
      BY <1>4, <3>2, <3>3
  <2>2. CASE ret[t] \in {<<"snd_check">>, <<"dis_check">>} /\ pc'[t] # "rel_cas"
    <3>1. t = Content
      BY <1>4, <2>2, ReadFrames
    <3> QED
      BY <1>5, <1>6, <2>2, <3>1, ReadFrames
  <2>3. CASE ret[t] = <<"dis_check", "rp_discon", "dec">> /\ pc'[t] # "rel_cas"
    <3>1. t \in Workers
      BY <1>4, <2>3, ReadFrames
    <3> QED
      BY <1>5, <1>6, <2>3, <3>1, ReadFrames
  <2> QED
    BY <1>4, <2>1, <2>2, <2>3
<1>9. /\ pc[t] \notin Senderships /\ pc'[t] \notin Senderships
      /\ pc'[t] \notin Window \cup InitPoints \cup {"init_id", "use_undo"}
  BY <1>1, <1>3, <1>6
<1>10. Shapes'
  BY <1>6, <1>8, ShapesBy DEF Sound, Counted
<1>11. Numbers' /\ (Preparing' => Preparing)
  BY <1>1, <1>6, <1>9, NumbersBy DEF Sound, Counted
<1>12. Joins'
  BY <1>1, <1>2, <1>11, JoinsBy DEF Sound, Counted, Typed
<1>13. NetSame
  BY <1>1, NetKept DEF NetSame
<1>14. ASSUME NEW s \in Slots, OnTime(s)' PROVE Balanced(s)'
  <2>1. OnTime(s) /\ Balanced(s)
    BY <1>1, <1>14 DEF OnTime, Sound, Counted
  <2>2. Live(s) => Live(s)'
    BY <1>1, <1>6, <1>9 DEF Live, Owners, Settle
  <2>3. CASE s # cur[t]
    <3>1. \A u \in Threads : Still(u) \/ Off(u, s)
      BY <1>1, <1>6, <2>3 DEF Still, Off, Settle
    <3>2. Unmoved(s)
      BY <1>1, <1>2, <1>13, <2>3 DEF Unmoved, NetSame, AddIO, Drift
    <3> QED
      BY <1>2, <2>1, <2>2, <3>1, <3>2, SlotKept DEF Typed
  <2>4. CASE s = cur[t]
    <3>1. t = Content /\ Holds(s) = 1 /\ drift[s] = 0
      BY <1>1, <2>1, <2>4 DEF Balanced, Undoing
    <3>2. ioCount[s] = 1
      BY <2>1, <3>1 DEF Balanced
    <3>3. /\ pc'[t] = "rel_cas" /\ ret'[t] = <<>> /\ UNCHANGED drift
          /\ ioCount'[s] = 0
      <4>1. ioCount'[s] = ioCount[s] + (-1)
        BY <1>1, <1>2, <2>4 DEF AddIO
      <4>2. ioCount'[s] = 0
        BY <3>2, <4>1
      <4>3. UNCHANGED drift
        BY <1>1, <2>4, <3>2
      <4>4. pc'[t] = "rel_cas"
        BY <1>6, <2>4, <3>2
      <4> QED
        BY <1>6, <1>7, <3>1, <4>2, <4>3, <4>4
    <3>4. PICK hh \in Nat : hh = Holds(s)'
      BY <1>1, <1>2, <1>6, HoldsStep DEF Typed
    <3>5. hh = 0
      <4>1. Uses(t, s) = 1 /\ Uses(t, s)' = 0
        <5>1. ~HasDec(ret[t])
          BY <1>4, <3>1, ThreadsAssumption, Frames
        <5> QED
          BY <1>1, <1>3, <2>4, <3>3, <5>1, UsesIs, Frames DEF UseOf
      <4>2. PICK n \in Nat : n = Net(s)
        BY <1>1, <1>2, <1>6, HoldsStep DEF Typed
      <4>3. hh + n + 1 = 1 + n + 0
        BY <1>1, <1>2, <1>6, <1>13, <3>1, <3>4, <4>1, <4>2, HoldsStep DEF Typed, NetSame
      <4> QED
        BY <4>3
    <3>6. drift'[s] >= 0 /\ ioCount'[s] = Holds(s)' + drift'[s]
      BY <3>1, <3>3, <3>4, <3>5
    <3>7. OneAtATime(s)'
      <4>1. OneAtATime(cur[t])
        BY <2>1, <2>4 DEF Balanced
      <4>2. ReadNet(cur[t])' = ReadNet(cur[t]) + 0 /\ SendNet(cur[t])' = SendNet(cur[t]) + 0
        <5>1. Nets(s)
          BY <1>2, NetsType DEF Typed
        <5>2. ReadNet(s)' = ReadNet(s) + 0 /\ SendNet(s)' = SendNet(s) + 0
          BY <1>13, <5>1 DEF NetSame, Nets
        <5> QED
          BY <1>1, <2>4, <5>2
      <4>3. One(ReadOf(pc'[t], ret'[t])) + 0 <= One(ReadOf(pc[t], ret[t]))
        BY <3>3, ReadFrames DEF One, ReadOf
      <4>4. /\ One(pc'[t] \in Senderships) + 0 <= One(pc[t] \in Senderships)
            /\ sendFlag'[cur[t]] = sendFlag[cur[t]] /\ 0 \in Int
        BY <1>1, <1>9 DEF One
      <4>5. OneAtATime(cur[t])'
        BY <1>1, <1>2, <1>6, <4>1, <4>2, <4>3, <4>4, RightsKept
      <4> QED
        BY <1>1, <2>4, <4>5
          DEF OneAtATime, Readers, Senders, ReadNet, Readings, Reads, HasRead, Owners, OfRecv
    <3>8. Undoing(s)'
      <4>1. ASSUME NEW u \in Threads, u # t, cur[u] = s, pc[u] = "use_undo" PROVE FALSE
        BY <2>1, <3>1, <4>1 DEF Balanced, Undoing
      <4> QED
        BY <1>1, <1>6, <1>9, <4>1 DEF Undoing, Settle
    <3>9. ASSUME ~Live(s)' PROVE AtRest(s)'
      <4>1. AtRest(s)
        BY <2>1, <2>2, <3>9 DEF Balanced
      <4>2. "rel_cas" \in Leftover
        BY DEF Leftover
      <4>3. Net(s)' = 0 /\ drift'[s] = 0
        BY <1>13, <3>1, <3>3, <4>1 DEF NetSame, AtRest
      <4> QED
        BY <1>1, <1>6, <3>1, <3>3, <4>1, <4>2, <4>3 DEF AtRest, Settle
    <3>10. cur'[Acceptor] = s => pc'[Acceptor] \notin Window \ {"init_io"}
      <4>1. cur[Acceptor] = s => pc[Acceptor] \notin Window \ {"init_io"}
        BY <1>1, <1>3, <1>5, <2>1, <2>4, NobodyPrepares
      <4> QED
        BY <1>1, <1>5, <1>6, <4>1 DEF Settle, Threads
    <3> QED
      BY <3>6, <3>7, <3>8, <3>9, <3>10 DEF Balanced
  <2> QED
    BY <2>3, <2>4
<1> QED
  BY <1>10, <1>11, <1>12, <1>14 DEF Counted

(* Every step of a thread in a call.                                       *)
LEMMA CallsCounted ==
  ASSUME Sound, Typed', Owned', NEW t \in Threads, Calls(t)
  PROVE  Counted'
<1>1. CASE RecvIssue(t)
  <2>1. pc[t] = "rp_recv" /\ UNCHANGED <<life, sendFlag, cur, posted, count, cq, drift, sendPend>>
    BY <1>1 DEF RecvIssue, send, call, log, events
  <2>2. CASE Goto(t, "rp_pended") /\ recvPend' = recvPend \cup {cur[t]}
    BY <2>1, <2>2, IssueTrades, TradesCounted
  <2>3. CASE Goto(t, "rp_failed") /\ UNCHANGED recvPend
    <3>1. "rp_failed" \in Points
      BY DEF Points, HoldPoints
    <3>2. pc'[t] = "rp_failed"
      BY <2>3, <3>1, GotoIs DEF Sound, Typed
    <3> QED
      BY <1>1, <2>3, <3>2, RecvTrades, TradesCounted
  <2> QED
    BY <1>1, <2>2, <2>3 DEF RecvIssue
<1>2. CASE SendIssue(t)
  <2>1. /\ pc[t] = "sp_send"
        /\ UNCHANGED <<life, send, sendFlag, cur, posted, count, cq, drift, recvPend, gone, opened>>
    BY <1>2 DEF SendIssue, send, call, log, events
  <2>2. CASE Return(t) /\ sendPend' = sendPend \cup {cur[t]}
    BY <2>1, <2>2, IssueTrades, TradesCounted
  <2>3. CASE Goto(t, "dec") /\ UNCHANGED sendPend
    BY <2>1, <2>3, SendTrades, TradesCounted DEF net
  <2> QED
    BY <1>2, <2>2, <2>3 DEF SendIssue
<1>3. CASE UseInc(t) \/ UseUndo(t)
  BY <1>3, UseIncCounted, UseUndoCounted
<1>4. CASE ReleaseCommit(t) \/ ReleaseLeave(t) \/ ReleaseClean(t) \/ ReleasePush(t)
  BY <1>4, ReleaseCounted
<1>5. CASE Dec(t) \/ SendNotify(t) \/ DisconnectCancel(t)
  BY <1>5, DecTrades, NotifyTrades, CancelTrades, TradesCounted
<1>6. CASE \/ SendCheck(t) \/ SendEnqueue(t) \/ DisconnectCheck(t) \/ DisconnectFlag(t)
           \/ DisconnectSocket(t) \/ DisconnectMark(t)
  BY <1>6, PlainTrades, TradesCounted
<1>7. CASE RecvPost(t) \/ RecvInc(t) \/ RecvPended(t) \/ RecvFailed(t)
  BY <1>7, RecvTrades, TradesCounted
<1>8. CASE \/ SendPost(t) \/ SendClaim(t) \/ SendSize(t) \/ SendClear(t) \/ SendInc(t)
           \/ SendTake(t) \/ SentFlag(t) \/ SentCheck(t)
  BY <1>8, SendTrades, SentTrades, TradesCounted
<1> QED
  BY <1>1, <1>2, <1>3, <1>4, <1>5, <1>6, <1>7, <1>8 DEF Calls

-----------------------------------------------------------------------------
(* The accept thread.  Without I/O a slot has no receive and no send.      *)
LEMMA NetRights ==
  ASSUME TypeOK, NEW s \in Slots, Net(s) = 0
  PROVE  ReadNet(s) = 0 /\ SendNet(s) = 0
<1>1. s \notin recvPend /\ s \notin sendPend /\ \A i \in DOMAIN cq : cq[i].slot # s
  BY NetZero
<1>2. cq \in Seq(Completions)
  BY DEF TypeOK, NetType, Completions, Kinds
<1>3. \A i \in DOMAIN cq : cq[i] \notin OfRecv(s) /\ cq[i] \notin OfSent(s)
  BY <1>1 DEF OfRecv, OfSent
<1>4. Cardinality(Among(cq, OfRecv(s))) = 0 /\ Cardinality(Among(cq, OfSent(s))) = 0
  BY <1>2, <1>3, AmongZero
<1> QED
  BY <1>1, <1>4, NetsType

(* While the accept thread is alone at a slot nobody counts there but it.  *)
LEMMA AloneIs ==
  ASSUME TypeOK, Shapes, NEW s \in Slots, Alone(s),
         cur[Acceptor] = s, pc[Acceptor] \in Window \ {"init_io"}
  PROVE  /\ \A u \in Threads : cur[u] = s =>
              /\ pc[u] = "idle" \/ u = Acceptor
              /\ pc[u] \notin {"use_undo", "use_inc"} /\ ret[u] = <<>>
         /\ Holds(s) = IF pc[Acceptor] = "acc_join" THEN 1 ELSE 0
         /\ Readers(s) = 0 /\ Senders(s) = 0 /\ ReadNet(s) = 0 /\ SendNet(s) = 0
<1>1. Acceptor \in Threads
  BY DEF Threads
<1>2. Window \cap {"use_undo", "use_inc", "rp_discon", "rp_inc", "rp_recv", "idle"} = {}
      /\ Window \cap Senderships = {} /\ Window \cap HoldPoints = {"acc_join"}
      /\ {"idle"} \cap HoldPoints = {} /\ "idle" \notin Senderships
  BY DEF Window, Senderships, HoldPoints
<1>3. ASSUME NEW u \in Threads, cur[u] = s
      PROVE  /\ pc[u] = "idle" \/ u = Acceptor
             /\ pc[u] \notin {"use_undo", "use_inc"} /\ ret[u] = <<>>
  <2>1. ShapeOf(u, pc[u], ret[u])
    BY DEF Shapes, Shape
  <2>2. pc[u] = "idle" \/ u = Acceptor
    BY <1>3 DEF Alone
  <2> QED
    BY <1>2, <2>1, <2>2 DEF ShapeOf
<1>4. Owers(s) = {}
  BY <1>3, Frames DEF Owers, Owes, HasDec
<1>5. Holders(s) = IF pc[Acceptor] = "acc_join" THEN {Acceptor} ELSE {}
  BY <1>1, <1>2, <1>3 DEF Holders
<1>6. Readings(s) = {} /\ Owners(s, Senderships) = {}
  BY <1>2, <1>3, ReadFrames DEF Readings, Reads, Owners
<1>7. Cardinality({}) = 0 /\ Cardinality({Acceptor}) = 1
  BY FS_EmptySet, FS_Singleton
<1>8. Net(s) = 0
  BY DEF Alone
<1>9. ReadNet(s) = 0 /\ SendNet(s) = 0
  BY <1>8, NetRights
<1>10. Readers(s) = 0 /\ Senders(s) = 0
  <2>1. /\ Readers(s) = Cardinality(Readings(s)) + ReadNet(s)
        /\ Senders(s) = Cardinality(Owners(s, Senderships)) + SendNet(s)
    BY RolesAre DEF RolesOK
  <2> QED
    BY <1>6, <1>7, <1>9, <2>1
<1>11. Holds(s) = IF pc[Acceptor] = "acc_join" THEN 1 ELSE 0
  <2>1. Holds(s) = Cardinality(Holders(s)) + Cardinality(Owers(s)) + Net(s)
    BY HoldsIs DEF Summed
  <2>2. Cardinality(Holders(s)) = IF pc[Acceptor] = "acc_join" THEN 1 ELSE 0
    BY <1>5, <1>7
  <2> QED
    BY <1>4, <1>7, <1>8, <2>1, <2>2
<1> QED
  BY <1>3, <1>9, <1>10, <1>11

(* So its slot is in order, whatever SendFlag is.                          *)
WindowOK ==
  \A s \in Slots :
    /\ Alone(s) /\ cur[Acceptor] = s /\ pc[Acceptor] \in Window \ {"init_io"}
    /\ Live(s) \/ pc[Acceptor] = "init_flag"
    /\ ioCount[s] = IF pc[Acceptor] = "acc_join" THEN 1 ELSE 0
    => Balanced(s)
LEMMA WindowIs == TypeOK /\ Shapes => WindowOK
<1> SUFFICES ASSUME TypeOK, Shapes, NEW s \in Slots, Alone(s), cur[Acceptor] = s,
                    pc[Acceptor] \in Window \ {"init_io"}, Live(s) \/ pc[Acceptor] = "init_flag",
                    ioCount[s] = IF pc[Acceptor] = "acc_join" THEN 1 ELSE 0
             PROVE  Balanced(s)
  BY DEF WindowOK
<1>1. drift[s] = 0 /\ Net(s) = 0
  BY DEF Alone
<1>2. drift[s] >= 0 /\ ioCount[s] = Holds(s) + drift[s]
  BY <1>1, AloneIs
<1>3. OneAtATime(s) /\ Undoing(s)
  BY AloneIs DEF OneAtATime, Undoing
<1>4. ASSUME ~Live(s) PROVE AtRest(s)
  <2>1. {"idle", "init_flag"} \subseteq Leftover
    BY DEF Leftover, InitPoints
  <2> QED
    BY <1>1, <1>4, <2>1, AloneIs DEF AtRest, Using
<1> QED
  BY <1>2, <1>3, <1>4 DEF Balanced

(* Where the accept thread is while it sets a slot up.                     *)
LEMMA AcceptorIs ==
  ASSUME Sound, NEW t \in Threads, pc[t] \in {"init_id"} \cup Window
  PROVE  /\ t = Acceptor /\ t # Content /\ ret[t] = <<>> /\ cur[t] \in Slots
         /\ Typed /\ Owned /\ Shapes /\ Numbers /\ Joins /\ TypeOK /\ Preparing
         /\ pc[t] \in Window => sessionID[cur[t]] = count.accepts
         /\ pc[t] \in {"init_id", "init_io"} => count.late < count.accepts
         /\ count.accepts \in Nat /\ count.late \in Nat
BY ThreadsAssumption
   DEF Sound, Counted, Shapes, Shape, ShapeOf, Typed, TypeOK, CallType, Preparing, Numbers, CountOK

(* An index is taken for a connection.                                     *)
LEMMA AcceptCounted ==
  ASSUME Sound, Typed', NEW t \in Threads, NEW s \in Slots, Accept(t, s)
  PROVE  Counted'
<1>1. /\ pc[t] = "idle" /\ t = Acceptor /\ freeIdx[s] > 0
      /\ count' = [count EXCEPT !.accepts = @ + 1]
      /\ cur' = [cur EXCEPT ![t] = s] /\ Enter(t, "init_id", <<>>)
      /\ UNCHANGED <<sessionID, ioCount, releaseFlag, sendFlag, recvPend, sendPend, cq, posted,
                     drift>>
  BY DEF Accept, life, send, events
<1>2. Typed /\ Owned /\ Shapes /\ Numbers /\ Joins /\ TypeOK /\ TypeOK' /\ CountOK
  BY DEF Sound, Counted, Typed
<1>3. /\ "init_id" \in Points \ HoldPoints /\ "idle" \notin HoldPoints
      /\ "init_id" \notin Window \cup {"use_undo", "rp_discon", "rp_inc", "rp_recv", "idle"}
      /\ {"idle", "init_id"} \cap Senderships = {} /\ "init_id" \in Leftover \ Using
      /\ "idle" \notin {"rp_discon", "rp_inc", "rp_recv"} \cup {"init_id"} \cup Window
  BY DEF Points, InitPoints, HoldPoints, Window, Senderships, Leftover, Using
<1>4. Settle(t) /\ pc'[t] = "init_id" /\ ret'[t] = <<>>
  BY <1>1, <1>2, <1>3, Frames, EnterIs
<1>5. /\ \A u \in Threads : u # t => cur'[u] = cur[u]
      /\ cur'[t] = s
  BY <1>1, <1>2 DEF TypeOK, CallType
<1>6. ret[t] = <<>> /\ t # Content
  BY <1>1, <1>2, ThreadsAssumption DEF Shapes, Shape, ShapeOf
<1>7. ShapeOf(t, pc'[t], ret'[t])
  BY <1>1, <1>4
     DEF ShapeOf, RecvPoints, SendPoints, PacketPoints, ClosePoints, Using, ReleasePoints, Window
<1>8. Shapes'
  BY <1>2, <1>4, <1>7, ShapesBy
<1>9. PICK a \in Nat : a = count.accepts
  BY <1>2 DEF CountOK
<1>10. count'.accepts = a + 1 /\ count'.late = count.late /\ count.late \in Nat
  BY <1>1, <1>2, <1>9 DEF CountOK
<1>11. Numbers'
  <2>1. \A r \in Slots : sessionID[r] \in Nat /\ sessionID[r] <= a
    BY <1>2, <1>9 DEF Numbers, TypeOK, LifeType
  <2>2. count.late <= a
    BY <1>2, <1>9 DEF Numbers
  <2>3. (\A r \in Slots : sessionID[r] <= a + 1) /\ count.late <= a + 1 /\ count.late < a + 1
    BY <1>10, <2>1, <2>2
  <2> QED
    BY <1>1, <1>3, <1>4, <1>10, <2>3 DEF Numbers
<1>12. Joins'
  <2>1. ASSUME NEW i \in DOMAIN posted, posted[i].kind = "join"
        PROVE  posted[i].conn <= a + 1 /\ posted[i].conn < a + 1
    <3>1. posted \in Seq([kind : {"join", "recv", "leave"}, slot : Slots, conn : Nat])
      BY <1>2 DEF TypeOK, EventType
    <3>2. posted[i] \in [kind : {"join", "recv", "leave"}, slot : Slots, conn : Nat]
      BY <3>1, LenProperties
    <3>3. posted[i].conn \in Nat /\ posted[i].conn <= a
      BY <1>2, <1>9, <2>1, <3>2 DEF Joins
    <3> QED
      BY <3>3
  <2> QED
    BY <1>1, <1>10, <2>1 DEF Joins
<1>13. ASSUME NEW r \in Slots, OnTime(r)' PROVE Balanced(r)'
  <2>1. OnTime(r) /\ Balanced(r)
    BY <1>1, <1>10, <1>13 DEF OnTime, Sound, Counted
  <2>2. Net(r)' = Net(r) /\ ReadNet(r)' = ReadNet(r) /\ SendNet(r)' = SendNet(r)
    BY <1>1, NetKept
  <2>3. Unmoved(r)
    BY <1>1, <2>2 DEF Unmoved
  <2>4. CASE r # s
    <3>1. \A u \in Threads : Still(u) \/ Off(u, r)
      BY <1>1, <1>4, <1>5, <1>6, <2>4 DEF Still, Off, Settle
    <3>2. Live(r) => Live(r)'
      BY <1>1, <1>4, <1>5, <2>4 DEF Live, Owners, Settle
    <3> QED
      BY <1>2, <2>1, <2>3, <3>1, <3>2, SlotKept
  <2>5. CASE r = s
    <3>1. ~Live(r)
      BY <1>1, <1>2, <2>5, OneOwner DEF Owned
    <3>2. /\ Uses(t, r)' = Uses(t, r) /\ ReadUse(t, r)' = ReadUse(t, r)
          /\ SendUse(t, r)' = SendUse(t, r)
      <4>1. ~Owes(t) /\ ~Owes(t)' /\ ~HasRead(ret[t]) /\ ~HasRead(ret[t])'
        BY <1>4, <1>6, Frames, ReadFrames DEF Owes, HasRead
      <4> QED
        BY <1>1, <1>3, <1>4, <4>1 DEF Uses, ReadUse, SendUse, Reads
    <3>3. pc'[t] \in Leftover /\ (t # Content => ret'[t] = <<>> /\ pc'[t] \notin Using)
      BY <1>3, <1>4
    <3>4. cur'[Acceptor] = r => pc'[Acceptor] \notin Window \ {"init_io"}
      BY <1>1, <1>3, <1>4
    <3>5. pc'[t] # "use_undo" /\ cur'[t] = r
      BY <1>3, <1>4, <1>5, <2>5
    <3> QED
      BY <1>2, <1>4, <1>5, <2>1, <2>3, <3>1, <3>2, <3>3, <3>4, <3>5, SlotPassed
  <2> QED
    BY <2>4, <2>5
<1> QED
  BY <1>8, <1>11, <1>12, <1>13 DEF Counted

(* It is given its number.                                                 *)
LEMMA InitIDCounted ==
  ASSUME Sound, Typed', Owned', NEW t \in Threads, InitID(t)
  PROVE  Counted'
<1>1. /\ pc[t] = "init_id" /\ Goto(t, "init_io")
      /\ sessionID' = [sessionID EXCEPT ![cur[t]] = count.accepts]
      /\ UNCHANGED <<ioCount, releaseFlag, sendFlag, recvPend, sendPend, cq, posted, drift, cur,
                     count>>
  BY DEF InitID, send, call, net, log, events
<1>2. /\ t = Acceptor /\ t # Content /\ ret[t] = <<>> /\ cur[t] \in Slots
      /\ Typed /\ Owned /\ Shapes /\ Numbers /\ Joins /\ TypeOK /\ TypeOK' /\ Preparing
      /\ count.late < count.accepts /\ count.accepts \in Nat /\ count.late \in Nat
  BY <1>1, AcceptorIs DEF Typed
<1>3. /\ {"init_io", "init_id"} \subseteq Points \ HoldPoints /\ "init_io" \in Window
      /\ {"init_id", "init_io"} \cap {"use_undo", "rp_discon", "rp_inc", "rp_recv", "idle"} = {}
      /\ {"init_id", "init_io"} \cap Senderships = {} /\ "init_io" \in Leftover \ Using
      /\ {"init_id", "init_io"} \subseteq InitPoints /\ "init_id" \notin Window
  BY DEF Points, InitPoints, HoldPoints, Window, Senderships, Leftover, Using
<1>4. Settle(t) /\ pc'[t] = "init_io" /\ ret'[t] = <<>>
  BY <1>1, <1>2, <1>3, GotoIs
<1>5. ShapeOf(t, pc'[t], ret'[t])
  BY <1>2, <1>4
     DEF ShapeOf, RecvPoints, SendPoints, PacketPoints, ClosePoints, Using, ReleasePoints, Window
<1>6. Shapes'
  BY <1>2, <1>4, <1>5, ShapesBy
<1>7. Numbers' /\ Joins'
  BY <1>1, <1>2, <1>3, <1>4 DEF Numbers, Joins, TypeOK, LifeType, Preparing
<1>8. ASSUME NEW r \in Slots, OnTime(r)' PROVE Balanced(r)'
  <2>1. OnTime(r)
    <3>1. CASE r = cur[t]
      <4>1. sessionID'[r] = count.accepts
        BY <1>1, <1>2, <3>1 DEF TypeOK, LifeType
      <4> QED
        BY <1>1, <1>2, <1>8, <4>1 DEF OnTime
    <3>2. CASE r # cur[t]
      BY <1>1, <1>2, <1>8, <3>2 DEF OnTime, TypeOK, LifeType
    <3> QED
      BY <3>1, <3>2
  <2>2. Balanced(r)
    BY <2>1 DEF Sound, Counted
  <2>3. Net(r)' = Net(r) /\ ReadNet(r)' = ReadNet(r) /\ SendNet(r)' = SendNet(r)
    BY <1>1, NetKept
  <2>4. Unmoved(r)
    BY <1>1, <2>3 DEF Unmoved
  <2>5. CASE r # cur[t]
    <3>1. \A u \in Threads : Still(u) \/ Off(u, r)
      BY <1>1, <1>4, <2>5 DEF Still, Off, Settle
    <3>2. sessionID'[r] = sessionID[r]
      BY <1>1, <1>2, <2>5 DEF TypeOK, LifeType
    <3>3. Live(r) => Live(r)'
      BY <1>1, <1>4, <2>5, <3>2 DEF Live, Owners, Settle
    <3> QED
      BY <1>2, <2>2, <2>4, <3>1, <3>3, SlotKept
  <2>6. CASE r = cur[t]
    <3>1. ~Live(r)
      BY <1>1, <1>3, <2>6 DEF Live, Owners
    <3>2. /\ Uses(t, r)' = Uses(t, r) /\ ReadUse(t, r)' = ReadUse(t, r)
          /\ SendUse(t, r)' = SendUse(t, r)
      BY <1>1, <1>2, <1>3, <1>4 DEF Uses, ReadUse, SendUse, Reads, Owes, HasRead
    <3>3. pc'[t] \in Leftover /\ (t # Content => ret'[t] = <<>> /\ pc'[t] \notin Using)
      BY <1>3, <1>4
    <3>4. cur'[Acceptor] = r => pc'[Acceptor] \notin Window \ {"init_io"}
      BY <1>2, <1>4
    <3>5. pc'[t] # "use_undo" /\ cur'[t] = r /\ \A u \in Threads : u # t => cur'[u] = cur[u]
      BY <1>1, <1>3, <1>4, <2>6
    <3> QED
      BY <1>2, <1>4, <2>2, <2>4, <3>1, <3>2, <3>3, <3>4, <3>5, SlotPassed
  <2> QED
    BY <2>5, <2>6
<1> QED
  BY <1>6, <1>7, <1>8 DEF Counted

(* Its count is set.  Unless the slot has been met by a late call, nobody  *)
(* counts there: all that others still had to do with it is over.          *)
LEMMA InitIOCounted ==
  ASSUME Sound, Typed', Owned', NEW t \in Threads, InitIO(t)
  PROVE  Counted'
<1>1. /\ pc[t] = "init_io" /\ Goto(t, "init_flag")
      /\ ioCount' = [ioCount EXCEPT ![cur[t]] = 0]
      /\ drift' = [drift EXCEPT ![cur[t]] = - Holds(cur[t])]
      /\ count' = [count EXCEPT !.late = IF @ = 0 /\ LateCall(cur[t])
                                              THEN count.accepts ELSE @]
      /\ UNCHANGED <<sessionID, releaseFlag, sendFlag, recvPend, sendPend, cq, posted, cur>>
  BY DEF InitIO, send, call, net, events
<1>2. "init_io" \in {"init_id"} \cup Window
  BY DEF Window
<1>3. /\ t = Acceptor /\ t # Content /\ ret[t] = <<>> /\ cur[t] \in Slots
      /\ Typed /\ Owned /\ Shapes /\ Numbers /\ Joins /\ TypeOK /\ TypeOK' /\ Preparing /\ CountOK
      /\ count.late < count.accepts /\ count.accepts \in Nat /\ count.late \in Nat
      /\ sessionID[cur[t]] = count.accepts
  BY <1>1, <1>2, AcceptorIs DEF Typed, Window
<1>4. /\ {"init_io", "init_flag"} \subseteq Points \ HoldPoints
      /\ {"init_io", "init_flag"} \subseteq InitPoints \cap Window
  BY DEF Points, InitPoints, HoldPoints, Window
<1>5. Settle(t) /\ pc'[t] = "init_flag" /\ ret'[t] = <<>>
  BY <1>1, <1>3, <1>4, GotoIs
<1>6. Shapes'
  <2>1. ShapeOf(t, pc'[t], ret'[t])
    BY <1>3, <1>5
       DEF ShapeOf, RecvPoints, SendPoints, PacketPoints, ClosePoints, Using, ReleasePoints, Window
  <2> QED
    BY <1>3, <1>5, <2>1, ShapesBy
<1>7. /\ count'.accepts = count.accepts
      /\ IF count.late = 0 /\ LateCall(cur[t]) THEN count'.late = count.accepts
                                               ELSE count'.late = count.late
  BY <1>1, <1>3 DEF CountOK
<1>8. Numbers' /\ Joins'
  BY <1>1, <1>3, <1>5, <1>7 DEF Numbers, Joins, TypeOK, LifeType, Preparing
<1>9. ASSUME NEW r \in Slots, OnTime(r)', r # cur[t] PROVE Balanced(r)'
  <2>1. OnTime(r)
    BY <1>1, <1>3, <1>7, <1>9 DEF OnTime
  <2>2. Balanced(r)
    BY <2>1 DEF Sound, Counted
  <2>3. Net(r)' = Net(r) /\ ReadNet(r)' = ReadNet(r) /\ SendNet(r)' = SendNet(r)
    BY <1>1, NetKept
  <2>4. Unmoved(r)
    BY <1>1, <1>3, <1>9, <2>3 DEF Unmoved, TypeOK, LifeType
  <2>5. \A u \in Threads : Still(u) \/ Off(u, r)
    BY <1>1, <1>5, <1>9 DEF Still, Off, Settle
  <2>6. Live(r) => Live(r)'
    BY <1>1, <1>5, <1>9 DEF Live, Owners, Settle
  <2> QED
    BY <1>3, <2>2, <2>4, <2>5, <2>6, SlotKept
<1>10. ASSUME OnTime(cur[t])' PROVE Balanced(cur[t])'
  <2>1. PICK s \in Slots : s = cur[t]
    BY <1>3
  <2>2. OnTime(s) /\ ~LateCall(s)
    BY <1>1, <1>3, <1>7, <1>10, <2>1 DEF OnTime
  <2>3. Balanced(s) /\ ~Live(s)
    BY <1>1, <1>4, <2>1, <2>2 DEF Sound, Counted, Live, Owners
  <2>4. AtRest(s)
    BY <2>3 DEF Balanced
  <2>5. Holds(s) = 0
    <3>1. Holds(s) \in Nat
      BY <1>3, HoldsIs DEF Summed
    <3> QED
      BY <2>2, <3>1 DEF LateCall
  <2>6. Net(s) = 0 /\ Holders(s) = {}
    BY <1>3, <2>5, HoldsAtLeast
  <2>7. ASSUME NEW u \in Threads, cur[u] = s, u # Acceptor PROVE pc[u] = "idle"
    <3>1. pc[u] \notin {"use_inc", "rel_cas"}
      BY <2>2, <2>7 DEF LateCall
    <3>2. pc[u] # "use_undo"
      BY <2>6, <2>7 DEF Holders, HoldPoints
    <3>3. pc[u] \notin ReleasePoints
      <4>1. Owners(s, InitPoints) # {}
        BY <1>1, <1>4, <2>1 DEF Owners
      <4>2. Owners(s, ReleasePoints) = {}
        BY <1>3, <4>1, OneOwner DEF Owned
      <4> QED
        BY <2>7, <4>2 DEF Owners
    <3>4. pc[u] \notin InitPoints
      <4>1. ShapeOf(u, pc[u], ret[u]) /\ InitPoints \subseteq {"init_id"} \cup Window
        BY <1>3 DEF Shapes, Shape, InitPoints, Window
      <4> QED
        BY <2>7, <4>1 DEF ShapeOf
    <3> QED
      BY <2>4, <2>7, <3>1, <3>2, <3>3, <3>4 DEF AtRest, Leftover
  <2>8. ioCount'[s] = 0 /\ drift'[s] = 0
    <3>1. ioCount'[s] = 0
      BY <1>1, <1>3, <2>1 DEF TypeOK, LifeType
    <3>2. Holds(cur[t]) = 0 /\ drift \in [Slots -> Int]
      BY <1>3, <2>1, <2>5 DEF TypeOK, LifeType
    <3>3. PICK h \in Int : h = Holds(cur[t])
      BY <3>2
    <3>4. h = 0
      BY <3>2, <3>3
    <3>5. PICK m \in Int : m = 0 - h
      OBVIOUS
    <3>6. m = 0
      BY <3>4, <3>5
    <3>7. - h = m
      BY <3>5
    <3>8. drift' = [drift EXCEPT ![s] = m]
      BY <1>1, <2>1, <3>3, <3>7
    <3> QED
      BY <3>1, <3>2, <3>6, <3>8
  <2>9. Net(s)' = 0
    BY <1>1, <2>6, NetKept
  <2>10. Alone(s)'
    BY <1>1, <1>3, <1>5, <2>7, <2>8, <2>9 DEF Alone, Settle
  <2>11. WindowOK'
    BY <1>3, <1>6, WindowIs, PTL
  <2>12. Balanced(s)'
    BY <1>1, <1>3, <1>4, <1>5, <2>1, <2>8, <2>10, <2>11 DEF WindowOK
  <2> QED
    BY <1>1, <2>1, <2>12
<1> QED
  BY <1>1, <1>6, <1>8, <1>9, <1>10 DEF Counted

(* The rest of its setting up: the slot stays the accept thread's alone.   *)
LEMMA WindowCounted ==
  ASSUME Sound, Typed', NEW t \in Threads, NEW s \in Slots, s = cur[t],
         pc[t] \in Window \ {"init_io"}, pc'[t] \in {"init_rest", "acc_hold", "acc_join"},
         Settle(t), ret'[t] = <<>>,
         UNCHANGED <<sessionID, recvPend, sendPend, cq, posted, drift, cur, count>>,
         \A r \in Slots \ {s} : /\ ioCount'[r] = ioCount[r] /\ sendFlag'[r] = sendFlag[r]
                                /\ releaseFlag'[r] = releaseFlag[r],
         OnTime(s) => Live(s)' /\ ioCount'[s] = IF pc'[t] = "acc_join" THEN 1 ELSE 0
  PROVE  Counted'
<1>1. /\ t = Acceptor /\ t # Content /\ ret[t] = <<>>
      /\ Typed /\ Shapes /\ Numbers /\ Joins /\ TypeOK /\ TypeOK' /\ Preparing
      /\ sessionID[s] = count.accepts
  BY AcceptorIs DEF Typed
<1>2. {"init_rest", "acc_hold", "acc_join"} \subseteq Window \ {"init_io"}
      /\ {"init_rest", "acc_hold", "acc_join"} \cap (InitPoints \cup {"init_id", "init_io"}) = {}
  BY DEF Window, InitPoints
<1>3. Shapes'
  <2>1. ShapeOf(t, pc'[t], ret'[t])
    BY <1>1
       DEF ShapeOf, RecvPoints, SendPoints, PacketPoints, ClosePoints, Using, ReleasePoints, Window
  <2> QED
    BY <1>1, <2>1, ShapesBy
<1>4. Numbers' /\ Joins'
  BY <1>1, <1>2 DEF Numbers, Joins, Preparing
<1>5. ASSUME NEW r \in Slots, OnTime(r)', r # s PROVE Balanced(r)'
  <2>1. OnTime(r)
    BY <1>5 DEF OnTime
  <2>2. Balanced(r)
    BY <2>1 DEF Sound, Counted
  <2>3. Net(r)' = Net(r) /\ ReadNet(r)' = ReadNet(r) /\ SendNet(r)' = SendNet(r)
    BY NetKept
  <2>4. Unmoved(r)
    BY <1>5, <2>3 DEF Unmoved
  <2>5. \A u \in Threads : Still(u) \/ Off(u, r)
    BY <1>5 DEF Still, Off, Settle
  <2>6. Live(r) => Live(r)'
    BY <1>5 DEF Live, Owners, Settle
  <2> QED
    BY <1>1, <2>2, <2>4, <2>5, <2>6, SlotKept
<1>6. ASSUME OnTime(s)' PROVE Balanced(s)'
  <2>1. OnTime(s)
    BY <1>6 DEF OnTime
  <2>2. Alone(s)
    BY <1>1, <2>1 DEF Sound, Counted, Balanced
  <2>3. Net(s)' = Net(s)
    BY NetKept
  <2>4. Alone(s)'
    BY <1>1, <2>2, <2>3 DEF Alone, Settle
  <2>5. WindowOK'
    BY <1>1, <1>3, WindowIs, PTL
  <2> QED
    BY <1>1, <1>2, <2>1, <2>4, <2>5 DEF WindowOK
<1> QED
  BY <1>3, <1>4, <1>5, <1>6 DEF Counted

(* The steps of the accept thread that leave its slot its own.             *)
LEMMA PrepareCounted ==
  ASSUME Sound, Typed', Owned', NEW t \in Threads,
         InitFlag(t) \/ InitRest(t) \/ AcceptHold(t)
  PROVE  Counted'
<1>1. /\ {"init_flag", "init_rest", "acc_hold"} \subseteq Window \ {"init_io"}
      /\ {"init_rest", "acc_hold", "acc_join"} \subseteq Points
      /\ {"init_rest", "acc_hold", "acc_join"} \cap (InitPoints \cup Leftover) = {}
  BY DEF Window, Points, OtherPoints, HoldPoints, InitPoints, Leftover, ReleasePoints
<1>2. pc[t] \in {"init_flag", "init_rest", "acc_hold"}
  BY DEF InitFlag, InitRest, AcceptHold, Hold
<1>3. /\ t = Acceptor /\ ret[t] = <<>> /\ cur[t] \in Slots
      /\ Typed /\ Owned /\ Shapes /\ TypeOK /\ TypeOK'
  BY <1>1, <1>2, AcceptorIs DEF Typed
<1>4. PICK s \in Slots : s = cur[t]
  BY <1>3
<1>5. OnTime(s) => Balanced(s) /\ Alone(s)
  BY <1>1, <1>2, <1>3, <1>4 DEF Sound, Counted, Balanced
<1>6. OnTime(s) => ioCount[s] = 0
  <2>1. ASSUME OnTime(s) PROVE Holds(s) = 0 /\ drift[s] = 0 /\ ioCount[s] = Holds(s) + drift[s]
    BY <1>1, <1>2, <1>3, <1>4, <1>5, <2>1, AloneIs DEF Balanced, Alone
  <2> QED
    BY <2>1
<1>7. CASE InitFlag(t)
  <2>1. /\ pc[t] = "init_flag" /\ Goto(t, "init_rest")
        /\ releaseFlag' = [releaseFlag EXCEPT ![cur[t]] = FALSE]
        /\ UNCHANGED <<sessionID, ioCount, sendFlag, recvPend, sendPend, cq, posted, drift, cur, count>>
    BY <1>7 DEF InitFlag, send, call, net, log, events
  <2>2. Settle(t) /\ pc'[t] = "init_rest" /\ ret'[t] = <<>>
    BY <1>1, <1>3, <2>1, GotoIs
  <2>3. Live(s)'
    <3>1. Busy(t)' /\ cur'[t] = s
      BY <1>4, <2>1, <2>2 DEF Busy, InitPoints
    <3>2. releaseFlag'[s] = FALSE
      BY <1>3, <1>4, <2>1 DEF TypeOK, LifeType
    <3> QED
      BY <3>1, <3>2 DEF Owned, Settled, Touched
  <2>4. \A r \in Slots \ {s} : releaseFlag'[r] = releaseFlag[r]
    BY <1>3, <1>4, <2>1 DEF TypeOK, LifeType
  <2>5. ioCount'[s] = ioCount[s] /\ pc[t] \in Window \ {"init_io"}
    BY <1>1, <2>1
  <2> QED
    BY <1>4, <1>6, <2>1, <2>2, <2>3, <2>4, <2>5, WindowCounted
<1>8. ASSUME pc[t] \in {"init_rest", "acc_hold"}, OnTime(s) PROVE Live(s)
  <2>1. pc[t] \notin Leftover
    BY <1>1, <1>8
  <2> QED
    BY <1>4, <1>5, <1>8, <2>1 DEF Balanced, AtRest
<1>9. CASE InitRest(t)
  <2>1. /\ pc[t] = "init_rest" /\ Goto(t, "acc_hold")
        /\ sendFlag' = [sendFlag EXCEPT ![cur[t]] = FALSE]
        /\ UNCHANGED <<sessionID, ioCount, releaseFlag, recvPend, sendPend, cq, posted, drift, cur, count>>
    BY <1>9 DEF InitRest, life, call, net, log, events
  <2>2. Settle(t) /\ pc'[t] = "acc_hold" /\ ret'[t] = <<>>
    BY <1>1, <1>3, <2>1, GotoIs
  <2>3. OnTime(s) => Live(s)'
    BY <1>1, <1>8, <2>1, <2>2 DEF Live, Owners, Settle
  <2>4. \A r \in Slots \ {s} : sendFlag'[r] = sendFlag[r]
    BY <1>3, <1>4, <2>1 DEF TypeOK, SendType
  <2>5. ioCount'[s] = ioCount[s] /\ pc[t] \in Window \ {"init_io"}
    BY <1>1, <2>1
  <2> QED
    BY <1>4, <1>6, <2>1, <2>2, <2>3, <2>4, <2>5, WindowCounted
<1>10. CASE AcceptHold(t)
  <2>1. /\ pc[t] = "acc_hold" /\ Goto(t, "acc_join") /\ AddIO(t, 1)
        /\ UNCHANGED <<sessionID, sendFlag, releaseFlag, recvPend, sendPend, cq, posted, drift, cur, count>>
    BY <1>10 DEF AcceptHold, Hold, AddIO, send, call, net, log, events
  <2>2. Settle(t) /\ pc'[t] = "acc_join" /\ ret'[t] = <<>>
    BY <1>1, <1>3, <2>1, GotoIs
  <2>3. OnTime(s) => Live(s)'
    BY <1>1, <1>8, <2>1, <2>2 DEF Live, Owners, Settle
  <2>4. ioCount \in [Slots -> Int] /\ ioCount' = [ioCount EXCEPT ![s] = @ + 1]
    BY <1>3, <1>4, <2>1 DEF AddIO, TypeOK, LifeType
  <2>5. \A r \in Slots \ {s} : ioCount'[r] = ioCount[r]
    BY <2>4
  <2>6. OnTime(s) => ioCount'[s] = 0 + 1
    BY <1>6, <2>4
  <2>7. OnTime(s) => ioCount'[s] = 1
    BY <2>6
  <2> QED
    BY <1>1, <1>4, <2>1, <2>2, <2>3, <2>5, <2>7, WindowCounted
<1> QED
  BY <1>7, <1>9, <1>10

(* OnClientJoin tells the content of the connection, and the accept thread *)
(* goes on to receive, with the use it took.                               *)
LEMMA AcceptJoinCounted ==
  ASSUME Sound, Typed', NEW t \in Threads, AcceptJoin(t)
  PROVE  Counted'
<1>1. /\ pc[t] = "acc_join" /\ Post("join", t, sessionID[cur[t]])
      /\ Enter(t, "rp_discon", <<"dec">>)
      /\ UNCHANGED <<sessionID, ioCount, releaseFlag, sendFlag, recvPend, sendPend, cq, drift, cur, count>>
  BY DEF AcceptJoin, life, send, call, net
<1>2. /\ "acc_join" \in (Window \ {"init_io"}) \cap HoldPoints
      /\ "rp_discon" \in Points \ (HoldPoints \cup Window \cup {"use_undo", "init_id"} \cup InitPoints)
      /\ "rp_discon" \notin Senderships /\ "acc_join" \notin Senderships
      /\ "acc_join" \notin Leftover
  BY DEF Window, HoldPoints, Points, OtherPoints, Senderships, Leftover, InitPoints, ReleasePoints
<1>3. /\ t = Acceptor /\ t # Content /\ ret[t] = <<>> /\ cur[t] \in Slots
      /\ Typed /\ Shapes /\ Numbers /\ Joins /\ TypeOK /\ TypeOK'
      /\ sessionID[cur[t]] = count.accepts /\ count.accepts \in Nat
  BY <1>1, <1>2, AcceptorIs DEF Typed
<1>4. Settle(t) /\ pc'[t] = "rp_discon" /\ ret'[t] = <<"dec">>
  <2>1. "rp_discon" \in Points /\ <<"dec">> \in Seq(ReturnPoints)
    BY <1>2, Frames
  <2> QED
    BY <1>1, <1>3, <2>1, EnterIs
<1>5. Shapes'
  <2>1. ShapeOf(t, pc'[t], ret'[t])
    BY <1>3, <1>4
       DEF ShapeOf, RecvPoints, SendPoints, PacketPoints, ClosePoints, Using, ReleasePoints, Window
  <2> QED
    BY <1>3, <1>4, <2>1, ShapesBy
<1>6. Numbers' /\ ~Preparing'
  <2>1. pc'[t] \notin {"init_id"} \cup Window /\ \A u \in Threads : u # t => cur'[u] = cur[u]
    BY <1>1, <1>2, <1>4
  <2>2. Numbers'
    BY <1>1, <1>3, <1>4, <2>1, NumbersBy
  <2> QED
    BY <1>3, <2>1, <2>2 DEF Preparing
<1>7. Joins'
  <2>1. PICK e : e = [kind |-> "join", slot |-> cur[t], conn |-> sessionID[cur[t]]]
    OBVIOUS
  <2>2. /\ e \in [kind : {"join", "recv", "leave"}, slot : Slots, conn : Nat]
        /\ e.conn <= count.accepts /\ posted' = Append(posted, e)
    BY <1>1, <1>3, <2>1 DEF Post
  <2> QED
    BY <1>1, <1>3, <1>6, <2>2, JoinsBy
<1>8. ASSUME NEW r \in Slots, OnTime(r)' PROVE Balanced(r)'
  <2>1. OnTime(r) /\ Balanced(r)
    BY <1>1, <1>8 DEF OnTime, Sound, Counted
  <2>2. Net(r)' = Net(r) /\ ReadNet(r)' = ReadNet(r) /\ SendNet(r)' = SendNet(r)
    BY <1>1, NetKept
  <2>3. CASE r # cur[t]
    <3>1. Unmoved(r)
      BY <1>1, <2>2 DEF Unmoved
    <3>2. \A u \in Threads : Still(u) \/ Off(u, r)
      BY <1>1, <1>4, <2>3 DEF Still, Off, Settle
    <3>3. Live(r) => Live(r)'
      BY <1>1, <1>4, <2>3 DEF Live, Owners, Settle
    <3> QED
      BY <1>3, <2>1, <3>1, <3>2, <3>3, SlotKept
  <2>4. CASE r = cur[t]
    <3>1. Alone(r)
      BY <1>1, <1>2, <1>3, <2>1, <2>4 DEF Balanced
    <3>2. /\ \A u \in Threads : cur[u] = r => pc[u] # "use_undo"
          /\ Readers(r) = 0 /\ Senders(r) = 0 /\ ReadNet(r) = 0 /\ SendNet(r) = 0
      BY <1>1, <1>2, <1>3, <2>4, <3>1, AloneIs
    <3>3. InUse(r)
      <4>1. Live(r)
        BY <1>1, <1>2, <2>1, <2>4 DEF Balanced, AtRest
      <4> QED
        BY <1>1, <1>3, <3>2, <4>1 DEF InUse
    <3>4. Holds(r)' = Holds(r)
      <4>1. Uses(t, r)' = 1 /\ Uses(t, r) = 1
        <5>1. UseOf(pc[t], ret[t]) = 1 /\ UseOf(pc'[t], ret'[t]) = 1
          BY <1>1, <1>2, <1>3, <1>4, Frames DEF UseOf
        <5> QED
          BY <1>1, <2>4, <5>1, UsesIs
      <4>2. PICK h \in Nat, hh \in Nat, n \in Nat : h = Holds(r) /\ hh = Holds(r)' /\ n = Net(r)
        BY <1>1, <1>3, <1>4, HoldsStep
      <4>3. hh + n + 1 = h + n + 1
        BY <1>1, <1>3, <1>4, <2>2, <4>1, <4>2, HoldsStep
      <4>4. hh = h
        BY <4>3
      <4> QED
        BY <4>2, <4>4
    <3>5. OneAtATime(r)'
      <4>1. ReadUse(t, r) = 0 /\ ReadUse(t, r)' = 1 /\ SendUse(t, r) = 0 /\ SendUse(t, r)' = 0
        BY <1>1, <1>2, <1>3, <1>4, <2>4, ReadFrames DEF ReadUse, SendUse, Reads
      <4>2. PICK p \in Nat, q \in Nat : p = Readers(r)' /\ q = Senders(r)'
        BY <1>1, <1>3, <1>4, RolesStep
      <4>3. p + 0 + 0 = 0 + 0 + 1 /\ q + 0 + 0 = 0 + 0 + 0
        BY <1>1, <1>3, <1>4, <2>2, <3>2, <4>1, <4>2, RolesStep
      <4>4. p = 1 /\ q = 0
        BY <4>3
      <4> QED
        BY <4>2, <4>4 DEF OneAtATime
    <3>6. drift'[r] >= 0 /\ ioCount'[r] = Holds(r)' + drift'[r]
      BY <1>1, <2>1, <3>4 DEF Balanced
    <3>7. pc'[t] \notin Window \cup {"use_undo", "init_id"}
      BY <1>2, <1>4
    <3> QED
      BY <1>1, <1>3, <1>4, <3>3, <3>5, <3>6, <3>7, SlotUsed
  <2> QED
    BY <2>3, <2>4
<1> QED
  BY <1>5, <1>6, <1>7, <1>8 DEF Counted

(* Every step of the accept thread once it has a slot.                     *)
LEMMA AcceptingCounted ==
  ASSUME Sound, Typed', Owned', NEW t \in Threads, Accepting(t)
  PROVE  Counted'
BY InitIDCounted, InitIOCounted, PrepareCounted, AcceptJoinCounted DEF Accepting

-----------------------------------------------------------------------------
(* The content.  It knows of a connection by OnClientJoin.                 *)
LEMMA KnownJoin ==
  ASSUME Sound, NEW k \in Known
  PROVE  /\ k.slot \in Slots /\ k.conn \in Nat /\ k.conn <= count.accepts
         /\ Preparing => k.conn < count.accepts
<1>1. k.slot \in Slots /\ k.conn \in Nat
  BY KnownIs DEF Sound
<1>2. PICK i \in DOMAIN posted :
        posted[i].kind = "join" /\ k = [slot |-> posted[i].slot, conn |-> posted[i].conn]
  BY DEF Known
<1>3. k.conn = posted[i].conn
  BY <1>2
<1> QED
  BY <1>1, <1>2, <1>3 DEF Sound, Counted, Joins

(* A call of the content begins at a slot that nobody is setting up.       *)
LEMMA ContentCounted ==
  ASSUME Sound, Typed', NEW t \in Threads, NEW k \in Known, sessionID[k.slot] = k.conn,
         pc[t] = "idle", t = Content, cur' = [cur EXCEPT ![t] = k.slot],
         NEW after \in {<<"snd_check">>, <<"dis_check">>}, Enter(t, "use_inc", after),
         UNCHANGED <<life, sendFlag, recvPend, sendPend, cq, posted, drift>>,
         count'.accepts = count.accepts, count'.late = count.late
  PROVE  Counted'
<1>1. /\ Typed /\ TypeOK /\ TypeOK' /\ Shapes /\ Numbers /\ Joins
      /\ UNCHANGED <<sessionID, ioCount, releaseFlag>>
  BY DEF Sound, Counted, Typed, life
<1>2. /\ {"use_inc", "idle"} \cap (HoldPoints \cup Senderships) = {} /\ "use_inc" \in Points
      /\ "use_inc" \notin {"init_id", "use_undo"} \cup Window \cup InitPoints
      /\ {"use_inc", "idle"} \cap {"rp_discon", "rp_inc", "rp_recv"} = {} /\ "use_inc" \in Leftover
  BY DEF HoldPoints, Senderships, Points, OtherPoints, Window, InitPoints, Leftover
<1>3. after \in Seq(ReturnPoints) /\ ~HasDec(after) /\ ~HasRead(after)
  <2>1. <<"snd_check">> \in Seq(ReturnPoints) /\ <<"dis_check">> \in Seq(ReturnPoints)
    BY DEF ReturnPoints
  <2> QED
    BY <2>1, Frames, ReadFrames
<1>4. Settle(t) /\ pc'[t] = "use_inc" /\ ret'[t] = after
  BY <1>1, <1>2, <1>3, EnterIs
<1>5. ret[t] = <<>> /\ t # Acceptor
  BY <1>1, ThreadsAssumption DEF Shapes, Shape, ShapeOf
<1>6. /\ \A u \in Threads : u # t => cur'[u] = cur[u]
      /\ cur'[t] = k.slot /\ k.slot \in Slots
  BY <1>1, KnownJoin DEF TypeOK, CallType
<1>7. Shapes'
  <2>1. ShapeOf(t, pc'[t], ret'[t])
    BY <1>4, ThreadsAssumption
       DEF ShapeOf, RecvPoints, SendPoints, PacketPoints, ClosePoints, Using, ReleasePoints, Window
  <2> QED
    BY <1>1, <1>4, <2>1, ShapesBy
<1>8. Numbers' /\ (Preparing' => Preparing)
  BY <1>1, <1>2, <1>4, <1>6, NumbersBy
<1>9. Joins'
  BY <1>1, <1>8, JoinsBy
<1>10. ASSUME NEW r \in Slots, OnTime(r)' PROVE Balanced(r)'
  <2>1. OnTime(r) /\ Balanced(r)
    BY <1>1, <1>10 DEF OnTime, Sound, Counted
  <2>2. Unmoved(r)
    BY <1>1, NetKept DEF Unmoved
  <2>3. Live(r) => Live(r)'
    BY <1>1, <1>2, <1>4, <1>6 DEF Live, Owners, Settle
  <2>4. CASE r # k.slot
    <3>1. \A u \in Threads : Still(u) \/ Off(u, r)
      BY <1>4, <1>5, <1>6, <2>4 DEF Still, Off, Settle
    <3> QED
      BY <1>1, <2>1, <2>2, <2>3, <3>1, SlotKept
  <2>5. CASE r = k.slot
    <3>1. /\ Uses(t, r)' = Uses(t, r) /\ ReadUse(t, r)' = ReadUse(t, r)
          /\ SendUse(t, r)' = SendUse(t, r)
      <4>1. ~Owes(t) /\ ~Owes(t)' /\ ~HasRead(ret[t]) /\ ~HasRead(ret[t])'
        BY <1>3, <1>4, <1>5, Frames, ReadFrames DEF Owes, HasRead, HasDec
      <4> QED
        BY <1>2, <1>4, <4>1 DEF Uses, ReadUse, SendUse, Reads
    <3>2. cur'[Acceptor] = r => pc'[Acceptor] \notin Window \ {"init_io"}
      <4>1. Acceptor \in Threads
        BY DEF Threads
      <4>2. ASSUME cur[Acceptor] = r, pc[Acceptor] \in Window PROVE FALSE
        <5>1. sessionID[r] = count.accepts /\ Preparing /\ count.accepts \in Nat
          BY <1>1, <4>1, <4>2, AcceptorIs
        <5>2. k.conn \in Nat /\ k.conn < count.accepts
          BY <5>1, KnownJoin
        <5> QED
          BY <2>5, <5>1, <5>2
      <4> QED
        BY <1>4, <1>5, <1>6, <4>1, <4>2 DEF Settle
    <3>3. pc'[t] # "use_undo" /\ pc'[t] \in Leftover /\ cur'[t] = r
      BY <1>2, <1>4, <1>6, <2>5
    <3> QED
      BY <1>1, <1>4, <1>6, <2>1, <2>2, <2>3, <3>1, <3>2, <3>3, SlotPassed
  <2> QED
    BY <2>4, <2>5
<1> QED
  BY <1>7, <1>8, <1>9, <1>10 DEF Counted

(* SendPacket and DisconnectSession.                                       *)
LEMMA PacketCounted ==
  ASSUME Sound, Typed', NEW t \in Threads, NEW k \in Known,
         SendPacket(t, k.slot, k.conn) \/ Disconnect(t, k.slot, k.conn)
  PROVE  Counted'
<1>1. CASE Disconnect(t, k.slot, k.conn)
  <2>1. count'.accepts = count.accepts /\ count'.late = count.late
    BY <1>1 DEF Disconnect, Sound, Typed, CountOK
  <2> QED
    BY <1>1, <2>1, ContentCounted DEF Disconnect, send, net, events
<1>2. CASE SendPacket(t, k.slot, k.conn)
  <2>1. count'.accepts = count.accepts /\ count'.late = count.late
    BY <1>2 DEF SendPacket, Sound, Typed, CountOK
  <2>2. CASE sessionID[k.slot] = k.conn
    BY <1>2, <2>1, <2>2, ContentCounted DEF SendPacket, send, net, events
  <2>3. CASE sessionID[k.slot] # k.conn
    BY <1>2, <2>1, <2>3, RestsCounted DEF SendPacket, control, call, send, net, events
  <2> QED
    BY <2>2, <2>3
<1> QED
  BY <1>1, <1>2

-----------------------------------------------------------------------------
(* Start: nobody counts and every index is on the stack.                   *)
LEMMA InitCounted == Init => Counted
<1> SUFFICES ASSUME Init PROVE Counted
  OBVIOUS
<1>1. Inductive
  BY InitInductive
<1>2. TypeOK /\ SlotOwnership
  BY <1>1 DEF Inductive
<1>3. /\ \A t \in Threads : pc[t] = "idle" /\ ret[t] = <<>>
      /\ \A s \in Slots : sessionID[s] = 0 /\ ioCount[s] = 0 /\ drift[s] = 0
      /\ recvPend = {} /\ sendPend = {} /\ cq = <<>> /\ posted = <<>>
      /\ count.late = 0 /\ count.accepts = 0
  BY DEF Init
<1>4. "idle" \notin HoldPoints \cup Senderships \cup Window \cup {"init_id", "use_undo"}
      /\ "idle" \in Leftover \ Using
  BY DEF HoldPoints, Senderships, Window, Leftover, Using
<1>5. Acceptor \in Threads
  BY DEF Threads
<1>6. Shapes
  BY <1>3 DEF Shapes, Shape, ShapeOf, RecvPoints, SendPoints, PacketPoints, ClosePoints,
              Using, ReleasePoints, Window
<1>7. Numbers /\ Joins
  <2>1. DOMAIN <<>> = {} /\ 0 <= 0
    OBVIOUS
  <2> QED
    BY <1>3, <1>4, <1>5, <2>1 DEF Numbers, Joins, InitPoints, Window
<1>8. ASSUME NEW s \in Slots PROVE Balanced(s)
  <2>1. Cardinality({}) = 0
    BY FS_EmptySet
  <2>2. Net(s) = 0 /\ SendNet(s) = 0 /\ ReadNet(s) = 0
    <3>1. \A V : Among(cq, V) = {}
      BY <1>3 DEF Among
    <3>2. Net(s) = 0
      <4>1. {i \in DOMAIN cq : cq[i].slot = s} = {}
        BY <1>3
      <4> QED
        BY <1>3, <2>1, <4>1 DEF Net, Coming
    <3> QED
      BY <1>2, <3>2, NetRights
  <2>3. Holders(s) = {} /\ Owers(s) = {}
    BY <1>3, <1>4, Frames DEF Holders, Owers, Owes, HasDec
  <2>4. Holds(s) = 0
    BY <1>2, <2>2, <2>3, HoldsAtLeast
  <2>5. Readings(s) = {} /\ Owners(s, Senderships) = {}
    BY <1>3, <1>4, ReadFrames DEF Readings, Reads, Owners
  <2>6. Readers(s) = 0 /\ Senders(s) = 0
    <3>1. /\ Readers(s) = Cardinality(Readings(s)) + ReadNet(s)
          /\ Senders(s) = Cardinality(Owners(s, Senderships)) + SendNet(s)
      BY <1>2, RolesAre DEF RolesOK
    <3> QED
      BY <2>1, <2>2, <2>5, <3>1
  <2>7. OneAtATime(s)
    BY <2>6 DEF OneAtATime
  <2>8. Undoing(s) /\ AtRest(s)
    BY <1>3, <1>4, <2>2 DEF Undoing, AtRest
  <2>9. pc[Acceptor] \notin Window
    BY <1>3, <1>4, <1>5
  <2> QED
    BY <1>3, <2>4, <2>7, <2>8, <2>9 DEF Balanced
<1> QED
  BY <1>6, <1>7, <1>8 DEF Counted

(* Every step keeps the invariant.                                         *)
LEMMA StepSound == Sound /\ [Next]_vars => Sound'
<1> SUFFICES ASSUME Sound, [Next]_vars PROVE Sound'
  OBVIOUS
<1>1. Typed' /\ Owned'
  <2>1. Inductive
    BY DEF Sound, Inductive, Typed, Owned
  <2>2. Inductive'
    BY <2>1, StepInductive
  <2> QED
    BY <2>2 DEF Inductive, Typed, Owned
<1>2. Counted'
  <2>1. ASSUME NEW t \in Threads, Calls(t) PROVE Counted'
    BY <1>1, <2>1, CallsCounted
  <2>2. ASSUME NEW t \in Threads, Accepting(t) PROVE Counted'
    BY <1>1, <2>2, AcceptingCounted
  <2>3. ASSUME NEW t \in Threads, Working(t) PROVE Counted'
    BY <1>1, <2>3, WorkCounted
  <2>4. ASSUME NEW t \in Threads, NEW s \in Slots, Accept(t, s) PROVE Counted'
    BY <1>1, <2>4, AcceptCounted
  <2>5. ASSUME NEW t \in Threads, NEW k \in Known,
               SendPacket(t, k.slot, k.conn) \/ Disconnect(t, k.slot, k.conn)
        PROVE  Counted'
    BY <1>1, <2>5, PacketCounted
  <2>6. CASE \/ \E s \in Slots : Kernel(s) \/ PeerSends(s)
             \/ \E n \in Conns : PeerLeaves(n)
             \/ \E t \in Threads : AcceptBlocked(t)
             \/ TakeEvent
    BY <1>1, <2>6, WorldCounted
  <2>7. CASE UNCHANGED vars
    BY <1>1, <2>7, RestsCounted DEF vars, life, send, control, call, net, events
  <2> QED
    BY <2>1, <2>2, <2>3, <2>4, <2>5, <2>6, <2>7 DEF Next
<1> QED
  BY <1>1, <1>2 DEF Sound

(* The parts of the invariant always hold, for any number of indexes,      *)
(* workers, accepts and messages.                                          *)
THEOREM SoundInvariant == Spec => []Sound
<1>1. Init => Sound
  BY InitInductive, InitCounted DEF Inductive, Sound, Typed, Owned
<1> QED
  BY <1>1, StepSound, PTL DEF Spec

(* IOCount is never off while no late call has met an Initailize: it is    *)
(* the number of decrements that threads, the kernel and the completion    *)
(* port still owe, and of those that the code forgets.                     *)
THEOREM CountAccounted == Spec => []Accounting
<1>1. Sound => Accounting
  BY DEF Sound, Counted, Balanced, Accounting
<1> QED
  BY <1>1, SoundInvariant, PTL

(* ReleaseSession begins only when no thread, no I/O and no completion has *)
(* to do with the session any more, and nothing comes back to it but calls *)
(* of StartUseSession that are about to find out.                          *)
THEOREM ReleasedAtRest == Spec => []ReleasedQuiet
<1>1. Sound => ReleasedQuiet
  <2> SUFFICES ASSUME Sound, NEW s \in Slots, OnTime(s), releaseFlag[s]
               PROVE  /\ s \notin recvPend \cup sendPend
                      /\ \A i \in DOMAIN cq : cq[i].slot # s
                      /\ \A t \in Threads : cur[t] = s => pc[t] \in Leftover
    BY DEF ReleasedQuiet
  <2>1. AtRest(s) /\ TypeOK
    BY DEF Sound, Typed, Counted, Balanced, Live
  <2>2. Net(s) = 0
    BY <2>1 DEF AtRest
  <2> QED
    BY <2>1, <2>2, NetZero DEF AtRest
<1> QED
  BY <1>1, SoundInvariant, PTL

(* SendPost, WSASend and SendComplete pass the right to send on to each    *)
(* other: a session never has two sends, and SendFlag is set while it has  *)
(* one, so its overlapped structure and its array of messages have one     *)
(* user.                                                                   *)
THEOREM SendsExclude == Spec => []SendExclusive
<1>1. Sound => SendExclusive
  BY DEF Sound, Counted, Balanced, OneAtATime, SendExclusive
<1> QED
  BY <1>1, SoundInvariant, PTL
=============================================================================
