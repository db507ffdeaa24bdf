-------------------------- MODULE SessionOrderProofs --------------------------
(***************************************************************************)
(* Proofs about what the sessions of CNetServer promise to others, while   *)
(* IOCount can be relied on: the order of the callbacks (Told), the        *)
(* sockets that are closed (Sockets), the connection that a message goes   *)
(* to (Delivery), the one place where every message is (Kept).  Each of    *)
(* the four is inductive together with Sound of SessionProofs.  And which  *)
(* step alone leaves a message without a sender (Awaited).                 *)
(***************************************************************************)
EXTENDS SessionProofs

USE DEF At

(* Most steps neither set a slot up nor release it.                        *)
Setup == {"init_id"} \cup Window
Aside == Points \ (Setup \cup ReleasePoints)
Plain(t) ==
  /\ Settle(t) /\ pc[t] \in Aside /\ pc'[t] \in Aside
  /\ \A u \in Threads : u # t => cur'[u] = cur[u]
  /\ UNCHANGED <<sessionID, releaseFlag, socketVal, opened>>
  /\ count'.accepts = count.accepts /\ count'.late = count.late
Stays ==
  /\ UNCHANGED <<pc, ret, cur, id, msg, sessionID, releaseFlag, send, sock, opened, posted>>
  /\ count'.accepts = count.accepts /\ count'.late = count.late

(* The exchange that releases a session.                                   *)
Commits(t) == ReleaseCommit(t) /\ ioCount[cur[t]] = 0 /\ ~releaseFlag[cur[t]]

-----------------------------------------------------------------------------
(* Where a call goes.                                                      *)
LEMMA CallPoints ==
  ASSUME Typed, NEW t \in Threads, Calls(t)
  PROVE  pc[t] \notin Setup /\ pc'[t] \in Points \ Setup
<1> USE DEF Setup, Window
<1>1. pc \in [Threads -> Points] /\ Return(t) => pc'[t] \in Points \ Setup
  <2>1. ReturnPoints \cup {"idle"} \subseteq Points \ Setup
    BY DEF ReturnPoints, Points, HoldPoints, OtherPoints
  <2>2. Return(t) => pc'[t] \in {"idle"} \cup ReturnPoints
    BY ReturnIs DEF Typed
  <2> QED
    BY <2>1, <2>2
<1>2. pc \in [Threads -> Points]
  BY DEF Typed, TypeOK, ControlType
<1>3. ASSUME NEW p \in Points \ Setup, NEW q, Goto(t, p) \/ Enter(t, p, q)
      PROVE  pc'[t] \in Points \ Setup
  BY <1>2, <1>3 DEF Goto, Enter
<1>4. /\ {"rel_cas", "rel_leave", "rel_clean", "rel_push", "use_undo", "idle"} \subseteq Points \ Setup
      /\ {"snd_enqueue", "snd_notify", "dec"} \subseteq Points \ Setup
      /\ ClosePoints \cup RecvPoints \cup SendPoints \cup {"sc_check"} \subseteq Points \ Setup
  BY DEF Points, HoldPoints, OtherPoints, ReleasePoints, ClosePoints, RecvPoints, SendPoints
<1> HIDE DEF Setup, Window
<1>5. CASE \/ Dec(t) \/ ReleaseCommit(t) \/ ReleaseLeave(t) \/ ReleaseClean(t) \/ ReleasePush(t)
  <2>1. pc[t] \notin Setup
    BY <1>5 DEF Dec, ReleaseCommit, ReleaseIf, ReleaseLeave, ReleaseClean, CleanUp, ReleasePush,
                Setup, Window
  <2>2. Return(t) \/ \E p \in {"rel_cas", "rel_leave", "rel_clean", "rel_push"} : Goto(t, p)
    BY <1>5 DEF Dec, ReleaseCommit, ReleaseIf, ReleaseLeave, ReleaseClean, CleanUp, ReleasePush
  <2> QED
    BY <1>1, <1>2, <1>3, <1>4, <2>1, <2>2
<1>6. CASE UseInc(t) \/ UseUndo(t) \/ SendCheck(t) \/ SendEnqueue(t) \/ SendNotify(t)
  <2>1. pc[t] \notin Setup
    BY <1>6 DEF UseInc, Increment, UseUndo, Undo, SendCheck, CheckID, SendEnqueue, SendNotify,
                Setup, Window
  <2>2. \/ Return(t) \/ Enter(t, "rel_cas", Tail(ret[t]))
        \/ \E p \in {"use_undo", "snd_enqueue", "snd_notify", "dec"} : Goto(t, p)
    BY <1>6 DEF UseInc, Increment, UseUndo, Undo, SendCheck, CheckID, SendEnqueue, SendNotify
  <2> QED
    BY <1>1, <1>2, <1>3, <1>4, <2>1, <2>2
<1>7. CASE \/ DisconnectCheck(t) \/ DisconnectFlag(t) \/ DisconnectSocket(t)
           \/ DisconnectMark(t) \/ DisconnectCancel(t)
  <2>1. pc[t] \notin Setup
    BY <1>7 DEF DisconnectCheck, DisconnectFlag, DisconnectSocket, DisconnectMark,
                DisconnectCancel, Setup, Window
  <2>2. \E p \in ClosePoints \cup {"dec"} : Goto(t, p)
    BY <1>7 DEF DisconnectCheck, DisconnectFlag, DisconnectSocket, DisconnectMark,
                DisconnectCancel, ClosePoints
  <2> QED
    BY <1>3, <1>4, <2>1, <2>2
<1>8. CASE RecvPost(t) \/ RecvInc(t) \/ RecvIssue(t) \/ RecvPended(t) \/ RecvFailed(t)
  <2>1. pc[t] \notin Setup
    BY <1>8 DEF RecvPost, RecvInc, CountRecv, RecvIssue, RecvPended, RecvFailed, Setup, Window
  <2>2. Return(t) \/ \E p \in RecvPoints \cup {"dec"} : Goto(t, p)
    BY <1>8 DEF RecvPost, RecvInc, CountRecv, RecvIssue, RecvPended, RecvFailed, RecvPoints
  <2> QED
    BY <1>1, <1>2, <1>3, <1>4, <2>1, <2>2
<1>9. CASE \/ SendPost(t) \/ SendClaim(t) \/ SendSize(t) \/ SendClear(t)
  <2>1. pc[t] \notin Setup
    BY <1>9 DEF SendPost, SendClaim, Claim, SendSize, SendClear, Setup, Window
  <2>2. Return(t) \/ \E p \in SendPoints : Goto(t, p)
    BY <1>9 DEF SendPost, SendClaim, Claim, SendSize, SendClear, SendPoints
  <2> QED
    BY <1>1, <1>2, <1>3, <1>4, <2>1, <2>2
<1>10. CASE SendInc(t) \/ SendTake(t) \/ SendIssue(t) \/ SentFlag(t) \/ SentCheck(t)
  <2>1. pc[t] \notin Setup
    BY <1>10 DEF SendInc, SendTake, SendIssue, SentFlag, SentCheck, Setup, Window
  <2>2. \/ Return(t) \/ Enter(t, "sp_discon", <<"dec">>)
        \/ \E p \in SendPoints \cup {"sc_check", "dec"} : Goto(t, p)
    BY <1>10 DEF SendInc, SendTake, SendIssue, SentFlag, SentCheck, SendPoints
  <2>3. "sp_discon" \in SendPoints
    BY DEF SendPoints
  <2> QED
    BY <1>1, <1>2, <1>3, <1>4, <2>1, <2>2, <2>3
<1> QED
  BY <1>5, <1>6, <1>7, <1>8, <1>9, <1>10 DEF Calls

(* A step of a call is plain, but for those of a release.                  *)
LEMMA CallsPlain ==
  ASSUME Typed, NEW t \in Threads, Calls(t), ~Commits(t),
         ~ReleaseLeave(t), ~ReleaseClean(t), ~ReleasePush(t)
  PROVE  Plain(t) /\ UNCHANGED <<cur, id, posted, count>>
<1>1. pc[t] \in Points \ Setup /\ pc'[t] \in Points \ Setup
  BY CallPoints DEF Typed, TypeOK, ControlType
<1>2. Moves(t) /\ pc[t] \notin ReleasePoints /\ UNCHANGED <<id, socketVal, opened, posted>>
  <2>1. CASE Dec(t)
    <3>1. Inside(t) /\ GoesOn(t) /\ pc[t] \notin ReleasePoints
      BY <2>1 DEF Dec, Inside, GoesOn, Elsewhere, Using, HoldPoints, OtherPoints, ReleasePoints
    <3>2. AddIO(t, -1) /\ UNCHANGED <<send, sock, freeIdx, call, net, log>>
      BY <2>1 DEF Dec
    <3> QED
      BY <3>1, <3>2, CountMoves DEF sock, net, log, events, call
  <2>2. CASE ReleaseCommit(t)
    <3>1. /\ pc[t] = "rel_cas" /\ Return(t)
          /\ UNCHANGED <<releaseFlag, sessionID, ioCount, send, sock, freeIdx, call, net, log>>
      BY <2>2 DEF Commits, ReleaseCommit, ReleaseIf
    <3>2. Inside(t) /\ GoesOn(t) /\ pc[t] \notin ReleasePoints
      BY <3>1 DEF Inside, GoesOn, Using, HoldPoints, OtherPoints, ReleasePoints
    <3> QED
      BY <3>1, <3>2, ControlMoves DEF life, sock, net, log, events, call
  <2>3. CASE UseInc(t)
    <3>1. pc[t] = "use_inc" /\ UNCHANGED <<call, sock, net, log>>
      BY <2>3 DEF UseInc, Increment
    <3> QED
      BY <2>3, <3>1, UseIncMoves DEF sock, net, log, events, call, ReleasePoints
  <2>4. CASE UseUndo(t)
    <3>1. pc[t] = "use_undo" /\ UNCHANGED <<id, sock, net, events>>
      BY <2>4 DEF UseUndo, Undo
    <3> QED
      BY <2>4, <3>1, UseUndoMoves DEF sock, net, events, ReleasePoints
  <2>5. CASE SendCheck(t) \/ SendEnqueue(t) \/ SendNotify(t)
    <3>1. pc[t] \in PacketPoints /\ UNCHANGED <<id, sock, opened, events>>
      BY <2>5 DEF SendCheck, CheckID, SendEnqueue, SendNotify, PacketPoints, net, call, log
    <3> QED
      BY <2>5, <3>1, SendPacketMoves DEF sock, events, ReleasePoints, PacketPoints
  <2>6. CASE \/ DisconnectCheck(t) \/ DisconnectFlag(t) \/ DisconnectSocket(t)
             \/ DisconnectMark(t) \/ DisconnectCancel(t)
    <3>1. pc[t] \in ClosePoints /\ UNCHANGED <<id, socketVal, opened, events>>
      BY <2>6 DEF DisconnectCheck, DisconnectFlag, DisconnectSocket, DisconnectMark,
                  DisconnectCancel, ClosePoints, net, call, log, sock
    <3> QED
      BY <2>6, <3>1, DisconnectMoves DEF events, ReleasePoints, ClosePoints
  <2>7. CASE RecvPost(t) \/ RecvInc(t) \/ RecvIssue(t) \/ RecvPended(t) \/ RecvFailed(t)
    <3>1. pc[t] \in RecvPoints /\ UNCHANGED <<id, socketVal, opened, events>>
      BY <2>7 DEF RecvPost, RecvInc, CountRecv, RecvIssue, RecvPended, RecvFailed, RecvPoints,
                  net, call, log, sock
    <3> QED
      BY <2>7, <3>1, RecvMoves DEF events, ReleasePoints, RecvPoints
  <2>8. CASE \/ SendPost(t) \/ SendClaim(t) \/ SendSize(t) \/ SendClear(t) \/ SendInc(t)
             \/ SendTake(t) \/ SendIssue(t) \/ SentFlag(t) \/ SentCheck(t)
    <3>1. pc[t] \notin ReleasePoints
      BY <2>8 DEF SendPost, SendClaim, Claim, SendSize, SendClear, SendInc, SendTake, SendIssue,
                  SentFlag, SentCheck, ReleasePoints
    <3>2. UNCHANGED <<id, socketVal, opened, events>>
      BY <2>8 DEF SendPost, SendClaim, Claim, SendSize, SendClear, SendInc, SendTake, SendIssue,
                  SentFlag, SentCheck, net, call, log, sock
    <3> QED
      BY <2>8, <3>1, <3>2, SendMoves DEF events
  <2> QED
    BY <2>1, <2>2, <2>3, <2>4, <2>5, <2>6, <2>7, <2>8 DEF Calls
<1> QED
  BY <1>1, <1>2 DEF Moves, Plain, Aside

(* So is a handler that begins; only OnRecv is a callback.                 *)
LEMMA WorkPlain ==
  ASSUME Typed, NEW t \in Threads, Working(t)
  PROVE  /\ Plain(t) /\ UNCHANGED <<ioSocket, msg>> /\ Head(cq).slot \in Slots
         /\ Head(cq).slot \in SlotsOf(cq) /\ cur' = [cur EXCEPT ![t] = Head(cq).slot]
         /\ \/ UNCHANGED posted
            \/ posted' = Append(posted, [kind |-> "recv", slot |-> Head(cq).slot,
                                         conn |-> sessionID[Head(cq).slot]])
<1>1. Begins(t) /\ Typed'
  BY WorkBegins, RecvBegins DEF Working
<1>2. PICK k \in Kinds : Take(t, k)
  BY DEF Working, WorkerEnd, WorkerRequest, WorkerSent, Sent, WorkerRecv, Kinds
<1>3. /\ pc[t] = "idle" /\ Head(cq).slot \in Slots /\ Head(cq).slot \in SlotsOf(cq)
      /\ cur' = [cur EXCEPT ![t] = Head(cq).slot]
  BY <1>2, TakeIs
<1>4. /\ UNCHANGED <<ioSocket, msg, socketVal, opened>>
      /\ UNCHANGED count \/ count' = [count EXCEPT !.disconnects = @ + 1]
      /\ \/ UNCHANGED posted
         \/ posted' = Append(posted, [kind |-> "recv", slot |-> Head(cq).slot,
                                      conn |-> sessionID[Head(cq).slot]])
  BY DEF Working, WorkerEnd, WorkerRequest, WorkerSent, Sent, WorkerRecv, log, events, sock
<1>5. count'.accepts = count.accepts /\ count'.late = count.late
  BY <1>4 DEF Typed, CountOK
<1>6. pc'[t] \in {"dec", "sp_discon", "sc_flag", "rp_discon", "use_inc"}
  <2>1. pc \in [Threads -> Points]
    BY DEF Typed, TypeOK, ControlType
  <2> QED
    BY <2>1 DEF Working, WorkerEnd, WorkerRequest, WorkerSent, Sent, WorkerRecv, Enter
<1>7. {"idle", "dec", "sp_discon", "sc_flag", "rp_discon", "use_inc"} \subseteq Aside
  BY DEF Aside, Points, HoldPoints, OtherPoints, Setup, Window, ReleasePoints
<1>8. \A u \in Threads : u # t => cur'[u] = cur[u]
  BY <1>3 DEF Typed, TypeOK, CallType
<1> QED
  BY <1>1, <1>3, <1>4, <1>5, <1>6, <1>7, <1>8 DEF Plain, Begins

(* And a call of the content.                                              *)
LEMMA ContentPlain ==
  ASSUME Typed, NEW t \in Threads, NEW k \in Known,
         SendPacket(t, k.slot, k.conn) \/ Disconnect(t, k.slot, k.conn)
  PROVE  /\ UNCHANGED <<sending, sendQ, ioSocket, posted>> /\ t = Content
         /\ Plain(t) \/ UNCHANGED <<pc, cur>>
         /\ UNCHANGED <<sessionID, releaseFlag, socketVal, opened>>
         /\ count'.accepts = count.accepts /\ count'.late = count.late
<1>1. Typed' /\ (Begins(t) \/ Rests)
  BY ContentBegins
<1>2. /\ UNCHANGED <<sending, sendQ, ioSocket, posted, socketVal, opened, sessionID, releaseFlag>>
      /\ t = Content
  BY DEF SendPacket, Disconnect, send, sock, net, events, life
<1>3. count'.accepts = count.accepts /\ count'.late = count.late
  BY DEF SendPacket, Disconnect, Typed, CountOK
<1>4. CASE Begins(t) /\ ~UNCHANGED <<pc, cur>>
  <2>1. pc \in [Threads -> Points] /\ cur \in [Threads -> Slots]
    BY DEF Typed, TypeOK, ControlType, CallType
  <2>2. Enter(t, "use_inc", <<"snd_check">>) \/ Enter(t, "use_inc", <<"dis_check">>)
    BY <1>4 DEF SendPacket, Disconnect, control, call
  <2>3. pc'[t] = "use_inc" /\ {"use_inc", "idle"} \subseteq Aside
    BY <2>1, <2>2 DEF Enter, Aside, Points, OtherPoints, Setup, Window, ReleasePoints
  <2>4. \A u \in Threads : u # t => cur'[u] = cur[u]
    BY <1>4, <2>1 DEF Begins
  <2> QED
    BY <1>2, <1>3, <1>4, <2>3, <2>4 DEF Plain, Begins
<1> QED
  BY <1>1, <1>2, <1>3, <1>4 DEF Rests

(* The kernel, the peers, a connection that is turned away, and a callback *)
(* that the content takes note of.                                         *)
LEMMA WorldStays ==
  ASSUME Typed,
         \/ \E s \in Slots : Kernel(s) \/ PeerSends(s)
         \/ \E n \in Conns : PeerLeaves(n)
         \/ \E t \in Threads : AcceptBlocked(t)
         \/ TakeEvent
         \/ UNCHANGED vars
  PROVE  Stays /\ UNCHANGED <<freed, count.msgs, count.to>>
<1>1. CASE \E s \in Slots : Kernel(s) \/ PeerSends(s)
  <2>1. UNCHANGED <<pc, ret, cur, id, msg, sessionID, releaseFlag, send, sock, opened, posted, freed>>
    BY <1>1 DEF Kernel, RecvEnds, SendDone, PeerSends, log, events, life, control, call
  <2>2. UNCHANGED count \/ count' = [count EXCEPT !.recvs = @ + 1]
    BY <1>1 DEF Kernel, RecvEnds, SendDone, PeerSends, log
  <2> QED
    BY <2>1, <2>2 DEF Stays, Typed, CountOK
<1>2. CASE \E t \in Threads : AcceptBlocked(t)
  <2>1. UNCHANGED <<pc, ret, cur, id, msg, sessionID, releaseFlag, send, sock, opened, posted, freed>>
    BY <1>2 DEF AcceptBlocked, events, life, control, call, net
  <2>2. count' = [count EXCEPT !.blocked = @ + 1]
    BY <1>2 DEF AcceptBlocked
  <2> QED
    BY <2>1, <2>2 DEF Stays, Typed, CountOK
<1>3. CASE (\E n \in Conns : PeerLeaves(n)) \/ TakeEvent \/ UNCHANGED vars
  BY <1>3 DEF PeerLeaves, TakeEvent, vars, log, events, life, control, call, net, Stays
<1> QED
  BY <1>1, <1>2, <1>3

-----------------------------------------------------------------------------
(* The callbacks, while no late call has met an Initailize.                *)
Callbacks    == [kind : {"join", "recv", "leave"}, slot : Slots, conn : Nat]
Has(k, s, n) == \E i \in DOMAIN posted : posted[i] = [kind |-> k, slot |-> s, conn |-> n]

(* OnClientJoin of its connection was called, and OnClientLeave not yet.   *)
Open(s) ==
  \/ Live(s) /\ ~(cur[Acceptor] = s /\ pc[Acceptor] \in Setup)
  \/ Owners(s, {"rel_leave"}) # {}
Early ==
  \A i \in DOMAIN posted :
    posted[i].conn <= count.accepts /\ (Preparing => posted[i].conn < count.accepts)
Heard ==
  \A s \in Slots : Open(s) => Has("join", s, sessionID[s]) /\ ~Has("leave", s, sessionID[s])
Told == count.late = 0 => Early /\ Heard /\ CallbacksInOrder

(* One more callback.                                                      *)
LEMMA OneMore ==
  ASSUME TypeOK, NEW e \in Callbacks, posted' = Append(posted, e)
  PROVE  \E n \in Nat :
           /\ DOMAIN posted = 1 .. n /\ DOMAIN posted' = 1 .. n + 1 /\ posted'[n + 1] = e
           /\ \A i \in 1 .. n : posted'[i] = posted[i] /\ posted[i] \in Callbacks
<1>1. posted \in Seq(Callbacks)
  BY DEF TypeOK, EventType, Callbacks
<1>2. PICK n \in Nat : n = Len(posted)
  BY <1>1, LenProperties
<1>3. /\ DOMAIN posted = 1 .. n /\ DOMAIN posted' = 1 .. n + 1 /\ posted'[n + 1] = e
      /\ \A i \in 1 .. n : posted'[i] = posted[i] /\ posted[i] \in Callbacks
  BY <1>1, <1>2, AppendProperties, LenProperties
<1> QED
  BY <1>3

(* It is in order when it opens a connection that nobody has heard of, or  *)
(* is about one that is open.                                              *)
LEMMA CallbackAdded ==
  ASSUME TypeOK, CallbacksInOrder, NEW k \in {"join", "recv", "leave"}, NEW s \in Slots,
         NEW n \in Nat, posted' = Append(posted, [kind |-> k, slot |-> s, conn |-> n]),
         ~Has("leave", s, n), Has("join", s, n) <=> k # "join"
  PROVE  CallbacksInOrder'
<1>1. PICK e \in Callbacks : e = [kind |-> k, slot |-> s, conn |-> n]
  BY DEF Callbacks
<1>2. posted' = Append(posted, e)
  BY <1>1
<1>3. PICK z \in Nat :
        /\ DOMAIN posted = 1 .. z /\ DOMAIN posted' = 1 .. z + 1 /\ posted'[z + 1] = e
        /\ \A i \in 1 .. z : posted'[i] = posted[i] /\ posted[i] \in Callbacks
  BY <1>2, OneMore
<1>4. ASSUME NEW i \in 1 .. z
      PROVE  /\ \A j \in 1 .. i - 1 : j \in 1 .. z /\ posted'[j] = posted[j]
             /\ posted'[i] = posted[i]
  BY <1>3, <1>4
<1>5. \A i \in 1 .. z + 1 : i \in 1 .. z \/ i = z + 1
  BY <1>3
<1>6. (z + 1) - 1 = z
  BY <1>3
<1>7. \A b : [e EXCEPT !.kind = b] = [kind |-> b, slot |-> s, conn |-> n] /\ e.kind = k
  BY <1>1
<1>8. ASSUME NEW i \in DOMAIN posted', NEW b
      PROVE  (\E j \in 1 .. i - 1 : posted'[j] = [posted'[i] EXCEPT !.kind = b])
               <=> IF i = z + 1 THEN Has(b, s, n)
                   ELSE \E j \in 1 .. i - 1 : posted[j] = [posted[i] EXCEPT !.kind = b]
  <2>1. CASE i = z + 1
    <3>1. (\E j \in 1 .. z : posted'[j] = [e EXCEPT !.kind = b]) <=> Has(b, s, n)
      BY <1>3, <1>7 DEF Has
    <3> QED
      BY <1>3, <1>6, <2>1, <3>1
  <2>2. CASE i \in 1 .. z
    <3>1. i # z + 1
      BY <1>3, <2>2
    <3> QED
      BY <1>4, <2>2, <3>1
  <2> QED
    BY <1>3, <1>5, <1>8, <2>1, <2>2
<1>9. ASSUME NEW i \in DOMAIN posted'
      PROVE  /\ ~\E j \in 1 .. i - 1 : posted'[j] = [posted'[i] EXCEPT !.kind = "leave"]
             /\ (\E j \in 1 .. i - 1 : posted'[j] = [posted'[i] EXCEPT !.kind = "join"])
                  <=> posted'[i].kind # "join"
  <2>1. CASE i = z + 1
    BY <1>3, <1>7, <1>8, <2>1
  <2>2. CASE i \in 1 .. z
    <3>1. i # z + 1 /\ i \in DOMAIN posted /\ posted'[i] = posted[i]
      BY <1>3, <2>2
    <3> QED
      BY <1>8, <1>9, <3>1, SMTT(30) DEF CallbacksInOrder
  <2> QED
    BY <1>3, <1>5, <1>9, <2>1, <2>2
<1> QED
  BY <1>9 DEF CallbacksInOrder

(* A step without a callback opens nothing.                                *)
LEMMA ToldKept ==
  ASSUME Sound, Told, UNCHANGED posted, count'.late = 0 => count.late = 0,
         \/ count'.accepts = count.accepts /\ (Preparing' => Preparing)
         \/ count'.accepts = count.accepts + 1,
         \A s \in Slots : Open(s)' => Open(s) /\ sessionID'[s] = sessionID[s]
  PROVE  Told'
<1> SUFFICES ASSUME count'.late = 0 PROVE Early' /\ Heard' /\ CallbacksInOrder'
  BY DEF Told
<1>1. Early /\ Heard /\ CallbacksInOrder
  BY DEF Told
<1>2. Early'
  <2>1. count.accepts \in Nat /\ posted \in Seq(Callbacks)
    BY DEF Sound, Typed, CountOK, TypeOK, EventType, Callbacks
  <2>2. PICK a \in Nat : a = count.accepts
    BY <2>1
  <2>3. ASSUME NEW i \in DOMAIN posted
        PROVE  posted[i].conn <= count'.accepts /\ (Preparing' => posted[i].conn < count'.accepts)
    <3>1. posted[i] \in Callbacks
      BY <2>1, LenProperties
    <3>2. PICK n \in Nat : n = posted[i].conn
      BY <3>1 DEF Callbacks
    <3>3. n <= a /\ (Preparing => n < a)
      BY <1>1, <2>2, <3>2 DEF Early
    <3>4. n <= a + 1 /\ n < a + 1
      BY <3>3
    <3> QED
      BY <2>2, <3>2, <3>3, <3>4
  <2> QED
    BY <2>3 DEF Early
<1>3. Heard'
  BY <1>1 DEF Heard, Has
<1>4. CallbacksInOrder'
  BY <1>1 DEF CallbacksInOrder
<1> QED
  BY <1>2, <1>3, <1>4

(* Plain steps open and close nothing.                                     *)
LEMMA PlainOpen ==
  ASSUME Typed, NEW t \in Threads, Plain(t)
  PROVE  /\ \A s \in Slots : (Open(s)' <=> Open(s)) /\ (Live(s)' <=> Live(s))
         /\ \A s \in Slots, P \in SUBSET (Setup \cup ReleasePoints) : Owners(s, P)' = Owners(s, P)
         /\ Preparing' <=> Preparing
         /\ pc[Acceptor] \in Setup => t # Acceptor
<1>1. Acceptor \in Threads /\ Aside \cap (Setup \cup ReleasePoints) = {}
  BY DEF Threads, Aside
<1>2. InitPoints \subseteq Setup /\ "rel_leave" \in ReleasePoints
  BY DEF InitPoints, Setup, Window, ReleasePoints
<1>3. \A s \in Slots, P \in SUBSET (Setup \cup ReleasePoints) : Owners(s, P)' = Owners(s, P)
  BY <1>1 DEF Plain, Owners, Settle
<1>4. \A s \in Slots : Live(s)' <=> Live(s)
  BY <1>2, <1>3 DEF Live, Plain
<1>5. /\ pc'[Acceptor] \in Setup <=> pc[Acceptor] \in Setup
      /\ pc[Acceptor] \in Setup => t # Acceptor
      /\ pc[Acceptor] \in Setup => cur'[Acceptor] = cur[Acceptor]
  BY <1>1 DEF Plain, Settle
<1>6. \A s \in Slots : Open(s)' <=> Open(s)
  BY <1>2, <1>3, <1>4, <1>5 DEF Open
<1> QED
  BY <1>3, <1>4, <1>5, <1>6 DEF Preparing, Setup

(* Nor do steps that move no thread.                                       *)
LEMMA StaysOpen ==
  ASSUME UNCHANGED <<pc, cur, sessionID, releaseFlag>>
  PROVE  \A s \in Slots : (Open(s)' <=> Open(s)) /\ (Live(s)' <=> Live(s))
BY DEF Open, Live, Owners

(* What is used has been opened.                                           *)
LEMMA UsedOpen ==
  ASSUME Sound, NEW s \in Slots, count.late = 0, Net(s) > 0
  PROVE  Open(s)
<1>1. OnTime(s) /\ Acceptor \in Threads
  BY DEF OnTime, Threads
<1>2. InUse(s) /\ (cur[Acceptor] = s => pc[Acceptor] # "acc_join")
  BY <1>1, Occupied
<1> QED
  BY <1>2 DEF InUse, Open, Setup, Window

(* The session that is released was open.                                  *)
LEMMA CommitOpen ==
  ASSUME Sound, NEW t \in Threads, Commits(t)
  PROVE  /\ cur[t] \in Slots /\ pc[t] = "rel_cas" /\ pc'[t] = "rel_leave" /\ Settle(t)
         /\ releaseFlag' = [releaseFlag EXCEPT ![cur[t]] = TRUE] /\ releaseFlag \in [Slots -> BOOLEAN]
         /\ UNCHANGED <<sessionID, cur, id, msg, count, posted, send, sock, opened, freed>>
         /\ Live(cur[t])
         /\ OnTime(cur[t]) => ~(cur[Acceptor] = cur[t] /\ pc[Acceptor] \in Setup)
         /\ Preparing' <=> Preparing
<1>1. Typed /\ cur[t] \in Slots /\ releaseFlag \in [Slots -> BOOLEAN] /\ Acceptor \in Threads
  BY DEF Sound, Typed, TypeOK, CallType, LifeType, Threads
<1>2. /\ Settle(t) /\ pc[t] = "rel_cas" /\ pc'[t] = "rel_leave"
      /\ releaseFlag' = [releaseFlag EXCEPT ![cur[t]] = TRUE]
      /\ UNCHANGED <<sessionID, cur, count, posted>>
  BY <1>1, CommitTyped DEF Commits
<1>3. UNCHANGED <<id, msg, send, sock, opened, freed>>
  BY DEF Commits, ReleaseCommit, ReleaseIf, call, net, log
<1>4. Live(cur[t])
  <2>1. Touched(cur[t])
    BY <1>1, <1>2 DEF Touched, Busy, InitPoints
  <2> QED
    BY <1>1, <2>1 DEF Commits, Sound, Owned, Settled
<1>5. ASSUME OnTime(cur[t]), cur[Acceptor] = cur[t], pc[Acceptor] \in Setup PROVE FALSE
  <2>1. pc[Acceptor] \notin InitPoints
    BY <1>1, <1>4, <1>5 DEF Live, Owners
  <2>2. pc[Acceptor] \in Window \ {"init_io"} /\ t # Acceptor
    BY <1>2, <1>5, <2>1 DEF Setup, Window, InitPoints
  <2>3. Balanced(cur[t])
    BY <1>1, <1>5 DEF Sound, Counted
  <2> QED
    BY <1>1, <1>2, <1>5, <2>2, <2>3, NobodyPrepares
<1>6. Preparing' <=> Preparing
  BY <1>1, <1>2 DEF Preparing, Settle, Window
<1> QED
  BY <1>1, <1>2, <1>3, <1>4, <1>5, <1>6

(* A step of Initailize, and the use that the accept thread takes.         *)
Prepares(t) ==
  /\ t = Acceptor /\ Settle(t) /\ pc[t] \in Setup /\ pc'[t] \in Setup \ {"init_id"}
  /\ UNCHANGED <<cur, id, msg, posted, opened, freed>>
  /\ count'.accepts = count.accepts /\ count'.to = count.to /\ count'.msgs = count.msgs
  /\ count'.late = count.late \/ (count.late = 0 /\ count'.late = count.accepts)
  /\ count'.late = 0 => count.late = 0
  /\ \A r \in Slots : r # cur[t] =>
       /\ sessionID'[r] = sessionID[r] /\ releaseFlag'[r] = releaseFlag[r]
       /\ socketVal'[r] = socketVal[r] /\ ioSocket'[r] = ioSocket[r]
       /\ sendQ'[r] = sendQ[r] /\ sending'[r] = sending[r]
LEMMA PrepareIs ==
  ASSUME Sound, NEW t \in Threads,
         InitID(t) \/ InitIO(t) \/ InitFlag(t) \/ InitRest(t) \/ AcceptHold(t)
  PROVE  Prepares(t) /\ (~InitID(t) => UNCHANGED sessionID)
<1>1. pc[t] \in {"init_id", "init_io", "init_flag", "init_rest", "acc_hold"}
  BY DEF InitID, InitIO, InitFlag, InitRest, AcceptHold, Hold
<1>2. pc[t] \in Setup
  BY <1>1 DEF Setup, Window
<1>3. t = Acceptor /\ cur[t] \in Slots /\ Typed /\ TypeOK /\ CountOK
  BY <1>2, AcceptorIs DEF Setup, Typed
<1>4. PICK p \in Window : Goto(t, p)
  BY DEF InitID, InitIO, InitFlag, InitRest, AcceptHold, Hold, Window
<1>5. Settle(t) /\ pc'[t] \in Setup \ {"init_id"}
  <2>1. p \in Points /\ p \in Setup \ {"init_id"}
    BY DEF Window, Points, InitPoints, OtherPoints, HoldPoints, Setup
  <2> QED
    BY <1>3, <1>4, <2>1, GotoIs
<1>6. UNCHANGED <<cur, id, msg, posted, opened, freed>>
  BY DEF InitID, InitIO, InitFlag, InitRest, AcceptHold, Hold, call, net, log, events
<1>7. /\ count'.accepts = count.accepts /\ count'.to = count.to /\ count'.msgs = count.msgs
      /\ count'.late = count.late \/ (count.late = 0 /\ count'.late = count.accepts)
      /\ count'.late = 0 => count.late = 0
  <2>1. CASE UNCHANGED count
    BY <2>1
  <2>2. CASE InitIO(t)
    <3>1. count' = [count EXCEPT !.late = IF @ = 0 /\ LateCall(cur[t]) THEN count.accepts ELSE @]
      BY <2>2 DEF InitIO
    <3>2. count.accepts # 0
      <4>1. count.accepts \in Nat /\ count.late \in Nat /\ count.late < count.accepts
        BY <2>2, AcceptorIs DEF InitIO, Window
      <4> QED
        BY <4>1
    <3> QED
      BY <1>3, <3>1, <3>2 DEF CountOK
  <2> QED
    BY <2>1, <2>2 DEF InitID, InitFlag, InitRest, AcceptHold, Hold, log
<1>8. ASSUME NEW r \in Slots, r # cur[t]
      PROVE  sessionID'[r] = sessionID[r] /\ releaseFlag'[r] = releaseFlag[r]
  <2>1. sessionID \in [Slots -> Nat] /\ releaseFlag \in [Slots -> BOOLEAN]
    BY <1>3 DEF TypeOK, LifeType
  <2> QED
    BY <1>8, <2>1 DEF InitID, InitIO, InitFlag, InitRest, AcceptHold, Hold, AddIO, life
<1>9. ASSUME NEW r \in Slots, r # cur[t]
      PROVE  /\ socketVal'[r] = socketVal[r] /\ ioSocket'[r] = ioSocket[r]
             /\ sendQ'[r] = sendQ[r] /\ sending'[r] = sending[r]
  <2>1. CASE InitRest(t)
    BY <1>3, <1>9, <2>1 DEF InitRest, TypeOK, SendType, SockType
  <2>2. CASE InitID(t) \/ InitIO(t) \/ InitFlag(t) \/ AcceptHold(t)
    BY <2>2 DEF InitID, InitIO, InitFlag, AcceptHold, Hold, send, sock
  <2> QED
    BY <2>1, <2>2
<1>10. ~InitID(t) => UNCHANGED sessionID
  BY DEF InitIO, InitFlag, InitRest, AcceptHold, Hold, AddIO, life
<1> QED
  BY <1>2, <1>3, <1>5, <1>6, <1>7, <1>8, <1>9, <1>10 DEF Prepares

(* It opens nothing.                                                       *)
LEMMA PrepareOpen ==
  ASSUME Sound, NEW t \in Threads,
         InitID(t) \/ InitIO(t) \/ InitFlag(t) \/ InitRest(t) \/ AcceptHold(t)
  PROVE  /\ \A s \in Slots : Open(s)' => Open(s) /\ sessionID'[s] = sessionID[s]
         /\ \A s \in Slots : s # cur[t] => (Live(s)' <=> Live(s)) /\ (Open(s)' <=> Open(s))
         /\ \A s \in Slots, P \in SUBSET ReleasePoints : Owners(s, P)' = Owners(s, P)
         /\ Preparing /\ Preparing'
<1>1. Prepares(t) /\ (~InitID(t) => UNCHANGED sessionID)
  BY PrepareIs
<1>2. Preparing /\ Preparing' /\ t = Acceptor /\ Setup \cap ReleasePoints = {}
  BY <1>1 DEF Prepares, Preparing, Setup, Window, ReleasePoints
<1>3. \A s \in Slots, P \in SUBSET ReleasePoints : Owners(s, P)' = Owners(s, P)
  BY <1>1, <1>2 DEF Prepares, Settle, Owners
<1>4. ASSUME NEW s \in Slots, s # cur[t] PROVE Live(s)' <=> Live(s)
  <2>1. Owners(s, InitPoints)' = Owners(s, InitPoints)
    BY <1>1, <1>4 DEF Prepares, Settle, Owners
  <2> QED
    BY <1>1, <1>4, <2>1 DEF Prepares, Live
<1>5. {"rel_leave"} \subseteq ReleasePoints
  BY DEF ReleasePoints
<1>6. \A s \in Slots : s # cur[t] => (Open(s)' <=> Open(s))
  BY <1>1, <1>2, <1>3, <1>4, <1>5 DEF Open, Prepares
<1>7. ASSUME NEW s \in Slots, Open(s)' PROVE Open(s) /\ sessionID'[s] = sessionID[s]
  <2>1. CASE s # cur[t]
    BY <1>1, <1>6, <1>7, <2>1 DEF Prepares
  <2>2. CASE s = cur[t]
    <3>1. Owners(s, {"rel_leave"}) # {}
      BY <1>1, <1>2, <1>3, <1>5, <1>7, <2>2 DEF Open, Prepares
    <3>2. ~InitID(t)
      <4>1. Owners(s, ReleasePoints) # {}
        BY <1>5, <3>1 DEF Owners
      <4>2. InitID(t) => Owners(s, InitPoints) # {}
        BY <2>2 DEF InitID, Owners, InitPoints
      <4> QED
        BY <4>1, <4>2, OneOwner DEF Sound, Owned
    <3> QED
      BY <1>1, <3>1, <3>2 DEF Open
  <2> QED
    BY <2>1, <2>2
<1> QED
  BY <1>2, <1>3, <1>4, <1>6, <1>7

(* The same of an accept that finds an index.                              *)
LEMMA AcceptIs ==
  ASSUME Sound, NEW t \in Threads, NEW s \in Slots, Accept(t, s)
  PROVE  /\ t = Acceptor /\ Settle(t) /\ pc[t] = "idle" /\ pc'[t] = "init_id"
         /\ freeIdx[s] > 0 /\ cur'[t] = s /\ \A u \in Threads : u # t => cur'[u] = cur[u]
         /\ UNCHANGED <<sessionID, releaseFlag, send, sock, posted, id, msg, freed>>
         /\ opened' = opened \cup {count.accepts + 1}
         /\ count'.accepts = count.accepts + 1 /\ count'.late = count.late
         /\ count'.to = count.to /\ count'.msgs = count.msgs
<1>1. /\ t = Acceptor /\ pc[t] = "idle" /\ freeIdx[s] > 0
      /\ opened' = opened \cup {count.accepts + 1} /\ count' = [count EXCEPT !.accepts = @ + 1]
      /\ cur' = [cur EXCEPT ![t] = s] /\ Enter(t, "init_id", <<>>)
      /\ UNCHANGED <<sessionID, releaseFlag, send, sock, posted, id, msg, freed>>
  BY DEF Accept, life, events
<1>2. TypeOK /\ CountOK /\ cur \in [Threads -> Slots]
  BY DEF Sound, Typed, TypeOK, CallType
<1>3. Settle(t) /\ pc'[t] = "init_id"
  BY <1>1, <1>2, Frames, EnterIs DEF Points, InitPoints
<1> QED
  BY <1>1, <1>2, <1>3 DEF CountOK

(* It opens nothing either.                                                *)
LEMMA AcceptOpen ==
  ASSUME Sound, NEW t \in Threads, NEW s \in Slots, Accept(t, s)
  PROVE  /\ \A r \in Slots : Open(r)' <=> Open(r)
         /\ \A r \in Slots : Live(r)' <=> Live(r)
         /\ \A r \in Slots, P \in SUBSET ReleasePoints : Owners(r, P)' = Owners(r, P)
         /\ ~Live(s) /\ Owners(s, InitPoints) = {} /\ Owners(s, ReleasePoints) = {}
<1>1. /\ t = Acceptor /\ Settle(t) /\ pc[t] = "idle" /\ pc'[t] = "init_id"
      /\ freeIdx[s] > 0 /\ cur'[t] = s /\ \A u \in Threads : u # t => cur'[u] = cur[u]
      /\ UNCHANGED <<sessionID, releaseFlag>>
  BY AcceptIs
<1>2. ~Live(s) /\ Owners(s, InitPoints) = {} /\ Owners(s, ReleasePoints) = {}
  BY <1>1, OneOwner DEF Sound, Owned
<1>3. {"idle", "init_id"} \cap ReleasePoints = {} /\ "init_id" \in InitPoints
      /\ "idle" \notin InitPoints /\ "rel_leave" \in ReleasePoints /\ "idle" \notin Setup
  BY DEF ReleasePoints, InitPoints, Setup, Window
<1>4. \A r \in Slots, P \in SUBSET ReleasePoints : Owners(r, P)' = Owners(r, P)
  BY <1>1, <1>3 DEF Settle, Owners
<1>5. ~Live(s)'
  BY <1>1, <1>3 DEF Live, Owners
<1>6. ASSUME NEW r \in Slots, r # s PROVE Live(r)' <=> Live(r)
  <2>1. Owners(r, InitPoints)' = Owners(r, InitPoints)
    BY <1>1, <1>3, <1>6 DEF Owners, Settle
  <2> QED
    BY <1>1, <2>1 DEF Live
<1>7. \A r \in Slots : Live(r)' <=> Live(r)
  BY <1>2, <1>5, <1>6
<1>8. \A r \in Slots : Open(r)' <=> Open(r)
  BY <1>1, <1>2, <1>3, <1>4, <1>7 DEF Open
<1> QED
  BY <1>2, <1>4, <1>7, <1>8

(* The release of a session is the work of one thread.                     *)
LEMMA ReleaseIs ==
  ASSUME Sound, NEW t \in Threads, ReleaseLeave(t) \/ ReleaseClean(t) \/ ReleasePush(t)
  PROVE  /\ Settle(t) /\ pc[t] \in ReleasePoints /\ pc'[t] \in Points \ Setup /\ cur[t] \in Slots
         /\ pc'[t] = IF pc[t] = "rel_leave" THEN "rel_clean"
                     ELSE IF pc[t] = "rel_clean" THEN "rel_push" ELSE pc'[t]
         /\ pc[t] = "rel_push" => pc'[t] \notin ReleasePoints
         /\ UNCHANGED <<cur, id, msg, count, sessionID, releaseFlag, sock, sending>>
         /\ ~Live(cur[t]) /\ Owners(cur[t], InitPoints) = {} /\ releaseFlag[cur[t]]
         /\ \A u \in Threads : cur[u] = cur[t] /\ pc[u] \in ReleasePoints => u = t
         /\ \A s \in Slots : Live(s)' <=> Live(s)
         /\ \A s \in Slots, P \in SUBSET ReleasePoints : s # cur[t] => Owners(s, P)' = Owners(s, P)
         /\ \A s \in Slots : s # cur[t] => (Open(s)' <=> Open(s))
         /\ \A s \in Slots : s = cur[t] => ~Open(s)'
         /\ Preparing' <=> Preparing
<1>1. Typed /\ Owned /\ Acceptor \in Threads /\ cur[t] \in Slots /\ Calls(t)
  BY DEF Sound, Typed, TypeOK, CallType, Threads, Calls
<1>2. pc[t] \in ReleasePoints /\ pc'[t] \in Points \ Setup /\ pc[t] \notin Setup
  BY <1>1, CallPoints DEF ReleaseLeave, ReleaseClean, CleanUp, ReleasePush, ReleasePoints
<1>3. Settle(t)
  BY <1>1, LeaveMoves, CleanMoves, PushTyped DEF Moves
<1>4. UNCHANGED <<cur, id, msg, count, sessionID, releaseFlag, sock, sending>>
  BY DEF ReleaseLeave, ReleaseClean, CleanUp, ReleasePush, call, life, log, send
<1>5. /\ pc'[t] = IF pc[t] = "rel_leave" THEN "rel_clean"
                  ELSE IF pc[t] = "rel_clean" THEN "rel_push" ELSE pc'[t]
      /\ pc[t] = "rel_push" => pc'[t] \notin ReleasePoints
  <2>1. pc \in [Threads -> Points]
    BY <1>1 DEF Typed, TypeOK, ControlType
  <2>2. pc[t] = "rel_push" => ReleasePush(t)
    BY DEF ReleaseLeave, ReleaseClean, CleanUp
  <2> QED
    BY <1>1, <2>1, <2>2, PushTyped DEF ReleaseLeave, ReleaseClean, CleanUp, ReleasePush, Goto
<1>6. ~Live(cur[t]) /\ Owners(cur[t], InitPoints) = {} /\ Cardinality(Owners(cur[t], ReleasePoints)) = 1
  <2>1. Owners(cur[t], ReleasePoints) # {}
    BY <1>2 DEF Owners
  <2> QED
    BY <1>1, <2>1, OneOwner DEF Owned
<1>7. releaseFlag[cur[t]]
  <2>1. Touched(cur[t])
    BY <1>1, <1>2 DEF Touched, Busy, InitPoints, ReleasePoints
  <2> QED
    BY <1>1, <1>6, <2>1 DEF Owned, Settled
<1>8. ASSUME NEW u \in Threads, cur[u] = cur[t], pc[u] \in ReleasePoints PROVE u = t
  <2>1. IsFiniteSet(Owners(cur[t], ReleasePoints))
    BY ThreadsFinite, FS_Subset DEF Owners
  <2>2. PICK x : Owners(cur[t], ReleasePoints) = {x}
    BY <1>6, <2>1, FS_Singleton
  <2> QED
    BY <1>2, <1>8, <2>2 DEF Owners
<1>9. InitPoints \subseteq Setup /\ "rel_leave" \in ReleasePoints /\ {"rel_leave"} \subseteq ReleasePoints
  BY DEF InitPoints, Setup, Window, ReleasePoints
<1>10. \A s \in Slots : Live(s)' <=> Live(s)
  <2>1. \A s \in Slots : Owners(s, InitPoints)' = Owners(s, InitPoints)
    BY <1>2, <1>3, <1>4, <1>9 DEF Owners, Settle
  <2> QED
    BY <1>4, <2>1 DEF Live
<1>11. \A s \in Slots, P \in SUBSET ReleasePoints : s # cur[t] => Owners(s, P)' = Owners(s, P)
  BY <1>3, <1>4 DEF Owners, Settle
<1>12. Preparing' <=> Preparing
  BY <1>1, <1>2, <1>3 DEF Preparing, Settle, Setup
<1>13. \A s \in Slots : s # cur[t] => (Open(s)' <=> Open(s))
  <2>1. pc'[Acceptor] \in Setup <=> pc[Acceptor] \in Setup
    BY <1>1, <1>2, <1>3 DEF Settle
  <2> QED
    BY <1>4, <1>9, <1>10, <1>11, <2>1 DEF Open
<1>14. ASSUME NEW s \in Slots, s = cur[t] PROVE ~Open(s)'
  <2>1. pc'[t] # "rel_leave"
    BY <1>2, <1>5, <1>9 DEF ReleasePoints
  <2>2. Owners(s, {"rel_leave"})' = {}
    BY <1>3, <1>4, <1>8, <1>9, <1>14, <2>1 DEF Owners, Settle
  <2> QED
    BY <1>6, <1>10, <1>14, <2>2 DEF Open
<1> QED
  BY <1>1, <1>2, <1>3, <1>4, <1>5, <1>6, <1>7, <1>8, <1>10, <1>11, <1>12, <1>13, <1>14

(* OnClientLeave is the last callback of a session.                        *)
LEMMA LeaveTold ==
  ASSUME Sound, Told, NEW t \in Threads, ReleaseLeave(t)
  PROVE  Told'
<1> SUFFICES ASSUME count'.late = 0 PROVE Early' /\ Heard' /\ CallbacksInOrder'
  BY DEF Told
<1>1. /\ Settle(t) /\ cur[t] \in Slots /\ UNCHANGED <<cur, count, sessionID, releaseFlag>>
      /\ \A s \in Slots : s # cur[t] => (Open(s)' <=> Open(s))
      /\ \A s \in Slots : s = cur[t] => ~Open(s)'
      /\ Preparing' <=> Preparing
  BY ReleaseIs
<1>2. Early /\ Heard /\ CallbacksInOrder /\ Typed /\ TypeOK /\ Numbers /\ CountOK
  BY <1>1 DEF Told, Sound, Typed, Counted
<1>3. PICK s \in Slots, n \in Nat : s = cur[t] /\ n = sessionID[s]
  BY <1>1, <1>2 DEF TypeOK, LifeType
<1>4. pc[t] = "rel_leave" /\ posted' = Append(posted, [kind |-> "leave", slot |-> s, conn |-> n])
  BY <1>3 DEF ReleaseLeave, Post
<1>5. Open(s)
  BY <1>3, <1>4 DEF Open, Owners
<1>6. Has("join", s, n) /\ ~Has("leave", s, n)
  BY <1>2, <1>3, <1>5 DEF Heard
<1>7. CallbacksInOrder'
  BY <1>2, <1>4, <1>6, CallbackAdded
<1>8. PICK e \in Callbacks : e = [kind |-> "leave", slot |-> s, conn |-> n]
  BY DEF Callbacks
<1>9. e.kind = "leave" /\ e.slot = s /\ e.conn = n /\ posted' = Append(posted, e)
  BY <1>4, <1>8
<1>10. PICK z \in Nat :
        /\ DOMAIN posted = 1 .. z /\ DOMAIN posted' = 1 .. z + 1 /\ posted'[z + 1] = e
        /\ \A i \in 1 .. z : posted'[i] = posted[i] /\ posted[i] \in Callbacks
  BY <1>2, <1>9, OneMore
<1>11. \A i \in 1 .. z + 1 : i \in 1 .. z \/ i = z + 1
  BY <1>10
<1>12. n <= count.accepts /\ (Preparing => n < count.accepts)
  <2>1. PICK i \in DOMAIN posted : posted[i] = [kind |-> "join", slot |-> s, conn |-> n]
    BY <1>6 DEF Has
  <2>2. posted[i].conn = n
    BY <2>1
  <2> QED
    BY <1>2, <2>2 DEF Early
<1>13. Early'
  BY <1>1, <1>2, <1>9, <1>10, <1>11, <1>12 DEF Early
<1>14. Heard'
  <2>1. ASSUME NEW r \in Slots, Open(r)'
        PROVE  Has("join", r, sessionID[r])' /\ ~Has("leave", r, sessionID[r])'
    <3>1. r # s /\ Open(r)
      BY <1>1, <1>3, <2>1
    <3>2. Has("join", r, sessionID[r]) /\ ~Has("leave", r, sessionID[r])
      BY <1>2, <3>1 DEF Heard
    <3>3. e # [kind |-> "leave", slot |-> r, conn |-> sessionID[r]]
      BY <1>9, <3>1
    <3>4. \A i \in 1 .. z : i \in 1 .. z + 1
      BY <1>10
    <3> QED
      BY <1>1, <1>10, <1>11, <3>2, <3>3, <3>4 DEF Has
  <2> QED
    BY <2>1 DEF Heard
<1> QED
  BY <1>7, <1>13, <1>14

(* OnClientJoin is the first.                                              *)
LEMMA JoinTold ==
  ASSUME Sound, Told, NEW t \in Threads, AcceptJoin(t)
  PROVE  Told'
<1> SUFFICES ASSUME count'.late = 0 PROVE Early' /\ Heard' /\ CallbacksInOrder'
  BY DEF Told
<1>1. /\ pc[t] = "acc_join" /\ Post("join", t, sessionID[cur[t]])
      /\ Enter(t, "rp_discon", <<"dec">>)
      /\ UNCHANGED <<sessionID, releaseFlag, cur, count>>
  BY DEF AcceptJoin, life, call
<1>2. /\ t = Acceptor /\ cur[t] \in Slots /\ Typed /\ TypeOK /\ Preparing
      /\ sessionID[cur[t]] = count.accepts /\ count.accepts \in Nat
  BY <1>1, AcceptorIs DEF Window
<1>3. Early /\ Heard /\ CallbacksInOrder
  BY <1>1 DEF Told
<1>4. Settle(t) /\ pc'[t] = "rp_discon"
  BY <1>1, <1>2, Frames, EnterIs DEF Points, OtherPoints
<1>5. ~Preparing'
  BY <1>2, <1>4 DEF Preparing, Window
<1>6. PICK s \in Slots, n \in Nat : s = cur[t] /\ n = sessionID[s] /\ n = count.accepts
  BY <1>2
<1>7. posted' = Append(posted, [kind |-> "join", slot |-> s, conn |-> n])
  BY <1>1, <1>6 DEF Post
<1>8. ASSUME NEW k PROVE ~Has(k, s, n)
  <2> SUFFICES ASSUME NEW i \in DOMAIN posted, posted[i] = [kind |-> k, slot |-> s, conn |-> n]
               PROVE  FALSE
    BY DEF Has
  <2>1. posted[i].conn = n /\ posted[i].conn < count.accepts
    BY <1>2, <1>3 DEF Early
  <2> QED
    BY <1>6, <2>1
<1>9. CallbacksInOrder'
  BY <1>2, <1>3, <1>7, <1>8, CallbackAdded
<1>10. PICK e \in Callbacks : e = [kind |-> "join", slot |-> s, conn |-> n]
  BY DEF Callbacks
<1>11. e.kind = "join" /\ e.slot = s /\ e.conn = n /\ posted' = Append(posted, e)
  BY <1>7, <1>10
<1>12. PICK z \in Nat :
        /\ DOMAIN posted = 1 .. z /\ DOMAIN posted' = 1 .. z + 1 /\ posted'[z + 1] = e
        /\ \A i \in 1 .. z : posted'[i] = posted[i] /\ posted[i] \in Callbacks
  BY <1>2, <1>11, OneMore
<1>13. (\A i \in 1 .. z + 1 : i \in 1 .. z \/ i = z + 1) /\ (\A i \in 1 .. z : i \in 1 .. z + 1)
       /\ z + 1 \in 1 .. z + 1 /\ n <= n
  BY <1>12
<1>14. Early'
  BY <1>1, <1>3, <1>5, <1>6, <1>11, <1>12, <1>13 DEF Early
<1>15. ASSUME NEW r \in Slots, Open(r)'
       PROVE  Has("join", r, sessionID[r])' /\ ~Has("leave", r, sessionID[r])'
  <2>1. CASE r = s
    <3>1. Has("join", s, n)'
      BY <1>10, <1>12, <1>13 DEF Has
    <3>2. ~Has("leave", s, n)'
      <4>1. e # [kind |-> "leave", slot |-> s, conn |-> n]
        BY <1>11
      <4> QED
        BY <1>8, <1>12, <1>13, <4>1 DEF Has
    <3>3. sessionID'[r] = n
      BY <1>1, <1>6, <2>1
    <3> QED
      BY <2>1, <3>1, <3>2, <3>3 DEF Has
  <2>2. CASE r # s
    <3>1. Open(r)
      <4>1. {"acc_join", "rp_discon"} \cap InitPoints = {} /\ "acc_join" # "rel_leave"
            /\ "rp_discon" # "rel_leave"
        BY DEF InitPoints
      <4>2. Owners(r, InitPoints)' = Owners(r, InitPoints)
            /\ Owners(r, {"rel_leave"})' = Owners(r, {"rel_leave"})
        BY <1>1, <1>4, <4>1 DEF Owners, Settle
      <4> QED
        BY <1>1, <1>2, <1>6, <1>15, <2>2, <4>2 DEF Open, Live
    <3>2. Has("join", r, sessionID[r]) /\ ~Has("leave", r, sessionID[r])
      BY <1>3, <3>1 DEF Heard
    <3>3. e # [kind |-> "leave", slot |-> r, conn |-> sessionID[r]]
      BY <1>11
    <3> QED
      BY <1>1, <1>12, <1>13, <3>2, <3>3 DEF Has
  <2> QED
    BY <2>1, <2>2
<1> QED
  BY <1>9, <1>14, <1>15 DEF Heard

(* OnRecv comes between them: a completion of a receive keeps its session. *)
LEMMA WorkTold ==
  ASSUME Sound, Told, NEW t \in Threads, Working(t)
  PROVE  Told'
<1>1. /\ Plain(t) /\ Head(cq).slot \in Slots /\ Head(cq).slot \in SlotsOf(cq)
      /\ Typed /\ TypeOK /\ CountOK
      /\ \/ UNCHANGED posted
         \/ posted' = Append(posted, [kind |-> "recv", slot |-> Head(cq).slot,
                                      conn |-> sessionID[Head(cq).slot]])
  BY WorkPlain DEF Sound, Typed
<1>2. \A s \in Slots : (Open(s)' <=> Open(s)) /\ sessionID'[s] = sessionID[s]
  BY <1>1, PlainOpen DEF Plain
<1>3. Preparing' <=> Preparing
  BY <1>1, PlainOpen
<1>4. CASE UNCHANGED posted
  BY <1>1, <1>2, <1>3, <1>4, ToldKept DEF Plain
<1>5. CASE ~UNCHANGED posted
  <2> SUFFICES ASSUME count'.late = 0 PROVE Early' /\ Heard' /\ CallbacksInOrder'
    BY DEF Told
  <2>1. count.late = 0 /\ count'.accepts = count.accepts /\ Early /\ Heard /\ CallbacksInOrder
    BY <1>1 DEF Plain, Told
  <2>2. PICK s \in Slots, n \in Nat : s = Head(cq).slot /\ n = sessionID[s]
    BY <1>1 DEF TypeOK, LifeType
  <2>3. posted' = Append(posted, [kind |-> "recv", slot |-> s, conn |-> n])
    BY <1>1, <1>5, <2>2
  <2>4. Open(s)
    <3>1. Net(s) # 0
      BY <1>1, <2>2, NetZero DEF SlotsOf
    <3>2. Net(s) \in Nat
      BY <1>1, NetsType DEF Nets
    <3>3. Net(s) > 0
      BY <3>1, <3>2
    <3> QED
      BY <2>1, <3>3, UsedOpen
  <2>5. Has("join", s, n) /\ ~Has("leave", s, n)
    BY <2>1, <2>2, <2>4 DEF Heard
  <2>6. CallbacksInOrder'
    BY <1>1, <2>1, <2>3, <2>5, CallbackAdded
  <2>7. PICK e \in Callbacks : e = [kind |-> "recv", slot |-> s, conn |-> n]
    BY DEF Callbacks
  <2>8. e.kind = "recv" /\ e.slot = s /\ e.conn = n /\ posted' = Append(posted, e)
    BY <2>3, <2>7
  <2>9. PICK z \in Nat :
          /\ DOMAIN posted = 1 .. z /\ DOMAIN posted' = 1 .. z + 1 /\ posted'[z + 1] = e
          /\ \A i \in 1 .. z : posted'[i] = posted[i] /\ posted[i] \in Callbacks
    BY <1>1, <2>8, OneMore
  <2>10. (\A i \in 1 .. z + 1 : i \in 1 .. z \/ i = z + 1) /\ (\A i \in 1 .. z : i \in 1 .. z + 1)
    BY <2>9
  <2>11. n <= count.accepts /\ (Preparing => n < count.accepts)
    <3>1. PICK i \in DOMAIN posted : posted[i] = [kind |-> "join", slot |-> s, conn |-> n]
      BY <2>5 DEF Has
    <3>2. posted[i].conn = n
      BY <3>1
    <3> QED
      BY <2>1, <3>2 DEF Early
  <2>12. Early'
    BY <1>3, <2>1, <2>8, <2>9, <2>10, <2>11 DEF Early
  <2>13. \A k, r, c : k # "recv" => (Has(k, r, c)' <=> Has(k, r, c))
    <3>1. \A k, r, c : k # "recv" => e # [kind |-> k, slot |-> r, conn |-> c]
      BY <2>8
    <3> QED
      BY <2>9, <2>10, <3>1 DEF Has
  <2>14. ASSUME NEW r \in Slots, Open(r)'
         PROVE  Has("join", r, sessionID[r])' /\ ~Has("leave", r, sessionID[r])'
    <3>1. PICK c \in Nat : c = sessionID[r]
      BY <1>1 DEF TypeOK, LifeType
    <3>2. Has("join", r, c) /\ ~Has("leave", r, c) /\ sessionID'[r] = c
      BY <1>2, <2>1, <2>14, <3>1 DEF Heard
    <3>3. Has("join", r, c)' /\ ~Has("leave", r, c)'
      BY <2>13, <3>2
    <3> QED
      BY <3>2, <3>3 DEF Has
  <2> QED
    BY <2>6, <2>12, <2>14 DEF Heard
<1> QED
  BY <1>4, <1>5

(* Every step keeps the callbacks in order.                                *)
LEMMA StepTold == Sound /\ Told /\ [Next]_vars => Told'
<1> SUFFICES ASSUME Sound, Told, [Next]_vars PROVE Told'
  OBVIOUS
<1>1. Typed /\ CountOK
  BY DEF Sound, Typed
<1>2. ASSUME NEW t \in Threads, Calls(t) PROVE Told'
  <2>1. CASE Commits(t)
    <3>1. /\ cur[t] \in Slots /\ pc[t] = "rel_cas" /\ pc'[t] = "rel_leave" /\ Settle(t)
          /\ releaseFlag' = [releaseFlag EXCEPT ![cur[t]] = TRUE] /\ releaseFlag \in [Slots -> BOOLEAN]
          /\ UNCHANGED <<sessionID, cur, count, posted>> /\ Live(cur[t])
          /\ OnTime(cur[t]) => ~(cur[Acceptor] = cur[t] /\ pc[Acceptor] \in Setup)
          /\ Preparing' <=> Preparing
      BY <1>2, <2>1, CommitOpen
    <3>2. ASSUME NEW s \in Slots, Open(s)', count.late = 0 PROVE Open(s)
      <4>1. CASE s = cur[t]
        BY <3>1, <3>2, <4>1 DEF Open, OnTime
      <4>2. CASE s # cur[t]
        <5>1. /\ Owners(s, {"rel_leave"})' = Owners(s, {"rel_leave"})
              /\ Owners(s, InitPoints)' = Owners(s, InitPoints)
          BY <3>1, <4>2 DEF Owners, Settle
        <5>2. Acceptor \in Threads /\ {"rel_cas", "rel_leave"} \cap Setup = {}
          BY DEF Threads, Setup, Window
        <5>3. pc'[Acceptor] \in Setup <=> pc[Acceptor] \in Setup
          BY <3>1, <5>2 DEF Settle
        <5> QED
          BY <3>1, <3>2, <4>2, <5>1, <5>3 DEF Open, Live
      <4> QED
        BY <4>1, <4>2
    <3>3. CASE count.late = 0
      BY <3>1, <3>2, <3>3, ToldKept
    <3>4. CASE count.late # 0
      BY <3>1, <3>4 DEF Told
    <3> QED
      BY <3>3, <3>4
  <2>2. CASE ReleaseLeave(t)
    BY <2>2, LeaveTold
  <2>3. CASE ReleaseClean(t) \/ ReleasePush(t)
    <3>1. /\ UNCHANGED <<cur, count, sessionID>>
          /\ \A s \in Slots : s # cur[t] => (Open(s)' <=> Open(s))
          /\ \A s \in Slots : s = cur[t] => ~Open(s)'
          /\ Preparing' <=> Preparing
      BY <2>3, ReleaseIs
    <3>2. UNCHANGED posted
      BY <2>3 DEF ReleaseClean, CleanUp, ReleasePush, log, events
    <3> QED
      BY <3>1, <3>2, ToldKept
  <2>4. CASE ~Commits(t) /\ ~ReleaseLeave(t) /\ ~ReleaseClean(t) /\ ~ReleasePush(t)
    <3>1. Plain(t) /\ UNCHANGED <<posted, count>>
      BY <1>1, <1>2, <2>4, CallsPlain
    <3>2. (\A s \in Slots : Open(s)' <=> Open(s)) /\ (Preparing' <=> Preparing) /\ UNCHANGED sessionID
      BY <1>1, <3>1, PlainOpen DEF Plain
    <3> QED
      BY <3>1, <3>2, ToldKept
  <2> QED
    BY <2>1, <2>2, <2>3, <2>4
<1>3. ASSUME NEW t \in Threads, Accepting(t) PROVE Told'
  <2>1. CASE AcceptJoin(t)
    BY <2>1, JoinTold
  <2>2. CASE InitID(t) \/ InitIO(t) \/ InitFlag(t) \/ InitRest(t) \/ AcceptHold(t)
    <3>1. /\ \A s \in Slots : Open(s)' => Open(s) /\ sessionID'[s] = sessionID[s]
          /\ Preparing /\ Preparing'
      BY <2>2, PrepareOpen
    <3>2. UNCHANGED posted /\ count'.accepts = count.accepts /\ (count'.late = 0 => count.late = 0)
      BY <2>2, PrepareIs DEF Prepares
    <3> QED
      BY <3>1, <3>2, ToldKept
  <2> QED
    BY <1>3, <2>1, <2>2 DEF Accepting
<1>4. ASSUME NEW t \in Threads, Working(t) PROVE Told'
  BY <1>4, WorkTold
<1>5. ASSUME NEW t \in Threads, NEW s \in Slots, Accept(t, s) PROVE Told'
  <2>1. /\ \A r \in Slots : Open(r)' <=> Open(r)
        /\ UNCHANGED <<sessionID, posted>>
        /\ count'.accepts = count.accepts + 1 /\ count'.late = count.late
    BY <1>5, AcceptOpen, AcceptIs
  <2> QED
    BY <2>1, ToldKept
<1>6. ASSUME NEW t \in Threads, NEW k \in Known,
             SendPacket(t, k.slot, k.conn) \/ Disconnect(t, k.slot, k.conn)
      PROVE  Told'
  <2>1. /\ UNCHANGED <<posted, sessionID, releaseFlag>> /\ (Plain(t) \/ UNCHANGED <<pc, cur>>)
        /\ count'.accepts = count.accepts /\ count'.late = count.late
    BY <1>1, <1>6, ContentPlain
  <2>2. (\A s \in Slots : Open(s)' <=> Open(s)) /\ (Preparing' <=> Preparing)
    BY <1>1, <2>1, PlainOpen, StaysOpen DEF Preparing
  <2> QED
    BY <2>1, <2>2, ToldKept
<1>7. CASE \/ \E s \in Slots : Kernel(s) \/ PeerSends(s)
           \/ \E n \in Conns : PeerLeaves(n)
           \/ \E t \in Threads : AcceptBlocked(t)
           \/ TakeEvent
           \/ UNCHANGED vars
  <2>1. Stays
    BY <1>1, <1>7, WorldStays
  <2>2. (\A s \in Slots : Open(s)' <=> Open(s)) /\ (Preparing' <=> Preparing)
    BY <2>1, StaysOpen DEF Stays, Preparing
  <2> QED
    BY <2>1, <2>2, ToldKept DEF Stays
<1> QED
  BY <1>2, <1>3, <1>4, <1>5, <1>6, <1>7 DEF Next

(* At the start nobody has been told of anything.                          *)
LEMMA InitTold == Init => Told
<1> SUFFICES ASSUME Init PROVE Early /\ Heard /\ CallbacksInOrder
  BY DEF Told
<1>1. posted = <<>> /\ DOMAIN posted = {}
  BY DEF Init
<1>2. \A s \in Slots : ~Open(s)
  <2>1. \A t \in Threads : pc[t] = "idle"
    BY DEF Init
  <2> QED
    BY <2>1 DEF Init, Open, Live, Owners
<1> QED
  BY <1>1, <1>2 DEF Early, Heard, CallbacksInOrder

(* Until a late call has met an Initailize, the content hears of every     *)
(* connection in order, whatever the reuse of its index does: OnClientJoin,*)
(* OnRecv, and OnClientLeave once; and a released session is at rest.      *)
THEOREM ReuseOrdered == Spec => []ReuseUnlessLate
<1>1. Init => Told
  BY InitTold
<1>2. Told /\ ReleasedQuiet => ReuseUnlessLate
  BY DEF Told, ReuseUnlessLate
<1> QED
  BY <1>1, <1>2, StepTold, SoundInvariant, ReleasedAtRest, PTL DEF Spec

-----------------------------------------------------------------------------
(* The sockets.  The accept thread has not yet stored that of the new      *)
(* connection; a session that is held has its socket open, and a session   *)
(* that is shut has been through closesocket.                              *)
Unset   == InitPoints \cup {"init_rest"}
Closers == {"rel_leave", "rel_clean"}
Held(s) == Live(s) \/ Owners(s, Closers) # {}
Shut(s) == releaseFlag[s] /\ Owners(s, Closers \cup InitPoints) = {}

Unused ==
  /\ \A s \in Slots : socketVal[s] <= count.accepts
  /\ pc[Acceptor] \in Unset => count.accepts > 0 /\ \A s \in Slots : socketVal[s] < count.accepts
  /\ pc[Acceptor] = "init_id" => \A s \in Slots : sessionID[s] < count.accepts
Stored ==
  \A s \in Slots :
    /\ ioSocket[s] \in {0, socketVal[s]}
    /\ socketVal[s] = sessionID[s] \/ (cur[Acceptor] = s /\ pc[Acceptor] \in Unset)
Distinct ==
  \A r, s \in Slots : r # s =>
    /\ sessionID[s] # 0 => sessionID[r] # sessionID[s] /\ socketVal[r] # sessionID[s]
    /\ socketVal[s] # 0 => socketVal[r] # socketVal[s]
Opened ==
  /\ 0 \notin opened
  /\ pc[Acceptor] \in InitPoints => count.accepts \in opened
  /\ \A s \in Slots : Held(s) => sessionID[s] \in opened
Sockets == Unused /\ Stored /\ Distinct /\ Opened /\ SocketsClosed

(* The numbers that the sockets are compared by.                           *)
LEMMA SocketNumbers ==
  ASSUME Sound
  PROVE  /\ count.accepts \in Nat /\ count.late \in Nat /\ Acceptor \in Threads
         /\ \A s \in Slots : socketVal[s] \in Nat /\ sessionID[s] \in Nat /\ sessionID[s] <= count.accepts
         /\ cur[Acceptor] \in Slots
         /\ Unset \subseteq Setup /\ InitPoints \subseteq Unset /\ "init_id" \in InitPoints
         /\ Closers \subseteq ReleasePoints /\ Closers \cup InitPoints \subseteq Setup \cup ReleasePoints
BY DEF Sound, Typed, TypeOK, CountOK, LifeType, SockType, CallType, Counted, Numbers, Threads,
       Unset, Closers, InitPoints, Setup, Window, ReleasePoints

(* A step that neither opens nor closes one.                               *)
LEMMA SocketsKept ==
  ASSUME Sound, Sockets, UNCHANGED <<sessionID, socketVal, opened>>, count'.accepts = count.accepts,
         count'.late = count.late \/ (count.late = 0 /\ count'.late = count.accepts),
         \A s \in Slots : ioSocket'[s] = ioSocket[s] \/ (ioSocket'[s] = 0 /\ (OnTime(s) => ~Shut(s)')),
         pc'[Acceptor] \in Unset => pc[Acceptor] \in Unset,
         pc'[Acceptor] = "init_id" => pc[Acceptor] = "init_id",
         pc'[Acceptor] \in InitPoints => pc[Acceptor] \in InitPoints,
         pc[Acceptor] \in Unset => pc'[Acceptor] \in Unset /\ cur'[Acceptor] = cur[Acceptor],
         \A s \in Slots : Held(s)' => Held(s) \/ sessionID[s] \in opened,
         \A s \in Slots : Shut(s)' => Shut(s)
  PROVE  Sockets'
<1>1. Unused'
  BY DEF Sockets, Unused
<1>2. Stored'
  BY DEF Sockets, Stored
<1>3. Distinct'
  BY DEF Sockets, Distinct
<1>4. Opened'
  BY DEF Sockets, Opened
<1>5. ASSUME NEW s \in Slots, OnTime(s)', Shut(s)'
      PROVE  socketVal'[s] \in opened' <=> ioSocket'[s] = 0
  <2>1. OnTime(s)
    BY <1>5 DEF OnTime
  <2>2. ioSocket'[s] = ioSocket[s] /\ Shut(s)
    BY <1>5, <2>1
  <2> QED
    BY <2>1, <2>2 DEF Sockets, SocketsClosed, Shut, Closers
<1>6. SocketsClosed'
  BY <1>5 DEF SocketsClosed, Shut, Closers
<1> QED
  BY <1>1, <1>2, <1>3, <1>4, <1>6 DEF Sockets

(* A plain step, of which DisconnectSession's takes the socket of a session*)
(* that is in use.                                                         *)
LEMMA PlainSockets ==
  ASSUME Sound, Sockets, NEW t \in Threads, Plain(t),
         UNCHANGED ioSocket \/ DisconnectSocket(t)
  PROVE  Sockets'
<1>1. Typed /\ cur[t] \in Slots /\ ioSocket \in [Slots -> Nat] /\ Acceptor \in Threads
  BY DEF Sound, Typed, TypeOK, CallType, SockType, Threads
<1>2. /\ \A s \in Slots : Live(s)' <=> Live(s)
      /\ \A s \in Slots, P \in SUBSET (Setup \cup ReleasePoints) : Owners(s, P)' = Owners(s, P)
  BY <1>1, PlainOpen
<1>3. /\ \A s \in Slots : Owners(s, Closers)' = Owners(s, Closers)
      /\ \A s \in Slots : Owners(s, Closers \cup InitPoints)' = Owners(s, Closers \cup InitPoints)
  <2>1. Closers \in SUBSET (Setup \cup ReleasePoints)
        /\ Closers \cup InitPoints \in SUBSET (Setup \cup ReleasePoints)
    BY SocketNumbers
  <2> QED
    BY <1>2, <2>1
<1>4. \A s \in Slots : (Held(s)' <=> Held(s)) /\ (Shut(s)' <=> Shut(s))
  BY <1>2, <1>3 DEF Held, Shut, Plain
<1>5. ASSUME NEW s \in Slots
      PROVE  ioSocket'[s] = ioSocket[s] \/ (ioSocket'[s] = 0 /\ (OnTime(s) => ~Shut(s)'))
  <2>1. CASE DisconnectSocket(t) /\ s = cur[t]
    <3>1. pc[t] \in UsePoints /\ ioSocket'[s] = 0
      BY <1>1, <2>1 DEF DisconnectSocket, UsePoints, ClosePoints
    <3>2. OnTime(s) => ~releaseFlag[s]
      BY <2>1, <3>1, Occupied DEF InUse, Live
    <3> QED
      BY <1>4, <3>1, <3>2 DEF Shut
  <2>2. CASE ~(DisconnectSocket(t) /\ s = cur[t])
    BY <1>1, <2>2 DEF DisconnectSocket
  <2> QED
    BY <2>1, <2>2
<1>6. \/ pc'[Acceptor] = pc[Acceptor] /\ cur'[Acceptor] = cur[Acceptor]
      \/ pc'[Acceptor] \notin Setup /\ pc[Acceptor] \notin Setup
  BY <1>1 DEF Plain, Aside, Settle
<1>7. /\ pc'[Acceptor] \in Unset => pc[Acceptor] \in Unset
      /\ pc'[Acceptor] = "init_id" => pc[Acceptor] = "init_id"
      /\ pc'[Acceptor] \in InitPoints => pc[Acceptor] \in InitPoints
      /\ pc[Acceptor] \in Unset => pc'[Acceptor] \in Unset /\ cur'[Acceptor] = cur[Acceptor]
  BY <1>6, SocketNumbers
<1> QED
  BY <1>4, <1>5, <1>7, SocketsKept DEF Plain

(* The release begins, tells the content, and ends.                        *)
LEMMA ReleaseSockets ==
  ASSUME Sound, Sockets, NEW t \in Threads, Commits(t) \/ ReleaseLeave(t) \/ ReleasePush(t)
  PROVE  Sockets'
<1>1. /\ Settle(t) /\ cur[t] \in Slots /\ {pc[t], pc'[t]} \cap Setup = {}
      /\ UNCHANGED <<cur, count, sessionID, sock, opened>>
      /\ pc[t] \in Closers => pc'[t] \in Closers
      /\ pc'[t] \in Closers => pc[t] \in Closers \/ Live(cur[t])
      /\ \A s \in Slots : releaseFlag'[s] = releaseFlag[s] \/ (s = cur[t] /\ pc'[t] \in Closers)
      /\ \A s \in Slots : releaseFlag[s] => releaseFlag'[s]
  <2>1. CASE Commits(t)
    BY <2>1, CommitOpen DEF Closers, Setup, Window
  <2>2. CASE ReleaseLeave(t)
    <3>1. opened' = opened /\ pc[t] = "rel_leave"
      BY <2>2 DEF ReleaseLeave, net
    <3> QED
      BY <2>2, <3>1, ReleaseIs DEF Closers, Setup, Window
  <2>3. CASE ReleasePush(t)
    <3>1. opened' = opened /\ pc[t] = "rel_push"
      BY <2>3 DEF ReleasePush, net
    <3> QED
      BY <2>3, <3>1, ReleaseIs DEF Closers, Setup, Window, ReleasePoints
  <2> QED
    BY <2>1, <2>2, <2>3
<1>2. /\ InitPoints \subseteq Setup /\ Unset \subseteq Setup /\ "init_id" \in Setup
      /\ Acceptor \in Threads
  BY SocketNumbers DEF Setup
<1>3. ASSUME NEW s \in Slots
      PROVE  /\ Owners(s, InitPoints)' = Owners(s, InitPoints)
             /\ Owners(s, Closers) \subseteq Owners(s, Closers)'
             /\ Owners(s, Closers)' # {} => Held(s)
  BY <1>1, <1>2 DEF Owners, Settle, Held
<1>4. ASSUME NEW s \in Slots, Held(s)' PROVE Held(s)
  <2>1. Live(s)' => Live(s)
    BY <1>1, <1>3 DEF Live
  <2> QED
    BY <1>3, <1>4, <2>1 DEF Held
<1>5. ASSUME NEW s \in Slots, Shut(s)' PROVE Shut(s)
  <2>1. ~(s = cur[t] /\ pc'[t] \in Closers)
    BY <1>1, <1>5 DEF Shut, Owners
  <2>2. Owners(s, Closers \cup InitPoints)' = Owners(s, Closers)' \cup Owners(s, InitPoints)'
        /\ Owners(s, Closers \cup InitPoints) = Owners(s, Closers) \cup Owners(s, InitPoints)
    BY DEF Owners
  <2> QED
    BY <1>1, <1>3, <1>5, <2>1, <2>2 DEF Shut
<1>6. \/ pc'[Acceptor] = pc[Acceptor] /\ cur'[Acceptor] = cur[Acceptor]
      \/ pc'[Acceptor] \notin Setup /\ pc[Acceptor] \notin Setup
  BY <1>1, <1>2 DEF Settle
<1>7. /\ pc'[Acceptor] \in Unset => pc[Acceptor] \in Unset
      /\ pc'[Acceptor] = "init_id" => pc[Acceptor] = "init_id"
      /\ pc'[Acceptor] \in InitPoints => pc[Acceptor] \in InitPoints
      /\ pc[Acceptor] \in Unset => pc'[Acceptor] \in Unset /\ cur'[Acceptor] = cur[Acceptor]
  BY <1>2, <1>6
<1> QED
  BY <1>1, <1>4, <1>5, <1>7, SocketsKept DEF sock

(* closesocket closes the socket of this session and no other.             *)
LEMMA CleanSockets ==
  ASSUME Sound, Sockets, NEW t \in Threads, ReleaseClean(t)
  PROVE  Sockets'
<1>1. /\ Settle(t) /\ cur[t] \in Slots /\ pc[t] = "rel_clean" /\ pc'[t] = "rel_push"
      /\ UNCHANGED <<cur, count, sessionID, releaseFlag, sock>> /\ releaseFlag[cur[t]]
      /\ ~Live(cur[t]) /\ Owners(cur[t], InitPoints) = {}
      /\ \A u \in Threads : cur[u] = cur[t] /\ pc[u] \in ReleasePoints => u = t
      /\ \A s \in Slots : Live(s)' <=> Live(s)
      /\ \A s \in Slots, P \in SUBSET ReleasePoints : s # cur[t] => Owners(s, P)' = Owners(s, P)
  BY ReleaseIs DEF ReleaseClean, CleanUp
<1>2. opened' = opened \ {ioSocket[cur[t]]}
  BY DEF ReleaseClean, CleanUp
<1>3. PICK s \in Slots : s = cur[t]
  BY <1>1
<1>4. PICK k : k = ioSocket[s]
  OBVIOUS
<1>5. k \in {0, socketVal[s]} /\ opened' = opened \ {k}
  BY <1>2, <1>3, <1>4 DEF Sockets, Stored
<1>6. /\ Closers \subseteq ReleasePoints /\ InitPoints \subseteq Unset
      /\ "rel_clean" \notin Unset /\ "rel_push" \notin Unset /\ "rel_push" \notin Closers
      /\ Acceptor \in Threads
  BY SocketNumbers DEF Closers, Unset, InitPoints
<1>7. /\ pc'[Acceptor] \in Unset <=> pc[Acceptor] \in Unset
      /\ pc'[Acceptor] \in InitPoints <=> pc[Acceptor] \in InitPoints
      /\ pc'[Acceptor] = "init_id" <=> pc[Acceptor] = "init_id"
  BY <1>1, <1>6 DEF Settle, InitPoints
<1>8. Unused' /\ Stored' /\ Distinct'
  BY <1>1, <1>7 DEF Sockets, Unused, Stored, Distinct, sock
<1>9. \A r \in Slots : r # s => sessionID[r] = 0 \/ sessionID[r] # k \/ k = 0
  BY <1>5 DEF Sockets, Distinct
<1>10. Owners(s, Closers)' = {}
  BY <1>1, <1>3, <1>6, SMTT(30) DEF Owners, Settle
<1>11. \A r \in Slots : Held(r)' => Held(r) /\ r # s
  BY <1>1, <1>3, <1>6, <1>10 DEF Held
<1>12. Opened'
  <2>1. 0 \notin opened
    BY DEF Sockets, Opened
  <2>2. 0 \notin opened'
    BY <1>5, <2>1
  <2>3. ASSUME pc'[Acceptor] \in InitPoints PROVE count'.accepts \in opened'
    <3>1. pc[Acceptor] \in InitPoints /\ pc[Acceptor] \in Unset
      BY <1>6, <1>7, <2>3
    <3>2. count.accepts \in opened
      BY <3>1 DEF Sockets, Opened
    <3>3. socketVal[s] < count.accepts /\ socketVal[s] \in Nat /\ count.accepts \in Nat
      BY <3>1, SocketNumbers DEF Sockets, Unused
    <3>4. count.accepts # k
      BY <1>5, <3>3
    <3> QED
      BY <1>1, <1>5, <3>2, <3>4
  <2>4. ASSUME NEW r \in Slots, Held(r)' PROVE sessionID'[r] \in opened'
    <3>1. sessionID[r] \in opened /\ r # s
      BY <1>11, <2>4 DEF Sockets, Opened
    <3>2. sessionID[r] # k
      BY <1>9, <2>1, <3>1
    <3> QED
      BY <1>1, <1>5, <3>1, <3>2
  <2> QED
    BY <2>2, <2>3, <2>4 DEF Opened
<1>13. ASSUME NEW r \in Slots, OnTime(r)', Shut(r)'
       PROVE  socketVal'[r] \in opened' <=> ioSocket'[r] = 0
  <2>1. OnTime(r) /\ 0 \notin opened
    BY <1>1, <1>13 DEF OnTime, Sockets, Opened
  <2>2. CASE r = s
    <3>1. ~(cur[Acceptor] = s /\ pc[Acceptor] \in Unset)
      <4>1. (Balanced(s) /\ t # Acceptor) \/ pc[Acceptor] \notin Unset
        BY <1>1, <1>6, <2>1, <2>2 DEF Sound, Counted
      <4>2. cur[Acceptor] = s => pc[Acceptor] \notin InitPoints
        BY <1>1, <1>3, <1>6 DEF Owners
      <4>3. Balanced(s) /\ t # Acceptor /\ cur[Acceptor] = s => pc[Acceptor] \notin Window \ {"init_io"}
        BY <1>1, <1>3, NobodyPrepares
      <4> QED
        BY <4>1, <4>2, <4>3 DEF Unset, Window
    <3>2. socketVal[s] = sessionID[s]
      BY <3>1 DEF Sockets, Stored
    <3>3. socketVal[s] \in opened
      <4>1. Held(s)
        BY <1>1, <1>3 DEF Held, Owners, Closers
      <4> QED
        BY <3>2, <4>1 DEF Sockets, Opened
    <3> QED
      BY <1>1, <1>4, <1>5, <2>1, <2>2, <3>3 DEF sock
  <2>3. CASE r # s
    <3>1. Shut(r)
      <4>1. Owners(r, Closers)' = Owners(r, Closers)
        BY <1>1, <1>3, <1>6, <2>3
      <4>2. Owners(r, InitPoints)' = Owners(r, InitPoints)
        BY <1>1, <1>6 DEF Owners, Settle
      <4>3. /\ Owners(r, Closers \cup InitPoints)' = Owners(r, Closers)' \cup Owners(r, InitPoints)'
            /\ Owners(r, Closers \cup InitPoints) = Owners(r, Closers) \cup Owners(r, InitPoints)
        BY DEF Owners
      <4> QED
        BY <1>1, <1>13, <4>1, <4>2, <4>3 DEF Shut
    <3>2. socketVal[r] \in opened <=> ioSocket[r] = 0
      BY <2>1, <3>1 DEF Sockets, SocketsClosed, Shut, Closers
    <3>3. socketVal[r] # k \/ k = 0
      BY <1>5, <2>3 DEF Sockets, Distinct
    <3> QED
      BY <1>1, <1>5, <2>1, <3>2, <3>3 DEF sock
  <2> QED
    BY <2>2, <2>3
<1>14. SocketsClosed'
  BY <1>13 DEF SocketsClosed, Shut, Closers
<1> QED
  BY <1>8, <1>12, <1>14 DEF Sockets

(* The accept thread, but where it stores a number or a socket.            *)
LEMMA PrepareSockets ==
  ASSUME Sound, Sockets, NEW t \in Threads,
         InitIO(t) \/ InitFlag(t) \/ AcceptHold(t) \/ AcceptJoin(t)
  PROVE  Sockets'
<1>1. pc[t] \in {"init_io", "init_flag", "acc_hold", "acc_join"}
  BY DEF InitIO, InitFlag, AcceptHold, Hold, AcceptJoin
<1>2. /\ t = Acceptor /\ cur[t] \in Slots /\ Typed /\ TypeOK
      /\ sessionID[cur[t]] = count.accepts
  BY <1>1, AcceptorIs DEF Window, Typed
<1>3. /\ UNCHANGED <<cur, sessionID, sock, opened>> /\ count'.accepts = count.accepts
      /\ count'.late = count.late \/ (count.late = 0 /\ count'.late = count.accepts)
      /\ Settle(t)
  <2>1. CASE AcceptJoin(t)
    <3>1. UNCHANGED <<cur, sessionID, sock, opened, count>> /\ Enter(t, "rp_discon", <<"dec">>)
      BY <2>1 DEF AcceptJoin, call, life, net
    <3> QED
      BY <1>2, <3>1, Frames, EnterIs DEF Points, OtherPoints
  <2>2. CASE InitIO(t) \/ InitFlag(t) \/ AcceptHold(t)
    <3>1. UNCHANGED <<sessionID, sock>>
      BY <2>2 DEF InitIO, InitFlag, AcceptHold, Hold, AddIO
    <3> QED
      BY <2>2, <3>1, PrepareIs DEF Prepares
  <2> QED
    BY <2>1, <2>2
<1>4. /\ InitIO(t) => pc[t] = "init_io" /\ pc'[t] = "init_flag"
      /\ InitFlag(t) => pc[t] = "init_flag" /\ pc'[t] = "init_rest"
      /\ AcceptHold(t) => pc[t] = "acc_hold" /\ pc'[t] = "acc_join"
      /\ AcceptJoin(t) => pc[t] = "acc_join" /\ pc'[t] = "rp_discon"
  <2>1. pc \in [Threads -> Points]
    BY <1>2 DEF TypeOK, ControlType
  <2> QED
    BY <2>1 DEF InitIO, InitFlag, AcceptHold, Hold, AcceptJoin, Goto, Enter
<1>5. /\ pc'[Acceptor] \in Unset => pc[Acceptor] \in Unset
      /\ pc'[Acceptor] = "init_id" => pc[Acceptor] = "init_id"
      /\ pc'[Acceptor] \in InitPoints => pc[Acceptor] \in InitPoints
      /\ pc[Acceptor] \in Unset => pc'[Acceptor] \in Unset /\ cur'[Acceptor] = cur[Acceptor]
  BY <1>2, <1>3, <1>4 DEF Unset, InitPoints
<1>6. ASSUME NEW s \in Slots PROVE Owners(s, Closers)' = Owners(s, Closers)
  BY <1>2, <1>3, <1>4 DEF Owners, Settle, Closers
<1>7. ASSUME NEW s \in Slots, ~(InitFlag(t) /\ s = cur[t])
      PROVE  releaseFlag'[s] = releaseFlag[s] /\ Owners(s, InitPoints)' = Owners(s, InitPoints)
  <2>1. releaseFlag'[s] = releaseFlag[s]
    BY <1>2, <1>7 DEF InitIO, InitFlag, AcceptHold, Hold, AddIO, AcceptJoin, life, TypeOK, LifeType
  <2>2. Owners(s, InitPoints)' = Owners(s, InitPoints)
    BY <1>2, <1>3, <1>4, <1>7 DEF Owners, Settle, InitPoints
  <2> QED
    BY <2>1, <2>2
<1>8. \A s \in Slots :
        /\ Owners(s, Closers \cup InitPoints)' = Owners(s, Closers)' \cup Owners(s, InitPoints)'
        /\ Owners(s, Closers \cup InitPoints) = Owners(s, Closers) \cup Owners(s, InitPoints)
  BY DEF Owners
<1>9. ASSUME NEW s \in Slots, ~(InitFlag(t) /\ s = cur[t])
       PROVE  (Held(s)' <=> Held(s)) /\ (Shut(s)' <=> Shut(s))
  BY <1>3, <1>6, <1>7, <1>8, <1>9 DEF Held, Shut, Live
<1>10. ASSUME NEW s \in Slots, InitFlag(t), s = cur[t]
       PROVE  ~Shut(s)' /\ sessionID[s] \in opened
  <2>1. ~releaseFlag'[s]
    BY <1>2, <1>10 DEF InitFlag, TypeOK, LifeType
  <2>2. pc[Acceptor] \in InitPoints
    BY <1>2, <1>4, <1>10 DEF InitPoints
  <2>3. count.accepts \in opened
    BY <2>2 DEF Sockets, Opened
  <2> QED
    BY <1>2, <1>10, <2>1, <2>3 DEF Shut
<1>11. /\ \A s \in Slots : Held(s)' => Held(s) \/ sessionID[s] \in opened
       /\ \A s \in Slots : Shut(s)' => Shut(s)
  BY <1>9, <1>10
<1> QED
  BY <1>3, <1>5, <1>11, SocketsKept DEF sock

(* The new connection gets the next number, which no socket has.           *)
LEMMA InitIDSockets ==
  ASSUME Sound, Sockets, NEW t \in Threads, InitID(t)
  PROVE  Sockets'
<1>1. /\ pc[t] = "init_id" /\ sessionID' = [sessionID EXCEPT ![cur[t]] = count.accepts]
      /\ Goto(t, "init_io") /\ UNCHANGED <<releaseFlag, sock, cur, opened, count>>
  BY DEF InitID, call, net, log
<1>2. /\ t = Acceptor /\ cur[t] \in Slots /\ Typed /\ TypeOK
      /\ count.late < count.accepts
  BY <1>1, AcceptorIs DEF Typed
<1>3. Settle(t) /\ pc'[t] = "init_io"
  BY <1>1, <1>2, GotoIs DEF Points, InitPoints
<1>4. PICK s \in Slots, a \in Nat : s = cur[t] /\ a = count.accepts /\ a > 0
  BY <1>1, <1>2, SocketNumbers DEF Sockets, Unused, Unset, InitPoints
<1>5. sessionID'[s] = a /\ \A r \in Slots : r # s => sessionID'[r] = sessionID[r]
  BY <1>1, <1>2, <1>4 DEF TypeOK, LifeType
<1>6. {"init_id", "init_io"} \subseteq InitPoints \cap Unset
  BY DEF InitPoints, Unset
<1>7. \A r \in Slots : /\ socketVal[r] \in Nat /\ socketVal[r] < a /\ socketVal[r] <= a
                       /\ sessionID[r] \in Nat /\ sessionID[r] < a
  BY <1>1, <1>2, <1>4, <1>6, SocketNumbers DEF Sockets, Unused
<1>8. Unused'
  BY <1>1, <1>2, <1>3, <1>4, <1>7 DEF Unused, sock
<1>9. Stored'
  BY <1>1, <1>2, <1>3, <1>4, <1>5, <1>6 DEF Sockets, Stored, sock
<1>10. Distinct'
  <2>1. \A r \in Slots : sessionID[r] # a /\ socketVal[r] # a
    BY <1>4, <1>7
  <2> QED
    BY <1>1, <1>5, <2>1 DEF Sockets, Distinct, sock
<1>11. Owners(s, Closers)' = {} /\ s = cur[t] /\ Owners(s, InitPoints)' # {}
  <2>1. Owners(s, InitPoints) # {}
    BY <1>1, <1>4, <1>6 DEF Owners
  <2>2. Owners(s, ReleasePoints) = {}
    BY <2>1, OneOwner DEF Sound, Owned
  <2> QED
    BY <1>1, <1>3, <1>4, <1>6, <2>2, SocketNumbers DEF Owners, Settle, Closers
<1>12. ASSUME NEW r \in Slots, r # s
       PROVE  (Held(r)' <=> Held(r)) /\ (Shut(r)' <=> Shut(r))
  <2>1. \A P : Owners(r, P)' = Owners(r, P)
    BY <1>1, <1>3, <1>4, <1>12 DEF Owners, Settle
  <2>2. Owners(r, Closers)' = Owners(r, Closers) /\ Owners(r, InitPoints)' = Owners(r, InitPoints)
    BY <2>1
  <2>3. Owners(r, Closers \cup InitPoints)' = Owners(r, Closers \cup InitPoints)
    BY <2>1
  <2> QED
    BY <1>1, <1>5, <1>12, <2>2, <2>3 DEF Held, Shut, Live
<1>13. ~Held(s)' /\ ~Shut(s)'
  <2>1. Owners(s, InitPoints)' \subseteq Owners(s, Closers \cup InitPoints)'
    BY DEF Owners
  <2> QED
    BY <1>11, <2>1 DEF Held, Shut, Live
<1>14. Opened'
  <2>1. a \in opened /\ 0 \notin opened
    BY <1>1, <1>2, <1>4, <1>6 DEF Sockets, Opened
  <2> QED
    BY <1>1, <1>4, <1>5, <1>12, <1>13, <2>1 DEF Sockets, Opened
<1>15. ASSUME NEW r \in Slots, OnTime(r)', Shut(r)'
       PROVE  socketVal'[r] \in opened' <=> ioSocket'[r] = 0
  <2>1. r # s /\ OnTime(r) /\ Shut(r)
    BY <1>1, <1>5, <1>12, <1>13, <1>15 DEF OnTime
  <2> QED
    BY <1>1, <2>1 DEF Sockets, SocketsClosed, Shut, Closers, sock
<1>16. SocketsClosed'
  BY <1>15 DEF SocketsClosed, Shut, Closers
<1> QED
  BY <1>8, <1>9, <1>10, <1>14, <1>16 DEF Sockets

(* The rest of Initailize stores its socket.                               *)
LEMMA InitRestSockets ==
  ASSUME Sound, Sockets, NEW t \in Threads, InitRest(t)
  PROVE  Sockets'
<1>1. /\ pc[t] = "init_rest" /\ Goto(t, "acc_hold")
      /\ ioSocket' = [ioSocket EXCEPT ![cur[t]] = count.accepts]
      /\ socketVal' = [socketVal EXCEPT ![cur[t]] = count.accepts]
      /\ UNCHANGED <<sessionID, releaseFlag, cur, opened, count>>
  BY DEF InitRest, life, call, net, log
<1>2. /\ t = Acceptor /\ cur[t] \in Slots /\ Typed /\ TypeOK
      /\ sessionID[cur[t]] = count.accepts
  BY <1>1, AcceptorIs DEF Window, Typed
<1>3. Settle(t) /\ pc'[t] = "acc_hold"
  BY <1>1, <1>2, GotoIs DEF Points, OtherPoints
<1>4. "init_rest" \in Unset /\ "acc_hold" \notin Unset /\ "acc_hold" # "init_id"
      /\ {"init_rest", "acc_hold"} \cap (InitPoints \cup Closers) = {}
  BY DEF Unset, InitPoints, Closers
<1>5. PICK s \in Slots, a \in Nat : s = cur[t] /\ a = count.accepts /\ a > 0
  BY <1>1, <1>2, <1>4, SocketNumbers DEF Sockets, Unused
<1>6. /\ sessionID[s] = a /\ socketVal'[s] = a /\ ioSocket'[s] = a
      /\ \A r \in Slots : r # s => socketVal'[r] = socketVal[r] /\ ioSocket'[r] = ioSocket[r]
  BY <1>1, <1>2, <1>5 DEF TypeOK, SockType
<1>7. \A r \in Slots : socketVal[r] \in Nat /\ socketVal[r] < a /\ socketVal[r] <= a /\ a <= a
  BY <1>1, <1>2, <1>4, <1>5, SocketNumbers DEF Sockets, Unused
<1>8. Unused'
  <2>1. \A r \in Slots : socketVal'[r] <= a
    BY <1>6, <1>7
  <2> QED
    BY <1>1, <1>2, <1>3, <1>4, <1>5, <2>1, SocketNumbers DEF Unused
<1>9. Stored'
  BY <1>1, <1>2, <1>5, <1>6 DEF Sockets, Stored
<1>10. Distinct'
  <2>1. \A r \in Slots : socketVal[r] # a
    BY <1>7
  <2> QED
    BY <1>1, <1>5, <1>6, <2>1 DEF Sockets, Distinct
<1>11. ASSUME NEW r \in Slots PROVE (Held(r)' <=> Held(r)) /\ (Shut(r)' <=> Shut(r))
  <2>1. /\ Owners(r, Closers)' = Owners(r, Closers)
        /\ Owners(r, InitPoints)' = Owners(r, InitPoints)
        /\ Owners(r, Closers \cup InitPoints)' = Owners(r, Closers \cup InitPoints)
    BY <1>1, <1>3, <1>4 DEF Owners, Settle
  <2> QED
    BY <1>1, <2>1 DEF Held, Shut, Live
<1>12. Opened'
  BY <1>1, <1>2, <1>3, <1>4, <1>11 DEF Sockets, Opened
<1>13. ASSUME NEW r \in Slots, OnTime(r)', Shut(r)'
       PROVE  socketVal'[r] \in opened' <=> ioSocket'[r] = 0
  <2>1. OnTime(r) /\ Shut(r)
    BY <1>1, <1>11, <1>13 DEF OnTime
  <2>2. r # s
    <3>1. ASSUME r = s PROVE FALSE
      <4>1. Balanced(s)
        BY <2>1, <3>1 DEF Sound, Counted
      <4>2. AtRest(s)
        BY <2>1, <3>1, <4>1 DEF Balanced, Live, Shut
      <4>3. "init_rest" \in Leftover
        BY <1>1, <1>5, <4>2 DEF AtRest
      <4> QED
        BY <4>3 DEF Leftover, ReleasePoints, InitPoints
    <3> QED
      BY <3>1
  <2> QED
    BY <1>1, <1>6, <2>1, <2>2 DEF Sockets, SocketsClosed, Shut, Closers
<1>14. SocketsClosed'
  BY <1>13 DEF SocketsClosed, Shut, Closers
<1> QED
  BY <1>8, <1>9, <1>10, <1>12, <1>14 DEF Sockets

(* A connection is accepted: its socket is open, and nobody has it.        *)
LEMMA AcceptSockets ==
  ASSUME Sound, Sockets, NEW t \in Threads, NEW s \in Slots, Accept(t, s)
  PROVE  Sockets'
<1>1. /\ t = Acceptor /\ Settle(t) /\ pc[t] = "idle" /\ pc'[t] = "init_id"
      /\ cur'[t] = s /\ \A u \in Threads : u # t => cur'[u] = cur[u]
      /\ UNCHANGED <<sessionID, releaseFlag, socketVal, ioSocket>>
      /\ opened' = opened \cup {count.accepts + 1}
      /\ count'.accepts = count.accepts + 1 /\ count'.late = count.late
  BY AcceptIs DEF sock
<1>2. PICK a \in Nat : a = count.accepts
  BY SocketNumbers
<1>3. "idle" \notin Unset \cup InitPoints \cup Closers /\ "init_id" \in InitPoints
      /\ "init_id" \notin Closers /\ Closers \in SUBSET ReleasePoints
  BY SocketNumbers DEF Unset, InitPoints, Closers
<1>4. \A r \in Slots : /\ socketVal[r] \in Nat /\ socketVal[r] <= a /\ socketVal[r] < a + 1
                       /\ socketVal[r] <= a + 1
                       /\ sessionID[r] \in Nat /\ sessionID[r] <= a /\ sessionID[r] < a + 1
  <2>1. \A r \in Slots : /\ socketVal[r] \in Nat /\ socketVal[r] <= a
                         /\ sessionID[r] \in Nat /\ sessionID[r] <= a
    BY <1>2, SocketNumbers DEF Sockets, Unused
  <2> QED
    BY <2>1
<1>5. a + 1 > 0 /\ a + 1 # 0
  BY <1>2
<1>6. Unused'
  BY <1>1, <1>2, <1>4, <1>5 DEF Unused
<1>7. Stored'
  BY <1>1, <1>3 DEF Sockets, Stored
<1>8. Distinct'
  BY <1>1 DEF Sockets, Distinct
<1>9. \A r \in Slots : /\ Live(r)' <=> Live(r)
                       /\ Owners(r, Closers)' = Owners(r, Closers)
  BY <1>3, AcceptOpen
<1>10. \A r \in Slots : (Held(r)' <=> Held(r)) /\ (Shut(r)' => Shut(r))
  <2>1. \A r \in Slots : Owners(r, Closers \cup InitPoints) \subseteq Owners(r, Closers \cup InitPoints)'
    BY <1>1, <1>3 DEF Owners, Settle
  <2> QED
    BY <1>1, <1>9, <2>1 DEF Held, Shut
<1>11. Opened'
  BY <1>1, <1>2, <1>5, <1>10 DEF Sockets, Opened
<1>12. ASSUME NEW r \in Slots, OnTime(r)', Shut(r)'
       PROVE  socketVal'[r] \in opened' <=> ioSocket'[r] = 0
  <2>1. OnTime(r) /\ Shut(r)
    BY <1>1, <1>10, <1>12 DEF OnTime
  <2>2. socketVal[r] # a + 1
    BY <1>4
  <2> QED
    BY <1>1, <1>2, <2>1, <2>2 DEF Sockets, SocketsClosed, Shut, Closers
<1>13. SocketsClosed'
  BY <1>12 DEF SocketsClosed, Shut, Closers
<1> QED
  BY <1>6, <1>7, <1>8, <1>11, <1>13 DEF Sockets

(* Every step keeps what is known of the sockets.                          *)
LEMMA StepSockets == Sound /\ Sockets /\ [Next]_vars => Sockets'
<1> SUFFICES ASSUME Sound, Sockets, [Next]_vars PROVE Sockets'
  OBVIOUS
<1>1. Typed
  BY DEF Sound
<1>2. ASSUME NEW t \in Threads, Calls(t) PROVE Sockets'
  <2>1. CASE Commits(t) \/ ReleaseLeave(t) \/ ReleasePush(t)
    BY <2>1, ReleaseSockets
  <2>2. CASE ReleaseClean(t)
    BY <2>2, CleanSockets
  <2>3. CASE ~Commits(t) /\ ~ReleaseLeave(t) /\ ~ReleaseClean(t) /\ ~ReleasePush(t)
    <3>1. Plain(t)
      BY <1>1, <1>2, <2>3, CallsPlain
    <3>2. UNCHANGED ioSocket \/ DisconnectSocket(t)
      <4>1. CASE Dec(t) \/ ReleaseCommit(t) \/ UseInc(t) \/ UseUndo(t) \/ SendCheck(t) \/ SendEnqueue(t) \/ SendNotify(t)
        BY <4>1 DEF Dec, ReleaseCommit, ReleaseIf, UseInc, Increment, UseUndo, Undo, SendCheck, CheckID,
                    SendEnqueue, SendNotify, sock
      <4>2. CASE \/ DisconnectCheck(t) \/ DisconnectFlag(t) \/ DisconnectSocket(t)
                 \/ DisconnectMark(t) \/ DisconnectCancel(t)
        BY <4>2 DEF DisconnectCheck, DisconnectFlag, DisconnectMark, DisconnectCancel, sock
      <4>3. CASE RecvPost(t) \/ RecvInc(t) \/ RecvIssue(t) \/ RecvPended(t) \/ RecvFailed(t)
        BY <4>3 DEF RecvPost, RecvInc, CountRecv, RecvIssue, RecvPended, RecvFailed, sock
      <4>4. CASE \/ SendPost(t) \/ SendClaim(t) \/ SendSize(t) \/ SendClear(t) \/ SendInc(t)
                 \/ SendTake(t) \/ SendIssue(t) \/ SentFlag(t) \/ SentCheck(t)
        BY <4>4 DEF SendPost, SendClaim, Claim, SendSize, SendClear, SendInc, SendTake, SendIssue,
                    SentFlag, SentCheck, sock
      <4> QED
        BY <1>2, <2>3, <4>1, <4>2, <4>3, <4>4 DEF Calls
    <3> QED
      BY <3>1, <3>2, PlainSockets
  <2> QED
    BY <2>1, <2>2, <2>3
<1>3. ASSUME NEW t \in Threads, Accepting(t) PROVE Sockets'
  BY <1>3, PrepareSockets, InitIDSockets, InitRestSockets DEF Accepting
<1>4. ASSUME NEW t \in Threads, Working(t) PROVE Sockets'
  BY <1>1, <1>4, WorkPlain, PlainSockets
<1>5. ASSUME NEW t \in Threads, NEW s \in Slots, Accept(t, s) PROVE Sockets'
  BY <1>5, AcceptSockets
<1>6. ASSUME UNCHANGED <<pc, cur, sessionID, releaseFlag, ioSocket, socketVal, opened>>,
             count'.accepts = count.accepts, count'.late = count.late
      PROVE  Sockets'
  <2>1. \A s \in Slots : (Held(s)' <=> Held(s)) /\ (Shut(s)' <=> Shut(s))
    BY <1>6 DEF Held, Shut, Live, Owners
  <2> QED
    BY <1>6, <2>1, SocketsKept
<1>7. ASSUME NEW t \in Threads, NEW k \in Known,
             SendPacket(t, k.slot, k.conn) \/ Disconnect(t, k.slot, k.conn)
      PROVE  Sockets'
  <2>1. /\ UNCHANGED <<ioSocket, sessionID, releaseFlag, socketVal, opened>>
        /\ Plain(t) \/ UNCHANGED <<pc, cur>>
        /\ count'.accepts = count.accepts /\ count'.late = count.late
    BY <1>1, <1>7, ContentPlain
  <2> QED
    BY <1>6, <2>1, PlainSockets
<1>8. CASE \/ \E s \in Slots : Kernel(s) \/ PeerSends(s)
           \/ \E n \in Conns : PeerLeaves(n)
           \/ \E t \in Threads : AcceptBlocked(t)
           \/ TakeEvent
           \/ UNCHANGED vars
  BY <1>1, <1>6, <1>8, WorldStays DEF Stays, sock
<1> QED
  BY <1>2, <1>3, <1>4, <1>5, <1>7, <1>8 DEF Next

(* At the start no socket is accepted.                                     *)
LEMMA InitSockets == Init => Sockets
<1> SUFFICES ASSUME Init PROVE Sockets
  OBVIOUS
<1>1. /\ \A s \in Slots : socketVal[s] = 0 /\ sessionID[s] = 0 /\ ioSocket[s] = 0 /\ ~releaseFlag[s]
      /\ \A t \in Threads : pc[t] = "idle"
      /\ opened = {} /\ count.accepts = 0 /\ Acceptor \in Threads
  BY DEF Init, Threads
<1>2. "idle" \notin Unset \cup InitPoints \cup Closers
  BY DEF Unset, InitPoints, Closers
<1>3. Unused /\ Stored /\ Distinct
  BY <1>1, <1>2 DEF Unused, Stored, Distinct, InitPoints
<1>4. Opened
  BY <1>1, <1>2 DEF Opened, Held, Live, Owners
<1>5. SocketsClosed
  BY <1>1 DEF SocketsClosed
<1> QED
  BY <1>3, <1>4, <1>5 DEF Sockets

(* A released session has closed its own socket, whichever threads met at  *)
(* it, unless DisconnectSession took the socket out of IOSocket: then it   *)
(* stays open for good.                                                    *)
THEOREM ReleaseCloses == Spec => []SocketsClosed
<1>1. Sockets => SocketsClosed
  BY DEF Sockets
<1> QED
  BY <1>1, InitSockets, StepSockets, SoundInvariant, PTL DEF Spec

-----------------------------------------------------------------------------
(* The messages.  A slot is vacant after its send queue was cleaned and    *)
(* until OnClientJoin has been called for the next connection; a message   *)
(* of the content keeps the connection it was sent to.                     *)
Own(s)    == count.late = 0 \/ sessionID[s] <= count.late
Vacant(s) ==
  \/ cur[Acceptor] = s /\ pc[Acceptor] \in Window
  \/ count.late = 0 /\ ~Live(s) /\ Owners(s, Closers) = {}
Sending ==
  \/ pc[Content] \in {"snd_check", "snd_enqueue"}
  \/ pc[Content] \in Using /\ ret[Content] = <<"snd_check">>

Addressed ==
  /\ Len(count.to) = count.msgs
  /\ id[Content] <= count.accepts /\ (Preparing => id[Content] < count.accepts)
  /\ Sending => msg[Content] \in 1 .. count.msgs /\ count.to[msg[Content]] = id[Content]
  /\ pc[Content] = "snd_enqueue" =>
       \A s \in Slots : s = cur[Content] /\ Own(s) => sessionID[s] = id[Content]
For(q, n)  == \A i \in DOMAIN q : q[i] \in 1 .. count.msgs /\ count.to[q[i]] = n
Cleared(s) == Own(s) /\ Vacant(s) => sendQ[s] = <<>>
Meant(s) ==
  Live(s) /\ Own(s) =>
    /\ For(sendQ[s], sessionID[s])
    /\ For(sending[s], sessionID[s]) \/ (cur[Acceptor] = s /\ pc[Acceptor] = "init_rest")
Delivery == Addressed /\ \A s \in Slots : Cleared(s) /\ Meant(s)

(* A step that leaves the call of the content alone.                       *)
LEMMA AddressedKept ==
  ASSUME Sound, Addressed,
         pc'[Content] = pc[Content], ret'[Content] = ret[Content], cur'[Content] = cur[Content],
         id'[Content] = id[Content], msg'[Content] = msg[Content],
         count'.to = count.to, count'.msgs = count.msgs,
         \/ count'.accepts = count.accepts /\ (Preparing' => Preparing)
         \/ count'.accepts = count.accepts + 1,
         pc[Content] = "snd_enqueue" =>
           \A s \in Slots : s = cur[Content] /\ Own(s)' => Own(s) /\ sessionID'[s] = sessionID[s]
  PROVE  Addressed'
<1>1. PICK n \in Nat, a \in Nat : n = id[Content] /\ a = count.accepts
  BY DEF Sound, Typed, TypeOK, CallType, CountOK, Threads
<1>2. n <= a /\ (Preparing => n < a)
  BY <1>1 DEF Addressed
<1>3. n <= a + 1 /\ n < a + 1
  BY <1>2
<1>4. id'[Content] <= count'.accepts /\ (Preparing' => id'[Content] < count'.accepts)
  BY <1>1, <1>2, <1>3
<1>5. Sending' <=> Sending
  BY DEF Sending
<1>6. ASSUME pc'[Content] = "snd_enqueue", NEW s \in Slots, s = cur'[Content], Own(s)'
      PROVE  sessionID'[s] = id'[Content]
  BY <1>6 DEF Addressed
<1> QED
  BY <1>4, <1>5, <1>6 DEF Addressed

(* A slot whose messages a step leaves alone.                              *)
LEMMA SlotDelivered ==
  ASSUME NEW s \in Slots, Cleared(s), Meant(s),
         sendQ'[s] = sendQ[s], sending'[s] = sending[s],
         \A m \in 1 .. count.msgs : m \in 1 .. count'.msgs /\ count'.to[m] = count.to[m],
         Own(s)' => Own(s) /\ sessionID'[s] = sessionID[s],
         Live(s)' => Live(s), Vacant(s)' => Vacant(s),
         cur[Acceptor] = s /\ pc[Acceptor] = "init_rest" =>
           cur'[Acceptor] = s /\ pc'[Acceptor] = "init_rest"
  PROVE  Cleared(s)' /\ Meant(s)'
<1>1. Cleared(s)'
  BY DEF Cleared
<1>2. ASSUME NEW q, NEW n, For(q, n)
      PROVE  \A i \in DOMAIN q : q[i] \in 1 .. count'.msgs /\ count'.to[q[i]] = n
  BY <1>2 DEF For
<1>3. Meant(s)'
  BY <1>2 DEF Meant, For
<1> QED
  BY <1>1, <1>3

(* What no step of a call changes.                                         *)
LEMMA CallsAre ==
  ASSUME Sound, NEW t \in Threads, Calls(t)
  PROVE  /\ Settle(t) /\ UNCHANGED <<cur, id, count, sessionID>> /\ (Preparing' <=> Preparing)
         /\ msg'[t] \in {msg[t], 0} /\ \A u \in Threads : u # t => msg'[u] = msg[u]
<1>1. Typed
  BY DEF Sound
<1>2. Settle(t) /\ UNCHANGED <<cur, id, count, sessionID>> /\ (Preparing' <=> Preparing)
  <2>1. CASE Commits(t)
    BY <2>1, CommitOpen
  <2>2. CASE ReleaseLeave(t) \/ ReleaseClean(t) \/ ReleasePush(t)
    BY <2>2, ReleaseIs
  <2>3. CASE ~Commits(t) /\ ~ReleaseLeave(t) /\ ~ReleaseClean(t) /\ ~ReleasePush(t)
    BY <1>1, <2>3, CallsPlain, PlainOpen DEF Plain
  <2> QED
    BY <2>1, <2>2, <2>3
<1>3. UNCHANGED msg \/ msg' = [msg EXCEPT ![t] = 0]
  <2>1. CASE \/ Dec(t) \/ ReleaseCommit(t) \/ ReleaseLeave(t) \/ ReleaseClean(t) \/ ReleasePush(t)
             \/ UseInc(t)
    BY <2>1 DEF Dec, ReleaseCommit, ReleaseIf, ReleaseLeave, ReleaseClean, CleanUp, ReleasePush,
                UseInc, Increment, call
  <2>2. CASE UseUndo(t) \/ SendCheck(t) \/ SendEnqueue(t) \/ SendNotify(t)
    BY <2>2 DEF UseUndo, Undo, SendCheck, CheckID, SendEnqueue, SendNotify, call
  <2>3. CASE \/ DisconnectCheck(t) \/ DisconnectFlag(t) \/ DisconnectSocket(t)
             \/ DisconnectMark(t) \/ DisconnectCancel(t)
    BY <2>3 DEF DisconnectCheck, DisconnectFlag, DisconnectSocket, DisconnectMark,
                DisconnectCancel, call
  <2>4. CASE RecvPost(t) \/ RecvInc(t) \/ RecvIssue(t) \/ RecvPended(t) \/ RecvFailed(t)
    BY <2>4 DEF RecvPost, RecvInc, CountRecv, RecvIssue, RecvPended, RecvFailed, call
  <2>5. CASE \/ SendPost(t) \/ SendClaim(t) \/ SendSize(t) \/ SendClear(t) \/ SendInc(t)
             \/ SendTake(t) \/ SendIssue(t) \/ SentFlag(t) \/ SentCheck(t)
    BY <2>5 DEF SendPost, SendClaim, Claim, SendSize, SendClear, SendInc, SendTake, SendIssue,
                SentFlag, SentCheck, call
  <2> QED
    BY <2>1, <2>2, <2>3, <2>4, <2>5 DEF Calls
<1>4. msg'[t] \in {msg[t], 0} /\ \A u \in Threads : u # t => msg'[u] = msg[u]
  BY <1>1, <1>3 DEF Typed, TypeOK, CallType
<1> QED
  BY <1>2, <1>4

(* A step of the content's own call: SendPacket compares the IDs before it *)
(* queues the message.                                                     *)
LEMMA ContentAddressed ==
  ASSUME Sound, Addressed, Calls(Content)
  PROVE  Addressed'
<1> DEFINE t == Content
<1>1. /\ t \in Threads /\ Typed /\ TypeOK /\ Settle(t) /\ UNCHANGED <<cur, id, count, sessionID>>
      /\ (Preparing' <=> Preparing) /\ t \notin Workers
  BY CallsAre, ThreadsAssumption DEF Threads, Sound, Typed
<1>2. ShapeOf(t, pc[t], ret[t])
  BY <1>1 DEF Sound, Counted, Shapes, Shape
<1>3. pc \in [Threads -> Points] /\ ret \in [Threads -> Seq(ReturnPoints)]
  BY <1>1 DEF TypeOK, ControlType
<1> DEFINE Beyond == {"idle", "dec", "rel_cas", "snd_notify", "dis_check"} \cup ReleasePoints \cup ClosePoints
<1>4. Beyond \cap ({"snd_check", "snd_enqueue"} \cup Using) = {}
  BY DEF ReleasePoints, ClosePoints, Using
<1>5. CASE UseInc(t) \/ UseUndo(t)
  <2>1. pc[t] \in Using /\ ret[t] \in {<<"snd_check">>, <<"dis_check">>}
    <3>1. pc[t] \in Using
      BY <1>5 DEF UseInc, Increment, UseUndo, Undo, Using
    <3> QED
      BY <1>1, <1>2, <3>1 DEF ShapeOf
  <2>2. \/ Return(t) /\ UNCHANGED msg
        \/ Goto(t, "use_undo") /\ UNCHANGED msg
        \/ Enter(t, "rel_cas", Tail(ret[t]))
    BY <1>5 DEF UseInc, Increment, UseUndo, Undo, call
  <2>3. CASE Return(t) /\ UNCHANGED msg
    <3>1. \/ pc'[t] = "dis_check"
          \/ pc'[t] = "snd_check" /\ ret[t] = <<"snd_check">>
      BY <1>1, <2>1, <2>3, ReturnShape
    <3>2. (Sending' => Sending) /\ pc'[t] # "snd_enqueue"
      BY <1>4, <2>1, <3>1 DEF Sending
    <3> QED
      BY <1>1, <2>3, <3>2 DEF Addressed
  <2>4. CASE Goto(t, "use_undo") /\ UNCHANGED msg
    <3>1. pc'[t] = "use_undo" /\ ret' = ret
      BY <1>1, <1>3, <2>4 DEF Goto
    <3>2. (Sending' => Sending) /\ pc'[t] # "snd_enqueue"
      BY <2>1, <3>1 DEF Sending
    <3> QED
      BY <1>1, <2>4, <3>2 DEF Addressed
  <2>5. CASE Enter(t, "rel_cas", Tail(ret[t]))
    <3>1. pc'[t] = "rel_cas"
      BY <1>1, <1>3, <2>5 DEF Enter
    <3>2. ~Sending' /\ pc'[t] # "snd_enqueue"
      BY <1>4, <3>1 DEF Sending
    <3> QED
      BY <1>1, <3>2 DEF Addressed
  <2> QED
    BY <2>2, <2>3, <2>4, <2>5
<1>6. CASE SendCheck(t)
  <2>1. /\ pc[t] = "snd_check"
        /\ \/ sessionID[cur[t]] = id[t] /\ Goto(t, "snd_enqueue") /\ UNCHANGED msg
           \/ Goto(t, "dec")
    BY <1>6 DEF SendCheck, CheckID
  <2>2. CASE sessionID[cur[t]] = id[t] /\ Goto(t, "snd_enqueue") /\ UNCHANGED msg
    BY <1>1, <2>1, <2>2 DEF Addressed, Sending
  <2>3. CASE Goto(t, "dec")
    <3>1. pc'[t] = "dec"
      BY <1>1, <1>3, <2>3 DEF Goto
    <3>2. ~Sending' /\ pc'[t] # "snd_enqueue"
      BY <1>4, <3>1 DEF Sending
    <3> QED
      BY <1>1, <3>2 DEF Addressed
  <2> QED
    BY <2>1, <2>2, <2>3
<1>7. CASE ~UseInc(t) /\ ~UseUndo(t) /\ ~SendCheck(t)
  <2>1. ASSUME Dec(t) \/ ReleaseCommit(t) \/ ReleaseLeave(t) \/ ReleaseClean(t) \/ ReleasePush(t)
        PROVE  pc'[t] \in Beyond
    <3>1. pc[t] \in {"dec", "rel_cas"} \cup ReleasePoints
      BY <2>1 DEF Dec, ReleaseCommit, ReleaseIf, ReleaseLeave, ReleaseClean, CleanUp, ReleasePush,
                  ReleasePoints
    <3>2. ret[t] = <<>>
      BY <1>1, <1>2, <3>1 DEF ShapeOf
    <3>3. Return(t) \/ \E p \in {"rel_cas"} \cup ReleasePoints : Goto(t, p)
      BY <2>1 DEF Dec, ReleaseCommit, ReleaseIf, ReleaseLeave, ReleaseClean, CleanUp, ReleasePush,
                  ReleasePoints
    <3> QED
      BY <1>1, <1>3, <3>2, <3>3, ReturnShape DEF Goto
  <2>2. ASSUME SendEnqueue(t) \/ SendNotify(t) PROVE pc'[t] \in Beyond
    <3>1. pc[t] \in PacketPoints
      BY <2>2 DEF SendEnqueue, SendNotify, PacketPoints
    <3>2. ret[t] = <<>>
      BY <1>1, <1>2, <3>1 DEF ShapeOf
    <3>3. Return(t) \/ Goto(t, "snd_notify")
      BY <2>2 DEF SendEnqueue, SendNotify
    <3> QED
      BY <1>1, <1>3, <3>2, <3>3, ReturnShape DEF Goto
  <2>3. ASSUME \/ DisconnectCheck(t) \/ DisconnectFlag(t) \/ DisconnectSocket(t)
               \/ DisconnectMark(t) \/ DisconnectCancel(t)
        PROVE  pc'[t] \in Beyond
    <3>1. \E p \in {"dec"} \cup ClosePoints : Goto(t, p)
      BY <2>3 DEF DisconnectCheck, DisconnectFlag, DisconnectSocket, DisconnectMark,
                  DisconnectCancel, ClosePoints
    <3> QED
      BY <1>1, <1>3, <3>1 DEF Goto
  <2>4. ~(RecvPost(t) \/ RecvInc(t) \/ RecvIssue(t) \/ RecvPended(t) \/ RecvFailed(t))
    <3>1. pc[t] \notin RecvPoints
      BY <1>1, <1>2 DEF ShapeOf
    <3> QED
      BY <3>1 DEF RecvPost, RecvInc, CountRecv, RecvIssue, RecvPended, RecvFailed, RecvPoints
  <2>5. ~(\/ SendPost(t) \/ SendClaim(t) \/ SendSize(t) \/ SendClear(t) \/ SendInc(t)
          \/ SendTake(t) \/ SendIssue(t) \/ SentFlag(t) \/ SentCheck(t))
    <3>1. pc[t] \notin SendPoints \cup {"sc_flag", "sc_check"}
      BY <1>1, <1>2 DEF ShapeOf
    <3> QED
      BY <3>1 DEF SendPost, SendClaim, Claim, SendSize, SendClear, SendInc, SendTake, SendIssue,
                  SentFlag, SentCheck, SendPoints
  <2>6. pc'[t] \in Beyond
    BY <1>7, <2>1, <2>2, <2>3, <2>4, <2>5 DEF Calls
  <2>7. ~Sending' /\ pc'[t] # "snd_enqueue"
    BY <1>4, <2>6 DEF Sending
  <2> QED
    BY <1>1, <2>7 DEF Addressed
<1> QED
  BY <1>5, <1>6, <1>7

(* A step of any call.                                                     *)
LEMMA CallsAddressed ==
  ASSUME Sound, Addressed, NEW t \in Threads, Calls(t)
  PROVE  Addressed'
<1>1. CASE t = Content
  BY <1>1, ContentAddressed
<1>2. CASE t # Content
  <2>1. Content \in Threads
    BY DEF Threads
  <2>2. /\ pc'[Content] = pc[Content] /\ ret'[Content] = ret[Content] /\ msg'[Content] = msg[Content]
        /\ UNCHANGED <<cur, id, count, sessionID>> /\ (Preparing' <=> Preparing)
    BY <1>2, <2>1, CallsAre DEF Settle
  <2> QED
    BY <2>2, AddressedKept DEF Own
<1> QED
  BY <1>1, <1>2

(* No message is sent anew.                                                *)
Grows == \A m \in 1 .. count.msgs : m \in 1 .. count'.msgs /\ count'.to[m] = count.to[m]

(* Plain steps leave alone who owns a slot.                                *)
LEMMA PlainWindow ==
  ASSUME Sound, NEW s \in Slots, NEW t \in Threads, Plain(t)
  PROVE  /\ Own(s)' <=> Own(s)
         /\ (Live(s)' <=> Live(s)) /\ (Vacant(s)' <=> Vacant(s))
         /\ cur[Acceptor] = s /\ pc[Acceptor] = "init_rest"
              <=> cur'[Acceptor] = s /\ pc'[Acceptor] = "init_rest"
<1>1. /\ Live(s)' <=> Live(s)
      /\ Owners(s, Closers)' = Owners(s, Closers)
  <2>1. Typed /\ Closers \in SUBSET (Setup \cup ReleasePoints)
    BY SocketNumbers DEF Sound
  <2> QED
    BY <2>1, PlainOpen
<1>2. /\ \/ pc'[Acceptor] = pc[Acceptor] /\ cur'[Acceptor] = cur[Acceptor]
         \/ pc'[Acceptor] \notin Setup /\ pc[Acceptor] \notin Setup
      /\ Window \subseteq Setup /\ "init_rest" \in Setup
  BY SocketNumbers DEF Plain, Aside, Settle, Setup, Window
<1>3. Own(s)' <=> Own(s)
  BY DEF Own, Plain
<1> QED
  BY <1>1, <1>2, <1>3 DEF Vacant, Plain

(* And if they leave the messages alone too, those stay where they belong. *)
LEMMA PlainSlots ==
  ASSUME Sound, NEW s \in Slots, Cleared(s), Meant(s), NEW t \in Threads, Plain(t), Grows,
         sendQ'[s] = sendQ[s], sending'[s] = sending[s]
  PROVE  Cleared(s)' /\ Meant(s)'
<1>1. /\ Own(s)' => Own(s) /\ sessionID'[s] = sessionID[s]
      /\ (Live(s)' => Live(s)) /\ (Vacant(s)' => Vacant(s))
      /\ cur[Acceptor] = s /\ pc[Acceptor] = "init_rest" =>
           cur'[Acceptor] = s /\ pc'[Acceptor] = "init_rest"
  BY PlainWindow DEF Plain
<1> QED
  BY <1>1, SlotDelivered DEF Grows

(* The release of a session cleans its send queue last.                    *)
LEMMA ReleaseSlots ==
  ASSUME Sound, NEW s \in Slots, Cleared(s), Meant(s), NEW t \in Threads,
         Commits(t) \/ ReleaseLeave(t) \/ ReleaseClean(t) \/ ReleasePush(t)
  PROVE  Cleared(s)' /\ Meant(s)'
<1>1. /\ Settle(t) /\ cur[t] \in Slots /\ {pc[t], pc'[t]} \cap Setup = {}
      /\ UNCHANGED <<cur, count, sessionID, sending>>
      /\ Live(s)' => Live(s)
      /\ pc[t] \in Closers => pc'[t] \in Closers \/ ReleaseClean(t)
  <2>1. CASE Commits(t)
    <3>1. /\ Settle(t) /\ cur[t] \in Slots /\ pc[t] = "rel_cas" /\ pc'[t] = "rel_leave"
          /\ UNCHANGED <<cur, count, sessionID, send>>
          /\ \A r \in Slots : releaseFlag[r] => releaseFlag'[r]
      BY <2>1, CommitOpen
    <3>2. Owners(s, InitPoints)' = Owners(s, InitPoints)
      BY <3>1 DEF Owners, Settle, InitPoints
    <3>3. Live(s)' => Live(s)
      BY <3>1, <3>2 DEF Live
    <3> QED
      BY <3>1, <3>3 DEF Closers, Setup, Window, send
  <2>2. CASE ReleaseLeave(t) \/ ReleaseClean(t) \/ ReleasePush(t)
    <3>1. /\ ReleaseLeave(t) => pc[t] = "rel_leave"
          /\ ReleasePush(t) => pc[t] = "rel_push"
      BY DEF ReleaseLeave, ReleasePush
    <3> QED
      BY <2>2, <3>1, ReleaseIs DEF Closers, Setup, Window, ReleasePoints
  <2> QED
    BY <2>1, <2>2
<1>2. \/ pc'[Acceptor] = pc[Acceptor]
      \/ pc'[Acceptor] \notin Setup /\ pc[Acceptor] \notin Setup
  BY <1>1, SocketNumbers DEF Settle
<1>3. /\ cur[Acceptor] = s /\ pc[Acceptor] = "init_rest" =>
           cur'[Acceptor] = s /\ pc'[Acceptor] = "init_rest"
      /\ Window \subseteq Setup /\ (Own(s)' <=> Own(s))
  BY <1>1, <1>2 DEF Setup, Window, Own
<1>4. CASE ReleaseClean(t) /\ s = cur[t]
  <2>1. sendQ'[s] = <<>>
    BY <1>1, <1>4 DEF ReleaseClean, CleanUp, Sound, Typed, TypeOK, SendType
  <2>2. ~Live(s)
    BY <1>4, ReleaseIs
  <2> QED
    BY <1>1, <2>1, <2>2 DEF Cleared, Meant
<1>5. CASE ~(ReleaseClean(t) /\ s = cur[t])
  <2>1. sendQ'[s] = sendQ[s]
    <3>1. UNCHANGED sendQ \/ (ReleaseClean(t) /\ sendQ' = [sendQ EXCEPT ![cur[t]] = <<>>])
      BY DEF Commits, ReleaseCommit, ReleaseIf, ReleaseLeave, ReleaseClean, CleanUp, ReleasePush, send
    <3> QED
      BY <1>1, <1>5, <3>1 DEF Sound, Typed, TypeOK, SendType
  <2>2. Owners(s, Closers)' = {} => Owners(s, Closers) = {}
    BY <1>1, <1>5 DEF Owners, Settle
  <2>3. Live(s) /\ ~Live(s)' => Owners(s, Closers)' # {}
    <3>1. CASE Commits(t)
      <4>1. /\ pc[t] = "rel_cas" /\ pc'[t] = "rel_leave"
            /\ releaseFlag' = [releaseFlag EXCEPT ![cur[t]] = TRUE] /\ releaseFlag \in [Slots -> BOOLEAN]
        BY <3>1, CommitOpen
      <4>2. Owners(s, InitPoints)' = Owners(s, InitPoints)
        BY <1>1, <4>1 DEF Owners, Settle, InitPoints
      <4>3. Live(s) /\ ~Live(s)' => s = cur[t]
        BY <1>1, <4>1, <4>2 DEF Live
      <4> QED
        BY <1>1, <4>1, <4>3 DEF Owners, Closers
    <3>2. CASE ReleaseLeave(t) \/ ReleaseClean(t) \/ ReleasePush(t)
      BY <3>2, ReleaseIs
    <3> QED
      BY <3>1, <3>2
  <2>4. Vacant(s)' => Vacant(s)
    BY <1>1, <1>2, <1>3, <2>2, <2>3 DEF Vacant
  <2> QED
    BY <1>1, <1>3, <2>1, <2>4, SlotDelivered
<1> QED
  BY <1>4, <1>5

(* SendPacket queues the message for the connection that it was sent to.   *)
LEMMA EnqueueSlots ==
  ASSUME Sound, Delivery, NEW s \in Slots, NEW t \in Threads, Plain(t), SendEnqueue(t),
         UNCHANGED count
  PROVE  Cleared(s)' /\ Meant(s)'
<1>1. /\ pc[t] = "snd_enqueue" /\ sendQ' = [sendQ EXCEPT ![cur[t]] = Append(@, msg[t])]
      /\ UNCHANGED <<sending, sessionID>>
  BY DEF SendEnqueue, life
<1>2. /\ TypeOK /\ cur[t] \in Slots /\ sendQ \in [Slots -> Seq(Msgs)] /\ Acceptor \in Threads
      /\ t = Content /\ msg[t] \in Msgs
  <2>1. TypeOK /\ Returns /\ Shape(t)
    BY DEF Sound, Typed, Counted, Shapes
  <2>2. t = Content
    BY <1>1, <2>1 DEF Shape, ShapeOf, PacketPoints
  <2>3. msg[t] \in Msgs
    <3>1. msg[t] \in 0 .. MaxMsgs /\ msg[t] # 0 /\ MaxMsgs \in Nat
      BY <1>1, <2>1, BoundsAssumption DEF TypeOK, CallType, Returns
    <3> QED
      BY <3>1 DEF Msgs
  <2> QED
    BY <2>1, <2>2, <2>3 DEF TypeOK, CallType, SendType, Threads
<1>3. Cleared(s) /\ Meant(s) /\ Addressed
  BY DEF Delivery
<1>4. CASE s # cur[t]
  BY <1>1, <1>2, <1>3, <1>4, PlainSlots DEF Grows
<1>5. CASE s = cur[t]
  <2>1. sendQ'[s] = Append(sendQ[s], msg[t]) /\ sending'[s] = sending[s] /\ sendQ[s] \in Seq(Msgs)
    BY <1>1, <1>2, <1>5
  <2>2. /\ Own(s) => sessionID[s] = id[Content]
        /\ msg[t] \in 1 .. count.msgs /\ count.to[msg[t]] = id[Content]
    BY <1>1, <1>2, <1>3, <1>5 DEF Addressed, Sending
  <2>3. ~(Own(s) /\ Vacant(s))
    <3>1. ASSUME Own(s), cur[Acceptor] = s, pc[Acceptor] \in Window PROVE FALSE
      <4>1. sessionID[s] = count.accepts /\ Preparing /\ count.accepts \in Nat
        BY <1>2, <3>1, AcceptorIs
      <4>2. id[Content] < count.accepts
        BY <1>3, <4>1 DEF Addressed
      <4> QED
        BY <2>2, <3>1, <4>1, <4>2
    <3>2. ASSUME count.late = 0, ~Live(s) PROVE FALSE
      <4>1. OnTime(s) /\ pc[t] \in UsePoints
        BY <1>1, <3>2 DEF OnTime, UsePoints, PacketPoints
      <4> QED
        BY <1>5, <3>2, <4>1, Occupied DEF InUse
    <3> QED
      BY <3>1, <3>2 DEF Vacant
  <2>4. Cleared(s)'
    BY <2>3, PlainWindow DEF Cleared
  <2>5. ASSUME For(sendQ[s], sessionID[s]), Own(s) PROVE For(sendQ[s], sessionID[s])'
    <3>1. PICK n \in Nat : n = Len(sendQ[s])
      BY <2>1, LenProperties
    <3>2. /\ DOMAIN sendQ[s] = 1 .. n /\ DOMAIN sendQ'[s] = 1 .. n + 1
          /\ sendQ'[s][n + 1] = msg[t] /\ \A i \in 1 .. n : sendQ'[s][i] = sendQ[s][i]
      BY <1>2, <2>1, <3>1, AppendProperties, LenProperties
    <3>3. \A i \in 1 .. n + 1 : i \in 1 .. n \/ i = n + 1
      BY <3>1
    <3> QED
      BY <1>1, <2>2, <2>5, <3>2, <3>3 DEF For
  <2>6. Meant(s)'
    <3>1. For(sending[s], sessionID[s]) => For(sending[s], sessionID[s])'
      BY <1>1 DEF For
    <3> QED
      BY <1>3, <2>5, <3>1, PlainWindow DEF Meant
  <2> QED
    BY <2>4, <2>6
<1> QED
  BY <1>4, <1>5

(* SendPost moves messages from the queue into the batch.                  *)
LEMMA TakeSlots ==
  ASSUME Sound, Delivery, NEW s \in Slots, NEW t \in Threads, Plain(t), SendTake(t),
         UNCHANGED count
  PROVE  Cleared(s)' /\ Meant(s)'
<1>1. /\ TypeOK /\ cur[t] \in Slots /\ sendQ \in [Slots -> Seq(Msgs)]
      /\ sending \in [Slots -> Seq(Msgs)] /\ UNCHANGED sessionID
  BY DEF Sound, Typed, TypeOK, CallType, SendType, SendTake, life
<1>2. Cleared(s) /\ Meant(s)
  BY DEF Delivery
<1>3. CASE s # cur[t] \/ UNCHANGED <<sendQ, sending>>
  <2>1. sendQ'[s] = sendQ[s] /\ sending'[s] = sending[s]
    BY <1>1, <1>3 DEF SendTake
  <2> QED
    BY <1>2, <2>1, PlainSlots DEF Grows
<1>4. CASE s = cur[t] /\ ~UNCHANGED <<sendQ, sending>>
  <2>1. sendQ[s] \in Seq(Msgs) /\ Len(sendQ[s]) \in Nat /\ SendMax \in Nat \ {0}
    BY <1>1, LenProperties, BoundsAssumption
  <2>2. PICK n \in 1 .. Len(sendQ[s]) :
          sending'[s] = SubSeq(sendQ[s], 1, n) /\ sendQ'[s] = SubSeq(sendQ[s], n + 1, Len(sendQ[s]))
    <3>1. PICK k : /\ k = IF Len(sendQ[s]) > SendMax THEN SendMax ELSE Len(sendQ[s])
                   /\ k > 0 /\ sending'[s] = SubSeq(sendQ[s], 1, k)
                   /\ sendQ'[s] = SubSeq(sendQ[s], k + 1, Len(sendQ[s]))
      BY <1>1, <1>4 DEF SendTake
    <3>2. PICK l \in Nat, h \in Nat : l = Len(sendQ[s]) /\ h = SendMax
      BY <2>1
    <3>3. k \in 1 .. l
      BY <3>1, <3>2
    <3> QED
      BY <3>1, <3>2, <3>3
  <2>3. sendQ[s] # <<>>
    BY <2>2
  <2>4. Cleared(s)'
    BY <1>2, <2>3, PlainWindow DEF Cleared
  <2>5. ASSUME For(sendQ[s], sessionID[s])
        PROVE  For(sendQ[s], sessionID[s])' /\ For(sending[s], sessionID[s])'
    <3> DEFINE M == {m \in 1 .. count.msgs : count.to[m] = sessionID[s]}
    <3>1. \A i \in 1 .. Len(sendQ[s]) : sendQ[s][i] \in M
      BY <2>1, <2>5, LenProperties DEF For
    <3>2. /\ \A i \in 1 .. n : i \in 1 .. Len(sendQ[s])
          /\ \A i \in n + 1 .. Len(sendQ[s]) : i \in 1 .. Len(sendQ[s])
      BY <2>1, <2>2
    <3>3. sending'[s] \in Seq(M) /\ sendQ'[s] \in Seq(M)
      <4> HIDE DEF M
      <4> QED
        BY <2>1, <2>2, <3>1, <3>2, SubSeqProperties
    <3>4. /\ \A i \in DOMAIN sending'[s] : sending'[s][i] \in M
          /\ \A i \in DOMAIN sendQ'[s] : sendQ'[s][i] \in M
      <4> HIDE DEF M
      <4> QED
        BY <3>3, LenProperties
    <3> QED
      BY <1>1, <3>4 DEF For
  <2>6. Meant(s)'
    BY <1>1, <1>2, <2>5, PlainWindow DEF Meant
  <2> QED
    BY <2>4, <2>6
<1> QED
  BY <1>3, <1>4

(* A step of any call.                                                     *)
LEMMA CallsDelivered ==
  ASSUME Sound, Delivery, NEW t \in Threads, Calls(t)
  PROVE  Delivery'
<1>1. Typed /\ Addressed /\ \A s \in Slots : Cleared(s) /\ Meant(s)
  BY DEF Sound, Delivery
<1>2. Addressed'
  BY <1>1, CallsAddressed
<1>3. ASSUME NEW s \in Slots PROVE Cleared(s)' /\ Meant(s)'
  <2>1. CASE Commits(t) \/ ReleaseLeave(t) \/ ReleaseClean(t) \/ ReleasePush(t)
    BY <1>1, <2>1, ReleaseSlots
  <2>2. CASE ~Commits(t) /\ ~ReleaseLeave(t) /\ ~ReleaseClean(t) /\ ~ReleasePush(t)
    <3>1. Plain(t) /\ UNCHANGED count
      BY <1>1, <2>2, CallsPlain
    <3>2. CASE SendEnqueue(t)
      BY <3>1, <3>2, EnqueueSlots
    <3>3. CASE SendTake(t)
      BY <3>1, <3>3, TakeSlots
    <3>4. CASE ~SendEnqueue(t) /\ ~SendTake(t)
      <4>1. UNCHANGED <<sendQ, sending>>
        <5>1. CASE Dec(t) \/ ReleaseCommit(t) \/ UseInc(t) \/ UseUndo(t) \/ SendCheck(t) \/ SendNotify(t)
          BY <5>1 DEF Dec, ReleaseCommit, ReleaseIf, UseInc, Increment, UseUndo, Undo, SendCheck,
                      CheckID, SendNotify, send
        <5>2. CASE \/ DisconnectCheck(t) \/ DisconnectFlag(t) \/ DisconnectSocket(t)
                   \/ DisconnectMark(t) \/ DisconnectCancel(t)
          BY <5>2 DEF DisconnectCheck, DisconnectFlag, DisconnectSocket, DisconnectMark,
                      DisconnectCancel, send
        <5>3. CASE RecvPost(t) \/ RecvInc(t) \/ RecvIssue(t) \/ RecvPended(t) \/ RecvFailed(t)
          BY <5>3 DEF RecvPost, RecvInc, CountRecv, RecvIssue, RecvPended, RecvFailed, send
        <5>4. CASE \/ SendPost(t) \/ SendClaim(t) \/ SendSize(t) \/ SendClear(t) \/ SendInc(t)
                   \/ SendIssue(t) \/ SentFlag(t) \/ SentCheck(t)
          BY <5>4 DEF SendPost, SendClaim, Claim, SendSize, SendClear, SendInc, SendIssue,
                      SentFlag, SentCheck, send
        <5> QED
          BY <2>2, <3>4, <5>1, <5>2, <5>3, <5>4 DEF Calls
      <4> QED
        BY <1>1, <3>1, <4>1, PlainSlots DEF Grows
    <3> QED
      BY <3>2, <3>3, <3>4
  <2> QED
    BY <2>1, <2>2
<1> QED
  BY <1>2, <1>3 DEF Delivery

(* Initailize: the slot is vacant when it gets the number of a connection, *)
(* and from then on it is not relied on if a call was late before.         *)
LEMMA PrepareDelivered ==
  ASSUME Sound, Delivery, NEW t \in Threads,
         InitID(t) \/ InitIO(t) \/ InitFlag(t) \/ InitRest(t) \/ AcceptHold(t)
  PROVE  Delivery'
<1>1. Prepares(t) /\ (~InitID(t) => UNCHANGED sessionID)
  BY PrepareIs
<1>2. /\ Addressed /\ \A s \in Slots : Cleared(s) /\ Meant(s)
      /\ t = Acceptor /\ t # Content /\ cur[t] \in Slots /\ TypeOK
      /\ count.accepts \in Nat /\ count.late \in Nat
  <2>1. pc[t] \in {"init_id"} \cup Window
    BY <1>1 DEF Prepares, Setup
  <2> QED
    BY <1>1, <2>1, AcceptorIs DEF Delivery
<1>3. InitID(t) => /\ pc[t] = "init_id" /\ sessionID'[cur[t]] = count.accepts
                   /\ count' = count /\ count.late < count.accepts /\ pc'[t] = "init_io"
  <2>1. InitID(t) => pc[t] = "init_id" /\ count' = count
    BY DEF InitID, log
  <2>2. pc[t] = "init_id" => count.late < count.accepts
    BY AcceptorIs
  <2> QED
    BY <1>2, <2>1, <2>2 DEF InitID, Goto, TypeOK, LifeType, ControlType
<1>4. ASSUME NEW s \in Slots, Own(s)'
      PROVE  /\ Own(s)
             /\ InitID(t) /\ s = cur[t] => count.late = 0
             /\ ~(InitID(t) /\ s = cur[t]) => sessionID'[s] = sessionID[s]
  <2>1. CASE InitID(t) /\ s = cur[t]
    BY <1>2, <1>3, <1>4, <2>1 DEF Own
  <2>2. CASE ~(InitID(t) /\ s = cur[t])
    BY <1>1, <1>4, <2>2 DEF Own, Prepares
  <2> QED
    BY <2>1, <2>2
<1>5. Addressed'
  <2>1. /\ pc'[Content] = pc[Content] /\ ret'[Content] = ret[Content]
        /\ UNCHANGED <<cur, id, msg>>
        /\ count'.to = count.to /\ count'.msgs = count.msgs /\ count'.accepts = count.accepts
    BY <1>1, <1>2 DEF Prepares, Settle, Threads
  <2>2. Preparing' => Preparing
    BY <1>1 DEF Prepares, Preparing, Setup
  <2>3. ASSUME pc[Content] = "snd_enqueue", NEW s \in Slots, s = cur[Content], Own(s)'
        PROVE  Own(s) /\ sessionID'[s] = sessionID[s]
    <3>1. ASSUME InitID(t), s = cur[t] PROVE FALSE
      <4>1. OnTime(s) /\ Content \in Threads /\ pc[Content] \in UsePoints
        BY <1>4, <2>3, <3>1 DEF OnTime, Threads, UsePoints, PacketPoints
      <4>2. InUse(s)
        BY <2>3, <4>1, Occupied
      <4> QED
        BY <1>2, <1>3, <3>1, <4>2 DEF InUse
    <3> QED
      BY <1>4, <2>3, <3>1
  <2> QED
    BY <1>2, <2>1, <2>2, <2>3, AddressedKept
<1>6. ASSUME NEW s \in Slots, s # cur[t] PROVE Cleared(s)' /\ Meant(s)'
  <2>1. Live(s)' <=> Live(s)
    BY <1>6, PrepareOpen
  <2>2. Owners(s, Closers)' = Owners(s, Closers)
    BY PrepareOpen, SocketNumbers
  <2>3. /\ count'.late = 0 => count.late = 0
        /\ sendQ'[s] = sendQ[s] /\ sending'[s] = sending[s] /\ cur' = cur
        /\ \A m \in 1 .. count.msgs : m \in 1 .. count'.msgs /\ count'.to[m] = count.to[m]
    BY <1>1, <1>6 DEF Prepares
  <2>4. Vacant(s)' => Vacant(s)
    BY <1>2, <1>6, <2>1, <2>2, <2>3 DEF Vacant
  <2>5. Own(s)' => Own(s) /\ sessionID'[s] = sessionID[s]
    BY <1>4, <1>6
  <2>6. ~(cur[Acceptor] = s /\ pc[Acceptor] = "init_rest")
    BY <1>2, <1>6
  <2> QED
    BY <1>2, <2>1, <2>3, <2>4, <2>5, <2>6, SlotDelivered
<1>7. ASSUME NEW s \in Slots, s = cur[t] PROVE Cleared(s)' /\ Meant(s)'
  <2>1. Cleared(s) /\ Meant(s)
    BY <1>2
  <2>2. CASE InitID(t)
    <3>1. Owners(s, InitPoints) # {} /\ Owners(s, InitPoints)' # {}
      BY <1>1, <1>2, <1>3, <1>7, <2>2 DEF Owners, InitPoints, Prepares
    <3>2. ~Live(s) /\ ~Live(s)'
      BY <3>1 DEF Live
    <3>3. Owners(s, Closers) = {}
      <4>1. Owners(s, ReleasePoints) = {}
        BY <3>1, OneOwner DEF Sound, Owned
      <4> QED
        BY <4>1, SocketNumbers DEF Owners
    <3>4. Own(s)' => sendQ[s] = <<>>
      BY <1>4, <1>7, <2>1, <2>2, <3>2, <3>3 DEF Cleared, Vacant
    <3>5. UNCHANGED sendQ
      BY <2>2 DEF InitID, send
    <3> QED
      BY <3>2, <3>4, <3>5 DEF Cleared, Meant
  <2>3. CASE InitRest(t)
    <3>1. sendQ'[s] = <<>> /\ sending'[s] = <<>>
      BY <1>2, <1>7, <2>3 DEF InitRest, TypeOK, SendType
    <3>2. DOMAIN sendQ'[s] = {} /\ DOMAIN sending'[s] = {}
      BY <3>1
    <3> QED
      BY <3>1, <3>2 DEF Cleared, Meant, For
  <2>4. CASE InitIO(t) \/ InitFlag(t) \/ AcceptHold(t)
    <3>1. /\ pc[t] \in Window /\ UNCHANGED <<sendQ, sending>>
          /\ UNCHANGED sessionID
      BY <1>1, <2>4 DEF InitID, InitIO, InitFlag, AcceptHold, Hold, Window, send
    <3>2. Own(s)' => Own(s) /\ sendQ'[s] = <<>>
      BY <1>2, <1>4, <1>7, <2>1, <3>1 DEF Cleared, Vacant
    <3>3. DOMAIN <<>> = {}
      OBVIOUS
    <3>4. ASSUME Live(s)', Own(s)'
          PROVE  \/ For(sending[s], sessionID[s])'
                 \/ (cur[Acceptor] = s /\ pc[Acceptor] = "init_rest")'
      <4>1. CASE InitIO(t)
        <5>1. pc'[t] = "init_flag" /\ cur'[t] = s
          BY <1>1, <1>2, <1>7, <4>1 DEF InitIO, Goto, TypeOK, ControlType, Prepares
        <5> QED
          BY <3>4, <5>1 DEF Live, Owners, InitPoints
      <4>2. CASE InitFlag(t)
        BY <1>1, <1>2, <1>7, <4>2 DEF InitFlag, Goto, TypeOK, ControlType, Prepares
      <4>3. CASE AcceptHold(t)
        <5>1. pc[t] = "acc_hold" /\ UNCHANGED <<releaseFlag, count>>
          BY <4>3 DEF AcceptHold, Hold, AddIO, log
        <5>2. pc'[t] = "acc_join"
          BY <1>2, <4>3 DEF AcceptHold, Hold, Goto, TypeOK, ControlType
        <5>3. Owners(s, InitPoints)' = Owners(s, InitPoints)
          BY <1>1, <5>1, <5>2 DEF Owners, InitPoints, Prepares, Settle
        <5>4. Live(s)
          BY <3>1, <3>4, <5>1, <5>3 DEF Live
        <5>5. For(sending[s], sessionID[s])
          BY <1>2, <1>4, <2>1, <3>4, <5>1, <5>4 DEF Meant
        <5> QED
          BY <3>1, <5>1, <5>5 DEF For
      <4> QED
        BY <2>4, <4>1, <4>2, <4>3
    <3> QED
      BY <3>2, <3>3, <3>4 DEF Cleared, Meant, For
  <2> QED
    BY <2>2, <2>3, <2>4
<1> QED
  BY <1>5, <1>6, <1>7 DEF Delivery

(* OnClientJoin is called, and a connection is accepted.                   *)
LEMMA AcceptDelivered ==
  ASSUME Sound, Delivery, NEW t \in Threads, AcceptJoin(t) \/ \E s \in Slots : Accept(t, s)
  PROVE  Delivery'
<1>1. /\ Addressed /\ \A s \in Slots : Cleared(s) /\ Meant(s)
      /\ Acceptor # Content /\ Content \in Threads /\ Acceptor \in Threads
  BY ThreadsAssumption DEF Delivery, Threads
<1>2. /\ t = Acceptor /\ Settle(t) /\ \A u \in Threads : u # t => cur'[u] = cur[u]
      /\ UNCHANGED <<sessionID, send, id, msg>>
      /\ count'.late = count.late /\ count'.to = count.to /\ count'.msgs = count.msgs
      /\ \/ count'.accepts = count.accepts /\ (Preparing' => Preparing)
         \/ count'.accepts = count.accepts + 1
      /\ pc[t] # "init_rest" /\ pc'[t] \notin Window
      /\ \A s \in Slots : (Live(s)' <=> Live(s)) /\ Owners(s, Closers)' = Owners(s, Closers)
  <2>1. CASE AcceptJoin(t)
    <3>1. /\ pc[t] = "acc_join" /\ UNCHANGED <<cur, sessionID, releaseFlag, send, id, msg, count>>
          /\ Enter(t, "rp_discon", <<"dec">>)
      BY <2>1 DEF AcceptJoin, call, life
    <3>2. t = Acceptor /\ TypeOK /\ Preparing
      BY <3>1, AcceptorIs DEF Window
    <3>3. Settle(t) /\ pc'[t] = "rp_discon"
      BY <3>1, <3>2, Frames, EnterIs DEF Points, OtherPoints
    <3>4. \A s \in Slots : /\ Owners(s, InitPoints)' = Owners(s, InitPoints)
                           /\ Owners(s, Closers)' = Owners(s, Closers)
      BY <3>1, <3>3 DEF Owners, Settle, InitPoints, Closers
    <3>5. \A s \in Slots : Live(s)' <=> Live(s)
      BY <3>1, <3>4 DEF Live
    <3> QED
      BY <3>1, <3>2, <3>3, <3>4, <3>5 DEF Window
  <2>2. ASSUME NEW s \in Slots, Accept(t, s)
        PROVE  /\ t = Acceptor /\ Settle(t) /\ \A u \in Threads : u # t => cur'[u] = cur[u]
               /\ UNCHANGED <<sessionID, send, id, msg>>
               /\ count'.late = count.late /\ count'.to = count.to /\ count'.msgs = count.msgs
               /\ count'.accepts = count.accepts + 1
               /\ pc[t] # "init_rest" /\ pc'[t] \notin Window
               /\ \A r \in Slots : (Live(r)' <=> Live(r)) /\ Owners(r, Closers)' = Owners(r, Closers)
    BY <2>2, AcceptIs, AcceptOpen, SocketNumbers DEF Window
  <2> QED
    BY <2>1, <2>2
<1>3. Addressed'
  <2>1. \A s \in Slots : Own(s)' => Own(s) /\ sessionID'[s] = sessionID[s]
    BY <1>2 DEF Own
  <2> QED
    BY <1>1, <1>2, <2>1, AddressedKept DEF Settle
<1>4. ASSUME NEW s \in Slots PROVE Cleared(s)' /\ Meant(s)'
  <2>1. /\ Own(s)' => Own(s) /\ sessionID'[s] = sessionID[s]
        /\ Live(s)' => Live(s)
        /\ \A m \in 1 .. count.msgs : m \in 1 .. count'.msgs /\ count'.to[m] = count.to[m]
        /\ sendQ'[s] = sendQ[s] /\ sending'[s] = sending[s]
    BY <1>2 DEF Own, send
  <2>2. Vacant(s)' => Vacant(s)
    BY <1>2 DEF Vacant
  <2> QED
    BY <1>1, <1>2, <2>1, <2>2, SlotDelivered
<1> QED
  BY <1>3, <1>4 DEF Delivery

(* A completion: after a send the batch is empty.                          *)
LEMMA WorkDelivered ==
  ASSUME Sound, Delivery, NEW t \in Threads, Working(t)
  PROVE  Delivery'
<1>1. /\ Addressed /\ \A s \in Slots : Cleared(s) /\ Meant(s)
      /\ Typed /\ TypeOK /\ CountOK /\ Content \in Threads
  BY DEF Delivery, Sound, Typed, Threads
<1>2. Plain(t) /\ UNCHANGED msg
  BY <1>1, WorkPlain
<1>3. /\ t \in Workers /\ t # Content
      /\ UNCHANGED sendQ
      /\ UNCHANGED sending \/ \E r : sending' = [sending EXCEPT ![r] = <<>>]
      /\ UNCHANGED id \/ \E n : id' = [id EXCEPT ![t] = n]
      /\ UNCHANGED count \/ count' = [count EXCEPT !.disconnects = @ + 1]
  BY ThreadsAssumption
     DEF Working, WorkerEnd, WorkerRequest, WorkerSent, Sent, WorkerRecv, Take, send, log
<1>4. /\ id'[Content] = id[Content]
      /\ count'.to = count.to /\ count'.msgs = count.msgs
  BY <1>1, <1>3 DEF TypeOK, CallType, CountOK
<1>5. Addressed'
  <2>1. Preparing' => Preparing
    BY <1>1, <1>2, PlainOpen
  <2>2. \A s \in Slots : Own(s)' => Own(s) /\ sessionID'[s] = sessionID[s]
    BY <1>2 DEF Own, Plain
  <2> QED
    BY <1>1, <1>2, <1>3, <1>4, <2>1, <2>2, AddressedKept DEF Plain, Settle
<1>6. ASSUME NEW s \in Slots PROVE Cleared(s)' /\ Meant(s)'
  <2>1. CASE sending'[s] = sending[s]
    BY <1>1, <1>2, <1>3, <1>4, <2>1, PlainSlots DEF Grows
  <2>2. CASE sending'[s] = <<>>
    <3>1. DOMAIN sending'[s] = {}
      BY <2>2
    <3>2. Cleared(s)'
      BY <1>1, <1>2, <1>3, PlainWindow DEF Cleared
    <3>3. For(sendQ[s], sessionID[s]) => For(sendQ[s], sessionID[s])'
      BY <1>2, <1>3, <1>4 DEF For, Plain
    <3> QED
      BY <1>1, <1>2, <3>1, <3>2, <3>3, PlainWindow DEF Meant, For
  <2> QED
    BY <1>1, <1>3, <2>1, <2>2 DEF TypeOK, SendType
<1> QED
  BY <1>5, <1>6 DEF Delivery

(* The content begins a call, with the ID of a connection that it knows.   *)
LEMMA ContentDelivered ==
  ASSUME Sound, Delivery, NEW t \in Threads, NEW k \in Known,
         SendPacket(t, k.slot, k.conn) \/ Disconnect(t, k.slot, k.conn)
  PROVE  Delivery'
<1>1. /\ Addressed /\ \A s \in Slots : Cleared(s) /\ Meant(s)
      /\ Typed /\ TypeOK /\ CountOK
  BY DEF Delivery, Sound, Typed
<1>2. /\ UNCHANGED <<sendQ, sending>> /\ t = Content
      /\ Plain(t) \/ UNCHANGED <<pc, cur>>
      /\ UNCHANGED <<sessionID, releaseFlag>>
      /\ count'.accepts = count.accepts /\ count'.late = count.late
  BY <1>1, ContentPlain
<1>3. /\ k.slot \in Slots /\ k.conn \in Nat /\ k.conn <= count.accepts
      /\ Preparing => k.conn < count.accepts
  BY KnownJoin
<1>4. PICK n \in Nat : n = count.msgs /\ n = Len(count.to) /\ count.to \in Seq(Nat)
  BY <1>1 DEF CountOK, Addressed
<1>5. Preparing' <=> Preparing
  BY <1>1, <1>2, PlainOpen DEF Preparing
<1>6. ASSUME SendPacket(t, k.slot, k.conn)
      PROVE  /\ count'.msgs = n + 1 /\ Len(count'.to) = n + 1 /\ count'.to[n + 1] = k.conn
             /\ \A m \in 1 .. n : m \in 1 .. n + 1 /\ count'.to[m] = count.to[m]
  <2>1. count'.msgs = n + 1 /\ count'.to = Append(count.to, k.conn)
    BY <1>1, <1>4, <1>6 DEF SendPacket, CountOK
  <2>2. /\ Len(count'.to) = n + 1 /\ count'.to[n + 1] = k.conn
        /\ \A m \in 1 .. n : count'.to[m] = count.to[m]
    BY <1>3, <1>4, <2>1, AppendProperties
  <2> QED
    BY <1>4, <2>1, <2>2
<1>7. Disconnect(t, k.slot, k.conn) => count'.msgs = count.msgs /\ count'.to = count.to
  BY <1>1 DEF Disconnect, CountOK
<1>8. Grows
  BY <1>4, <1>6, <1>7 DEF Grows
<1>9. ASSUME NEW s \in Slots PROVE Cleared(s)' /\ Meant(s)'
  <2>1. CASE Plain(t)
    BY <1>1, <1>2, <1>8, <2>1, PlainSlots
  <2>2. CASE UNCHANGED <<pc, cur>>
    <3>1. Live(s)' <=> Live(s)
      BY <1>2, <2>2, StaysOpen
    <3>2. (Own(s)' => Own(s)) /\ (Vacant(s)' => Vacant(s))
      BY <1>2, <2>2, <3>1 DEF Own, Vacant, Owners
    <3> QED
      BY <1>1, <1>2, <1>8, <2>2, <3>1, <3>2, SlotDelivered DEF Grows
  <2> QED
    BY <1>2, <2>1, <2>2
<1>10. Len(count'.to) = count'.msgs
  BY <1>1, <1>6, <1>7 DEF Addressed
<1>11. ASSUME NEW after, Enter(t, "use_inc", after), id' = [id EXCEPT ![t] = k.conn],
              after = <<"snd_check">> =>
                /\ SendPacket(t, k.slot, k.conn) /\ msg' = [msg EXCEPT ![t] = n + 1]
       PROVE  Addressed'
  <2>1. pc'[t] = "use_inc" /\ ret'[t] = after /\ id'[t] = k.conn
    BY <1>1, <1>11 DEF Enter, TypeOK, ControlType, CallType
  <2>2. Sending' => /\ after = <<"snd_check">> /\ msg'[t] = n + 1
                    /\ SendPacket(t, k.slot, k.conn)
    BY <1>1, <1>2, <1>11, <2>1 DEF Sending, TypeOK, CallType
  <2>3. Sending' => msg'[t] \in 1 .. count'.msgs /\ count'.to[msg'[t]] = k.conn
    BY <1>4, <1>6, <2>2
  <2> QED
    BY <1>2, <1>3, <1>5, <1>10, <2>1, <2>3 DEF Addressed
<1>12. CASE Disconnect(t, k.slot, k.conn)
  <2>1. Enter(t, "use_inc", <<"dis_check">>) /\ id' = [id EXCEPT ![t] = k.conn]
    BY <1>12 DEF Disconnect
  <2>2. <<"dis_check">> # <<"snd_check">>
    OBVIOUS
  <2>3. Addressed'
    BY <1>11, <2>1, <2>2
  <2> QED
    BY <1>9, <2>3 DEF Delivery
<1>13. CASE SendPacket(t, k.slot, k.conn)
  <2>1. CASE sessionID[k.slot] = k.conn
    <3>1. /\ Enter(t, "use_inc", <<"snd_check">>) /\ id' = [id EXCEPT ![t] = k.conn]
          /\ msg' = [msg EXCEPT ![t] = n + 1]
      BY <1>4, <1>13, <2>1 DEF SendPacket
    <3>2. Addressed'
      BY <1>11, <1>13, <3>1
    <3> QED
      BY <1>9, <3>2 DEF Delivery
  <2>2. CASE sessionID[k.slot] # k.conn
    <3>1. UNCHANGED <<pc, ret, cur, id, msg>>
      BY <1>13, <2>2 DEF SendPacket, control, call
    <3>2. Sending' <=> Sending
      BY <3>1 DEF Sending
    <3>3. Sending => msg[t] \in 1 .. count'.msgs /\ count'.to[msg[t]] = id[t]
      BY <1>1, <1>2, <1>4, <1>6, <1>13 DEF Addressed
    <3>4. \A s \in Slots : Own(s)' <=> Own(s)
      BY <1>2 DEF Own
    <3>5. Addressed'
      BY <1>1, <1>2, <1>5, <1>10, <3>1, <3>2, <3>3, <3>4 DEF Addressed
    <3> QED
      BY <1>9, <3>5 DEF Delivery
  <2> QED
    BY <2>1, <2>2
<1> QED
  BY <1>12, <1>13

(* Every step delivers what it delivers to the right connection.           *)
LEMMA StepDelivered == Sound /\ Delivery /\ [Next]_vars => Delivery'
<1> SUFFICES ASSUME Sound, Delivery, [Next]_vars PROVE Delivery'
  OBVIOUS
<1>1. Typed /\ Addressed /\ \A s \in Slots : Cleared(s) /\ Meant(s)
  BY DEF Sound, Delivery
<1>2. ASSUME NEW t \in Threads, Accepting(t) PROVE Delivery'
  BY <1>2, PrepareDelivered, AcceptDelivered DEF Accepting
<1>3. CASE \/ \E s \in Slots : Kernel(s) \/ PeerSends(s)
           \/ \E n \in Conns : PeerLeaves(n)
           \/ \E t \in Threads : AcceptBlocked(t)
           \/ TakeEvent
           \/ UNCHANGED vars
  <2>1. /\ UNCHANGED <<pc, ret, cur, id, msg, sessionID, releaseFlag, sendQ, sending>>
        /\ count'.accepts = count.accepts /\ count'.late = count.late
        /\ count'.to = count.to /\ count'.msgs = count.msgs
    BY <1>1, <1>3, WorldStays DEF Stays, send
  <2>2. \A s \in Slots : (Own(s)' <=> Own(s)) /\ (Live(s)' <=> Live(s)) /\ (Vacant(s)' <=> Vacant(s))
    BY <2>1 DEF Own, Live, Vacant, Owners
  <2>3. Addressed'
    BY <1>1, <2>1, <2>2 DEF Addressed, Sending, Preparing
  <2>4. \A s \in Slots : Cleared(s)' /\ Meant(s)'
    BY <1>1, <2>1, <2>2 DEF Cleared, Meant, For
  <2> QED
    BY <2>3, <2>4 DEF Delivery
<1> QED
  BY <1>2, <1>3, CallsDelivered, AcceptDelivered, WorkDelivered, ContentDelivered DEF Next

(* At the start nothing is queued and nobody calls.                        *)
LEMMA InitDelivered == Init => Delivery
<1> SUFFICES ASSUME Init PROVE Delivery
  OBVIOUS
<1>1. /\ \A s \in Slots : sendQ[s] = <<>> /\ sending[s] = <<>>
      /\ \A t \in Threads : pc[t] = "idle" /\ id[t] = 0
      /\ count.accepts = 0 /\ count.msgs = 0 /\ count.to = <<>>
      /\ Acceptor \in Threads /\ Content \in Threads
  BY DEF Init, Threads
<1>2. DOMAIN <<>> = {} /\ Len(<<>>) = 0
  OBVIOUS
<1>3. Addressed
  BY <1>1, <1>2 DEF Addressed, Sending, Preparing, Window, Using
<1>4. \A s \in Slots : Cleared(s) /\ Meant(s)
  BY <1>1, <1>2 DEF Cleared, Meant, For
<1> QED
  BY <1>3, <1>4 DEF Delivery

(* A message that is queued or being sent on a live session was sent to    *)
(* the connection that has the session now, and not to the one that had    *)
(* its index before; even the first late call misdirects nothing.          *)
THEOREM SentWhereMeant == Spec => []NoMisdelivery
<1>1. ASSUME Sound, Delivery PROVE NoMisdelivery
  <2>1. ASSUME NEW s \in Slots, Live(s), Own(s),
               NEW q, q = sendQ[s] \o InFlight(s), NEW i \in DOMAIN q
        PROVE  count.to[q[i]] = sessionID[s]
    <3>1. /\ sendQ[s] \in Seq(Msgs) /\ InFlight(s) \in Seq(Msgs)
          /\ Acceptor \in Threads /\ Meant(s) /\ Shapes
      BY <1>1 DEF Sound, Typed, TypeOK, SendType, InFlight, Threads, Delivery, Counted
    <3>2. For(sendQ[s], sessionID[s])
      BY <2>1, <3>1 DEF Meant
    <3>3. For(InFlight(s), sessionID[s])
      <4>1. DOMAIN <<>> = {}
        OBVIOUS
      <4>2. cur[Acceptor] = s /\ pc[Acceptor] = "init_rest" => InFlight(s) = <<>>
        BY <3>1 DEF InFlight, Owners
      <4>3. InFlight(s) \in {<<>>, sending[s]}
        BY DEF InFlight
      <4> QED
        BY <2>1, <3>1, <4>1, <4>2, <4>3 DEF Meant, For
    <3>4. PICK a \in Nat, b \in Nat : a = Len(sendQ[s]) /\ b = Len(InFlight(s))
      BY <3>1, LenProperties
    <3>5. /\ i \in 1 .. a + b
          /\ i <= a => q[i] = sendQ[s][i] /\ i \in DOMAIN sendQ[s]
          /\ i > a => q[i] = InFlight(s)[i - a] /\ i - a \in DOMAIN InFlight(s)
      <4>1. /\ q \in Seq(Msgs) /\ Len(q) = a + b
            /\ \A j \in 1 .. a + b : q[j] = IF j <= a THEN sendQ[s][j] ELSE InFlight(s)[j - a]
        BY <2>1, <3>1, <3>4, ConcatProperties
      <4>2. /\ DOMAIN q = 1 .. a + b /\ DOMAIN sendQ[s] = 1 .. a
            /\ DOMAIN InFlight(s) = 1 .. b
        BY <3>1, <3>4, <4>1, LenProperties
      <4>3. i \in 1 .. a + b
        BY <2>1, <4>2
      <4>4. /\ i <= a => i \in 1 .. a
            /\ i > a => i - a \in 1 .. b /\ ~(i <= a)
        BY <3>4, <4>3
      <4> QED
        BY <4>1, <4>2, <4>3, <4>4
    <3>6. i <= a \/ i > a
      BY <3>4, <3>5
    <3> QED
      BY <3>2, <3>3, <3>5, <3>6 DEF For
  <2> QED
    BY <2>1 DEF NoMisdelivery, Own
<1> QED
  BY <1>1, InitDelivered, StepDelivered, SoundInvariant, PTL DEF Spec

-----------------------------------------------------------------------------
(* Where a message is: in the hands of the content, or in one place of one *)
(* of the two lines of a slot, or it has been given back.                  *)
Sides            == {0, 1}
Line(s, k)       == IF k = 0 THEN sendQ[s] ELSE InFlight(s)
Lies(m, s, k, i) == i \in DOMAIN Line(s, k) /\ Line(s, k)[i] = m
Nowhere(m)       == \A s \in Slots, k \in Sides : \A i : ~Lies(m, s, k, i)
Waits(m) ==
  \E s \in Slots, k \in Sides : \E i :
    /\ Lies(m, s, k, i)
    /\ \A r \in Slots, l \in Sides : \A j : Lies(m, r, l, j) => r = s /\ l = k /\ j = i
Placed(m) ==
  \/ freed[m] = (IF m <= count.msgs THEN 1 ELSE 0) /\ msg[Content] # m /\ Nowhere(m)
  \/ freed[m] = 0 /\ m <= count.msgs /\ msg[Content] = m /\ Nowhere(m)
  \/ freed[m] = 0 /\ m <= count.msgs /\ msg[Content] # m /\ Waits(m)

(* Only SendPacket has a message in its hands.  The batch of a session is  *)
(* empty before SendFlag is set and until its owner fills it, and so is    *)
(* that of an index that was never used.                                   *)
Carried == (\A t \in Threads : t # Content => msg[t] = 0) /\ (msg[Content] # 0 => Sending)
Emptied == {"sp_size", "sp_clear", "sp_inc", "sp_take", "sc_flag"}
Ready(s) == ~sendFlag[s] \/ Owners(s, Emptied) # {}
Fresh(s) ==
  \/ sending[s] = <<>>
  \/ IF Live(s) THEN ~Ready(s) \/ (cur[Acceptor] = s /\ pc[Acceptor] = "init_rest")
                ELSE releaseFlag[s]
Once == (\A m \in Msgs : Placed(m)) /\ \A s \in Slots : Fresh(s)
Kept == Carried /\ count.msgs <= MaxMsgs /\ (count.late = 0 => Once)

(* A message is told from the null message, and the lines hold messages.   *)
LEMMA LinesType ==
  ASSUME Typed
  PROVE  /\ \A s \in Slots, k \in Sides : Line(s, k) \in Seq(Msgs)
         /\ \A m \in Msgs : m \in Nat \ {0} /\ freed[m] \in Nat
         /\ count.msgs \in Nat /\ Content \in Threads /\ Acceptor \in Threads
<1>1. \A s \in Slots : sendQ[s] \in Seq(Msgs) /\ InFlight(s) \in Seq(Msgs)
  BY DEF Typed, TypeOK, SendType, InFlight
<1>2. \A m \in Msgs : m \in Nat \ {0}
  BY BoundsAssumption DEF Msgs
<1> QED
  BY <1>1, <1>2 DEF Line, Typed, TypeOK, CountOK, Threads

(* A step that leaves a message where it is.                               *)
LEMMA PlacedKept ==
  ASSUME NEW m \in Msgs, Placed(m), freed'[m] = freed[m],
         msg'[Content] = m <=> msg[Content] = m, m <= count'.msgs <=> m <= count.msgs,
         \A s \in Slots, k \in Sides : Line(s, k)' = Line(s, k)
  PROVE  Placed(m)'
<1>1. \A s \in Slots, k \in Sides : \A i : Lies(m, s, k, i)' <=> Lies(m, s, k, i)
  BY DEF Lies
<1>2. (Nowhere(m) => Nowhere(m)') /\ (Waits(m) => Waits(m)')
  BY <1>1 DEF Nowhere, Waits
<1> QED
  BY <1>2 DEF Placed

(* SubRef, of a message that is in a line at most once.                    *)
LEMMA OccursOnce ==
  ASSUME NEW q, NEW m, \A i, j \in DOMAIN q : q[i] = m /\ q[j] = m => i = j
  PROVE  Occurs(q, m) = IF \E i \in DOMAIN q : q[i] = m THEN 1 ELSE 0
<1>1. CASE \E i \in DOMAIN q : q[i] = m
  <2>1. PICK i \in DOMAIN q : q[i] = m
    BY <1>1
  <2>2. Positions(q, m) = {i}
    BY <2>1 DEF Positions
  <2> QED
    BY <1>1, <2>2, FS_Singleton DEF Occurs
<1>2. CASE ~\E i \in DOMAIN q : q[i] = m
  <2>1. Positions(q, m) = {}
    BY <1>2 DEF Positions
  <2> QED
    BY <1>2, <2>1, FS_EmptySet DEF Occurs
<1> QED
  BY <1>1, <1>2

(* The caller of SendPacket gives its message back.                        *)
LEMMA PlacedBack ==
  ASSUME NEW m \in Msgs, m # 0, freed[m] \in Nat, m \in Nat, count.msgs \in Nat, Placed(m),
         freed' = [n \in Msgs |-> freed[n] + Occurs(<<msg[Content]>>, n)],
         msg'[Content] = 0, count'.msgs = count.msgs,
         \A s \in Slots, k \in Sides : Line(s, k)' = Line(s, k)
  PROVE  Placed(m)'
<1>1. DOMAIN <<msg[Content]>> = {1} /\ <<msg[Content]>>[1] = msg[Content]
  OBVIOUS
<1>2. Occurs(<<msg[Content]>>, m) = IF msg[Content] = m THEN 1 ELSE 0
  BY <1>1, OccursOnce
<1>3. \A s \in Slots, k \in Sides : \A i : Lies(m, s, k, i)' <=> Lies(m, s, k, i)
  BY DEF Lies
<1>4. (Nowhere(m) => Nowhere(m)') /\ (Waits(m) => Waits(m)')
  BY <1>3 DEF Nowhere, Waits
<1> QED
  BY <1>2, <1>4 DEF Placed

(* A whole line, or both lines of a slot, are given back.                  *)
LEMMA PlacedFreed ==
  ASSUME NEW m \in Msgs, freed[m] \in Nat, m \in Nat, count.msgs \in Nat, Placed(m),
         msg'[Content] = msg[Content], count'.msgs = count.msgs,
         NEW s \in Slots, NEW K \in SUBSET Sides,
         \A k \in K : Line(s, k)' = <<>>,
         \A r \in Slots, k \in Sides : r # s \/ k \notin K => Line(r, k)' = Line(r, k),
         freed'[m] = freed[m] + (IF \E k \in K : \E i : Lies(m, s, k, i) THEN 1 ELSE 0)
  PROVE  Placed(m)'
<1>1. DOMAIN <<>> = {}
  OBVIOUS
<1>2. /\ \A r \in Slots, k \in Sides : \A i : Lies(m, r, k, i)' => Lies(m, r, k, i)
      /\ \A k \in K : \A i : ~Lies(m, s, k, i)'
      /\ \A r \in Slots, k \in Sides : \A i :
           r # s \/ k \notin K => (Lies(m, r, k, i)' <=> Lies(m, r, k, i))
  BY <1>1 DEF Lies
<1>3. Nowhere(m) => Nowhere(m)' /\ freed'[m] = freed[m]
  BY <1>2 DEF Nowhere
<1>4. ASSUME Waits(m), \E k \in K : \E i : Lies(m, s, k, i)
      PROVE  Nowhere(m)' /\ freed'[m] = freed[m] + 1
  BY <1>2, <1>4 DEF Nowhere, Waits
<1>5. ASSUME Waits(m), ~\E k \in K : \E i : Lies(m, s, k, i)
      PROVE  Waits(m)' /\ freed'[m] = freed[m]
  BY <1>2, <1>5 DEF Waits
<1> QED
  BY <1>3, <1>4, <1>5 DEF Placed

(* Plain steps leave the lines alone if they leave SendQ and msg alone.    *)
LEMMA LinesPlain ==
  ASSUME Sound, NEW s \in Slots, NEW t \in Threads, Plain(t),
         sendQ'[s] = sendQ[s], sending'[s] = sending[s]
  PROVE  \A k \in Sides : Line(s, k)' = Line(s, k)
<1>1. /\ {"rel_leave", "rel_clean"} \in SUBSET (Setup \cup ReleasePoints)
      /\ {"init_rest"} \in SUBSET (Setup \cup ReleasePoints) /\ Typed
  BY DEF Setup, Window, ReleasePoints, Sound
<1>2. /\ Owners(s, {"rel_leave", "rel_clean"})' = Owners(s, {"rel_leave", "rel_clean"})
      /\ Owners(s, {"init_rest"})' = Owners(s, {"init_rest"})
  BY <1>1, PlainOpen
<1> QED
  BY <1>2 DEF Line, InFlight, Plain

(* A slot whose batch a step leaves alone.                                 *)
LEMMA FreshBy ==
  ASSUME NEW s \in Slots, Fresh(s), sending'[s] = sending[s], Live(s)' <=> Live(s),
         Ready(s)' => Ready(s), releaseFlag[s] => releaseFlag'[s],
         cur[Acceptor] = s /\ pc[Acceptor] = "init_rest" =>
           cur'[Acceptor] = s /\ pc'[Acceptor] = "init_rest"
  PROVE  Fresh(s)'
BY DEF Fresh

(* SendFlag in the steps of calls: whoever claims it has found it clear,   *)
(* and it is cleared by the one who has claimed it.                        *)
LEMMA CallsFlag ==
  ASSUME Typed, NEW t \in Threads, Calls(t)
  PROVE  \/ UNCHANGED sendFlag /\ (pc'[t] \in Emptied => pc[t] \in Emptied)
         \/ pc[t] \in Emptied /\ sendFlag' = [sendFlag EXCEPT ![cur[t]] = FALSE]
         \/ sendFlag' = [sendFlag EXCEPT ![cur[t]] = TRUE]
              /\ (sendFlag[cur[t]] => pc'[t] \notin Emptied)
<1>1. pc \in [Threads -> Points] /\ (Return(t) => pc'[t] \notin Emptied)
  <2>1. Return(t) => pc'[t] \in {"idle"} \cup ReturnPoints
    BY ReturnIs DEF Typed
  <2> QED
    BY <2>1 DEF Emptied, ReturnPoints, Typed, TypeOK, ControlType
<1>2. ASSUME NEW p, NEW q, Goto(t, p) \/ Enter(t, p, q)
      PROVE  pc'[t] = p
  BY <1>1, <1>2 DEF Goto, Enter
<1>3. CASE \/ Dec(t) \/ ReleaseCommit(t) \/ ReleaseLeave(t) \/ ReleaseClean(t) \/ ReleasePush(t)
  <2>1. UNCHANGED sendFlag
    BY <1>3 DEF Dec, ReleaseCommit, ReleaseIf, ReleaseLeave, ReleaseClean, CleanUp, ReleasePush, send
  <2>2. Return(t) \/ \E p \in {"rel_cas"} \cup ReleasePoints : Goto(t, p)
    BY <1>3 DEF Dec, ReleaseCommit, ReleaseIf, ReleaseLeave, ReleaseClean, CleanUp, ReleasePush,
                ReleasePoints
  <2> QED
    BY <1>1, <1>2, <2>1, <2>2 DEF Emptied, ReleasePoints
<1>4. CASE UseInc(t) \/ UseUndo(t) \/ SendCheck(t) \/ SendEnqueue(t) \/ SendNotify(t)
  <2>1. UNCHANGED sendFlag
    BY <1>4 DEF UseInc, Increment, UseUndo, Undo, SendCheck, CheckID, SendEnqueue, SendNotify, send
  <2>2. \/ Return(t) \/ Enter(t, "rel_cas", Tail(ret[t]))
        \/ \E p \in {"use_undo", "snd_enqueue", "snd_notify", "dec"} : Goto(t, p)
    BY <1>4 DEF UseInc, Increment, UseUndo, Undo, SendCheck, CheckID, SendEnqueue, SendNotify
  <2> QED
    BY <1>1, <1>2, <2>1, <2>2 DEF Emptied
<1>5. CASE \/ DisconnectCheck(t) \/ DisconnectFlag(t) \/ DisconnectSocket(t)
           \/ DisconnectMark(t) \/ DisconnectCancel(t)
  <2>1. UNCHANGED sendFlag
    BY <1>5 DEF DisconnectCheck, DisconnectFlag, DisconnectSocket, DisconnectMark,
                DisconnectCancel, send
  <2>2. \E p \in ClosePoints \cup {"dec"} : Goto(t, p)
    BY <1>5 DEF DisconnectCheck, DisconnectFlag, DisconnectSocket, DisconnectMark,
                DisconnectCancel, ClosePoints
  <2> QED
    BY <1>2, <2>1, <2>2 DEF Emptied, ClosePoints
<1>6. CASE RecvPost(t) \/ RecvInc(t) \/ RecvIssue(t) \/ RecvPended(t) \/ RecvFailed(t)
  <2>1. UNCHANGED sendFlag
    BY <1>6 DEF RecvPost, RecvInc, CountRecv, RecvIssue, RecvPended, RecvFailed, send
  <2>2. Return(t) \/ \E p \in RecvPoints \cup {"dec"} : Goto(t, p)
    BY <1>6 DEF RecvPost, RecvInc, CountRecv, RecvIssue, RecvPended, RecvFailed, RecvPoints
  <2> QED
    BY <1>1, <1>2, <2>1, <2>2 DEF Emptied, RecvPoints
<1>7. CASE SendPost(t) \/ SendIssue(t) \/ SentCheck(t)
  <2>1. UNCHANGED sendFlag
    BY <1>7 DEF SendPost, SendIssue, SentCheck, send
  <2>2. \/ Return(t) \/ Enter(t, "sp_discon", <<"dec">>)
        \/ \E p \in {"sp_flag", "dec"} : Goto(t, p)
    BY <1>7 DEF SendPost, SendIssue, SentCheck
  <2> QED
    BY <1>1, <1>2, <2>1, <2>2 DEF Emptied
<1>8. CASE SendSize(t) \/ SendInc(t)
  BY <1>8 DEF SendSize, SendInc, send, Emptied
<1>9. CASE SendClaim(t)
  <2>1. /\ sendFlag' = [sendFlag EXCEPT ![cur[t]] = TRUE]
        /\ sendFlag[cur[t]] => Return(t)
    BY <1>9 DEF SendClaim, Claim
  <2> QED
    BY <1>1, <2>1
<1>10. CASE SendClear(t) \/ SentFlag(t)
  BY <1>10 DEF SendClear, SentFlag, Emptied
<1>11. CASE SendTake(t)
  <2>1. pc[t] = "sp_take"
    BY <1>11 DEF SendTake
  <2>2. \/ sendFlag' = [sendFlag EXCEPT ![cur[t]] = FALSE]
        \/ UNCHANGED sendFlag
    BY <1>11 DEF SendTake
  <2> QED
    BY <2>1, <2>2 DEF Emptied
<1> QED
  BY <1>3, <1>4, <1>5, <1>6, <1>7, <1>8, <1>9, <1>10, <1>11 DEF Calls

(* So no call makes a session ready for a batch that was not before.       *)
LEMMA CallsReady ==
  ASSUME Typed, NEW t \in Threads, Calls(t), Settle(t), UNCHANGED cur, NEW s \in Slots
  PROVE  Ready(s)' => Ready(s)
<1>1. sendFlag \in [Slots -> BOOLEAN] /\ cur[t] \in Slots
  BY DEF Typed, TypeOK, SendType, CallType
<1>2. Owners(s, Emptied)' \subseteq Owners(s, Emptied) \cup {t}
      /\ (pc[t] \in Emptied /\ cur[t] = s => Owners(s, Emptied) # {})
      /\ (pc'[t] \notin Emptied \/ cur[t] # s => Owners(s, Emptied)' \subseteq Owners(s, Emptied))
  BY DEF Owners, Settle
<1>3. CASE UNCHANGED sendFlag /\ (pc'[t] \in Emptied => pc[t] \in Emptied)
  BY <1>2, <1>3 DEF Ready
<1>4. CASE pc[t] \in Emptied /\ sendFlag' = [sendFlag EXCEPT ![cur[t]] = FALSE]
  BY <1>1, <1>2, <1>4 DEF Ready
<1>5. CASE /\ sendFlag' = [sendFlag EXCEPT ![cur[t]] = TRUE]
           /\ sendFlag[cur[t]] => pc'[t] \notin Emptied
  BY <1>1, <1>2, <1>5 DEF Ready
<1> QED
  BY <1>3, <1>4, <1>5, CallsFlag

(* SendPacket has the message in its hands until it queues it or gives it  *)
(* back.                                                                   *)
LEMMA CallsCarried ==
  ASSUME Sound, Carried, NEW t \in Threads, Calls(t)
  PROVE  Carried'
<1>1. /\ Typed /\ TypeOK /\ Settle(t) /\ UNCHANGED cur /\ Content \in Threads
      /\ msg'[t] \in {msg[t], 0} /\ \A u \in Threads : u # t => msg'[u] = msg[u]
  BY CallsAre DEF Sound, Typed, Threads
<1>2. \A u \in Threads : u # Content => msg'[u] = 0
  BY <1>1 DEF Carried
<1>3. CASE t # Content
  <2>1. Sending' <=> Sending
    BY <1>1, <1>3 DEF Sending, Settle
  <2> QED
    BY <1>1, <1>2, <1>3, <2>1 DEF Carried
<1>4. CASE t = Content
  <2> SUFFICES ASSUME msg'[t] # 0 PROVE Sending'
    BY <1>2, <1>4 DEF Carried
  <2>1. Sending /\ msg'[t] = msg[t] /\ msg[t] # 0
    BY <1>1, <1>4 DEF Carried
  <2>2. pc \in [Threads -> Points] /\ ret \in [Threads -> Seq(ReturnPoints)]
        /\ msg \in [Threads -> 0 .. MaxMsgs]
    BY <1>1 DEF TypeOK, ControlType, CallType
  <2>3. CASE pc[t] \in Using
    <3>1. ret[t] = <<"snd_check">>
      BY <1>4, <2>1, <2>3 DEF Sending, Using
    <3>2. UseInc(t) \/ UseUndo(t)
      <4>1. pc[t] \notin {"dec", "rel_cas", "sc_flag", "sc_check"} \cup ReleasePoints
              \cup PacketPoints \cup ClosePoints \cup RecvPoints \cup SendPoints
        BY <2>3 DEF Using, ReleasePoints, PacketPoints, ClosePoints, RecvPoints, SendPoints
      <4>2. ~(Dec(t) \/ ReleaseCommit(t) \/ ReleaseLeave(t) \/ ReleaseClean(t) \/ ReleasePush(t))
        BY <4>1 DEF Dec, ReleaseCommit, ReleaseIf, ReleaseLeave, ReleaseClean, CleanUp, ReleasePush,
                    ReleasePoints
      <4>3. ~(SendCheck(t) \/ SendEnqueue(t) \/ SendNotify(t))
        BY <4>1 DEF SendCheck, CheckID, SendEnqueue, SendNotify, PacketPoints
      <4>4. ~(\/ DisconnectCheck(t) \/ DisconnectFlag(t) \/ DisconnectSocket(t)
              \/ DisconnectMark(t) \/ DisconnectCancel(t))
        BY <4>1 DEF DisconnectCheck, DisconnectFlag, DisconnectSocket, DisconnectMark,
                    DisconnectCancel, ClosePoints
      <4>5. ~(RecvPost(t) \/ RecvInc(t) \/ RecvIssue(t) \/ RecvPended(t) \/ RecvFailed(t))
        BY <4>1 DEF RecvPost, RecvInc, CountRecv, RecvIssue, RecvPended, RecvFailed, RecvPoints
      <4>6. ~(\/ SendPost(t) \/ SendClaim(t) \/ SendSize(t) \/ SendClear(t) \/ SendInc(t)
              \/ SendTake(t) \/ SendIssue(t) \/ SentFlag(t) \/ SentCheck(t))
        BY <4>1 DEF SendPost, SendClaim, Claim, SendSize, SendClear, SendInc, SendTake, SendIssue,
                    SentFlag, SentCheck, SendPoints
      <4> QED
        BY <4>2, <4>3, <4>4, <4>5, <4>6 DEF Calls
    <3>3. \/ Return(t) \/ Goto(t, "use_undo")
          \/ msg' = [msg EXCEPT ![t] = 0]
      BY <3>2 DEF UseInc, Increment, UseUndo, Undo
    <3>4. CASE Return(t)
      BY <1>1, <1>4, <3>1, <3>4, ReturnShape DEF Sending
    <3>5. CASE Goto(t, "use_undo")
      BY <1>4, <2>2, <3>1, <3>5 DEF Goto, Sending, Using
    <3>6. msg' # [msg EXCEPT ![t] = 0]
      BY <2>2
    <3> QED
      BY <3>3, <3>4, <3>5, <3>6
  <2>4. CASE pc[t] \in {"snd_check", "snd_enqueue"}
    <3>1. SendCheck(t) \/ SendEnqueue(t)
      <4>1. pc[t] \notin {"dec", "rel_cas", "sc_flag", "sc_check", "snd_notify"} \cup ReleasePoints
              \cup Using \cup ClosePoints \cup RecvPoints \cup SendPoints
        BY <2>4 DEF Using, ReleasePoints, ClosePoints, RecvPoints, SendPoints
      <4>2. ~(Dec(t) \/ ReleaseCommit(t) \/ ReleaseLeave(t) \/ ReleaseClean(t) \/ ReleasePush(t))
        BY <4>1 DEF Dec, ReleaseCommit, ReleaseIf, ReleaseLeave, ReleaseClean, CleanUp, ReleasePush,
                    ReleasePoints
      <4>3. ~(UseInc(t) \/ UseUndo(t) \/ SendNotify(t))
        BY <4>1 DEF UseInc, Increment, UseUndo, Undo, SendNotify, Using
      <4>4. ~(\/ DisconnectCheck(t) \/ DisconnectFlag(t) \/ DisconnectSocket(t)
              \/ DisconnectMark(t) \/ DisconnectCancel(t))
        BY <4>1 DEF DisconnectCheck, DisconnectFlag, DisconnectSocket, DisconnectMark,
                    DisconnectCancel, ClosePoints
      <4>5. ~(RecvPost(t) \/ RecvInc(t) \/ RecvIssue(t) \/ RecvPended(t) \/ RecvFailed(t))
        BY <4>1 DEF RecvPost, RecvInc, CountRecv, RecvIssue, RecvPended, RecvFailed, RecvPoints
      <4>6. ~(\/ SendPost(t) \/ SendClaim(t) \/ SendSize(t) \/ SendClear(t) \/ SendInc(t)
              \/ SendTake(t) \/ SendIssue(t) \/ SentFlag(t) \/ SentCheck(t))
        BY <4>1 DEF SendPost, SendClaim, Claim, SendSize, SendClear, SendInc, SendTake, SendIssue,
                    SentFlag, SentCheck, SendPoints
      <4> QED
        BY <4>2, <4>3, <4>4, <4>5, <4>6 DEF Calls
    <3>2. Goto(t, "snd_enqueue") \/ msg' = [msg EXCEPT ![t] = 0]
      BY <3>1 DEF SendCheck, CheckID, SendEnqueue
    <3>3. CASE Goto(t, "snd_enqueue")
      BY <1>4, <2>2, <3>3 DEF Goto, Sending
    <3>4. msg' # [msg EXCEPT ![t] = 0]
      BY <2>2
    <3> QED
      BY <3>2, <3>3, <3>4
  <2> QED
    BY <1>4, <2>1, <2>3, <2>4 DEF Sending
<1> QED
  BY <1>3, <1>4

(* SendPacket queues its message.                                          *)
LEMMA PlacedQueued ==
  ASSUME Typed, NEW m \in Msgs, Placed(m), freed'[m] = freed[m], count'.msgs = count.msgs,
         msg[Content] # 0, msg'[Content] = 0, msg[Content] \in Msgs, NEW s \in Slots,
         Line(s, 0)' = Append(Line(s, 0), msg[Content]),
         \A r \in Slots, k \in Sides : r # s \/ k # 0 => Line(r, k)' = Line(r, k)
  PROVE  Placed(m)'
<1>1. /\ Line(s, 0) \in Seq(Msgs) /\ 0 \in Sides /\ m \in Nat \ {0}
      /\ \A r \in Slots, k \in Sides : k # 0 => k = 1
  BY LinesType DEF Sides
<1>2. PICK n \in Nat : n = Len(Line(s, 0))
  BY <1>1, LenProperties
<1>3. /\ DOMAIN Line(s, 0) = 1 .. n /\ DOMAIN Line(s, 0)' = 1 .. n + 1
      /\ Line(s, 0)'[n + 1] = msg[Content] /\ \A i \in 1 .. n : Line(s, 0)'[i] = Line(s, 0)[i]
  BY <1>1, <1>2, AppendProperties, LenProperties
<1>4. (\A i \in 1 .. n + 1 : i \in 1 .. n \/ i = n + 1) /\ (\A i \in 1 .. n : i \in 1 .. n + 1)
      /\ n + 1 \in 1 .. n + 1
  BY <1>2
<1>5. /\ \A i : Lies(m, s, 0, i)' <=> Lies(m, s, 0, i) \/ (i = n + 1 /\ msg[Content] = m)
      /\ \A r \in Slots, k \in Sides : \A i :
           r # s \/ k # 0 => (Lies(m, r, k, i)' <=> Lies(m, r, k, i))
  <2>1. \A i : Lies(m, s, 0, i)' <=> Lies(m, s, 0, i) \/ (i = n + 1 /\ msg[Content] = m)
    <3>1. n + 1 \notin 1 .. n
      BY <1>2
    <3> QED
      BY <1>3, <1>4, <3>1 DEF Lies
  <2> QED
    BY <2>1 DEF Lies
<1>6. CASE msg[Content] = m
  <2>1. freed[m] = 0 /\ m <= count.msgs /\ Nowhere(m)
    BY <1>6 DEF Placed
  <2>2. Lies(m, s, 0, n + 1)'
    BY <1>5, <1>6
  <2>3. \A r \in Slots, k \in Sides : \A i : Lies(m, r, k, i)' => r = s /\ k = 0 /\ i = n + 1
    BY <1>5, <2>1 DEF Nowhere
  <2>4. Waits(m)'
    BY <1>1, <2>2, <2>3 DEF Waits
  <2> QED
    BY <1>1, <2>1, <2>4 DEF Placed
<1>7. CASE msg[Content] # m
  <2>1. \A r \in Slots, k \in Sides : \A i : Lies(m, r, k, i)' <=> Lies(m, r, k, i)
    BY <1>5, <1>7
  <2>2. (Nowhere(m) => Nowhere(m)') /\ (Waits(m) => Waits(m)')
    BY <2>1 DEF Nowhere, Waits
  <2> QED
    BY <1>1, <1>7, <2>2 DEF Placed
<1> QED
  BY <1>6, <1>7

(* SendPost moves the first messages of the queue into the empty batch.    *)
LEMMA PlacedTaken ==
  ASSUME Typed, NEW m \in Msgs, Placed(m), freed'[m] = freed[m], count'.msgs = count.msgs,
         msg'[Content] = msg[Content], NEW s \in Slots, Line(s, 1) = <<>>,
         NEW n \in 1 .. Len(Line(s, 0)),
         Line(s, 1)' = SubSeq(Line(s, 0), 1, n),
         Line(s, 0)' = SubSeq(Line(s, 0), n + 1, Len(Line(s, 0))),
         \A r \in Slots, k \in Sides : r # s => Line(r, k)' = Line(r, k)
  PROVE  Placed(m)'
<1>1. Line(s, 0) \in Seq(Msgs) /\ 0 \in Sides /\ 1 \in Sides /\ \A k \in Sides : k = 0 \/ k = 1
  BY LinesType DEF Sides
<1>2. PICK z, q : z \in Nat /\ z = Len(Line(s, 0)) /\ q = Line(s, 0)
  BY <1>1, LenProperties
<1>3. z \in Nat /\ n \in 1 .. z /\ q \in Seq(Msgs) /\ DOMAIN q = 1 .. z
  BY <1>1, <1>2, LenProperties
<1>4. /\ DOMAIN Line(s, 1)' = 1 .. n /\ \A i \in 1 .. n : Line(s, 1)'[i] = q[i]
      /\ DOMAIN Line(s, 0)' = 1 .. z - n /\ \A i \in 1 .. z - n : Line(s, 0)'[i] = q[n + i]
  <2>1. DOMAIN SubSeq(q, 1, n) = 1 .. n /\ \A i \in 1 .. n : SubSeq(q, 1, n)[i] = q[i]
    <3>1. /\ Len(SubSeq(q, 1, n)) = n /\ SubSeq(q, 1, n) \in Seq(Msgs)
          /\ \A i \in 1 .. n : SubSeq(q, 1, n)[i] = q[i]
      <4>1. \A i \in 1 .. n : q[i] \in Msgs
        BY <1>3
      <4> QED
        BY <1>3, <4>1, SubSeqProperties
    <3> QED
      BY <3>1, LenProperties
  <2>2. DOMAIN SubSeq(q, n + 1, z) = 1 .. z - n /\ \A i \in 1 .. z - n : SubSeq(q, n + 1, z)[i] = q[n + i]
    <3>1. PICK a \in Nat : a = n + 1
      BY <1>3
    <3>2. a \in 1 .. z + 1 /\ (\A i \in a .. z : i \in 1 .. z)
      BY <1>3, <3>1
    <3>3. \A i \in a .. z : q[i] \in Msgs
      BY <1>3, <3>2
    <3>4. SubSeq(q, a, z) \in Seq(Msgs)
      BY <1>3, <3>2, <3>3, SubSeqProperties
    <3>5. /\ Len(SubSeq(q, a, z)) = z - n
          /\ \A i \in 1 .. z - n : SubSeq(q, a, z)[i] = q[a + i - 1]
      <4>1. Len(SubSeq(q, a, z)) = IF a <= z THEN z - a + 1 ELSE 0
        BY <1>3, <3>2, <3>3, SubSeqProperties
      <4>2. \A i \in 1 .. z - a + 1 : SubSeq(q, a, z)[i] = q[a + i - 1]
        BY <1>3, <3>2, <3>3, SubSeqProperties
      <4>3. z - a + 1 = z - n /\ (IF a <= z THEN z - a + 1 ELSE 0) = z - n
        BY <1>3, <3>1
      <4> QED
        BY <4>1, <4>2, <4>3
    <3>6. \A i \in 1 .. z - n : a + i - 1 = n + i
      BY <1>3, <3>1
    <3> QED
      BY <3>1, <3>4, <3>5, <3>6, LenProperties
  <2> QED
    BY <1>2, <2>1, <2>2
<1>5. /\ \A i : Lies(m, s, 1, i)' <=> i \in 1 .. n /\ q[i] = m
      /\ \A i : Lies(m, s, 0, i)' <=> i \in 1 .. z - n /\ q[n + i] = m
      /\ \A i : Lies(m, s, 0, i) <=> i \in 1 .. z /\ q[i] = m
      /\ \A i : ~Lies(m, s, 1, i)
      /\ \A r \in Slots, k \in Sides : \A i : r # s => (Lies(m, r, k, i)' <=> Lies(m, r, k, i))
  <2>1. DOMAIN <<>> = {}
    OBVIOUS
  <2> QED
    BY <1>2, <1>3, <1>4, <2>1 DEF Lies
<1>6. ASSUME NEW p \in Slots, NEW l \in Sides, NEW j, Lies(m, p, l, j)'
      PROVE  \/ p # s /\ Lies(m, p, l, j)
             \/ p = s /\ l = 1 /\ j \in 1 .. n /\ Lies(m, s, 0, j)
             \/ p = s /\ l = 0 /\ j \in 1 .. z - n /\ Lies(m, s, 0, n + j)
  <2>1. CASE p # s
    BY <1>5, <1>6, <2>1
  <2>2. CASE p = s /\ l = 1
    <3>1. j \in 1 .. n /\ q[j] = m
      BY <1>5, <1>6, <2>2
    <3>2. j \in 1 .. z
      BY <1>3, <3>1
    <3> QED
      BY <1>5, <2>2, <3>1, <3>2
  <2>3. CASE p = s /\ l = 0
    <3>1. j \in 1 .. z - n /\ q[n + j] = m
      BY <1>5, <1>6, <2>3
    <3>2. n + j \in 1 .. z
      BY <1>3, <3>1
    <3> QED
      BY <1>5, <2>3, <3>1, <3>2
  <2> QED
    BY <1>1, <2>1, <2>2, <2>3
<1>7. Nowhere(m) => Nowhere(m)'
  <2> SUFFICES ASSUME Nowhere(m), NEW p \in Slots, NEW l \in Sides, NEW j, Lies(m, p, l, j)'
               PROVE  FALSE
    BY DEF Nowhere
  <2>1. \A r \in Slots, k \in Sides : \A i : ~Lies(m, r, k, i)
    BY DEF Nowhere
  <2> QED
    BY <1>1, <1>6, <2>1
<1>8. ASSUME Waits(m) PROVE Waits(m)'
  <2>1. PICK r \in Slots, k \in Sides : \E i :
          /\ Lies(m, r, k, i)
          /\ \A p \in Slots, l \in Sides : \A j : Lies(m, p, l, j) => p = r /\ l = k /\ j = i
    BY <1>8 DEF Waits
  <2>2. PICK i : /\ Lies(m, r, k, i)
                 /\ \A p \in Slots, l \in Sides : \A j : Lies(m, p, l, j) => p = r /\ l = k /\ j = i
    BY <2>1
  <2>3. CASE r # s
    <3>1. Lies(m, r, k, i)'
      BY <1>5, <2>2, <2>3
    <3>2. ASSUME NEW p \in Slots, NEW l \in Sides, NEW j, Lies(m, p, l, j)'
          PROVE  p = r /\ l = k /\ j = i
      <4>1. p # s /\ Lies(m, p, l, j)
        BY <1>1, <1>6, <2>2, <2>3, <3>2
      <4> QED
        BY <2>2, <4>1
    <3> QED
      BY <3>1, <3>2 DEF Waits
  <2>4. CASE r = s
    <3>1. k = 0 /\ i \in 1 .. z /\ q[i] = m
      BY <1>1, <1>5, <2>2, <2>4
    <3>2. CASE i \in 1 .. n
      <4>1. Lies(m, s, 1, i)'
        BY <1>5, <3>1, <3>2
      <4>2. ASSUME NEW p \in Slots, NEW l \in Sides, NEW j, Lies(m, p, l, j)'
            PROVE  p = s /\ l = 1 /\ j = i
        <5>1. CASE p # s /\ Lies(m, p, l, j)
          BY <2>2, <2>4, <5>1
        <5>2. CASE p = s /\ l = 1 /\ Lies(m, s, 0, j)
          BY <1>1, <2>2, <5>2
        <5>3. CASE p = s /\ l = 0 /\ j \in 1 .. z - n /\ Lies(m, s, 0, n + j)
          <6>1. n + j = i
            BY <1>1, <2>2, <5>3
          <6>2. n + j \notin 1 .. n
            BY <1>3, <5>3
          <6> QED
            BY <3>2, <6>1, <6>2
        <5> QED
          BY <1>6, <4>2, <5>1, <5>2, <5>3
      <4> QED
        BY <1>1, <4>1, <4>2 DEF Waits
    <3>3. CASE i \notin 1 .. n
      <4>1. PICK h \in Int : h \in 1 .. z - n /\ n + h = i
        <5>1. i - n \in Int /\ i - n \in 1 .. z - n /\ n + (i - n) = i
          BY <1>3, <3>1, <3>3
        <5> QED
          BY <5>1
      <4>2. Lies(m, s, 0, h)'
        BY <1>5, <3>1, <4>1
      <4>3. ASSUME NEW p \in Slots, NEW l \in Sides, NEW j, Lies(m, p, l, j)'
            PROVE  p = s /\ l = 0 /\ j = h
        <5>1. CASE p # s /\ Lies(m, p, l, j)
          BY <2>2, <2>4, <5>1
        <5>2. CASE p = s /\ l = 1 /\ j \in 1 .. n /\ Lies(m, s, 0, j)
          <6>1. j = i
            BY <1>1, <2>2, <5>2
          <6> QED
            BY <3>3, <5>2, <6>1
        <5>3. CASE p = s /\ l = 0 /\ j \in 1 .. z - n /\ Lies(m, s, 0, n + j)
          <6>1. n + j = i
            BY <1>1, <2>2, <5>3
          <6>2. j = h
            BY <1>3, <4>1, <5>3, <6>1
          <6> QED
            BY <5>3, <6>2
        <5> QED
          BY <1>6, <4>3, <5>1, <5>2, <5>3
      <4> QED
        BY <1>1, <4>2, <4>3 DEF Waits
    <3> QED
      BY <3>2, <3>3
  <2> QED
    BY <2>3, <2>4
<1> QED
  BY <1>7, <1>8 DEF Placed

(* Most calls move no message.                                             *)
LEMMA CallsStill ==
  ASSUME NEW t \in Threads, Calls(t), ~UseUndo(t), ~SendCheck(t), ~SendEnqueue(t), ~SendTake(t),
         ~Commits(t), ~ReleaseLeave(t), ~ReleaseClean(t), ~ReleasePush(t)
  PROVE  UNCHANGED <<freed, msg, sendQ, sending>>
<1>1. CASE Dec(t) \/ ReleaseCommit(t) \/ UseInc(t) \/ SendNotify(t)
  BY <1>1 DEF Dec, ReleaseCommit, ReleaseIf, UseInc, Increment, SendNotify, send, call, log
<1>2. CASE \/ DisconnectCheck(t) \/ DisconnectFlag(t) \/ DisconnectSocket(t)
           \/ DisconnectMark(t) \/ DisconnectCancel(t)
  BY <1>2 DEF DisconnectCheck, DisconnectFlag, DisconnectSocket, DisconnectMark,
              DisconnectCancel, send, call, log
<1>3. CASE RecvPost(t) \/ RecvInc(t) \/ RecvIssue(t) \/ RecvPended(t) \/ RecvFailed(t)
  BY <1>3 DEF RecvPost, RecvInc, CountRecv, RecvIssue, RecvPended, RecvFailed, send, call, log
<1>4. CASE \/ SendPost(t) \/ SendClaim(t) \/ SendSize(t) \/ SendClear(t) \/ SendInc(t)
           \/ SendIssue(t) \/ SentFlag(t) \/ SentCheck(t)
  BY <1>4 DEF SendPost, SendClaim, Claim, SendSize, SendClear, SendInc, SendIssue, SentFlag,
              SentCheck, send, call, log
<1> QED
  BY <1>1, <1>2, <1>3, <1>4 DEF Calls

(* A call leaves the batch of a session as fresh as it was.                *)
LEMMA CallsFresh ==
  ASSUME Sound, NEW t \in Threads, Calls(t), Plain(t), NEW s \in Slots, Fresh(s),
         sending'[s] = sending[s]
  PROVE  Fresh(s)'
<1>1. Typed /\ Settle(t) /\ UNCHANGED cur /\ UNCHANGED releaseFlag
  BY CallsAre DEF Sound, Plain
<1>2. (Live(s)' <=> Live(s)) /\ (Ready(s)' => Ready(s))
  BY <1>1, PlainOpen, CallsReady
<1>3. cur[Acceptor] = s /\ pc[Acceptor] = "init_rest" =>
        cur'[Acceptor] = s /\ pc'[Acceptor] = "init_rest"
  BY PlainWindow
<1> QED
  BY <1>1, <1>2, <1>3, FreshBy

(* A call that moves no message, or gives one back.                        *)
LEMMA BackOnce ==
  ASSUME Sound, Carried, Once, NEW t \in Threads, Calls(t), Plain(t), UNCHANGED <<sendQ, sending>>,
         \/ UNCHANGED <<freed, msg>>
         \/ SubRefAll(<<msg[t]>>) /\ msg' = [msg EXCEPT ![t] = 0]
  PROVE  Once'
<1>1. Typed /\ TypeOK /\ msg \in [Threads -> 0 .. MaxMsgs] /\ Content \in Threads
  BY DEF Sound, Typed, TypeOK, CallType, Threads
<1>2. \A s \in Slots : Fresh(s)'
  BY CallsFresh DEF Once
<1>3. \A s \in Slots, k \in Sides : Line(s, k)' = Line(s, k)
  BY LinesPlain
<1>4. count' = count
  BY CallsAre
<1>5. ASSUME NEW m \in Msgs PROVE Placed(m)'
  <2>1. Placed(m) /\ m \in Nat /\ m # 0 /\ freed[m] \in Nat /\ count.msgs \in Nat
    BY <1>1, LinesType DEF Once
  <2>2. CASE UNCHANGED <<freed, msg>>
    BY <1>3, <1>4, <2>1, <2>2, PlacedKept
  <2>3. CASE SubRefAll(<<msg[t]>>) /\ msg' = [msg EXCEPT ![t] = 0] /\ t = Content
    <3>1. freed' = [n \in Msgs |-> freed[n] + Occurs(<<msg[Content]>>, n)] /\ msg'[Content] = 0
      BY <1>1, <2>3 DEF SubRefAll
    <3> QED
      BY <1>3, <1>4, <2>1, <3>1, PlacedBack
  <2>4. CASE SubRefAll(<<msg[t]>>) /\ msg' = [msg EXCEPT ![t] = 0] /\ t # Content
    <3>1. msg[t] = 0 /\ msg'[Content] = msg[Content]
      BY <1>1, <2>4 DEF Carried
    <3>2. Occurs(<<msg[t]>>, m) = 0
      <4>1. DOMAIN <<msg[t]>> = {1} /\ <<msg[t]>>[1] = msg[t]
        OBVIOUS
      <4> QED
        BY <2>1, <3>1, <4>1, OccursOnce
    <3>3. freed'[m] = freed[m]
      BY <2>1, <2>4, <3>2 DEF SubRefAll
    <3> QED
      BY <1>3, <1>4, <2>1, <3>1, <3>3, PlacedKept
  <2> QED
    BY <2>2, <2>3, <2>4
<1> QED
  BY <1>2, <1>5 DEF Once

(* The message that is queued leaves its caller's hands.                   *)
LEMMA EnqueueOnce ==
  ASSUME Sound, Delivery, Carried, Once, NEW t \in Threads, SendEnqueue(t), Plain(t)
  PROVE  Once'
<1>1. /\ Typed /\ TypeOK /\ msg \in [Threads -> 0 .. MaxMsgs] /\ Content \in Threads
      /\ cur[t] \in Slots /\ sendQ \in [Slots -> Seq(Msgs)] /\ pc[t] = "snd_enqueue"
      /\ sendQ' = [sendQ EXCEPT ![cur[t]] = Append(@, msg[t])] /\ UNCHANGED <<sending, freed>>
      /\ msg' = [msg EXCEPT ![t] = 0]
  BY DEF Sound, Typed, TypeOK, CallType, SendType, Threads, SendEnqueue, send, log
<1>2. Calls(t) /\ count' = count
  BY CallsAre DEF Calls
<1>3. t = Content
  BY <1>1 DEF Sound, Counted, Shapes, Shape, ShapeOf, PacketPoints
<1>4. msg[Content] # 0 /\ msg[Content] \in Msgs /\ msg'[Content] = 0
  <2>1. msg[Content] # 0
    BY <1>1, <1>3 DEF Typed, Returns
  <2> QED
    BY <1>1, <1>3, <2>1, BoundsAssumption DEF Msgs
<1>5. \A s \in Slots : Fresh(s)'
  BY <1>1, <1>2, CallsFresh DEF Once
<1>6. PICK s \in Slots : s = cur[t]
  BY <1>1
<1>7. /\ Line(s, 0)' = Append(Line(s, 0), msg[Content])
      /\ \A r \in Slots, k \in Sides : r # s \/ k # 0 => Line(r, k)' = Line(r, k)
  <2>1. sendQ'[s] = Append(sendQ[s], msg[Content]) /\ \A r \in Slots : r # s => sendQ'[r] = sendQ[r]
    BY <1>1, <1>3, <1>6
  <2>2. \A r \in Slots : InFlight(r)' = InFlight(r)
    <3>1. /\ {"rel_leave", "rel_clean"} \in SUBSET (Setup \cup ReleasePoints)
          /\ {"init_rest"} \in SUBSET (Setup \cup ReleasePoints)
      BY DEF Setup, Window, ReleasePoints
    <3>2. \A r \in Slots :
            /\ Owners(r, {"rel_leave", "rel_clean"})' = Owners(r, {"rel_leave", "rel_clean"})
            /\ Owners(r, {"init_rest"})' = Owners(r, {"init_rest"})
      BY <1>1, <3>1, PlainOpen
    <3> QED
      BY <1>1, <3>2 DEF InFlight, Plain
  <2> QED
    BY <2>1, <2>2 DEF Line
<1>8. ASSUME NEW m \in Msgs PROVE Placed(m)'
  <2>1. Placed(m) /\ freed'[m] = freed[m] /\ count'.msgs = count.msgs
    BY <1>1, <1>2 DEF Once
  <2> QED
    BY <1>1, <1>4, <1>7, <2>1, PlacedQueued
<1> QED
  BY <1>5, <1>8 DEF Once

(* The owner of SendFlag is alone, and has it set.                         *)
LEMMA OneSender ==
  ASSUME TypeOK, NEW s \in Slots, OneAtATime(s), NEW t \in Owners(s, Senderships)
  PROVE  sendFlag[s] /\ \A u \in Owners(s, Senderships) : u = t
<1>1. /\ Cardinality(Owners(s, Senderships)) \in Nat /\ SendNet(s) \in Nat
      /\ Senders(s) = Cardinality(Owners(s, Senderships)) + SendNet(s)
  BY RolesAre DEF RolesOK, Nets
<1>2. IsFiniteSet(Owners(s, Senderships))
  BY ThreadsFinite, FS_Subset DEF Owners
<1>3. Cardinality(Owners(s, Senderships)) # 0
  BY <1>2, FS_EmptySet
<1>4. ASSUME NEW u \in Owners(s, Senderships), u # t PROVE FALSE
  <2>1. {t, u} \subseteq Owners(s, Senderships) /\ Cardinality({t, u}) = 2
    <3>1. IsFiniteSet({t}) /\ Cardinality({t}) = 1
      BY FS_Singleton
    <3>2. u \notin {t}
      BY <1>4
    <3>3. Cardinality({t} \cup {u}) = Cardinality({t}) + 1
      BY <3>1, <3>2, FS_AddElement
    <3>4. Cardinality({t} \cup {u}) = 2
      BY <3>1, <3>3
    <3>5. {t} \cup {u} = {t, u}
      OBVIOUS
    <3> QED
      BY <3>4, <3>5
  <2>2. 2 <= Cardinality(Owners(s, Senderships))
    BY <1>2, <2>1, FS_Subset
  <2> QED
    BY <1>1, <2>2 DEF OneAtATime
<1>5. Senders(s) = 1
  BY <1>1, <1>3 DEF OneAtATime
<1> QED
  BY <1>4, <1>5 DEF OneAtATime

(* The slot of a session in use is not being set up.                       *)
LEMMA NotPrepared ==
  ASSUME Sound, NEW s \in Slots, cur[Acceptor] = s => pc[Acceptor] # "init_rest"
  PROVE  Owners(s, {"init_rest"}) = {}
BY DEF Owners, Sound, Counted, Shapes, Shape, ShapeOf, Window

(* The owner of SendFlag fills the empty batch.                            *)
LEMMA TakeOnce ==
  ASSUME Sound, count.late = 0, Carried, Once, NEW t \in Threads, SendTake(t), Plain(t)
  PROVE  Once'
<1>1. /\ Typed /\ TypeOK /\ sendQ \in [Slots -> Seq(Msgs)] /\ sending \in [Slots -> Seq(Msgs)]
      /\ pc[t] = "sp_take" /\ UNCHANGED <<freed, msg>> /\ Settle(t)
      /\ pc \in [Threads -> Points] /\ Content \in Threads
  BY DEF Sound, Typed, TypeOK, SendType, ControlType, SendTake, call, Plain, Threads
<1>2. Calls(t) /\ count' = count /\ UNCHANGED cur
  BY CallsAre DEF Calls
<1>3. PICK s \in Slots : s = cur[t]
  BY <1>1 DEF TypeOK, CallType
<1>4. PICK n : n = IF Len(sendQ[s]) > SendMax THEN SendMax ELSE Len(sendQ[s])
  OBVIOUS
<1>5. CASE n = 0
  <2>1. n > 0 \/ (UNCHANGED sendQ /\ UNCHANGED sending)
    BY <1>3, <1>4 DEF SendTake
  <2>2. UNCHANGED <<sendQ, sending>>
    BY <1>5, <2>1
  <2> QED
    BY <1>1, <1>2, <2>2, BackOnce
<1>6. CASE n # 0
  <2>1. /\ sending' = [sending EXCEPT ![s] = SubSeq(sendQ[s], 1, n)]
        /\ sendQ' = [sendQ EXCEPT ![s] = SubSeq(@, n + 1, Len(@))]
        /\ pc' = [pc EXCEPT ![t] = "sp_send"] /\ UNCHANGED sendFlag
    BY <1>3, <1>4, <1>6 DEF SendTake, Goto
  <2>2. n \in 1 .. Len(sendQ[s])
    BY <1>1, <1>4, <1>6, LenProperties, BoundsAssumption
  <2>3. InUse(s) /\ OneAtATime(s)
    <3>1. OnTime(s) /\ pc[t] \in UsePoints
      BY <1>1 DEF OnTime, UsePoints, SendPoints
    <3> QED
      BY <1>3, <3>1, Occupied DEF Sound, Counted, Balanced
  <2>4. t \in Owners(s, Emptied) /\ t \in Owners(s, Senderships)
    BY <1>1, <1>3 DEF Owners, Emptied, Senderships
  <2>5. sending[s] = <<>>
    BY <2>3, <2>4 DEF Once, Fresh, Ready, InUse, Window
  <2>6. Owners(s, {"init_rest"}) = {} /\ ~releaseFlag[s]
    BY <2>3, NotPrepared DEF InUse, Window, Live
  <2>7. \A r \in Slots : /\ Owners(r, {"rel_leave", "rel_clean"})' = Owners(r, {"rel_leave", "rel_clean"})
                         /\ Owners(r, {"init_rest"})' = Owners(r, {"init_rest"})
    <3>1. /\ {"rel_leave", "rel_clean"} \in SUBSET (Setup \cup ReleasePoints)
          /\ {"init_rest"} \in SUBSET (Setup \cup ReleasePoints)
      BY DEF Setup, Window, ReleasePoints
    <3> QED
      BY <1>1, <3>1, PlainOpen
  <2>8. InFlight(s) = <<>> /\ InFlight(s)' = SubSeq(sendQ[s], 1, n)
    BY <1>1, <2>1, <2>5, <2>6, <2>7 DEF InFlight, Plain
  <2>9. \A r \in Slots : r # s => sendQ'[r] = sendQ[r] /\ sending'[r] = sending[r]
                                  /\ InFlight(r)' = InFlight(r)
    BY <1>1, <2>1, <2>7 DEF InFlight, Plain
  <2>10. /\ Line(s, 1) = <<>> /\ Line(s, 1)' = SubSeq(Line(s, 0), 1, n)
         /\ Line(s, 0)' = SubSeq(Line(s, 0), n + 1, Len(Line(s, 0))) /\ n \in 1 .. Len(Line(s, 0))
         /\ \A r \in Slots, k \in Sides : r # s => Line(r, k)' = Line(r, k)
    BY <1>1, <2>1, <2>2, <2>8, <2>9 DEF Line
  <2>11. ASSUME NEW m \in Msgs PROVE Placed(m)'
    <3>1. Placed(m) /\ freed'[m] = freed[m] /\ count'.msgs = count.msgs /\ msg'[Content] = msg[Content]
      BY <1>1, <1>2 DEF Once
    <3> QED
      BY <1>1, <2>10, <3>1, PlacedTaken
  <2>12. Fresh(s)'
    <3>1. Live(s)'
      BY <1>1, <2>3, PlainOpen DEF InUse
    <3>2. sendFlag[s] /\ \A u \in Owners(s, Senderships) : u = t
      BY <1>1, <2>3, <2>4, OneSender
    <3>3. Owners(s, Emptied)' = {}
      <4> SUFFICES ASSUME NEW u \in Threads, cur'[u] = s, pc'[u] \in Emptied PROVE FALSE
        BY DEF Owners
      <4>1. u # t
        BY <1>1, <2>1 DEF Emptied
      <4>2. u \in Owners(s, Senderships)
        BY <1>1, <1>2, <4>1 DEF Owners, Settle, Emptied, Senderships
      <4> QED
        BY <3>2, <4>1, <4>2
    <3> QED
      BY <2>1, <3>1, <3>2, <3>3 DEF Fresh, Ready
  <2>13. \A r \in Slots : Fresh(r)'
    BY <1>1, <1>2, <2>9, <2>12, CallsFresh DEF Once
  <2> QED
    BY <2>11, <2>13 DEF Once
<1> QED
  BY <1>5, <1>6

(* The commit of a release, and its steps but for the clean-up, move no    *)
(* message: what is left of the batch is now its releaser's.               *)
LEMMA LeaveOnce ==
  ASSUME Sound, count.late = 0, Carried, Once, NEW t \in Threads,
         Commits(t) \/ ReleaseLeave(t) \/ ReleasePush(t)
  PROVE  Once'
<1>1. /\ Typed /\ Calls(t) /\ Settle(t) /\ UNCHANGED <<cur, count>> /\ Acceptor \in Threads
      /\ pc \in [Threads -> Points] /\ releaseFlag \in [Slots -> BOOLEAN]
      /\ Content \in Threads /\ sending \in [Slots -> Seq(Msgs)]
  BY CallsAre DEF Sound, Commits, Calls, Threads, Typed, TypeOK, ControlType, LifeType, SendType
<1>2. UNCHANGED <<sendQ, sending, freed, msg>>
  BY CommitOpen, ReleaseIs DEF ReleaseLeave, ReleasePush, send, call, log
<1>3. PICK s \in Slots : s = cur[t]
  BY <1>1 DEF Typed, TypeOK, CallType
<1>4. /\ pc[t] \in {"rel_cas"} \cup ReleasePoints /\ pc'[t] \in Points \ Setup
      /\ pc[t] = "rel_cas" => Commits(t) /\ pc'[t] = "rel_leave"
      /\ pc[t] = "rel_leave" => pc'[t] = "rel_clean"
      /\ pc[t] # "rel_clean" /\ (pc[t] = "rel_push" => pc'[t] \notin ReleasePoints)
  <2>1. CASE Commits(t)
    <3>1. pc[t] = "rel_cas" /\ pc'[t] = "rel_leave"
      BY <2>1, CommitOpen
    <3> QED
      BY <2>1, <3>1 DEF Points, Setup, Window, ReleasePoints
  <2>2. CASE ReleaseLeave(t) \/ ReleasePush(t)
    <3>1. pc[t] \in {"rel_leave", "rel_push"}
      BY <2>2 DEF ReleaseLeave, ReleasePush
    <3> QED
      BY <2>2, <3>1, ReleaseIs DEF ReleasePoints
  <2> QED
    BY <2>1, <2>2
<1>5. \A r \in Slots : Owners(r, {"init_rest"})' = Owners(r, {"init_rest"})
                       /\ Owners(r, InitPoints)' = Owners(r, InitPoints)
  BY <1>1, <1>4 DEF Owners, Settle, Setup, Window, InitPoints, ReleasePoints
<1>6. \A r \in Slots : r # s =>
        /\ Owners(r, {"rel_leave", "rel_clean"})' = Owners(r, {"rel_leave", "rel_clean"})
        /\ releaseFlag'[r] = releaseFlag[r]
  <2>1. \A r \in Slots : r # s =>
          Owners(r, {"rel_leave", "rel_clean"})' = Owners(r, {"rel_leave", "rel_clean"})
    BY <1>1, <1>3 DEF Owners, Settle
  <2>2. \A r \in Slots : r # s => releaseFlag'[r] = releaseFlag[r]
    BY <1>1, <1>3, CommitOpen, ReleaseIs
  <2> QED
    BY <2>1, <2>2
<1>7. InFlight(s)' = InFlight(s)
  <2>1. CASE Commits(t)
    <3>1. ~releaseFlag[s] /\ Owners(s, {"rel_leave", "rel_clean"})' # {}
      BY <1>1, <1>3, <2>1, CommitOpen DEF Owners, Commits
    <3> QED
      BY <1>2, <1>5, <3>1 DEF InFlight
  <2>2. CASE ReleaseLeave(t)
    <3>1. pc[t] = "rel_leave" /\ pc'[t] = "rel_clean"
      BY <1>4, <2>2 DEF ReleaseLeave
    <3>2. /\ Owners(s, {"rel_leave", "rel_clean"}) # {}
          /\ Owners(s, {"rel_leave", "rel_clean"})' # {}
      BY <1>1, <1>3, <3>1 DEF Owners
    <3> QED
      BY <1>2, <1>5, <3>2 DEF InFlight
  <2>3. CASE ReleasePush(t)
    <3>1. pc[t] = "rel_push" /\ UNCHANGED releaseFlag
      BY <2>3 DEF ReleasePush, life
    <3>2. pc'[t] \notin {"rel_leave", "rel_clean"}
      BY <1>4, <3>1 DEF ReleasePoints
    <3>3. Owners(s, {"rel_leave", "rel_clean"})' = Owners(s, {"rel_leave", "rel_clean"})
      BY <1>1, <3>1, <3>2 DEF Owners, Settle
    <3> QED
      BY <1>2, <1>5, <3>1, <3>3 DEF InFlight
  <2> QED
    BY <2>1, <2>2, <2>3
<1>8. \A r \in Slots, k \in Sides : Line(r, k)' = Line(r, k)
  <2>1. \A r \in Slots : r # s => InFlight(r)' = InFlight(r)
    BY <1>2, <1>5, <1>6 DEF InFlight
  <2> QED
    BY <1>2, <1>7, <2>1 DEF Line
<1>9. ASSUME NEW m \in Msgs PROVE Placed(m)'
  <2>1. Placed(m) /\ freed'[m] = freed[m] /\ msg' = msg /\ count' = count
    BY <1>1, <1>2 DEF Once
  <2> QED
    BY <1>8, <2>1, PlacedKept
<1>10. ASSUME NEW r \in Slots PROVE Fresh(r)'
  <2>1. Fresh(r) /\ sending'[r] = sending[r] /\ (Ready(r)' => Ready(r))
    BY <1>1, <1>2, CallsReady DEF Once
  <2>2. cur[Acceptor] = r /\ pc[Acceptor] = "init_rest" =>
          cur'[Acceptor] = r /\ pc'[Acceptor] = "init_rest"
    BY <1>1, <1>4 DEF Settle, ReleasePoints
  <2>3. CASE Commits(t) /\ r = s
    <3>1. releaseFlag'[s]
      BY <1>3, <2>3, CommitOpen
    <3> QED
      BY <2>3, <3>1 DEF Fresh, Live
  <2>4. CASE ~(Commits(t) /\ r = s)
    <3>1. releaseFlag'[r] = releaseFlag[r] /\ sessionID'[r] = sessionID[r]
      BY <1>3, <1>6, <2>4, CommitOpen, ReleaseIs
    <3>2. Live(r)' <=> Live(r)
      BY <1>5, <3>1 DEF Live
    <3> QED
      BY <2>1, <2>2, <3>1, <3>2, FreshBy
  <2> QED
    BY <2>3, <2>4
<1> QED
  BY <1>9, <1>10 DEF Once

(* How often a message is among those of two lines.                        *)
LEMMA OccursBoth ==
  ASSUME NEW a \in Seq(Msgs), NEW b \in Seq(Msgs), NEW m,
         \A i, j \in DOMAIN a : a[i] = m /\ a[j] = m => i = j,
         \A i, j \in DOMAIN b : b[i] = m /\ b[j] = m => i = j,
         ~((\E i \in DOMAIN a : a[i] = m) /\ (\E i \in DOMAIN b : b[i] = m))
  PROVE  Occurs(a \o b, m)
           = IF (\E i \in DOMAIN a : a[i] = m) \/ (\E i \in DOMAIN b : b[i] = m) THEN 1 ELSE 0
<1>1. PICK x \in Nat, y \in Nat : x = Len(a) /\ y = Len(b)
  BY LenProperties
<1>2. PICK c \in Seq(Msgs) : c = a \o b
  BY ConcatProperties
<1>3. /\ DOMAIN a = 1 .. x /\ DOMAIN b = 1 .. y /\ DOMAIN c = 1 .. x + y
      /\ \A i \in 1 .. x + y : c[i] = IF i <= x THEN a[i] ELSE b[i - x]
  BY <1>1, <1>2, ConcatProperties, LenProperties
<1>4. \A i \in 1 .. x : i \in 1 .. x + y /\ c[i] = a[i]
  <2>1. \A i \in 1 .. x : i \in 1 .. x + y /\ i <= x
    BY <1>1
  <2> QED
    BY <1>3, <2>1
<1>5. \A i \in 1 .. y : x + i \in 1 .. x + y /\ c[x + i] = b[i]
  <2>1. \A i \in 1 .. y : x + i \in 1 .. x + y /\ ~(x + i <= x) /\ (x + i) - x = i
    BY <1>1
  <2> QED
    BY <1>3, <2>1
<1>6. ASSUME NEW i \in 1 .. x + y, c[i] = m
      PROVE  (i \in 1 .. x /\ a[i] = m) \/ \E h \in 1 .. y : i = x + h /\ b[h] = m
  <2>1. CASE i \in 1 .. x
    BY <1>4, <1>6, <2>1
  <2>2. CASE i \notin 1 .. x
    <3>1. i - x \in 1 .. y /\ i = x + (i - x)
      BY <1>1, <2>2
    <3>2. PICK h \in 1 .. y : i = x + h
      BY <3>1
    <3>3. c[x + h] = b[h]
      BY <1>5
    <3> QED
      BY <1>6, <3>2, <3>3
  <2> QED
    BY <2>1, <2>2
<1>7. \A i, j \in DOMAIN c : c[i] = m /\ c[j] = m => i = j
  <2> SUFFICES ASSUME NEW i \in 1 .. x + y, NEW j \in 1 .. x + y, c[i] = m, c[j] = m PROVE i = j
    BY <1>3
  <2>1. (i \in 1 .. x /\ a[i] = m) \/ \E h \in 1 .. y : i = x + h /\ b[h] = m
    BY <1>6
  <2>2. (j \in 1 .. x /\ a[j] = m) \/ \E h \in 1 .. y : j = x + h /\ b[h] = m
    BY <1>6
  <2> QED
    BY <1>3, <2>1, <2>2
<1>8. (\E i \in DOMAIN c : c[i] = m) <=> (\E i \in DOMAIN a : a[i] = m) \/ (\E i \in DOMAIN b : b[i] = m)
  <2>1. (\E i \in DOMAIN c : c[i] = m) => (\E i \in DOMAIN a : a[i] = m) \/ (\E i \in DOMAIN b : b[i] = m)
    BY <1>3, <1>6
  <2>2. (\E i \in DOMAIN a : a[i] = m) => \E i \in DOMAIN c : c[i] = m
    BY <1>3, <1>4
  <2>3. ASSUME NEW i \in 1 .. y, b[i] = m PROVE \E j \in DOMAIN c : c[j] = m
    BY <1>3, <1>5, <2>3
  <2> QED
    BY <1>3, <2>1, <2>2, <2>3
<1>9. Occurs(c, m) = IF \E i \in DOMAIN c : c[i] = m THEN 1 ELSE 0
  BY <1>7, OccursOnce
<1> QED
  BY <1>2, <1>8, <1>9

(* A message is in one place, so it is in one line at most and there once. *)
LEMMA LinesOnce ==
  ASSUME NEW m \in Msgs, Placed(m), NEW s \in Slots
  PROVE  /\ \A k \in Sides : \A i, j : Lies(m, s, k, i) /\ Lies(m, s, k, j) => i = j
         /\ ~((\E i : Lies(m, s, 0, i)) /\ (\E i : Lies(m, s, 1, i)))
<1>1. 0 \in Sides /\ 1 \in Sides
  BY DEF Sides
<1>2. CASE Nowhere(m)
  BY <1>1, <1>2 DEF Nowhere
<1>3. CASE Waits(m)
  <2>1. PICK r \in Slots, k \in Sides : \E i :
          \A p \in Slots, l \in Sides : \A j : Lies(m, p, l, j) => p = r /\ l = k /\ j = i
    BY <1>3 DEF Waits
  <2> QED
    BY <1>1, <2>1
<1> QED
  BY <1>2, <1>3 DEF Placed

(* The clean-up gives back what is in the batch and what was never sent.   *)
LEMMA CleanOnce ==
  ASSUME Sound, count.late = 0, Carried, Once, NEW t \in Threads, ReleaseClean(t)
  PROVE  Once'
<1>1. /\ Typed /\ Calls(t) /\ Settle(t) /\ UNCHANGED <<cur, count, msg, releaseFlag, sessionID>>
      /\ Acceptor \in Threads /\ Content \in Threads
      /\ sendQ \in [Slots -> Seq(Msgs)] /\ sending \in [Slots -> Seq(Msgs)]
      /\ freed \in [Msgs -> Nat] /\ UNCHANGED <<sending, sendFlag>>
  BY CallsAre, ReleaseIs DEF Sound, Calls, Threads, Typed, TypeOK, SendType, ReleaseClean, CleanUp, call
<1>2. PICK s \in Slots : s = cur[t]
  BY <1>1 DEF Typed, TypeOK, CallType
<1>3. /\ pc[t] = "rel_clean" /\ pc'[t] = "rel_push"
      /\ sendQ' = [sendQ EXCEPT ![s] = <<>>] /\ SubRefAll(sending[s] \o sendQ[s])
  BY <1>1, <1>2 DEF ReleaseClean, CleanUp, Goto, Typed, TypeOK, ControlType
<1>4. \A r \in Slots :
        /\ Owners(r, {"init_rest"})' = Owners(r, {"init_rest"})
        /\ Owners(r, InitPoints)' = Owners(r, InitPoints)
        /\ r # s => Owners(r, {"rel_leave", "rel_clean"})' = Owners(r, {"rel_leave", "rel_clean"})
  BY <1>1, <1>2, <1>3 DEF Owners, Settle, InitPoints
<1>5. /\ releaseFlag[s] /\ Owners(s, {"rel_leave", "rel_clean"}) # {}
      /\ Owners(s, {"rel_leave", "rel_clean"})' = {}
  <2>1. releaseFlag[s] /\ \A u \in Threads : cur[u] = s /\ pc[u] \in ReleasePoints => u = t
    BY <1>2, ReleaseIs
  <2>2. t \in Owners(s, {"rel_leave", "rel_clean"})
    BY <1>2, <1>3 DEF Owners
  <2>3. \A u \in Threads : cur'[u] = s /\ pc'[u] \in {"rel_leave", "rel_clean"} => FALSE
    BY <1>1, <1>3, <2>1 DEF Settle, ReleasePoints
  <2> QED
    BY <2>1, <2>2, <2>3 DEF Owners
<1>6. Owners(s, {"init_rest"}) = {}
  <2>1. Balanced(s)
    BY DEF Sound, Counted, OnTime
  <2>2. cur[Acceptor] = s => pc[Acceptor] # "init_rest"
    BY <1>2, <1>3, <2>1 DEF Balanced, Alone, Window
  <2> QED
    BY <2>2, NotPrepared
<1>7. InFlight(s) = sending[s] /\ InFlight(s)' = <<>>
  BY <1>1, <1>5, <1>6 DEF InFlight
<1>8. \A r \in Slots : r # s => InFlight(r)' = InFlight(r) /\ sendQ'[r] = sendQ[r]
  BY <1>1, <1>3, <1>4 DEF InFlight
<1>9. /\ \A k \in Sides : Line(s, k)' = <<>>
      /\ \A r \in Slots, k \in Sides : r # s \/ k \notin Sides => Line(r, k)' = Line(r, k)
  <2>1. sendQ'[s] = <<>>
    BY <1>1, <1>3
  <2> QED
    BY <1>7, <1>8, <2>1 DEF Line
<1>10. ASSUME NEW m \in Msgs PROVE Placed(m)'
  <2>1. Placed(m) /\ m \in Nat /\ freed[m] \in Nat /\ count.msgs \in Nat
    BY <1>1, LinesType DEF Once
  <2>2. /\ \A i, j \in DOMAIN sending[s] : sending[s][i] = m /\ sending[s][j] = m => i = j
        /\ \A i, j \in DOMAIN sendQ[s] : sendQ[s][i] = m /\ sendQ[s][j] = m => i = j
        /\ ~(/\ \E i \in DOMAIN sending[s] : sending[s][i] = m
             /\ \E i \in DOMAIN sendQ[s] : sendQ[s][i] = m)
        /\ (\E k \in Sides : \E i : Lies(m, s, k, i)) <=>
             \/ \E i \in DOMAIN sending[s] : sending[s][i] = m
             \/ \E i \in DOMAIN sendQ[s] : sendQ[s][i] = m
    <3>1. /\ \A k \in Sides : \A i, j : Lies(m, s, k, i) /\ Lies(m, s, k, j) => i = j
          /\ ~((\E i : Lies(m, s, 0, i)) /\ (\E i : Lies(m, s, 1, i)))
      BY <2>1, LinesOnce
    <3>2. 0 \in Sides /\ 1 \in Sides /\ \A k \in Sides : k = 0 \/ k = 1
      BY DEF Sides
    <3>3. /\ \A i : Lies(m, s, 0, i) <=> i \in DOMAIN sendQ[s] /\ sendQ[s][i] = m
          /\ \A i : Lies(m, s, 1, i) <=> i \in DOMAIN sending[s] /\ sending[s][i] = m
      BY <1>7 DEF Lies, Line
    <3>4. /\ \A i, j : Lies(m, s, 0, i) /\ Lies(m, s, 0, j) => i = j
          /\ \A i, j : Lies(m, s, 1, i) /\ Lies(m, s, 1, j) => i = j
      BY <3>1, <3>2
    <3>5. (\E k \in Sides : \E i : Lies(m, s, k, i)) <=> (\E i : Lies(m, s, 0, i)) \/ (\E i : Lies(m, s, 1, i))
      BY <3>2
    <3> QED
      BY <3>1, <3>3, <3>4, <3>5
  <2>3. Occurs(sending[s] \o sendQ[s], m) = IF \E k \in Sides : \E i : Lies(m, s, k, i) THEN 1 ELSE 0
    <3>1. sending[s] \in Seq(Msgs) /\ sendQ[s] \in Seq(Msgs)
      BY <1>1
    <3>2. Occurs(sending[s] \o sendQ[s], m)
            = IF \/ \E i \in DOMAIN sending[s] : sending[s][i] = m
                 \/ \E i \in DOMAIN sendQ[s] : sendQ[s][i] = m THEN 1 ELSE 0
      BY <2>2, <3>1, OccursBoth
    <3> QED
      BY <2>2, <3>2
  <2>4. freed'[m] = freed[m] + Occurs(sending[s] \o sendQ[s], m)
    BY <1>3 DEF SubRefAll
  <2>5. freed'[m] = freed[m] + (IF \E k \in Sides : \E i : Lies(m, s, k, i) THEN 1 ELSE 0)
    BY <2>3, <2>4
  <2> QED
    BY <1>1, <1>9, <2>1, <2>5, PlacedFreed
<1>11. ASSUME NEW r \in Slots PROVE Fresh(r)'
  <2>1. Fresh(r) /\ (Ready(r)' => Ready(r)) /\ (Live(r)' <=> Live(r))
    BY <1>1, <1>4, CallsReady DEF Once, Live
  <2>2. cur[Acceptor] = r /\ pc[Acceptor] = "init_rest" =>
          cur'[Acceptor] = r /\ pc'[Acceptor] = "init_rest"
    BY <1>1, <1>3 DEF Settle
  <2> QED
    BY <1>1, <2>1, <2>2, FreshBy
<1> QED
  BY <1>10, <1>11 DEF Once

(* A call keeps every message in one place.                                *)
LEMMA CallsOnce ==
  ASSUME Sound, Delivery, count.late = 0, Carried, Once, NEW t \in Threads, Calls(t)
  PROVE  Once'
<1>1. CASE Commits(t) \/ ReleaseLeave(t) \/ ReleasePush(t)
  BY <1>1, LeaveOnce
<1>2. CASE ReleaseClean(t)
  BY <1>2, CleanOnce
<1>3. CASE ~Commits(t) /\ ~ReleaseLeave(t) /\ ~ReleasePush(t) /\ ~ReleaseClean(t)
  <2>1. Plain(t)
    BY <1>3, CallsPlain DEF Sound
  <2>2. CASE UseUndo(t) \/ SendCheck(t)
    <3>1. UNCHANGED <<sendQ, sending>>
      BY <2>2 DEF UseUndo, Undo, SendCheck, CheckID, send
    <3>2. \/ UNCHANGED <<freed, msg>>
          \/ SubRefAll(<<msg[t]>>) /\ msg' = [msg EXCEPT ![t] = 0]
      BY <2>2 DEF UseUndo, Undo, SendCheck, CheckID
    <3> QED
      BY <2>1, <3>1, <3>2, BackOnce
  <2>3. CASE SendEnqueue(t)
    BY <2>1, <2>3, EnqueueOnce
  <2>4. CASE SendTake(t)
    BY <2>1, <2>4, TakeOnce
  <2>5. CASE ~UseUndo(t) /\ ~SendCheck(t) /\ ~SendEnqueue(t) /\ ~SendTake(t)
    <3>1. UNCHANGED <<freed, msg>> /\ UNCHANGED <<sendQ, sending>>
      BY <1>3, <2>5, CallsStill
    <3> QED
      BY <2>1, <3>1, BackOnce
  <2> QED
    BY <2>2, <2>3, <2>4, <2>5
<1> QED
  BY <1>1, <1>2, <1>3

(* A step that moves no message, and makes no batch out of date.           *)
LEMMA StillOnce ==
  ASSUME Typed, Typed', Once, UNCHANGED <<freed, sendQ, sending, releaseFlag>>,
         msg'[Content] = msg[Content], count'.msgs = count.msgs,
         \A s \in Slots : /\ Owners(s, {"rel_leave", "rel_clean"})' = Owners(s, {"rel_leave", "rel_clean"})
                          /\ Owners(s, {"init_rest"})' = Owners(s, {"init_rest"})
                          /\ (Live(s)' <=> Live(s)) /\ (Ready(s)' => Ready(s)),
         \/ cur'[Acceptor] = cur[Acceptor] /\ pc'[Acceptor] = pc[Acceptor]
         \/ pc[Acceptor] # "init_rest"
  PROVE  Once'
<1>1. \A s \in Slots, k \in Sides : Line(s, k)' = Line(s, k)
  BY DEF Line, InFlight
<1>2. ASSUME NEW m \in Msgs PROVE Placed(m)'
  BY <1>1, <1>2, PlacedKept DEF Once
<1>3. ASSUME NEW s \in Slots PROVE Fresh(s)'
  BY <1>3, FreshBy DEF Once
<1> QED
  BY <1>2, <1>3 DEF Once

(* The steps of an accept but for InitFlag and InitRest.                   *)
LEMMA AcceptingOnce ==
  ASSUME Sound, Sound', Once, NEW t \in Threads,
         InitID(t) \/ InitIO(t) \/ AcceptHold(t) \/ AcceptJoin(t)
  PROVE  Once'
<1>1. /\ Typed /\ TypeOK /\ Typed' /\ pc \in [Threads -> Points] /\ t = Acceptor
      /\ sessionID \in [Slots -> Nat] /\ cur[t] \in Slots
  <2>1. pc[t] \in {"init_id"} \cup Window
    BY DEF InitID, InitIO, AcceptHold, Hold, AcceptJoin, Window
  <2> QED
    BY <2>1, AcceptorIs DEF Sound, Typed, TypeOK, ControlType, LifeType
<1>2. /\ UNCHANGED <<freed, sendQ, sending, sendFlag, releaseFlag, cur, msg>>
      /\ count'.msgs = count.msgs
      /\ sessionID' = sessionID \/ (pc[t] \in InitPoints /\ pc'[t] \in InitPoints
                                    /\ sessionID' = [sessionID EXCEPT ![cur[t]] = count.accepts])
      /\ pc[t] \notin {"init_rest", "rel_leave", "rel_clean"} \cup Emptied
      /\ pc'[t] \notin {"init_rest", "rel_leave", "rel_clean"} \cup Emptied
      /\ pc[t] \in InitPoints <=> pc'[t] \in InitPoints
      /\ \A u \in Threads : u # t => pc'[u] = pc[u]
  <2> USE <1>1 DEF Goto, Emptied, InitPoints, send, call, log
  <2>1. CASE InitID(t)
    BY <2>1 DEF InitID
  <2>2. CASE InitIO(t)
    BY <2>2 DEF InitIO, Typed, CountOK
  <2>3. CASE AcceptHold(t)
    BY <2>3 DEF AcceptHold, Hold, AddIO
  <2>4. CASE AcceptJoin(t)
    BY <2>4 DEF AcceptJoin, Enter, life
  <2> QED
    BY <2>1, <2>2, <2>3, <2>4
<1>3. \A s \in Slots :
        /\ Owners(s, {"rel_leave", "rel_clean"})' = Owners(s, {"rel_leave", "rel_clean"})
        /\ Owners(s, {"init_rest"})' = Owners(s, {"init_rest"})
        /\ Owners(s, Emptied)' = Owners(s, Emptied)
        /\ Owners(s, InitPoints)' = Owners(s, InitPoints)
  BY <1>2 DEF Owners
<1>4. \A s \in Slots : (Live(s)' <=> Live(s)) /\ (Ready(s)' => Ready(s))
  <2>1. \A s \in Slots : s = cur[t] /\ pc[t] \in InitPoints => Owners(s, InitPoints) # {}
    BY DEF Owners
  <2> QED
    BY <1>1, <1>2, <1>3, <2>1 DEF Live, Ready
<1> QED
  BY <1>1, <1>2, <1>3, <1>4, StillOnce

(* InitFlag makes the session live before InitRest has emptied its lines.  *)
LEMMA FlagOnce ==
  ASSUME Sound, Once, NEW t \in Threads, InitFlag(t)
  PROVE  Once'
<1>1. /\ Typed /\ TypeOK /\ pc \in [Threads -> Points] /\ t = Acceptor /\ Owned /\ Acceptor \in Threads
      /\ sessionID \in [Slots -> Nat] /\ cur[t] \in Slots /\ releaseFlag \in [Slots -> BOOLEAN]
  <2>1. pc[t] \in {"init_id"} \cup Window
    BY DEF InitFlag, Window
  <2> QED
    BY <2>1, AcceptorIs DEF Sound, Typed, TypeOK, ControlType, LifeType
<1>2. PICK s \in Slots : s = cur[t]
  BY <1>1
<1>3. /\ pc[t] = "init_flag" /\ pc' = [pc EXCEPT ![t] = "init_rest"]
      /\ releaseFlag' = [releaseFlag EXCEPT ![s] = FALSE]
      /\ UNCHANGED <<sessionID, sendFlag, sendQ, sending, cur, msg, freed, count>>
  BY <1>2 DEF InitFlag, Goto, send, call, log
<1>4. /\ \A u \in Threads : u # t => pc'[u] = pc[u]
      /\ pc'[t] = "init_rest" /\ \A u \in Threads : pc[u] \in InitPoints => u = t
  <2>1. \A u \in Threads : pc[u] \in InitPoints => pc[u] \in {"init_id"} \cup Window
    BY DEF InitPoints, Window
  <2> QED
    BY <1>1, <1>3, <2>1, AcceptorIs
<1>5. /\ \A r \in Slots : Owners(r, {"rel_leave", "rel_clean"})' = Owners(r, {"rel_leave", "rel_clean"})
      /\ \A r \in Slots : Owners(r, Emptied)' = Owners(r, Emptied)
      /\ \A r \in Slots : r # s => /\ Owners(r, {"init_rest"})' = Owners(r, {"init_rest"})
                                   /\ Owners(r, InitPoints)' = Owners(r, InitPoints)
      /\ Owners(s, {"init_rest"})' # {} /\ Owners(s, InitPoints)' = {} /\ Owners(s, InitPoints) # {}
  BY <1>1, <1>2, <1>3, <1>4 DEF Owners, Emptied, InitPoints
<1>6. Owners(s, {"rel_leave", "rel_clean"}) = {}
  <2>1. Owners(s, ReleasePoints) = {}
    BY <1>1, <1>5, OneOwner DEF Owned
  <2> QED
    BY <2>1 DEF Owners, ReleasePoints
<1>7. InFlight(s) = <<>> /\ InFlight(s)' = <<>>
  <2>1. Fresh(s) /\ ~Live(s)
    BY <1>5 DEF Once, Live
  <2> QED
    BY <1>5, <1>6, <2>1 DEF Fresh, InFlight
<1>8. \A r \in Slots, k \in Sides : Line(r, k)' = Line(r, k)
  <2>1. \A r \in Slots : r # s => releaseFlag'[r] = releaseFlag[r]
    BY <1>1, <1>3
  <2>2. \A r \in Slots : r # s => InFlight(r)' = InFlight(r)
    BY <1>3, <1>5, <2>1 DEF InFlight
  <2> QED
    BY <1>3, <1>7, <2>2 DEF Line
<1>9. ASSUME NEW m \in Msgs PROVE Placed(m)'
  BY <1>3, <1>8, <1>9, PlacedKept DEF Once
<1>10. ASSUME NEW r \in Slots PROVE Fresh(r)'
  <2>1. CASE r # s
    <3>1. releaseFlag'[r] = releaseFlag[r]
      BY <1>1, <1>3, <2>1
    <3>2. (Live(r)' <=> Live(r)) /\ (Ready(r)' => Ready(r)) /\ Fresh(r)
      BY <1>3, <1>5, <2>1, <3>1 DEF Live, Ready, Once
    <3> QED
      BY <1>1, <1>2, <1>3, <2>1, <3>1, <3>2, FreshBy
  <2>2. CASE r = s
    <3>1. sessionID[s] # 0
      BY <1>1, <1>2, <1>3 DEF Owned, Numbered
    <3>2. Live(s)'
      BY <1>1, <1>3, <1>5, <3>1 DEF Live
    <3> QED
      BY <1>1, <1>2, <1>3, <1>4, <2>2, <3>2 DEF Fresh
  <2> QED
    BY <2>1, <2>2
<1> QED
  BY <1>9, <1>10 DEF Once

(* InitRest finds the queue empty, and the batch given back.               *)
LEMMA RestOnce ==
  ASSUME Sound, Delivery, count.late = 0, Once, NEW t \in Threads, InitRest(t)
  PROVE  Once'
<1>1. /\ Typed /\ TypeOK /\ pc \in [Threads -> Points] /\ t = Acceptor
      /\ cur[t] \in Slots /\ sendFlag \in [Slots -> BOOLEAN]
      /\ sendQ \in [Slots -> Seq(Msgs)] /\ sending \in [Slots -> Seq(Msgs)]
  <2>1. pc[t] \in {"init_id"} \cup Window
    BY DEF InitRest, Window
  <2> QED
    BY <2>1, AcceptorIs DEF Sound, Typed, TypeOK, ControlType, SendType
<1>2. PICK s \in Slots : s = cur[t]
  BY <1>1
<1>3. /\ pc[t] = "init_rest" /\ pc' = [pc EXCEPT ![t] = "acc_hold"]
      /\ sendFlag' = [sendFlag EXCEPT ![s] = FALSE]
      /\ sendQ' = [sendQ EXCEPT ![s] = <<>>] /\ sending' = [sending EXCEPT ![s] = <<>>]
      /\ UNCHANGED <<sessionID, releaseFlag, cur, msg, freed, count>>
  BY <1>2 DEF InitRest, Goto, life, call, log
<1>4. \A r \in Slots :
        /\ Owners(r, {"rel_leave", "rel_clean"})' = Owners(r, {"rel_leave", "rel_clean"})
        /\ Owners(r, Emptied)' = Owners(r, Emptied)
        /\ Owners(r, InitPoints)' = Owners(r, InitPoints)
        /\ r # s => Owners(r, {"init_rest"})' = Owners(r, {"init_rest"})
  BY <1>1, <1>2, <1>3 DEF Owners, Emptied, InitPoints
<1>5. sendQ[s] = <<>> /\ InFlight(s) = <<>>
  <2>1. Own(s) /\ Vacant(s)
    BY <1>1, <1>2, <1>3 DEF Own, Vacant, Window
  <2>2. Owners(s, {"init_rest"}) # {}
    BY <1>2, <1>3 DEF Owners
  <2> QED
    BY <2>1, <2>2 DEF Delivery, Cleared, InFlight
<1>6. sendQ'[s] = <<>> /\ sending'[s] = <<>> /\ InFlight(s)' = <<>>
  BY <1>1, <1>3 DEF InFlight
<1>7. \A r \in Slots : r # s => /\ sendQ'[r] = sendQ[r] /\ sending'[r] = sending[r]
                                /\ sendFlag'[r] = sendFlag[r] /\ InFlight(r)' = InFlight(r)
  BY <1>1, <1>3, <1>4 DEF InFlight
<1>8. \A r \in Slots, k \in Sides : Line(r, k)' = Line(r, k)
  BY <1>5, <1>6, <1>7 DEF Line
<1>9. ASSUME NEW m \in Msgs PROVE Placed(m)'
  BY <1>3, <1>8, <1>9, PlacedKept DEF Once
<1>10. ASSUME NEW r \in Slots PROVE Fresh(r)'
  <2>1. CASE r # s
    <3>1. (Live(r)' <=> Live(r)) /\ (Ready(r)' => Ready(r)) /\ Fresh(r)
      BY <1>3, <1>4, <1>7, <2>1 DEF Live, Ready, Once
    <3> QED
      BY <1>1, <1>2, <1>3, <1>7, <2>1, <3>1, FreshBy
  <2>2. CASE r = s
    BY <1>6, <2>2 DEF Fresh
  <2> QED
    BY <2>1, <2>2
<1> QED
  BY <1>9, <1>10 DEF Once

(* An accept takes an index nobody else has.                               *)
LEMMA AcceptOnce ==
  ASSUME Sound, Sound', Once, NEW t \in Threads, NEW s \in Slots, Accept(t, s)
  PROVE  Once'
<1>1. /\ t = Acceptor /\ Settle(t) /\ pc[t] = "idle" /\ pc'[t] = "init_id"
      /\ \A u \in Threads : u # t => cur'[u] = cur[u]
      /\ UNCHANGED <<sessionID, releaseFlag, send, msg, freed>> /\ count'.msgs = count.msgs
  BY AcceptIs
<1>2. \A r \in Slots :
        /\ Owners(r, {"rel_leave", "rel_clean"})' = Owners(r, {"rel_leave", "rel_clean"})
        /\ Owners(r, {"init_rest"})' = Owners(r, {"init_rest"})
        /\ Owners(r, Emptied)' = Owners(r, Emptied)
  BY <1>1 DEF Owners, Settle, Emptied
<1>3. \A r \in Slots : (Live(r)' <=> Live(r)) /\ (Ready(r)' => Ready(r))
  BY <1>1, <1>2, AcceptOpen DEF Ready, send
<1> QED
  BY <1>1, <1>2, <1>3, StillOnce DEF Sound, send

(* A worker gives the messages of a completed send back.                   *)
LEMMA SentOnce ==
  ASSUME Sound, count.late = 0, Once, NEW t \in Threads, WorkerSent(t)
  PROVE  Once'
<1>1. /\ Typed /\ TypeOK /\ Plain(t) /\ UNCHANGED <<msg, releaseFlag, sessionID>>
      /\ pc \in [Threads -> Points] /\ sending \in [Slots -> Seq(Msgs)] /\ Content \in Threads
  BY WorkPlain DEF Sound, Typed, TypeOK, SendType, ControlType, Working, Plain, Threads
<1>2. PICK s \in Slots : /\ s = Head(cq).slot /\ s \in SlotsOf(cq) /\ cur' = [cur EXCEPT ![t] = s]
  BY <1>1, WorkPlain DEF Working
<1>3. /\ sending' = [sending EXCEPT ![s] = <<>>] /\ SubRefAll(sending[s])
      /\ UNCHANGED <<sendQ, sendFlag, count>> /\ pc[t] = "idle" /\ pc'[t] = "sc_flag"
      /\ \A u \in Threads : u # t => cur'[u] = cur[u] /\ pc'[u] = pc[u]
  BY <1>1, <1>2 DEF WorkerSent, Sent, Take, Enter, Plain
<1>4. InUse(s)
  <2>1. OnTime(s) /\ Net(s) > 0
    <3>1. Net(s) \in Nat /\ Net(s) # 0
      BY <1>1, <1>2, NetZero DEF SlotsOf
    <3> QED
      BY <3>1 DEF OnTime
  <2> QED
    BY <2>1, Occupied
<1>5. \A r \in Slots : /\ Owners(r, {"rel_leave", "rel_clean"})' = Owners(r, {"rel_leave", "rel_clean"})
                       /\ Owners(r, {"init_rest"})' = Owners(r, {"init_rest"})
  <2>1. /\ {"rel_leave", "rel_clean"} \in SUBSET (Setup \cup ReleasePoints)
        /\ {"init_rest"} \in SUBSET (Setup \cup ReleasePoints)
    BY DEF Setup, Window, ReleasePoints
  <2> QED
    BY <1>1, <2>1, PlainOpen
<1>6. InFlight(s) = sending[s] /\ InFlight(s)' = <<>>
  <2>1. Owners(s, {"init_rest"}) = {} /\ ~releaseFlag[s]
    BY <1>4, NotPrepared DEF InUse, Window, Live
  <2> QED
    BY <1>1, <1>3, <1>5, <2>1 DEF InFlight
<1>7. \A r \in Slots : r # s => InFlight(r)' = InFlight(r) /\ sending'[r] = sending[r]
  BY <1>1, <1>3, <1>5 DEF InFlight
<1>8. PICK K \in SUBSET Sides : K = {1}
  BY DEF Sides
<1>9. /\ \A k \in K : Line(s, k)' = <<>>
      /\ \A r \in Slots, k \in Sides : r # s \/ k \notin K => Line(r, k)' = Line(r, k)
  BY <1>3, <1>6, <1>7, <1>8 DEF Line, Sides
<1>10. ASSUME NEW m \in Msgs PROVE Placed(m)'
  <2>1. Placed(m) /\ m \in Nat /\ freed[m] \in Nat /\ count.msgs \in Nat
    BY <1>1, LinesType DEF Once
  <2>2. \A i : Lies(m, s, 1, i) <=> i \in DOMAIN sending[s] /\ sending[s][i] = m
    BY <1>6 DEF Lies, Line
  <2>3. \A i, j \in DOMAIN sending[s] : sending[s][i] = m /\ sending[s][j] = m => i = j
    BY <2>1, <2>2, LinesOnce DEF Sides
  <2>4. Occurs(sending[s], m) = IF \E i \in DOMAIN sending[s] : sending[s][i] = m THEN 1 ELSE 0
    BY <2>3, OccursOnce
  <2>5. (\E i \in DOMAIN sending[s] : sending[s][i] = m) <=> \E k \in K : \E i : Lies(m, s, k, i)
    BY <1>8, <2>2
  <2>6. freed'[m] = freed[m] + Occurs(sending[s], m)
    BY <1>3 DEF SubRefAll
  <2>7. freed'[m] = freed[m] + (IF \E k \in K : \E i : Lies(m, s, k, i) THEN 1 ELSE 0)
    BY <2>4, <2>5, <2>6
  <2>8. msg'[Content] = msg[Content] /\ count'.msgs = count.msgs
    BY <1>1, <1>3
  <2> QED
    BY <1>8, <1>9, <2>1, <2>7, <2>8, PlacedFreed
<1>11. ASSUME NEW r \in Slots PROVE Fresh(r)'
  <2>1. CASE r = s
    BY <1>1, <1>3, <2>1 DEF Fresh
  <2>2. CASE r # s
    <3>1. Owners(r, Emptied)' = Owners(r, Emptied)
      BY <1>1, <1>2, <1>3, <2>2 DEF Owners, Emptied, TypeOK, CallType
    <3>2. (Ready(r)' => Ready(r)) /\ (Live(r)' <=> Live(r)) /\ Fresh(r)
      BY <1>1, <1>3, <3>1, PlainOpen DEF Ready, Once
    <3>3. cur[Acceptor] = r /\ pc[Acceptor] = "init_rest" =>
            cur'[Acceptor] = r /\ pc'[Acceptor] = "init_rest"
      BY <1>1, PlainWindow
    <3> QED
      BY <1>1, <1>7, <2>2, <3>2, <3>3, FreshBy
  <2> QED
    BY <2>1, <2>2
<1> QED
  BY <1>10, <1>11 DEF Once

(* The other completions, and DisconnectSession, move no message.          *)
LEMMA BeginOnce ==
  ASSUME Sound, Sound', Once, NEW t \in Threads, Plain(t), pc'[t] \notin Emptied,
         UNCHANGED <<freed, sendQ, sending, sendFlag, msg>>, count'.msgs = count.msgs
  PROVE  Once'
<1>1. \A s \in Slots : /\ Owners(s, {"rel_leave", "rel_clean"})' = Owners(s, {"rel_leave", "rel_clean"})
                       /\ Owners(s, {"init_rest"})' = Owners(s, {"init_rest"})
                       /\ (Live(s)' <=> Live(s))
  <2>1. /\ {"rel_leave", "rel_clean"} \in SUBSET (Setup \cup ReleasePoints)
        /\ {"init_rest"} \in SUBSET (Setup \cup ReleasePoints)
    BY DEF Setup, Window, ReleasePoints
  <2> QED
    BY <2>1, PlainOpen DEF Sound
<1>2. \A s \in Slots : Ready(s)' => Ready(s)
  <2>1. \A s \in Slots : Owners(s, Emptied)' \subseteq Owners(s, Emptied)
    BY DEF Owners, Plain, Settle
  <2> QED
    BY <2>1 DEF Ready
<1>3. \/ cur'[Acceptor] = cur[Acceptor] /\ pc'[Acceptor] = pc[Acceptor]
      \/ pc[Acceptor] # "init_rest"
  BY DEF Plain, Settle, Aside, Setup, Window, Threads
<1> QED
  BY <1>1, <1>2, <1>3, StillOnce DEF Sound, Plain

(* A completion moves no message but those of a send, which it gives back. *)
LEMMA WorkOnce ==
  ASSUME Sound, Sound', count.late = 0, Once, NEW t \in Threads, Working(t)
  PROVE  Once'
<1>1. CASE WorkerSent(t)
  BY <1>1, SentOnce
<1>2. CASE WorkerEnd(t) \/ WorkerRequest(t) \/ WorkerRecv(t)
  <2>1. Plain(t) /\ UNCHANGED msg /\ pc \in [Threads -> Points] /\ count \in [accepts : Nat, blocked : Nat,
          msgs : Nat, recvs : Nat, disconnects : Nat, late : Nat, to : Seq(Nat)]
    BY WorkPlain DEF Sound, Typed, TypeOK, ControlType, CountOK
  <2>2. /\ UNCHANGED <<freed, sendQ, sending, sendFlag>> /\ count'.msgs = count.msgs
        /\ pc'[t] \in {"dec", "sp_discon", "rp_discon", "use_inc"}
    <3>1. CASE WorkerEnd(t)
      BY <2>1, <3>1 DEF WorkerEnd, Enter, send, log
    <3>2. CASE WorkerRequest(t)
      BY <2>1, <3>2 DEF WorkerRequest, Enter, send, log
    <3>3. CASE WorkerRecv(t)
      BY <2>1, <3>3 DEF WorkerRecv, Enter, send
    <3> QED
      BY <1>2, <3>1, <3>2, <3>3
  <2> QED
    BY <2>1, <2>2, BeginOnce DEF Emptied
<1> QED
  BY <1>1, <1>2 DEF Working

(* SendPacket is given a new message, which is in its hands, or freed.     *)
LEMMA PacketCarried ==
  ASSUME Sound, Carried, NEW t \in Threads, NEW k \in Known, SendPacket(t, k.slot, k.conn)
  PROVE  Carried' /\ msg[Content] = 0
<1>1. /\ pc \in [Threads -> Points] /\ msg \in [Threads -> 0 .. MaxMsgs] /\ Content \in Threads
      /\ ret \in [Threads -> Seq(ReturnPoints)] /\ t = Content /\ pc[t] = "idle"
  BY DEF Sound, Typed, TypeOK, ControlType, CallType, SendPacket, Threads
<1>2. msg[Content] = 0
  BY <1>1 DEF Carried, Sending, Using
<1>3. CASE /\ msg' = [msg EXCEPT ![t] = count.msgs + 1]
           /\ Enter(t, "use_inc", <<"snd_check">>)
  <2>1. \A u \in Threads : u # t => msg'[u] = msg[u]
    BY <1>1, <1>3
  <2>2. pc'[Content] = "use_inc" /\ ret'[Content] = <<"snd_check">>
    BY <1>1, <1>3 DEF Enter
  <2> QED
    BY <1>1, <1>2, <2>1, <2>2 DEF Carried, Sending, Using
<1>4. CASE UNCHANGED <<control, call>>
  BY <1>2, <1>4 DEF Carried, Sending, control, call
<1> QED
  BY <1>2, <1>3, <1>4 DEF SendPacket

(* A new message is its caller's, or has been given back.                  *)
LEMMA PacketOnce ==
  ASSUME Sound, Sound', Carried, Once, NEW t \in Threads, NEW k \in Known,
         SendPacket(t, k.slot, k.conn)
  PROVE  Once'
<1>1. PICK m \in Msgs : m = count.msgs + 1
  BY DEF SendPacket
<1>2. /\ Typed /\ TypeOK /\ pc \in [Threads -> Points] /\ msg \in [Threads -> 0 .. MaxMsgs]
      /\ count.msgs \in Nat /\ t = Content /\ pc[t] = "idle" /\ Content \in Threads
      /\ freed \in [Msgs -> Nat] /\ ret \in [Threads -> Seq(ReturnPoints)]
      /\ UNCHANGED <<sending, sendQ, releaseFlag, sendFlag, sessionID>>
      /\ (Plain(t) \/ UNCHANGED <<pc, cur>>)
      /\ count' = [count EXCEPT !.msgs = m, !.to = Append(@, k.conn)]
  BY <1>1, ContentPlain DEF Sound, Typed, TypeOK, ControlType, CallType, CountOK, SendPacket, send, Threads
<1>3. count'.msgs = m /\ m # 0 /\ \A n \in Msgs : n \in Nat \ {0}
  <2>1. \A n \in Msgs : n \in Nat \ {0}
    BY BoundsAssumption DEF Msgs
  <2>2. CountOK
    BY <1>2 DEF Typed
  <2>3. count'.msgs = m
    BY <1>2, <2>2 DEF CountOK
  <2>4. m # 0
    BY <2>1
  <2> QED
    BY <2>1, <2>3, <2>4
<1>4. msg[Content] = 0
  BY PacketCarried
<1>5. \A s \in Slots, l \in Sides : Line(s, l)' = Line(s, l)
  <2>1. CASE Plain(t)
    BY <1>2, <2>1, LinesPlain
  <2>2. CASE UNCHANGED <<pc, cur>>
    BY <1>2, <2>2 DEF Line, InFlight, Owners
  <2> QED
    BY <1>2, <2>1, <2>2
<1>6. pc'[t] \notin Emptied /\ \A u \in Threads : u # t => pc'[u] = pc[u]
  BY <1>2 DEF SendPacket, Enter, Emptied, control
<1>7. ASSUME NEW s \in Slots PROVE Fresh(s)'
  <2>1. /\ Live(s)' <=> Live(s)
        /\ cur[Acceptor] = s /\ pc[Acceptor] = "init_rest" =>
             cur'[Acceptor] = s /\ pc'[Acceptor] = "init_rest"
    <3>1. CASE Plain(t)
      BY <1>2, <3>1, PlainOpen, PlainWindow
    <3>2. CASE UNCHANGED <<pc, cur>>
      BY <1>2, <3>2 DEF Live, Owners
    <3> QED
      BY <1>2, <3>1, <3>2
  <2>2. Owners(s, Emptied)' \subseteq Owners(s, Emptied)
    BY <1>2, <1>6 DEF Owners, Plain
  <2> QED
    BY <1>2, <2>1, <2>2, FreshBy DEF Once, Ready
<1>8. ASSUME NEW n \in Msgs, n # m, msg'[Content] \in {0, m}, freed'[n] = freed[n]
      PROVE  Placed(n)'
  <2>1. n <= count'.msgs <=> n <= count.msgs
    BY <1>1, <1>2, <1>3, <1>8
  <2>2. Placed(n) /\ msg'[Content] # n /\ msg[Content] # n
    BY <1>3, <1>4, <1>8 DEF Once
  <2> QED
    BY <1>5, <1>8, <2>1, <2>2, PlacedKept
<1>9. freed[m] = 0 /\ Nowhere(m)' /\ m <= m
  <2>1. ~(m <= count.msgs) /\ m <= m
    BY <1>1, <1>2
  <2>2. freed[m] = 0 /\ Nowhere(m)
    BY <2>1 DEF Once, Placed
  <2> QED
    BY <1>5, <2>1, <2>2 DEF Nowhere, Lies
<1>10. CASE /\ msg' = [msg EXCEPT ![t] = m] /\ UNCHANGED freed
            /\ Enter(t, "use_inc", <<"snd_check">>)
  <2>1. msg'[Content] = m /\ freed' = freed
    BY <1>2, <1>10
  <2>2. Placed(m)'
    BY <1>3, <1>9, <2>1 DEF Placed
  <2>3. \A n \in Msgs : Placed(n)'
    BY <1>8, <2>1, <2>2
  <2> QED
    BY <1>7, <2>3 DEF Once
<1>11. CASE SubRefAll(<<m>>) /\ UNCHANGED <<control, call>>
  <2>1. UNCHANGED msg
    BY <1>11 DEF call
  <2>2. \A n \in Msgs : freed'[n] = freed[n] + (IF n = m THEN 1 ELSE 0)
    <3>1. DOMAIN <<m>> = {1} /\ <<m>>[1] = m
      OBVIOUS
    <3>2. \A n \in Msgs : Occurs(<<m>>, n) = IF n = m THEN 1 ELSE 0
      BY <3>1, OccursOnce
    <3>3. \A n \in Msgs : freed'[n] = freed[n] + Occurs(<<m>>, n)
      BY <1>11 DEF SubRefAll
    <3> QED
      BY <3>2, <3>3
  <2>3. Placed(m)'
    BY <1>3, <1>4, <1>9, <2>1, <2>2 DEF Placed
  <2>4. \A n \in Msgs : n # m => freed'[n] = freed[n]
    BY <1>2, <2>2
  <2>5. \A n \in Msgs : Placed(n)'
    BY <1>4, <1>8, <2>1, <2>3, <2>4
  <2> QED
    BY <1>7, <2>5 DEF Once
<1> QED
  BY <1>1, <1>10, <1>11 DEF SendPacket

(* DisconnectSession moves no message.                                     *)
LEMMA DisconnectKept ==
  ASSUME Sound, Sound', Carried, NEW t \in Threads, NEW k \in Known, Disconnect(t, k.slot, k.conn)
  PROVE  Carried' /\ (Once => Once')
<1>1. /\ t = Content /\ pc[t] = "idle" /\ pc \in [Threads -> Points] /\ Content \in Threads
      /\ UNCHANGED <<freed, sendQ, sending, sendFlag, msg>> /\ count'.msgs = count.msgs
      /\ pc'[t] = "use_inc"
  BY DEF Sound, Typed, TypeOK, ControlType, CountOK, Disconnect, Enter, send, Threads
<1>2. msg[Content] = 0
  BY <1>1 DEF Carried, Sending, Using
<1>3. Plain(t)
  BY <1>1, ContentPlain DEF Sound
<1> QED
  BY <1>1, <1>2, <1>3, BeginOnce DEF Carried, Emptied

(* Nor do the kernel, the peers and the blocked accept.                    *)
LEMMA WorldKept ==
  ASSUME Sound, Sound', Carried, Stays, UNCHANGED <<freed, count.msgs, count.to>>
  PROVE  Carried' /\ (Once => Once')
<1>1. UNCHANGED <<pc, ret, cur, msg, sessionID, releaseFlag, sendFlag, sendQ, sending>>
  BY DEF Stays, send
<1>2. Carried'
  BY <1>1 DEF Carried, Sending
<1>3. \A s \in Slots : /\ Owners(s, {"rel_leave", "rel_clean"})' = Owners(s, {"rel_leave", "rel_clean"})
                       /\ Owners(s, {"init_rest"})' = Owners(s, {"init_rest"})
                       /\ (Live(s)' <=> Live(s)) /\ (Ready(s)' => Ready(s))
  BY <1>1 DEF Owners, Live, Ready
<1> QED
  BY <1>1, <1>2, <1>3, StillOnce DEF Sound

(* A step of another thread leaves the message of the content alone.       *)
LEMMA CarriedKept ==
  ASSUME Carried, UNCHANGED msg, NEW t \in Threads, t # Content, Settle(t)
  PROVE  Carried'
BY DEF Carried, Sending, Settle, Threads

(* Every step keeps every message in one place.                            *)
LEMMA StepKept == Sound /\ Sound' /\ Delivery /\ Kept /\ [Next]_vars => Kept'
<1> SUFFICES ASSUME Sound, Sound', Delivery, Kept, [Next]_vars PROVE Kept'
  OBVIOUS
<1>1. /\ Typed /\ Carried /\ count.msgs \in Nat /\ count.msgs <= MaxMsgs
      /\ Acceptor \in Threads /\ Content \in Threads /\ Acceptor # Content /\ Content \notin Workers
  BY ThreadsAssumption DEF Kept, Sound, Typed, CountOK, Threads
<1>2. CASE \E t \in Threads : Calls(t)
  <2>1. PICK t \in Threads : Calls(t)
    BY <1>2
  <2>2. Carried' /\ count' = count
    BY <1>1, <2>1, CallsCarried, CallsAre
  <2>3. count.late = 0 => Once'
    BY <1>1, <2>1, CallsOnce DEF Kept
  <2> QED
    BY <1>1, <2>2, <2>3 DEF Kept
<1>3. CASE \E t \in Threads : Accepting(t)
  <2>1. PICK t \in Threads : Accepting(t)
    BY <1>3
  <2>2. /\ t = Acceptor /\ Settle(t) /\ UNCHANGED msg /\ count'.msgs = count.msgs
        /\ count'.late = 0 => count.late = 0
    <3>1. CASE InitID(t) \/ InitIO(t) \/ InitFlag(t) \/ InitRest(t) \/ AcceptHold(t)
      BY <3>1, PrepareIs DEF Prepares
    <3>2. CASE AcceptJoin(t)
      <4>1. t = Acceptor
        BY <3>2, AcceptorIs DEF AcceptJoin, Window
      <4>2. UNCHANGED <<msg, count>> /\ Settle(t)
        BY <1>1, <3>2, AcceptMoves DEF AcceptJoin, call, Moves
      <4> QED
        BY <4>1, <4>2
    <3> QED
      BY <2>1, <3>1, <3>2 DEF Accepting
  <2>3. Carried'
    BY <1>1, <2>2, CarriedKept
  <2>4. count'.late = 0 => Once'
    <3> SUFFICES ASSUME count'.late = 0 PROVE Once'
      OBVIOUS
    <3>1. count.late = 0 /\ Once
      BY <2>2 DEF Kept
    <3> QED
      BY <2>1, <3>1, AcceptingOnce, FlagOnce, RestOnce DEF Accepting
  <2> QED
    BY <1>1, <2>2, <2>3, <2>4 DEF Kept
<1>4. CASE \E t \in Threads : Working(t)
  <2>1. PICK t \in Threads : Working(t)
    BY <1>4
  <2>2. Plain(t) /\ UNCHANGED msg
    BY <1>1, <2>1, WorkPlain
  <2>3. t # Content
    BY <1>1, <2>1 DEF Working, WorkerEnd, WorkerRequest, WorkerSent, Sent, WorkerRecv, Take
  <2>4. count'.late = count.late /\ Carried'
    BY <1>1, <2>2, <2>3, CarriedKept DEF Plain
  <2>5. count'.msgs = count.msgs
    BY <1>1, <2>1 DEF Working, WorkerEnd, WorkerRequest, WorkerSent, Sent, WorkerRecv, Typed, CountOK, log
  <2>6. count.late = 0 => Once'
    BY <2>1, WorkOnce DEF Kept
  <2> QED
    BY <1>1, <2>4, <2>5, <2>6 DEF Kept
<1>5. CASE \E t \in Threads, s \in Slots : Accept(t, s)
  <2>1. PICK t \in Threads, s \in Slots : Accept(t, s)
    BY <1>5
  <2>2. /\ t = Acceptor /\ Settle(t) /\ UNCHANGED msg /\ count'.msgs = count.msgs
        /\ count'.late = count.late
    BY <2>1, AcceptIs
  <2>3. Carried'
    BY <1>1, <2>2, CarriedKept
  <2>4. count.late = 0 => Once'
    BY <2>1, AcceptOnce DEF Kept
  <2> QED
    BY <1>1, <2>2, <2>3, <2>4 DEF Kept
<1>6. CASE \E t \in Threads, k \in Known :
             SendPacket(t, k.slot, k.conn) \/ Disconnect(t, k.slot, k.conn)
  <2>1. PICK t \in Threads, k \in Known :
          SendPacket(t, k.slot, k.conn) \/ Disconnect(t, k.slot, k.conn)
    BY <1>6
  <2>2. count'.late = count.late
    BY <1>1, <2>1, ContentPlain
  <2>3. CASE SendPacket(t, k.slot, k.conn)
    <3>1. count'.msgs = count.msgs + 1 /\ count.msgs + 1 \in Msgs
      BY <1>1, <2>3 DEF SendPacket, Typed, CountOK
    <3>2. count'.msgs <= MaxMsgs
      BY <3>1, BoundsAssumption DEF Msgs
    <3>3. Carried' /\ (count.late = 0 => Once')
      BY <1>1, <2>3, PacketCarried, PacketOnce DEF Kept
    <3> QED
      BY <2>2, <3>2, <3>3 DEF Kept
  <2>4. CASE Disconnect(t, k.slot, k.conn)
    <3>1. Carried' /\ (Once => Once')
      BY <1>1, <2>4, DisconnectKept
    <3>2. count'.msgs = count.msgs
      BY <1>1, <2>4 DEF Disconnect, Typed, CountOK
    <3> QED
      BY <1>1, <2>2, <3>1, <3>2 DEF Kept
  <2> QED
    BY <2>1, <2>3, <2>4
<1>7. CASE \/ \E s \in Slots : Kernel(s) \/ PeerSends(s)
           \/ \E n \in Conns : PeerLeaves(n)
           \/ \E t \in Threads : AcceptBlocked(t)
           \/ TakeEvent
           \/ UNCHANGED vars
  <2>1. Stays /\ UNCHANGED <<freed, count.msgs, count.to>>
    BY <1>1, <1>7, WorldStays
  <2>2. Carried' /\ (Once => Once')
    BY <1>1, <2>1, WorldKept
  <2> QED
    BY <1>1, <2>1, <2>2 DEF Kept, Stays
<1> QED
  BY <1>2, <1>3, <1>4, <1>5, <1>6, <1>7 DEF Next

(* Before any message there is none.                                       *)
LEMMA InitKept == Init => Kept
<1> SUFFICES ASSUME Init PROVE Kept
  OBVIOUS
<1>1. /\ \A s \in Slots : sendQ[s] = <<>> /\ sending[s] = <<>>
      /\ \A t \in Threads : msg[t] = 0
      /\ \A m \in Msgs : freed[m] = 0
      /\ count.msgs = 0 /\ Content \in Threads
  BY DEF Init, Threads
<1>2. Carried /\ count.msgs <= MaxMsgs
  BY <1>1, BoundsAssumption DEF Carried
<1>3. ASSUME NEW m \in Msgs PROVE Placed(m)
  <2>1. m # 0 /\ ~(m <= 0)
    BY BoundsAssumption DEF Msgs
  <2>2. \A s \in Slots, k \in Sides : Line(s, k) = <<>>
    BY <1>1 DEF Line, InFlight
  <2>3. DOMAIN <<>> = {}
    OBVIOUS
  <2>4. Nowhere(m)
    BY <2>2, <2>3 DEF Nowhere, Lies
  <2> QED
    BY <1>1, <2>1, <2>4 DEF Placed
<1> QED
  BY <1>1, <1>2, <1>3 DEF Kept, Once, Fresh

(* The places of a message, counted.                                       *)
LEMMA KeptOnce == Sound /\ Kept => MessagesOnce
<1> SUFFICES ASSUME Sound, Kept, count.late = 0, NEW m \in 1 .. count.msgs
             PROVE  freed[m] + Cardinality(Carriers(m)) + Cardinality(Queued(m))
                      + Cardinality(Batched(m)) = 1
  BY DEF MessagesOnce
<1>1. Typed /\ Content \in Threads /\ count.msgs \in Nat /\ count.msgs <= MaxMsgs
  BY DEF Sound, Typed, CountOK, Kept, Threads
<1>2. m \in Msgs /\ m # 0 /\ m <= count.msgs
  BY <1>1, BoundsAssumption DEF Msgs
<1>3. Placed(m) /\ Carried
  BY <1>2 DEF Kept, Once
<1>4. Cardinality({}) = 0 /\ \A e : Cardinality({e}) = 1
  BY FS_EmptySet, FS_Singleton
<1>5. Carriers(m) = IF msg[Content] = m THEN {Content} ELSE {}
  BY <1>1, <1>2, <1>3 DEF Carriers, Carried
<1>6. Cardinality(Carriers(m)) = IF msg[Content] = m THEN 1 ELSE 0
  BY <1>4, <1>5
<1>7. /\ \A e : e \in Queued(m) <=> \E s \in Slots : \E i : e = <<s, i>> /\ Lies(m, s, 0, i)
      /\ \A e : e \in Batched(m) <=> \E s \in Slots : \E i : e = <<s, i>> /\ Lies(m, s, 1, i)
  BY DEF Queued, Batched, Positions, Lies, Line
<1>8. 0 \in Sides /\ 1 \in Sides /\ \A k \in Sides : k = 0 \/ k = 1
  BY DEF Sides
<1>9. CASE Nowhere(m)
  <2>1. Queued(m) = {} /\ Batched(m) = {}
    BY <1>7, <1>8, <1>9 DEF Nowhere
  <2>2. ~Waits(m)
    BY <1>9 DEF Nowhere, Waits
  <2> QED
    BY <1>2, <1>3, <1>4, <1>6, <2>1, <2>2 DEF Placed
<1>10. CASE ~Nowhere(m)
  <2>1. freed[m] = 0 /\ msg[Content] # m /\ Waits(m)
    BY <1>3, <1>10 DEF Placed
  <2>2. PICK s \in Slots, k \in Sides : \E i :
          /\ Lies(m, s, k, i)
          /\ \A p \in Slots, l \in Sides : \A j : Lies(m, p, l, j) => p = s /\ l = k /\ j = i
    BY <2>1 DEF Waits
  <2>3. PICK i : /\ Lies(m, s, k, i)
                 /\ \A p \in Slots, l \in Sides : \A j : Lies(m, p, l, j) => p = s /\ l = k /\ j = i
    BY <2>2
  <2>4. Cardinality(Carriers(m)) = 0 /\ Cardinality({<<s, i>>}) = 1
    BY <1>6, <2>1, FS_Singleton
  <2>5. CASE k = 0
    <3>1. Queued(m) = {<<s, i>>} /\ Batched(m) = {}
      BY <1>7, <1>8, <2>3, <2>5
    <3> QED
      BY <1>4, <2>1, <2>4, <3>1
  <2>6. CASE k = 1
    <3>1. Batched(m) = {<<s, i>>} /\ Queued(m) = {}
      BY <1>7, <1>8, <2>3, <2>6
    <3> QED
      BY <1>4, <2>1, <2>4, <3>1
  <2> QED
    BY <1>8, <2>5, <2>6
<1> QED
  BY <1>9, <1>10

(* MessagesOnce: as long as no call was too late, a message that           *)
(* SendPacket was given is its caller's, queued, in a batch or given back, *)
(* in exactly one of these places, and it is given back only once.         *)
THEOREM MessagesKept == Spec => []MessagesOnce
<1>1. Sound /\ Delivery /\ Kept /\ [Next]_vars => Sound' /\ Delivery' /\ Kept'
  BY StepSound, StepDelivered, StepKept
<1>2. Init => Sound /\ Delivery /\ Kept
  BY InitInductive, InitCounted, InitDelivered, InitKept DEF Inductive, Sound, Owned, Typed
<1> QED
  BY <1>1, <1>2, KeptOnce, PTL DEF Spec

-----------------------------------------------------------------------------
(* A queue is awaited when SendFlag is set, or a request or a thread will  *)
(* come to look at it: the messages in it are not stranded.  Whoever adds  *)
(* a message, resets the flag after a send or turns away from the queue    *)
(* leaves it awaited, however many workers there are.  The one step that   *)
(* does not is SendClear: between SendPost's look at the empty queue and   *)
(* the reset a second worker may have met the flag still set and left.     *)
Seekers      == {"snd_notify", "sp_discon", "sp_flag", "sc_check"}
Requested(s) == \E i \in DOMAIN cq : cq[i] = [kind |-> "request", slot |-> s]
Awaited(s)   ==
  ~disconFlag[s] /\ sendQ[s] # <<>> /\ ~sendFlag[s] => Requested(s) \/ Owners(s, Seekers) # {}

(* A request stays on the port until a worker takes it.                    *)
LEMMA RequestsKept ==
  ASSUME TypeOK, NEW s \in Slots, Requested(s),
         \/ UNCHANGED cq
         \/ \E k \in Kinds, r \in Slots : Queue(k, r)
         \/ \E t \in Threads, k \in Kinds : Take(t, k) /\ (k # "request" \/ Head(cq).slot # s)
  PROVE  Requested(s)'
<1>1. cq \in Seq(Completions)
  BY DEF TypeOK, NetType, Completions, Kinds
<1>2. PICK i \in DOMAIN cq : cq[i] = [kind |-> "request", slot |-> s]
  BY DEF Requested
<1>3. CASE UNCHANGED cq
  BY <1>3 DEF Requested
<1>4. CASE \E k \in Kinds, r \in Slots : Queue(k, r)
  <2>1. PICK k \in Kinds, r \in Slots : cq' = Append(cq, [kind |-> k, slot |-> r])
    BY <1>4 DEF Queue
  <2>2. [kind |-> k, slot |-> r] \in Completions
    BY DEF Completions
  <2>3. i \in DOMAIN cq' /\ cq'[i] = cq[i]
    BY <1>1, <1>2, <2>1, <2>2
  <2> QED
    BY <1>2, <2>3 DEF Requested
<1>5. CASE \E t \in Threads, k \in Kinds : Take(t, k) /\ (k # "request" \/ Head(cq).slot # s)
  <2>1. PICK t \in Threads, k \in Kinds : Take(t, k) /\ (k # "request" \/ Head(cq).slot # s)
    BY <1>5
  <2>2. cq # <<>> /\ Head(cq).kind = k /\ cq' = Tail(cq)
    BY <2>1 DEF Take
  <2>3. Head(cq) = cq[1]
    BY <1>1, <2>2
  <2>4. i # 1
    BY <1>2, <2>1, <2>2, <2>3
  <2>5. i - 1 \in DOMAIN cq' /\ cq'[i - 1] = cq[i]
    BY <1>1, <1>2, <2>2, <2>4
  <2> QED
    BY <1>2, <2>5 DEF Requested
<1> QED
  BY <1>3, <1>4, <1>5

(* A step that puts no message into the queue, sends nobody away who was   *)
(* to look at it and does not reset SendFlag.                              *)
LEMMA AwaitedKept ==
  ASSUME TypeOK, NEW s \in Slots, Awaited(s), NEW t \in Threads, Settle(t),
         \A u \in Threads : u # t => cur'[u] = cur[u],
         sendQ'[s] # <<>> => sendQ[s] # <<>>,
         disconFlag[s] => disconFlag'[s], sendFlag[s] => sendFlag'[s],
         cur[t] = s /\ pc[t] \in Seekers => cur'[t] = s /\ pc'[t] \in Seekers,
         \/ UNCHANGED cq
         \/ \E k \in Kinds, r \in Slots : Queue(k, r)
         \/ \E u \in Threads, k \in Kinds : Take(u, k) /\ (k # "request" \/ Head(cq).slot # s)
  PROVE  Awaited(s)'
<1>1. Requested(s) => Requested(s)'
  BY RequestsKept
<1>2. Owners(s, Seekers) # {} => Owners(s, Seekers)' # {}
  BY DEF Owners, Settle
<1> QED
  BY <1>1, <1>2 DEF Awaited

(* A thread that arrives where the queue is looked at next.                *)
LEMMA SeekerCame ==
  ASSUME NEW s \in Slots, NEW t \in Threads, cur'[t] = s, pc'[t] \in Seekers
  PROVE  Awaited(s)'
BY DEF Awaited, Owners

(* The calls that do not touch SendFlag or look at the queue.              *)
LEMMA OtherCallsAwaited ==
  ASSUME Sound, NEW s \in Slots, Awaited(s), NEW t \in Threads, Calls(t),
         ~SendEnqueue(t), ~SendNotify(t), ~SendPost(t), ~SendClaim(t), ~SendSize(t),
         ~SendClear(t), ~SendTake(t), ~SentFlag(t), ~SentCheck(t)
  PROVE  Awaited(s)'
<1>1. /\ Typed /\ TypeOK /\ Settle(t) /\ UNCHANGED cur /\ cur[t] \in Slots
      /\ sendQ \in [Slots -> Seq(Msgs)] /\ disconFlag \in [Slots -> BOOLEAN]
  BY CallsAre DEF Sound, Typed, TypeOK, CallType, SendType, SockType
<1>2. \A r \in Slots : Queue("recv_end", r) => \E k \in Kinds, q \in Slots : Queue(k, q)
  BY DEF Kinds
<1>3. \A r \in Slots : Cancel(r) => UNCHANGED cq \/ \E k \in Kinds, q \in Slots : Queue(k, q)
  BY <1>2 DEF Cancel
<1>4. CASE Dec(t) \/ ReleaseCommit(t) \/ ReleaseLeave(t) \/ ReleasePush(t) \/ UseInc(t)
           \/ UseUndo(t) \/ SendCheck(t)
  <2>1. UNCHANGED <<sendFlag, sendQ, disconFlag, cq>> /\ pc[t] \notin Seekers
    BY <1>4 DEF Dec, ReleaseCommit, ReleaseIf, ReleaseLeave, ReleasePush, UseInc, Increment,
                UseUndo, Undo, SendCheck, CheckID, send, sock, net, At, Seekers
  <2> QED
    BY <1>1, <2>1, AwaitedKept
<1>5. CASE ReleaseClean(t)
  <2>1. UNCHANGED <<sendFlag, disconFlag, cq>> /\ pc[t] = "rel_clean" /\ Goto(t, "rel_push")
        /\ sendQ' = [sendQ EXCEPT ![cur[t]] = <<>>]
    BY <1>5 DEF ReleaseClean, CleanUp, sock, At
  <2>2. sendQ'[s] # <<>> => sendQ[s] # <<>>
    BY <1>1, <2>1
  <2>3. pc[t] \notin Seekers
    BY <2>1 DEF Seekers
  <2> QED
    BY <1>1, <2>1, <2>2, <2>3, AwaitedKept
<1>6. CASE \/ DisconnectCheck(t) \/ DisconnectFlag(t) \/ DisconnectSocket(t)
           \/ DisconnectMark(t) \/ DisconnectCancel(t)
  <2>1. /\ UNCHANGED <<sendFlag, sendQ>> /\ pc[t] \notin Seekers
        /\ UNCHANGED disconFlag \/ disconFlag' = [disconFlag EXCEPT ![cur[t]] = TRUE]
        /\ UNCHANGED cq \/ Cancel(cur[t])
    BY <1>6 DEF DisconnectCheck, DisconnectFlag, DisconnectSocket, DisconnectMark,
                DisconnectCancel, send, sock, net, At, Seekers
  <2>2. disconFlag[s] => disconFlag'[s]
    BY <1>1, <2>1
  <2>3. UNCHANGED cq \/ \E k \in Kinds, q \in Slots : Queue(k, q)
    BY <1>1, <1>3, <2>1
  <2> QED
    BY <1>1, <2>1, <2>2, <2>3, AwaitedKept
<1>7. CASE \/ RecvPost(t) \/ RecvInc(t) \/ RecvIssue(t) \/ RecvPended(t) \/ RecvFailed(t)
           \/ SendInc(t) \/ SendIssue(t)
  <2>1. /\ UNCHANGED <<sendFlag, sendQ, disconFlag>> /\ pc[t] \notin Seekers
        /\ UNCHANGED cq \/ Cancel(cur[t])
    BY <1>7 DEF RecvPost, RecvInc, CountRecv, RecvIssue, RecvPended, RecvFailed, SendInc,
                SendIssue, send, sock, net, At, Seekers
  <2>2. UNCHANGED cq \/ \E k \in Kinds, q \in Slots : Queue(k, q)
    BY <1>1, <1>3, <2>1
  <2> QED
    BY <1>1, <2>1, <2>2, AwaitedKept
<1> QED
  BY <1>4, <1>5, <1>6, <1>7 DEF Calls

(* The calls that do, but for the one that resets SendFlag after a look at *)
(* an empty queue.                                                         *)
LEMMA SendCallsAwaited ==
  ASSUME Sound, NEW s \in Slots, Awaited(s), NEW t \in Threads, Calls(t),
         ~(cur[t] = s /\ SendClear(t)),
         \/ SendEnqueue(t) \/ SendNotify(t) \/ SendPost(t) \/ SendClaim(t) \/ SendSize(t)
         \/ SendClear(t) \/ SendTake(t) \/ SentFlag(t) \/ SentCheck(t)
  PROVE  Awaited(s)'
<1>1. /\ Typed /\ TypeOK /\ Settle(t) /\ UNCHANGED cur /\ cur[t] \in Slots
      /\ sendQ \in [Slots -> Seq(Msgs)] /\ sendFlag \in [Slots -> BOOLEAN]
      /\ pc \in [Threads -> Points] /\ cq \in Seq(Completions)
  BY CallsAre DEF Sound, Typed, TypeOK, CallType, SendType, NetType, ControlType, Completions, Kinds
<1>2. SendEnqueue(t) \/ SentFlag(t) => Awaited(s)'
  <2>1. CASE cur[t] = s
    <3>1. SendEnqueue(t) \/ SentFlag(t) => pc'[t] \in Seekers
      BY <1>1 DEF SendEnqueue, SentFlag, Goto, Seekers
    <3> QED
      BY <1>1, <2>1, <3>1, SeekerCame
  <2>2. CASE cur[t] # s
    <3>1. SendEnqueue(t) \/ SentFlag(t) => /\ sendQ'[s] = sendQ[s] /\ sendFlag'[s] = sendFlag[s]
                                           /\ UNCHANGED <<disconFlag, cq>>
      BY <1>1, <2>2 DEF SendEnqueue, SentFlag, sock, net
    <3> QED
      BY <1>1, <2>2, <3>1, AwaitedKept
  <2> QED
    BY <2>1, <2>2
<1>3. SendNotify(t) => Awaited(s)'
  <2>1. SUFFICES ASSUME SendNotify(t) PROVE Awaited(s)'
    OBVIOUS
  <2>2. /\ UNCHANGED <<sendQ, sendFlag, disconFlag>>
        /\ \/ sendQ[cur[t]] # <<>> /\ Queue("request", cur[t])
           \/ sendQ[cur[t]] = <<>> /\ UNCHANGED cq
    BY <2>1 DEF SendNotify, send, sock
  <2>3. CASE cur[t] # s
    <3>1. UNCHANGED cq \/ \E k \in Kinds, r \in Slots : Queue(k, r)
      BY <1>1, <2>2 DEF Kinds
    <3> QED
      BY <1>1, <2>2, <2>3, <3>1, AwaitedKept
  <2>4. CASE cur[t] = s /\ sendQ[s] = <<>>
    BY <2>2, <2>4 DEF Awaited
  <2>5. CASE cur[t] = s /\ sendQ[s] # <<>>
    <3>1. cq' = Append(cq, [kind |-> "request", slot |-> s])
      BY <2>2, <2>5 DEF Queue
    <3>2. [kind |-> "request", slot |-> s] \in Completions
      BY DEF Completions, Kinds
    <3>3. Len(cq) + 1 \in DOMAIN cq' /\ cq'[Len(cq) + 1] = [kind |-> "request", slot |-> s]
      BY <1>1, <3>1, <3>2
    <3>4. Requested(s)'
      BY <3>3 DEF Requested
    <3> QED
      BY <3>4 DEF Awaited
  <2> QED
    BY <2>3, <2>4, <2>5
<1>4. SendPost(t) \/ SendSize(t) \/ SentCheck(t) => Awaited(s)'
  <2>1. SUFFICES ASSUME SendPost(t) \/ SendSize(t) \/ SentCheck(t) PROVE Awaited(s)'
    OBVIOUS
  <2>2. UNCHANGED <<sendQ, sendFlag, disconFlag, cq>>
    BY <2>1 DEF SendPost, SendSize, SentCheck, send, sock, net
  <2>3. CASE cur[t] # s
    BY <1>1, <2>2, <2>3, AwaitedKept
  <2>4. CASE cur[t] = s /\ (disconFlag[s] \/ sendQ[s] = <<>>)
    BY <2>2, <2>4 DEF Awaited
  <2>5. CASE cur[t] = s /\ ~disconFlag[s] /\ sendQ[s] # <<>>
    <3>1. SendPost(t) \/ SentCheck(t) => pc'[t] \in Seekers
      BY <1>1, <2>5 DEF SendPost, SentCheck, Goto, Enter, Seekers
    <3>2. SendSize(t) => pc[t] = "sp_size" /\ pc'[t] = "sp_inc"
      BY <1>1, <2>5 DEF SendSize, Goto, At
    <3>3. SendSize(t) => Awaited(s)'
      BY <1>1, <2>2, <3>2, AwaitedKept DEF Seekers
    <3> QED
      BY <1>1, <2>1, <2>5, <3>1, <3>3, SeekerCame
  <2> QED
    BY <2>3, <2>4, <2>5
<1>5. SendClaim(t) => Awaited(s)'
  <2>1. SUFFICES ASSUME SendClaim(t) PROVE Awaited(s)'
    OBVIOUS
  <2>2. /\ pc[t] = "sp_flag" /\ UNCHANGED <<sendQ, disconFlag, cq>>
        /\ sendFlag' = [sendFlag EXCEPT ![cur[t]] = TRUE]
    BY <2>1 DEF SendClaim, Claim, At, sock, net
  <2>3. CASE cur[t] # s
    BY <1>1, <2>2, <2>3, AwaitedKept
  <2>4. CASE cur[t] = s
    <3>1. sendFlag'[s]
      BY <1>1, <2>2, <2>4
    <3> QED
      BY <3>1 DEF Awaited
  <2> QED
    BY <2>3, <2>4
<1>6. SendClear(t) => Awaited(s)'
  <2>1. SUFFICES ASSUME SendClear(t), cur[t] # s PROVE Awaited(s)'
    OBVIOUS
  <2>2. /\ pc[t] = "sp_clear" /\ UNCHANGED <<sendQ, disconFlag, cq>>
        /\ sendFlag'[s] = sendFlag[s]
    BY <1>1, <2>1 DEF SendClear, At, sock, net
  <2> QED
    BY <1>1, <2>1, <2>2, AwaitedKept
<1>7. SendTake(t) => Awaited(s)'
  <2>1. SUFFICES ASSUME SendTake(t) PROVE Awaited(s)'
    OBVIOUS
  <2>2. PICK n : n = IF Len(sendQ[cur[t]]) > SendMax THEN SendMax ELSE Len(sendQ[cur[t]])
    OBVIOUS
  <2>3. /\ pc[t] = "sp_take" /\ UNCHANGED <<disconFlag, cq>>
        /\ \/ /\ n > 0 /\ sendQ' = [sendQ EXCEPT ![cur[t]] = SubSeq(@, n + 1, Len(@))]
              /\ Goto(t, "sp_send") /\ UNCHANGED sendFlag
           \/ /\ n = 0 /\ UNCHANGED sendQ /\ Return(t)
              /\ sendFlag' = [sendFlag EXCEPT ![cur[t]] = FALSE]
    BY <2>1, <2>2 DEF SendTake, At, sock, net
  <2>4. pc[t] \notin Seekers
    BY <2>3 DEF Seekers
  <2>5. CASE cur[t] # s
    <3>1. sendQ'[s] = sendQ[s] /\ sendFlag'[s] = sendFlag[s]
      BY <1>1, <2>3, <2>5
    <3> QED
      BY <1>1, <2>3, <2>4, <2>5, <3>1, AwaitedKept
  <2>6. CASE cur[t] = s /\ sendQ[s] = <<>>
    <3>1. n = 0
      BY <2>2, <2>6, BoundsAssumption
    <3> QED
      BY <2>3, <2>6, <3>1 DEF Awaited
  <2>7. CASE cur[t] = s /\ sendQ[s] # <<>>
    <3>1. Len(sendQ[s]) > 0
      BY <1>1, <2>7
    <3>2. n # 0
      BY <2>2, <2>7, <3>1, BoundsAssumption
    <3>3. UNCHANGED sendFlag
      BY <2>3, <3>2
    <3> QED
      BY <1>1, <2>3, <2>4, <2>7, <3>3, AwaitedKept
  <2> QED
    BY <2>5, <2>6, <2>7
<1> QED
  BY <1>2, <1>3, <1>4, <1>5, <1>6, <1>7

(* A step of the accept thread: Initailize empties the queue.              *)
LEMMA AcceptingAwaited ==
  ASSUME Sound, NEW s \in Slots, Awaited(s), NEW t \in Threads,
         Accepting(t) \/ \E r \in Slots : Accept(t, r)
  PROVE  Awaited(s)'
<1>1. /\ Typed /\ TypeOK /\ cur[t] \in Slots /\ Acceptor \in Threads
      /\ sendQ \in [Slots -> Seq(Msgs)] /\ sendFlag \in [Slots -> BOOLEAN]
  BY DEF Sound, Typed, TypeOK, CallType, SendType, Threads
<1>2. CASE InitRest(t)
  <2>1. /\ pc[t] = "init_rest" /\ UNCHANGED <<cur, cq>> /\ sendQ' = [sendQ EXCEPT ![cur[t]] = <<>>]
        /\ \A r \in Slots : r # cur[t] =>
             sendFlag'[r] = sendFlag[r] /\ disconFlag'[r] = disconFlag[r]
    BY <1>1, <1>2 DEF InitRest, At, call, net, Sound, Typed, TypeOK, SockType
  <2>2. Settle(t) /\ pc'[t] = "acc_hold"
    BY <1>1, <1>2, GotoIs DEF InitRest, Points, OtherPoints
  <2>3. CASE cur[t] = s
    <3>1. sendQ'[s] = <<>>
      BY <1>1, <2>1, <2>3
    <3> QED
      BY <3>1 DEF Awaited
  <2>4. CASE cur[t] # s
    BY <1>1, <2>1, <2>2, <2>4, AwaitedKept
  <2> QED
    BY <2>3, <2>4
<1>3. CASE InitID(t) \/ InitIO(t) \/ InitFlag(t) \/ AcceptHold(t) \/ AcceptJoin(t)
  <2>1. UNCHANGED <<sendFlag, sendQ, disconFlag, cur, cq>>
    BY <1>3 DEF InitID, InitIO, InitFlag, AcceptHold, Hold, AcceptJoin, send, sock, call, net
  <2>2. /\ pc[t] \in {"init_id", "init_io", "init_flag", "acc_hold", "acc_join"}
        /\ \/ \E p \in {"init_io", "init_flag", "init_rest", "acc_join"} : Goto(t, p)
           \/ Enter(t, "rp_discon", <<"dec">>)
    BY <1>3 DEF InitID, InitIO, InitFlag, AcceptHold, Hold, AcceptJoin, At
  <2>3. {"init_io", "init_flag", "init_rest", "acc_join", "rp_discon"} \subseteq Points
    BY DEF Points, InitPoints, HoldPoints, OtherPoints
  <2>4. ASSUME NEW p \in {"init_io", "init_flag", "init_rest", "acc_join"}, Goto(t, p)
        PROVE  Settle(t)
    BY <1>1, <2>3, <2>4, GotoIs
  <2>5. ASSUME Enter(t, "rp_discon", <<"dec">>)
        PROVE  Settle(t)
    <3>1. <<"dec">> \in Seq(ReturnPoints)
      BY Frames
    <3> QED
      BY <1>1, <2>3, <2>5, <3>1, EnterIs
  <2>6. pc[t] \notin Seekers
    BY <2>2 DEF Seekers
  <2> QED
    BY <1>1, <2>1, <2>2, <2>4, <2>5, <2>6, AwaitedKept
<1>4. CASE \E r \in Slots : Accept(t, r)
  <2>1. PICK r \in Slots : Accept(t, r)
    BY <1>4
  <2>2. /\ Settle(t) /\ pc[t] = "idle" /\ pc'[t] = "init_id" /\ UNCHANGED cq
        /\ cur' = [cur EXCEPT ![t] = r]
    BY <1>1, <2>1, AcceptTyped
  <2>3. UNCHANGED <<sendFlag, sendQ, disconFlag>>
    BY <2>1 DEF Accept, send, sock
  <2>4. \A u \in Threads : u # t => cur'[u] = cur[u]
    BY <1>1, <2>2 DEF TypeOK, CallType
  <2>5. pc[t] \notin Seekers
    BY <2>2 DEF Seekers
  <2> QED
    BY <1>1, <2>2, <2>3, <2>4, <2>5, AwaitedKept
<1> QED
  BY <1>2, <1>3, <1>4 DEF Accepting

(* A worker that takes a request is on its way to the queue.               *)
LEMMA WorkingAwaited ==
  ASSUME Sound, NEW s \in Slots, Awaited(s), NEW t \in Threads, Working(t)
  PROVE  Awaited(s)'
<1>1. /\ Typed /\ TypeOK /\ sendFlag \in [Slots -> BOOLEAN] /\ disconFlag \in [Slots -> BOOLEAN]
      /\ cur \in [Threads -> Slots] /\ pc \in [Threads -> Points]
  BY DEF Sound, Typed, TypeOK, SendType, SockType, CallType, ControlType
<1>2. Settle(t) /\ cur' = [cur EXCEPT ![t] = Head(cq).slot] /\ Head(cq).slot \in Slots
  BY <1>1, WorkPlain DEF Plain
<1>3. \A u \in Threads : u # t => cur'[u] = cur[u]
  BY <1>1, <1>2
<1>4. CASE WorkerRequest(t) /\ Head(cq).slot = s
  <2>1. pc'[t] = "sp_discon" /\ cur'[t] = s
    BY <1>1, <1>2, <1>4 DEF WorkerRequest, Enter
  <2> QED
    BY <2>1, SeekerCame DEF Seekers
<1>5. CASE ~(WorkerRequest(t) /\ Head(cq).slot = s)
  <2>1. \E k \in Kinds : Take(t, k) /\ (k # "request" \/ Head(cq).slot # s)
    BY <1>5 DEF Working, WorkerEnd, WorkerRequest, WorkerSent, Sent, WorkerRecv, Kinds
  <2>2. UNCHANGED <<sendFlag, sendQ>> /\ pc[t] = "idle"
    BY DEF Working, WorkerEnd, WorkerRequest, WorkerSent, Sent, WorkerRecv, Take, At, send
  <2>3. UNCHANGED disconFlag \/ disconFlag' = [disconFlag EXCEPT ![Head(cq).slot] = TRUE]
    BY DEF Working, WorkerEnd, WorkerRequest, WorkerSent, Sent, WorkerRecv, sock
  <2>4. disconFlag[s] => disconFlag'[s]
    BY <1>1, <1>2, <2>3
  <2>5. pc[t] \notin Seekers
    BY <2>2 DEF Seekers
  <2> QED
    BY <1>1, <1>2, <1>3, <2>1, <2>2, <2>4, <2>5, AwaitedKept
<1> QED
  BY <1>4, <1>5

(* The content, the network and the peers leave the queue alone.           *)
LEMMA OutsideAwaited ==
  ASSUME Sound, NEW s \in Slots, Awaited(s),
         \/ \E t \in Threads, k \in Known :
              SendPacket(t, k.slot, k.conn) \/ Disconnect(t, k.slot, k.conn)
         \/ \E r \in Slots : Kernel(r) \/ PeerSends(r)
         \/ \E n \in Conns : PeerLeaves(n)
         \/ \E t \in Threads : AcceptBlocked(t)
         \/ TakeEvent
         \/ UNCHANGED vars
  PROVE  Awaited(s)'
<1>1. /\ Typed /\ TypeOK /\ pc \in [Threads -> Points] /\ ret \in [Threads -> Seq(ReturnPoints)]
      /\ cur \in [Threads -> Slots]
  BY DEF Sound, Typed, TypeOK, ControlType, CallType
<1>2. CASE \E t \in Threads, k \in Known :
             SendPacket(t, k.slot, k.conn) \/ Disconnect(t, k.slot, k.conn)
  <2>1. PICK t \in Threads, k \in Known :
          SendPacket(t, k.slot, k.conn) \/ Disconnect(t, k.slot, k.conn)
    BY <1>2
  <2>2. /\ UNCHANGED <<sendFlag, sendQ, disconFlag, cq>> /\ pc[t] = "idle"
        /\ \/ UNCHANGED <<pc, ret, cur>>
           \/ /\ \E q : Enter(t, "use_inc", q)
              /\ cur' = [cur EXCEPT ![t] = k.slot]
    BY <2>1 DEF SendPacket, Disconnect, At, send, sock, net, control, call
  <2>3. CASE UNCHANGED <<pc, ret, cur>>
    <3>1. Settle(t)
      BY <1>1, <2>3 DEF Settle
    <3> QED
      BY <1>1, <2>2, <2>3, <3>1, AwaitedKept
  <2>4. CASE \E q : Enter(t, "use_inc", q) /\ cur' = [cur EXCEPT ![t] = k.slot]
    <3>1. Plain(t) \/ UNCHANGED <<pc, cur>>
      BY <1>1, <2>1, ContentPlain
    <3>2. pc'[t] = "use_inc" /\ pc[t] # "use_inc"
      BY <1>1, <2>2, <2>4 DEF Enter
    <3>3. Settle(t) /\ \A u \in Threads : u # t => cur'[u] = cur[u]
      BY <3>1, <3>2 DEF Plain
    <3>4. pc[t] \notin Seekers
      BY <2>2 DEF Seekers
    <3> QED
      BY <1>1, <2>2, <3>2, <3>3, <3>4, AwaitedKept
  <2> QED
    BY <2>2, <2>3, <2>4
<1>3. CASE \/ \E r \in Slots : Kernel(r) \/ PeerSends(r)
           \/ \E n \in Conns : PeerLeaves(n)
           \/ \E t \in Threads : AcceptBlocked(t)
           \/ TakeEvent
           \/ UNCHANGED vars
  <2>1. UNCHANGED <<pc, ret, cur, sendFlag, sendQ, disconFlag>>
    BY <1>1, <1>3, WorldStays DEF Stays, send, sock
  <2>2. UNCHANGED cq \/ \E k \in Kinds, r \in Slots : Queue(k, r)
    BY <1>3 DEF Kernel, RecvEnds, SendDone, PeerSends, PeerLeaves, AcceptBlocked, TakeEvent,
                vars, net, Kinds
  <2>3. Content \in Threads /\ Settle(Content)
    BY <1>1, <2>1 DEF Settle, Threads
  <2> QED
    BY <1>1, <2>1, <2>2, <2>3, AwaitedKept
<1> QED
  BY <1>2, <1>3

(* StrandedByClear for any number of workers: a message that was awaited   *)
(* becomes stranded only when SendPost resets SendFlag after a look at an  *)
(* empty queue.                                                            *)
THEOREM StrandedOnlyByClear == Spec => StrandedByClear
<1>1. ASSUME NEW s \in Slots PROVE Awaited(s) <=> ~Stranded(s)
  BY DEF Awaited, Stranded, Requested, Seekers
<1>2. ASSUME NEW s \in Slots PROVE Awaited(s)' <=> ~Stranded(s)'
  BY DEF Awaited, Stranded, Requested, Seekers
<1>3. ASSUME Sound, [Next]_vars, NEW s \in Slots, Awaited(s),
             ~ \E t \in Threads : cur[t] = s /\ SendClear(t)
      PROVE  Awaited(s)'
  <2>1. ASSUME NEW t \in Threads, Calls(t) PROVE Awaited(s)'
    BY <1>3, <2>1, OtherCallsAwaited, SendCallsAwaited
  <2>2. ASSUME NEW t \in Threads, Accepting(t) \/ \E r \in Slots : Accept(t, r)
        PROVE  Awaited(s)'
    BY <1>3, <2>2, AcceptingAwaited
  <2>3. ASSUME NEW t \in Threads, Working(t) PROVE Awaited(s)'
    BY <1>3, <2>3, WorkingAwaited
  <2> QED
    BY <1>3, <2>1, <2>2, <2>3, OutsideAwaited DEF Next
<1>4. Sound /\ [Next]_vars =>
        \A s \in Slots : Stranded(s)' =>
          Stranded(s) \/ \E t \in Threads : cur[t] = s /\ SendClear(t)
  BY <1>1, <1>2, <1>3
<1>5. Spec => []Sound
  BY SoundInvariant
<1> QED
  BY <1>4, <1>5, PTL DEF Spec, StrandedByClear
=============================================================================
