------------------------------ MODULE Session -------------------------------
(***************************************************************************)
(* CNetServer's sessions (NetServer.h, NetServer.cpp): the reference count *)
(* that keeps a _SESSION alive while an I/O or a call uses it, its release *)
(* when the count is zero, and the reuse of its index by the next accept.  *)
(*                                                                         *)
(* Threads: the accept thread, the workers of the completion port, and the *)
(* one thread of the content, which calls SendPacket and DisconnectSession *)
(* with the IDs the callbacks OnClientJoin and OnClientLeave gave it.      *)
(* One action is one access to state that several threads reach.  A        *)
(* connection is a number: the counter part of its SessionID and its       *)
(* socket; 0 is INVALID_SOCKET.                                            *)
(***************************************************************************)
EXTENDS Integers, Sequences, FiniteSets

CONSTANTS
  Slots,                      \* the indexes of _SessionArray
  Acceptor, Content, Workers, \* the threads
  SendMax,                    \* CMSG_MAX_SENDSIZE
  MaxAccepts, MaxMsgs, MaxRecvs, MaxDisconnects  \* bounds on the environment

Threads == {Acceptor, Content} \cup Workers
Conns   == 1 .. MaxAccepts
Msgs    == 1 .. MaxMsgs

ASSUME ThreadsAssumption ==
  /\ Acceptor # Content
  /\ Acceptor \notin Workers /\ Content \notin Workers
ASSUME FiniteAssumption == IsFiniteSet(Slots) /\ IsFiniteSet(Workers)
ASSUME BoundsAssumption ==
  /\ MaxAccepts \in Nat /\ MaxMsgs \in Nat /\ MaxRecvs \in Nat
  /\ MaxDisconnects \in Nat /\ SendMax \in Nat \ {0}

VARIABLES
  sessionID,             \* per index: which connection has it, 0 before the first
  ioCount, releaseFlag,  \* the two halves of RELEASE_COMMIT
  sendFlag, sendQ,       \* SendFlag and SendQ
  sending,               \* msg[0 .. SendMsgCount - 1]
  ioSocket, socketVal, disconFlag,
  freeIdx,               \* how many times each index is on _InvalidIndexStack
  pc, ret,               \* where each thread is, and where its calls return to
  cur, id, msg,          \* pSession, SessionID and msg of the call in progress
  recvPend, sendPend,    \* the sessions whose WSARecv, WSASend the kernel holds
  cq,                    \* the completion port, oldest first
  gone,                  \* connections the peer has ended
  opened,                \* sockets accepted and not yet closed
  posted,                \* the callbacks made so far, in order
  taken,                 \* how many of them the content's thread has handled
  freed,                 \* how many times each message was given back (SubRef)
  drift,                 \* history: IOCount less the decrements still to come
  count                  \* the inputs so far; history: late, see InitIO, and to,
                         \* the connection that each message was sent to

life    == <<sessionID, ioCount, releaseFlag>>
send    == <<sendFlag, sendQ, sending>>
sock    == <<ioSocket, socketVal, disconFlag>>
control == <<pc, ret>>
call    == <<cur, id, msg>>
net     == <<recvPend, sendPend, cq, gone, opened>>
events  == <<posted, taken>>
log     == <<events, freed, drift, count>>
vars    == <<life, send, sock, freeIdx, control, call, net, events, freed, drift, count>>

-----------------------------------------------------------------------------
(* Program points.  A thread at a HoldPoint owes one decrement of IOCount; *)
(* so does every "dec" it will return to.                                  *)

InitPoints    == {"init_id", "init_io", "init_flag"}
ReleasePoints == {"rel_leave", "rel_clean", "rel_push"}
HoldPoints    == {"dec", "acc_join", "use_undo", "snd_check", "snd_enqueue",
                  "snd_notify", "dis_check", "dis_flag", "dis_socket", "dis_mark",
                  "dis_cancel", "rp_recv", "rp_failed", "sp_take", "sp_send",
                  "sc_flag", "sc_check"}
OtherPoints   == {"idle", "init_rest", "acc_hold", "rp_discon", "rp_inc", "rp_pended",
                  "sp_discon", "sp_flag", "sp_size", "sp_clear", "sp_inc", "use_inc",
                  "rel_cas"}
ReturnPoints  == {"dec", "rp_discon", "snd_check", "dis_check"}
Points        == InitPoints \cup ReleasePoints \cup HoldPoints \cup OtherPoints

At(t, p)   == pc[t] = p
Goto(t, p) == pc' = [pc EXCEPT ![t] = p] /\ UNCHANGED ret
Return(t)  ==
  /\ pc' = [pc EXCEPT ![t] = IF ret[t] = <<>> THEN "idle" ELSE Head(ret[t])]
  /\ ret' = [ret EXCEPT ![t] = IF @ = <<>> THEN <<>> ELSE Tail(@)]
Enter(t, p, after) ==
  /\ pc' = [pc EXCEPT ![t] = p]
  /\ ret' = [ret EXCEPT ![t] = after]

AddIO(t, k)    ==
  /\ ioCount' = [ioCount EXCEPT ![cur[t]] = @ + k]
  /\ UNCHANGED <<sessionID, releaseFlag>>
Drift(t, k)    == drift' = [drift EXCEPT ![cur[t]] = @ + k]
Positions(q, m) == {i \in DOMAIN q : q[i] = m}
Occurs(q, m)    == Cardinality(Positions(q, m))
SubRefAll(q)   == freed' = [m \in Msgs |-> freed[m] + Occurs(q, m)]
Post(k, t, n)  == posted' = Append(posted, [kind |-> k, slot |-> cur[t], conn |-> n])
Queue(k, s)    == cq' = Append(cq, [kind |-> k, slot |-> s])

(* The decrements of ioCount[s] that are still to come.                    *)
Owes(t)  == \E i \in DOMAIN ret[t] : ret[t][i] = "dec"
Holds(s) ==
    Cardinality({t \in Threads : cur[t] = s /\ pc[t] \in HoldPoints})
  + Cardinality({t \in Threads : cur[t] = s /\ Owes(t)})
  + Cardinality({s} \cap recvPend) + Cardinality({s} \cap sendPend)
  + Cardinality({i \in DOMAIN cq : cq[i].slot = s})

(* The constructors: Start has pushed every index, no socket is accepted.  *)
Init ==
  /\ sessionID = [s \in Slots |-> 0]
  /\ ioCount = [s \in Slots |-> 0]
  /\ releaseFlag = [s \in Slots |-> FALSE]
  /\ sendFlag = [s \in Slots |-> FALSE]
  /\ sendQ = [s \in Slots |-> <<>>]
  /\ sending = [s \in Slots |-> <<>>]
  /\ ioSocket = [s \in Slots |-> 0]
  /\ socketVal = [s \in Slots |-> 0]
  /\ disconFlag = [s \in Slots |-> FALSE]
  /\ freeIdx = [s \in Slots |-> 1]
  /\ pc = [t \in Threads |-> "idle"]
  /\ ret = [t \in Threads |-> <<>>]
  /\ cur \in [Threads -> Slots] /\ \A t, u \in Threads : cur[t] = cur[u]
  /\ id = [t \in Threads |-> 0]
  /\ msg = [t \in Threads |-> 0]
  /\ recvPend = {} /\ sendPend = {} /\ cq = <<>> /\ gone = {} /\ opened = {}
  /\ posted = <<>> /\ taken = 0
  /\ freed = [m \in Msgs |-> 0]
  /\ drift = [s \in Slots |-> 0]
  /\ count = [accepts |-> 0, blocked |-> 0, msgs |-> 0, recvs |-> 0, disconnects |-> 0,
              late |-> 0, to |-> <<>>]

-----------------------------------------------------------------------------
(* AcceptThread and AcceptComplete.  _InvalidIndexStack is taken for what  *)
(* it promises: pop returns an index that is on it, or fails when none is. *)

(* accept, the pop of an index and _SessionIdCount.                        *)
Accept(t, s) ==
  /\ At(t, "idle") /\ t = Acceptor
  /\ count.accepts + count.blocked < MaxAccepts
  /\ freeIdx[s] > 0
  /\ freeIdx' = [freeIdx EXCEPT ![s] = @ - 1]
  /\ count' = [count EXCEPT !.accepts = @ + 1]
  /\ opened' = opened \cup {count.accepts + 1}
  /\ cur' = [cur EXCEPT ![t] = s]
  /\ Enter(t, "init_id", <<>>)
  /\ UNCHANGED <<life, send, sock, id, msg, recvPend, sendPend, cq, gone, events, freed,
                 drift>>

(* No index is left: the socket is closed at once.                         *)
AcceptBlocked(t) ==
  /\ At(t, "idle") /\ t = Acceptor
  /\ count.accepts + count.blocked < MaxAccepts
  /\ \A s \in Slots : freeIdx[s] = 0
  /\ count' = [count EXCEPT !.blocked = @ + 1]
  /\ UNCHANGED <<life, send, sock, freeIdx, control, call, net, events, freed, drift>>

InitID(t) ==
  /\ At(t, "init_id")
  /\ sessionID' = [sessionID EXCEPT ![cur[t]] = count.accepts]
  /\ Goto(t, "init_io")
  /\ UNCHANGED <<ioCount, releaseFlag, send, sock, freeIdx, call, net, log>>

(* A call for an earlier connection of the slot is still to raise the      *)
(* count, to give its use up or to try the release.                        *)
LateCall(s) ==
  \/ Holds(s) > 0
  \/ \E t \in Threads : cur[t] = s /\ pc[t] \in {"use_inc", "rel_cas"}

(* A plain store: whatever the count stood for until now is forgotten.     *)
InitIO(t) ==
  /\ At(t, "init_io")
  /\ ioCount' = [ioCount EXCEPT ![cur[t]] = 0]
  /\ drift' = [drift EXCEPT ![cur[t]] = - Holds(cur[t])]
  /\ count' = [count EXCEPT !.late = IF @ = 0 /\ LateCall(cur[t])
                                          THEN count.accepts ELSE @]
  /\ Goto(t, "init_flag")
  /\ UNCHANGED <<sessionID, releaseFlag, send, sock, freeIdx, call, net, events, freed>>

InitFlag(t) ==
  /\ At(t, "init_flag")
  /\ releaseFlag' = [releaseFlag EXCEPT ![cur[t]] = FALSE]
  /\ Goto(t, "init_rest")
  /\ UNCHANGED <<sessionID, ioCount, send, sock, freeIdx, call, net, log>>

(* The rest of Initailize is one step: until its end only a late call is   *)
(* in the slot besides.                                                    *)
InitRest(t) ==
  LET s == cur[t] IN
  /\ At(t, "init_rest")
  /\ sendFlag' = [sendFlag EXCEPT ![s] = FALSE]
  /\ sendQ' = [sendQ EXCEPT ![s] = <<>>]
  /\ sending' = [sending EXCEPT ![s] = <<>>]
  /\ ioSocket' = [ioSocket EXCEPT ![s] = count.accepts]
  /\ socketVal' = [socketVal EXCEPT ![s] = count.accepts]
  /\ disconFlag' = [disconFlag EXCEPT ![s] = FALSE]
  /\ Goto(t, "acc_hold")
  /\ UNCHANGED <<life, freeIdx, call, net, log>>

Hold(t, k) ==
  /\ At(t, "acc_hold")
  /\ AddIO(t, k)
  /\ Goto(t, "acc_join")
  /\ UNCHANGED <<send, sock, freeIdx, call, net, log>>

(* Mutant: OnClientJoin and RecvPost run without a use of their own.       *)
AcceptHold_None(t) == Hold(t, 0)

AcceptHold(t) == Hold(t, 1)

AcceptJoin(t) ==
  /\ At(t, "acc_join")
  /\ Post("join", t, sessionID[cur[t]])
  /\ Enter(t, "rp_discon", <<"dec">>)
  /\ UNCHANGED <<life, send, sock, freeIdx, call, net, taken, freed, drift, count>>

-----------------------------------------------------------------------------
(* Giving up a use: InterlockedDecrement64 and, at zero, ReleaseSession.   *)

Dec(t) ==
  /\ At(t, "dec")
  /\ AddIO(t, -1)
  /\ IF ioCount[cur[t]] = 1 THEN Goto(t, "rel_cas") ELSE Return(t)
  /\ UNCHANGED <<send, sock, freeIdx, call, net, log>>

(* The exchange of (IOCount, ReleaseFlag) from (0, FALSE) to (0, TRUE).    *)
ReleaseIf(t, dead) ==
  /\ At(t, "rel_cas")
  /\ \/ /\ dead
        /\ releaseFlag' = [releaseFlag EXCEPT ![cur[t]] = TRUE]
        /\ Goto(t, "rel_leave")
     \/ ~dead /\ Return(t) /\ UNCHANGED releaseFlag
  /\ UNCHANGED <<sessionID, ioCount, send, sock, freeIdx, call, net, log>>

(* Mutant: tests the count alone.                                          *)
ReleaseCommit_CountOnly(t) == ReleaseIf(t, ioCount[cur[t]] = 0)

ReleaseCommit(t) == ReleaseIf(t, ioCount[cur[t]] = 0 /\ ~releaseFlag[cur[t]])

ReleaseLeave(t) ==
  /\ At(t, "rel_leave")
  /\ Post("leave", t, sessionID[cur[t]])
  /\ Goto(t, "rel_clean")
  /\ UNCHANGED <<life, send, sock, freeIdx, call, net, taken, freed, drift, count>>

(* closesocket, the messages of a WSASend that did not complete, and those *)
(* never sent.  SendMsgCount keeps its value.                              *)
CleanUp(t, socket) ==
  LET s == cur[t] IN
  /\ At(t, "rel_clean")
  /\ opened' = opened \ {socket}
  /\ SubRefAll(sending[s] \o sendQ[s])
  /\ sendQ' = [sendQ EXCEPT ![s] = <<>>]
  /\ Goto(t, "rel_push")
  /\ UNCHANGED <<life, sendFlag, sending, sock, freeIdx, call, recvPend, sendPend, cq,
                 gone, events, drift, count>>

(* Mutant: the messages that were never sent are forgotten.                *)
ReleaseClean_Unsent(t) ==
  LET s == cur[t] IN
  /\ At(t, "rel_clean")
  /\ opened' = opened \ {ioSocket[s]}
  /\ SubRefAll(sending[s])
  /\ Goto(t, "rel_push")
  /\ UNCHANGED <<life, send, sock, freeIdx, call, recvPend, sendPend, cq, gone, events,
                 drift, count>>

(* Mutant: the socket is left to itself.                                   *)
ReleaseClean_NoClose(t) == CleanUp(t, 0)

ReleaseClean(t) == CleanUp(t, ioSocket[cur[t]])

(* The index comes out of SessionID, which keeps naming this slot.         *)
ReleasePush(t) ==
  /\ At(t, "rel_push")
  /\ freeIdx' = [freeIdx EXCEPT ![cur[t]] = @ + 1]
  /\ Return(t)
  /\ UNCHANGED <<life, send, sock, call, net, log>>

-----------------------------------------------------------------------------
(* StartUseSession, called by SendPacket and DisconnectSession: the return *)
(* point on ret says which.  Returning false drops it and gives msg back.  *)

Increment(t, unused) ==
  /\ At(t, "use_inc")
  /\ AddIO(t, 1)
  /\ IF unused THEN Goto(t, "use_undo") ELSE Return(t)
  /\ UNCHANGED <<send, sock, freeIdx, call, net, log>>

(* Mutant: the count is raised, but nobody looks at what it was.           *)
UseInc_Blind(t) == Increment(t, FALSE)

UseInc(t) == Increment(t, ioCount[cur[t]] = 0)

Undo(t, zero) ==
  /\ At(t, "use_undo")
  /\ AddIO(t, -1)
  /\ IF ioCount[cur[t]] = 1
     THEN /\ zero
          /\ SubRefAll(<<msg[t]>>)
          /\ msg' = [msg EXCEPT ![t] = 0]
          /\ UNCHANGED drift
     ELSE Return(t) /\ Drift(t, -1) /\ UNCHANGED <<freed, msg>>
  /\ UNCHANGED <<send, sock, freeIdx, cur, id, net, events, count>>

(* Mutant: a count of zero is taken to be somebody else's to release.      *)
UseUndo_NoRelease(t) == Undo(t, Enter(t, "idle", <<>>))

(* A decrement that does not reach zero still ends in "return true".  The  *)
(* message, which the caller gives back when ReleaseSession has returned,  *)
(* is given back here: nobody else has it.                                 *)
UseUndo(t) == Undo(t, Enter(t, "rel_cas", Tail(ret[t])))

-----------------------------------------------------------------------------
(* SendPacket.  FindSession is the comparison of the IDs; the message is   *)
(* the caller's until Enqueue.                                             *)

SendPacket(t, s, n) ==
  LET m == count.msgs + 1 IN
  /\ At(t, "idle") /\ t = Content
  /\ m \in Msgs
  /\ count' = [count EXCEPT !.msgs = m, !.to = Append(@, n)]
  /\ \/ /\ sessionID[s] = n
        /\ cur' = [cur EXCEPT ![t] = s]
        /\ id' = [id EXCEPT ![t] = n]
        /\ msg' = [msg EXCEPT ![t] = m]
        /\ Enter(t, "use_inc", <<"snd_check">>)
        /\ UNCHANGED freed
     \/ sessionID[s] # n /\ SubRefAll(<<m>>) /\ UNCHANGED <<control, call>>
  /\ UNCHANGED <<life, send, sock, freeIdx, net, events, drift>>

CheckID(t, same) ==
  /\ At(t, "snd_check")
  /\ \/ /\ same
        /\ Goto(t, "snd_enqueue")
        /\ UNCHANGED <<freed, msg>>
     \/ /\ ~same
        /\ SubRefAll(<<msg[t]>>)
        /\ msg' = [msg EXCEPT ![t] = 0]
        /\ Goto(t, "dec")
  /\ UNCHANGED <<life, send, sock, freeIdx, cur, id, net, events, drift, count>>

(* Mutant: relies on FindSession's comparison, made before the count was   *)
(* raised.                                                                 *)
SendCheck_None(t) == CheckID(t, TRUE)

SendCheck(t) == CheckID(t, sessionID[cur[t]] = id[t])

SendEnqueue(t) ==
  /\ At(t, "snd_enqueue")
  /\ sendQ' = [sendQ EXCEPT ![cur[t]] = Append(@, msg[t])]
  /\ msg' = [msg EXCEPT ![t] = 0]
  /\ Goto(t, "snd_notify")
  /\ UNCHANGED <<life, sendFlag, sending, sock, freeIdx, cur, id, net, log>>

(* PostQueuedCompletionStatus hands the use over to the worker that takes  *)
(* the request; with the queue already drained nobody gives it up.         *)
SendNotify(t) ==
  /\ At(t, "snd_notify")
  /\ \/ sendQ[cur[t]] # <<>> /\ Queue("request", cur[t]) /\ UNCHANGED drift
     \/ sendQ[cur[t]] = <<>> /\ Drift(t, 1) /\ UNCHANGED cq
  /\ Return(t)
  /\ UNCHANGED <<life, send, sock, freeIdx, call, recvPend, sendPend, gone, opened,
                 events, freed, count>>

-----------------------------------------------------------------------------
(* DisconnectSession: the socket is taken from the session, but the        *)
(* connection is not closed.                                               *)

Disconnect(t, s, n) ==
  /\ At(t, "idle") /\ t = Content
  /\ count.disconnects < MaxDisconnects
  /\ sessionID[s] = n
  /\ count' = [count EXCEPT !.disconnects = @ + 1]
  /\ cur' = [cur EXCEPT ![t] = s]
  /\ id' = [id EXCEPT ![t] = n]
  /\ Enter(t, "use_inc", <<"dis_check">>)
  /\ UNCHANGED <<life, send, sock, freeIdx, msg, net, events, freed, drift>>

DisconnectCheck(t) ==
  /\ At(t, "dis_check")
  /\ Goto(t, IF sessionID[cur[t]] = id[t] THEN "dis_flag" ELSE "dec")
  /\ UNCHANGED <<life, send, sock, freeIdx, call, net, log>>

DisconnectFlag(t) ==
  /\ At(t, "dis_flag")
  /\ Goto(t, IF releaseFlag[cur[t]] THEN "dec" ELSE "dis_socket")
  /\ UNCHANGED <<life, send, sock, freeIdx, call, net, log>>

DisconnectSocket(t) ==
  /\ At(t, "dis_socket")
  /\ ioSocket' = [ioSocket EXCEPT ![cur[t]] = 0]
  /\ Goto(t, IF ioSocket[cur[t]] = 0 THEN "dec" ELSE "dis_mark")
  /\ UNCHANGED <<life, send, socketVal, disconFlag, freeIdx, call, net, log>>

DisconnectMark(t) ==
  /\ At(t, "dis_mark")
  /\ disconFlag' = [disconFlag EXCEPT ![cur[t]] = TRUE]
  /\ Goto(t, "dis_cancel")
  /\ UNCHANGED <<life, send, ioSocket, socketVal, freeIdx, call, net, log>>

(* CancelIoEx: a pending receive completes with no bytes.                  *)
Cancel(s) ==
  \/ s \in recvPend /\ recvPend' = recvPend \ {s} /\ Queue("recv_end", s)
  \/ s \notin recvPend /\ UNCHANGED <<recvPend, cq>>

DisconnectCancel(t) ==
  /\ At(t, "dis_cancel")
  /\ Cancel(cur[t])
  /\ Goto(t, "dec")
  /\ UNCHANGED <<life, send, sock, freeIdx, call, sendPend, gone, opened, log>>

-----------------------------------------------------------------------------
(* RecvPost.                                                               *)

RecvPost(t) ==
  /\ At(t, "rp_discon")
  /\ IF disconFlag[cur[t]] THEN Return(t) ELSE Goto(t, "rp_inc")
  /\ UNCHANGED <<life, send, sock, freeIdx, call, net, log>>

CountRecv(t, k) ==
  /\ At(t, "rp_inc")
  /\ AddIO(t, k)
  /\ Goto(t, "rp_recv")
  /\ UNCHANGED <<send, sock, freeIdx, call, net, log>>

(* Mutant: the receive is issued without counting it.                      *)
RecvInc_None(t) == CountRecv(t, 0)

RecvInc(t) == CountRecv(t, 1)

(* A call on the connection may fail outright once the peer has reset it.  *)
Usable(s)   == ioSocket[s] \in opened
MayFail(s)  == ioSocket[s] \notin opened \/ ioSocket[s] \in gone

(* WSARecv.                                                                *)
RecvIssue(t) ==
  LET s == cur[t] IN
  /\ At(t, "rp_recv")
  /\ \/ Usable(s) /\ recvPend' = recvPend \cup {s} /\ Goto(t, "rp_pended")
     \/ MayFail(s) /\ Goto(t, "rp_failed") /\ UNCHANGED recvPend
  /\ UNCHANGED <<life, send, sock, freeIdx, call, sendPend, cq, gone, opened, log>>

(* Pending is an error of the call too, so IOSocket is looked at again.    *)
RecvPended(t) ==
  /\ At(t, "rp_pended")
  /\ IF ioSocket[cur[t]] = 0 THEN Cancel(cur[t]) ELSE UNCHANGED <<recvPend, cq>>
  /\ Return(t)
  /\ UNCHANGED <<life, send, sock, freeIdx, call, sendPend, gone, opened, log>>

(* With IOSocket invalid the decrement is left to a completion, though the *)
(* call that failed will never have one.                                   *)
RecvFailed(t) ==
  /\ At(t, "rp_failed")
  /\ \/ ioSocket[cur[t]] = 0 /\ Drift(t, 1) /\ Return(t)
     \/ ioSocket[cur[t]] # 0 /\ Goto(t, "dec") /\ UNCHANGED drift
  /\ UNCHANGED <<life, send, sock, freeIdx, call, net, events, freed, count>>

-----------------------------------------------------------------------------
(* SendPost: whoever sets SendFlag sends; the others leave.                *)

SendPost(t) ==
  /\ At(t, "sp_discon")
  /\ IF disconFlag[cur[t]] THEN Return(t) ELSE Goto(t, "sp_flag")
  /\ UNCHANGED <<life, send, sock, freeIdx, call, net, log>>

Claim(t, busy) ==
  /\ At(t, "sp_flag")
  /\ sendFlag' = [sendFlag EXCEPT ![cur[t]] = TRUE]
  /\ IF busy THEN Return(t) ELSE Goto(t, "sp_size")
  /\ UNCHANGED <<life, sendQ, sending, sock, freeIdx, call, net, log>>

(* Mutant: the flag is set, but nobody looks at what it was.               *)
SendClaim_Blind(t) == Claim(t, FALSE)

SendClaim(t) == Claim(t, sendFlag[cur[t]])

SendSize(t) ==
  /\ At(t, "sp_size")
  /\ Goto(t, IF sendQ[cur[t]] = <<>> THEN "sp_clear" ELSE "sp_inc")
  /\ UNCHANGED <<life, send, sock, freeIdx, call, net, log>>

SendClear(t) ==
  /\ At(t, "sp_clear")
  /\ sendFlag' = [sendFlag EXCEPT ![cur[t]] = FALSE]
  /\ Return(t)
  /\ UNCHANGED <<life, sendQ, sending, sock, freeIdx, call, net, log>>

SendInc(t) ==
  /\ At(t, "sp_inc")
  /\ AddIO(t, 1)
  /\ Goto(t, "sp_take")
  /\ UNCHANGED <<send, sock, freeIdx, call, net, log>>

(* The loop of Dequeue is one step: only the owner of SendFlag takes       *)
(* messages out.  The path for an empty queue keeps the increment.         *)
SendTake(t) ==
  LET s == cur[t]
      n == IF Len(sendQ[s]) > SendMax THEN SendMax ELSE Len(sendQ[s])
  IN
  /\ At(t, "sp_take")
  /\ \/ /\ n > 0
        /\ sending' = [sending EXCEPT ![s] = SubSeq(sendQ[s], 1, n)]
        /\ sendQ' = [sendQ EXCEPT ![s] = SubSeq(@, n + 1, Len(@))]
        /\ Goto(t, "sp_send")
        /\ UNCHANGED <<sendFlag, drift>>
     \/ /\ n = 0
        /\ sendFlag' = [sendFlag EXCEPT ![s] = FALSE]
        /\ Drift(t, 1)
        /\ Return(t)
        /\ UNCHANGED <<sendQ, sending>>
  /\ UNCHANGED <<life, sock, freeIdx, call, net, events, freed, count>>

(* WSASend.  After an error SendFlag stays set and the messages wait for   *)
(* ReleaseSession.                                                         *)
SendIssue(t) ==
  LET s == cur[t] IN
  /\ At(t, "sp_send")
  /\ \/ Usable(s) /\ sendPend' = sendPend \cup {s} /\ Return(t)
     \/ MayFail(s) /\ Goto(t, "dec") /\ UNCHANGED sendPend
  /\ UNCHANGED <<life, send, sock, freeIdx, call, recvPend, cq, gone, opened, log>>

-----------------------------------------------------------------------------
(* WorkerThread: one action takes a completion off the port, by its kind.  *)
(* The key of a completion is the session, not the connection.             *)

Take(t, k) ==
  /\ At(t, "idle") /\ t \in Workers
  /\ cq # <<>> /\ Head(cq).kind = k
  /\ cq' = Tail(cq)
  /\ cur' = [cur EXCEPT ![t] = Head(cq).slot]

(* A receive that ended: the peer has left, or CancelIoEx.                 *)
WorkerEnd(t) ==
  /\ Take(t, "recv_end")
  /\ disconFlag' = [disconFlag EXCEPT ![Head(cq).slot] = TRUE]
  /\ Enter(t, "dec", <<>>)
  /\ UNCHANGED <<life, send, ioSocket, socketVal, freeIdx, id, msg, recvPend, sendPend,
                 gone, opened, log>>

WorkerRequest(t) ==
  /\ Take(t, "request")
  /\ Enter(t, "sp_discon", <<"dec">>)
  /\ UNCHANGED <<life, send, sock, freeIdx, id, msg, recvPend, sendPend, gone, opened,
                 log>>

Sent(t, left) ==
  LET s == Head(cq).slot IN
  /\ Take(t, "sent")
  /\ SubRefAll(sending[s])
  /\ sending' = [sending EXCEPT ![s] = left]
  /\ Enter(t, "sc_flag", <<>>)
  /\ UNCHANGED <<life, sendFlag, sendQ, sock, freeIdx, id, msg, recvPend, sendPend,
                 gone, opened, events, drift, count>>

(* Mutant: SendMsgCount is not reset.                                      *)
WorkerSent_Keep(t) == Sent(t, sending[Head(cq).slot])

(* SendComplete.                                                           *)
WorkerSent(t) == Sent(t, <<>>)

(* Mutant: SendFlag is not reset.                                          *)
SentFlag_Kept(t) ==
  /\ At(t, "sc_flag")
  /\ Goto(t, "sc_check")
  /\ UNCHANGED <<life, send, sock, freeIdx, call, net, log>>

SentFlag(t) ==
  /\ At(t, "sc_flag")
  /\ sendFlag' = [sendFlag EXCEPT ![cur[t]] = FALSE]
  /\ Goto(t, "sc_check")
  /\ UNCHANGED <<life, sendQ, sending, sock, freeIdx, call, net, log>>

(* Mutant: what was queued during the send is left for the next request.   *)
SentCheck_Skip(t) ==
  /\ At(t, "sc_check")
  /\ Goto(t, "dec")
  /\ UNCHANGED <<life, send, sock, freeIdx, call, net, log>>

SentCheck(t) ==
  /\ At(t, "sc_check")
  /\ IF sendQ[cur[t]] # <<>> THEN Enter(t, "sp_discon", <<"dec">>) ELSE Goto(t, "dec")
  /\ UNCHANGED <<life, send, sock, freeIdx, call, net, log>>

(* RecvComplete.  What arrived is part of a packet, or a packet for the    *)
(* content, or a header that ends in DisconnectSession.                    *)
WorkerRecv(t) ==
  LET s == Head(cq).slot
      n == sessionID[s]
  IN
  /\ Take(t, "recv")
  /\ \/ /\ Enter(t, "rp_discon", <<"dec">>)
        /\ \/ UNCHANGED posted
           \/ posted' = Append(posted, [kind |-> "recv", slot |-> s, conn |-> n])
        /\ UNCHANGED <<id, count>>
     \/ /\ count.disconnects < MaxDisconnects
        /\ count' = [count EXCEPT !.disconnects = @ + 1]
        /\ id' = [id EXCEPT ![t] = n]
        /\ Enter(t, "use_inc", <<"dis_check", "rp_discon", "dec">>)
        /\ UNCHANGED posted
  /\ UNCHANGED <<life, send, sock, freeIdx, msg, recvPend, sendPend, gone, opened,
                 taken, freed, drift>>

-----------------------------------------------------------------------------
(* The network and the content.                                            *)

PeerLeaves(n) ==
  /\ n \in 1 .. count.accepts \ gone
  /\ gone' = gone \cup {n}
  /\ UNCHANGED <<life, send, sock, freeIdx, control, call, recvPend, sendPend, cq,
                 opened, log>>

PeerSends(s) ==
  /\ s \in recvPend /\ socketVal[s] \notin gone
  /\ count.recvs < MaxRecvs
  /\ count' = [count EXCEPT !.recvs = @ + 1]
  /\ recvPend' = recvPend \ {s}
  /\ Queue("recv", s)
  /\ UNCHANGED <<life, send, sock, freeIdx, control, call, sendPend, gone, opened,
                 events, freed, drift>>

RecvEnds(s) ==
  /\ s \in recvPend
  /\ socketVal[s] \in gone \/ socketVal[s] \notin opened
  /\ recvPend' = recvPend \ {s}
  /\ Queue("recv_end", s)
  /\ UNCHANGED <<life, send, sock, freeIdx, control, call, sendPend, gone, opened, log>>

SendDone(s) ==
  /\ s \in sendPend
  /\ sendPend' = sendPend \ {s}
  /\ Queue("sent", s)
  /\ UNCHANGED <<life, send, sock, freeIdx, control, call, recvPend, gone, opened, log>>

(* The connections the content has been told of and not seen leave.        *)
Known ==
  LET Told(k) == {[slot |-> posted[i].slot, conn |-> posted[i].conn] :
                    i \in {j \in DOMAIN posted : j <= taken /\ posted[j].kind = k}}
  IN  Told("join") \ Told("leave")

TakeEvent ==
  /\ At(Content, "idle")
  /\ taken < Len(posted)
  /\ taken' = taken + 1
  /\ UNCHANGED <<life, send, sock, freeIdx, control, call, net, posted, freed, drift,
                 count>>

-----------------------------------------------------------------------------
Calls(t) ==
  \/ Dec(t) \/ ReleaseCommit(t) \/ ReleaseLeave(t) \/ ReleaseClean(t) \/ ReleasePush(t)
  \/ UseInc(t) \/ UseUndo(t)
  \/ SendCheck(t) \/ SendEnqueue(t) \/ SendNotify(t)
  \/ DisconnectCheck(t) \/ DisconnectFlag(t) \/ DisconnectSocket(t)
  \/ DisconnectMark(t) \/ DisconnectCancel(t)
  \/ RecvPost(t) \/ RecvInc(t) \/ RecvIssue(t) \/ RecvPended(t) \/ RecvFailed(t)
  \/ SendPost(t) \/ SendClaim(t) \/ SendSize(t) \/ SendClear(t)
  \/ SendInc(t) \/ SendTake(t) \/ SendIssue(t) \/ SentFlag(t) \/ SentCheck(t)

Accepting(t) ==
  InitID(t) \/ InitIO(t) \/ InitFlag(t) \/ InitRest(t) \/ AcceptHold(t) \/ AcceptJoin(t)

Working(t) == WorkerEnd(t) \/ WorkerRequest(t) \/ WorkerSent(t) \/ WorkerRecv(t)

Kernel(s) == RecvEnds(s) \/ SendDone(s)

Next ==
  \/ \E t \in Threads : Calls(t) \/ Accepting(t) \/ Working(t) \/ AcceptBlocked(t)
  \/ \E t \in Threads, s \in Slots : Accept(t, s)
  \/ \E t \in Threads, k \in Known :
       SendPacket(t, k.slot, k.conn) \/ Disconnect(t, k.slot, k.conn)
  \/ TakeEvent
  \/ \E s \in Slots : Kernel(s) \/ PeerSends(s)
  \/ \E n \in Conns : PeerLeaves(n)

Spec == Init /\ [][Next]_vars

(* Every thread runs on and the kernel completes what it can; the peers,   *)
(* the content and the next accept are free to do nothing more.            *)
FairSpec ==
  /\ Spec
  /\ WF_vars(Calls(Acceptor) \/ Accepting(Acceptor)) /\ WF_vars(Calls(Content))
  /\ \A w \in Workers : WF_vars(Calls(w) \/ Working(w))
  /\ \A s \in Slots : WF_vars(Kernel(s))

-----------------------------------------------------------------------------
(* Types: a caller never queues the null message, and calls return only to *)
(* the places that made them.                                              *)
LifeType ==
  /\ sessionID \in [Slots -> Nat] /\ releaseFlag \in [Slots -> BOOLEAN]
  /\ ioCount \in [Slots -> Int] /\ drift \in [Slots -> Int]
  /\ freeIdx \in [Slots -> Nat]
SendType ==
  /\ sendFlag \in [Slots -> BOOLEAN]
  /\ sendQ \in [Slots -> Seq(Msgs)] /\ sending \in [Slots -> Seq(Msgs)]
SockType ==
  /\ ioSocket \in [Slots -> Nat] /\ socketVal \in [Slots -> Nat]
  /\ disconFlag \in [Slots -> BOOLEAN]
ControlType == pc \in [Threads -> Points] /\ ret \in [Threads -> Seq(ReturnPoints)]
CallType ==
  /\ cur \in [Threads -> Slots]
  /\ id \in [Threads -> Nat] /\ msg \in [Threads -> 0 .. MaxMsgs]
NetType ==
  /\ recvPend \subseteq Slots /\ sendPend \subseteq Slots
  /\ cq \in Seq([kind : {"recv", "recv_end", "request", "sent"}, slot : Slots])
  /\ gone \subseteq Nat /\ opened \subseteq Nat
EventType ==
  /\ posted \in Seq([kind : {"join", "recv", "leave"}, slot : Slots, conn : Nat])
  /\ taken \in Nat
TypeOK ==
  /\ LifeType /\ SendType /\ SockType /\ ControlType /\ CallType /\ NetType /\ EventType
  /\ freed \in [Msgs -> Nat]

(* The session was accepted before any call was so late that it met the    *)
(* Initailize of another.  From the first late call on its own slot is not *)
(* to be relied on: see InitIO.                                            *)
OnTime(s) == count.late = 0 \/ sessionID[s] < count.late

(* Every change of IOCount is one end of a use: each increment has exactly *)
(* one decrement to come, in a thread, in the kernel or on the completion  *)
(* port, but for the places that drift names, which only lose decrements.  *)
(* So the count is never zero while anybody uses the session.              *)
Accounting ==
  \A s \in Slots : OnTime(s) => drift[s] >= 0 /\ ioCount[s] = Holds(s) + drift[s]

(* An index has one owner: the stack of free indexes, the accept that is   *)
(* preparing it, the live session, or the one thread that releases it.     *)
Owners(s, points) == {t \in Threads : cur[t] = s /\ pc[t] \in points}
Live(s) == sessionID[s] # 0 /\ ~releaseFlag[s] /\ Owners(s, InitPoints) = {}
SlotOwnership ==
  \A s \in Slots :
    freeIdx[s] + Cardinality(Owners(s, InitPoints)) + Cardinality(Owners(s, ReleasePoints))
      + (IF Live(s) THEN 1 ELSE 0) = 1

(* Once a session is released no I/O of it is pending, no completion for   *)
(* it is on its way and no thread uses it, but for calls of                *)
(* StartUseSession that are about to find out.                             *)
Leftover == {"use_inc", "use_undo", "rel_cas", "idle"} \cup ReleasePoints \cup InitPoints
ReleasedQuiet ==
  \A s \in Slots : OnTime(s) /\ releaseFlag[s] =>
    /\ s \notin recvPend \cup sendPend
    /\ \A i \in DOMAIN cq : cq[i].slot # s
    /\ \A t \in Threads : cur[t] = s => pc[t] \in Leftover

(* A session sends one batch at a time, so the one SendOverLapped and the  *)
(* array msg are never in use twice, and SendFlag says so.                 *)
Senders(s) ==
    Cardinality(Owners(s, {"sp_size", "sp_clear", "sp_inc", "sp_take", "sp_send", "sc_flag"}))
  + Cardinality({s} \cap sendPend)
  + Cardinality({i \in DOMAIN cq : cq[i] = [kind |-> "sent", slot |-> s]})
SendExclusive ==
  \A s \in Slots : OnTime(s) =>
    Senders(s) <= 1 /\ (Senders(s) = 1 => sendFlag[s])

(* A message is in one place until it is given back, and it is given back  *)
(* once: by the caller, after its send, or by ReleaseSession, which frees  *)
(* what SendMsgCount still counts without resetting it; so a session that  *)
(* a late call released a second time would free the same messages again.  *)
InFlight(s) ==
  IF (releaseFlag[s] /\ Owners(s, {"rel_leave", "rel_clean"}) = {})
     \/ Owners(s, {"init_rest"}) # {}
  THEN <<>>
  ELSE sending[s]
Carriers(m) == {t \in Threads : msg[t] = m}
Queued(m)   == UNION {{s} \X Positions(sendQ[s], m) : s \in Slots}
Batched(m)  == UNION {{s} \X Positions(InFlight(s), m) : s \in Slots}
MessagesOnce ==
  count.late = 0 =>
    \A m \in 1 .. count.msgs :
      freed[m] + Cardinality(Carriers(m)) + Cardinality(Queued(m)) + Cardinality(Batched(m)) = 1

(* The content hears of a connection in order: OnClientJoin, OnRecv for    *)
(* its packets, OnClientLeave, the first and the last exactly once.        *)
CallbacksInOrder ==
  \A i \in DOMAIN posted :
    LET before(k) == \E j \in 1 .. i - 1 :
                       posted[j] = [posted[i] EXCEPT !.kind = k]
    IN  /\ ~before("leave")
        /\ before("join") <=> posted[i].kind # "join"

(* The same across the reuse of an index, with everything at rest after a  *)
(* release, unless a call that found an earlier connection is so late that *)
(* it meets the Initailize of the next one.                                *)
ReuseUnlessLate == count.late = 0 => CallbacksInOrder /\ ReleasedQuiet

(* What is queued or being sent on a live session was meant for this very  *)
(* connection, not for the one that had its index before: SendPacket       *)
(* compares the IDs again once its use keeps the index from being reused.  *)
(* Even the first late call misdirects nothing; it only makes the count of *)
(* the session it meets worthless for the connection after that.           *)
NoMisdelivery ==
  \A s \in Slots :
    Live(s) /\ (count.late = 0 \/ sessionID[s] <= count.late) =>
      LET q == sendQ[s] \o InFlight(s)
      IN  \A i \in DOMAIN q : count.to[q[i]] = sessionID[s]

(* A message is stranded when it waits on a session that nobody sends for: *)
(* SendFlag is clear, and no request and no thread is on its way to it.    *)
Stranded(s) ==
  /\ ~disconFlag[s] /\ sendQ[s] # <<>> /\ ~sendFlag[s]
  /\ \A i \in DOMAIN cq : cq[i] # [kind |-> "request", slot |-> s]
  /\ Owners(s, {"snd_notify", "sp_discon", "sp_flag", "sc_check"}) = {}

(* What is queued will be sent: no live session has a stranded message.    *)
(* With two workers the code does not keep this.                           *)
NoStrandedMessage == \A s \in Slots : Live(s) => ~Stranded(s)

(* However many workers there are, only one step can strand a message: the *)
(* one in which SendPost, having found the queue empty, resets SendFlag.   *)
(* SendComplete, which resets it too, looks at the queue again, and        *)
(* whoever else turns away leaves somebody behind who will look.           *)
StrandedByClear ==
  [][\A s \in Slots : Stranded(s)' =>
       Stranded(s) \/ \E t \in Threads : cur[t] = s /\ SendClear(t)]_vars

(* A released session has closed its socket, but for the sessions the      *)
(* server has disconnected: DisconnectSession takes the socket out of      *)
(* IOSocket, and ReleaseSession then closes INVALID_SOCKET instead.        *)
SocketsClosed ==
  \A s \in Slots : OnTime(s) =>
    (releaseFlag[s] /\ Owners(s, {"rel_leave", "rel_clean"} \cup InitPoints) = {} =>
       (socketVal[s] \in opened <=> ioSocket[s] = 0))

(* When the peer has gone the session is released.                         *)
Left(n) == \E i \in DOMAIN posted : posted[i].kind = "leave" /\ posted[i].conn = n
PeerGoneReleased == \A n \in Conns : n \in gone ~> Left(n)

(* The same, but for the sessions whose IOCount has lost a decrement.      *)
ReleasedUnlessLost ==
  \A n \in Conns : n \in gone ~> Left(n) \/ \E s \in Slots : drift[s] > 0

(* Every message is given back in the end, with two exceptions: a session  *)
(* whose IOCount has lost a decrement keeps its messages, and a stranded   *)
(* message waits as long as its peer stays.                                *)
LeftBehind(m) ==
  \E s \in Slots :
    Stranded(s) /\ Positions(sendQ[s], m) # {} /\ count.to[m] \notin gone
MessagesReturn ==
  \A m \in Msgs :
    count.msgs >= m ~> freed[m] > 0 \/ LeftBehind(m) \/ \E s \in Slots : drift[s] > 0
=============================================================================
