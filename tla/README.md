# Verification of ProcademyServer

TLA+ modules, TLC configurations and TLAPS proofs for the chat server in `src/`:
a network library on I/O completion ports (`CNetServer`), the lock-free
containers it is built from, and the chat logic (`CChattingServer`) on top.
Paths below are relative to `src/`. Comments of the source are cited in
translation.

## 1. The system

| Part | State | Operations | Used by |
|---|---|---|---|
| `CLockFree_FreeList` (`LockFree_FreeList.h`) | a Treiber stack of free nodes, `_pTopNode` = (pointer, number), `_UniqueCount`, `_AllocSize`, `_UseSize` | `Alloc`, `Free` | the three containers below |
| `CLockFreeStack` (`LockFreeStack.h`) | the same shape, nodes with an index | `push`, `pop` | `_InvalidIndexStack`: the free session indexes |
| `CLockFreeQ` (`LockFreeQ.h`) | Michael-Scott queue: `_phead`, `_ptail` with numbers, `_UseSize` | `Enqueue`, `Dequeue`, `Clear` | `SendQ` of every session |
| `CTLS_LockFree_FreeList` (`TLS_LockFree_FreeList.h`) | per thread a chunk of objects, per chunk `AllocCount` and `FreeCount`, and a `CLockFree_FreeList` of chunks | `Alloc`, `Free` | messages, jobs, players |
| sessions (`NetServer.cpp`, `.h`) | `_SessionArray`: `SessionID`, (`IOCount`, `ReleaseFlag`), `SendFlag`, `SendQ`, `msg[]`/`SendMsgCount`, `IOSocket`, `SocketVal`, `DisconFlag` | accept, `RecvPost`, `SendPost`, the completions, `SendPacket`, `DisconnectSession`, `ReleaseSession` | the content |
| framing (`RecvPost`, `RecvComplete`, `OnRecv`) | `RecvQ`, one counted `CMsg` per completion | per completion | sessions |
| coding (`Setheader`, `Encoding`, `Decoding`) | none: header, check sum and data of a packet | per packet | framing, `SendPacket` |
| content (`ChattingServer.cpp`, `.h`) | `_PlayerMap`, `_SectorArr`, the players, the job port `_IocpQ` | the callbacks and `UpdateThread` with its handlers | - |
| start, monitor, end (`NetServer.cpp`, `main.cpp`) | the monitor's counters | `Start`, `MonitorThread`, `End` | - |
| `TlsProfile`, `CSListFreeList` | samples; an interlocked list | - | development only; not used |

**Threads.** One accept thread, several workers of the completion port, one
`UpdateThread` of the content. No locks: everything is done with interlocked
operations, so every access to a shared word is a place where another thread can
come in between.

**Interaction.** The accept thread pops an index, initialises the slot, calls
`OnClientJoin` and posts the first receive. Workers take completions, call
`OnRecv`, and the one that lowers `IOCount` to zero calls `OnClientLeave` and
pushes the index. The callbacks become jobs for `UpdateThread`, which calls back
`SendPacket` and `DisconnectSession` with identifiers that may be stale by then.

**What is hard.** (1) ABA in the three containers, which recycle nodes while
others look at them. (2) Counters that run ahead of or behind the links they
count, and decide which loop may be entered. (3) The life of a session: a count
raised before it is known whether the session is still the same. (4) `SendFlag`
and `SendQ`: who sends what was queued during a send. (5) Failures of
`WSARecv`/`WSASend` half way. (6) Order: join, receives, leave, reuse of the
index. (7) Legal but odd sequences of requests to the chat logic. (8) A stream
cut anywhere, a ring buffer that wraps anywhere, and a message whose last
reference is given back by another thread.

**What makes each part correct.**
Free list, stack: the links are exactly the pushed and not yet popped nodes; no
node is with two owners; no read through null; calls return.
Queue: FIFO, nothing lost, no node leaked, `Dequeue` never finds it empty.
Chunk list: each object with one client, a chunk back exactly once.
Sessions: one owner per index; count = uses still to be given up; nothing pending
on a released session; one send at a time; every message given back once;
callbacks in order; sessions of departed peers released; no message forgotten,
and none sent to the connection that reuses the index.
Framing: no byte of the stream lost, doubled or overwritten; no complete packet
left waiting; what is heard is what was sent; no message lost to the pool.
Coding: `Decoding` undoes `Encoding`.
Content: sectors and player map agree; no player object leaked; only who is
logged in acts; a message is heard by the neighbours and nobody else; a leave
removes the player.

The hazards, each with its line and the properties that would catch it, are in
`PROJECT.json`.

## 2. Modules and plan

In this order, most basic first, as later modules use the promise of earlier ones:

1. `NodePool` (abstract), `FreeList`, `FreeListProofs`
2. `Session`, `SessionProofs`, `SessionOrderProofs`
3. `LockFreeStack`, `LockFreeStackProofs`
4. `Fifo` (abstract), `LockFreeQ`, `LockFreeQProofs`
5. `ChattingServer`, `ChattingServerProofs`
6. `TlsFreeList`, `TlsFreeListProofs`
7. `Codec`
8. `RecvPath`, which extends `Codec`, and `RecvPathProofs` about both

The `MC...` modules add a symmetry set for TLC where it is sound (not where
liveness is checked) and, in `MCRecvPath`, bytes of two bits with their `^`.

Composition is by contract. `LockFreeStack`, `LockFreeQ` and `TlsFreeList` take
`NodePool` for the free list, and `FreeList` implements `NodePool`, for any
number of threads and nodes (`FreeListImplementsPool`).
`Session` takes the index stack for "pop gives an index that is on it" (proved of
`LockFreeStack`) and `SendQ` for a sequence (proved of `LockFreeQ` for the one
producer and one consumer at a time that `Session` has). `RecvPath` takes over where `Session`
stops, between the completion of a receive and the next `WSARecv`, when one
worker at a time is concerned with a session. `ChattingServer` takes the order of the
callbacks that `Session` checks (`ReuseUnlessLate`; `SessionRace` shows that a late call breaks
it), and the packets that `RecvPath` hands over.
`CMsg`, jobs and players come from pools: `TlsFreeList` implements `NodePool` too.

Left: `Session` with `ChattingServer` in one module, to see what the race of
section 5 does to the players. Every invariant and action property that a passing
run checks is also a theorem.

## 3. How the modules correspond to the code

Everywhere one action is one access to memory that several threads reach, with
the thread-local work up to the next one; interlocked operations are atomic and
memory is sequentially consistent, as on x86 with these intrinsics. Definitions
carry the names of the functions they translate; `PROJECT.json` "map" gives the
lines. Definitions with an underscore in their name and "Mutant" in their comment
are deliberate bugs; no specification uses them. They show that the properties notice them.

### FreeList (and NodePool)

`topNode`/`topUnique` are `_pTopNode`, `next` the `pNextNode`s, `created` the
nodes made with `new`, `held` what clients own. `pc` and the `l...`/`b...`
variables are a thread's position and locals. `AllocBegin` reads `_AllocSize`,
`AllocUse` is the increment of `_UseSize` compared with that *old* value, then
either `AllocGrow` or the popping loop `PopReserve` ... `PopExchange`.
`FreeBegin`, `PushLink`, `PushExchange`, `FreeUnuse` are `Free`: the push
exchanges the pointer alone and leaves the number. `list` is history: what the
list should contain. The heap is the finite set `Nodes`; `MaxAllocs` bounds the
calls (the sum of `uniqueCount` and `allocSize`).

`NodePool`: `Alloc` hands out a node nobody has, `Free` takes one back.

### Session

A connection is a number: its `SessionID`'s counter and its socket, 0 being
`INVALID_SOCKET`. A slot is an index of `_SessionArray`. `pc[t]` is the program
point of a thread, `ret[t]` the points its calls return to, `cur`/`id`/`msg` the
arguments. The calls into each other are explicit: `Dec` that reaches zero goes to
`rel_cas` and comes back through `ret`. The kernel is `recvPend`, `sendPend` and the
completion port `cq` (first in, first out); the peer is `gone`. A call on a
connection may fail only when its socket is invalid, closed or the peer is gone.

Simplifications, each kept to what no property tells apart:
- Taking a completion includes the handler's first step; its key is the *slot*.
- An immediate success of `WSARecv` posts a completion like a pending one.
- The branch at `NetServer.cpp:206` (`ERROR_OPERATION_ABORTED` with bytes) cannot be
  reached: an aborted receive has no bytes and is taken by the branch before it.
- The `Dequeue` loop of `SendPost` is one step: the owner of `SendFlag` is the only
  consumer and `SendMax` cuts it as `CMSG_MAX_SENDSIZE` does.
- The stores of `Initailize` after the reset of `ReleaseFlag` (`NetServer.h:57-73`) are one
  step, `InitRest`: until its end only a late call is in the slot besides, and what that
  may see half done the properties exempt.
- Where `StartUseSession` fails, the message is given back with the decrement
  (`UseUndo`), not after `ReleaseSession` has returned (`NetServer.cpp:660-663`,
  `723-726`): the caller alone has it.
- The two stores that build `SessionID` are one: what is there between them has
  counter 0, and no client was given that.
- `_InvalidIndexStack` is the count `freeIdx`. The real `pop` may in addition
  refuse for a moment while a push has not counted (`RefusedWhenFull` of
  `LockFreeStack` says exactly when).
- `RecvComplete` consumes at most one packet per completion: what it does with
  bytes and messages is `RecvPath`.
- The content is one thread that uses only identifiers from joins it has handled
  and not seen leave.

`Holds(s)` counts the decrements of `IOCount` still to come: threads at points that
end in one, entries of `ret`, operations with the kernel, completions on the port.
`drift` is history: it changes exactly where the code gains or loses a decrement
(`SendNotify` without a request, `RecvFailed` on an invalid socket, the empty path
of `SendTake`, `UseUndo` that does not reach zero, `InitIO` over a late increment).

Two history fields of `count` serve the properties: `late` is the first connection
whose `Initailize` met a call that had found an earlier one, `to` the connection
each message was meant for.

One slot is enough for TLC: slots share nothing but the threads and the order of
`cq`. The proofs are for any number of slots.

### RecvPath

`sent` is what the peer sends, packet by packet, each with its data and where it
ends, `stream` the bytes of all of them in a row, `arrived` how many of these TCP has
delivered, in pieces of any size. `ring`, `front`, `rear` are `RecvQ`; `RecvBuffers`
are the two `WSABUF`s of `RecvPost`. `RecvComplete` is the completion of a receive;
`NoPacket`, `BadHeader`, `PartOfPacket`, `Read`, `Decode` and `OnRecv` the loop of
`RecvComplete` with its exits, `RecvPost` the next `WSARecv`. `TakeJob` and `HandleJob`
are `UpdateThread` and the end of `ON_RECV_FUNC`. `pool`, `ref` and `body` are the
messages, `lost` the ones of completions that passed no packet on, `shared` whether a
completion has held two packets.

- One session: sessions share only the pool of messages and `UpdateThread`'s queue.
- `CRingBuff` and `CMsg` are not in the repository and are modelled from how
  `NetServer.cpp` uses them: a ring of which one byte stays empty, and a counted
  message that `SubRef` returns to the pool at zero.
- A peer sends coded packets, headers with another `Code`, without data, and packets
  longer than `RecvQ`.
- `BadHeader` sets `disconFlag` at once. `DisconnectSession` may return before it does
  (`NetServer.cpp:634-638`), but then the flag is set already or the socket has been
  taken by one that is about to set it; `Session` has its steps.
- The branch at `NetServer.cpp:906-913` for a failed `Decoding` is dead: `Decoding`
  returns TRUE always and never compares the check sum.

### Codec

The header is `Code`, `Len`, `RandKey`, and the check sum, which is coded with the
data; `Len` takes one place where the code has two bytes, so `HeaderSize` is 4. The
loop of `Encoding` carries `PKey` and `EKey` from byte to byte; that is written as a
relation between the plain and the coded bytes, `Decoding` as functions of the index.
`^` is the constant `ByteXor`, of which the proofs use only that doing it twice
undoes it. The LAN_SERVER header (`NetServer.cpp`, `Setheader`) is not used by this
server. `Setheader` reports an empty message and `SendPacket` ignores the report;
a packet without data is one of those the receiver refuses.

### LockFreeStack

As `FreeList`, with `Data` an index, and `_UseSize` lowered first by `pop` (`Pop`):
negative means `PopUndo`, and `PopUndo` that sees a positive value after a push
*goes on* (`LockFreeStack.h:365-374`). `Init` is the state after the loop in
`Start` (`NetServer.cpp:59-66`). `undone` remembers that a pop has found the size
negative. Poppers stand for the accept thread; two are used where the question is
about the class rather than the server. `MaxPops` bounds the calls.

### LockFreeQ (and Fifo)

`head`/`tail` are (node, number) pairs; `Enqueue` and `Dequeue` share the steps that
move a lagging tail (`ReadTail...`, `TailExchange`; `Help...` for the loops that help).
The server has one producer per queue (`UpdateThread`) and one consumer at a time
(the owner of `SendFlag`, or `ReleaseSession`), which calls `Dequeue` only after it
has seen `GetUseSize` not zero; `Clear` runs in `Initailize` when nobody else uses
the queue, mostly on an empty one, which `ReleaseSession` has drained. `MaxEnqueues` and `MaxHelps` bound the calls and the numbers used up.
`Fifo` is the abstract queue.

### ChattingServer

`net` is the library's side of a session, `jobs` the port `_IocpQ`, `playerMap` and
`sectorMap` the maps from sessions to player objects, `player` the fields of every
object, `inUse` the objects outside the pool. `OnClientJoin`, `OnRecv`, `OnClientLeave`
are done by workers; `UpdateThread` handles one job at a time, one action for each
handler and outcome; `TakeRequest` and `Take` are what they have in common. `out` is what the last job sends and to whom. A request is a
record of what the handlers distinguish: type, account, whether its length is the
one asked for, target sector. Names, message bodies, `_ErrorCount` and
`_UpdateCount` are left out. The heartbeat handler has no body
(`ChattingServer.cpp:647`): action `Nothing`. A client can present the account -1
that a new player has (`NoAccount`). `SendPacket` to a session that is gone does
nothing here; that is `Session`'s part.

### TlsFreeList

`tls` is each thread's chunk, `allocCount`/`freeCount` the chunk's counters, `chunks`
those outside the list of chunks. Steps on thread-local data are merged; the
decrement of `FreeCount` and the return of the emptied chunk are separate.

Three threads and chunks of three are checked; the proofs are for any numbers.

### Not modelled

`CSListFreeList` (only in commented code), `TlsProfile` (a development profiler),
the monitor's printing, `End` (which `main` never calls), start-up errors,
`IsEmpty` of the queue and `ChunkAlloc`/`GetChunkSize` of the chunk list (no
caller), address and logging data. `Begin`, `End` and `GetSample` of `TlsProfile` have
no caller either. Session numbers do not wrap in the model: `Initailize`
takes 32 bits of the counter (`NetServer.h:49-53`), which repeat after 2^32 accepts, and
no instance within reach gets there. `main.cpp` starts a `CMyLanServer` that is not
in the repository.

## 4. Runs

| Run | What it asks | Instance, and why it is enough |
|---|---|---|
| FreeListCalls | list exact, pops covered, `NodePool` implemented, every call returns; `Inductive` itself | 2 threads, 3 nodes, 6 calls, fair: for an ABA one thread stops in its pop while the other pops two nodes and pushes the first back |
| SessionSend | one send at a time, messages given back once, and in the end unless stranded; what strands a message | 1 connection, 2 workers, 3 messages, fair: one worker is at the end of a send, the other at the request of the message behind, and a third message can free the stranded one |
| SessionRelease | release after the peer has gone, and the message given back, or a decrement was lost | 1 connection, 2 workers, a message, a receive that is posted again, a disconnect, fair |
| SessionReuse | no message reaches the next connection, one owner per index, count = holds + drift, released sessions quiet and closed; callbacks in order unless a late call meets `Initailize` | 2 connections on 1 index, 2 workers, a message, a receive and a disconnect, with calls for the first connection still running when the second is accepted |
| StackSafety | each index in one place, links exact, refusals justified, no null read before a pop has met an empty stack | 2 poppers, 2 pushers, 2 indexes, 5 pops |
| QueueSend | links exact, tail at most one behind, sizes covered, nodes accounted, `Fifo` implemented | 1 producer, 5 nodes, 5 messages: an exchange of the tail with an old copy shows only then |
| TlsPool | chunk books exact, a chunk back exactly once, objects form a `NodePool` | 3 threads, 3 chunks of 3 objects |
| RecvMessages | bytes exact, nothing complete left behind, heard as sent, message books; what has arrived is heard | 2 packets of 1 or 2 bytes or bad ones, 4 completions of any length, a ring of 11 (two packets of the longer kind wrap round it, the longest does not fit), 3 messages, fair |
| ChatSafety | maps exact, players accounted and gone after the leave, answers need a login, exact audience, accounts kept | 2 sessions, 3 players, 2 x 2 sectors (same, next, across a corner, and too far from one that has not moved), 5 requests of every kind, 2 jobs waiting at a time |
| SessionSendLeak, SessionLostWakeup, SessionRace | one property each, which the code violates | the smallest that shows it; see section 5 |

All have `CHECK_DEADLOCK FALSE`: when the bounds on the environment are used up
and all calls have returned the server waits for its clients, as it may.

Where a property holds only in part of the system, the runs draw the line.
`CallbacksInOrder` and `ReleasedQuiet` fail when a call of the content that found an
earlier connection is so late that it meets `Initailize`; `SessionReuse` shows that
nothing else breaks them (`ReuseUnlessLate`). `NoMisdelivery` survives even the first
late call: what that spoils is the count, and so the connection after.
`Accounting`, `ReleasedQuiet`, `SendExclusive` and `SocketsClosed` hold of every
session accepted before the first late call (`OnTime`), on whatever indexes that was;
`MessagesOnce` as long as there was none. `NoStrandedMessage` fails as soon as there are
two workers; what holds for any number is that only the reset of `SendFlag` behind an
empty look strands a message (`StrandedByClear`). `MessagesReturn` names this exception and
one more: a message comes back in the end, unless its session has lost a decrement or the
message is stranded and its peer stays. `SafeBelowCapacity` says that the null read of the stack
needs a pop that has met an empty stack. `HeardAsSent` and `MessageBooks` hold while
no completion has held two packets, which the code does not survive (section 5).

Type invariants: proved, not run, for `FreeList`, `LockFreeStack`, `TlsFreeList`,
`Session` and `RecvPath` (a part of `Inv` there); proved and run for `LockFreeQ` and
`ChattingServer`.

**Fairness.** Weak fairness of each thread by itself: the accept thread while it sets up a
connection, the content's inside a call, every worker inside a call or when a
completion waits; and of the kernel, per session, for operations that can complete. The
threads loop forever and block only on the port. None for peers, accepts, the content's calls, or a client's `Alloc`: they may
stop. Retries end because the interfering calls are bounded; in an unbounded run the
containers are lock-free and not wait-free. `CallsReturn` lets a call wait only where
the finite heap of the model has run out. In `RecvPath` the worker that has a completion and
`UpdateThread` go on; peers and the delivery of bytes are free, as is the content in
disconnecting the session. `ChattingServer` needs no fairness:
`PlayersAccounted` says what must have happened once the jobs are handled.

## 5. Disagreements found

Three runs violate a property that states a comment of the source (quoted in
`PROJECT.json` "findings"):

- `SessionSendLeak`: `SendPacket` raises `IOCount` and ends the use through a request
  that it does not post when a worker has drained the queue first
  (`NetServer.cpp:704-711`): the session is never released.
- `SessionLostWakeup`: a message queued between "queue is empty" and the reset of
  `SendFlag` (`NetServer.cpp:398-401`) stays there.
- `SessionRace`: a late `StartUseSession` raises the count of a slot that `Initailize`
  then sets to 0, or a late `ReleaseSession` finds it there with the flag reset; the
  new session is released while it is set up or in use.

Others are in the models without a run of their own:

- A release that a late call starts between the reset of `ReleaseFlag` and that of
  `SendMsgCount` in `Initailize` (`NetServer.h:55-73`) gives the messages of the last,
  uncompleted send of the old session back a second time: `ReleaseSession` frees what
  `SendMsgCount` counts without resetting it. So `MessagesOnce` has to exclude late calls.
- A `pop` that found the stack empty and then a positive size goes on without an
  element reserved for it (`LockFreeStack.h:365-374`) and may read through null at 392.
  One accept thread and one push are enough. `SafeBelowCapacity` says what does hold.
- A completion has one `CMsg`. A second packet in it is written into the same message
  (`NetServer.cpp:879-918`), which the content may not have read yet or may have given
  back, although the comment at 916 has the reference passed on: `shared`.
- A completion that brings no whole packet never gives its `CMsg` back: `lost`.
- A packet longer than `RecvQ` fills it; the next `WSARecv` has no room, and its
  completion without bytes is taken for the end of the connection: `RecvEnds`.
- The check sum is computed and decoded and never compared.
- `RecvPost` that fails on a socket `DisconnectSession` has replaced waits for an aborted
  completion that does not exist (`NetServer.cpp:549-556`): the `drift` of `RecvFailed`,
  one of the ways in which `ReleasedUnlessLost` allows a session to stay.
- After `DisconnectSession` the connection is never closed (`NetServer.cpp:634`, `763`):
  `SocketsClosed` states exactly this.
- `_AcceptClientCount`, printed as "Accept Total", falls with every release
  (`NetServer.cpp:793`); the monitor's counters are not modelled.
- With two producers a node of `CLockFreeQ` can be linked behind one that was dequeued
  and reused, and `AddedIsQueued` fails (two producers and three nodes are enough). The
  server has one producer per queue and is not affected.
- A second login is answered from a player that is in no map and is never freed
  (`ChattingServer.cpp:324`): `again` counts them in `PlayersAccounted`.
- A player that has not moved yet is at [-1, -1], and what it says is heard in sector [0, 0]
  (`ChattingServer.cpp:592`); `AudienceExact` states it so.

## 6. Proofs

Every theorem is for all values of the constants that satisfy the named ASSUMEs of
its module; nothing else is assumed. TLC has checked each statement, and each
inductive invariant, on small instances first.

| Module | Theorem | Statement |
|---|---|---|
| FreeListProofs | InductiveInvariant, TypeCorrect, ListNeverCorrupt, PoppersAlwaysCovered, NeverNull, CountersAgree, FreeListImplementsPool | `Spec => []` of `Inductive`, `TypeOK`, `ListRep`, `PoppersCovered`, `NoNullDereference`, `CountersExact`; `Spec => ImplementsPool` |
| LockFreeStackProofs | InductiveInvariant, TypeCorrect, StackNeverCorrupt, IndexesExclusive, RefusalsJustified, SafeUntilEmpty | `Spec => []` of `Inductive`, `TypeOK`, `ListRep`, `IndexExclusive`, `RefusedWhenFull`, `SafeBelowCapacity` |
| TlsFreeListProofs | InductiveInvariant, TypeCorrect, BooksExact, ChunksReturned, ChunkListImplementsPool | `Spec => []` of `Inductive`, `TypeOK`, `ChunkBooks`, `ChunkReturned`; `Spec => ImplementsPool` |
| LockFreeQProofs | InductiveInvariant, TypeCorrect, QueueNeverBroken, SizeAlwaysCovered, NodesAlwaysAccounted, QueueImplementsFifo | with one producer: `Spec => []` of `Inductive`, `TypeOK`, `QueueRep`, `SizeCovered`, `NodesAccounted`; `Spec => ImplementsFifo` |
| SessionProofs | InductiveInvariant, TypeCorrect, IndexesOwned, SoundInvariant, CountAccounted, ReleasedAtRest, SendsExclude | `Spec => []` of `Inductive`, `TypeOK`, `SlotOwnership`, `Sound`, `Accounting`, `ReleasedQuiet`, `SendExclusive` |
| SessionOrderProofs | ReuseOrdered, ReleaseCloses, SentWhereMeant, MessagesKept | `Spec => []` of `ReuseUnlessLate`, `SocketsClosed`, `NoMisdelivery`, `MessagesOnce` |
| SessionOrderProofs | StrandedOnlyByClear | `Spec => StrandedByClear`, for any number of workers |
| RecvPathProofs | DecodingUndoesEncoding, PacketReadBack | for every data, keys and size of a byte |
| RecvPathProofs | ReceivingInvariant, QueueIsExact, NothingIsLeft, ContentHearsWhatWasSent, MessagesBooked | `Spec => []` of `Inv`, `QueueExact`, `NothingLeftBehind`, `HeardAsSent`, `MessageBooks` |
| ChattingServerProofs | ChatInvariant, TypeCorrect, SectorsAlwaysExact, PlayersAlwaysAccounted, OnlyLoggedInAct, AudienceAlwaysExact, AccountsKept | `Spec => []` of `Inductive` and the invariants of ChatSafety; `AccountKept` |

### The free list

`ListRep` is not inductive: it says nothing of what threads carry in their locals.
`NoNullDereference` and `CountersExact` have no run of their own; they follow from
`Inductive`, which FreeListCalls checks.
`Inductive` adds
- `Partition`: a node is with a client, in the list or with one pusher. So a push
  never links a node that is in the list.
- `Sizes`: `_AllocSize` and `_UseSize` in terms of those places and of the calls in
  progress, and a remembered `_AllocSize` is never too large (it only grows). That
  makes the comparison at `LockFree_FreeList.h:156` sound: if it admits a thread,
  more nodes exist than are in use, even by those about to be.
- `PoppersCovered`, which follows at that point and is kept by every later step.
- `Unique`: the number a pop has reserved is on no top and in no copy; so a
  successful exchange that puts it there outdates every copy.
- `Snapshot`: a copy whose number is still the top's has a node still in the list,
  and the successor read through it is still its successor. Here ABA is excluded.

There is one lemma per conjunct, each with one step per action, on
lemmas about moving one thread between sets (`MoveCard`, `GotoCounts`) and about pushing
and popping the history. `FreeListImplementsPool` maps every step to `Alloc`, `Free` or
a stutter of `NodePool`; what needs an argument is that `AllocGrow` and a successful
`PopExchange` give out a node that no client has (`Partition`), and that the pool's
count of calls agrees with the numbers taken (`ReservedCounts`).

### The index stack

The same shape with `Places` (every node in one place), `IndexOnce` (every index in one
place), `Sizes`, `Unique` and `Snapshot`. `Sizes` is an equation only until a pop takes
its decrement back and goes on; after that it is an inequality, and with it goes the
promise that a top is not null (`undone`). `ListRep` and `IndexExclusive` do
not need it, because `Snapshot` lets the copy be null: the code crashes there before
it corrupts anything.

### The send queue

The theorems assume one producer (`OneProducer`), which `UpdateThread` is: with two the
queue breaks (section 5). `Inductive` is the invariants of QueueSend and
- `Distinct`, `Carriers`, `Built`: no node is queued twice or both queued and carried, and
  a carried node has its message and, once filled, nothing behind it;
- `TailCopies`: the node of a copy of the tail is queued, or has left and still shows its
  successor. Only a producer takes nodes from the pool, so while its own copy lasts no
  node is handed out again, and the exchange of `pNextNode`, which compares with null
  alone, can only link behind the last node. While that copy is of the last node the
  tail is there too; hence the tail is never more than one node behind;
- `HeadCopies`: the consumer goes to the head only after it has seen nothing behind its
  copy of the tail, which was then the last node and not the dummy: the head never
  overtakes the tail. Nobody else moves the head, so the consumer's exchange succeeds.

`SizeFacts` draws from `SizeCovered` that a `Dequeue` under way has a node behind the
dummy, and one more when the producer has linked but not yet moved the tail. The numbers
of head and tail play no part in the proof: with one producer and one consumer they are
not needed. The refinement takes the link for the abstract `Enqueue` and the exchange
of the head for `Dequeue` (`LinkAppends`, `HeadTakes`, `ClearEmpties`).

### The chunk list

`Owners` (a thread's chunk is its own), `Givers` (a chunk of which nothing is left to
come back is with exactly one thread on its way to the list) and `Books`: `FreeCount`
= objects outside + objects not yet handed out. `Books` is the reason why
the thread that sees zero is the only one and the last.

### Sessions

`SlotOwnership` survives although `Accounting` does not: `ReleaseSession` releases only by
an exchange that needs the flag clear, so a second release needs a second
`Initailize`. For that argument no slot with the flag clear may be touched by anybody
unless it is live. `Inductive` says so:
- `Settled`: a slot that a thread in a call, the kernel, the port or the content's
  events mention is live or has its flag set;
- `Numbered`: between the number and the clearing of the flag in `Initailize` the slot
  has its number, so it becomes live with the flag and not before;
- `Returns`: a thread in `StartUseSession` has somewhere to return to, and a `SendPacket`
  it returns to still has its message. This is needed for the types;
- `CountOK`: the types of the counters and histories.

The steps fall into three kinds, for which ownership is shown once each (`MovesOwned`,
`BeginsOwned`, `RestsOwned`): those inside a call, which keep to the slot they were
given, those that begin one, and those of no thread. The others (accepting,
the two exchanges of `Release`, the steps of `Initailize`) have a lemma each.

`Sound` adds the count. `Accounting` says that `IOCount` is the number of operations
and calls that hold the session, plus `drift`, what the code's own slips have added.
It is not inductive: whether an exchange of `IOCount` with 0 finds a session nobody
uses depends on where each thread is and what it returns to (`Shapes`), on the numbers of connections only growing (`Numbers`,
`Joins`), and on every holder giving its share back once. Per session
(`Balanced`):
- `ioCount = Holds + drift` and `drift >= 0`: nothing takes off more than was added;
- `OneAtATime`: at most one reader, at most one sender, and a sender means that
  `SendFlag` is set. This is `SendExclusive`, and each holder counts as one;
- `Undoing`: who finds that its own increment was the first is the content, alone;
- `AtRest`: between release and the next accept nothing of the session is under way, but
  for calls of the content that are about to find out;
- `Alone`: while `Initailize` resets the slot, no other thread is in it. This is what
  lets the reset of the count keep the sum, and it is what a late call breaks.

All of this is claimed only of sessions on time (`OnTime`). The proof moves
one thread, one operation of the kernel or one posted completion at a time, and says
for each what `Holds`, `Readers` and `Senders` become.

### The order of a session's events, its sockets and its messages

Each of these rests on `Sound`.
- `Told` (no late call): no call of the content is for a connection to come (`Early`), and a
  session that is open has had its join and no leave yet (`Heard`). `CallbacksInOrder` follows, because a release posts the leave last.
- `Sockets`: the accept thread's socket is in no slot yet (`Unused`), a slot's
  `IOSocket` is its own socket or none (`Stored`), no two slots share one (`Distinct`),
  and a session that is held has it open (`Opened`).
- `Delivery`: the content's message is for the number it has asked with (`Addressed`), the
  queue of a vacant slot is empty (`Cleared`), and what a live slot has queued or is sending
  was sent to its number (`Meant`). A late call changes none of these at once; it can
  only make the next session end too soon, hence `Own` in place of `OnTime`.
- `Kept`: a message is with the content, in one place of one queue or batch, or given back
  once (`Placed`), and a batch that has been given back is not given back again before it
  is refilled (`Fresh`). The latter needs that `Initailize` resets `SendMsgCount` before
  a second release, which a late call defeats (section 5).
- `Awaited`: when `SendFlag` is clear, a message in the queue comes with a request on the
  port or a thread that is going to look: `~Stranded`. It is not an invariant. With two
  workers, one can be between "queue is empty" and the reset while the other takes the
  request of a new message and turns away from the flag that is still set
  (`SessionLostWakeup`). But every other step keeps it, for any number of workers:
  who queues a message, who meets the flag and who resets it after a send has
  somebody behind it who will look, and `StrandedByClear` says just that.

### Packets

`Encoding` is a relation that holds of the plain and coded bytes when there are keys as its
loop makes them. `DecodingUndoesEncoding` shows that the keys `Decoding` computes are the
same, byte by byte, without induction: each depends only on what both sides know.
`PacketReadBack` puts header and layout around it: whatever the data, the receiver reads
them back. For the check sum it says so if that is a byte, which follows from its
definition as a fold only by induction over the data, out of the prover's reach; nothing
compares the check sum, so the data do not depend on it. `ByteAssumption` asks for two
values of a byte, since a packet of another code than the server's must exist.

### The receiving path

`QueueExact` compares `RecvQ` with the stream of the peer; to keep it one must know where
the packets lie in that stream. `Inv` is `TypeOK` and
- `Framed`: the packets sent lie in the stream one behind the other, each made by
  `Encoding` from its data, and those the server is to take are the first ones;
- `Frontier`: `RecvQ` begins where the last packet ends that was taken out, and holds
  what has arrived since, byte by byte, across the end of the ring;
- `Shape`: what the worker has in its hands: the packet undecoded, then its data;
- `Waiting`: the loop of `RecvCompletion` has ended because a header or a packet is not
  complete, or the session is being disconnected;
- `Books`, `Hearing`: a message is in one place and counted there; every packet passed on has
  been read or is in the job queue, with the data of the packet of that number.

The last two, and `Shape` in part, are claimed while no completion has held two packets
(`shared`), since the second is decoded over the first.

### The chat logic

`Inductive` is `TypeOK`, `SectorsExact` and
- `Owners`, `Placed`: who is in the map has a player of its own that knows it, and who has
  joined a sector is in one of the map;
- `InUseCount`: players in use are those of the map and of second logins;
- `Started`: a player that may act belongs to a session that has logged in;
- `LeavesLast`, `LeaveWaits`, `NewIsUnknown`: the leave is the last job of its session,
  is waiting as long as the session has a player or a job, and a new session has
  neither.

### What is only model-checked

Every safety property of the passing runs is a theorem. Left to TLC are the liveness properties `CallsReturn`,
`ReleasedUnlessLost`, `MessagesReturn` and `ArrivedIsHeard`, which need fairness and
ENABLED; that the check sum of every data is a byte, which needs induction; and
the counterexamples of the three runs that expect one. No module uses RECURSIVE
operators.
