---------------------------- MODULE TlsFreeList -----------------------------
(***************************************************************************)
(* CTLS_LockFree_FreeList (TLS_LockFree_FreeList.h): messages, jobs and    *)
(* players come out of chunks of CHUNK_SIZE objects.  A thread hands out   *)
(* the objects of its own chunk, the last first; any thread gives an       *)
(* object back by lowering the chunk's FreeCount, and who lowers it to     *)
(* zero gives the chunk back to a CLockFree_FreeList, of which only the    *)
(* promise of NodePool is used.                                            *)
(***************************************************************************)
EXTENDS Integers, FiniteSets

CONSTANTS
  Threads,
  Chunks, NoChunk, \* the ChunkNODEs the list can hand out; nullptr
  CHUNK_SIZE,
  MaxChunks        \* bound on the chunks taken

ASSUME ChunksAssumption == IsFiniteSet(Chunks) /\ NoChunk \notin Chunks
ASSUME SizeAssumption   == CHUNK_SIZE \in Nat \ {0, 1}
ASSUME BoundAssumption  == MaxChunks \in Nat

Objects == Chunks \X (0 .. CHUNK_SIZE - 1)

VARIABLES
  tls,                   \* TlsGetValue(TlsIndex) of every thread
  allocCount, freeCount, \* AllocCount and FreeCount of every chunk
  chunks, taken,         \* the chunks outside _ChunkFreeList, and how many ever left it
  held, served,          \* the objects clients have; how many calls of Alloc returned
  emptied                \* the chunk a thread in Free has emptied and gives back

vars == <<tls, allocCount, freeCount, chunks, taken, held, served, emptied>>

ChunkPool == INSTANCE NodePool WITH Nodes <- Chunks, inUse <- chunks, served <- taken

(* The constructor puts 16 chunks into the list and takes none out.        *)
Init ==
  /\ tls = [t \in Threads |-> NoChunk]
  /\ allocCount = [c \in Chunks |-> 0] /\ freeCount = [c \in Chunks |-> 0]
  /\ chunks = {} /\ taken = 0
  /\ held = {} /\ served = 0
  /\ emptied = [t \in Threads |-> NoChunk]

Idle(t) == emptied[t] = NoChunk

Return(o) == held' = held \cup {o} /\ served' = served + 1

(* A thread without a chunk takes one and returns its last object.         *)
AllocChunk(t, c) ==
  /\ Idle(t) /\ tls[t] = NoChunk
  /\ taken < MaxChunks
  /\ ChunkPool!Alloc(c)
  /\ allocCount' = [allocCount EXCEPT ![c] = CHUNK_SIZE - 2]
  /\ freeCount' = [freeCount EXCEPT ![c] = CHUNK_SIZE]
  /\ tls' = [tls EXCEPT ![t] = c]
  /\ Return(<<c, CHUNK_SIZE - 1>>)
  /\ UNCHANGED emptied

AllocNext(t) ==
  LET c == tls[t] IN
  /\ Idle(t) /\ c # NoChunk
  /\ allocCount[c] # 0
  /\ allocCount' = [allocCount EXCEPT ![c] = @ - 1]
  /\ Return(<<c, allocCount[c]>>)
  /\ UNCHANGED <<tls, freeCount, chunks, taken, emptied>>

LastObject(t, keep) ==
  LET c == tls[t] IN
  /\ Idle(t) /\ c # NoChunk
  /\ allocCount[c] = 0
  /\ tls' = [tls EXCEPT ![t] = keep]
  /\ Return(<<c, 0>>)
  /\ UNCHANGED <<allocCount, freeCount, chunks, taken, emptied>>

(* Mutant: the used up chunk stays the thread's.                           *)
AllocLast_Keep(t) == LastObject(t, tls[t])

(* The last object: the next Alloc of the thread will take a new chunk.    *)
AllocLast(t) == LastObject(t, NoChunk)

LowerCount(t, o, last) ==
  /\ Idle(t)
  /\ o \in held
  /\ held' = held \ {o}
  /\ freeCount' = [freeCount EXCEPT ![o[1]] = @ - 1]
  /\ emptied' = [emptied EXCEPT ![t] = IF last THEN o[1] ELSE NoChunk]
  /\ UNCHANGED <<tls, allocCount, chunks, taken, served>>

(* Mutant: the chunk goes back when one object is still out.               *)
Free_Early(t, o) == LowerCount(t, o, freeCount[o[1]] = 2)

(* Mutant: the chunk goes back as soon as none of the objects handed out   *)
(* so far is left outside.                                                 *)
Free_HeldOnly(t, o) == LowerCount(t, o, \A p \in held \ {o} : p[1] # o[1])

Free(t, o) == LowerCount(t, o, freeCount[o[1]] = 1)

FreeChunk(t) ==
  /\ ~Idle(t)
  /\ ChunkPool!Free(emptied[t])
  /\ emptied' = [emptied EXCEPT ![t] = NoChunk]
  /\ UNCHANGED <<tls, allocCount, freeCount, held, served>>

Next == \E t \in Threads :
  \/ \E c \in Chunks : AllocChunk(t, c)
  \/ AllocNext(t) \/ AllocLast(t) \/ FreeChunk(t)
  \/ \E o \in Objects : Free(t, o)

Spec == Init /\ [][Next]_vars

-----------------------------------------------------------------------------
(* Types: FreeCount is at most a chunk's size, AllocCount a valid index.   *)
TypeOK ==
  /\ tls \in [Threads -> Chunks \cup {NoChunk}]
  /\ allocCount \in [Chunks -> 0 .. CHUNK_SIZE - 2]
  /\ freeCount \in [Chunks -> 0 .. CHUNK_SIZE]
  /\ chunks \subseteq Chunks /\ taken \in Nat
  /\ held \subseteq Objects /\ served \in Nat
  /\ emptied \in [Threads -> Chunks \cup {NoChunk}]

HeldOf(c)   == {o \in held : o[1] = c}
OwnersOf(c) == {t \in Threads : tls[t] = c}
Unused(c)   == IF OwnersOf(c) = {} THEN 0 ELSE allocCount[c] + 1

(* FreeCount is the number of objects that have still to come back: those  *)
(* clients have, and those the one thread that owns the chunk has not      *)
(* handed out yet; they are the first ones, so none is handed out twice.   *)
ChunkBooks ==
  \A c \in chunks :
    /\ freeCount[c] = Cardinality(HeldOf(c)) + Unused(c)
    /\ Cardinality(OwnersOf(c)) <= 1
    /\ \A o \in HeldOf(c) : o[2] >= Unused(c)

(* A chunk is given back by one thread, when nobody has an object of it    *)
(* and no thread will hand one out; a chunk in the list has no objects     *)
(* outside.                                                                *)
ChunkReturned ==
  \A c \in Chunks :
    LET givers == {t \in Threads : emptied[t] = c} IN
    /\ c \in chunks /\ freeCount[c] = 0 <=> givers # {}
    /\ Cardinality(givers) <= 1
    /\ c \notin chunks => HeldOf(c) = {} /\ OwnersOf(c) = {}

(* To its clients the list is a pool of single objects.                    *)
Pool == INSTANCE NodePool WITH Nodes <- Objects, inUse <- held
ImplementsPool == Pool!Spec
=============================================================================
