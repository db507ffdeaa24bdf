-------------------------- MODULE TlsFreeListProofs --------------------------
(***************************************************************************)
(* Proofs about CTLS_LockFree_FreeList for any number of threads and       *)
(* chunks and any size of a chunk: every object is with one client at a    *)
(* time, and every chunk comes back once.                                  *)
(***************************************************************************)
EXTENDS TlsFreeList, FiniteSetTheorems, TLAPS

(* A thread's chunk is its own, and outside the list of chunks.            *)
Owners ==
  \A t \in Threads : tls[t] # NoChunk =>
    /\ tls[t] \in chunks
    /\ \A u \in Threads : tls[u] = tls[t] => u = t

(* Exactly the chunks of which no object is left to come back are on their *)
(* way to the list, each with one thread.                                  *)
Givers ==
  /\ \A t \in Threads : emptied[t] # NoChunk =>
       /\ emptied[t] \in chunks /\ freeCount[emptied[t]] = 0
       /\ \A u \in Threads : emptied[u] = emptied[t] => u = t
  /\ \A c \in chunks : freeCount[c] = 0 => \E t \in Threads : emptied[t] = c

Books ==
  \A c \in chunks :
    /\ freeCount[c] = Cardinality(HeldOf(c)) + Unused(c)
    /\ \A o \in HeldOf(c) : o[2] >= Unused(c)

Inductive ==
  TypeOK /\ Owners /\ Givers /\ Books /\ \A o \in held : o[1] \in chunks

-----------------------------------------------------------------------------
(* The objects of a chunk that clients have are finitely many.             *)
LEMMA HeldFinite ==
  ASSUME TypeOK, NEW c \in Chunks
  PROVE  /\ IsFiniteSet(HeldOf(c)) /\ Cardinality(HeldOf(c)) \in Nat
         /\ Cardinality(HeldOf(c)) = 0 <=> HeldOf(c) = {}
<1>1. IsFiniteSet(0 .. CHUNK_SIZE - 1)
  BY SizeAssumption, FS_Interval
<1>2. IsFiniteSet(Objects)
  BY <1>1, ChunksAssumption, FS_Product DEF Objects
<1>3. HeldOf(c) \in SUBSET Objects
  BY DEF HeldOf, TypeOK
<1> QED
  BY <1>2, <1>3, FS_Subset, FS_CardinalityType, FS_EmptySet

(* One object goes out: only the book of its chunk changes.                *)
LEMMA HeldAdd ==
  ASSUME TypeOK, NEW c \in Chunks, NEW i \in 0 .. CHUNK_SIZE - 1,
         <<c, i>> \notin held, held' = held \cup {<<c, i>>}
  PROVE  /\ HeldOf(c)' = HeldOf(c) \cup {<<c, i>>}
         /\ Cardinality(HeldOf(c)') = Cardinality(HeldOf(c)) + 1
         /\ \A d \in Chunks \ {c} : HeldOf(d)' = HeldOf(d)
<1>1. HeldOf(c)' = HeldOf(c) \cup {<<c, i>>} /\ <<c, i>> \notin HeldOf(c)
  BY DEF HeldOf
<1>2. Cardinality(HeldOf(c) \cup {<<c, i>>}) = Cardinality(HeldOf(c)) + 1
  BY <1>1, HeldFinite, FS_AddElement
<1>3. \A d \in Chunks \ {c} : HeldOf(d)' = HeldOf(d)
  BY DEF HeldOf
<1> QED
  BY <1>1, <1>2, <1>3

(* One object comes back.                                                  *)
LEMMA HeldRemove ==
  ASSUME TypeOK, NEW o \in held, held' = held \ {o}
  PROVE  /\ o \in HeldOf(o[1]) /\ HeldOf(o[1])' = HeldOf(o[1]) \ {o}
         /\ Cardinality(HeldOf(o[1])') = Cardinality(HeldOf(o[1])) - 1
         /\ \A d \in Chunks \ {o[1]} : HeldOf(d)' = HeldOf(d)
<1>1. o[1] \in Chunks
  BY DEF TypeOK, Objects
<1>2. HeldOf(o[1])' = HeldOf(o[1]) \ {o} /\ o \in HeldOf(o[1])
  BY DEF HeldOf
<1>3. Cardinality(HeldOf(o[1]) \ {o}) = Cardinality(HeldOf(o[1])) - 1
  BY <1>1, <1>2, HeldFinite, FS_RemoveElement
<1>4. \A d \in Chunks \ {o[1]} : HeldOf(d)' = HeldOf(d)
  BY DEF HeldOf
<1> QED
  BY <1>2, <1>3, <1>4

(* What is left to hand out of a chunk, with and without an owner.         *)
LEMMA UnusedIs ==
  ASSUME TypeOK, NEW c \in Chunks
  PROVE  /\ (\E t \in Threads : tls[t] = c) => Unused(c) = allocCount[c] + 1
         /\ ~(\E t \in Threads : tls[t] = c) => Unused(c) = 0
         /\ Unused(c) \in Nat /\ allocCount[c] \in Nat
<1>1. allocCount[c] \in Nat
  BY SizeAssumption DEF TypeOK
<1>2. (\E t \in Threads : tls[t] = c) <=> OwnersOf(c) # {}
  BY DEF OwnersOf
<1> QED
  BY <1>1, <1>2 DEF Unused

(* The same after a step.                                                  *)
LEMMA UnusedWillBe ==
  ASSUME TypeOK', NEW c \in Chunks
  PROVE  /\ (\E t \in Threads : tls'[t] = c) => Unused(c)' = allocCount'[c] + 1
         /\ ~(\E t \in Threads : tls'[t] = c) => Unused(c)' = 0
<1>1. (\E t \in Threads : tls'[t] = c) <=> OwnersOf(c)' # {}
  BY DEF OwnersOf
<1> QED
  BY <1>1 DEF Unused

-----------------------------------------------------------------------------
(* The constructor leaves no chunk outside the list.                       *)
LEMMA InitInductive == Init => Inductive
<1> SUFFICES ASSUME Init PROVE Inductive
  OBVIOUS
<1> USE DEF Init
<1>1. TypeOK
  BY SizeAssumption DEF TypeOK
<1>2. Owners /\ Givers /\ Books
  BY DEF Owners, Givers, Books
<1> QED
  BY <1>1, <1>2 DEF Inductive

(* The steps, one lemma for each action.                                   *)
LEMMA AllocChunkStep ==
  ASSUME Inductive, NEW t \in Threads, NEW c \in Chunks, AllocChunk(t, c)
  PROVE  Inductive' /\ <<c, CHUNK_SIZE - 1>> \notin held
<1> USE ChunksAssumption, SizeAssumption
<1>1. /\ TypeOK /\ c \notin chunks /\ chunks' = chunks \cup {c} /\ taken' = taken + 1
      /\ tls[t] = NoChunk /\ tls' = [tls EXCEPT ![t] = c]
      /\ allocCount' = [allocCount EXCEPT ![c] = CHUNK_SIZE - 2]
      /\ freeCount' = [freeCount EXCEPT ![c] = CHUNK_SIZE]
      /\ held' = held \cup {<<c, CHUNK_SIZE - 1>>} /\ served' = served + 1
      /\ UNCHANGED emptied
  BY DEF AllocChunk, ChunkPool!Alloc, Return, Inductive
<1>2. <<c, CHUNK_SIZE - 1>> \in Objects /\ <<c, CHUNK_SIZE - 1>>[1] = c
      /\ CHUNK_SIZE - 1 \in 0 .. CHUNK_SIZE - 1
  BY DEF Objects
<1>3. TypeOK'
  BY <1>1, <1>2 DEF TypeOK
<1>4. <<c, CHUNK_SIZE - 1>> \notin held /\ HeldOf(c) = {}
  BY <1>1 DEF Inductive, HeldOf
<1>5. /\ HeldOf(c)' = {<<c, CHUNK_SIZE - 1>>}
      /\ Cardinality(HeldOf(c)') = Cardinality(HeldOf(c)) + 1
      /\ \A d \in Chunks \ {c} : HeldOf(d)' = HeldOf(d)
  BY <1>1, <1>2, <1>4, HeldAdd
<1>6. /\ tls'[t] = c /\ \A u \in Threads : u # t => tls'[u] = tls[u]
      /\ \A u \in Threads : tls[u] # c /\ emptied[u] # c
  BY <1>1 DEF TypeOK, Inductive, Owners, Givers
<1>7. Owners'
  BY <1>1, <1>6 DEF Inductive, Owners
<1>8. /\ allocCount'[c] = CHUNK_SIZE - 2 /\ freeCount'[c] = CHUNK_SIZE
      /\ \A d \in Chunks \ {c} :
           allocCount'[d] = allocCount[d] /\ freeCount'[d] = freeCount[d]
  BY <1>1 DEF TypeOK
<1>9. Givers'
  BY <1>1, <1>6, <1>8 DEF Inductive, Givers, TypeOK
<1>10. Unused(c)' = CHUNK_SIZE - 1
  BY <1>3, <1>6, <1>8, UnusedWillBe
<1>11. ASSUME NEW d \in chunks PROVE Unused(d)' = Unused(d)
  <2>1. d \in Chunks \ {c}
    BY <1>1 DEF TypeOK
  <2>2. (\E u \in Threads : tls'[u] = d) <=> \E u \in Threads : tls[u] = d
    BY <1>1, <1>6, <2>1
  <2> QED
    BY <1>1, <1>3, <1>8, <2>1, <2>2, UnusedIs, UnusedWillBe
<1>12. Books'
  <2>1. Cardinality(HeldOf(c)) = 0
    BY <1>1, <1>4, HeldFinite
  <2>2. /\ freeCount'[c] = Cardinality(HeldOf(c)') + Unused(c)'
        /\ \A o \in HeldOf(c)' : o[2] >= Unused(c)'
    BY <1>5, <1>8, <1>10, <2>1
  <2>3. ASSUME NEW d \in chunks
        PROVE  /\ freeCount'[d] = Cardinality(HeldOf(d)') + Unused(d)'
               /\ \A o \in HeldOf(d)' : o[2] >= Unused(d)'
    <3>1. d \in Chunks \ {c}
      BY <1>1 DEF TypeOK
    <3> QED
      BY <1>5, <1>8, <1>11, <3>1 DEF Inductive, Books
  <2> QED
    BY <1>1, <2>2, <2>3 DEF Books
<1>13. \A o \in held' : o[1] \in chunks'
  BY <1>1, <1>2 DEF Inductive
<1> QED
  BY <1>3, <1>4, <1>7, <1>9, <1>12, <1>13 DEF Inductive

(* An object out of the thread's own chunk.                                *)
LEMMA AllocOwnStep ==
  ASSUME Inductive, NEW t \in Threads, AllocNext(t) \/ AllocLast(t),
         NEW c, c = tls[t], NEW i, i = allocCount[c]
  PROVE  Inductive' /\ <<c, i>> \in Objects \ held /\ Return(<<c, i>>)
<1> USE ChunksAssumption, SizeAssumption
<1>1. /\ TypeOK /\ c # NoChunk /\ c \in chunks /\ c \in Chunks
      /\ UNCHANGED <<freeCount, chunks, taken, emptied>>
  BY DEF AllocNext, AllocLast, LastObject, Inductive, Owners, TypeOK
<1>2. i \in 0 .. CHUNK_SIZE - 2 /\ i \in 0 .. CHUNK_SIZE - 1 /\ i \in Nat
  BY <1>1 DEF TypeOK
<1>3. held' = held \cup {<<c, i>>} /\ served' = served + 1
  BY DEF AllocNext, AllocLast, LastObject, Return
<1>4. Unused(c) = i + 1
  BY <1>1, UnusedIs
<1>5. <<c, i>> \in Objects /\ <<c, i>>[1] = c /\ <<c, i>>[2] = i
  BY <1>1, <1>2 DEF Objects
<1>6. <<c, i>> \notin held
  <2>1. \A o \in HeldOf(c) : o[2] >= i + 1
    BY <1>1, <1>4 DEF Inductive, Books
  <2>2. <<c, i>> \in held => <<c, i>> \in HeldOf(c)
    BY <1>5 DEF HeldOf
  <2> QED
    BY <1>2, <1>5, <2>1, <2>2
<1>7. /\ HeldOf(c)' = HeldOf(c) \cup {<<c, i>>}
      /\ Cardinality(HeldOf(c)') = Cardinality(HeldOf(c)) + 1
      /\ \A d \in Chunks \ {c} : HeldOf(d)' = HeldOf(d)
  BY <1>1, <1>2, <1>3, <1>6, HeldAdd
<1>8. /\ \A u \in Threads : u # t => tls'[u] = tls[u]
      /\ \A d \in Chunks : d # c => allocCount'[d] = allocCount[d]
      /\ tls'[t] \in {c, NoChunk}
      /\ allocCount' \in [Chunks -> 0 .. CHUNK_SIZE - 2]
      /\ tls'[t] = c => allocCount'[c] + 1 = i
      /\ tls'[t] = NoChunk => i = 0
      /\ tls' \in [Threads -> Chunks \cup {NoChunk}]
  <2>1. CASE AllocNext(t)
    BY <1>1, <1>2, <2>1 DEF AllocNext, TypeOK
  <2>2. CASE AllocLast(t)
    BY <1>1, <1>2, <2>2 DEF AllocLast, LastObject, TypeOK
  <2> QED
    BY <2>1, <2>2
<1>9. TypeOK'
  BY <1>1, <1>3, <1>5, <1>8 DEF TypeOK
<1>10. Owners'
  BY <1>1, <1>8 DEF Inductive, Owners
<1>11. Givers'
  BY <1>1 DEF Inductive, Givers
<1>12. Unused(c)' = i
  <2>1. tls'[t] = NoChunk => ~(\E u \in Threads : tls'[u] = c)
    BY <1>1, <1>8 DEF Inductive, Owners
  <2> QED
    BY <1>1, <1>8, <1>9, <2>1, UnusedWillBe
<1>13. ASSUME NEW d \in chunks, d # c PROVE Unused(d)' = Unused(d)
  <2>1. d \in Chunks /\ d # NoChunk
    BY <1>1 DEF TypeOK
  <2>2. (\E u \in Threads : tls'[u] = d) <=> \E u \in Threads : tls[u] = d
    BY <1>8, <1>13, <2>1
  <2> QED
    BY <1>1, <1>8, <1>9, <1>13, <2>1, <2>2, UnusedIs, UnusedWillBe
<1>14. Books'
  <2>1. /\ freeCount[c] = Cardinality(HeldOf(c)) + Unused(c)
        /\ \A o \in HeldOf(c) : o[2] >= Unused(c)
    BY <1>1 DEF Inductive, Books
  <2>2. \A o \in HeldOf(c) : o[2] >= i
    <3>1. \A o \in HeldOf(c) : o[2] \in Nat
      BY <1>1 DEF HeldOf, TypeOK, Objects
    <3> QED
      BY <1>2, <1>4, <2>1, <3>1
  <2>3. /\ freeCount'[c] = Cardinality(HeldOf(c)') + Unused(c)'
        /\ \A o \in HeldOf(c)' : o[2] >= Unused(c)'
    <3>1. Cardinality(HeldOf(c)) \in Nat
      BY <1>1, HeldFinite
    <3>2. freeCount'[c] = Cardinality(HeldOf(c)') + Unused(c)'
      BY <1>1, <1>2, <1>4, <1>7, <1>12, <2>1, <3>1
    <3>3. \A o \in HeldOf(c)' : o[2] >= Unused(c)'
      BY <1>2, <1>5, <1>7, <1>12, <2>2
    <3> QED
      BY <3>2, <3>3
  <2>4. ASSUME NEW d \in chunks, d # c
        PROVE  /\ freeCount'[d] = Cardinality(HeldOf(d)') + Unused(d)'
               /\ \A o \in HeldOf(d)' : o[2] >= Unused(d)'
    <3>1. d \in Chunks \ {c}
      BY <1>1, <2>4 DEF TypeOK
    <3> QED
      BY <1>1, <1>7, <1>13, <2>4, <3>1 DEF Inductive, Books
  <2> QED
    BY <1>1, <2>3, <2>4 DEF Books
<1>15. \A o \in held' : o[1] \in chunks'
  BY <1>1, <1>3, <1>5 DEF Inductive
<1> QED
  BY <1>3, <1>5, <1>6, <1>9, <1>10, <1>11, <1>14, <1>15 DEF Inductive, Return


(* An object comes back, and with the last one the thread takes the chunk. *)
LEMMA FreeStep ==
  ASSUME Inductive, NEW t \in Threads, NEW o \in Objects, Free(t, o)
  PROVE  Inductive'
<1> USE ChunksAssumption, SizeAssumption
<1>1. /\ TypeOK /\ o \in held /\ held' = held \ {o} /\ emptied[t] = NoChunk
      /\ freeCount' = [freeCount EXCEPT ![o[1]] = freeCount[o[1]] - 1]
      /\ emptied' = [emptied EXCEPT ![t] = IF freeCount[o[1]] = 1 THEN o[1] ELSE NoChunk]
      /\ UNCHANGED <<tls, allocCount, chunks, taken, served>>
  BY DEF Free, LowerCount, Idle, Inductive
<1>2. PICK c \in Chunks : c = o[1]
  BY DEF Objects
<1>3. c \in chunks /\ c # NoChunk
  BY <1>1, <1>2 DEF Inductive
<1>4. /\ o \in HeldOf(c) /\ HeldOf(c)' = HeldOf(c) \ {o}
      /\ Cardinality(HeldOf(c)') = Cardinality(HeldOf(c)) - 1
      /\ \A d \in Chunks \ {c} : HeldOf(d)' = HeldOf(d)
      /\ Cardinality(HeldOf(c)) \in Nat /\ Cardinality(HeldOf(c)) # 0
  <2>1. /\ o \in HeldOf(c) /\ HeldOf(c)' = HeldOf(c) \ {o}
        /\ Cardinality(HeldOf(c)') = Cardinality(HeldOf(c)) - 1
        /\ \A d \in Chunks \ {c} : HeldOf(d)' = HeldOf(d)
    BY <1>1, <1>2, HeldRemove
  <2> QED
    BY <1>1, <2>1, HeldFinite
<1>5. \A d \in Chunks : Unused(d)' = Unused(d) /\ Unused(d) \in Nat
  BY <1>1, UnusedIs DEF Unused, OwnersOf
<1>6. freeCount[c] = Cardinality(HeldOf(c)) + Unused(c)
  BY <1>3 DEF Inductive, Books
<1>7. /\ freeCount[c] \in 1 .. CHUNK_SIZE /\ freeCount'[c] = freeCount[c] - 1
      /\ \A d \in Chunks \ {c} : freeCount'[d] = freeCount[d]
      /\ freeCount' \in [Chunks -> 0 .. CHUNK_SIZE]
  <2>1. freeCount[c] \in 1 .. CHUNK_SIZE
    BY <1>1, <1>4, <1>5, <1>6 DEF TypeOK
  <2> QED
    BY <1>1, <1>2, <2>1 DEF TypeOK
<1>8. TypeOK'
  BY <1>1, <1>2, <1>7 DEF TypeOK
<1>9. Owners'
  BY <1>1 DEF Inductive, Owners
<1>10. Givers'
  <2>1. \A u \in Threads : emptied[u] # c
    BY <1>3, <1>7 DEF Inductive, Givers
  <2>2. CASE freeCount[c] = 1
    <3>1. /\ emptied'[t] = c /\ freeCount'[c] = 0
          /\ \A u \in Threads : u # t => emptied'[u] = emptied[u]
      BY <1>1, <1>2, <1>7, <2>2 DEF TypeOK
    <3> QED
      BY <1>1, <1>3, <1>7, <2>1, <3>1 DEF Inductive, Givers, TypeOK
  <2>3. CASE freeCount[c] # 1
    <3>1. emptied' = emptied /\ freeCount'[c] # 0
      BY <1>1, <1>2, <1>7, <2>3 DEF TypeOK
    <3> QED
      BY <1>1, <1>3, <1>7, <2>1, <3>1 DEF Inductive, Givers, TypeOK
  <2> QED
    BY <2>2, <2>3
<1>11. Books'
  <2>1. ASSUME NEW d \in chunks
        PROVE  /\ freeCount'[d] = Cardinality(HeldOf(d)') + Unused(d)'
               /\ \A p \in HeldOf(d)' : p[2] >= Unused(d)'
    <3>1. d \in Chunks
      BY <1>1 DEF TypeOK
    <3>2. /\ freeCount[d] = Cardinality(HeldOf(d)) + Unused(d)
          /\ \A p \in HeldOf(d) : p[2] >= Unused(d)
      BY DEF Inductive, Books
    <3>3. \A p \in HeldOf(d)' : p[2] >= Unused(d)'
      BY <1>4, <1>5, <3>1, <3>2
    <3>4. freeCount'[d] = Cardinality(HeldOf(d)') + Unused(d)'
      <4>1. CASE d = c
        <5>1. freeCount'[c] = Cardinality(HeldOf(c)') + Unused(c)'
          BY <1>4, <1>5, <1>6, <1>7
        <5> QED
          BY <4>1, <5>1
      <4>2. CASE d # c
        BY <1>4, <1>5, <1>7, <3>1, <3>2, <4>2
      <4> QED
        BY <4>1, <4>2
    <3> QED
      BY <3>3, <3>4
  <2> QED
    BY <1>1, <2>1 DEF Books
<1>12. \A p \in held' : p[1] \in chunks'
  BY <1>1 DEF Inductive
<1> QED
  BY <1>8, <1>9, <1>10, <1>11, <1>12 DEF Inductive

(* The emptied chunk goes back to the list.                                *)
LEMMA FreeChunkStep ==
  ASSUME Inductive, NEW t \in Threads, FreeChunk(t)
  PROVE  Inductive'
<1> USE ChunksAssumption
<1>1. /\ TypeOK /\ emptied[t] # NoChunk /\ chunks' = chunks \ {emptied[t]}
      /\ emptied' = [emptied EXCEPT ![t] = NoChunk]
      /\ UNCHANGED <<tls, allocCount, freeCount, taken, held, served>>
  BY DEF FreeChunk, Idle, ChunkPool!Free, Inductive
<1>2. PICK c \in Chunks : c = emptied[t]
  BY <1>1 DEF TypeOK
<1>3. c \in chunks /\ freeCount[c] = 0
  BY <1>1, <1>2 DEF Inductive, Givers
<1>4. HeldOf(c) = {} /\ ~(\E u \in Threads : tls[u] = c)
  <2>1. /\ freeCount[c] = Cardinality(HeldOf(c)) + Unused(c)
        /\ Cardinality(HeldOf(c)) \in Nat /\ Unused(c) \in Nat
    BY <1>1, <1>3, HeldFinite, UnusedIs DEF Inductive, Books
  <2>2. Cardinality(HeldOf(c)) = 0 /\ Unused(c) = 0
    BY <1>3, <2>1
  <2> QED
    BY <1>1, <2>2, HeldFinite, UnusedIs
<1>5. TypeOK'
  BY <1>1 DEF TypeOK
<1>6. Owners'
  BY <1>1, <1>2, <1>4 DEF Inductive, Owners
<1>7. Givers'
  <2>1. /\ emptied'[t] = NoChunk /\ \A u \in Threads : u # t => emptied'[u] = emptied[u]
    BY <1>1 DEF TypeOK
  <2>2. \A u \in Threads : u # t => emptied[u] # c
    BY <1>1, <1>2 DEF Inductive, Givers
  <2> QED
    BY <1>1, <1>2, <2>1, <2>2 DEF Inductive, Givers
<1>8. Books'
  BY <1>1, ZenonT(30) DEF Inductive, Books, HeldOf, Unused, OwnersOf
<1>9. \A o \in held' : o[1] \in chunks'
  BY <1>1, <1>2, <1>4 DEF Inductive, HeldOf
<1> QED
  BY <1>5, <1>6, <1>7, <1>8, <1>9 DEF Inductive

(* Every step keeps Inductive, and is a step of NodePool on single objects *)
(* or one that its clients do not see.                                     *)
LEMMA NextStep ==
  Inductive /\ [Next]_vars => Inductive' /\ [Pool!Next]_<<held, served>>
<1> SUFFICES ASSUME Inductive, [Next]_vars
             PROVE  Inductive' /\ (Pool!Next \/ UNCHANGED <<held, served>>)
  OBVIOUS
<1>1. ASSUME NEW t \in Threads, NEW c \in Chunks, AllocChunk(t, c)
      PROVE  Inductive' /\ Pool!Next
  <2>1. Inductive' /\ <<c, CHUNK_SIZE - 1>> \notin held
    BY <1>1, AllocChunkStep
  <2>2. <<c, CHUNK_SIZE - 1>> \in Objects
    BY SizeAssumption DEF Objects
  <2> QED
    BY <1>1, <2>1, <2>2 DEF AllocChunk, Return, Pool!Next, Pool!Alloc
<1>2. ASSUME NEW t \in Threads, AllocNext(t) \/ AllocLast(t)
      PROVE  Inductive' /\ Pool!Next
  <2>1. PICK c, i : c = tls[t] /\ i = allocCount[c]
    OBVIOUS
  <2>2. Inductive' /\ <<c, i>> \in Objects \ held /\ Return(<<c, i>>)
    BY <1>2, <2>1, AllocOwnStep
  <2> QED
    BY <2>2 DEF Return, Pool!Next, Pool!Alloc
<1>3. ASSUME NEW t \in Threads, NEW o \in Objects, Free(t, o)
      PROVE  Inductive' /\ Pool!Next
  <2>1. Inductive'
    BY <1>3, FreeStep
  <2> QED
    BY <1>3, <2>1 DEF Free, LowerCount, Pool!Next, Pool!Free
<1>4. ASSUME NEW t \in Threads, FreeChunk(t)
      PROVE  Inductive' /\ UNCHANGED <<held, served>>
  BY <1>4, FreeChunkStep DEF FreeChunk
<1>5. CASE UNCHANGED vars
  BY <1>5 DEF vars, Inductive, TypeOK, Owners, Givers, Books, HeldOf, Unused, OwnersOf
<1> QED
  BY <1>1, <1>2, <1>3, <1>4, <1>5 DEF Next

-----------------------------------------------------------------------------
(* For any number of threads, chunks and objects in a chunk.               *)
THEOREM InductiveInvariant == Spec => []Inductive
  BY InitInductive, NextStep, PTL DEF Spec

(* FreeCount stays between 0 and the size, AllocCount a valid index.       *)
THEOREM TypeCorrect == Spec => []TypeOK
<1>1. Inductive => TypeOK
  BY DEF Inductive
<1> QED
  BY InductiveInvariant, <1>1, PTL

(* FreeCount of TLS_LockFree_FreeList.h is at all times the number of      *)
(* objects that have still to come back, and no two threads own a chunk.   *)
THEOREM BooksExact == Spec => []ChunkBooks
<1>1. Inductive => ChunkBooks
  <2> SUFFICES ASSUME Inductive, NEW c \in chunks
               PROVE  Cardinality(OwnersOf(c)) <= 1
    BY DEF ChunkBooks, Inductive, Books
  <2>1. c # NoChunk
    BY ChunksAssumption DEF Inductive, TypeOK
  <2>2. CASE OwnersOf(c) = {}
    BY <2>2, FS_EmptySet
  <2>3. CASE OwnersOf(c) # {}
    <3>1. PICK t \in Threads : tls[t] = c
      BY <2>3 DEF OwnersOf
    <3>2. OwnersOf(c) = {t}
      BY <2>1, <3>1 DEF OwnersOf, Inductive, Owners
    <3>3. Cardinality(OwnersOf(c)) = 1
      BY <3>2, FS_Singleton
    <3> QED
      BY <3>3
  <2> QED
    BY <2>2, <2>3
<1> QED
  BY InductiveInvariant, <1>1, PTL

(* A chunk goes back to the list once, by one thread, and only when none   *)
(* of its objects is outside or still to be handed out.                    *)
THEOREM ChunksReturned == Spec => []ChunkReturned
<1>1. Inductive => ChunkReturned
  <2> SUFFICES ASSUME Inductive, NEW c \in Chunks,
                      NEW givers, givers = {t \in Threads : emptied[t] = c}
               PROVE  /\ c \in chunks /\ freeCount[c] = 0 <=> givers # {}
                      /\ Cardinality(givers) <= 1
                      /\ c \notin chunks => HeldOf(c) = {} /\ OwnersOf(c) = {}
    BY DEF ChunkReturned
  <2>1. c # NoChunk
    BY ChunksAssumption
  <2>2. c \in chunks /\ freeCount[c] = 0 <=> givers # {}
    BY <2>1 DEF Inductive, Givers
  <2>3. Cardinality(givers) <= 1
    <3>1. CASE givers = {}
      BY <3>1, FS_EmptySet
    <3>2. CASE givers # {}
      <4>1. PICK t \in Threads : emptied[t] = c
        BY <3>2
      <4>2. givers = {t}
        BY <2>1, <4>1 DEF Inductive, Givers
      <4>3. Cardinality(givers) = 1
        BY <4>2, FS_Singleton
      <4> QED
        BY <4>3
    <3> QED
      BY <3>1, <3>2
  <2>4. c \notin chunks => HeldOf(c) = {} /\ OwnersOf(c) = {}
    BY <2>1 DEF Inductive, Owners, HeldOf, OwnersOf
  <2> QED
    BY <2>2, <2>3, <2>4
<1> QED
  BY InductiveInvariant, <1>1, PTL

(* To its clients the chunk list is a pool of single objects: a message,   *)
(* job or player is never handed out twice.                                *)
THEOREM ChunkListImplementsPool == Spec => ImplementsPool
<1>1. Init => Pool!Init
  BY DEF Init, Pool!Init
<1> QED
  BY <1>1, NextStep, InductiveInvariant, PTL DEF Spec, ImplementsPool, Pool!Spec
=============================================================================
