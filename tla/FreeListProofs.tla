--------------------------- MODULE FreeListProofs ---------------------------
(***************************************************************************)
(* Proofs about CLockFree_FreeList for any number of threads, nodes and    *)
(* calls: Inductive is an inductive invariant of FreeList, so the list is  *)
(* never corrupted and Alloc never reads through a null top.               *)
(***************************************************************************)
EXTENDS FreeList, FiniteSetTheorems, SequenceTheorems, TLAPS

USE DEF At

(* Sets of threads are finite, and moving one thread changes them by one.  *)
LEMMA ThreadSets ==
  ASSUME NEW S \in SUBSET Threads
  PROVE  IsFiniteSet(S) /\ Cardinality(S) \in Nat
  BY ThreadsAssumption, FS_Subset, FS_CardinalityType

(* A thread that joins a set of threads adds one to its size.              *)
LEMMA AddOne ==
  ASSUME NEW S, NEW x, IsFiniteSet(S), x \notin S
  PROVE  Cardinality(S \cup {x}) = Cardinality(S) + 1
  BY FS_AddElement

(* A thread that leaves a set of threads takes one from its size.          *)
LEMMA RemoveOne ==
  ASSUME NEW S, NEW x, IsFiniteSet(S), x \in S
  PROVE  Cardinality(S \ {x}) = Cardinality(S) - 1
  BY FS_RemoveElement

(* Poppers and pushers are different threads, and both are counted.        *)
LEMMA CountedCovers ==
  ASSUME TypeOK
  PROVE  Cardinality(Poppers) + Cardinality(Pushers) <= Cardinality(Counted)
<1>1. /\ IsFiniteSet(Poppers) /\ IsFiniteSet(Pushers) /\ IsFiniteSet(Counted)
      /\ Cardinality(Poppers) \in Nat /\ Cardinality(Pushers) \in Nat
      /\ Cardinality(Counted) \in Nat
  BY ThreadSets DEF Poppers, Pushers, Counted
<1>2. Poppers \cap Pushers = {}
  BY DEF Poppers, Pushers, PopPoints, PushPoints
<1>3. Cardinality(Poppers \cup Pushers) = Cardinality(Poppers) + Cardinality(Pushers)
  <2>1. Cardinality(Poppers \cap Pushers) = 0
    BY <1>2, FS_EmptySet
  <2>2. Cardinality(Poppers \cup Pushers)
          = Cardinality(Poppers) + Cardinality(Pushers) - Cardinality(Poppers \cap Pushers)
    BY <1>1, FS_Union
  <2> QED
    BY <1>1, <2>1, <2>2
<1>4. Poppers \cup Pushers \subseteq Counted
  BY DEF Poppers, Pushers, Counted
<1>5. Cardinality(Poppers \cup Pushers) <= Cardinality(Counted)
  BY <1>1, <1>4, FS_Subset
<1> QED
  BY <1>1, <1>3, <1>5

(* One thread moves: a set of threads chosen by program point changes by   *)
(* that thread at most.                                                    *)
LEMMA MoveCard ==
  ASSUME NEW S \in SUBSET Threads, NEW U \in SUBSET Threads, NEW t \in Threads,
         \A u \in Threads : u # t => (u \in S <=> u \in U)
  PROVE  /\ Cardinality(S) \in Nat /\ Cardinality(U) \in Nat
         /\ t \in S /\ t \in U => Cardinality(U) = Cardinality(S)
         /\ t \notin S /\ t \notin U => Cardinality(U) = Cardinality(S)
         /\ t \notin S /\ t \in U => Cardinality(U) = Cardinality(S) + 1
         /\ t \in S /\ t \notin U => Cardinality(U) + 1 = Cardinality(S)
<1>1. /\ IsFiniteSet(S) /\ Cardinality(S) \in Nat
      /\ IsFiniteSet(U) /\ Cardinality(U) \in Nat
  BY ThreadSets
<1>2. (t \in S <=> t \in U) => U = S
  OBVIOUS
<1>3. ASSUME t \notin S, t \in U PROVE Cardinality(U) = Cardinality(S) + 1
  <2>1. U = S \cup {t}
    BY <1>3
  <2> QED
    BY <2>1, <1>1, <1>3, AddOne
<1>4. ASSUME t \in S, t \notin U PROVE Cardinality(U) + 1 = Cardinality(S)
  <2>1. S = U \cup {t}
    BY <1>4
  <2> QED
    BY <2>1, <1>1, <1>4, AddOne
<1> QED
  BY <1>1, <1>2, <1>3, <1>4

(* How the sizes of the three sets of threads move with one thread.        *)
LEMMA GotoCounts ==
  ASSUME TypeOK, NEW t \in Threads, NEW p \in Points, Goto(t, p)
  PROVE  /\ Cardinality(Poppers) \in Nat /\ Cardinality(Pushers) \in Nat
         /\ Cardinality(Counted) \in Nat
         /\ Cardinality(Poppers') \in Nat /\ Cardinality(Pushers') \in Nat
         /\ Cardinality(Counted') \in Nat
         /\ Cardinality(Poppers') + (IF pc[t] \in PopPoints THEN 1 ELSE 0)
              = Cardinality(Poppers) + (IF p \in PopPoints THEN 1 ELSE 0)
         /\ Cardinality(Pushers') + (IF pc[t] \in PushPoints THEN 1 ELSE 0)
              = Cardinality(Pushers) + (IF p \in PushPoints THEN 1 ELSE 0)
         /\ Cardinality(Counted') + (IF t \in Counted THEN 1 ELSE 0)
              = Cardinality(Counted) + (IF t \in Counted' THEN 1 ELSE 0)
<1>1. /\ pc' \in [Threads -> Points] /\ pc'[t] = p
      /\ \A u \in Threads : u # t => pc'[u] = pc[u]
  BY DEF TypeOK, Goto
<1>2. /\ Poppers \in SUBSET Threads /\ Poppers' \in SUBSET Threads
      /\ \A u \in Threads : u # t => (u \in Poppers <=> u \in Poppers')
      /\ t \in Poppers <=> pc[t] \in PopPoints
      /\ t \in Poppers' <=> p \in PopPoints
  BY <1>1 DEF Poppers
<1>3. /\ Pushers \in SUBSET Threads /\ Pushers' \in SUBSET Threads
      /\ \A u \in Threads : u # t => (u \in Pushers <=> u \in Pushers')
      /\ t \in Pushers <=> pc[t] \in PushPoints
      /\ t \in Pushers' <=> p \in PushPoints
  BY <1>1 DEF Pushers
<1>4. /\ Counted \in SUBSET Threads /\ Counted' \in SUBSET Threads
      /\ \A u \in Threads : u # t => (u \in Counted <=> u \in Counted')
  BY <1>1 DEF Counted
<1>5. /\ Cardinality(Poppers) \in Nat /\ Cardinality(Poppers') \in Nat
      /\ Cardinality(Poppers') + (IF pc[t] \in PopPoints THEN 1 ELSE 0)
           = Cardinality(Poppers) + (IF p \in PopPoints THEN 1 ELSE 0)
  BY <1>2, MoveCard
<1>6. /\ Cardinality(Pushers) \in Nat /\ Cardinality(Pushers') \in Nat
      /\ Cardinality(Pushers') + (IF pc[t] \in PushPoints THEN 1 ELSE 0)
           = Cardinality(Pushers) + (IF p \in PushPoints THEN 1 ELSE 0)
  BY <1>3, MoveCard
<1>7. /\ Cardinality(Counted) \in Nat /\ Cardinality(Counted') \in Nat
      /\ Cardinality(Counted') + (IF t \in Counted THEN 1 ELSE 0)
           = Cardinality(Counted) + (IF t \in Counted' THEN 1 ELSE 0)
  BY <1>4, MoveCard
<1> QED
  BY <1>5, <1>6, <1>7

(* A thread inside the popping loop always finds a node.                   *)
LEMMA PopperFinds ==
  ASSUME TypeOK, PoppersCovered, ListRep, NEW t \in Threads, pc[t] \in PopPoints
  PROVE  /\ Len(list) \in Nat /\ Len(list) >= 1
         /\ topNode = list[Len(list)] /\ topNode \in Contents
         /\ topNode # NullNode
<1>1. Len(list) \in Nat /\ DOMAIN list = 1 .. Len(list) /\ list \in Seq(Nodes)
  BY DEF TypeOK
<1>2. Cardinality(Poppers) >= 1
  <2>1. t \in Poppers /\ IsFiniteSet(Poppers) /\ Cardinality(Poppers) \in Nat
    BY ThreadSets DEF Poppers
  <2> QED
    BY <2>1, FS_EmptySet
<1>3. Len(list) >= 1
  BY <1>1, <1>2, ThreadSets DEF PoppersCovered, Poppers
<1>4. list # <<>> /\ Len(list) \in DOMAIN list
  BY <1>1, <1>3
<1>5. topNode = list[Len(list)] /\ topNode \in Contents
  BY <1>4 DEF ListRep, Contents
<1>6. list[Len(list)] \in Nodes
  BY <1>1, <1>4, ElementOfSeq
<1> QED
  BY <1>1, <1>3, <1>5, <1>6, NodesAssumption

(* What popping and pushing do to the list.                                *)
LEMMA ListPop ==
  ASSUME TypeOK, Len(list) >= 1, NEW l, l = SubSeq(list, 1, Len(list) - 1)
  PROVE  /\ l \in Seq(Nodes) /\ Len(list) \in Nat /\ Len(l) = Len(list) - 1
         /\ DOMAIN list = 1 .. Len(list) /\ DOMAIN l = 1 .. Len(list) - 1
         /\ \A i \in 1 .. Len(list) - 1 : l[i] = list[i]
<1>1. /\ list \in Seq(Nodes) /\ Len(list) \in Nat /\ DOMAIN list = 1 .. Len(list)
      /\ \A i \in 1 .. Len(list) : list[i] \in Nodes
  BY LenProperties, ElementOfSeq DEF TypeOK
<1>2. /\ 1 \in Int /\ Len(list) - 1 \in Int
      /\ \A i \in 1 .. Len(list) - 1 : list[i] \in Nodes
  BY <1>1
<1>3. /\ l \in Seq(Nodes)
      /\ Len(l) = IF 1 <= Len(list) - 1 THEN (Len(list) - 1) - 1 + 1 ELSE 0
      /\ \A i \in 1 .. (Len(list) - 1) - 1 + 1 : l[i] = list[1 + i - 1]
  BY <1>2, SubSeqProperties
<1>4. Len(l) = Len(list) - 1
  BY <1>1, <1>3
<1>5. DOMAIN l = 1 .. Len(list) - 1
  BY <1>3, <1>4, LenProperties
<1>6. \A i \in 1 .. Len(list) - 1 : l[i] = list[i]
  BY <1>1, <1>3
<1> QED
  BY <1>1, <1>3, <1>4, <1>5, <1>6

(* What Append does to the history of the list, entry by entry.            *)
LEMMA ListPush ==
  ASSUME TypeOK, NEW n \in Nodes, NEW l, l = Append(list, n)
  PROVE  /\ l \in Seq(Nodes) /\ Len(list) \in Nat /\ Len(l) = Len(list) + 1
         /\ DOMAIN list = 1 .. Len(list) /\ DOMAIN l = 1 .. Len(list) + 1
         /\ \A i \in 1 .. Len(list) : l[i] = list[i]
         /\ l[Len(list) + 1] = n
  BY AppendProperties, LenProperties DEF TypeOK

(* The constructor leaves an empty list and no call in progress.           *)
LEMMA InitInductive == Init => Inductive
<1> SUFFICES ASSUME Init PROVE Inductive
  OBVIOUS
<1> USE DEF Init
<1>1. TypeOK
  BY BoundAssumption DEF TypeOK, Points
<1>2. Poppers = {} /\ Pushers = {} /\ Counted = {} /\ Reserved = {}
  BY DEF Poppers, Pushers, Counted, Reserved, PopPoints, PushPoints
<1>3. Contents = {}
  BY DEF Contents
<1>4. ListRep
  BY DEF ListRep
<1>5. PoppersCovered /\ Sizes
  BY <1>2, FS_EmptySet DEF PoppersCovered, Sizes
<1>6. Partition /\ Unique /\ Snapshot
  BY <1>2, <1>3 DEF Partition, Unique, Snapshot
<1> QED
  BY <1>1, <1>4, <1>5, <1>6 DEF Inductive

(* The steps, one lemma for each conjunct of Inductive that takes work.    *)
LEMMA TypeStep == Inductive /\ [Next]_vars => TypeOK'
<1> SUFFICES ASSUME Inductive, [Next]_vars PROVE TypeOK'
  OBVIOUS
<1> USE NodesAssumption, BoundAssumption
    DEF Inductive, TypeOK, Points, PopPoints, PushPoints, Goto, shared, locals, vars
<1>1. ASSUME NEW t \in Threads, AllocBegin(t) PROVE TypeOK'
  BY <1>1 DEF AllocBegin
<1>2. ASSUME NEW t \in Threads, AllocUse(t) PROVE TypeOK'
  BY <1>2 DEF AllocUse, Admit
<1>3. ASSUME NEW t \in Threads, AllocGrow(t) PROVE TypeOK'
  BY <1>3 DEF AllocGrow
<1>4. ASSUME NEW t \in Threads, PopReserve(t) PROVE TypeOK'
  BY <1>4 DEF PopReserve
<1>5. ASSUME NEW t \in Threads, PopReadUnique(t) PROVE TypeOK'
  BY <1>5 DEF PopReadUnique
<1>6. ASSUME NEW t \in Threads, PopReadNode(t) PROVE TypeOK'
  BY <1>6 DEF PopReadNode
<1>7. ASSUME NEW t \in Threads, PopRecheck(t) PROVE TypeOK'
  BY <1>7 DEF PopRecheck
<1>8. ASSUME NEW t \in Threads, PopReadNext(t) PROVE TypeOK'
  BY <1>8 DEF PopReadNext
<1>9. ASSUME NEW t \in Threads, PopExchange(t) PROVE TypeOK'
  <2>1. bNode[t] \in Nodes /\ Len(list) >= 1
    BY <1>9, PopperFinds DEF PopExchange, CompareExchange, Snapshot
  <2>2. list' \in Seq(Nodes)
    BY <1>9, <2>1, ListPop DEF PopExchange, CompareExchange
  <2>3. /\ topNode' \in Nodes \cup {NullNode} /\ topUnique' \in Nat
        /\ held' \subseteq Nodes /\ pc' \in [Threads -> Points]
        /\ lUnique' \in [Threads -> Nat]
    BY <1>9, <2>1 DEF PopExchange, CompareExchange
  <2> QED
    BY <1>9, <2>2, <2>3 DEF PopExchange, CompareExchange, Forget
<1>10. ASSUME NEW t \in Threads, NEW n \in Nodes, FreeBegin(t, n) PROVE TypeOK'
  BY <1>10 DEF FreeBegin
<1>11. ASSUME NEW t \in Threads, PushLink(t) PROVE TypeOK'
  BY <1>11 DEF PushLink
<1>12. ASSUME NEW t \in Threads, PushExchange(t) PROVE TypeOK'
  <2>1. fNode[t] \in Nodes
    BY <1>12 DEF PushExchange, Snapshot, Pushers
  <2>2. list' \in Seq(Nodes)
    BY <1>12, <2>1, ListPush DEF PushExchange
  <2> QED
    BY <1>12, <2>1, <2>2 DEF PushExchange
<1>13. ASSUME NEW t \in Threads, FreeUnuse(t) PROVE TypeOK'
  <2>1. /\ IsFiniteSet(Counted) /\ Cardinality(Counted) \in Nat
        /\ IsFiniteSet(held) /\ Cardinality(held) \in Nat
    BY ThreadSets, FS_Subset, FS_CardinalityType DEF Counted
  <2>2. Counted # {}
    BY <1>13 DEF FreeUnuse, LeaveFree, Counted
  <2>3. useSize - 1 \in Nat
    BY <2>1, <2>2, FS_EmptySet DEF Sizes
  <2> QED
    BY <1>13, <2>3 DEF FreeUnuse, LeaveFree
<1>14. CASE UNCHANGED vars
  BY <1>14
<1> QED
  BY <1>1, <1>2, <1>3, <1>4, <1>5, <1>6, <1>7, <1>8, <1>9, <1>10, <1>11, <1>12, <1>13,
     <1>14 DEF Next, Alloc, Free

(* The counters: a node leaves the list when a popper leaves the loop, and *)
(* a thread is counted in _UseSize from its first increment on.            *)
LEMMA SizesStep == Inductive /\ [Next]_vars => Sizes' /\ PoppersCovered'
<1> SUFFICES ASSUME Inductive, [Next]_vars PROVE Sizes' /\ PoppersCovered'
  OBVIOUS
<1> USE DEF Inductive, Points, PopPoints, PushPoints
<1>1. TypeOK'
  BY TypeStep
<1>2. /\ useSize \in Nat /\ allocSize \in Nat /\ Len(list) \in Nat
      /\ pc \in [Threads -> Points] /\ lAllocSize \in [Threads -> Nat]
  BY DEF TypeOK
<1>3. /\ IsFiniteSet(held) /\ Cardinality(held) \in Nat
  BY NodesAssumption, FS_Subset, FS_CardinalityType DEF TypeOK
<1>4. ASSUME NEW t \in Threads, NEW p \in Points, Goto(t, p),
             UNCHANGED <<held, list, useSize, allocSize, lAllocSize>>,
             p # "use", t \in Counted <=> t \in Counted',
             pc[t] \in PopPoints <=> p \in PopPoints,
             pc[t] \in PushPoints <=> p \in PushPoints
      PROVE  Sizes' /\ PoppersCovered'
  <2>1. /\ Cardinality(Poppers') = Cardinality(Poppers)
        /\ Cardinality(Pushers') = Cardinality(Pushers)
        /\ Cardinality(Counted') = Cardinality(Counted)
    BY <1>4, GotoCounts
  <2>2. \A u \in Threads : pc'[u] = "use" => pc[u] = "use"
    BY <1>2, <1>4 DEF Goto
  <2> QED
    BY <1>4, <2>1, <2>2 DEF Sizes, PoppersCovered
<1>5. ASSUME NEW t \in Threads, AllocBegin(t) PROVE Sizes' /\ PoppersCovered'
  <2>1. Goto(t, "use") /\ pc[t] = "idle" /\ pc'[t] = "use"
    BY <1>2, <1>5 DEF AllocBegin, Goto
  <2>2. t \notin Counted /\ t \notin Counted'
    BY <2>1 DEF Counted
  <2>3. /\ Cardinality(Poppers') = Cardinality(Poppers)
        /\ Cardinality(Pushers') = Cardinality(Pushers)
        /\ Cardinality(Counted') = Cardinality(Counted)
    BY <2>1, <2>2, GotoCounts
  <2>4. \A u \in Threads : pc'[u] = "use" => lAllocSize'[u] <= allocSize
    BY <1>2, <1>5 DEF AllocBegin, Goto, Sizes
  <2> QED
    BY <1>5, <2>3, <2>4 DEF AllocBegin, shared, Sizes, PoppersCovered
<1>6. ASSUME NEW t \in Threads, AllocUse(t) PROVE Sizes' /\ PoppersCovered'
  <2> DEFINE p == IF lAllocSize[t] >= useSize + 1 THEN "pop_reserve" ELSE "grow"
  <2>1. /\ Goto(t, p) /\ p \in Points /\ pc[t] = "use" /\ pc'[t] = p
        /\ useSize' = useSize + 1
        /\ UNCHANGED <<held, list, allocSize>>
    BY <1>2, <1>6 DEF AllocUse, Admit, Goto
  <2>2. t \notin Counted /\ t \in Counted'
    BY <2>1 DEF Counted
  <2>3. /\ Cardinality(Pushers') = Cardinality(Pushers)
        /\ Cardinality(Counted') = Cardinality(Counted) + 1
        /\ Cardinality(Poppers') =
             Cardinality(Poppers) + IF p = "pop_reserve" THEN 1 ELSE 0
        /\ Cardinality(Poppers) \in Nat /\ Cardinality(Pushers) \in Nat
        /\ Cardinality(Counted) \in Nat
    BY <2>1, <2>2, GotoCounts
  <2>4. \A u \in Threads : pc'[u] = "use" => lAllocSize'[u] <= allocSize
    BY <1>2, <1>6 DEF AllocUse, Admit, Goto, Sizes
  <2>5. Sizes'
    <3>1. allocSize' = Cardinality(held') + Cardinality(Pushers') + Len(list')
      BY <2>1, <2>3 DEF Sizes
    <3>2. Cardinality(held) \in Nat /\ Cardinality(held') = Cardinality(held)
      BY <1>3, <2>1
    <3>3. useSize = Cardinality(held) + Cardinality(Counted)
      BY DEF Sizes
    <3>4. useSize' = Cardinality(held') + Cardinality(Counted')
      BY <2>1, <2>3, <3>2, <3>3
    <3> QED
      BY <2>1, <2>4, <3>1, <3>4 DEF Sizes
  <2>6. CASE lAllocSize[t] >= useSize + 1
    <3>1. Cardinality(Poppers) + Cardinality(Pushers) <= Cardinality(Counted)
      BY CountedCovers
    <3>2. lAllocSize[t] <= allocSize /\ lAllocSize[t] \in Nat
      BY <1>2, <2>1 DEF Sizes
    <3>3. Cardinality(Counted) + 1 <= Cardinality(Pushers) + Len(list)
      BY <1>2, <1>3, <2>3, <2>6, <3>2, SMTT(30) DEF Sizes
    <3>4. Cardinality(Poppers') <= Len(list)
      BY <1>2, <2>3, <3>1, <3>3
    <3> QED
      BY <2>1, <2>5, <3>4 DEF PoppersCovered
  <2>7. CASE ~(lAllocSize[t] >= useSize + 1)
    BY <1>2, <2>1, <2>3, <2>5, <2>7 DEF PoppersCovered
  <2> QED
    BY <2>6, <2>7
<1>7. ASSUME NEW t \in Threads, AllocGrow(t) PROVE Sizes' /\ PoppersCovered'
  <2>1. Goto(t, "idle") /\ pc[t] = "grow" /\ pc'[t] = "idle"
    BY <1>2, <1>7 DEF AllocGrow, Goto
  <2>2. t \in Counted /\ t \notin Counted'
    BY <2>1 DEF Counted
  <2>3. /\ Cardinality(Poppers') = Cardinality(Poppers)
        /\ Cardinality(Pushers') = Cardinality(Pushers)
        /\ Cardinality(Counted') + 1 = Cardinality(Counted)
        /\ Cardinality(Pushers) \in Nat /\ Cardinality(Counted) \in Nat
    BY <2>1, <2>2, GotoCounts
  <2>4. PICK n \in Nodes \ created : held' = held \cup {n}
    BY <1>7 DEF AllocGrow
  <2>5. n \notin held
    BY <2>4 DEF Partition
  <2>6. Cardinality(held') = Cardinality(held) + 1
    BY <1>3, <2>4, <2>5, AddOne
  <2>7. \A u \in Threads : pc'[u] = "use" => lAllocSize'[u] <= allocSize + 1
    BY <1>2, <1>7, <2>1 DEF AllocGrow, Goto, Sizes, locals
  <2>8. /\ allocSize' = allocSize + 1 /\ UNCHANGED <<useSize, list>>
    BY <1>7 DEF AllocGrow
  <2>9. Cardinality(Counted') \in Nat
    BY ThreadSets DEF Counted
  <2>10. /\ allocSize' = Cardinality(held') + Cardinality(Pushers') + Len(list')
         /\ useSize' = Cardinality(held') + Cardinality(Counted')
    <3>1. allocSize' = Cardinality(held') + Cardinality(Pushers') + Len(list')
      BY <1>2, <1>3, <2>3, <2>6, <2>8, <2>9, SMTT(30) DEF Sizes
    <3>2. useSize' = Cardinality(held') + Cardinality(Counted')
      BY <1>2, <1>3, <2>3, <2>6, <2>8, <2>9 DEF Sizes
    <3> QED
      BY <3>1, <3>2
  <2>11. Sizes'
    BY <2>7, <2>8, <2>10 DEF Sizes
  <2> QED
    BY <2>3, <2>8, <2>11 DEF PoppersCovered
<1>8. ASSUME NEW t \in Threads,
             PopReserve(t) \/ PopReadUnique(t) \/ PopReadNode(t) \/ PopRecheck(t)
               \/ PopReadNext(t)
      PROVE  Sizes' /\ PoppersCovered'
  <2>1. PICK p \in PopPoints : Goto(t, p)
    BY <1>8 DEF PopReserve, PopReadUnique, PopReadNode, PopRecheck, PopReadNext
  <2>2. /\ pc[t] \in PopPoints
        /\ UNCHANGED <<held, list, useSize, allocSize, lAllocSize>>
    BY <1>8 DEF PopReserve, PopReadUnique, PopReadNode, PopRecheck, PopReadNext,
                shared, locals
  <2>3. t \in Counted /\ t \in Counted'
    BY <1>2, <2>1, <2>2 DEF Counted, Goto
  <2> QED
    BY <1>4, <2>1, <2>2, <2>3
<1>9. ASSUME NEW t \in Threads, PopExchange(t) PROVE Sizes' /\ PoppersCovered'
  <2>1. /\ pc[t] = "pop_exchange"
        /\ UNCHANGED <<useSize, allocSize, lAllocSize>>
    BY <1>9 DEF PopExchange, CompareExchange
  <2>2. CASE topNode = bNode[t] /\ topUnique = bUnique[t]
    <3>1. /\ Goto(t, "idle") /\ held' = held \cup {bNode[t]}
          /\ list' = SubSeq(list, 1, Len(list) - 1)
      BY <1>9, <2>2 DEF PopExchange, CompareExchange
    <3>2. t \in Counted /\ t \notin Counted' /\ pc'[t] = "idle"
      BY <1>2, <2>1, <3>1 DEF Counted, Goto
    <3>3. /\ Cardinality(Poppers') + 1 = Cardinality(Poppers)
          /\ Cardinality(Pushers') = Cardinality(Pushers)
          /\ Cardinality(Counted') + 1 = Cardinality(Counted)
          /\ Cardinality(Poppers) \in Nat /\ Cardinality(Pushers) \in Nat
          /\ Cardinality(Counted) \in Nat
      BY <2>1, <3>1, <3>2, GotoCounts
    <3>4. topNode \in Contents /\ Len(list) >= 1
      BY <2>1, PopperFinds
    <3>5. bNode[t] \notin held
      BY <2>2, <3>4 DEF Partition
    <3>6. Cardinality(held') = Cardinality(held) + 1
      BY <1>3, <3>1, <3>5, AddOne
    <3>7. Len(list') = Len(list) - 1
      BY <3>1, <3>4, ListPop
    <3>8. \A u \in Threads : pc'[u] = "use" => lAllocSize'[u] <= allocSize
      BY <1>2, <2>1, <3>1, <3>2 DEF Goto, Sizes
    <3>9. Cardinality(Counted') \in Nat /\ Cardinality(Poppers') \in Nat
      BY ThreadSets DEF Counted, Poppers
    <3>10. /\ allocSize' = Cardinality(held') + Cardinality(Pushers') + Len(list')
           /\ useSize' = Cardinality(held') + Cardinality(Counted')
      <4>1. allocSize = Cardinality(held) + Cardinality(Pushers) + Len(list)
        BY DEF Sizes
      <4>2. allocSize' = Cardinality(held') + Cardinality(Pushers') + Len(list')
        BY <1>2, <1>3, <2>1, <3>3, <3>6, <3>7, <4>1
      <4>3. useSize' = Cardinality(held') + Cardinality(Counted')
        BY <1>2, <1>3, <2>1, <3>3, <3>6, <3>9 DEF Sizes
      <4> QED
        BY <4>2, <4>3
    <3>11. Sizes'
      BY <2>1, <3>8, <3>10 DEF Sizes
    <3>12. PoppersCovered'
      BY <1>2, <3>3, <3>7, <3>9 DEF PoppersCovered
    <3> QED
      BY <3>11, <3>12
  <2>3. CASE ~(topNode = bNode[t] /\ topUnique = bUnique[t])
    <3>1. Goto(t, "pop_unique") /\ UNCHANGED <<held, list>>
      BY <1>9, <2>3 DEF PopExchange, CompareExchange
    <3>2. t \in Counted /\ t \in Counted'
      BY <1>2, <2>1, <3>1 DEF Counted, Goto
    <3> QED
      BY <1>4, <2>1, <3>1, <3>2
  <2> QED
    BY <2>2, <2>3
<1>10. ASSUME NEW t \in Threads, NEW n \in Nodes, FreeBegin(t, n)
       PROVE  Sizes' /\ PoppersCovered'
  <2>1. /\ Goto(t, "push_link") /\ pc[t] = "idle" /\ pc'[t] = "push_link"
        /\ n \in held /\ held' = held \ {n}
        /\ UNCHANGED <<list, useSize, allocSize, lAllocSize>>
    BY <1>2, <1>10 DEF FreeBegin, Goto, shared
  <2>2. t \notin Counted /\ t \in Counted'
    BY <2>1 DEF Counted
  <2>3. /\ Cardinality(Poppers') = Cardinality(Poppers)
        /\ Cardinality(Pushers') = Cardinality(Pushers) + 1
        /\ Cardinality(Counted') = Cardinality(Counted) + 1
        /\ Cardinality(Counted) \in Nat /\ Cardinality(Pushers) \in Nat
    BY <2>1, <2>2, GotoCounts
  <2>4. Cardinality(held') = Cardinality(held) - 1
    BY <1>3, <2>1, RemoveOne
  <2>5. \A u \in Threads : pc'[u] = "use" => lAllocSize'[u] <= allocSize
    BY <1>2, <2>1 DEF Goto, Sizes
  <2>6. Sizes'
    BY <1>2, <1>3, <2>1, <2>3, <2>4, <2>5, SMTT(30) DEF Sizes
  <2> QED
    BY <2>1, <2>3, <2>6 DEF PoppersCovered
<1>11. ASSUME NEW t \in Threads, PushLink(t) PROVE Sizes' /\ PoppersCovered'
  <2>1. /\ Goto(t, "push_exchange") /\ pc[t] = "push_link"
        /\ UNCHANGED <<held, list, useSize, allocSize, lAllocSize>>
    BY <1>11 DEF PushLink
  <2>2. t \in Counted /\ t \in Counted'
    BY <1>2, <2>1 DEF Counted, Goto
  <2> QED
    BY <1>4, <2>1, <2>2
<1>12. ASSUME NEW t \in Threads, PushExchange(t) PROVE Sizes' /\ PoppersCovered'
  <2>1. /\ pc[t] = "push_exchange"
        /\ UNCHANGED <<held, useSize, allocSize, lAllocSize>>
    BY <1>12 DEF PushExchange, locals
  <2>2. CASE topNode = bNode[t]
    <3>1. Goto(t, "unuse") /\ list' = Append(list, fNode[t])
      BY <1>12, <2>2 DEF PushExchange
    <3>2. t \in Counted /\ t \in Counted' /\ pc'[t] = "unuse"
      BY <1>2, <2>1, <3>1 DEF Counted, Goto
    <3>3. /\ Cardinality(Poppers') = Cardinality(Poppers)
          /\ Cardinality(Pushers') + 1 = Cardinality(Pushers)
          /\ Cardinality(Counted') = Cardinality(Counted)
          /\ Cardinality(Poppers) \in Nat /\ Cardinality(Pushers) \in Nat
      BY <2>1, <3>1, <3>2, GotoCounts
    <3>4. fNode[t] \in Nodes
      BY <2>1 DEF TypeOK, Snapshot, Pushers
    <3>5. Len(list') = Len(list) + 1
      BY <3>1, <3>4, ListPush
    <3>6. \A u \in Threads : pc'[u] = "use" => lAllocSize'[u] <= allocSize
      BY <1>2, <2>1, <3>1, <3>2 DEF Goto, Sizes
    <3>7. Cardinality(Pushers') \in Nat
      BY ThreadSets DEF Pushers
    <3>8. /\ allocSize' = Cardinality(held') + Cardinality(Pushers') + Len(list')
          /\ useSize' = Cardinality(held') + Cardinality(Counted')
      BY <1>2, <1>3, <2>1, <3>3, <3>5, <3>7 DEF Sizes
    <3>9. Sizes'
      BY <2>1, <3>6, <3>8 DEF Sizes
    <3>10. PoppersCovered'
      BY <1>2, <3>3, <3>5 DEF PoppersCovered
    <3> QED
      BY <3>9, <3>10
  <2>3. CASE topNode # bNode[t]
    <3>1. Goto(t, "push_link") /\ UNCHANGED list
      BY <1>12, <2>3 DEF PushExchange
    <3>2. t \in Counted /\ t \in Counted'
      BY <1>2, <2>1, <3>1 DEF Counted, Goto
    <3> QED
      BY <1>4, <2>1, <3>1, <3>2
  <2> QED
    BY <2>2, <2>3
<1>13. ASSUME NEW t \in Threads, FreeUnuse(t) PROVE Sizes' /\ PoppersCovered'
  <2>1. /\ Goto(t, "idle") /\ pc[t] = "unuse" /\ pc'[t] = "idle"
        /\ useSize' = useSize - 1
        /\ UNCHANGED <<held, list, allocSize, lAllocSize>>
    BY <1>2, <1>13 DEF FreeUnuse, LeaveFree, Goto
  <2>2. t \in Counted /\ t \notin Counted'
    BY <2>1 DEF Counted
  <2>3. /\ Cardinality(Poppers') = Cardinality(Poppers)
        /\ Cardinality(Pushers') = Cardinality(Pushers)
        /\ Cardinality(Counted') + 1 = Cardinality(Counted)
        /\ Cardinality(Counted) \in Nat
    BY <2>1, <2>2, GotoCounts
  <2>4. \A u \in Threads : pc'[u] = "use" => lAllocSize'[u] <= allocSize
    BY <1>2, <2>1 DEF Goto, Sizes
  <2>5. Cardinality(Counted') \in Nat
    BY ThreadSets DEF Counted
  <2>6. Sizes'
    BY <1>2, <1>3, <2>1, <2>3, <2>4, <2>5, SMTT(30) DEF Sizes
  <2> QED
    BY <2>1, <2>3, <2>6 DEF PoppersCovered
<1>14. CASE UNCHANGED vars
  BY <1>14 DEF vars, shared, locals, Sizes, PoppersCovered, Poppers, Pushers, Counted
<1> QED
  BY <1>5, <1>6, <1>7, <1>8, <1>9, <1>10, <1>11, <1>12, <1>13, <1>14
  DEF Next, Alloc, Free

(* Where the nodes are: popping takes the top out of the list, pushing     *)
(* puts the pusher's node into it.                                         *)
LEMMA ContentsPop ==
  ASSUME TypeOK, ListRep, Len(list) >= 1, list' = SubSeq(list, 1, Len(list) - 1)
  PROVE  Contents' = Contents \ {list[Len(list)]}
<1>1. /\ Len(list) \in Nat /\ DOMAIN list = 1 .. Len(list)
      /\ DOMAIN list' = 1 .. Len(list) - 1
      /\ \A i \in 1 .. Len(list) - 1 : list'[i] = list[i]
  BY ListPop
<1>2. \A i, j \in 1 .. Len(list) : list[i] = list[j] => i = j
  BY <1>1 DEF ListRep
<1>3. \A x : x \in Contents' <=> \E i \in 1 .. Len(list) - 1 : x = list[i]
  BY <1>1 DEF Contents
<1>4. \A x : x \in Contents <=> \E i \in 1 .. Len(list) : x = list[i]
  BY <1>1 DEF Contents
<1>5. \A x : x \in Contents' => x \in Contents /\ x # list[Len(list)]
  BY <1>1, <1>2, <1>3, <1>4
<1>6. \A x : x \in Contents /\ x # list[Len(list)] => x \in Contents'
  BY <1>1, <1>3, <1>4
<1> QED
  BY <1>5, <1>6

(* A push adds its node to the contents of the list.                       *)
LEMMA ContentsPush ==
  ASSUME TypeOK, NEW n \in Nodes, list' = Append(list, n)
  PROVE  Contents' = Contents \cup {n}
<1>1. /\ Len(list) \in Nat /\ DOMAIN list = 1 .. Len(list)
      /\ DOMAIN list' = 1 .. Len(list) + 1
      /\ \A i \in 1 .. Len(list) : list'[i] = list[i]
      /\ list'[Len(list) + 1] = n
  BY ListPush
<1>2. \A x : x \in Contents' <=> \E i \in 1 .. Len(list) + 1 : x = list'[i]
  BY <1>1 DEF Contents
<1>3. \A x : x \in Contents <=> \E i \in 1 .. Len(list) : x = list[i]
  BY <1>1 DEF Contents
<1>4. \A x : x \in Contents' => x \in Contents \/ x = n
  BY <1>1, <1>2, <1>3
<1>5. \A x : x \in Contents \/ x = n => x \in Contents'
  BY <1>1, <1>2, <1>3
<1> QED
  BY <1>4, <1>5

(* No step puts a node into two places.                                    *)
LEMMA PartitionStep == Inductive /\ [Next]_vars => Partition'
<1> SUFFICES ASSUME Inductive, [Next]_vars PROVE Partition'
  OBVIOUS
<1> USE DEF Inductive
<1>1. pc \in [Threads -> Points] /\ fNode \in [Threads -> Nodes \cup {NullNode}]
  BY DEF TypeOK
<1>2. ASSUME UNCHANGED <<created, held, list>>, Pushers' = Pushers,
             \A u \in Pushers : fNode'[u] = fNode[u]
      PROVE  Partition'
  BY <1>2 DEF Partition, Contents
<1>3. ASSUME NEW t \in Threads, NEW p, p \notin PushPoints, pc[t] \notin PushPoints,
             Goto(t, p)
      PROVE  Pushers' = Pushers
  BY <1>1, <1>3 DEF Pushers, Goto
<1>4. ASSUME NEW t \in Threads, AllocBegin(t) PROVE Partition'
  BY <1>2, <1>3, <1>4 DEF AllocBegin, PushPoints
<1>5. ASSUME NEW t \in Threads, AllocUse(t) PROVE Partition'
  BY <1>2, <1>3, <1>5 DEF AllocUse, Admit, PushPoints
<1>6. ASSUME NEW t \in Threads, AllocGrow(t) PROVE Partition'
  <2>1. Pushers' = Pushers /\ UNCHANGED <<list, fNode>>
    BY <1>3, <1>6 DEF AllocGrow, PushPoints, locals
  <2>2. PICK n \in Nodes \ created :
          created' = created \cup {n} /\ held' = held \cup {n}
    BY <1>6 DEF AllocGrow
  <2>3. Contents' = Contents
    BY <2>1 DEF Contents
  <2> QED
    BY <2>1, <2>2, <2>3 DEF Partition
<1>7. ASSUME NEW t \in Threads, PopReserve(t) PROVE Partition'
  BY <1>2, <1>3, <1>7 DEF PopReserve, PushPoints
<1>8. ASSUME NEW t \in Threads, PopReadUnique(t) PROVE Partition'
  BY <1>2, <1>3, <1>8 DEF PopReadUnique, PushPoints
<1>9. ASSUME NEW t \in Threads, PopReadNode(t) PROVE Partition'
  BY <1>2, <1>3, <1>9 DEF PopReadNode, PushPoints
<1>10. ASSUME NEW t \in Threads, PopRecheck(t) PROVE Partition'
  BY <1>2, <1>3, <1>10 DEF PopRecheck, PushPoints, locals
<1>11. ASSUME NEW t \in Threads, PopReadNext(t) PROVE Partition'
  BY <1>2, <1>3, <1>11 DEF PopReadNext, PushPoints
<1>12. ASSUME NEW t \in Threads, PopExchange(t) PROVE Partition'
  <2>1. pc[t] = "pop_exchange" /\ UNCHANGED <<created, fNode>>
    BY <1>12 DEF PopExchange, CompareExchange
  <2>2. Pushers' = Pushers
    BY <1>3, <1>12 DEF PopExchange, CompareExchange, PushPoints
  <2>3. CASE topNode = bNode[t] /\ topUnique = bUnique[t]
    <3>1. /\ held' = held \cup {topNode}
          /\ list' = SubSeq(list, 1, Len(list) - 1)
      BY <1>12, <2>3 DEF PopExchange, CompareExchange
    <3>2. topNode = list[Len(list)] /\ Len(list) >= 1 /\ topNode \in Contents
      BY <2>1, PopperFinds DEF PopPoints
    <3>3. Contents' = Contents \ {topNode}
      BY <3>1, <3>2, ContentsPop
    <3> QED
      BY <2>1, <2>2, <3>1, <3>2, <3>3 DEF Partition
  <2>4. CASE ~(topNode = bNode[t] /\ topUnique = bUnique[t])
    BY <1>2, <1>12, <2>1, <2>2, <2>4 DEF PopExchange, CompareExchange
  <2> QED
    BY <2>3, <2>4
<1>13. ASSUME NEW t \in Threads, NEW n \in Nodes, FreeBegin(t, n) PROVE Partition'
  <2>1. /\ n \in held /\ held' = held \ {n} /\ fNode' = [fNode EXCEPT ![t] = n]
        /\ UNCHANGED <<created, list>>
    BY <1>13 DEF FreeBegin
  <2>2. Pushers' = Pushers \cup {t} /\ t \notin Pushers
    BY <1>1, <1>13 DEF FreeBegin, Goto, Pushers, PushPoints
  <2>3. Contents' = Contents
    BY <2>1 DEF Contents
  <2>4. fNode'[t] = n /\ \A u \in Pushers : fNode'[u] = fNode[u]
    BY <1>1, <2>1, <2>2 DEF Pushers
  <2>5. {fNode'[u] : u \in Pushers'} = {fNode[u] : u \in Pushers} \cup {n}
    BY <2>2, <2>4
  <2>6. created' = held' \cup Contents' \cup {fNode'[u] : u \in Pushers'}
    BY <2>1, <2>3, <2>5 DEF Partition
  <2> QED
    BY <2>1, <2>2, <2>3, <2>4, <2>6 DEF Partition
<1>14. ASSUME NEW t \in Threads, PushLink(t) PROVE Partition'
  <2>1. Pushers' = Pushers
    BY <1>1, <1>14 DEF PushLink, Goto, Pushers, PushPoints
  <2> QED
    BY <1>2, <1>14, <2>1 DEF PushLink
<1>15. ASSUME NEW t \in Threads, PushExchange(t) PROVE Partition'
  <2>1. t \in Pushers /\ UNCHANGED <<created, held, fNode>>
    BY <1>15 DEF PushExchange, Pushers, PushPoints, locals
  <2>2. CASE topNode = bNode[t]
    <3>1. Pushers' = Pushers \ {t}
      BY <1>1, <1>15, <2>2 DEF PushExchange, Goto, Pushers, PushPoints
    <3>2. fNode[t] \in Nodes
      BY <1>1, <2>1 DEF Snapshot, Pushers
    <3>3. Contents' = Contents \cup {fNode[t]}
      BY <1>15, <2>2, <3>2, ContentsPush DEF PushExchange
    <3> QED
      BY <2>1, <3>1, <3>3 DEF Partition
  <2>3. CASE topNode # bNode[t]
    <3>1. Pushers' = Pushers
      BY <1>1, <1>15, <2>3 DEF PushExchange, Goto, Pushers, PushPoints
    <3> QED
      BY <1>2, <1>15, <2>1, <2>3, <3>1 DEF PushExchange
  <2> QED
    BY <2>2, <2>3
<1>16. ASSUME NEW t \in Threads, FreeUnuse(t) PROVE Partition'
  <2>1. Pushers' = Pushers /\ t \notin Pushers
    BY <1>3, <1>16 DEF FreeUnuse, LeaveFree, PushPoints, Pushers
  <2>2. \A u \in Pushers : fNode'[u] = fNode[u]
    BY <1>1, <1>16, <2>1 DEF FreeUnuse, LeaveFree, Pushers
  <2> QED
    BY <1>2, <1>16, <2>1, <2>2 DEF FreeUnuse, LeaveFree
<1>17. CASE UNCHANGED vars
  BY <1>2, <1>17 DEF vars, locals, Pushers
<1> QED
  BY <1>4, <1>5, <1>6, <1>7, <1>8, <1>9, <1>10, <1>11, <1>12, <1>13, <1>14, <1>15,
     <1>16, <1>17 DEF Next, Alloc, Free

(* The links of the list change at the top alone: the other stores go to   *)
(* nodes outside it.                                                       *)
LEMMA ListRepStep == Inductive /\ [Next]_vars => ListRep'
<1> SUFFICES ASSUME Inductive, [Next]_vars PROVE ListRep'
  OBVIOUS
<1> USE DEF Inductive
<1>1. /\ Len(list) \in Nat /\ DOMAIN list = 1 .. Len(list) /\ list \in Seq(Nodes)
      /\ next \in [Nodes -> Nodes \cup {NullNode}]
      /\ \A i \in 1 .. Len(list) : list[i] \in Nodes /\ list[i] \in Contents
  BY LenProperties, ElementOfSeq DEF TypeOK, Contents
<1>2. ASSUME UNCHANGED <<topNode, list>>,
             \A x \in Contents : next'[x] = next[x]
      PROVE  ListRep'
  BY <1>1, <1>2 DEF ListRep
<1>3. ASSUME NEW t \in Threads, AllocGrow(t) PROVE ListRep'
  <2>1. PICK n \in Nodes \ created : next' = [next EXCEPT ![n] = NullNode]
    BY <1>3 DEF AllocGrow
  <2>2. n \notin Contents
    BY <2>1 DEF Partition
  <2>3. \A x \in Contents : next'[x] = next[x]
    BY <1>1, <2>1, <2>2 DEF Contents
  <2> QED
    BY <1>2, <1>3, <2>3 DEF AllocGrow
<1>4. ASSUME NEW t \in Threads, PopExchange(t) PROVE ListRep'
  <2>1. pc[t] = "pop_exchange" /\ UNCHANGED next
    BY <1>4 DEF PopExchange, CompareExchange
  <2>2. CASE topNode = bNode[t] /\ topUnique = bUnique[t]
    <3>1. topNode' = bNext[t] /\ list' = SubSeq(list, 1, Len(list) - 1)
      BY <1>4, <2>2 DEF PopExchange, CompareExchange
    <3>2. topNode = list[Len(list)] /\ Len(list) >= 1
      BY <2>1, PopperFinds DEF PopPoints
    <3>3. topNode' = next[topNode]
      BY <2>1, <2>2, <3>1 DEF Snapshot
    <3>4. next[topNode] = IF Len(list) = 1 THEN NullNode ELSE list[Len(list) - 1]
      BY <1>1, <3>2 DEF ListRep
    <3>5. /\ Len(list') = Len(list) - 1 /\ DOMAIN list' = 1 .. Len(list) - 1
          /\ \A i \in 1 .. Len(list) - 1 : list'[i] = list[i]
      BY <3>1, <3>2, ListPop
    <3>6. topNode' = IF list' = <<>> THEN NullNode ELSE list'[Len(list')]
      <4>1. list' \in Seq(Nodes)
        BY <3>1, <3>2, ListPop
      <4>2. list' = <<>> <=> Len(list') = 0
        BY <4>1, EmptySeq
      <4>3. list' = <<>> <=> Len(list) = 1
        BY <1>1, <3>5, <4>2
      <4>4. Len(list) # 1 => list'[Len(list')] = list[Len(list) - 1]
        BY <1>1, <3>2, <3>5
      <4> QED
        BY <3>3, <3>4, <4>3, <4>4
    <3>7. \A i \in DOMAIN list' :
            next'[list'[i]] = IF i = 1 THEN NullNode ELSE list'[i - 1]
      BY <1>1, <2>1, <3>5 DEF ListRep
    <3>8. \A i, j \in DOMAIN list' : list'[i] = list'[j] => i = j
      BY <1>1, <3>5 DEF ListRep
    <3> QED
      BY <3>6, <3>7, <3>8 DEF ListRep
  <2>3. CASE ~(topNode = bNode[t] /\ topUnique = bUnique[t])
    BY <1>2, <1>4, <2>1, <2>3 DEF PopExchange, CompareExchange
  <2> QED
    BY <2>2, <2>3
<1>5. ASSUME NEW t \in Threads, PushLink(t) PROVE ListRep'
  <2>1. fNode[t] \notin Contents
    BY <1>5 DEF PushLink, Partition, Pushers, PushPoints
  <2>2. \A x \in Contents : next'[x] = next[x]
    BY <1>1, <1>5, <2>1 DEF PushLink, Contents
  <2> QED
    BY <1>2, <1>5, <2>2 DEF PushLink
<1>6. ASSUME NEW t \in Threads, PushExchange(t) PROVE ListRep'
  <2>1. t \in Pushers /\ UNCHANGED next
    BY <1>6 DEF PushExchange, Pushers, PushPoints
  <2>2. CASE topNode = bNode[t]
    <3>1. topNode' = fNode[t] /\ list' = Append(list, fNode[t])
      BY <1>6, <2>2 DEF PushExchange
    <3>2. fNode[t] \in Nodes /\ fNode[t] \notin Contents
      BY <2>1 DEF TypeOK, Snapshot, Pushers, Partition
    <3>3. next[fNode[t]] = topNode
      BY <1>6, <2>2 DEF PushExchange, Snapshot
    <3>4. /\ Len(list') = Len(list) + 1 /\ DOMAIN list' = 1 .. Len(list) + 1
          /\ \A i \in 1 .. Len(list) : list'[i] = list[i]
          /\ list'[Len(list) + 1] = fNode[t]
      BY <3>1, <3>2, ListPush
    <3>5. list' # <<>> /\ topNode' = list'[Len(list')]
      BY <1>1, <3>1, <3>2, <3>4, AppendProperties
    <3>6. topNode = IF Len(list) = 0 THEN NullNode ELSE list[Len(list)]
      BY <1>1, EmptySeq DEF ListRep
    <3>7. \A i \in 1 .. Len(list) :
            next'[list'[i]] = IF i = 1 THEN NullNode ELSE list'[i - 1]
      BY <1>1, <2>1, <3>4 DEF ListRep
    <3>8. next'[list'[Len(list) + 1]]
            = IF Len(list) + 1 = 1 THEN NullNode ELSE list'[Len(list)]
      BY <1>1, <2>1, <3>3, <3>4, <3>6
    <3>9. \A i \in DOMAIN list' :
            next'[list'[i]] = IF i = 1 THEN NullNode ELSE list'[i - 1]
      BY <1>1, <3>4, <3>7, <3>8
    <3>10. \A i, j \in 1 .. Len(list) : list'[i] = list'[j] => i = j
      BY <1>1, <3>4 DEF ListRep
    <3>11. \A i \in 1 .. Len(list) : list'[i] # list'[Len(list) + 1]
      BY <1>1, <3>2, <3>4
    <3>12. \A i, j \in DOMAIN list' : list'[i] = list'[j] => i = j
      BY <1>1, <3>4, <3>10, <3>11
    <3> QED
      BY <3>5, <3>9, <3>12 DEF ListRep
  <2>3. CASE topNode # bNode[t]
    BY <1>2, <1>6, <2>1, <2>3 DEF PushExchange
  <2> QED
    BY <2>2, <2>3
<1>7. ASSUME UNCHANGED <<topNode, next, list>> PROVE ListRep'
  BY <1>2, <1>7
<1>8. ASSUME NEW t \in Threads,
             \/ AllocBegin(t) \/ AllocUse(t) \/ PopReserve(t) \/ PopReadUnique(t)
             \/ PopReadNode(t) \/ PopRecheck(t) \/ PopReadNext(t)
             \/ (\E n \in Nodes : FreeBegin(t, n)) \/ FreeUnuse(t)
      PROVE  ListRep'
  BY <1>7, <1>8 DEF AllocBegin, AllocUse, Admit, PopReserve, PopReadUnique, PopReadNode,
     PopRecheck, PopReadNext, FreeBegin, FreeUnuse, LeaveFree, shared
<1>9. CASE UNCHANGED vars
  BY <1>7, <1>9 DEF vars, shared
<1> QED
  BY <1>3, <1>4, <1>5, <1>6, <1>8, <1>9 DEF Next, Alloc, Free

(* The numbers: _UniqueCount hands every pop a number nobody has seen, and *)
(* only the pop that holds it can put it on the top.                       *)
LEMMA UniqueStep == Inductive /\ [Next]_vars => Unique'
<1> SUFFICES ASSUME Inductive, [Next]_vars PROVE Unique'
  OBVIOUS
<1> USE DEF Inductive
<1>1. /\ pc \in [Threads -> Points] /\ topUnique \in Nat /\ uniqueCount \in Nat
      /\ lUnique \in [Threads -> Nat] /\ bUnique \in [Threads -> Nat]
  BY DEF TypeOK
<1>2. ASSUME NEW t \in Threads, NEW p, Goto(t, p), p \notin PopPoints,
             pc[t] \notin PopPoints,
             UNCHANGED <<topUnique, uniqueCount, lUnique, bUnique>>
      PROVE  Unique'
  <2>1. \A u \in Threads : /\ pc'[u] \in Snapshots <=> pc[u] \in Snapshots
                           /\ u \in Reserved' <=> u \in Reserved
    BY <1>1, <1>2 DEF Goto, Snapshots, Reserved, PopPoints
  <2> QED
    BY <1>2, <2>1 DEF Unique, Reserved
<1>3. ASSUME NEW t \in Threads,
             \/ AllocBegin(t) \/ AllocGrow(t) \/ (\E n \in Nodes : FreeBegin(t, n))
             \/ PushLink(t) \/ PushExchange(t) \/ FreeUnuse(t)
      PROVE  Unique'
  <2>1. PICK p \in Points \ PopPoints : Goto(t, p)
    BY <1>3 DEF AllocBegin, AllocGrow, FreeBegin, PushLink, PushExchange, FreeUnuse,
                LeaveFree, Points, PushPoints, PopPoints
  <2>2. /\ pc[t] \notin PopPoints
        /\ UNCHANGED <<topUnique, uniqueCount, lUnique, bUnique>>
    BY <1>3 DEF AllocBegin, AllocGrow, FreeBegin, PushLink, PushExchange, FreeUnuse,
                LeaveFree, PopPoints, shared, locals
  <2> QED
    BY <1>2, <2>1, <2>2
<1>4. ASSUME NEW t \in Threads, AllocUse(t) PROVE Unique'
  <2>1. \A u \in Threads : /\ pc'[u] \in Snapshots <=> pc[u] \in Snapshots
                           /\ u \in Reserved' <=> u \in Reserved
    BY <1>1, <1>4 DEF AllocUse, Admit, Goto, Snapshots, Reserved, PopPoints
  <2> QED
    BY <1>4, <2>1 DEF AllocUse, Admit, Unique, Reserved
<1>5. ASSUME NEW t \in Threads, PopReserve(t) PROVE Unique'
  <2>1. /\ uniqueCount' = uniqueCount + 1 /\ UNCHANGED <<topUnique, bUnique>>
        /\ lUnique'[t] = uniqueCount + 1
        /\ \A u \in Threads : u # t => lUnique'[u] = lUnique[u]
    BY <1>1, <1>5 DEF PopReserve
  <2>2. \A u \in Threads : /\ pc'[u] \in Snapshots <=> pc[u] \in Snapshots
                           /\ u # t => (u \in Reserved' <=> u \in Reserved)
    BY <1>1, <1>5 DEF PopReserve, Goto, Snapshots, Reserved, PopPoints
  <2>3. /\ topUnique <= uniqueCount
        /\ \A u \in Threads : bUnique[u] <= uniqueCount
        /\ \A u \in Reserved : lUnique[u] <= uniqueCount
    BY DEF Unique
  <2>4. topUnique' <= uniqueCount' /\ \A u \in Threads : bUnique'[u] <= uniqueCount'
    BY <1>1, <2>1, <2>3
  <2>5. ASSUME NEW u \in Reserved'
        PROVE  /\ lUnique'[u] <= uniqueCount' /\ lUnique'[u] # topUnique'
               /\ \A v \in Threads : pc'[v] \in Snapshots => bUnique'[v] # lUnique'[u]
               /\ \A v \in Reserved' : lUnique'[v] = lUnique'[u] => v = u
    <3>1. u \in Threads /\ \A v \in Reserved' : v \in Threads
      BY <2>5 DEF Reserved
    <3>2. CASE u = t
      BY <1>1, <2>1, <2>2, <2>3, <3>1, <3>2
    <3>3. CASE u # t
      <4>1. u \in Reserved /\ lUnique'[u] = lUnique[u] /\ lUnique[u] \in Nat
        BY <1>1, <2>1, <2>2, <2>5, <3>1, <3>3
      <4>2. lUnique'[u] <= uniqueCount' /\ lUnique'[u] # topUnique'
        BY <1>1, <2>1, <2>3, <4>1 DEF Unique
      <4>3. \A v \in Threads : pc'[v] \in Snapshots => bUnique'[v] # lUnique'[u]
        BY <2>1, <2>2, <4>1 DEF Unique
      <4>4. \A v \in Reserved' : lUnique'[v] = lUnique'[u] => v = u
        BY <1>1, <2>1, <2>2, <2>3, <3>1, <4>1 DEF Unique
      <4> QED
        BY <4>2, <4>3, <4>4
    <3> QED
      BY <3>2, <3>3
  <2> QED
    BY <2>4, <2>5 DEF Unique
<1>6. ASSUME NEW t \in Threads, PopReadUnique(t) PROVE Unique'
  <2>1. /\ UNCHANGED <<topUnique, uniqueCount, lUnique>>
        /\ bUnique'[t] = topUnique
        /\ \A u \in Threads : u # t => bUnique'[u] = bUnique[u]
    BY <1>1, <1>6 DEF PopReadUnique, shared
  <2>2. \A u \in Threads : /\ u # t => (pc'[u] \in Snapshots <=> pc[u] \in Snapshots)
                           /\ u \in Reserved' <=> u \in Reserved
    BY <1>1, <1>6 DEF PopReadUnique, Goto, Snapshots, Reserved, PopPoints
  <2> QED
    BY <2>1, <2>2 DEF Unique, Reserved
<1>7. ASSUME NEW t \in Threads,
             PopReadNode(t) \/ PopRecheck(t) \/ PopReadNext(t)
      PROVE  Unique'
  <2>1. UNCHANGED <<topUnique, uniqueCount, lUnique, bUnique>>
    BY <1>7 DEF PopReadNode, PopRecheck, PopReadNext, shared, locals
  <2>2. \A u \in Threads : /\ pc'[u] \in Snapshots => pc[u] \in Snapshots
                           /\ u \in Reserved' <=> u \in Reserved
    BY <1>1, <1>7 DEF PopReadNode, PopRecheck, PopReadNext, Goto, Snapshots, Reserved,
                      PopPoints
  <2> QED
    BY <2>1, <2>2 DEF Unique, Reserved
<1>8. ASSUME NEW t \in Threads, PopExchange(t) PROVE Unique'
  <2>1. /\ UNCHANGED uniqueCount /\ bUnique'[t] = 0 /\ t \in Reserved
        /\ \A u \in Threads : u # t => bUnique'[u] = bUnique[u]
    BY <1>1, <1>8 DEF PopExchange, CompareExchange, Forget, Reserved, PopPoints
  <2>2. pc'[t] \notin Snapshots
    BY <1>1, <1>8 DEF PopExchange, CompareExchange, Goto, Snapshots
  <2>3. \A u \in Threads : u # t => /\ pc'[u] = pc[u]
                                    /\ u \in Reserved' <=> u \in Reserved
    BY <1>1, <1>8 DEF PopExchange, CompareExchange, Goto, Reserved
  <2>4. CASE topNode = bNode[t] /\ topUnique = bUnique[t]
    <3>1. /\ topUnique' = lUnique[t]
          /\ \A u \in Threads : u # t => lUnique'[u] = lUnique[u]
          /\ t \notin Reserved'
      BY <1>1, <1>8, <2>4 DEF PopExchange, CompareExchange, Goto, Reserved, PopPoints
    <3> QED
      BY <2>1, <2>2, <2>3, <3>1, <1>1 DEF Unique, Reserved
  <2>5. CASE ~(topNode = bNode[t] /\ topUnique = bUnique[t])
    <3>1. UNCHANGED <<topUnique, lUnique>>
      BY <1>8, <2>5 DEF PopExchange, CompareExchange
    <3>2. \A u \in Threads : bUnique'[u] <= uniqueCount'
      BY <1>1, <2>1 DEF Unique
    <3> QED
      BY <2>1, <2>2, <2>3, <3>1, <3>2 DEF Unique, Reserved
  <2> QED
    BY <2>4, <2>5
<1>9. CASE UNCHANGED vars
  BY <1>9 DEF vars, shared, locals, Unique, Reserved
<1> QED
  BY <1>3, <1>4, <1>5, <1>6, <1>7, <1>8, <1>9 DEF Next, Alloc, Free

(* What a thread has read stays true as long as the number on the top is   *)
(* the one it has read with it.                                            *)
LEMMA SnapshotStep == Inductive /\ [Next]_vars => Snapshot'
<1> SUFFICES ASSUME Inductive, [Next]_vars PROVE Snapshot'
  OBVIOUS
<1> USE DEF Inductive
<1> DEFINE Reading == {"pop_recheck", "pop_next", "pop_exchange"}
           Good(u) == /\ pc[u] \in Reading =>
                           /\ bNode[u] # NullNode
                           /\ bUnique[u] = topUnique => bNode[u] \in Contents
                      /\ pc[u] = "pop_exchange" /\ bUnique[u] = topUnique =>
                           bNext[u] = next[bNode[u]]
                      /\ pc[u] = "push_exchange" => next[fNode[u]] = bNode[u]
                      /\ u \in Pushers => fNode[u] # NullNode
<1>1. /\ pc \in [Threads -> Points] /\ next \in [Nodes -> Nodes \cup {NullNode}]
      /\ bUnique \in [Threads -> Nat]
      /\ bNode \in [Threads -> Nodes \cup {NullNode}]
      /\ bNext \in [Threads -> Nodes \cup {NullNode}]
      /\ fNode \in [Threads -> Nodes \cup {NullNode}]
  BY DEF TypeOK
<1>2. \A u \in Threads : Good(u)
  BY DEF Snapshot
<1>3. ASSUME \A u \in Threads : Good(u)' PROVE Snapshot'
  BY <1>3 DEF Snapshot
<1>4. ASSUME NEW t \in Threads, Good(t)', \A u \in Threads : u # t =>
               /\ pc'[u] = pc[u] /\ bNode'[u] = bNode[u] /\ bNext'[u] = bNext[u]
               /\ bUnique'[u] = bUnique[u] /\ fNode'[u] = fNode[u],
             UNCHANGED <<topUnique, next>>, Contents \subseteq Contents'
      PROVE  Snapshot'
  <2>1. ASSUME NEW u \in Threads, u # t PROVE Good(u)'
    BY <1>2, <1>4, <2>1 DEF Pushers
  <2> QED
    BY <1>3, <1>4, <2>1
<1>5. ASSUME NEW t \in Threads,
             \/ AllocBegin(t) \/ AllocUse(t) \/ PopReserve(t) \/ PopReadUnique(t)
      PROVE  Snapshot'
  <2>1. /\ UNCHANGED <<topUnique, next, list, bNode, bNext, fNode>>
        /\ pc'[t] \notin Reading \cup PushPoints
    BY <1>1, <1>5 DEF AllocBegin, AllocUse, Admit, PopReserve, PopReadUnique, Goto, shared,
                      PushPoints
  <2>2. Good(t)'
    BY <2>1 DEF Pushers, PushPoints
  <2>3. \A u \in Threads : u # t => pc'[u] = pc[u] /\ bUnique'[u] = bUnique[u]
    BY <1>1, <1>5 DEF AllocBegin, AllocUse, Admit, PopReserve, PopReadUnique, Goto
  <2> QED
    BY <1>4, <2>1, <2>2, <2>3 DEF Contents
<1>6. ASSUME NEW t \in Threads, AllocGrow(t) PROVE Snapshot'
  <2>1. /\ UNCHANGED <<topUnique, list, locals>> /\ pc'[t] = "idle"
        /\ \A u \in Threads : u # t => pc'[u] = pc[u]
    BY <1>1, <1>6 DEF AllocGrow, Goto
  <2>2. PICK n \in Nodes \ created : next' = [next EXCEPT ![n] = NullNode]
    BY <1>6 DEF AllocGrow
  <2>3. \A x \in created : next'[x] = next[x]
    BY <1>1, <2>2 DEF TypeOK
  <2>4. Contents' = Contents /\ Contents \subseteq created
    BY <2>1 DEF Contents, Partition
  <2>5. \A u \in Pushers : fNode[u] \in created
    BY DEF Partition
  <2>6. Good(t)'
    BY <2>1 DEF Pushers, PushPoints
  <2>7. ASSUME NEW u \in Threads, u # t PROVE Good(u)'
    BY <1>2, <2>1, <2>3, <2>4, <2>5, <2>7 DEF Pushers, PushPoints, locals
  <2> QED
    BY <1>3, <2>6, <2>7
<1>7. ASSUME NEW t \in Threads, PopReadNode(t) PROVE Snapshot'
  <2>1. /\ UNCHANGED <<topUnique, next, list, bUnique, bNext, fNode>>
        /\ pc'[t] = "pop_recheck" /\ bNode'[t] = topNode
        /\ \A u \in Threads : u # t => pc'[u] = pc[u] /\ bNode'[u] = bNode[u]
    BY <1>1, <1>7 DEF PopReadNode, Goto, shared
  <2>2. Contents' = Contents
    BY <2>1 DEF Contents
  <2>3. topNode # NullNode /\ topNode \in Contents
    BY <1>7, PopperFinds DEF PopReadNode, PopPoints
  <2>4. Good(t)'
    BY <2>1, <2>2, <2>3 DEF Pushers, PushPoints
  <2> QED
    BY <1>4, <2>1, <2>2, <2>4
<1>8. ASSUME NEW t \in Threads, PopRecheck(t) PROVE Snapshot'
  <2>1. /\ UNCHANGED <<topUnique, next, list, locals>>
        /\ pc[t] = "pop_recheck" /\ pc'[t] \in {"pop_next", "pop_unique"}
        /\ \A u \in Threads : u # t => pc'[u] = pc[u]
    BY <1>1, <1>8 DEF PopRecheck, Goto, shared
  <2>2. Contents' = Contents
    BY <2>1 DEF Contents
  <2>3. Good(t)'
    BY <1>2, <2>1, <2>2 DEF Pushers, PushPoints, locals
  <2> QED
    BY <1>4, <2>1, <2>2, <2>3 DEF locals
<1>9. ASSUME NEW t \in Threads, PopReadNext(t) PROVE Snapshot'
  <2>1. /\ UNCHANGED <<topUnique, next, list, bUnique, bNode, fNode>>
        /\ pc[t] = "pop_next" /\ pc'[t] = "pop_exchange" /\ bNext'[t] = next[bNode[t]]
        /\ \A u \in Threads : u # t => pc'[u] = pc[u] /\ bNext'[u] = bNext[u]
    BY <1>1, <1>9 DEF PopReadNext, Goto, shared
  <2>2. Contents' = Contents
    BY <2>1 DEF Contents
  <2>3. Good(t)'
    BY <1>2, <2>1, <2>2 DEF Pushers, PushPoints
  <2> QED
    BY <1>4, <2>1, <2>2, <2>3
<1>10. ASSUME NEW t \in Threads, PopExchange(t) PROVE Snapshot'
  <2>1. /\ UNCHANGED <<next, fNode>>
        /\ pc[t] = "pop_exchange" /\ pc'[t] \in {"idle", "pop_unique"}
        /\ \A u \in Threads : u # t =>
             /\ pc'[u] = pc[u] /\ bNode'[u] = bNode[u] /\ bNext'[u] = bNext[u]
             /\ bUnique'[u] = bUnique[u]
    BY <1>1, <1>10 DEF PopExchange, CompareExchange, Forget, Goto
  <2>2. Good(t)'
    BY <2>1 DEF Pushers, PushPoints
  <2>3. CASE topNode = bNode[t] /\ topUnique = bUnique[t]
    <3>1. topUnique' = lUnique[t] /\ t \in Reserved
      BY <1>10, <2>3 DEF PopExchange, CompareExchange, Reserved, PopPoints
    <3>2. \A u \in Threads : pc[u] \in Snapshots => bUnique[u] # topUnique'
      BY <3>1 DEF Unique
    <3>3. ASSUME NEW u \in Threads, u # t PROVE Good(u)'
      BY <1>2, <2>1, <3>2, <3>3 DEF Pushers, Snapshots
    <3> QED
      BY <1>3, <2>2, <3>3
  <2>4. CASE ~(topNode = bNode[t] /\ topUnique = bUnique[t])
    <3>1. UNCHANGED <<topUnique, list>>
      BY <1>10, <2>4 DEF PopExchange, CompareExchange
    <3> QED
      BY <1>4, <2>1, <2>2, <3>1 DEF Contents
  <2> QED
    BY <2>3, <2>4
<1>11. ASSUME NEW t \in Threads, NEW n \in Nodes, FreeBegin(t, n) PROVE Snapshot'
  <2>1. /\ UNCHANGED <<topUnique, next, list, bUnique, bNode, bNext>>
        /\ pc'[t] = "push_link" /\ fNode'[t] = n
        /\ \A u \in Threads : u # t => pc'[u] = pc[u] /\ fNode'[u] = fNode[u]
    BY <1>1, <1>11 DEF FreeBegin, Goto, shared
  <2>2. Good(t)'
    BY <2>1, NodesAssumption DEF Pushers
  <2> QED
    BY <1>4, <2>1, <2>2 DEF Contents
<1>12. ASSUME NEW t \in Threads, PushLink(t) PROVE Snapshot'
  <2>1. /\ UNCHANGED <<topUnique, list, bUnique, bNext, fNode>>
        /\ t \in Pushers /\ pc'[t] = "push_exchange" /\ bNode'[t] = topNode
        /\ \A u \in Threads : u # t => pc'[u] = pc[u] /\ bNode'[u] = bNode[u]
        /\ next' = [next EXCEPT ![fNode[t]] = topNode]
    BY <1>1, <1>12 DEF PushLink, Goto, Pushers, PushPoints
  <2>2. fNode[t] \in Nodes /\ fNode[t] # NullNode
    BY <1>1, <2>1 DEF Snapshot, Pushers
  <2>3. /\ Contents' = Contents /\ fNode[t] \notin Contents
        /\ Contents \subseteq Nodes
    BY <2>1 DEF Contents, Partition, TypeOK
  <2>4. \A u \in Pushers : u # t => fNode[u] # fNode[t] /\ fNode[u] \in Nodes
    BY <1>1, <2>1 DEF Partition, Snapshot, Pushers
  <2>5. \A x \in Nodes : x # fNode[t] => next'[x] = next[x]
    BY <1>1, <2>1
  <2>6. next'[fNode[t]] = topNode
    BY <1>1, <2>1, <2>2
  <2>7. Good(t)'
    BY <2>1, <2>2, <2>6
  <2>8. ASSUME NEW u \in Threads, u # t PROVE Good(u)'
    BY <1>2, <2>1, <2>3, <2>4, <2>5, <2>8 DEF Pushers, PushPoints
  <2> QED
    BY <1>3, <2>7, <2>8
<1>13. ASSUME NEW t \in Threads, PushExchange(t) PROVE Snapshot'
  <2>1. /\ UNCHANGED <<topUnique, next, bUnique, bNode, bNext, fNode>>
        /\ pc[t] = "push_exchange" /\ pc'[t] \in {"unuse", "push_link"}
        /\ \A u \in Threads : u # t => pc'[u] = pc[u]
    BY <1>1, <1>13 DEF PushExchange, Goto, locals
  <2>2. fNode[t] \in Nodes /\ fNode[t] # NullNode
    BY <1>1, <2>1 DEF Snapshot, Pushers, PushPoints
  <2>3. Contents \subseteq Contents'
    <3>1. CASE topNode = bNode[t]
      BY <1>13, <2>2, <3>1, ContentsPush DEF PushExchange
    <3>2. CASE topNode # bNode[t]
      BY <1>13, <3>2 DEF PushExchange, Contents
    <3> QED
      BY <3>1, <3>2
  <2>4. Good(t)'
    BY <2>1, <2>2
  <2> QED
    BY <1>4, <2>1, <2>3, <2>4
<1>14. ASSUME NEW t \in Threads, FreeUnuse(t) PROVE Snapshot'
  <2>1. /\ UNCHANGED <<topUnique, next, list, bUnique, bNext>> /\ pc'[t] = "idle"
        /\ \A u \in Threads : u # t =>
             pc'[u] = pc[u] /\ fNode'[u] = fNode[u] /\ bNode'[u] = bNode[u]
    BY <1>1, <1>14 DEF FreeUnuse, LeaveFree, Goto
  <2>2. Good(t)'
    BY <2>1 DEF Pushers, PushPoints
  <2> QED
    BY <1>4, <2>1, <2>2 DEF Contents
<1>15. CASE UNCHANGED vars
  <2>1. \A u \in Threads : Good(u)'
    BY <1>2, <1>15 DEF vars, shared, locals, Pushers, Contents
  <2> QED
    BY <1>3, <2>1
<1> QED
  BY <1>5, <1>6, <1>7, <1>8, <1>9, <1>10, <1>11, <1>12, <1>13, <1>14, <1>15
  DEF Next, Alloc, Free

-----------------------------------------------------------------------------
(* The pool's whole invariant: for any number of threads, nodes and calls. *)
THEOREM InductiveInvariant == Spec => []Inductive
<1>1. Inductive /\ [Next]_vars => Inductive'
  BY TypeStep, SizesStep, PartitionStep, ListRepStep, UniqueStep, SnapshotStep
  DEF Inductive
<1> QED
  BY InitInductive, <1>1, PTL DEF Spec

(* Every variable keeps its type: _UseSize never goes below zero.          *)
THEOREM TypeCorrect == Spec => []TypeOK
<1>1. Inductive => TypeOK
  BY DEF Inductive
<1> QED
  BY InductiveInvariant, <1>1, PTL

(* The linked list of LockFree_FreeList.h:67-213 always spells out what    *)
(* the pool should contain: no node is lost, doubled or brought back (ABA).*)
THEOREM ListNeverCorrupt == Spec => []ListRep
<1>1. Inductive => ListRep
  BY DEF Inductive
<1> QED
  BY InductiveInvariant, <1>1, PTL

(* The comparison at LockFree_FreeList.h:156, although it uses an old      *)
(* _AllocSize, never admits more threads to the loop than there are nodes. *)
THEOREM PoppersAlwaysCovered == Spec => []PoppersCovered
<1>1. Inductive => PoppersCovered
  BY DEF Inductive
<1> QED
  BY InductiveInvariant, <1>1, PTL

(* The dereference at LockFree_FreeList.h:174 never meets a null top.      *)
THEOREM NeverNull == Spec => []NoNullDereference
<1>1. Inductive => NoNullDereference
  BY DEF Inductive, Snapshot, NoNullDereference
<1> QED
  BY InductiveInvariant, <1>1, PTL

(* When every thread is between calls the counters of DebugPrint are exact.*)
THEOREM CountersAgree == Spec => []CountersExact
<1>1. Inductive => CountersExact
  <2> SUFFICES ASSUME Inductive, \A t \in Threads : pc[t] = "idle"
               PROVE  /\ useSize = Cardinality(held)
                      /\ allocSize = Cardinality(held) + Len(list)
    BY DEF CountersExact
  <2>1. Counted = {} /\ Pushers = {}
    BY DEF Counted, Pushers, PopPoints, PushPoints
  <2>2. Cardinality(held) \in Nat /\ Len(list) \in Nat
    BY NodesAssumption, FS_Subset, FS_CardinalityType DEF Inductive, TypeOK
  <2> QED
    BY <2>1, <2>2, FS_EmptySet DEF Inductive, Sizes
<1> QED
  BY InductiveInvariant, <1>1, PTL

-----------------------------------------------------------------------------
(* CLockFree_FreeList implements NodePool: each step of FreeList gives out *)
(* one node, takes one back, or changes nothing that a client sees.        *)

(* What NodePool sees of FreeList.                                         *)
InUse  == held \cup {fNode[t] : t \in Pushers}
Served == allocSize + uniqueCount - Cardinality(Reserved)

(* The reservations of _UniqueCount that are still open move with the one  *)
(* thread that takes a step.                                               *)
LEMMA ReservedCounts ==
  ASSUME TypeOK, NEW t \in Threads, NEW p \in Points, Goto(t, p)
  PROVE  /\ Cardinality(Reserved) \in Nat /\ Cardinality(Reserved') \in Nat
         /\ Cardinality(Reserved') + (IF pc[t] \in PopPoints \ {"pop_reserve"} THEN 1 ELSE 0)
              = Cardinality(Reserved) + (IF p \in PopPoints \ {"pop_reserve"} THEN 1 ELSE 0)
<1>1. /\ pc' \in [Threads -> Points] /\ pc'[t] = p
      /\ \A u \in Threads : u # t => pc'[u] = pc[u]
  BY DEF TypeOK, Goto
<1>2. /\ Reserved \in SUBSET Threads /\ Reserved' \in SUBSET Threads
      /\ \A u \in Threads : u # t => (u \in Reserved <=> u \in Reserved')
      /\ t \in Reserved <=> pc[t] \in PopPoints \ {"pop_reserve"}
      /\ t \in Reserved' <=> p \in PopPoints \ {"pop_reserve"}
  BY <1>1 DEF Reserved
<1> QED
  BY <1>2, MoveCard

(* A thread that is no pusher before and after its step leaves what the    *)
(* pushers hold alone.                                                     *)
LEMMA PushersKept ==
  ASSUME TypeOK, NEW t \in Threads, NEW p \in Points, Goto(t, p),
         pc[t] \in PushPoints <=> p \in PushPoints,
         p \in PushPoints => fNode'[t] = fNode[t],
         \A u \in Threads : u # t => fNode'[u] = fNode[u]
  PROVE  {fNode'[u] : u \in Pushers'} = {fNode[u] : u \in Pushers}
<1>1. /\ pc' \in [Threads -> Points] /\ pc'[t] = p
      /\ \A u \in Threads : u # t => pc'[u] = pc[u]
  BY DEF TypeOK, Goto
<1>2. Pushers' = Pushers
  BY <1>1 DEF Pushers
<1>3. \A u \in Pushers : fNode'[u] = fNode[u]
  BY <1>1 DEF Pushers
<1> QED
  BY <1>2, <1>3

(* A new pool has given nothing out.                                       *)
LEMMA InitRefines == Init => Pool!Init
<1> SUFFICES ASSUME Init PROVE Pool!Init
  OBVIOUS
<1>1. Pushers = {} /\ Reserved = {}
  BY DEF Init, Pushers, Reserved, PopPoints, PushPoints
<1> QED
  BY <1>1, FS_EmptySet DEF Init, Pool!Init

(* Every step is one of NodePool's or a stutter.                           *)
LEMMA StepRefines ==
  Inductive /\ [Next]_vars => [Pool!Next]_<<InUse, Served>>
<1> SUFFICES ASSUME Inductive, [Next]_vars
             PROVE  Pool!Next \/ UNCHANGED <<InUse, Served>>
  OBVIOUS
<1> USE DEF Inductive
<1>1. /\ TypeOK /\ allocSize \in Nat /\ uniqueCount \in Nat
      /\ pc \in [Threads -> Points]
  BY DEF TypeOK
<1>2. ASSUME NEW t \in Threads, NEW p \in Points, Goto(t, p),
             UNCHANGED <<held, allocSize, uniqueCount>>,
             pc[t] \in PushPoints <=> p \in PushPoints,
             pc[t] \in PopPoints \ {"pop_reserve"} <=> p \in PopPoints \ {"pop_reserve"},
             p \in PushPoints => fNode'[t] = fNode[t],
             \A u \in Threads : u # t => fNode'[u] = fNode[u]
      PROVE  UNCHANGED <<InUse, Served>>
  <2>1. Cardinality(Reserved') = Cardinality(Reserved)
    BY <1>1, <1>2, ReservedCounts
  <2>2. {fNode'[u] : u \in Pushers'} = {fNode[u] : u \in Pushers}
    BY <1>1, <1>2, PushersKept
  <2>3. InUse' = InUse
    BY <1>2, <2>2 DEF InUse
  <2>4. Served' = Served
    BY <1>2, <2>1 DEF Served
  <2> QED
    BY <2>3, <2>4
<1>3. ASSUME NEW t \in Threads, AllocBegin(t) PROVE UNCHANGED <<InUse, Served>>
  <2>1. /\ Goto(t, "use") /\ pc[t] = "idle"
        /\ UNCHANGED <<held, allocSize, uniqueCount, fNode>>
    BY <1>3 DEF AllocBegin, shared
  <2> QED
    BY <1>2, <2>1 DEF Points, PopPoints, PushPoints
<1>4. ASSUME NEW t \in Threads, AllocUse(t) PROVE UNCHANGED <<InUse, Served>>
  <2>1. PICK p \in {"pop_reserve", "grow"} : Goto(t, p)
    BY <1>4 DEF AllocUse, Admit
  <2>2. pc[t] = "use" /\ UNCHANGED <<held, allocSize, uniqueCount, fNode>>
    BY <1>4 DEF AllocUse, Admit
  <2> QED
    BY <1>2, <2>1, <2>2 DEF Points, PopPoints, PushPoints
<1>5. ASSUME NEW t \in Threads, AllocGrow(t) PROVE Pool!Next
  <2>1. /\ Goto(t, "idle") /\ pc[t] = "grow" /\ allocSize' = allocSize + 1
        /\ UNCHANGED <<uniqueCount, fNode>>
    BY <1>5 DEF AllocGrow, locals
  <2>2. PICK n \in Nodes \ created : held' = held \cup {n}
    BY <1>5 DEF AllocGrow
  <2>3. n \notin InUse
    BY <2>2 DEF Partition, InUse
  <2>4. {fNode'[u] : u \in Pushers'} = {fNode[u] : u \in Pushers}
    BY <1>1, <2>1, PushersKept DEF Points, PopPoints, PushPoints
  <2>5. InUse' = InUse \cup {n}
    BY <2>2, <2>4 DEF InUse
  <2>6. /\ Cardinality(Reserved') = Cardinality(Reserved)
        /\ Cardinality(Reserved) \in Nat
    BY <1>1, <2>1, ReservedCounts DEF Points, PopPoints, PushPoints
  <2>7. Served' = Served + 1
    BY <1>1, <2>1, <2>6 DEF Served
  <2> QED
    BY <2>2, <2>3, <2>5, <2>7 DEF Pool!Next, Pool!Alloc, InUse, Served
<1>6. ASSUME NEW t \in Threads, PopReserve(t) PROVE UNCHANGED <<InUse, Served>>
  <2>1. /\ Goto(t, "pop_unique") /\ pc[t] = "pop_reserve"
        /\ uniqueCount' = uniqueCount + 1
        /\ UNCHANGED <<held, allocSize, fNode>>
    BY <1>6 DEF PopReserve
  <2>2. /\ Cardinality(Reserved') = Cardinality(Reserved) + 1
        /\ Cardinality(Reserved) \in Nat
    BY <1>1, <2>1, ReservedCounts DEF Points, PopPoints, PushPoints
  <2>3. {fNode'[u] : u \in Pushers'} = {fNode[u] : u \in Pushers}
    BY <1>1, <2>1, PushersKept DEF Points, PopPoints, PushPoints
  <2>4. InUse' = InUse
    BY <2>1, <2>3 DEF InUse
  <2>5. Served' = Served
    BY <1>1, <2>1, <2>2 DEF Served
  <2> QED
    BY <2>4, <2>5
<1>7. ASSUME NEW t \in Threads,
             PopReadUnique(t) \/ PopReadNode(t) \/ PopRecheck(t) \/ PopReadNext(t)
      PROVE  UNCHANGED <<InUse, Served>>
  <2>1. PICK p \in PopPoints \ {"pop_reserve"} : Goto(t, p)
    BY <1>7 DEF PopReadUnique, PopReadNode, PopRecheck, PopReadNext, PopPoints
  <2>2. /\ pc[t] \in PopPoints \ {"pop_reserve"}
        /\ UNCHANGED <<held, allocSize, uniqueCount, fNode>>
    BY <1>7 DEF PopReadUnique, PopReadNode, PopRecheck, PopReadNext, PopPoints,
                shared, locals
  <2> QED
    BY <1>2, <2>1, <2>2 DEF Points, PopPoints, PushPoints
<1>8. ASSUME NEW t \in Threads, PopExchange(t)
      PROVE  Pool!Next \/ UNCHANGED <<InUse, Served>>
  <2>1. /\ pc[t] = "pop_exchange"
        /\ UNCHANGED <<allocSize, uniqueCount, fNode>>
    BY <1>8 DEF PopExchange, CompareExchange
  <2>2. CASE topNode = bNode[t] /\ topUnique = bUnique[t]
    <3>1. Goto(t, "idle") /\ held' = held \cup {bNode[t]}
      BY <1>8, <2>2 DEF PopExchange, CompareExchange
    <3>2. bNode[t] \in Contents /\ bNode[t] \in Nodes
      BY <2>1, <2>2, NodesAssumption DEF Snapshot, TypeOK
    <3>3. bNode[t] \notin InUse
      BY <3>2 DEF Partition, InUse
    <3>4. {fNode'[u] : u \in Pushers'} = {fNode[u] : u \in Pushers}
      BY <1>1, <2>1, <3>1, PushersKept DEF Points, PopPoints, PushPoints
    <3>5. InUse' = InUse \cup {bNode[t]}
      BY <3>1, <3>4 DEF InUse
    <3>6. /\ Cardinality(Reserved') + 1 = Cardinality(Reserved)
          /\ Cardinality(Reserved') \in Nat
      BY <1>1, <2>1, <3>1, ReservedCounts DEF Points, PopPoints, PushPoints
    <3>7. Served' = Served + 1
      BY <1>1, <2>1, <3>6 DEF Served
    <3> QED
      BY <3>2, <3>3, <3>5, <3>7 DEF Pool!Next, Pool!Alloc, InUse, Served
  <2>3. CASE ~(topNode = bNode[t] /\ topUnique = bUnique[t])
    <3>1. Goto(t, "pop_unique") /\ UNCHANGED held
      BY <1>8, <2>3 DEF PopExchange, CompareExchange
    <3> QED
      BY <1>2, <2>1, <3>1 DEF Points, PopPoints, PushPoints
  <2> QED
    BY <2>2, <2>3
<1>9. ASSUME NEW t \in Threads, NEW n \in Nodes, FreeBegin(t, n)
      PROVE  UNCHANGED <<InUse, Served>>
  <2>1. /\ Goto(t, "push_link") /\ pc[t] = "idle" /\ n \in held
        /\ held' = held \ {n} /\ fNode' = [fNode EXCEPT ![t] = n]
        /\ UNCHANGED <<allocSize, uniqueCount>>
    BY <1>9 DEF FreeBegin, shared
  <2>2. /\ pc'[t] = "push_link" /\ \A u \in Threads : u # t => pc'[u] = pc[u]
        /\ fNode'[t] = n /\ \A u \in Threads : u # t => fNode'[u] = fNode[u]
    BY <1>1, <2>1 DEF Goto, TypeOK
  <2>3. t \in Threads /\ t \notin Pushers /\ Pushers' = Pushers \cup {t}
    BY <2>1, <2>2 DEF Pushers, PushPoints
  <2>4. {fNode'[u] : u \in Pushers'} = {fNode[u] : u \in Pushers} \cup {n}
    BY <2>2, <2>3 DEF Pushers
  <2>5. InUse' = InUse
    BY <2>1, <2>4 DEF InUse, Partition
  <2>6. Cardinality(Reserved') = Cardinality(Reserved)
    BY <1>1, <2>1, ReservedCounts DEF Points, PopPoints, PushPoints
  <2>7. Served' = Served
    BY <2>1, <2>6 DEF Served
  <2> QED
    BY <2>5, <2>7
<1>10. ASSUME NEW t \in Threads, PushLink(t) PROVE UNCHANGED <<InUse, Served>>
  <2>1. /\ Goto(t, "push_exchange") /\ pc[t] = "push_link"
        /\ UNCHANGED <<held, allocSize, uniqueCount, fNode>>
    BY <1>10 DEF PushLink
  <2> QED
    BY <1>2, <2>1 DEF Points, PopPoints, PushPoints
<1>11. ASSUME NEW t \in Threads, PushExchange(t)
       PROVE  Pool!Next \/ UNCHANGED <<InUse, Served>>
  <2>1. /\ pc[t] = "push_exchange"
        /\ UNCHANGED <<held, allocSize, uniqueCount, fNode>>
    BY <1>11 DEF PushExchange, locals
  <2>2. CASE topNode = bNode[t]
    <3>1. Goto(t, "unuse")
      BY <1>11, <2>2 DEF PushExchange
    <3>2. /\ pc'[t] = "unuse" /\ \A u \in Threads : u # t => pc'[u] = pc[u]
      BY <1>1, <3>1 DEF Goto
    <3>3. t \in Pushers /\ Pushers' = Pushers \ {t}
      BY <2>1, <3>2 DEF Pushers, PushPoints
    <3>4. /\ fNode[t] \in Nodes /\ fNode[t] \notin held
          /\ \A u \in Pushers : u # t => fNode[u] # fNode[t]
      BY <3>3, NodesAssumption DEF Partition, Snapshot, TypeOK, Pushers
    <3>5. {fNode'[u] : u \in Pushers'} = {fNode[u] : u \in Pushers} \ {fNode[t]}
      BY <2>1, <3>3, <3>4
    <3>6. InUse' = InUse \ {fNode[t]} /\ fNode[t] \in InUse
      BY <2>1, <3>3, <3>4, <3>5 DEF InUse
    <3>7. Cardinality(Reserved') = Cardinality(Reserved)
      BY <1>1, <2>1, <3>1, ReservedCounts DEF Points, PopPoints, PushPoints
    <3>8. Served' = Served
      BY <2>1, <3>7 DEF Served
    <3> QED
      BY <3>4, <3>6, <3>8 DEF Pool!Next, Pool!Free, InUse, Served
  <2>3. CASE topNode # bNode[t]
    <3>1. Goto(t, "push_link")
      BY <1>11, <2>3 DEF PushExchange
    <3> QED
      BY <1>2, <2>1, <3>1 DEF Points, PopPoints, PushPoints
  <2> QED
    BY <2>2, <2>3
<1>12. ASSUME NEW t \in Threads, FreeUnuse(t) PROVE UNCHANGED <<InUse, Served>>
  <2>1. /\ Goto(t, "idle") /\ pc[t] = "unuse"
        /\ UNCHANGED <<held, allocSize, uniqueCount>>
        /\ \A u \in Threads : u # t => fNode'[u] = fNode[u]
    BY <1>12 DEF FreeUnuse, LeaveFree, TypeOK
  <2> QED
    BY <1>2, <2>1 DEF Points, PopPoints, PushPoints
<1>13. CASE UNCHANGED vars
  BY <1>13 DEF vars, shared, locals, InUse, Served, Pushers, Reserved
<1> QED
  BY <1>3, <1>4, <1>5, <1>6, <1>7, <1>8, <1>9, <1>10, <1>11, <1>12, <1>13
  DEF Next, Alloc, Free

(* The free list implements the pool of NodePool: LockFree_FreeList.h:67   *)
(* and :142 never hand one node to two clients, whatever the interleaving. *)
THEOREM FreeListImplementsPool == Spec => ImplementsPool
<1>1. Inductive /\ [Next]_vars =>
        [Pool!Next]_<<held \cup {fNode[t] : t \in Pushers},
                      allocSize + uniqueCount - Cardinality(Reserved)>>
  BY StepRefines DEF InUse, Served
<1> QED
  BY InitRefines, <1>1, InductiveInvariant, PTL DEF Spec, ImplementsPool, Pool!Spec
=============================================================================
