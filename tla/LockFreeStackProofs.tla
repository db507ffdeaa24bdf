------------------------ MODULE LockFreeStackProofs -------------------------
(***************************************************************************)
(* Proofs about CLockFreeStack for any number of threads, indexes and      *)
(* nodes: Inductive is an inductive invariant of LockFreeStack, so an      *)
(* index is never with two sessions, however pops and pushes interleave.   *)
(***************************************************************************)
EXTENDS LockFreeStack, FiniteSetTheorems, SequenceTheorems, TLAPS

USE DEF At

(* One thread moves: a set of threads chosen by program point changes by   *)
(* that thread at most.                                                    *)
LEMMA MoveCard ==
  ASSUME NEW S \in SUBSET Threads, NEW U \in SUBSET Threads, NEW t \in Threads,
         \A u \in Threads : u # t => (u \in S <=> u \in U)
  PROVE  /\ Cardinality(S) \in Nat /\ Cardinality(U) \in Nat
         /\ Cardinality(U) + (IF t \in S THEN 1 ELSE 0)
              = Cardinality(S) + (IF t \in U THEN 1 ELSE 0)
<1>1. /\ IsFiniteSet(S) /\ Cardinality(S) \in Nat
      /\ IsFiniteSet(U) /\ Cardinality(U) \in Nat
  BY ThreadsAssumption, FS_Subset, FS_CardinalityType
<1>2. CASE t \in S <=> t \in U
  <2>1. U = S
    BY <1>2
  <2> QED
    BY <1>1, <1>2, <2>1
<1>3. CASE t \notin S /\ t \in U
  <2>1. U = S \cup {t}
    BY <1>3
  <2>2. Cardinality(U) = Cardinality(S) + 1
    BY <1>1, <1>3, <2>1, FS_AddElement
  <2> QED
    BY <1>1, <1>3, <2>2
<1>4. CASE t \in S /\ t \notin U
  <2>1. S = U \cup {t}
    BY <1>4
  <2>2. Cardinality(S) = Cardinality(U) + 1
    BY <1>1, <1>4, <2>1, FS_AddElement
  <2> QED
    BY <1>1, <1>4, <2>2
<1> QED
  BY <1>2, <1>3, <1>4

(* How the three counted sets of threads change with a step of one.        *)
LEMMA Counts ==
  ASSUME TypeOK, NEW t \in Threads, NEW p, Goto(t, p)
  PROVE  /\ Cardinality(Uncounted) \in Nat /\ Cardinality(Uncounted') \in Nat
         /\ Cardinality(Waiting) \in Nat /\ Cardinality(Waiting') \in Nat
         /\ Cardinality(Within({"pop_undo"})) \in Nat
         /\ Cardinality(Within({"pop_undo"})') \in Nat
         /\ Cardinality(Uncounted') + (IF pc[t] = "push_count" THEN 1 ELSE 0)
              = Cardinality(Uncounted) + (IF p = "push_count" THEN 1 ELSE 0)
         /\ Cardinality(Waiting') + (IF pc[t] \in PopPoints \ {"pop_return"} THEN 1 ELSE 0)
              = Cardinality(Waiting) + (IF p \in PopPoints \ {"pop_return"} THEN 1 ELSE 0)
         /\ Cardinality(Within({"pop_undo"})') + (IF pc[t] = "pop_undo" THEN 1 ELSE 0)
              = Cardinality(Within({"pop_undo"})) + (IF p = "pop_undo" THEN 1 ELSE 0)
<1>1. pc'[t] = p /\ \A u \in Threads : u # t => pc'[u] = pc[u]
  BY DEF TypeOK, Goto
<1>2. /\ Uncounted \in SUBSET Threads /\ Uncounted' \in SUBSET Threads
      /\ \A u \in Threads : u # t => (u \in Uncounted <=> u \in Uncounted')
      /\ t \in Uncounted <=> pc[t] = "push_count"
      /\ t \in Uncounted' <=> p = "push_count"
  BY <1>1 DEF Uncounted, Within
<1>3. /\ Waiting \in SUBSET Threads /\ Waiting' \in SUBSET Threads
      /\ \A u \in Threads : u # t => (u \in Waiting <=> u \in Waiting')
      /\ t \in Waiting <=> pc[t] \in PopPoints \ {"pop_return"}
      /\ t \in Waiting' <=> p \in PopPoints \ {"pop_return"}
  BY <1>1 DEF Waiting, Within
<1>4. /\ Within({"pop_undo"}) \in SUBSET Threads
      /\ Within({"pop_undo"})' \in SUBSET Threads
      /\ \A u \in Threads :
           u # t => (u \in Within({"pop_undo"}) <=> u \in Within({"pop_undo"})')
      /\ t \in Within({"pop_undo"}) <=> pc[t] = "pop_undo"
      /\ t \in Within({"pop_undo"})' <=> p = "pop_undo"
  BY <1>1 DEF Within
<1>5. /\ Cardinality(Uncounted) \in Nat /\ Cardinality(Uncounted') \in Nat
      /\ Cardinality(Uncounted') + (IF t \in Uncounted THEN 1 ELSE 0)
           = Cardinality(Uncounted) + (IF t \in Uncounted' THEN 1 ELSE 0)
  BY <1>2, MoveCard
<1>6. /\ Cardinality(Waiting) \in Nat /\ Cardinality(Waiting') \in Nat
      /\ Cardinality(Waiting') + (IF t \in Waiting THEN 1 ELSE 0)
           = Cardinality(Waiting) + (IF t \in Waiting' THEN 1 ELSE 0)
  BY <1>3, MoveCard
<1>7. /\ Cardinality(Within({"pop_undo"})) \in Nat
      /\ Cardinality(Within({"pop_undo"})') \in Nat
      /\ Cardinality(Within({"pop_undo"})') + (IF t \in Within({"pop_undo"}) THEN 1 ELSE 0)
           = Cardinality(Within({"pop_undo"}))
               + (IF t \in Within({"pop_undo"})' THEN 1 ELSE 0)
  BY <1>4, MoveCard
<1> QED
  BY <1>2, <1>3, <1>4, <1>5, <1>6, <1>7

(* A pop whose exchange succeeds takes the last entry of the history.      *)
LEMMA TopOfStack ==
  ASSUME TypeOK, ListRep, topNode # NullNode
  PROVE  /\ Len(list) \in Nat /\ Len(list) >= 1
         /\ topNode = list[Len(list)] /\ topNode \in Contents
<1>1. Len(list) \in Nat /\ DOMAIN list = 1 .. Len(list) /\ list \in Seq(Nodes)
  BY LenProperties DEF TypeOK
<1>2. list # <<>> /\ topNode = list[Len(list)]
  BY DEF ListRep
<1>3. Len(list) >= 1
  BY <1>1, <1>2, EmptySeq
<1> QED
  BY <1>1, <1>2, <1>3 DEF Contents

(* What popping and pushing do to the history, entry by entry.             *)
LEMMA ListPop ==
  ASSUME TypeOK, Len(list) >= 1, NEW l, l = SubSeq(list, 1, Len(list) - 1)
  PROVE  /\ l \in Seq(Nodes) /\ Len(list) \in Nat /\ Len(l) = Len(list) - 1
         /\ DOMAIN list = 1 .. Len(list) /\ DOMAIN l = 1 .. Len(list) - 1
         /\ \A i \in 1 .. Len(list) - 1 : l[i] = list[i]
<1>1. /\ list \in Seq(Nodes) /\ Len(list) \in Nat /\ DOMAIN list = 1 .. Len(list)
      /\ \A i \in 1 .. Len(list) : list[i] \in Nodes
  BY LenProperties, ElementOfSeq DEF TypeOK
<1>2. /\ 1 \in Int /\ Len(list) - 1 \in Int
      /\ \A i \in 1 .. Len(list) - 1 : list[i] \in Nodes
  BY <1>1
<1>3. /\ l \in Seq(Nodes)
      /\ Len(l) = IF 1 <= Len(list) - 1 THEN (Len(list) - 1) - 1 + 1 ELSE 0
      /\ \A i \in 1 .. (Len(list) - 1) - 1 + 1 : l[i] = list[1 + i - 1]
  BY <1>2, SubSeqProperties
<1>4. Len(l) = Len(list) - 1
  BY <1>1, <1>3
<1>5. DOMAIN l = 1 .. Len(list) - 1
  BY <1>3, <1>4, LenProperties
<1>6. \A i \in 1 .. Len(list) - 1 : l[i] = list[i]
  BY <1>1, <1>3
<1> QED
  BY <1>1, <1>3, <1>4, <1>5, <1>6

(* The history after a push.                                               *)
LEMMA ListPush ==
  ASSUME TypeOK, NEW n \in Nodes, NEW l, l = Append(list, n)
  PROVE  /\ l \in Seq(Nodes) /\ Len(list) \in Nat /\ Len(l) = Len(list) + 1
         /\ DOMAIN list = 1 .. Len(list) /\ DOMAIN l = 1 .. Len(list) + 1
         /\ \A i \in 1 .. Len(list) : l[i] = list[i]
         /\ l[Len(list) + 1] = n
  BY AppendProperties, LenProperties DEF TypeOK

(* What both do to the set of nodes on the stack.                          *)
LEMMA ContentsPop ==
  ASSUME TypeOK, Places, Len(list) >= 1, list' = SubSeq(list, 1, Len(list) - 1)
  PROVE  Contents' = Contents \ {list[Len(list)]}
<1>1. /\ Len(list) \in Nat /\ DOMAIN list = 1 .. Len(list)
      /\ DOMAIN list' = 1 .. Len(list) - 1
      /\ \A i \in 1 .. Len(list) - 1 : list'[i] = list[i]
  BY ListPop
<1>2. \A i, j \in 1 .. Len(list) : list[i] = list[j] => i = j
  BY <1>1 DEF Places
<1>3. \A x : x \in Contents' <=> \E i \in 1 .. Len(list) - 1 : x = list[i]
  BY <1>1 DEF Contents
<1>4. \A x : x \in Contents <=> \E i \in 1 .. Len(list) : x = list[i]
  BY <1>1 DEF Contents
<1>5. \A x : x \in Contents' => x \in Contents /\ x # list[Len(list)]
  BY <1>1, <1>2, <1>3, <1>4
<1>6. \A x : x \in Contents /\ x # list[Len(list)] => x \in Contents'
  BY <1>1, <1>3, <1>4
<1> QED
  BY <1>5, <1>6

(* A push adds its node to them.                                           *)
LEMMA ContentsPush ==
  ASSUME TypeOK, NEW n \in Nodes, list' = Append(list, n)
  PROVE  Contents' = Contents \cup {n}
<1>1. /\ Len(list) \in Nat /\ DOMAIN list = 1 .. Len(list)
      /\ DOMAIN list' = 1 .. Len(list) + 1
      /\ \A i \in 1 .. Len(list) : list'[i] = list[i]
      /\ list'[Len(list) + 1] = n
  BY ListPush
<1>2. \A x : x \in Contents' <=> \E i \in 1 .. Len(list) + 1 : x = list'[i]
  BY <1>1 DEF Contents
<1>3. \A x : x \in Contents <=> \E i \in 1 .. Len(list) : x = list[i]
  BY <1>1 DEF Contents
<1>4. \A x : x \in Contents' => x \in Contents \/ x = n
  BY <1>1, <1>2, <1>3
<1>5. \A x : x \in Contents \/ x = n => x \in Contents'
  BY <1>1, <1>2, <1>3
<1> QED
  BY <1>4, <1>5

(* The two outcomes of the exchange in pop.  The one that takes the top    *)
(* takes the last entry of the history, and leaves its successor on top.   *)
LEMMA Popped ==
  ASSUME TypeOK, ListRep, Places, Snapshot, NEW t \in Threads, PopExchange(t),
         topNode = bTop[t].node, topUnique = bTop[t].unique
  PROVE  /\ Goto(t, "pop_return") /\ pc[t] = "pop_exchange"
         /\ topNode \in Nodes /\ topNode \in Contents
         /\ Len(list) \in Nat /\ Len(list) >= 1 /\ topNode = list[Len(list)]
         /\ topNode' = next[topNode] /\ topUnique' = lUnique[t]
         /\ node' = [node EXCEPT ![t] = topNode]
         /\ list' = SubSeq(list, 1, Len(list) - 1)
         /\ Contents' = Contents \ {topNode}
<1>1. /\ Goto(t, "pop_return") /\ pc[t] = "pop_exchange"
      /\ topNode' = bTop[t].next /\ topUnique' = lUnique[t]
      /\ node' = [node EXCEPT ![t] = topNode]
      /\ list' = SubSeq(list, 1, Len(list) - 1)
  BY DEF PopExchange, CompareExchange
<1>2. topNode # NullNode /\ bTop[t].next = next[topNode]
  BY <1>1 DEF Snapshot
<1>3. topNode \in Nodes
  BY <1>2 DEF TypeOK
<1> QED
  BY <1>1, <1>2, <1>3, TopOfStack, ContentsPop

(* The exchange of push: the node is the thread's own until it succeeds.   *)
LEMMA Pushing ==
  ASSUME TypeOK, Places, NEW t \in Threads, pc[t] \in {"push_link", "push_exchange"}
  PROVE  node[t] \in Nodes /\ node[t] \notin Contents /\ node[t] \in inUse
<1>1. node[t] # NullNode /\ node[t] \notin Contents
  BY DEF Places
<1>2. node[t] \in Nodes
  BY <1>1 DEF TypeOK
<1>3. node[t] \in Carried
  BY <1>1 DEF Carried
<1> QED
  BY <1>1, <1>2, <1>3 DEF Places

(* The node a pop has taken is its own, and carries an index.              *)
LEMMA Returning ==
  ASSUME TypeOK, Places, IndexOnce, NEW t \in Threads, pc[t] = "pop_return"
  PROVE  node[t] \in Nodes /\ node[t] \in inUse /\ data[node[t]] \in Indexes
<1>1. node[t] # NullNode
  BY DEF Places
<1>2. node[t] \in Nodes /\ node[t] \in Carried
  BY <1>1 DEF TypeOK, Carried
<1> QED
  BY <1>2 DEF Places, IndexOnce

-----------------------------------------------------------------------------
(* Start has pushed every index: one node each, none with a thread.        *)
LEMMA InitInductive == Init => Inductive
<1> SUFFICES ASSUME Init PROVE Inductive
  OBVIOUS
<1> USE BoundsAssumption, NodesAssumption DEF Init, Indexes
<1>1. /\ list \in Seq(Nodes) /\ Len(list) = MaxClients /\ DOMAIN list = 1 .. MaxClients
      /\ \A i \in Indexes : list[i] \in Nodes
      /\ \A i, j \in Indexes : list[i] = list[j] => i = j
  <2>1. list \in [1 .. MaxClients -> Nodes]
    OBVIOUS
  <2>2. list \in Seq(Nodes)
    BY <2>1, SeqDef
  <2> QED
    BY <2>1, <2>2, LenProperties
<1>2. ASSUME NEW i \in Indexes PROVE (CHOOSE j \in Indexes : list[j] = list[i]) = i
  BY <1>1
<1>3. /\ \A i \in Indexes : data[list[i]] = i
      /\ \A n \in Nodes : data[n] \in Indexes \cup {0}
  <2>1. ASSUME NEW i \in Indexes PROVE data[list[i]] = i
    <3>1. list[i] \in Nodes /\ \E j \in Indexes : list[j] = list[i]
      BY <1>1
    <3>2. data[list[i]] = CHOOSE j \in Indexes : list[j] = list[i]
      BY <3>1
    <3> QED
      BY <3>2, <1>2
  <2>2. ASSUME NEW n \in Nodes PROVE data[n] \in Indexes \cup {0}
    <3>1. CASE \E i \in Indexes : list[i] = n
      <4>1. PICK i \in Indexes : list[i] = n
        BY <3>1
      <4> QED
        BY <4>1, <2>1
    <3>2. CASE ~(\E i \in Indexes : list[i] = n)
      BY <3>2
    <3> QED
      BY <3>1, <3>2
  <2> QED
    BY <2>1, <2>2
<1>4. ASSUME NEW i \in Indexes
      PROVE  next[list[i]] = IF i = 1 THEN NullNode ELSE list[i - 1]
  <2>1. list[i] \in Nodes
    BY <1>1
  <2>2. CASE i = 1
    <3>1. ~(\E j \in Indexes \ {1} : list[j] = list[i])
      BY <1>1, <2>2
    <3>2. next[list[i]] = NullNode
      BY <2>1, <3>1
    <3> QED
      BY <2>2, <3>2
  <2>3. CASE i # 1
    <3>1. \E j \in Indexes \ {1} : list[j] = list[i]
      BY <2>3
    <3>2. next[list[i]] = list[(CHOOSE j \in Indexes : list[j] = list[i]) - 1]
      BY <2>1, <3>1
    <3> QED
      BY <2>3, <3>2, <1>2, SMTT(30)
  <2> QED
    BY <2>2, <2>3
<1>5. ASSUME NEW n \in Nodes PROVE next[n] \in Nodes \cup {NullNode}
  <2>1. CASE \E i \in Indexes : list[i] = n
    <3>1. PICK i \in Indexes : list[i] = n
      BY <2>1
    <3>2. i # 1 => i - 1 \in Indexes
      OBVIOUS
    <3>3. i # 1 => list[i - 1] \in Nodes
      BY <3>2, <1>1
    <3>4. next[n] = IF i = 1 THEN NullNode ELSE list[i - 1]
      BY <3>1, <1>4
    <3> HIDE DEF Init
    <3> QED
      BY <3>3, <3>4
  <2>2. CASE ~(\E i \in Indexes : list[i] = n)
    BY <2>2
  <2> QED
    BY <2>1, <2>2
<1>6. topNode = IF list = <<>> THEN NullNode ELSE list[Len(list)]
  BY <1>1, EmptySeq
<1>7. Contents = inUse /\ inUse \subseteq Nodes
  BY <1>1 DEF Contents
<1>8. /\ Uncounted = {} /\ Waiting = {} /\ Within({"pop_undo"}) = {} /\ Reserved = {}
      /\ Carried = {}
  BY DEF Uncounted, Waiting, Within, Reserved, Carried, PopPoints
<1>9. Cardinality({}) = 0
  BY FS_EmptySet
<1>10. TypeOK
  <2>1. /\ topNode \in Nodes \cup {NullNode} /\ topUnique \in Nat
        /\ next \in [Nodes -> Nodes \cup {NullNode}]
        /\ data \in [Nodes -> Indexes \cup {0}]
        /\ inUse \subseteq Nodes /\ list \in Seq(Nodes)
    BY <1>1, <1>3, <1>5, <1>7
  <2>2. Cardinality(Within({"pop_undo"})) = 0
    BY <1>8, <1>9
  <2>3. useSize \in Int /\ useSize >= - Cardinality(Within({"pop_undo"}))
    BY <2>2
  <2> QED
    BY <2>1, <2>3 DEF TypeOK, NoCopy, Threads
<1>11. ListRep
  BY <1>1, <1>4, <1>6 DEF ListRep
<1>12. Places
  BY <1>1, <1>7, <1>8 DEF Places
<1>13. IndexOnce
  <2>1. \A n \in inUse : \E i \in Indexes : n = list[i] /\ data[n] = i
    BY <1>3
  <2>2. \A i \in Indexes : list[i] \in inUse /\ data[list[i]] = i
    BY <1>3
  <2>3. /\ \A n \in inUse : data[n] \in Indexes
        /\ \A m, n \in inUse : data[m] = data[n] => m = n
    BY <2>1
  <2>4. \A i \in Indexes : out[i] = 0 /\ \E n \in inUse : data[n] = i
    BY <2>2
  <2> HIDE DEF Init
  <2> QED
    BY <2>3, <2>4 DEF IndexOnce
<1>14. Sizes
  BY <1>1, <1>8, <1>9 DEF Sizes
<1>15. Unique /\ Snapshot
  BY <1>8 DEF Unique, Snapshot, NoCopy
<1> QED
  BY <1>10, <1>11, <1>12, <1>13, <1>14, <1>15 DEF Inductive

(* The counters: what a pop has lowered below zero it is about to put      *)
(* right, and the sizes stay with what is on the stack.                    *)
LEMMA SizesStep ==
  Inductive /\ [Next]_vars =>
    Sizes' /\ useSize' \in Int /\ useSize' >= - Cardinality(Within({"pop_undo"})')
<1> DEFINE Goal == /\ Sizes' /\ useSize' \in Int
                   /\ useSize' >= - Cardinality(Within({"pop_undo"})')
<1> SUFFICES ASSUME Inductive, [Next]_vars PROVE Goal
  OBVIOUS
<1> USE DEF Inductive
<1>1. /\ useSize \in Int /\ useSize >= - Cardinality(Within({"pop_undo"}))
      /\ Len(list) \in Nat /\ pc \in [Threads -> {"idle"} \cup PopPoints \cup PushPoints]
  BY LenProperties DEF TypeOK
<1>2. ASSUME NEW t \in Threads, NEW p, Goto(t, p), UNCHANGED <<useSize, list, undone>>,
             pc[t] # "push_count", p # "push_count", pc[t] # "pop_undo", p # "pop_undo",
             pc[t] \in PopPoints \ {"pop_return"} <=> p \in PopPoints \ {"pop_return"}
      PROVE  Goal
  <2>1. /\ Cardinality(Uncounted') = Cardinality(Uncounted)
        /\ Cardinality(Waiting') = Cardinality(Waiting)
        /\ Cardinality(Within({"pop_undo"})') = Cardinality(Within({"pop_undo"}))
    BY <1>2, Counts
  <2>2. Within({"pop_undo"})' = Within({"pop_undo"})
    BY <1>1, <1>2 DEF Within, Goto
  <2> QED
    BY <1>1, <1>2, <2>1, <2>2 DEF Sizes
<1>3. ASSUME NEW t \in Threads, NEW i \in Indexes, NEW n \in Nodes, PushAlloc(t, i, n)
      PROVE  Goal
  BY <1>2, <1>3 DEF PushAlloc, size, PopPoints
<1>4. ASSUME NEW t \in Threads, PushLink(t) PROVE Goal
  BY <1>2, <1>4 DEF PushLink, size, hist, PopPoints
<1>5. ASSUME NEW t \in Threads,
             \/ PopReserve(t) \/ PopReadUnique(t) \/ PopReadNode(t) \/ PopRecheck(t)
             \/ PopReadNext(t)
      PROVE  Goal
  <2>1. PICK p : Goto(t, p) /\ p \in PopPoints \ {"pop_return", "pop_undo"}
    BY <1>5 DEF PopReserve, PopReadUnique, PopReadNode, PopRecheck, PopReadNext, PopPoints
  <2>2. /\ pc[t] \in PopPoints \ {"pop_return", "pop_undo"}
        /\ UNCHANGED <<useSize, list, undone>>
    BY <1>5 DEF PopReserve, PopReadUnique, PopReadNode, PopRecheck, PopReadNext,
                PopPoints, size, hist
  <2> QED
    BY <1>2, <2>1, <2>2 DEF PopPoints
<1>6. ASSUME NEW t \in Threads, PopReturn(t) PROVE Goal
  BY <1>2, <1>6 DEF PopReturn, size, PopPoints
<1>7. ASSUME NEW t \in Threads, PushExchange(t) PROVE Goal
  <2>1. pc[t] = "push_exchange" /\ UNCHANGED <<useSize, undone>>
    BY <1>7 DEF PushExchange, size
  <2>2. CASE topNode = bTop[t].node
    <3>1. Goto(t, "push_count") /\ list' = Append(list, node[t])
      BY <1>7, <2>2 DEF PushExchange
    <3>2. Len(list') = Len(list) + 1
      BY <2>1, <3>1, ListPush, Pushing
    <3>3. /\ Cardinality(Uncounted') = Cardinality(Uncounted) + 1
          /\ Cardinality(Waiting') = Cardinality(Waiting)
          /\ Cardinality(Within({"pop_undo"})') = Cardinality(Within({"pop_undo"}))
          /\ Cardinality(Uncounted) \in Nat /\ Cardinality(Waiting) \in Nat
      BY <2>1, <3>1, Counts DEF PopPoints
    <3>4. Within({"pop_undo"})' = Within({"pop_undo"})
      BY <1>1, <2>1, <3>1 DEF Within, Goto
    <3> QED
      BY <1>1, <2>1, <3>2, <3>3, <3>4 DEF Sizes
  <2>3. CASE topNode # bTop[t].node
    BY <1>2, <1>7, <2>1, <2>3 DEF PushExchange, PopPoints
  <2> QED
    BY <2>2, <2>3
<1>8. ASSUME NEW t \in Threads, PushCount(t) PROVE Goal
  <2>1. /\ pc[t] = "push_count" /\ Goto(t, "idle") /\ useSize' = useSize + 1
        /\ UNCHANGED <<list, undone>>
    BY <1>8 DEF PushCount, hist
  <2>2. /\ Cardinality(Uncounted') + 1 = Cardinality(Uncounted)
        /\ Cardinality(Waiting') = Cardinality(Waiting)
        /\ Cardinality(Within({"pop_undo"})') = Cardinality(Within({"pop_undo"}))
        /\ Cardinality(Uncounted') \in Nat /\ Cardinality(Waiting) \in Nat
        /\ Cardinality(Within({"pop_undo"})) \in Nat
    BY <2>1, Counts DEF PopPoints
  <2>3. Within({"pop_undo"})' = Within({"pop_undo"})
    BY <1>1, <2>1 DEF Within, Goto
  <2> QED
    BY <1>1, <2>1, <2>2, <2>3 DEF Sizes
<1>9. ASSUME NEW t \in Threads, Pop(t) PROVE Goal
  <2>1. /\ pc[t] = "idle" /\ useSize' = useSize - 1 /\ UNCHANGED list
        /\ Goto(t, IF useSize - 1 < 0 THEN "pop_undo" ELSE "pop_reserve")
        /\ undone' = (undone \/ useSize - 1 < 0)
    BY <1>9 DEF Pop, PopDecrement
  <2>2. CASE useSize - 1 < 0
    <3>1. Goto(t, "pop_undo")
      BY <2>1, <2>2
    <3>2. /\ Cardinality(Uncounted') = Cardinality(Uncounted)
          /\ Cardinality(Waiting') = Cardinality(Waiting) + 1
          /\ Cardinality(Within({"pop_undo"})') = Cardinality(Within({"pop_undo"})) + 1
          /\ Cardinality(Uncounted) \in Nat /\ Cardinality(Waiting) \in Nat
          /\ Cardinality(Within({"pop_undo"})) \in Nat
      BY <2>1, <3>1, Counts DEF PopPoints
    <3>3. /\ Len(list) <= useSize + Cardinality(Uncounted) + Cardinality(Waiting)
          /\ ~undone => Len(list) = useSize + Cardinality(Uncounted) + Cardinality(Waiting)
      BY DEF Sizes
    <3>4. /\ Len(list') <= useSize' + Cardinality(Uncounted') + Cardinality(Waiting')
          /\ ~undone =>
               Len(list') = useSize' + Cardinality(Uncounted') + Cardinality(Waiting')
          /\ useSize' \in Int /\ useSize' >= - Cardinality(Within({"pop_undo"})')
      BY <1>1, <2>1, <3>2, <3>3, <2>2, SMTT(30)
    <3>5. undone'
      BY <2>1, <2>2
    <3> QED
      BY <3>4, <3>5 DEF Sizes
  <2>3. CASE ~(useSize - 1 < 0)
    <3>1. Goto(t, "pop_reserve")
      BY <2>1, <2>3
    <3>2. /\ Cardinality(Uncounted') = Cardinality(Uncounted)
          /\ Cardinality(Waiting') = Cardinality(Waiting) + 1
          /\ Cardinality(Within({"pop_undo"})') = Cardinality(Within({"pop_undo"}))
          /\ Cardinality(Uncounted) \in Nat /\ Cardinality(Waiting) \in Nat
          /\ Cardinality(Within({"pop_undo"})) \in Nat
      BY <2>1, <3>1, Counts DEF PopPoints
    <3>3. /\ Len(list) <= useSize + Cardinality(Uncounted) + Cardinality(Waiting)
          /\ ~undone => Len(list) = useSize + Cardinality(Uncounted) + Cardinality(Waiting)
      BY DEF Sizes
    <3>4. /\ Len(list') <= useSize' + Cardinality(Uncounted') + Cardinality(Waiting')
          /\ ~undone =>
               Len(list') = useSize' + Cardinality(Uncounted') + Cardinality(Waiting')
          /\ useSize' \in Int /\ useSize' >= - Cardinality(Within({"pop_undo"})')
      BY <1>1, <2>1, <3>2, <3>3, <2>3
    <3>5. Within({"pop_undo"})' = Within({"pop_undo"})
      BY <1>1, <2>1, <3>1 DEF Within, Goto
    <3>6. useSize' >= 0
      BY <1>1, <2>1, <2>3
    <3>7. ~undone' => ~undone
      BY <2>1
    <3>8. ~undone' => Within({"pop_undo"})' = {}
      BY <3>5, <3>7 DEF Sizes
    <3> QED
      BY <3>4, <3>6, <3>7, <3>8 DEF Sizes
  <2> QED
    BY <2>2, <2>3
<1>10. ASSUME NEW t \in Threads, PopUndo(t) PROVE Goal
  <2>1. /\ pc[t] = "pop_undo" /\ useSize' = useSize + 1
        /\ Goto(t, IF useSize + 1 <= 0 THEN "idle" ELSE "pop_reserve")
        /\ UNCHANGED <<list, undone>>
    BY <1>10 DEF PopUndo, Undo, hist
  <2>2. undone
    BY <2>1 DEF Sizes, Within
  <2>3. CASE useSize + 1 <= 0
    <3>1. Goto(t, "idle")
      BY <2>1, <2>3
    <3>2. /\ Cardinality(Uncounted') = Cardinality(Uncounted)
          /\ Cardinality(Waiting') + 1 = Cardinality(Waiting)
          /\ Cardinality(Within({"pop_undo"})') + 1 = Cardinality(Within({"pop_undo"}))
          /\ Cardinality(Uncounted) \in Nat /\ Cardinality(Waiting') \in Nat
          /\ Cardinality(Within({"pop_undo"})') \in Nat
      BY <2>1, <3>1, Counts DEF PopPoints
    <3>3. /\ Len(list') <= useSize' + Cardinality(Uncounted') + Cardinality(Waiting')
          /\ useSize' \in Int /\ useSize' >= - Cardinality(Within({"pop_undo"})')
      BY <1>1, <2>1, <3>2 DEF Sizes
    <3> QED
      BY <2>1, <2>2, <3>3 DEF Sizes
  <2>4. CASE ~(useSize + 1 <= 0)
    <3>1. Goto(t, "pop_reserve")
      BY <2>1, <2>4
    <3>2. /\ Cardinality(Uncounted') = Cardinality(Uncounted)
          /\ Cardinality(Waiting') = Cardinality(Waiting)
          /\ Cardinality(Within({"pop_undo"})') + 1 = Cardinality(Within({"pop_undo"}))
          /\ Cardinality(Uncounted) \in Nat /\ Cardinality(Waiting) \in Nat
          /\ Cardinality(Within({"pop_undo"})') \in Nat
      BY <2>1, <3>1, Counts DEF PopPoints
    <3>3. /\ Len(list') <= useSize' + Cardinality(Uncounted') + Cardinality(Waiting')
          /\ useSize' \in Int /\ useSize' >= - Cardinality(Within({"pop_undo"})')
      BY <1>1, <2>1, <3>2 DEF Sizes
    <3> QED
      BY <2>1, <2>2, <3>3 DEF Sizes
  <2> QED
    BY <2>3, <2>4
<1>11. ASSUME NEW t \in Threads, PopExchange(t) PROVE Goal
  <2>1. pc[t] = "pop_exchange" /\ UNCHANGED <<useSize, undone>>
    BY <1>11 DEF PopExchange, CompareExchange, size
  <2>2. CASE topNode = bTop[t].node /\ topUnique = bTop[t].unique
    <3>1. /\ Goto(t, "pop_return") /\ Len(list) >= 1
          /\ list' = SubSeq(list, 1, Len(list) - 1)
      BY <1>11, <2>2, Popped
    <3>2. Len(list') = Len(list) - 1
      BY <3>1, ListPop
    <3>3. /\ Cardinality(Uncounted') = Cardinality(Uncounted)
          /\ Cardinality(Waiting') + 1 = Cardinality(Waiting)
          /\ Cardinality(Within({"pop_undo"})') = Cardinality(Within({"pop_undo"}))
          /\ Cardinality(Uncounted) \in Nat /\ Cardinality(Waiting') \in Nat
      BY <2>1, <3>1, Counts DEF PopPoints
    <3>4. Within({"pop_undo"})' = Within({"pop_undo"})
      BY <1>1, <2>1, <3>1 DEF Within, Goto
    <3> QED
      BY <1>1, <2>1, <3>2, <3>3, <3>4, SMTT(30) DEF Sizes
  <2>3. CASE ~(topNode = bTop[t].node /\ topUnique = bTop[t].unique)
    BY <1>2, <1>11, <2>1, <2>3 DEF PopExchange, CompareExchange, PopPoints
  <2> QED
    BY <2>2, <2>3
<1>12. CASE UNCHANGED vars
  BY <1>1, <1>12 DEF vars, size, hist, Sizes, Uncounted, Waiting, Within
<1> QED
  BY <1>3, <1>4, <1>5, <1>6, <1>7, <1>8, <1>9, <1>10, <1>11, <1>12 DEF Next


(* The steps, one lemma for each conjunct of Inductive that takes work.    *)
LEMMA TypeStep == Inductive /\ [Next]_vars => TypeOK'
<1> DEFINE Rest ==
             /\ topNode' \in Nodes \cup {NullNode} /\ topUnique' \in Nat
             /\ next' \in [Nodes -> Nodes \cup {NullNode}]
             /\ data' \in [Nodes -> Indexes \cup {0}]
             /\ uniqueCount' \in Nat
             /\ inUse' \subseteq Nodes /\ served' \in Nat
             /\ pc' \in [Threads -> {"idle"} \cup PopPoints \cup PushPoints]
             /\ node' \in [Threads -> Nodes \cup {NullNode}]
             /\ bTop' \in [Threads -> [unique : Nat, node : Nodes \cup {NullNode},
                                       next : Nodes \cup {NullNode}]]
             /\ lUnique' \in [Threads -> Nat]
             /\ out' \in [Indexes -> Nat]
             /\ list' \in Seq(Nodes)
<1> SUFFICES ASSUME Inductive, [Next]_vars PROVE TypeOK'
  OBVIOUS
<1>1. useSize' \in Int /\ useSize' >= - Cardinality(Within({"pop_undo"})')
  BY SizesStep
<1> SUFFICES Rest
  BY <1>1 DEF TypeOK
<1>2. TypeOK /\ \A i \in Indexes : i \in Nat
  BY BoundsAssumption DEF Inductive, Indexes
<1> USE <1>2 DEF TypeOK, PopPoints, PushPoints, Goto, top, size, pool, own, hist, NoCopy
<1>3. ASSUME NEW t \in Threads, NEW i \in Indexes, NEW n \in Nodes, PushAlloc(t, i, n)
      PROVE  Rest
  BY <1>3 DEF PushAlloc, Pool!Alloc
<1>4. ASSUME NEW t \in Threads, PushLink(t) PROVE Rest
  BY <1>4 DEF PushLink
<1>5. ASSUME NEW t \in Threads, PushExchange(t) PROVE Rest
  <2>1. node[t] \in Nodes
    BY <1>5, Pushing DEF PushExchange, Inductive
  <2>2. list' \in Seq(Nodes)
    BY <1>5, <2>1, ListPush DEF PushExchange
  <2> QED
    BY <1>5, <2>1, <2>2 DEF PushExchange
<1>6. ASSUME NEW t \in Threads, PushCount(t) PROVE Rest
  BY <1>6 DEF PushCount
<1>7. ASSUME NEW t \in Threads, Pop(t) PROVE Rest
  BY <1>7 DEF Pop, PopDecrement
<1>8. ASSUME NEW t \in Threads, PopUndo(t) PROVE Rest
  BY <1>8 DEF PopUndo, Undo
<1>9. ASSUME NEW t \in Threads, PopReserve(t) PROVE Rest
  BY <1>9 DEF PopReserve
<1>10. ASSUME NEW t \in Threads, PopReadUnique(t) PROVE Rest
  BY <1>10 DEF PopReadUnique
<1>11. ASSUME NEW t \in Threads, PopReadNode(t) PROVE Rest
  BY <1>11 DEF PopReadNode
<1>12. ASSUME NEW t \in Threads, PopRecheck(t) PROVE Rest
  BY <1>12 DEF PopRecheck
<1>13. ASSUME NEW t \in Threads, PopReadNext(t) PROVE Rest
  BY <1>13 DEF PopReadNext
<1>14. ASSUME NEW t \in Threads, PopExchange(t) PROVE Rest
  <2>1. CASE topNode = bTop[t].node /\ topUnique = bTop[t].unique
    <3>1. Len(list) >= 1 /\ list' = SubSeq(list, 1, Len(list) - 1) /\ topNode \in Nodes
      BY <1>14, <2>1, Popped DEF Inductive
    <3>2. list' \in Seq(Nodes)
      BY <3>1, ListPop
    <3>3. /\ bTop[t].next \in Nodes \cup {NullNode} /\ lUnique[t] \in Nat
          /\ bTop[t].node \in Nodes
      BY <2>1, <3>1
    <3>4. topNode' \in Nodes \cup {NullNode} /\ topUnique' \in Nat
      BY <1>14, <2>1, <3>3 DEF PopExchange, CompareExchange
    <3>5. /\ node' \in [Threads -> Nodes \cup {NullNode}]
          /\ pc' \in [Threads -> {"idle"} \cup PopPoints \cup PushPoints]
      BY <1>14, <2>1, <3>3 DEF PopExchange, CompareExchange
    <3>6. bTop' \in [Threads -> [unique : Nat, node : Nodes \cup {NullNode},
                                 next : Nodes \cup {NullNode}]]
      BY <1>14 DEF PopExchange, CompareExchange
    <3> QED
      BY <1>14, <3>2, <3>4, <3>5, <3>6 DEF PopExchange, CompareExchange
  <2>2. CASE ~(topNode = bTop[t].node /\ topUnique = bTop[t].unique)
    BY <1>14, <2>2 DEF PopExchange, CompareExchange
  <2> QED
    BY <2>1, <2>2
<1>15. ASSUME NEW t \in Threads, PopReturn(t) PROVE Rest
  <2>1. /\ out' \in [Indexes -> Nat] /\ lUnique' \in [Threads -> Nat]
        /\ node' \in [Threads -> Nodes \cup {NullNode}]
    <3>1. data[node[t]] \in Indexes
      BY <1>15, Returning DEF PopReturn, Inductive
    <3>2. out' = [out EXCEPT ![data[node[t]]] = out[data[node[t]]] + 1]
      BY <1>15 DEF PopReturn
    <3>3. out' \in [Indexes -> Nat]
      BY <3>1, <3>2
    <3> QED
      BY <1>15, <3>3 DEF PopReturn
  <2>2. /\ inUse' \subseteq Nodes /\ served' \in Nat
        /\ pc' \in [Threads -> {"idle"} \cup PopPoints \cup PushPoints]
    BY <1>15 DEF PopReturn, Pool!Free
  <2> QED
    BY <1>15, <2>1, <2>2 DEF PopReturn
<1>16. CASE UNCHANGED vars
  BY <1>16 DEF vars
<1> QED
  BY <1>3, <1>4, <1>5, <1>6, <1>7, <1>8, <1>9, <1>10, <1>11, <1>12, <1>13, <1>14, <1>15,
     <1>16 DEF Next

(* A step of a thread that leaves the stack, the pool and every node in    *)
(* its place.                                                              *)
LEMMA PlacesKept ==
  ASSUME Inductive, NEW t \in Threads, NEW p, Goto(t, p),
         UNCHANGED <<inUse, list, node>>,
         pc[t] \in {"push_link", "push_exchange", "pop_return"} <=>
           p \in {"push_link", "push_exchange", "pop_return"}
  PROVE  Places'
<1>1. /\ pc'[t] = p /\ \A u \in Threads : u # t => pc'[u] = pc[u]
  BY DEF Inductive, TypeOK, Goto
<1>2. Contents' = Contents /\ Carried' = Carried
  BY DEF Contents, Carried
<1> QED
  BY <1>1, <1>2 DEF Inductive, Places

(* No step loses a node or puts one in two places.                         *)
LEMMA PlacesStep == Inductive /\ [Next]_vars => Places'
<1> SUFFICES ASSUME Inductive, [Next]_vars PROVE Places'
  OBVIOUS
<1> USE NodesAssumption
<1>1. /\ TypeOK /\ Places /\ pc \in [Threads -> {"idle"} \cup PopPoints \cup PushPoints]
      /\ node \in [Threads -> Nodes \cup {NullNode}] /\ inUse \subseteq Nodes
  BY DEF Inductive, TypeOK
<1>2. \A x : x \in Carried <=> x # NullNode /\ \E u \in Threads : node[u] = x
  BY DEF Carried
<1>3. \A x : x \in Carried' <=> x # NullNode /\ \E u \in Threads : node'[u] = x
  BY DEF Carried
<1>4. ASSUME NEW t \in Threads, NEW i \in Indexes, NEW n \in Nodes, PushAlloc(t, i, n)
      PROVE  Places'
  <2>1. /\ pc[t] = "idle" /\ pc'[t] = "push_link" /\ UNCHANGED list
        /\ n \notin inUse /\ inUse' = inUse \cup {n} /\ node'[t] = n
        /\ \A u \in Threads : u # t => pc'[u] = pc[u] /\ node'[u] = node[u]
    BY <1>1, <1>4 DEF PushAlloc, Pool!Alloc, Goto
  <2>2. node[t] = NullNode /\ Contents' = Contents
    BY <1>1, <2>1 DEF Places, Contents
  <2>3. Carried' = Carried \cup {n}
    BY <1>2, <1>3, <2>1, <2>2
  <2>4. n \notin Contents /\ \A u \in Threads : node[u] # n
    BY <1>1, <1>2, <2>1 DEF Places
  <2> QED
    BY <1>1, <2>1, <2>2, <2>3, <2>4 DEF Places
<1>5. ASSUME NEW t \in Threads, PushExchange(t) PROVE Places'
  <2>1. /\ pc[t] = "push_exchange" /\ UNCHANGED inUse
        /\ \A u \in Threads : u # t => pc'[u] = pc[u]
    BY <1>1, <1>5 DEF PushExchange, Goto, pool
  <2>2. CASE topNode = bTop[t].node
    <3>1. /\ pc'[t] = "push_count" /\ list' = Append(list, node[t])
          /\ node'[t] = NullNode
          /\ \A u \in Threads : u # t => node'[u] = node[u]
      BY <1>1, <1>5, <2>2 DEF PushExchange, Goto
    <3>2. node[t] \in Nodes /\ node[t] \notin Contents
      BY <1>1, <2>1, Pushing
    <3>3. Contents' = Contents \cup {node[t]}
      BY <1>1, <3>1, <3>2, ContentsPush
    <3>4. \A u \in Threads : u # t => node[u] # node[t]
      BY <1>1, <3>2 DEF Places
    <3>5. \A x : x \in Carried' <=> x \in Carried /\ x # node[t]
      BY <1>2, <1>3, <3>1, <3>4
    <3>6. inUse' = Contents' \cup Carried'
      BY <1>1, <1>2, <2>1, <3>2, <3>3, <3>5 DEF Places
    <3>7. \A j, k \in DOMAIN list' : list'[j] = list'[k] => j = k
      <4>1. /\ Len(list) \in Nat /\ DOMAIN list = 1 .. Len(list)
            /\ DOMAIN list' = 1 .. Len(list) + 1
            /\ \A j \in 1 .. Len(list) : list'[j] = list[j] /\ list[j] # node[t]
            /\ list'[Len(list) + 1] = node[t]
        BY <1>1, <3>1, <3>2, ListPush DEF Contents
      <4>2. \A j, k \in 1 .. Len(list) : list[j] = list[k] => j = k
        BY <1>1, <4>1 DEF Places
      <4> QED
        BY <4>1, <4>2
    <3>8. \A u \in Threads :
            /\ node'[u] # NullNode <=> pc'[u] \in {"push_link", "push_exchange", "pop_return"}
            /\ node'[u] \notin Contents'
            /\ \A v \in Threads : node'[u] = node'[v] /\ node'[u] # NullNode => u = v
      <4>1. NullNode \notin Contents
        BY <1>1 DEF Places
      <4> QED
        BY <1>1, <2>1, <3>1, <3>2, <3>3, <3>4, <4>1 DEF Places
    <3> QED
      BY <3>6, <3>7, <3>8 DEF Places
  <2>3. CASE topNode # bTop[t].node
    BY <1>5, <2>1, <2>3, PlacesKept DEF PushExchange, pool
  <2> QED
    BY <2>2, <2>3
<1>6. ASSUME NEW t \in Threads, PopExchange(t) PROVE Places'
  <2>1. /\ pc[t] = "pop_exchange" /\ UNCHANGED inUse
        /\ \A u \in Threads : u # t => pc'[u] = pc[u]
    BY <1>1, <1>6 DEF PopExchange, CompareExchange, Goto, pool
  <2>2. CASE topNode = bTop[t].node /\ topUnique = bTop[t].unique
    <3>1. /\ Goto(t, "pop_return") /\ topNode \in Nodes /\ topNode \in Contents
          /\ Len(list) \in Nat /\ Len(list) >= 1
          /\ node' = [node EXCEPT ![t] = topNode]
          /\ list' = SubSeq(list, 1, Len(list) - 1)
          /\ Contents' = Contents \ {topNode}
      BY <1>6, <2>2, Popped DEF Inductive
    <3>2. /\ pc'[t] = "pop_return" /\ node'[t] = topNode
          /\ \A u \in Threads : u # t => node'[u] = node[u]
      BY <1>1, <3>1 DEF Goto
    <3>3. node[t] = NullNode /\ \A u \in Threads : node[u] # topNode
      BY <1>1, <2>1, <3>1 DEF Places
    <3>4. \A x : x \in Carried' <=> x \in Carried \/ x = topNode
      BY <1>2, <1>3, <3>1, <3>2, <3>3
    <3>5. inUse' = Contents' \cup Carried'
      BY <1>1, <2>1, <3>1, <3>4 DEF Places
    <3>6. \A j, k \in DOMAIN list' : list'[j] = list'[k] => j = k
      <4>1. /\ DOMAIN list = 1 .. Len(list) /\ DOMAIN list' = 1 .. Len(list) - 1
            /\ \A j \in 1 .. Len(list) - 1 : list'[j] = list[j]
        BY <1>1, <3>1, ListPop
      <4>2. \A j, k \in 1 .. Len(list) : list[j] = list[k] => j = k
        BY <1>1, <4>1 DEF Places
      <4> QED
        BY <3>1, <4>1, <4>2
    <3>7. \A u \in Threads :
            /\ node'[u] # NullNode <=> pc'[u] \in {"push_link", "push_exchange", "pop_return"}
            /\ node'[u] \notin Contents'
            /\ \A v \in Threads : node'[u] = node'[v] /\ node'[u] # NullNode => u = v
      BY <1>1, <2>1, <3>1, <3>2, <3>3 DEF Places
    <3> QED
      BY <3>5, <3>6, <3>7 DEF Places
  <2>3. CASE ~(topNode = bTop[t].node /\ topUnique = bTop[t].unique)
    BY <1>6, <2>1, <2>3, PlacesKept DEF PopExchange, CompareExchange, pool
  <2> QED
    BY <2>2, <2>3
<1>7. ASSUME NEW t \in Threads, PopReturn(t) PROVE Places'
  <2>1. /\ pc[t] = "pop_return" /\ pc'[t] = "idle" /\ UNCHANGED list
        /\ inUse' = inUse \ {node[t]} /\ node'[t] = NullNode
        /\ \A u \in Threads : u # t => pc'[u] = pc[u] /\ node'[u] = node[u]
    BY <1>1, <1>7 DEF PopReturn, Pool!Free, Goto
  <2>2. /\ node[t] # NullNode /\ node[t] \notin Contents /\ Contents' = Contents
        /\ \A u \in Threads : u # t => node[u] # node[t]
    BY <1>1, <2>1 DEF Places, Contents
  <2>3. \A x : x \in Carried' <=> x \in Carried /\ x # node[t]
    BY <1>2, <1>3, <2>1, <2>2
  <2>4. inUse' = Contents' \cup Carried'
    BY <1>1, <2>1, <2>2, <2>3 DEF Places
  <2>5. NullNode \notin Contents
    BY <1>1 DEF Places
  <2> QED
    BY <1>1, <2>1, <2>2, <2>4, <2>5 DEF Places
<1>8. ASSUME NEW t \in Threads,
             \/ PushLink(t) \/ PushCount(t) \/ Pop(t) \/ PopUndo(t) \/ PopReserve(t)
             \/ PopReadUnique(t) \/ PopReadNode(t) \/ PopRecheck(t) \/ PopReadNext(t)
      PROVE  Places'
  <2>1. /\ UNCHANGED <<inUse, list, node>>
        /\ pc[t] \in {"push_link", "push_exchange", "pop_return"} <=> PushLink(t)
    BY <1>8 DEF PushLink, PushCount, Pop, PopDecrement, PopUndo, Undo, PopReserve,
                PopReadUnique, PopReadNode, PopRecheck, PopReadNext, pool, own, hist
  <2>2. PICK p : /\ Goto(t, p)
                 /\ p \in {"push_link", "push_exchange", "pop_return"} <=> PushLink(t)
    <3>1. CASE PushLink(t)
      BY <3>1 DEF PushLink
    <3>2. CASE ~PushLink(t)
      BY <1>8, <3>2 DEF PushCount, Pop, PopDecrement, PopUndo, Undo, PopReserve,
                PopReadUnique, PopReadNode, PopRecheck, PopReadNext
    <3> QED
      BY <3>1, <3>2
  <2> QED
    BY <2>1, <2>2, PlacesKept
<1>9. CASE UNCHANGED vars
  BY <1>1, <1>9 DEF vars, pool, own, hist, Places, Contents, Carried
<1> QED
  BY <1>4, <1>5, <1>6, <1>7, <1>8, <1>9 DEF Next


(* No index is lost or carried twice.                                      *)
LEMMA IndexOnceStep == Inductive /\ [Next]_vars => IndexOnce'
<1> SUFFICES ASSUME Inductive, [Next]_vars PROVE IndexOnce'
  OBVIOUS
<1>1. /\ TypeOK /\ Places /\ IndexOnce /\ inUse \subseteq Nodes
      /\ data \in [Nodes -> Indexes \cup {0}] /\ out \in [Indexes -> Nat]
  BY DEF Inductive, TypeOK
<1>2. ASSUME NEW t \in Threads, NEW i \in Indexes, NEW n \in Nodes, PushAlloc(t, i, n)
      PROVE  IndexOnce'
  <2>1. /\ n \notin inUse /\ inUse' = inUse \cup {n} /\ out[i] > 0
        /\ data'[n] = i /\ \A m \in Nodes : m # n => data'[m] = data[m]
        /\ out'[i] = out[i] - 1 /\ \A j \in Indexes : j # i => out'[j] = out[j]
    BY <1>1, <1>2 DEF PushAlloc, Pool!Alloc
  <2>2. out[i] = 1 /\ \A m \in inUse : data[m] # i
    BY <1>1, <2>1 DEF IndexOnce
  <2>3. \A m \in inUse : data'[m] = data[m]
    BY <1>1, <2>1
  <2>4. \A m \in inUse' : data'[m] \in Indexes
    BY <1>1, <2>1, <2>3 DEF IndexOnce
  <2>5. \A m, k \in inUse' : data'[m] = data'[k] => m = k
    BY <1>1, <2>1, <2>2, <2>3 DEF IndexOnce
  <2>6. ASSUME NEW j \in Indexes
        PROVE  out'[j] = IF \E m \in inUse' : data'[m] = j THEN 0 ELSE 1
    <3>1. CASE j = i
      <4>1. out'[j] = 0 /\ \E m \in inUse' : data'[m] = j
        BY <2>1, <2>2, <3>1
      <4> QED
        BY <4>1
    <3>2. CASE j # i
      <4>1. (\E m \in inUse' : data'[m] = j) <=> \E m \in inUse : data[m] = j
        BY <2>1, <2>3, <3>2
      <4> QED
        BY <1>1, <2>1, <3>2, <4>1 DEF IndexOnce
    <3> QED
      BY <3>1, <3>2
  <2> QED
    BY <2>4, <2>5, <2>6 DEF IndexOnce
<1>3. ASSUME NEW t \in Threads, PopReturn(t) PROVE IndexOnce'
  <2>1. node[t] \in inUse /\ data[node[t]] \in Indexes
    BY <1>1, <1>3, Returning DEF PopReturn
  <2>2. /\ UNCHANGED data /\ inUse' = inUse \ {node[t]}
        /\ out'[data[node[t]]] = out[data[node[t]]] + 1
        /\ \A j \in Indexes : j # data[node[t]] => out'[j] = out[j]
    BY <1>1, <1>3, <2>1 DEF PopReturn, Pool!Free, top
  <2>3. out[data[node[t]]] = 0
    BY <1>1, <2>1 DEF IndexOnce
  <2>4. /\ \A m \in inUse' : data'[m] \in Indexes
        /\ \A m, k \in inUse' : data'[m] = data'[k] => m = k
    BY <1>1, <2>2 DEF IndexOnce
  <2>5. ASSUME NEW j \in Indexes
        PROVE  out'[j] = IF \E m \in inUse' : data'[m] = j THEN 0 ELSE 1
    <3>1. CASE j = data[node[t]]
      <4>1. out'[j] = 1 /\ ~(\E m \in inUse' : data'[m] = j)
        BY <1>1, <2>1, <2>2, <2>3, <3>1 DEF IndexOnce
      <4> QED
        BY <4>1
    <3>2. CASE j # data[node[t]]
      <4>1. (\E m \in inUse' : data'[m] = j) <=> \E m \in inUse : data[m] = j
        BY <2>1, <2>2, <3>2
      <4> QED
        BY <1>1, <2>2, <3>2, <4>1 DEF IndexOnce
    <3> QED
      BY <3>1, <3>2
  <2> QED
    BY <2>4, <2>5 DEF IndexOnce
<1>4. ASSUME NEW t \in Threads,
             \/ PushLink(t) \/ PushExchange(t) \/ PushCount(t) \/ Pop(t) \/ PopUndo(t)
             \/ PopReserve(t) \/ PopReadUnique(t) \/ PopReadNode(t) \/ PopRecheck(t)
             \/ PopReadNext(t) \/ PopExchange(t)
      PROVE  IndexOnce'
  <2>1. UNCHANGED <<inUse, data, out>>
    BY <1>4 DEF PushLink, PushExchange, PushCount, Pop, PopDecrement, PopUndo, Undo,
                PopReserve, PopReadUnique, PopReadNode, PopRecheck, PopReadNext,
                PopExchange, CompareExchange, top, pool, hist
  <2> QED
    BY <1>1, <2>1 DEF IndexOnce
<1>5. CASE UNCHANGED vars
  BY <1>1, <1>5 DEF vars, top, pool, hist, IndexOnce
<1> QED
  BY <1>2, <1>3, <1>4, <1>5 DEF Next

(* The links spell out the history after every step.                       *)
LEMMA ListRepStep == Inductive /\ [Next]_vars => ListRep'
<1> SUFFICES ASSUME Inductive, [Next]_vars PROVE ListRep'
  OBVIOUS
<1> USE NodesAssumption
<1>1. /\ TypeOK /\ Places /\ ListRep /\ next \in [Nodes -> Nodes \cup {NullNode}]
      /\ Len(list) \in Nat /\ DOMAIN list = 1 .. Len(list) /\ list \in Seq(Nodes)
  BY LenProperties DEF Inductive, TypeOK
<1>2. \A i \in DOMAIN list : list[i] \in Nodes /\ list[i] \in Contents
  BY <1>1, ElementOfSeq DEF Contents
<1>3. ASSUME NEW t \in Threads, PushLink(t) PROVE ListRep'
  <2>1. /\ UNCHANGED <<topNode, list>> /\ next' = [next EXCEPT ![node[t]] = topNode]
        /\ pc[t] = "push_link"
    BY <1>3 DEF PushLink, hist
  <2>2. node[t] \notin Contents
    BY <1>1, <2>1 DEF Places
  <2>3. \A i \in DOMAIN list : next'[list[i]] = next[list[i]]
    BY <1>1, <1>2, <2>1, <2>2
  <2> QED
    BY <1>1, <2>1, <2>3 DEF ListRep
<1>4. ASSUME NEW t \in Threads, PushExchange(t) PROVE ListRep'
  <2>1. UNCHANGED next /\ pc[t] = "push_exchange"
    BY <1>4 DEF PushExchange
  <2>2. CASE topNode = bTop[t].node
    <3>1. topNode' = node[t] /\ list' = Append(list, node[t])
      BY <1>4, <2>2 DEF PushExchange
    <3>2. node[t] \in Nodes /\ next[node[t]] = topNode
      <4>1. next[node[t]] = bTop[t].node
        BY <2>1 DEF Inductive, Snapshot
      <4> QED
        BY <1>1, <2>1, <2>2, <4>1, Pushing
    <3>3. /\ list' \in Seq(Nodes) /\ Len(list') = Len(list) + 1
          /\ DOMAIN list' = 1 .. Len(list) + 1
          /\ \A i \in 1 .. Len(list) : list'[i] = list[i]
          /\ list'[Len(list) + 1] = node[t]
      BY <1>1, <3>1, <3>2, ListPush
    <3>4. list' # <<>> /\ topNode' = list'[Len(list')]
      BY <1>1, <3>1, <3>3, EmptySeq
    <3>5. topNode = IF Len(list) = 0 THEN NullNode ELSE list[Len(list)]
      BY <1>1, EmptySeq DEF ListRep
    <3>6. ASSUME NEW i \in DOMAIN list'
          PROVE  next'[list'[i]] = IF i = 1 THEN NullNode ELSE list'[i - 1]
      <4>1. CASE i = Len(list) + 1
        BY <1>1, <2>1, <3>2, <3>3, <3>5, <4>1
      <4>2. CASE i # Len(list) + 1
        <5>1. i \in DOMAIN list /\ list'[i] = list[i]
          BY <1>1, <3>3, <3>6, <4>2
        <5>2. i # 1 => list'[i - 1] = list[i - 1]
          BY <1>1, <3>3, <5>1
        <5> QED
          BY <1>1, <2>1, <5>1, <5>2 DEF ListRep
      <4> QED
        BY <4>1, <4>2
    <3> QED
      BY <3>4, <3>6 DEF ListRep
  <2>3. CASE topNode # bTop[t].node
    <3>1. UNCHANGED <<topNode, list>>
      BY <1>4, <2>3 DEF PushExchange
    <3> QED
      BY <1>1, <2>1, <3>1 DEF ListRep
  <2> QED
    BY <2>2, <2>3
<1>5. ASSUME NEW t \in Threads, PopExchange(t) PROVE ListRep'
  <2>1. UNCHANGED next
    BY <1>5 DEF PopExchange, CompareExchange
  <2>2. CASE topNode = bTop[t].node /\ topUnique = bTop[t].unique
    <3>1. /\ topNode' = next[topNode] /\ Len(list) >= 1 /\ topNode = list[Len(list)]
          /\ list' = SubSeq(list, 1, Len(list) - 1)
      <4>1. TypeOK /\ ListRep /\ Places /\ Snapshot
        BY DEF Inductive
      <4> QED
        BY <1>5, <2>2, <4>1, Popped
    <3>2. /\ list' \in Seq(Nodes) /\ Len(list') = Len(list) - 1
          /\ DOMAIN list' = 1 .. Len(list) - 1
          /\ \A i \in 1 .. Len(list) - 1 : list'[i] = list[i]
      BY <1>1, <3>1, ListPop
    <3>3. next[topNode] = IF Len(list) = 1 THEN NullNode ELSE list[Len(list) - 1]
      <4>1. Len(list) \in DOMAIN list
        BY <1>1, <3>1
      <4> QED
        BY <1>1, <3>1, <4>1 DEF ListRep
    <3>4. list' = <<>> <=> Len(list) = 1
      BY <1>1, <3>2, EmptySeq
    <3>5. topNode' = IF list' = <<>> THEN NullNode ELSE list'[Len(list')]
      BY <1>1, <3>1, <3>2, <3>3, <3>4
    <3>6. ASSUME NEW i \in DOMAIN list'
          PROVE  next'[list'[i]] = IF i = 1 THEN NullNode ELSE list'[i - 1]
      <4>1. i \in DOMAIN list /\ list'[i] = list[i]
        BY <1>1, <3>2, <3>6
      <4>2. i # 1 => list'[i - 1] = list[i - 1]
        BY <1>1, <3>2, <3>6
      <4> QED
        BY <1>1, <2>1, <4>1, <4>2 DEF ListRep
    <3> QED
      BY <3>5, <3>6 DEF ListRep
  <2>3. CASE ~(topNode = bTop[t].node /\ topUnique = bTop[t].unique)
    <3>1. UNCHANGED <<topNode, list>>
      BY <1>5, <2>3 DEF PopExchange, CompareExchange
    <3> QED
      BY <1>1, <2>1, <3>1 DEF ListRep
  <2> QED
    BY <2>2, <2>3
<1>6. ASSUME NEW t \in Threads,
             \/ \E i \in Indexes, n \in Nodes : PushAlloc(t, i, n)
             \/ PushCount(t) \/ Pop(t) \/ PopUndo(t) \/ PopReserve(t) \/ PopReadUnique(t)
             \/ PopReadNode(t) \/ PopRecheck(t) \/ PopReadNext(t) \/ PopReturn(t)
      PROVE  ListRep'
  <2>1. UNCHANGED <<topNode, next, list>>
    BY <1>6 DEF PushAlloc, PushCount, Pop, PopDecrement, PopUndo, Undo, PopReserve,
                PopReadUnique, PopReadNode, PopRecheck, PopReadNext, PopReturn, top, hist
  <2> QED
    BY <1>1, <2>1 DEF ListRep
<1>7. CASE UNCHANGED vars
  BY <1>1, <1>7 DEF vars, top, hist, ListRep
<1> QED
  BY <1>3, <1>4, <1>5, <1>6, <1>7 DEF Next


(* The number a pop reserves is fresh, and stays off the top and out of    *)
(* every copy of the top until its own exchange installs it.               *)
LEMMA UniqueStep == Inductive /\ [Next]_vars => Unique'
<1> SUFFICES ASSUME Inductive, [Next]_vars PROVE Unique'
  OBVIOUS
<1>1. /\ TypeOK /\ Unique /\ topUnique \in Nat /\ uniqueCount \in Nat
      /\ pc \in [Threads -> {"idle"} \cup PopPoints \cup PushPoints]
      /\ lUnique \in [Threads -> Nat]
      /\ bTop \in [Threads -> [unique : Nat, node : Nodes \cup {NullNode},
                               next : Nodes \cup {NullNode}]]
      /\ \A u \in Threads : bTop[u].unique \in Nat
  BY DEF Inductive, TypeOK
<1>2. \A u \in Threads :
        u \in Reserved <=> pc[u] \in Snapshots \cup {"pop_unique"}
  BY DEF Reserved, Within, Snapshots, PopPoints
<1>3. \A u :
        u \in Reserved' <=> u \in Threads /\ pc'[u] \in Snapshots \cup {"pop_unique"}
  BY DEF Reserved, Within, Snapshots, PopPoints
<1>4. ASSUME UNCHANGED <<topUnique, uniqueCount, lUnique>>,
             \A u \in Threads : bTop'[u].unique \in {bTop[u].unique, 0},
             \A u \in Threads : pc'[u] \in Snapshots =>
               pc[u] \in Snapshots /\ bTop'[u].unique = bTop[u].unique,
             \A u \in Threads : u \in Reserved' => u \in Reserved
      PROVE  Unique'
  <2>1. topUnique' <= uniqueCount' /\ \A u \in Threads : bTop'[u].unique <= uniqueCount'
    BY <1>1, <1>4 DEF Unique
  <2> QED
    BY <1>1, <1>3, <1>4, <2>1 DEF Unique
<1>5. ASSUME NEW t \in Threads,
             \/ \E i \in Indexes, n \in Nodes : PushAlloc(t, i, n)
             \/ PushLink(t) \/ PushExchange(t) \/ PushCount(t) \/ Pop(t) \/ PopUndo(t)
      PROVE  Unique'
  <2>1. /\ UNCHANGED <<topUnique, uniqueCount, lUnique>>
        /\ pc[t] \notin Snapshots \cup {"pop_unique"}
    BY <1>5 DEF PushAlloc, PushLink, PushExchange, PushCount, Pop, PopDecrement, PopUndo,
                Undo, top, size, own, Snapshots
  <2>2. /\ pc'[t] \notin Snapshots \cup {"pop_unique"}
        /\ \A u \in Threads : u # t => pc'[u] = pc[u]
    BY <1>1, <1>5 DEF PushAlloc, PushLink, PushExchange, PushCount, Pop, PopDecrement,
                      PopUndo, Undo, Goto, Snapshots
  <2>3. /\ bTop'[t].unique \in {bTop[t].unique, 0}
        /\ \A u \in Threads : u # t => bTop'[u] = bTop[u]
    <3>1. CASE PushLink(t)
      BY <1>1, <3>1 DEF PushLink
    <3>2. CASE PushExchange(t)
      BY <1>1, <3>2 DEF PushExchange, NoCopy
    <3>3. CASE ~PushLink(t) /\ ~PushExchange(t)
      <4>1. UNCHANGED bTop
        BY <1>5, <3>3 DEF PushAlloc, PushCount, Pop, PopDecrement, PopUndo, Undo, own
      <4> QED
        BY <4>1
    <3> QED
      BY <3>1, <3>2, <3>3
  <2>4. \A u \in Threads : u \in Reserved' => u \in Reserved
    BY <1>2, <1>3, <2>1, <2>2
  <2> QED
    BY <1>4, <2>1, <2>2, <2>3, <2>4
<1>6. ASSUME NEW t \in Threads, PopReserve(t) PROVE Unique'
  <2>1. /\ uniqueCount' = uniqueCount + 1 /\ UNCHANGED <<topUnique, bTop>>
        /\ lUnique'[t] = uniqueCount + 1
        /\ \A u \in Threads : u # t => lUnique'[u] = lUnique[u]
    BY <1>1, <1>6 DEF PopReserve, top
  <2>2. \A u \in Threads : /\ pc'[u] \in Snapshots => pc[u] \in Snapshots
                           /\ u # t => (u \in Reserved' <=> u \in Reserved)
    BY <1>1, <1>2, <1>3, <1>6 DEF PopReserve, Goto, Snapshots
  <2>3. /\ topUnique <= uniqueCount
        /\ \A u \in Threads : bTop[u].unique <= uniqueCount
        /\ \A u \in Reserved : lUnique[u] <= uniqueCount
    BY <1>1 DEF Unique
  <2>4. topUnique' <= uniqueCount' /\ \A u \in Threads : bTop'[u].unique <= uniqueCount'
    BY <1>1, <2>1, <2>3
  <2>5. ASSUME NEW u \in Reserved'
        PROVE  /\ lUnique'[u] <= uniqueCount' /\ lUnique'[u] # topUnique'
               /\ \A v \in Threads : pc'[v] \in Snapshots => bTop'[v].unique # lUnique'[u]
               /\ \A v \in Reserved' : lUnique'[v] = lUnique'[u] => v = u
    <3>1. u \in Threads /\ \A v \in Reserved' : v \in Threads
      BY <1>3, <2>5
    <3>2. CASE u = t
      BY <1>1, <2>1, <2>2, <2>3, <3>1, <3>2
    <3>3. CASE u # t
      <4>1. u \in Reserved /\ lUnique'[u] = lUnique[u] /\ lUnique[u] \in Nat
        BY <1>1, <2>1, <2>2, <2>5, <3>1, <3>3
      <4>2. lUnique'[u] <= uniqueCount' /\ lUnique'[u] # topUnique'
        BY <1>1, <2>1, <2>3, <4>1 DEF Unique
      <4>3. \A v \in Threads : pc'[v] \in Snapshots => bTop'[v].unique # lUnique'[u]
        BY <1>1, <2>1, <2>2, <4>1 DEF Unique
      <4>4. \A v \in Reserved' : lUnique'[v] = lUnique'[u] => v = u
        BY <1>1, <2>1, <2>2, <2>3, <3>1, <4>1 DEF Unique
      <4> QED
        BY <4>2, <4>3, <4>4
    <3> QED
      BY <3>2, <3>3
  <2> QED
    BY <2>4, <2>5 DEF Unique
<1>7. ASSUME NEW t \in Threads, PopReadUnique(t) PROVE Unique'
  <2>1. /\ UNCHANGED <<topUnique, uniqueCount, lUnique>>
        /\ bTop'[t].unique = topUnique
        /\ \A u \in Threads : u # t => bTop'[u] = bTop[u]
    BY <1>1, <1>7 DEF PopReadUnique, top, size
  <2>2. \A u \in Threads : /\ u # t => (pc'[u] \in Snapshots <=> pc[u] \in Snapshots)
                           /\ u \in Reserved' <=> u \in Reserved
    BY <1>1, <1>2, <1>3, <1>7 DEF PopReadUnique, Goto, Snapshots
  <2>3. topUnique' <= uniqueCount' /\ \A u \in Threads : bTop'[u].unique <= uniqueCount'
    BY <1>1, <2>1 DEF Unique
  <2> QED
    BY <1>1, <1>3, <2>1, <2>2, <2>3 DEF Unique
<1>8. ASSUME NEW t \in Threads,
             PopReadNode(t) \/ PopRecheck(t) \/ PopReadNext(t)
      PROVE  Unique'
  <2>1. UNCHANGED <<topUnique, uniqueCount, lUnique>>
    BY <1>8 DEF PopReadNode, PopRecheck, PopReadNext, top, size, own
  <2>2. \A u \in Threads : bTop'[u].unique = bTop[u].unique
    <3>1. CASE PopRecheck(t)
      BY <3>1 DEF PopRecheck, own
    <3>2. CASE PopReadNode(t)
      BY <1>1, <3>2 DEF PopReadNode
    <3>3. CASE PopReadNext(t)
      BY <1>1, <3>3 DEF PopReadNext
    <3> QED
      BY <1>8, <3>1, <3>2, <3>3
  <2>3. \A u \in Threads : /\ pc'[u] \in Snapshots => pc[u] \in Snapshots
                           /\ u \in Reserved' <=> u \in Reserved
    BY <1>1, <1>2, <1>3, <1>8 DEF PopReadNode, PopRecheck, PopReadNext, Goto, Snapshots
  <2> QED
    BY <1>4, <2>1, <2>2, <2>3
<1>9. ASSUME NEW t \in Threads, PopExchange(t) PROVE Unique'
  <2>1. /\ UNCHANGED <<uniqueCount, lUnique>> /\ bTop'[t].unique = 0 /\ t \in Reserved
        /\ \A u \in Threads : u # t => bTop'[u] = bTop[u]
    BY <1>1, <1>2, <1>9 DEF PopExchange, CompareExchange, size, NoCopy, Snapshots
  <2>2. pc'[t] \notin Snapshots
    BY <1>1, <1>9 DEF PopExchange, CompareExchange, Goto, Snapshots
  <2>3. \A u \in Threads : u # t => /\ pc'[u] = pc[u]
                                    /\ u \in Reserved' <=> u \in Reserved
    BY <1>1, <1>2, <1>3, <1>9 DEF PopExchange, CompareExchange, Goto
  <2>4. CASE topNode = bTop[t].node /\ topUnique = bTop[t].unique
    <3>1. topUnique' = lUnique[t] /\ t \notin Reserved'
      BY <1>1, <1>3, <1>9, <2>4 DEF PopExchange, CompareExchange, Goto, Snapshots
    <3>2. /\ topUnique' <= uniqueCount'
          /\ \A u \in Threads : bTop'[u].unique <= uniqueCount'
      BY <1>1, <2>1, <3>1 DEF Unique
    <3>3. \A u \in Reserved' : u \in Threads /\ u # t /\ u \in Reserved
      BY <1>3, <2>3, <3>1
    <3>4. \A u \in Reserved' : lUnique[u] # topUnique'
      BY <1>1, <2>1, <3>1, <3>3 DEF Unique
    <3> QED
      BY <1>1, <2>1, <2>2, <2>3, <3>2, <3>3, <3>4 DEF Unique
  <2>5. CASE ~(topNode = bTop[t].node /\ topUnique = bTop[t].unique)
    <3>1. UNCHANGED topUnique
      BY <1>9, <2>5 DEF PopExchange, CompareExchange
    <3> QED
      BY <1>4, <2>1, <2>2, <2>3, <3>1
  <2> QED
    BY <2>4, <2>5
<1>10. ASSUME NEW t \in Threads, PopReturn(t) PROVE Unique'
  <2>1. /\ UNCHANGED <<topUnique, uniqueCount, bTop>> /\ lUnique'[t] = 0
        /\ \A u \in Threads : u # t => lUnique'[u] = lUnique[u]
    BY <1>1, <1>10 DEF PopReturn, top, size
  <2>2. t \notin Reserved' /\ pc'[t] \notin Snapshots
    BY <1>1, <1>3, <1>10 DEF PopReturn, Goto, Snapshots
  <2>3. \A u \in Threads : u # t => /\ pc'[u] = pc[u]
                                    /\ u \in Reserved' <=> u \in Reserved
    BY <1>1, <1>2, <1>3, <1>10 DEF PopReturn, Goto
  <2>4. topUnique' <= uniqueCount' /\ \A u \in Threads : bTop'[u].unique <= uniqueCount'
    BY <1>1, <2>1 DEF Unique
  <2>5. \A u \in Reserved' : u \in Threads /\ u # t /\ u \in Reserved
    BY <1>3, <2>2, <2>3
  <2> QED
    BY <1>1, <2>1, <2>2, <2>3, <2>4, <2>5 DEF Unique
<1>11. CASE UNCHANGED vars
  <2>1. UNCHANGED <<topUnique, uniqueCount, bTop, lUnique, pc>>
    BY <1>11 DEF vars, top, size, own
  <2>2. \A u \in Threads : u \in Reserved' => u \in Reserved
    BY <1>2, <1>3, <2>1
  <2> QED
    BY <1>4, <2>1, <2>2
<1> QED
  BY <1>5, <1>6, <1>7, <1>8, <1>9, <1>10, <1>11 DEF Next


(* A pop that no earlier one has met an empty stack before finds a node.   *)
LEMMA PopFinds ==
  ASSUME Inductive, NEW t \in Threads, t \in Waiting, ~undone
  PROVE  topNode # NullNode
<1>1. /\ Len(list) \in Nat /\ list \in Seq(Nodes) /\ useSize \in Int
      /\ DOMAIN list = 1 .. Len(list)
  BY LenProperties DEF Inductive, TypeOK
<1>2. /\ IsFiniteSet(Waiting) /\ Cardinality(Waiting) \in Nat
      /\ IsFiniteSet(Uncounted) /\ Cardinality(Uncounted) \in Nat
  BY ThreadsAssumption, FS_Subset, FS_CardinalityType DEF Waiting, Uncounted, Within
<1>3. Cardinality(Waiting) # 0
  BY <1>2, FS_EmptySet
<1>4. Len(list) >= 1
  BY <1>1, <1>2, <1>3 DEF Inductive, Sizes
<1>5. list # <<>> /\ Len(list) \in DOMAIN list
  BY <1>1, <1>4, EmptySeq
<1>6. list[Len(list)] \in Nodes
  BY <1>1, <1>5, ElementOfSeq
<1> QED
  BY <1>5, <1>6, NodesAssumption DEF Inductive, ListRep

(* What a thread has read stays true as long as the number on the top is   *)
(* the one it has read with it.                                            *)
LEMMA SnapshotStep == Inductive /\ [Next]_vars => Snapshot'
<1> SUFFICES ASSUME Inductive, [Next]_vars PROVE Snapshot'
  OBVIOUS
<1> DEFINE Reading == {"pop_recheck", "pop_next", "pop_exchange"}
           Good(u) == /\ pc[u] \in Reading =>
                           /\ bTop[u].node = NullNode => undone /\ pc[u] # "pop_exchange"
                           /\ bTop[u].unique = topUnique =>
                                bTop[u].node \in Contents \cup {NullNode}
                      /\ pc[u] = "pop_exchange" /\ bTop[u].unique = topUnique =>
                           bTop[u].next = next[bTop[u].node]
                      /\ pc[u] = "push_exchange" => next[node[u]] = bTop[u].node
<1>1. /\ TypeOK /\ Places /\ ListRep
      /\ pc \in [Threads -> {"idle"} \cup PopPoints \cup PushPoints]
      /\ next \in [Nodes -> Nodes \cup {NullNode}]
      /\ node \in [Threads -> Nodes \cup {NullNode}]
      /\ bTop \in [Threads -> [unique : Nat, node : Nodes \cup {NullNode},
                               next : Nodes \cup {NullNode}]]
  BY DEF Inductive, TypeOK
<1>2. \A u \in Threads : Good(u)
  BY DEF Inductive, Snapshot
<1>3. ASSUME \A u \in Threads : Good(u)' PROVE Snapshot'
  BY <1>3 DEF Snapshot
<1>4. undone => undone'
  BY DEF vars, Next, PushAlloc, PushLink, PushExchange, PushCount, Pop, PopDecrement,
         PopUndo, Undo, PopReserve, PopReadUnique, PopReadNode, PopRecheck, PopReadNext,
         PopExchange, CompareExchange, PopReturn, hist
<1>5. ASSUME NEW t \in Threads, Good(t)', UNCHANGED <<topUnique, next>>,
             \A u \in Threads : u # t =>
               pc'[u] = pc[u] /\ bTop'[u] = bTop[u] /\ node'[u] = node[u],
             Contents \subseteq Contents'
      PROVE  Snapshot'
  <2>1. ASSUME NEW u \in Threads, u # t PROVE Good(u)'
    BY <1>2, <1>4, <1>5, <2>1
  <2> QED
    BY <1>3, <1>5, <2>1
<1>6. ASSUME NEW t \in Threads,
             \/ \E i \in Indexes, n \in Nodes : PushAlloc(t, i, n)
             \/ PushCount(t) \/ Pop(t) \/ PopUndo(t) \/ PopReserve(t)
             \/ PopReadUnique(t) \/ PopReturn(t)
      PROVE  Snapshot'
  <2>1. /\ UNCHANGED <<topUnique, next, list>>
        /\ pc'[t] \notin Reading \cup {"push_exchange"}
        /\ \A u \in Threads : u # t => pc'[u] = pc[u]
    BY <1>1, <1>6 DEF PushAlloc, PushCount, Pop, PopDecrement, PopUndo, Undo, PopReserve,
                      PopReadUnique, PopReturn, Goto, top, hist
  <2>2. \A u \in Threads : u # t => bTop'[u] = bTop[u] /\ node'[u] = node[u]
    BY <1>1, <1>6 DEF PushAlloc, PushCount, Pop, PopDecrement, PopUndo, Undo, PopReserve,
                      PopReadUnique, PopReturn, own
  <2>3. Good(t)'
    BY <2>1
  <2> QED
    BY <1>5, <2>1, <2>2, <2>3 DEF Contents
<1>7. ASSUME NEW t \in Threads, PushLink(t) PROVE Snapshot'
  <2>1. /\ UNCHANGED <<topUnique, list, node>> /\ bTop'[t].node = topNode
        /\ pc[t] = "push_link" /\ pc'[t] = "push_exchange"
        /\ \A u \in Threads : u # t => pc'[u] = pc[u] /\ bTop'[u] = bTop[u]
        /\ next' = [next EXCEPT ![node[t]] = topNode]
    BY <1>1, <1>7 DEF PushLink, Goto, hist
  <2>2. node[t] \in Nodes /\ node[t] \notin Contents
    BY <1>1, <2>1, Pushing
  <2>3. Contents' = Contents /\ Contents \subseteq Nodes
    BY <1>1, <2>1, ElementOfSeq DEF Contents, TypeOK
  <2>4. \A u \in Threads : u # t /\ pc[u] = "push_exchange" =>
          node[u] # node[t] /\ node[u] \in Nodes
    BY <1>1, Pushing DEF Places
  <2>5. /\ next'[node[t]] = topNode
        /\ \A x \in Nodes : x # node[t] => next'[x] = next[x]
    BY <1>1, <2>1, <2>2
  <2>6. Good(t)'
    BY <2>1, <2>5
  <2>7. ASSUME NEW u \in Threads, u # t PROVE Good(u)'
    <3>1. CASE pc[u] \in Reading
      <4>1. bTop[u].unique = topUnique /\ pc[u] = "pop_exchange" =>
              bTop[u].node \in Nodes /\ bTop[u].node # node[t]
        BY <1>2, <2>2, <2>3, <3>1
      <4> QED
        BY <1>2, <1>4, <2>1, <2>3, <2>5, <2>7, <3>1, <4>1
    <3>2. CASE pc[u] \notin Reading
      BY <1>2, <2>1, <2>4, <2>5, <2>7, <3>2
    <3> QED
      BY <3>1, <3>2
  <2> QED
    BY <1>3, <2>6, <2>7
<1>8. ASSUME NEW t \in Threads, PushExchange(t) PROVE Snapshot'
  <2>1. /\ UNCHANGED <<topUnique, next>>
        /\ pc[t] = "push_exchange" /\ pc'[t] \in {"push_count", "push_link"}
        /\ \A u \in Threads : u # t =>
             pc'[u] = pc[u] /\ bTop'[u] = bTop[u] /\ node'[u] = node[u]
    BY <1>1, <1>8 DEF PushExchange, Goto
  <2>2. Contents \subseteq Contents'
    <3>1. CASE topNode = bTop[t].node
      BY <1>1, <1>8, <2>1, <3>1, Pushing, ContentsPush DEF PushExchange
    <3>2. CASE topNode # bTop[t].node
      BY <1>8, <3>2 DEF PushExchange, Contents
    <3> QED
      BY <3>1, <3>2
  <2>3. Good(t)'
    BY <2>1
  <2> QED
    BY <1>5, <2>1, <2>2, <2>3
<1>9. ASSUME NEW t \in Threads, PopReadNode(t) PROVE Snapshot'
  <2>1. /\ UNCHANGED <<topUnique, next, list, node, undone>>
        /\ pc[t] = "pop_node" /\ pc'[t] = "pop_recheck" /\ bTop'[t].node = topNode
        /\ \A u \in Threads : u # t => pc'[u] = pc[u] /\ bTop'[u] = bTop[u]
    BY <1>1, <1>9 DEF PopReadNode, Goto, top, hist
  <2>2. topNode = NullNode => undone
    BY <2>1, PopFinds DEF Waiting, Within, PopPoints
  <2>3. topNode \in Contents \cup {NullNode} /\ Contents' = Contents
    BY <1>1, <2>1, TopOfStack DEF Contents
  <2>4. Good(t)'
    BY <2>1, <2>2, <2>3
  <2> QED
    BY <1>5, <2>1, <2>3, <2>4
<1>10. ASSUME NEW t \in Threads, PopRecheck(t) PROVE Snapshot'
  <2>1. /\ UNCHANGED <<topUnique, next, list, node, bTop, undone>>
        /\ pc[t] = "pop_recheck" /\ pc'[t] \in {"pop_next", "pop_unique"}
        /\ \A u \in Threads : u # t => pc'[u] = pc[u]
    BY <1>1, <1>10 DEF PopRecheck, Goto, top, own, hist
  <2>2. Contents' = Contents
    BY <2>1 DEF Contents
  <2>3. Good(t)'
    BY <1>2, <2>1, <2>2
  <2> QED
    BY <1>5, <2>1, <2>2, <2>3
<1>11. ASSUME NEW t \in Threads, PopReadNext(t) PROVE Snapshot'
  <2>1. /\ UNCHANGED <<topUnique, next, list, node, undone>>
        /\ pc[t] = "pop_next" /\ pc'[t] = "pop_exchange" /\ bTop[t].node # NullNode
        /\ bTop'[t].next = next[bTop[t].node] /\ bTop'[t].node = bTop[t].node
        /\ bTop'[t].unique = bTop[t].unique
        /\ \A u \in Threads : u # t => pc'[u] = pc[u] /\ bTop'[u] = bTop[u]
    BY <1>1, <1>11 DEF PopReadNext, Goto, top, hist
  <2>2. Contents' = Contents
    BY <2>1 DEF Contents
  <2>3. Good(t)'
    BY <1>2, <2>1, <2>2
  <2> QED
    BY <1>5, <2>1, <2>2, <2>3
<1>12. ASSUME NEW t \in Threads, PopExchange(t) PROVE Snapshot'
  <2>1. /\ UNCHANGED next
        /\ pc[t] = "pop_exchange" /\ pc'[t] \in {"pop_return", "pop_unique"}
        /\ \A u \in Threads : u # t =>
             pc'[u] = pc[u] /\ bTop'[u] = bTop[u] /\ node'[u] = node[u]
    BY <1>1, <1>12 DEF PopExchange, CompareExchange, Goto
  <2>2. Good(t)'
    BY <2>1
  <2>3. CASE topNode = bTop[t].node /\ topUnique = bTop[t].unique
    <3>1. topUnique' = lUnique[t] /\ t \in Reserved
      BY <1>12, <2>3 DEF PopExchange, CompareExchange, Reserved, Within, PopPoints
    <3>2. \A u \in Threads : pc[u] \in Snapshots => bTop[u].unique # topUnique'
      BY <3>1 DEF Inductive, Unique
    <3>3. ASSUME NEW u \in Threads, u # t PROVE Good(u)'
      BY <1>2, <1>4, <2>1, <3>2, <3>3 DEF Snapshots
    <3> QED
      BY <1>3, <2>2, <3>3
  <2>4. CASE ~(topNode = bTop[t].node /\ topUnique = bTop[t].unique)
    <3>1. UNCHANGED <<topUnique, list>>
      BY <1>12, <2>4 DEF PopExchange, CompareExchange
    <3> QED
      BY <1>5, <2>1, <2>2, <3>1 DEF Contents
  <2> QED
    BY <2>3, <2>4
<1>13. CASE UNCHANGED vars
  <2>1. \A u \in Threads : Good(u)'
    BY <1>2, <1>13 DEF vars, top, own, hist, Contents
  <2> QED
    BY <1>3, <2>1
<1> QED
  BY <1>6, <1>7, <1>8, <1>9, <1>10, <1>11, <1>12, <1>13 DEF Next


-----------------------------------------------------------------------------
(* The stack's whole invariant: for any number of threads and indexes.     *)
THEOREM InductiveInvariant == Spec => []Inductive
<1>1. Inductive /\ [Next]_vars => Inductive'
  BY TypeStep, SizesStep, PlacesStep, IndexOnceStep, ListRepStep, UniqueStep, SnapshotStep
  DEF Inductive
<1> QED
  BY InitInductive, <1>1, PTL DEF Spec

(* Every variable keeps its type, and _UseSize is below zero by no more    *)
(* than the pops that are about to take their decrement back.              *)
THEOREM TypeCorrect == Spec => []TypeOK
<1>1. Inductive => TypeOK
  BY DEF Inductive
<1> QED
  BY InductiveInvariant, <1>1, PTL

(* The links of LockFreeStack.h always spell out what the stack should     *)
(* contain: the exchange at LockFreeStack.h:388 meets no ABA.              *)
THEOREM StackNeverCorrupt == Spec => []ListRep
<1>1. Inductive => ListRep
  BY DEF Inductive
<1> QED
  BY InductiveInvariant, <1>1, PTL

(* However many threads release sessions and whatever pops overtake each   *)
(* other, no index is lost and none is given to two sessions.              *)
THEOREM IndexesExclusive == Spec => []IndexExclusive
<1>1. Inductive => IndexExclusive
  <2> SUFFICES ASSUME Inductive PROVE IndexExclusive
    OBVIOUS
  <2>1. inUse = Contents \cup Carried
    BY DEF Inductive, Places
  <2>2. ASSUME NEW i \in Indexes
        PROVE  out[i] + Cardinality({n \in Contents \cup Carried : data[n] = i}) = 1
    <3> DEFINE Carriers == {n \in Contents \cup Carried : data[n] = i}
    <3>1. CASE \E n \in inUse : data[n] = i
      <4>1. PICK n \in inUse : data[n] = i
        BY <3>1
      <4>2. Carriers = {n} /\ out[i] = 0
        BY <2>1, <4>1 DEF Inductive, IndexOnce
      <4>3. Cardinality(Carriers) = 1
        BY <4>2, FS_Singleton
      <4> QED
        BY <4>2, <4>3
    <3>2. CASE ~(\E n \in inUse : data[n] = i)
      <4>1. Carriers = {} /\ out[i] = 1
        BY <2>1, <3>2 DEF Inductive, IndexOnce
      <4> QED
        BY <4>1, FS_EmptySet
    <3> QED
      BY <3>1, <3>2
  <2> QED
    BY <2>1, <2>2 DEF IndexExclusive
<1> QED
  BY InductiveInvariant, <1>1, PTL

(* A pop that reports an empty stack has left nothing on it that no other  *)
(* call is about to count or to take.                                      *)
THEOREM RefusalsJustified == Spec => []RefusedWhenFull
<1>1. Inductive => RefusedWhenFull
  <2> SUFFICES ASSUME Inductive, NEW t \in Threads, pc[t] = "pop_undo", useSize + 1 <= 0
               PROVE  Len(list) <= Cardinality(Uncounted) + Cardinality(Waiting \ {t})
    BY DEF RefusedWhenFull, Uncounted, Waiting
  <2>1. /\ IsFiniteSet(Waiting) /\ Cardinality(Waiting) \in Nat /\ t \in Waiting
        /\ Cardinality(Uncounted) \in Nat
    BY ThreadsAssumption, FS_Subset, FS_CardinalityType
    DEF Waiting, Uncounted, Within, PopPoints
  <2>2. Cardinality(Waiting \ {t}) = Cardinality(Waiting) - 1
    BY <2>1, FS_RemoveElement
  <2>3. /\ Len(list) <= useSize + Cardinality(Uncounted) + Cardinality(Waiting)
        /\ useSize \in Int /\ Len(list) \in Nat
    BY LenProperties DEF Inductive, Sizes, TypeOK
  <2> QED
    BY <2>1, <2>2, <2>3
<1> QED
  BY InductiveInvariant, <1>1, PTL

(* The dereference at LockFreeStack.h:392 is safe until a pop has found    *)
(* the stack empty.                                                        *)
THEOREM SafeUntilEmpty == Spec => []SafeBelowCapacity
<1>1. Inductive => SafeBelowCapacity
  BY DEF Inductive, Snapshot, SafeBelowCapacity, NoNullDereference
<1> QED
  BY InductiveInvariant, <1>1, PTL
=============================================================================
