--------------------------- MODULE LockFreeQProofs ---------------------------
(***************************************************************************)
(* Proofs about CLockFreeQ with one producer, as the server uses it: the   *)
(* tail never falls behind by more than one node and is never left behind  *)
(* by the head, Dequeue finds what _UseSize promises, and messages come    *)
(* out in the order they went in.  For any number of nodes and calls.      *)
(***************************************************************************)
EXTENDS LockFreeQ, SequenceTheorems, FiniteSetTheorems, TLAPS

USE DEF At

(* UpdateThread is the only thread that sends.                             *)
OneProducer == \A t, u \in Producers : t = u

-----------------------------------------------------------------------------
(* The inductive invariant.                                                *)

(* Each thread is inside the call that is its own.                         *)
Roles ==
  /\ \A t \in Producers : pc[t] \in {"idle"} \cup EnqPoints \cup HelpPoints
  /\ pc[Consumer] \in {"idle"} \cup DeqPoints \cup HelpPoints

Distinct == \A i, j \in DOMAIN list : list[i] = list[j] => i = j

(* A producer has its node until it is linked, the consumer the old dummy  *)
(* until it is given back, and neither is in the queue.                    *)
BuildPoints ==
  HelpPoints \cup {"enq_fill", "enq_number", "enq_unique", "enq_node", "enq_next", "enq_link"}
Carrying(t) == IF t = Consumer THEN pc[t] = "deq_free" ELSE pc[t] \in BuildPoints
Carriers ==
  /\ \A t \in Threads : node[t] # NullNode <=> Carrying(t)
  /\ \A t \in Threads : node[t] \notin Contents
  /\ \A t \in Producers : node[t] # NullNode => node[t] # node[Consumer]
Built ==
  \A t \in Producers : node[t] # NullNode =>
    /\ data[node[t]] \in Values
    /\ pc[t] # "enq_fill" => next[node[t]] = NullNode

(* A copy of the tail is of a node in the queue, or of one that has left   *)
(* it and still shows its successor: nobody but the thread itself could    *)
(* have the node handed out again.  While the copy is of the last node the *)
(* tail is there as well.                                                  *)
LastNode == list[Len(list)]
CopyPoints == {"enq_next", "enq_link", "deq_next"}
TailCopy(t) ==
  /\ pc[t] \in CopyPoints \cup HelpPoints =>
       /\ bTail[t].node \in Nodes
       /\ bTail[t].node \in Contents \/ next[bTail[t].node] # NullNode
       /\ bTail[t].node # node[t]
  /\ pc[t] \in CopyPoints => (bTail[t].node = LastNode => tail.node = LastNode)
  /\ pc[t] \in HelpPoints => next[bTail[t].node] # NullNode
  /\ pc[t] = "help_move" => bNext[t] = next[bTail[t].node]
  /\ pc[t] \in {"enq_read", "enq_move"} =>
       Len(list) > 1 /\ bTail[t].node = list[Len(list) - 1]
  /\ pc[t] = "enq_move" => bNext[t] = LastNode
TailCopies == \A t \in Threads : TailCopy(t)

(* The consumer has seen the tail at the last node, so it is not at the    *)
(* dummy that leaves.  Its copies of the head are right at all times, and  *)
(* its exchange always succeeds.                                           *)
MovePoints == {"head_data", "head_read", "head_move"}
HeadPoints == {"head_unique", "head_node", "head_next"} \cup MovePoints
HeadCopies ==
  LET c == Consumer IN
    /\ pc[c] \in {"deq_next"} \cup HelpPoints => bTail[c].node \in Contents
    /\ pc[c] \in HeadPoints => tail.node # head.node
    /\ pc[c] \in HeadPoints \ {"head_unique"} => bHead[c].unique = head.unique
    /\ pc[c] \in HeadPoints \ {"head_unique", "head_node"} => bHead[c].node = head.node
    /\ pc[c] \in MovePoints => bNext[c] = list[2]
    /\ pc[c] \in {"head_read", "head_move"} => bData[c] = data[list[2]]

Structure == Distinct /\ QueueRep /\ SizeCovered
Books     == NodesAccounted /\ Carriers /\ Built
Inductive == TypeOK /\ enqs \in Nat /\ Roles /\ Structure /\ Books /\ TailCopies /\ HeadCopies

-----------------------------------------------------------------------------
(* What the list of the queue looks like.                                  *)
LEMMA ListFacts ==
  ASSUME TypeOK, Structure
  PROVE  /\ Len(list) \in Nat \ {0} /\ DOMAIN list = 1 .. Len(list)
         /\ \A i \in 1 .. Len(list) : list[i] \in Nodes /\ list[i] \in Contents
         /\ \A n \in Contents : n \in Nodes /\ \E i \in 1 .. Len(list) : n = list[i]
         /\ head.node = list[1] /\ tail.node \in Contents /\ LastNode \in Contents
<1>1. list \in Seq(Nodes) /\ list # <<>>
  BY DEF TypeOK, Structure, QueueRep, AddedIsQueued
<1>2. Len(list) \in Nat \ {0} /\ DOMAIN list = 1 .. Len(list)
  BY <1>1, EmptySeq, LenProperties
<1>3. \A i \in 1 .. Len(list) : list[i] \in Nodes /\ list[i] \in Contents
  BY <1>1, <1>2, ElementOfSeq DEF Contents
<1>4. \A n \in Contents : n \in Nodes /\ \E i \in 1 .. Len(list) : n = list[i]
  BY <1>2, <1>3 DEF Contents
<1>5. LastNode \in Contents
  BY <1>2, <1>3 DEF LastNode
<1>6. CASE tail.node = list[Len(list)]
  BY <1>2, <1>3, <1>4, <1>5, <1>6 DEF Structure, QueueRep, AddedIsQueued
<1>7. CASE Len(list) > 1 /\ tail.node = list[Len(list) - 1]
  <2>1. Len(list) - 1 \in 1 .. Len(list)
    BY <1>2, <1>7
  <2> QED
    BY <1>2, <1>3, <1>4, <1>5, <1>7, <2>1 DEF Structure, QueueRep, AddedIsQueued
<1> QED
  BY <1>6, <1>7 DEF Structure, QueueRep

(* In the queue only the last node has nothing behind it.                  *)
LEMMA NextFacts ==
  ASSUME TypeOK, Structure
  PROVE  /\ next[LastNode] = NullNode
         /\ \A n \in Contents : next[n] = NullNode <=> n = LastNode
         /\ \A n \in Contents : next[n] # NullNode => next[n] \in Contents /\ next[n] # list[1]
         /\ next[tail.node] # NullNode => next[tail.node] = LastNode
         /\ Len(list) > 1 => LastNode # list[1]
<1>1. /\ Len(list) \in Nat \ {0} /\ DOMAIN list = 1 .. Len(list)
      /\ \A i \in 1 .. Len(list) : list[i] \in Nodes /\ list[i] \in Contents
      /\ \A n \in Contents : \E i \in 1 .. Len(list) : n = list[i]
  BY ListFacts
<1>2. /\ next[LastNode] = NullNode
      /\ \A i \in 1 .. Len(list) - 1 : next[list[i]] = list[i + 1]
  BY DEF Structure, QueueRep, AddedIsQueued, LastNode
<1>3. \A i \in 1 .. Len(list) : list[i] # NullNode
  BY <1>1, NodesAssumption
<1>4. \A i, j \in 1 .. Len(list) : list[i] = list[j] => i = j
  BY <1>1 DEF Structure, Distinct
<1>5. ASSUME NEW n \in Contents, n # LastNode
      PROVE  next[n] # NullNode /\ next[n] \in Contents /\ next[n] # list[1]
  <2>1. PICK i \in 1 .. Len(list) : n = list[i]
    BY <1>1
  <2>2. i \in 1 .. Len(list) - 1 /\ i + 1 \in 1 .. Len(list) /\ 1 \in 1 .. Len(list)
        /\ i + 1 # 1
    BY <1>1, <1>5, <2>1 DEF LastNode
  <2>3. next[n] = list[i + 1]
    BY <1>2, <2>1, <2>2
  <2> QED
    BY <1>1, <1>3, <1>4, <2>2, <2>3
<1>6. next[tail.node] # NullNode => next[tail.node] = LastNode
  <2>1. CASE tail.node = list[Len(list)]
    BY <1>2, <2>1 DEF LastNode
  <2>2. CASE Len(list) > 1 /\ tail.node = list[Len(list) - 1]
    <3>1. Len(list) - 1 \in 1 .. Len(list) - 1 /\ (Len(list) - 1) + 1 = Len(list)
      BY <1>1, <2>2
    <3> QED
      BY <1>2, <2>2, <3>1 DEF LastNode
  <2> QED
    BY <2>1, <2>2 DEF Structure, QueueRep
<1>7. Len(list) > 1 => LastNode # list[1]
  <2>1. Len(list) > 1 => Len(list) \in 1 .. Len(list) /\ 1 \in 1 .. Len(list) /\ Len(list) # 1
    BY <1>1
  <2> QED
    BY <1>4, <2>1 DEF LastNode
<1> QED
  BY <1>2, <1>5, <1>6, <1>7

(* The threads whose node is linked and not counted: one at most.          *)
LEMMA AtMostOne ==
  ASSUME OneProducer, NEW S \in SUBSET Producers
  PROVE  Cardinality(S) = IF S = {} THEN 0 ELSE 1
<1>1. CASE S = {}
  BY <1>1, FS_EmptySet
<1>2. CASE S # {}
  <2>1. PICK t \in S : TRUE
    BY <1>2
  <2>2. S = {t}
    BY <2>1 DEF OneProducer
  <2> QED
    BY <1>2, <2>2, FS_Singleton
<1> QED
  BY <1>1, <1>2

(* How many they are.                                                      *)
LEMMA LinkedCount ==
  ASSUME OneProducer
  PROVE  /\ Cardinality(Linked) = IF Linked = {} THEN 0 ELSE 1
         /\ Cardinality(Linked') = IF Linked' = {} THEN 0 ELSE 1
<1>1. Linked \in SUBSET Producers /\ Linked' \in SUBSET Producers
  BY DEF Linked
<1> QED
  BY <1>1, AtMostOne

(* While a dequeue is under way there is something behind the dummy, and   *)
(* one node more when a producer has linked its own.                       *)
LEMMA SizeFacts ==
  ASSUME OneProducer, TypeOK, Structure
  PROVE  /\ pc[Consumer] \notin {"idle", "deq_free"} => Len(list) >= 2
         /\ pc[Consumer] \notin {"idle", "deq_free"}
              /\ (\E t \in Producers : pc[t] \in {"enq_read", "enq_move", "enq_count"}) =>
                Len(list) >= 3
<1>1. Len(list) \in Nat \ {0} /\ useSize \in Nat
  BY ListFacts DEF TypeOK
<1> QED
  BY <1>1, LinkedCount DEF Structure, SizeCovered, Linked

-----------------------------------------------------------------------------
(* The constructor leaves a dummy and nothing behind it.                   *)
LEMMA InitInductive == Init => Inductive
<1> SUFFICES ASSUME Init PROVE Inductive
  OBVIOUS
<1>1. PICK n \in Nodes : head = [node |-> n, unique |-> 0] /\ inUse = {n} /\ list = <<n>>
  BY DEF Init
<1>2. tail = [node |-> n, unique |-> 0] /\ head.node = n /\ tail.node = n
  BY <1>1 DEF Init
<1>3. /\ list \in Seq(Nodes) /\ Len(list) = 1 /\ DOMAIN list = {1} /\ list[1] = n
      /\ list # <<>>
  BY <1>1
<1>4. Contents = {n}
  BY <1>3 DEF Contents
<1>5. TypeOK
  BY <1>1, <1>2, <1>3 DEF Init, TypeOK, NoCopy
<1>6. Structure
  <2>1. Linked = {}
    BY DEF Init, Linked, Threads
  <2>2. Cardinality(Linked) = 0
    BY <2>1, FS_EmptySet
  <2>3. pc[Consumer] = "idle" /\ useSize = 0
    BY DEF Init, Threads
  <2>4. SizeCovered
    BY <1>3, <2>2, <2>3 DEF SizeCovered
  <2>5. AddedIsQueued /\ next[n] = NullNode
    BY <1>2, <1>3 DEF Init, AddedIsQueued
  <2> QED
    BY <1>2, <1>3, <2>4, <2>5 DEF Structure, Distinct, QueueRep
<1>7. \A t \in Threads : node[t] = NullNode /\ pc[t] = "idle"
  BY DEF Init
<1>8. Books
  <2>1. Carried = {}
    BY <1>7 DEF Carried
  <2>2. NodesAccounted
    BY <1>1, <1>4, <2>1 DEF NodesAccounted
  <2> QED
    BY <1>4, <1>7, <2>2, NodesAssumption
       DEF Books, Carriers, Built, Carrying, BuildPoints, HelpPoints, Threads
<1>9. Roles /\ TailCopies /\ HeadCopies
  BY <1>7 DEF Roles, TailCopies, TailCopy, HeadCopies, CopyPoints, HelpPoints, HeadPoints,
              MovePoints, Threads
<1> QED
  BY <1>5, <1>6, <1>8, <1>9 DEF Init, Inductive

-----------------------------------------------------------------------------
(* The places the steps read from are nodes.                               *)
LEMMA Reads ==
  ASSUME Inductive, NEW t \in Threads
  PROVE  /\ Threads = Producers \cup {Consumer} /\ Consumer \notin Producers
         /\ pc[t] \in CopyPoints \cup HelpPoints \cup {"enq_read", "enq_move"} =>
              bTail[t].node \in Nodes /\ bTail[t].node # NullNode
         /\ t = Consumer /\ pc[t] \in HeadPoints \ {"head_unique", "head_node"} =>
              bHead[t].node = list[1] /\ bHead[t].node \in Nodes
         /\ t # Consumer => pc[t] \in {"idle"} \cup EnqPoints \cup HelpPoints
         /\ t = Consumer => pc[t] \in {"idle"} \cup DeqPoints \cup HelpPoints
<1>1. Threads = Producers \cup {Consumer} /\ Consumer \notin Producers
  BY ThreadsAssumption DEF Threads
<1>2. /\ Len(list) \in Nat \ {0} /\ \A i \in 1 .. Len(list) : list[i] \in Nodes
      /\ head.node = list[1]
  BY ListFacts DEF Inductive
<1>3. 1 \in 1 .. Len(list) /\ (Len(list) > 1 => Len(list) - 1 \in 1 .. Len(list))
  BY <1>2
<1>4. TailCopy(t)
  BY DEF Inductive, TailCopies
<1>5. pc[t] \in CopyPoints \cup HelpPoints \cup {"enq_read", "enq_move"} =>
        bTail[t].node \in Nodes /\ bTail[t].node # NullNode
  BY <1>2, <1>3, <1>4, NodesAssumption DEF TailCopy
<1>6. t = Consumer /\ pc[t] \in HeadPoints \ {"head_unique", "head_node"} =>
        bHead[t].node = list[1] /\ bHead[t].node \in Nodes
  BY <1>2, <1>3 DEF Inductive, HeadCopies
<1> QED
  BY <1>1, <1>5, <1>6 DEF Inductive, Roles

(* The exchange of the head only happens as it should.                     *)
LEMMA HeadReady ==
  ASSUME OneProducer, Inductive, NEW t \in Threads, HeadExchange(t)
  PROVE  /\ t = Consumer /\ pc[t] = "head_move"
         /\ Len(list) \in Nat /\ Len(list) >= 2 /\ list[2] \in Nodes /\ list # <<>>
         /\ bHead[t] = head /\ head.node = list[1]
         /\ bNext[t] = list[2] /\ bData[t] = data[list[2]]
         /\ head' = [node |-> list[2], unique |-> lHead[t]]
         /\ got' = Append(got, data[list[2]])
         /\ list' = Tail(list)
         /\ node' = [node EXCEPT ![t] = list[1]]
         /\ Goto(t, "deq_free")
<1>1. pc[t] = "head_move"
  BY DEF HeadExchange
<1>2. t = Consumer
  BY <1>1, Reads DEF EnqPoints, HelpPoints
<1>3. /\ bHead[t].unique = head.unique /\ bHead[t].node = head.node
      /\ bNext[t] = list[2] /\ bData[t] = data[list[2]]
  BY <1>1, <1>2 DEF Inductive, HeadCopies, HeadPoints, MovePoints
<1>4. bHead[t] = head
  <2>1. /\ bHead[t] \in [node : Nodes \cup {NullNode}, unique : Nat]
        /\ head \in [node : Nodes \cup {NullNode}, unique : Nat]
    BY DEF Inductive, TypeOK
  <2> QED
    BY <1>3, <2>1
<1>5. Len(list) >= 2
  BY <1>1, <1>2, SizeFacts DEF Inductive
<1>6. /\ Len(list) \in Nat \ {0} /\ \A i \in 1 .. Len(list) : list[i] \in Nodes
      /\ head.node = list[1]
  BY ListFacts DEF Inductive
<1>7. 2 \in 1 .. Len(list) /\ list # <<>>
  BY <1>5, <1>6 DEF Inductive, Structure, QueueRep, AddedIsQueued
<1> QED
  BY <1>1, <1>2, <1>3, <1>4, <1>5, <1>6, <1>7 DEF HeadExchange

(* The exchange of pNextNode: the copy is of the last node, and the tail   *)
(* is there.                                                               *)
LEMMA LinkReady ==
  ASSUME OneProducer, Inductive, NEW t \in Threads, EnqueueLink(t),
         next[bTail[t].node] = NullNode
  PROVE  /\ t \in Producers /\ pc[t] = "enq_link" /\ Goto(t, "enq_read")
         /\ bTail[t].node = LastNode /\ tail.node = LastNode
         /\ node[t] \in Nodes /\ node[t] \notin Contents /\ next[node[t]] = NullNode
         /\ data[node[t]] \in Values
         /\ next' = [next EXCEPT ![LastNode] = node[t]]
         /\ list' = Append(list, node[t])
         /\ node' = [node EXCEPT ![t] = NullNode] /\ bTail' = bTail
<1>1. /\ pc[t] = "enq_link" /\ Goto(t, "enq_read") /\ bTail' = bTail
      /\ next' = [next EXCEPT ![bTail[t].node] = node[t]]
      /\ list' = Append(list, node[t])
      /\ node' = [node EXCEPT ![t] = NullNode]
  BY DEF EnqueueLink, LinkIf
<1>2. t \in Producers
  BY <1>1, Reads DEF DeqPoints, HelpPoints
<1>3. TailCopy(t)
  BY DEF Inductive, TailCopies
<1>4. bTail[t].node \in Contents
  BY <1>1, <1>3 DEF TailCopy, CopyPoints
<1>5. bTail[t].node = LastNode
  BY <1>4, NextFacts DEF Inductive
<1>6. tail.node = LastNode
  BY <1>1, <1>3, <1>5 DEF TailCopy, CopyPoints
<1>7. node[t] # NullNode /\ node[t] \notin Contents
  BY <1>1, <1>2, Reads DEF Inductive, Books, Carriers, Carrying, BuildPoints
<1>8. node[t] \in Nodes
  BY <1>7 DEF Inductive, TypeOK
<1>9. data[node[t]] \in Values /\ next[node[t]] = NullNode
  BY <1>1, <1>2, <1>7 DEF Inductive, Books, Built
<1> QED
  BY <1>1, <1>2, <1>5, <1>6, <1>7, <1>8, <1>9

(* An exchange of the tail that succeeds moves it to the last node.        *)
LEMMA MoveReady ==
  ASSUME Inductive, NEW t \in Threads, TailExchange(t), tail = bTail[t]
  PROVE  tail' = [node |-> LastNode, unique |-> lTail[t]]
<1>1. /\ pc[t] \in {"help_move", "enq_move"}
      /\ tail' = [node |-> bNext[t], unique |-> lTail[t]]
  BY DEF TailExchange, MoveTail
<1>2. TailCopy(t)
  BY DEF Inductive, TailCopies
<1>3. CASE pc[t] = "help_move"
  <2>1. bNext[t] = next[tail.node] /\ next[tail.node] # NullNode
    BY <1>2, <1>3 DEF TailCopy, HelpPoints
  <2> QED
    BY <1>1, <2>1, NextFacts DEF Inductive
<1>4. CASE pc[t] = "enq_move"
  BY <1>1, <1>2, <1>4 DEF TailCopy
<1> QED
  BY <1>1, <1>3, <1>4

-----------------------------------------------------------------------------
(* Types.                                                                  *)
LEMMA TypeStep ==
  ASSUME OneProducer, Inductive, [Next]_vars
  PROVE  TypeOK' /\ (enqs \in Nat)'
<1> USE DEF Goto
<1>1. TypeOK /\ enqs \in Nat
  BY DEF Inductive
<1>2. ASSUME NEW t \in Threads, ReadTailUnique(t) PROVE TypeOK' /\ (enqs \in Nat)'
  <2>1. tail.unique \in Nat
    BY <1>1 DEF TypeOK
  <2> QED
    BY <1>1, <1>2, <2>1
       DEF ReadTailUnique, TypeOK, EnqPoints, DeqPoints, ends, nums, mem, pool, lnums, hist
<1>3. ASSUME NEW t \in Threads, ReadTailNode(t) PROVE TypeOK' /\ (enqs \in Nat)'
  BY <1>1, <1>3
     DEF ReadTailNode, TypeOK, EnqPoints, DeqPoints, ends, nums, mem, pool, lnums, hist
<1>4. ASSUME NEW t \in Threads, ReadTailNext(t) PROVE TypeOK' /\ (enqs \in Nat)'
  BY <1>1, <1>4
     DEF ReadTailNext, TypeOK, EnqPoints, DeqPoints, HelpPoints, ends, nums, mem, pool, bks,
         lnums, hist
<1>5. ASSUME NEW t \in Threads, HelpNumber(t) PROVE TypeOK' /\ (enqs \in Nat)'
  BY <1>1, <1>5 DEF HelpNumber, TypeOK, HelpPoints, ends, mem, pool, bks, hist
<1>6. ASSUME NEW t \in Threads, ReadAgain(t) PROVE TypeOK' /\ (enqs \in Nat)'
  <2>1. bTail[t].node \in Nodes
    BY <1>6, Reads DEF ReadAgain, HelpPoints
  <2> QED
    BY <1>1, <1>6, <2>1
       DEF ReadAgain, TypeOK, EnqPoints, HelpPoints, ends, nums, mem, pool, lnums, hist
<1>7. ASSUME NEW t \in Threads, TailExchange(t) PROVE TypeOK' /\ (enqs \in Nat)'
  <2>1. tail' \in [node : Nodes \cup {NullNode}, unique : Nat]
    BY <1>1, <1>7 DEF TailExchange, MoveTail, TypeOK
  <2> QED
    BY <1>1, <1>7, <2>1
       DEF TailExchange, MoveTail, NoCopy, TypeOK, EnqPoints, DeqPoints, nums, mem, pool,
           lnums, hist
<1>8. ASSUME NEW t \in Threads, NEW n \in Nodes, Enqueue(t, n)
      PROVE  TypeOK' /\ (enqs \in Nat)'
  <2>1. enqs + 1 \in Values
    BY <1>1, <1>8, BoundsAssumption DEF Enqueue, Values
  <2> QED
    BY <1>1, <1>8, <2>1 DEF Enqueue, Pool!Alloc, TypeOK, EnqPoints, ends, nums, bks, lnums
<1>9. ASSUME NEW t \in Threads, EnqueueFill(t) PROVE TypeOK' /\ (enqs \in Nat)'
  BY <1>1, <1>9 DEF EnqueueFill, TypeOK, EnqPoints, ends, nums, pool, bks, lnums, hist
<1>10. ASSUME NEW t \in Threads, EnqueueNumber(t) PROVE TypeOK' /\ (enqs \in Nat)'
  BY <1>1, <1>10 DEF EnqueueNumber, TypeOK, EnqPoints, ends, mem, pool, bks, hist
<1>11. ASSUME NEW t \in Threads, EnqueueLink(t) PROVE TypeOK' /\ (enqs \in Nat)'
  <2>1. CASE next[bTail[t].node] = NullNode
    <3>1. node[t] \in Nodes /\ Append(list, node[t]) \in Seq(Nodes)
      BY <1>1, <1>11, <2>1, LinkReady, AppendProperties DEF TypeOK
    <3> QED
      BY <1>1, <1>11, <2>1, <3>1
         DEF EnqueueLink, LinkIf, TypeOK, EnqPoints, ends, nums, pool, lnums
  <2>2. CASE next[bTail[t].node] # NullNode
    <3>1. /\ pc' = [pc EXCEPT ![t] = "enq_unique"]
          /\ bTail' = [bTail EXCEPT ![t] = NoCopy]
          /\ UNCHANGED <<next, list, node, ends, nums, data, useSize, pool, bNext, bHead, bData,
                         lnums, enqs>>
      BY <1>11, <2>2 DEF EnqueueLink, LinkIf
    <3> QED
      BY <1>1, <3>1 DEF NoCopy, TypeOK, EnqPoints, ends, nums, pool, lnums
  <2> QED
    BY <2>1, <2>2
<1>12. ASSUME NEW t \in Threads, EnqueueCount(t) PROVE TypeOK' /\ (enqs \in Nat)'
  BY <1>1, <1>12 DEF EnqueueCount, Count, TypeOK, ends, nums, mem, pool, bks, hist
<1>13. ASSUME NEW t \in Threads, Dequeue(t) PROVE TypeOK' /\ (enqs \in Nat)'
  BY <1>1, <1>13 DEF Dequeue, Decrement, TypeOK, DeqPoints, ends, nums, mem, pool, bks, lnums,
                     hist
<1>14. ASSUME NEW t \in Threads, DequeueNumber(t) PROVE TypeOK' /\ (enqs \in Nat)'
  BY <1>1, <1>14 DEF DequeueNumber, TypeOK, DeqPoints, ends, mem, pool, bks, hist
<1>15. ASSUME NEW t \in Threads, ReadHeadUnique(t) \/ ReadHeadNode(t)
       PROVE  TypeOK' /\ (enqs \in Nat)'
  <2>1. head.unique \in Nat /\ head.node \in Nodes \cup {NullNode}
    BY <1>1 DEF TypeOK
  <2>2. CASE ReadHeadUnique(t)
    BY <1>1, <2>1, <2>2
       DEF ReadHeadUnique, TypeOK, DeqPoints, ends, nums, mem, pool, lnums, hist
  <2>3. CASE ReadHeadNode(t)
    BY <1>1, <2>1, <2>3
       DEF ReadHeadNode, TypeOK, DeqPoints, ends, nums, mem, pool, lnums, hist
  <2> QED
    BY <1>15, <2>2, <2>3
<1>16. ASSUME NEW t \in Threads, ReadHeadNext(t) \/ ReadHeadAgain(t)
       PROVE  TypeOK' /\ (enqs \in Nat)'
  <2>1. pc[t] \in {"head_next", "head_read"}
    BY <1>16 DEF ReadHeadNext, ReadHeadAgain
  <2>2. t = Consumer
    BY <2>1, Reads DEF EnqPoints, HelpPoints
  <2>3. bHead[t].node \in Nodes
    BY <2>1, <2>2, Reads DEF HeadPoints, MovePoints
  <2> QED
    BY <1>1, <1>16, <2>3, ZenonT(30)
       DEF ReadHeadNext, ReadHeadAgain, TypeOK, DeqPoints, ends, nums, mem, pool, lnums, hist
<1>17. ASSUME NEW t \in Threads, ReadHeadData(t) PROVE TypeOK' /\ (enqs \in Nat)'
  <2>1. pc[t] = "head_data"
    BY <1>17 DEF ReadHeadData, CopyData
  <2>2. t = Consumer
    BY <2>1, Reads DEF EnqPoints, HelpPoints
  <2>3. Len(list) >= 2 /\ Len(list) \in Nat /\ \A i \in 1 .. Len(list) : list[i] \in Nodes
    BY <2>1, <2>2, SizeFacts, ListFacts DEF Inductive
  <2>4. 2 \in 1 .. Len(list)
    BY <2>3
  <2>5. bNext[t] \in Nodes
    BY <2>1, <2>2, <2>3, <2>4 DEF Inductive, HeadCopies, MovePoints
  <2> QED
    BY <1>1, <1>17, <2>5
       DEF ReadHeadData, CopyData, TypeOK, DeqPoints, ends, nums, mem, pool, lnums, hist
<1>18. ASSUME NEW t \in Threads, HeadExchange(t) PROVE TypeOK' /\ (enqs \in Nat)'
  <2>1. /\ list # <<>> /\ list' = Tail(list) /\ list[2] \in Nodes
        /\ head' = [node |-> list[2], unique |-> lHead[t]]
        /\ node' = [node EXCEPT ![t] = list[1]] /\ list[1] \in Nodes \cup {NullNode}
    BY <1>1, <1>18, HeadReady DEF TypeOK
  <2>2. list' \in Seq(Nodes)
    BY <1>1, <2>1, HeadTailProperties DEF TypeOK
  <2> QED
    BY <1>1, <1>18, <2>1, <2>2
       DEF HeadExchange, NoCopy, TypeOK, DeqPoints, nums, mem, pool, lnums
<1>19. ASSUME NEW t \in Threads, DequeueFree(t) PROVE TypeOK' /\ (enqs \in Nat)'
  BY <1>1, <1>19 DEF DequeueFree, Release, Pool!Free, TypeOK, ends, nums, mem, bks, hist
<1>20. ASSUME Clear PROVE TypeOK' /\ (enqs \in Nat)'
  <2>1. head.node \in Nodes
    BY ListFacts DEF Inductive
  <2>2. <<head.node>> \in Seq(Nodes)
    BY <2>1
  <2> QED
    BY <1>1, <1>20, <2>1, <2>2 DEF Clear, TypeOK, bks, lnums
<1>21. ASSUME UNCHANGED vars PROVE TypeOK' /\ (enqs \in Nat)'
  BY <1>1, <1>21 DEF TypeOK, vars, ends, nums, mem, pool, bks, lnums, hist
<1> QED
  BY <1>2, <1>3, <1>4, <1>5, <1>6, <1>7, <1>8, <1>9, <1>10, <1>11, <1>12, <1>13, <1>14, <1>15,
     <1>16, <1>17, <1>18, <1>19, <1>20, <1>21
     DEF Next, Step, EnqueueStep, DequeueStep, TailStep

-----------------------------------------------------------------------------
(* Steps that leave the queue alone, but for the tail.                     *)
LinkedPoints == {"enq_read", "enq_move", "enq_count"}
RestPoints   == {"idle", "deq_free"}
Same(u) ==
  /\ pc'[u] = pc[u]
  /\ bTail'[u] = bTail[u] /\ bNext'[u] = bNext[u] /\ bHead'[u] = bHead[u] /\ bData'[u] = bData[u]
Calm(t) ==
  /\ UNCHANGED <<list, next, data, inUse, head, node>>
  /\ \A u \in Threads : u # t => Same(u)
  /\ pc[t] # "enq_fill"
  /\ Carrying(t) <=> Carrying(t)'
  /\ tail' = tail \/ tail'.node = LastNode
Quiet(t) ==
  /\ Calm(t) /\ useSize' = useSize
  /\ pc[t] \in LinkedPoints <=> pc'[t] \in LinkedPoints
  /\ pc[t] \in RestPoints <=> pc'[t] \in RestPoints

(* Such a step only has to answer for the thread that takes it.            *)
LEMMA CalmParts ==
  ASSUME OneProducer, Inductive, NEW t \in Threads, Calm(t)
  PROVE  /\ Distinct' /\ QueueRep' /\ Books'
         /\ \A u \in Threads : u # t => TailCopy(u)'
         /\ t # Consumer => HeadCopies'
<1>1. /\ Contents' = Contents /\ LastNode' = LastNode /\ Carried' = Carried
      /\ list' = list /\ next' = next /\ data' = data /\ head' = head /\ node' = node
  BY DEF Calm, Contents, LastNode, Carried
<1>2. Distinct' /\ QueueRep'
  <2>1. Distinct' /\ AddedIsQueued'
    BY <1>1 DEF Inductive, Structure, Distinct, QueueRep, AddedIsQueued
  <2> QED
    BY <1>1, <2>1 DEF Inductive, Structure, QueueRep, Calm, LastNode
<1>3. Books'
  <2>1. ASSUME NEW u \in Threads PROVE Carrying(u)' <=> Carrying(u)
    BY DEF Calm, Same, Carrying
  <2>2. ASSUME NEW u \in Threads PROVE pc'[u] # "enq_fill" /\ node[u] # NullNode => pc[u] # "enq_fill"
    BY DEF Calm, Same
  <2>3. NodesAccounted'
    BY <1>1 DEF Inductive, Books, NodesAccounted, Calm
  <2>4. Carriers'
    BY <1>1, <2>1 DEF Inductive, Books, Carriers
  <2>5. Built'
    BY <1>1, <2>2 DEF Inductive, Books, Built, Threads
  <2> QED
    BY <2>3, <2>4, <2>5 DEF Books
<1>4. ASSUME NEW u \in Threads, u # t PROVE TailCopy(u)'
  <2>1. Same(u) /\ TailCopy(u)
    BY <1>4 DEF Calm, Inductive, TailCopies
  <2> QED
    BY <1>1, <2>1 DEF TailCopy, Same, Calm
<1>5. ASSUME t # Consumer PROVE HeadCopies'
  <2>1. Same(Consumer) /\ HeadCopies
    BY <1>5 DEF Calm, Inductive, Threads
  <2>2. pc[Consumer] \in HeadPoints => tail'.node # head.node
    <3>1. pc[Consumer] \in HeadPoints => tail.node # head.node
      BY <2>1 DEF HeadCopies
    <3>2. pc[Consumer] \in HeadPoints => LastNode # head.node
      <4>1. pc[Consumer] \in HeadPoints => Len(list) >= 2
        BY SizeFacts DEF Inductive, HeadPoints, MovePoints
      <4>2. head.node = list[1] /\ Len(list) \in Nat \ {0}
        BY ListFacts DEF Inductive
      <4> QED
        BY <4>1, <4>2, NextFacts DEF Inductive
    <3> QED
      BY <3>1, <3>2 DEF Calm
  <2> QED
    BY <1>1, <2>1, <2>2 DEF HeadCopies, Same
<1> QED
  BY <1>2, <1>3, <1>4, <1>5

(* The copies of the thread itself.                                        *)
LEMMA CalmStep ==
  ASSUME OneProducer, Inductive, NEW t \in Threads, Calm(t), SizeCovered', TailCopy(t)',
         t = Consumer => HeadCopies'
  PROVE  Structure' /\ Books' /\ TailCopies' /\ HeadCopies'
  BY CalmParts DEF TailCopies, Structure

(* A step inside a call that counts nothing.                               *)
LEMMA QuietStep ==
  ASSUME OneProducer, Inductive, NEW t \in Threads, Quiet(t), TailCopy(t)',
         t = Consumer => HeadCopies'
  PROVE  Structure' /\ Books' /\ TailCopies' /\ HeadCopies'
<1>1. Calm(t) /\ list' = list /\ useSize' = useSize
  BY DEF Quiet, Calm
<1>2. Linked' = Linked
  <2>1. ASSUME NEW u \in Producers PROVE pc'[u] \in LinkedPoints <=> pc[u] \in LinkedPoints
    BY DEF Quiet, Calm, Same, Threads
  <2> QED
    BY <2>1 DEF Linked, LinkedPoints
<1>3. pc'[Consumer] \in RestPoints <=> pc[Consumer] \in RestPoints
  BY DEF Quiet, Calm, Same, Threads
<1>4. SizeCovered'
  BY <1>1, <1>2, <1>3 DEF Inductive, Structure, SizeCovered, RestPoints
<1> QED
  BY <1>1, <1>4, CalmStep

-----------------------------------------------------------------------------
(* Reading the tail, in the loops of both calls.                           *)
LEMMA ReadTailStep ==
  ASSUME OneProducer, Inductive, NEW t \in Threads,
         ReadTailUnique(t) \/ ReadTailNode(t) \/ ReadTailNext(t)
  PROVE  Roles' /\ Structure' /\ Books' /\ TailCopies' /\ HeadCopies'
<1> USE DEF Goto
<1>1. /\ TypeOK /\ Roles /\ TailCopy(t) /\ HeadCopies /\ Carriers
      /\ t \in Threads \ {Consumer} => t \in Producers
  BY Reads DEF Inductive, Books, TailCopies
<1>2. /\ tail.node \in Contents /\ tail.node \in Nodes
      /\ LastNode # NullNode /\ next[LastNode] = NullNode
      /\ \A n \in Contents : next[n] = NullNode <=> n = LastNode
  BY ListFacts, NextFacts, NodesAssumption DEF Inductive
<1>3. UNCHANGED <<list, next, data, useSize, inUse, head, tail, node>>
  BY DEF ReadTailUnique, ReadTailNode, ReadTailNext, ends, nums, mem, pool, bks, lnums, hist
<1>4. \A u \in Threads : u # t => Same(u)
  BY <1>1 DEF ReadTailUnique, ReadTailNode, ReadTailNext, bks, Same, TypeOK
<1>5. Roles'
  BY <1>1 DEF ReadTailUnique, ReadTailNode, ReadTailNext, Roles, TypeOK, EnqPoints,
              DeqPoints, HelpPoints, Threads
<1>6. Quiet(t)
  BY <1>1, <1>3, <1>4, SMTT(30)
     DEF ReadTailUnique, ReadTailNode, ReadTailNext, Calm, Quiet, TypeOK, Roles, LinkedPoints,
         RestPoints, Carrying, BuildPoints, HelpPoints, EnqPoints, DeqPoints
<1>7. Contents' = Contents /\ LastNode' = LastNode
  BY <1>3 DEF Contents, LastNode
<1>8. CASE ReadTailUnique(t)
  <2>1. pc'[t] \in {"enq_node", "deq_node"}
    BY <1>1, <1>8 DEF ReadTailUnique, TypeOK
  <2>2. TailCopy(t)' /\ (t = Consumer => HeadCopies')
    BY <2>1 DEF TailCopy, HeadCopies, CopyPoints, HelpPoints, HeadPoints, MovePoints
  <2> QED
    BY <1>5, <1>6, <2>2, QuietStep
<1>9. CASE ReadTailNode(t)
  <2>1. pc'[t] \in {"enq_next", "deq_next"} /\ bTail'[t].node = tail.node
    BY <1>1, <1>9 DEF ReadTailNode, TypeOK
  <2>2. node[t] \notin Contents
    BY <1>1 DEF Carriers
  <2>3. TailCopy(t)' /\ (t = Consumer => HeadCopies')
    BY <1>2, <1>3, <1>7, <2>1, <2>2
       DEF TailCopy, HeadCopies, CopyPoints, HelpPoints, HeadPoints, MovePoints
  <2> QED
    BY <1>5, <1>6, <2>3, QuietStep
<1>10. CASE ReadTailNext(t)
  <2>1. /\ pc[t] \in {"enq_next", "deq_next"} /\ bTail'[t] = bTail[t]
        /\ pc'[t] \in {"enq_link", "head_unique", "help_number"}
        /\ pc'[t] = "help_number" <=> next[bTail[t].node] # NullNode
        /\ pc'[t] = "head_unique" => t = Consumer
    BY <1>1, <1>10 DEF ReadTailNext, TypeOK, bks, Roles, EnqPoints, HelpPoints
  <2>2. TailCopy(t)'
    BY <1>1, <1>3, <1>7, <2>1 DEF TailCopy, CopyPoints, HelpPoints
  <2>3. ASSUME t = Consumer PROVE HeadCopies'
    <3>1. pc[t] = "deq_next" /\ pc'[t] \in {"head_unique", "help_number"}
      BY <1>1, <1>10, <2>1, <2>3 DEF ReadTailNext, Roles, DeqPoints, HelpPoints, TypeOK
    <3>2. bTail[t].node \in Contents
      BY <1>1, <2>3, <3>1 DEF HeadCopies
    <3>3. pc'[t] = "head_unique" => tail.node = LastNode
      BY <1>1, <1>2, <2>1, <3>1, <3>2 DEF TailCopy, CopyPoints
    <3>4. LastNode # head.node
      <4>1. Len(list) >= 2 /\ Len(list) \in Nat \ {0} /\ head.node = list[1]
        BY <2>3, <3>1, SizeFacts, ListFacts DEF Inductive
      <4> QED
        BY <4>1, NextFacts DEF Inductive
    <3> QED
      BY <1>3, <1>7, <2>1, <2>3, <3>1, <3>2, <3>3, <3>4
         DEF HeadCopies, HelpPoints, HeadPoints, MovePoints
  <2> QED
    BY <1>5, <1>6, <2>2, <2>3, QuietStep
<1> QED
  BY <1>8, <1>9, <1>10

(* Helping, and moving the tail behind the own node.                       *)
LEMMA MoveTailStep ==
  ASSUME OneProducer, Inductive, NEW t \in Threads,
         HelpNumber(t) \/ ReadAgain(t) \/ TailExchange(t)
  PROVE  Roles' /\ Structure' /\ Books' /\ TailCopies' /\ HeadCopies'
<1> USE DEF Goto
<1>1. /\ TypeOK /\ Roles /\ TailCopy(t) /\ HeadCopies
      /\ t \in Threads \ {Consumer} => t \in Producers
  BY Reads DEF Inductive, TailCopies
<1>2. UNCHANGED <<list, next, data, useSize, inUse, head, node>>
  BY DEF HelpNumber, ReadAgain, TailExchange, MoveTail, ends, nums, mem, pool, hist
<1>3. \A u \in Threads : u # t => Same(u)
  BY <1>1 DEF HelpNumber, ReadAgain, TailExchange, MoveTail, bks, Same, TypeOK
<1>4. tail' = tail \/ tail'.node = LastNode
  <2>1. CASE TailExchange(t)
    BY <2>1, MoveReady DEF TailExchange, MoveTail
  <2> QED
    BY <2>1 DEF HelpNumber, ReadAgain, ends
<1>5. Roles'
  <2>1. t # Consumer => pc'[t] \in {"help_read", "help_move", "enq_move", "enq_unique", "enq_count"}
    BY <1>1 DEF HelpNumber, ReadAgain, TailExchange, MoveTail, TypeOK
  <2>2. t = Consumer => pc'[t] \in {"help_read", "help_move", "deq_unique"}
    BY <1>1 DEF HelpNumber, ReadAgain, TailExchange, MoveTail, TypeOK, Roles, DeqPoints,
                HelpPoints
  <2> QED
    BY <1>1, <1>3, <2>1, <2>2, ThreadsAssumption
       DEF Roles, Same, EnqPoints, DeqPoints, HelpPoints, Threads
<1>6. Quiet(t)
  BY <1>1, <1>2, <1>3, <1>4
     DEF HelpNumber, ReadAgain, TailExchange, MoveTail, Calm, Quiet, TypeOK, Roles, LinkedPoints,
         RestPoints, Carrying, BuildPoints, HelpPoints, EnqPoints, DeqPoints
<1>7. Contents' = Contents /\ LastNode' = LastNode
  BY <1>2 DEF Contents, LastNode
<1>8. CASE HelpNumber(t)
  <2>1. /\ pc[t] = "help_number" /\ pc'[t] = "help_read" /\ bTail' = bTail /\ tail' = tail
    BY <1>1, <1>8 DEF HelpNumber, TypeOK, bks, ends
  <2>2. TailCopy(t)' /\ (t = Consumer => HeadCopies')
    BY <1>1, <1>2, <1>7, <2>1
       DEF TailCopy, HeadCopies, CopyPoints, HelpPoints, HeadPoints, MovePoints
  <2> QED
    BY <1>5, <1>6, <2>2, QuietStep
<1>9. CASE ReadAgain(t)
  <2>1. /\ bTail' = bTail /\ tail' = tail /\ bNext'[t] = next[bTail[t].node]
        /\ \/ pc[t] = "help_read" /\ pc'[t] = "help_move"
           \/ pc[t] = "enq_read" /\ pc'[t] = "enq_move"
    BY <1>1, <1>9 DEF ReadAgain, TypeOK, ends
  <2>2. pc[t] = "enq_read" => next[bTail[t].node] = LastNode
    <3>1. ASSUME pc[t] = "enq_read"
          PROVE  Len(list) > 1 /\ bTail[t].node = list[Len(list) - 1] /\ Len(list) \in Nat
      BY <1>1, <3>1, ListFacts DEF TailCopy, Inductive
    <3>2. ASSUME pc[t] = "enq_read"
          PROVE  Len(list) - 1 \in 1 .. Len(list) - 1 /\ (Len(list) - 1) + 1 = Len(list)
      BY <3>1, <3>2
    <3> QED
      BY <3>1, <3>2 DEF Inductive, Structure, QueueRep, AddedIsQueued, LastNode
  <2>3. TailCopy(t)'
    BY <1>1, <1>2, <1>7, <2>1, <2>2 DEF TailCopy, CopyPoints, HelpPoints
  <2>4. t = Consumer => HeadCopies'
    BY <1>1, <1>2, <1>7, <2>1
       DEF HeadCopies, CopyPoints, HelpPoints, HeadPoints, MovePoints, Roles, DeqPoints
  <2> QED
    BY <1>5, <1>6, <2>3, <2>4, QuietStep
<1>10. CASE TailExchange(t)
  <2>1. pc'[t] \in {"enq_unique", "deq_unique", "enq_count"}
    BY <1>1, <1>10 DEF TailExchange, MoveTail, TypeOK
  <2>2. TailCopy(t)' /\ (t = Consumer => HeadCopies')
    BY <2>1 DEF TailCopy, HeadCopies, CopyPoints, HelpPoints, HeadPoints, MovePoints
  <2> QED
    BY <1>5, <1>6, <2>2, QuietStep
<1> QED
  BY <1>8, <1>9, <1>10

(* Taking a number, and a link that did not succeed.                       *)
LEMMA NumberStep ==
  ASSUME OneProducer, Inductive, NEW t \in Threads,
         \/ EnqueueNumber(t) \/ DequeueNumber(t)
         \/ EnqueueLink(t) /\ next[bTail[t].node] # NullNode
  PROVE  Roles' /\ Structure' /\ Books' /\ TailCopies' /\ HeadCopies'
<1> USE DEF Goto
<1>1. /\ TypeOK /\ Roles /\ TailCopy(t) /\ HeadCopies
      /\ t \in Threads \ {Consumer} => t \in Producers
  BY Reads DEF Inductive, TailCopies
<1>2. /\ UNCHANGED <<list, next, data, useSize, inUse, head, tail, node>>
      /\ \/ pc[t] = "enq_number" /\ pc' = [pc EXCEPT ![t] = "enq_unique"]
         \/ pc[t] = "deq_number" /\ pc' = [pc EXCEPT ![t] = "deq_unique"]
         \/ pc[t] = "enq_link" /\ pc' = [pc EXCEPT ![t] = "enq_unique"]
  BY DEF EnqueueNumber, DequeueNumber, EnqueueLink, LinkIf, ends, mem, pool, hist
<1>3. \A u \in Threads : u # t => Same(u)
  BY <1>1, <1>2 DEF EnqueueNumber, DequeueNumber, EnqueueLink, LinkIf, bks, Same, TypeOK
<1>4. Roles'
  BY <1>1, <1>2 DEF Roles, TypeOK, EnqPoints, DeqPoints, HelpPoints, Threads
<1>5. Quiet(t)
  BY <1>1, <1>2, <1>3
     DEF Calm, Quiet, TypeOK, Roles, LinkedPoints, RestPoints, Carrying, BuildPoints, HelpPoints,
         EnqPoints, DeqPoints
<1>6. pc'[t] \in {"enq_unique", "deq_unique"}
  BY <1>1, <1>2 DEF TypeOK
<1>7. TailCopy(t)' /\ (t = Consumer => HeadCopies')
  BY <1>6 DEF TailCopy, HeadCopies, CopyPoints, HelpPoints, HeadPoints, MovePoints
<1> QED
  BY <1>4, <1>5, <1>7, QuietStep

(* The consumer reads the head and what is behind it.                      *)
LEMMA ReadHeadStep ==
  ASSUME OneProducer, Inductive, NEW t \in Threads,
         \/ ReadHeadUnique(t) \/ ReadHeadNode(t) \/ ReadHeadNext(t)
         \/ ReadHeadData(t) \/ ReadHeadAgain(t)
  PROVE  Roles' /\ Structure' /\ Books' /\ TailCopies' /\ HeadCopies'
<1> USE DEF Goto
<1>1. TypeOK /\ Roles /\ HeadCopies
  BY DEF Inductive
<1>2. /\ UNCHANGED <<list, next, data, useSize, inUse, head, tail, node, bTail>>
      /\ pc[t] \in HeadPoints \ {"head_move"}
      /\ pc' \in {[pc EXCEPT ![t] = q] : q \in (HeadPoints \ {"head_unique"}) \cup {"deq_unique"}}
  BY DEF ReadHeadUnique, ReadHeadNode, ReadHeadNext, ReadHeadData, CopyData, ReadHeadAgain,
         ends, nums, mem, pool, hist, HeadPoints, MovePoints
<1>3. t = Consumer
  BY <1>2, Reads DEF EnqPoints, HelpPoints, HeadPoints, MovePoints
<1>4. /\ Len(list) >= 2 /\ Len(list) \in Nat /\ head.node = list[1]
      /\ next[list[1]] = list[2] /\ list[2] # NullNode
  <2>1. Len(list) >= 2
    BY <1>2, <1>3, SizeFacts DEF Inductive, HeadPoints, MovePoints
  <2>2. /\ Len(list) \in Nat /\ head.node = list[1]
        /\ \A i \in 1 .. Len(list) : list[i] \in Nodes
    BY ListFacts DEF Inductive
  <2>3. 2 \in 1 .. Len(list) /\ 1 \in 1 .. Len(list) - 1 /\ 1 + 1 = 2
    BY <2>1, <2>2
  <2>4. next[list[1]] = list[1 + 1]
    BY <2>3 DEF Inductive, Structure, QueueRep, AddedIsQueued
  <2> QED
    BY <2>1, <2>2, <2>3, <2>4, NodesAssumption
<1>5. \A u \in Threads : u # t => Same(u)
  BY <1>1, <1>2 DEF ReadHeadUnique, ReadHeadNode, ReadHeadNext, ReadHeadData, CopyData,
                    ReadHeadAgain, Same, TypeOK
<1>6. Roles'
  BY <1>1, <1>2, <1>3, ThreadsAssumption
     DEF Roles, TypeOK, DeqPoints, HeadPoints, MovePoints, Threads
<1>7. pc'[t] \in (HeadPoints \ {"head_unique"}) \cup {"deq_unique"}
  BY <1>1, <1>2 DEF TypeOK
<1>8. Quiet(t)
  BY <1>2, <1>3, <1>5, <1>7
     DEF Calm, Quiet, LinkedPoints, RestPoints, Carrying, HeadPoints, MovePoints
<1>9. TailCopy(t)'
  BY <1>7 DEF TailCopy, CopyPoints, HelpPoints, HeadPoints, MovePoints
<1>10. tail.node # head.node
  BY <1>1, <1>2, <1>3 DEF HeadCopies
<1>11. CASE ReadHeadUnique(t)
  <2>1. pc'[t] = "head_node" /\ bHead'[t].unique = head.unique
    BY <1>1, <1>11 DEF ReadHeadUnique, TypeOK
  <2>2. HeadCopies'
    BY <1>2, <1>3, <1>10, <2>1 DEF HeadCopies, HelpPoints, HeadPoints, MovePoints
  <2> QED
    BY <1>6, <1>8, <1>9, <2>2, QuietStep
<1>12. CASE ReadHeadNode(t)
  <2>1. /\ pc[t] = "head_node" /\ pc'[t] = "head_next"
        /\ bHead'[t].unique = bHead[t].unique /\ bHead'[t].node = head.node
    BY <1>1, <1>12 DEF ReadHeadNode, TypeOK
  <2>2. HeadCopies'
    BY <1>1, <1>2, <1>3, <1>10, <2>1 DEF HeadCopies, HelpPoints, HeadPoints, MovePoints
  <2> QED
    BY <1>6, <1>8, <1>9, <2>2, QuietStep
<1>13. CASE ReadHeadNext(t)
  <2>1. bHead[t].node = list[1]
    BY <1>1, <1>3, <1>4, <1>13 DEF ReadHeadNext, HeadCopies, HeadPoints, MovePoints
  <2>2. /\ pc[t] = "head_next" /\ pc'[t] = "head_data" /\ bHead' = bHead
        /\ bNext'[t] = list[2]
    BY <1>1, <1>4, <1>13, <2>1 DEF ReadHeadNext, TypeOK
  <2>3. HeadCopies'
    BY <1>1, <1>2, <1>3, <1>10, <2>2 DEF HeadCopies, HelpPoints, HeadPoints, MovePoints
  <2> QED
    BY <1>6, <1>8, <1>9, <2>3, QuietStep
<1>14. CASE ReadHeadData(t)
  <2>1. /\ pc[t] = "head_data" /\ pc'[t] = "head_read" /\ bHead' = bHead /\ bNext' = bNext
        /\ bData'[t] = data[bNext[t]]
    BY <1>1, <1>14 DEF ReadHeadData, CopyData, TypeOK
  <2>2. HeadCopies'
    BY <1>1, <1>2, <1>3, <1>10, <2>1 DEF HeadCopies, HelpPoints, HeadPoints, MovePoints
  <2> QED
    BY <1>6, <1>8, <1>9, <2>2, QuietStep
<1>15. CASE ReadHeadAgain(t)
  <2>1. bHead[t].node = list[1]
    BY <1>1, <1>3, <1>4, <1>15 DEF ReadHeadAgain, HeadCopies, HeadPoints, MovePoints
  <2>2. /\ pc[t] = "head_read" /\ pc'[t] = "head_move" /\ bHead' = bHead /\ bData' = bData
        /\ bNext'[t] = list[2]
    BY <1>1, <1>4, <1>15, <2>1 DEF ReadHeadAgain, TypeOK
  <2>3. HeadCopies'
    BY <1>1, <1>2, <1>3, <1>10, <2>2 DEF HeadCopies, HelpPoints, HeadPoints, MovePoints
  <2> QED
    BY <1>6, <1>8, <1>9, <2>3, QuietStep
<1> QED
  BY <1>11, <1>12, <1>13, <1>14, <1>15

-----------------------------------------------------------------------------
(* The two places where a call counts.                                     *)
LEMMA CountStep ==
  ASSUME OneProducer, Inductive, NEW t \in Threads, EnqueueCount(t) \/ Dequeue(t)
  PROVE  Roles' /\ Structure' /\ Books' /\ TailCopies' /\ HeadCopies'
<1> USE DEF Goto
<1>1. /\ TypeOK /\ Roles /\ useSize \in Nat /\ Len(list) \in Nat
      /\ t \in Threads \ {Consumer} => t \in Producers
  BY Reads, ListFacts DEF Inductive, TypeOK
<1>2. UNCHANGED <<list, next, data, inUse, head, tail, node, bTail, bNext, bHead, bData>>
  BY DEF EnqueueCount, Count, Dequeue, Decrement, ends, mem, pool, bks, hist
<1>3. \/ /\ pc[t] = "enq_count" /\ pc'[t] = "idle" /\ pc' = [pc EXCEPT ![t] = "idle"]
         /\ useSize' = useSize + 1
      \/ /\ pc[t] = "idle" /\ pc'[t] = "deq_number" /\ pc' = [pc EXCEPT ![t] = "deq_number"]
         /\ useSize' = useSize - 1 /\ t = Consumer
  BY <1>1 DEF EnqueueCount, Count, Dequeue, Decrement, TypeOK
<1>4. pc[t] = "enq_count" => t \in Producers /\ t # Consumer
  BY <1>1, Reads DEF DeqPoints, HelpPoints
<1>5. \A u \in Threads : u # t => Same(u)
  BY <1>1, <1>2, <1>3 DEF Same, TypeOK
<1>6. Roles'
  BY <1>1, <1>3, <1>4, <1>5, ThreadsAssumption DEF Roles, Same, DeqPoints, Threads
<1>7. Calm(t)
  BY <1>2, <1>3, <1>4, <1>5 DEF Calm, Carrying, BuildPoints, HelpPoints
<1>8. SizeCovered'
  <2>1. SizeCovered
    BY DEF Inductive, Structure
  <2>2. CASE pc[t] = "enq_count"
    <3>1. t \in Linked /\ Linked' = {} /\ pc'[Consumer] = pc[Consumer]
      BY <1>3, <1>4, <1>5, <2>2 DEF Linked, OneProducer, Same, Threads
    <3> QED
      BY <1>1, <1>2, <1>3, <2>1, <2>2, <3>1, LinkedCount DEF SizeCovered
  <2>3. CASE pc[t] = "idle"
    <3>1. Linked' = Linked
      BY <1>3, <1>5, <2>3, ThreadsAssumption DEF Linked, Same, Threads
    <3> QED
      BY <1>1, <1>2, <1>3, <2>1, <2>3, <3>1, LinkedCount DEF SizeCovered
  <2> QED
    BY <1>3, <2>2, <2>3
<1>9. TailCopy(t)' /\ (t = Consumer => HeadCopies')
  BY <1>3 DEF TailCopy, HeadCopies, CopyPoints, HelpPoints, HeadPoints, MovePoints
<1> QED
  BY <1>6, <1>7, <1>8, <1>9, CalmStep

-----------------------------------------------------------------------------
(* The steps that change the nodes.                                        *)

(* What the consumer's copies rest on is in the queue.                     *)
LEMMA ConsumerCopies ==
  ASSUME Inductive
  PROVE  /\ pc[Consumer] \in CopyPoints \cup HelpPoints => bTail[Consumer].node \in Contents
         /\ pc[Consumer] \notin {"enq_next", "enq_link", "enq_read", "enq_move"}
<1>1. Consumer \in Threads
  BY DEF Threads
<1>2. pc[Consumer] \in {"idle"} \cup DeqPoints \cup HelpPoints
  BY <1>1, Reads
<1> QED
  BY <1>2 DEF Inductive, HeadCopies, CopyPoints, DeqPoints, HelpPoints

(* A new node, which nobody has and no copy of the consumer is of.         *)
LEMMA EnqueueFirst ==
  ASSUME OneProducer, Inductive, NEW t \in Threads, NEW n \in Nodes, Enqueue(t, n)
  PROVE  Roles' /\ Structure' /\ Books' /\ TailCopies' /\ HeadCopies'
<1> USE DEF Goto
<1>1. /\ TypeOK /\ Roles /\ Carriers /\ NodesAccounted /\ enqs \in Nat
      /\ t \in Producers /\ t # Consumer /\ Consumer \in Threads
  BY ThreadsAssumption DEF Inductive, Books, Enqueue, Threads
<1>2. /\ UNCHANGED <<head, tail, list, next, useSize, bTail, bNext, bHead, bData>>
      /\ pc[t] = "idle" /\ pc'[t] = "enq_fill"
      /\ \A u \in Threads : u # t => pc'[u] = pc[u]
      /\ n \notin inUse /\ inUse' = inUse \cup {n}
      /\ node' = [node EXCEPT ![t] = n] /\ node'[t] = n
      /\ \A u \in Threads : u # t => node'[u] = node[u]
      /\ data' = [data EXCEPT ![n] = enqs + 1] /\ data'[n] = enqs + 1
      /\ enqs < MaxEnqueues
  BY <1>1 DEF Enqueue, Pool!Alloc, ends, nums, bks, TypeOK
<1>3. n \notin Contents /\ n \notin Carried /\ n # NullNode
  BY <1>1, <1>2, NodesAssumption DEF NodesAccounted
<1>4. Contents' = Contents /\ LastNode' = LastNode
  BY <1>2 DEF Contents, LastNode
<1>5. node[t] = NullNode
  BY <1>1, <1>2 DEF Carriers, Carrying, BuildPoints, HelpPoints
<1>6. Roles'
  BY <1>1, <1>2 DEF Roles, EnqPoints, Threads
<1>7. Structure'
  <2>1. Linked' = Linked /\ pc'[Consumer] = pc[Consumer]
    BY <1>1, <1>2 DEF Linked, Threads
  <2>2. SizeCovered'
    BY <1>2, <2>1 DEF Inductive, Structure, SizeCovered
  <2> QED
    BY <1>2, <2>2 DEF Inductive, Structure, Distinct, QueueRep, AddedIsQueued
<1>8. Books'
  <2>1. Carried' = Carried \cup {n}
    BY <1>1, <1>2, <1>3, <1>5 DEF Carried
  <2>2. NodesAccounted'
    BY <1>1, <1>2, <1>4, <2>1 DEF NodesAccounted
  <2>3. Carriers'
    <3>1. ASSUME NEW u \in Threads
          PROVE  (node'[u] # NullNode <=> Carrying(u)') /\ node'[u] \notin Contents
      BY <1>1, <1>2, <1>3, <3>1 DEF Carriers, Carrying, BuildPoints
    <3>2. n # node[Consumer]
      BY <1>1, <1>3 DEF Carried
    <3>3. ASSUME NEW u \in Producers, node'[u] # NullNode PROVE node'[u] # node'[Consumer]
      BY <1>1, <1>2, <3>2, <3>3 DEF OneProducer
    <3> QED
      BY <1>4, <3>1, <3>3 DEF Carriers
  <2>4. Built'
    <3>1. enqs + 1 \in Values
      BY <1>1, <1>2, BoundsAssumption DEF Values
    <3> QED
      BY <1>1, <1>2, <3>1 DEF Built, OneProducer
  <2> QED
    BY <2>2, <2>3, <2>4 DEF Books
<1>9. TailCopies'
  <2>1. ASSUME NEW u \in Threads, u # t PROVE TailCopy(u)'
    <3>1. TailCopy(u)
      BY DEF Inductive, TailCopies
    <3> QED
      BY <1>2, <1>4, <2>1, <3>1 DEF TailCopy
  <2>2. TailCopy(t)'
    BY <1>2 DEF TailCopy, CopyPoints, HelpPoints
  <2> QED
    BY <2>1, <2>2 DEF TailCopies
<1>10. HeadCopies'
  <2>1. pc[Consumer] \in MovePoints => data'[list[2]] = data[list[2]]
    <3>1. pc[Consumer] \in MovePoints => Len(list) >= 2
      BY SizeFacts DEF Inductive, MovePoints
    <3>2. /\ Len(list) \in Nat
          /\ \A i \in 1 .. Len(list) : list[i] \in Nodes /\ list[i] \in Contents
      BY ListFacts DEF Inductive
    <3>3. pc[Consumer] \in MovePoints => list[2] \in Nodes /\ list[2] # n
      <4>1. pc[Consumer] \in MovePoints => 2 \in 1 .. Len(list)
        BY <3>1, <3>2
      <4> QED
        BY <1>3, <3>2, <4>1
    <3> QED
      BY <1>1, <1>2, <3>3 DEF TypeOK
  <2> QED
    BY <1>1, <1>2, <1>4, <2>1 DEF Inductive, HeadCopies, MovePoints
<1> QED
  BY <1>6, <1>7, <1>8, <1>9, <1>10

(* The node's link is cleared while it is nobody else's.                   *)
LEMMA FillStep ==
  ASSUME OneProducer, Inductive, NEW t \in Threads, EnqueueFill(t)
  PROVE  Roles' /\ Structure' /\ Books' /\ TailCopies' /\ HeadCopies'
<1> USE DEF Goto
<1>1. TypeOK /\ Roles /\ Carriers /\ NodesAccounted /\ Consumer \in Threads /\ pc[t] = "enq_fill"
  BY DEF Inductive, Books, EnqueueFill, Threads
<1>2. t \in Producers /\ t # Consumer
  BY <1>1, Reads DEF DeqPoints, HelpPoints
<1>3. /\ UNCHANGED <<head, tail, list, data, useSize, inUse, node, bTail, bNext, bHead, bData>>
      /\ pc'[t] = "enq_number"
      /\ \A u \in Threads : u # t => pc'[u] = pc[u]
      /\ next' = [next EXCEPT ![node[t]] = NullNode]
  BY <1>1 DEF EnqueueFill, ends, nums, pool, bks, hist, TypeOK
<1>4. node[t] # NullNode /\ node[t] \notin Contents /\ node[t] \in Nodes
  BY <1>1, <1>2 DEF Carriers, Carrying, BuildPoints, TypeOK
<1>5. /\ next'[node[t]] = NullNode
      /\ \A m \in Nodes : m # node[t] => next'[m] = next[m]
      /\ \A m \in Contents : m \in Nodes /\ next'[m] = next[m]
  BY <1>1, <1>3, <1>4, ListFacts DEF TypeOK, Inductive
<1>6. Contents' = Contents /\ LastNode' = LastNode /\ Carried' = Carried
  BY <1>3 DEF Contents, LastNode, Carried
<1>7. Roles'
  BY <1>1, <1>2, <1>3 DEF Roles, EnqPoints, Threads
<1>8. Structure'
  <2>1. Linked' = Linked /\ pc'[Consumer] = pc[Consumer]
    BY <1>1, <1>2, <1>3 DEF Linked, Threads
  <2>2. SizeCovered'
    BY <1>3, <2>1 DEF Inductive, Structure, SizeCovered
  <2>3. /\ Len(list) \in Nat \ {0}
        /\ \A i \in 1 .. Len(list) : list[i] \in Contents
    BY ListFacts DEF Inductive
  <2>4. ASSUME NEW i \in 1 .. Len(list) - 1 PROVE next'[list[i]] = list[i + 1]
    <3>1. i \in 1 .. Len(list)
      BY <2>3
    <3> QED
      BY <1>5, <2>3, <3>1 DEF Inductive, Structure, QueueRep, AddedIsQueued
  <2>5. next'[list[Len(list)]] = NullNode
    <3>1. Len(list) \in 1 .. Len(list)
      BY <2>3
    <3> QED
      BY <1>5, <2>3, <3>1 DEF Inductive, Structure, QueueRep
  <2> QED
    BY <1>3, <2>2, <2>4, <2>5 DEF Inductive, Structure, Distinct, QueueRep, AddedIsQueued
<1>9. Books'
  <2>1. NodesAccounted'
    BY <1>1, <1>3, <1>6 DEF NodesAccounted
  <2>2. Carriers'
    <3>1. ASSUME NEW u \in Threads PROVE Carrying(u)' <=> Carrying(u)
      BY <1>1, <1>2, <1>3 DEF Carrying, BuildPoints
    <3> QED
      BY <1>1, <1>3, <1>6, <3>1 DEF Carriers
  <2>3. Built'
    BY <1>2, <1>3, <1>4, <1>5 DEF Inductive, Books, Built, OneProducer
  <2> QED
    BY <2>1, <2>2, <2>3 DEF Books
<1>10. TailCopies'
  <2>1. TailCopy(Consumer)'
    <3>1. TailCopy(Consumer)
      BY <1>1 DEF Inductive, TailCopies
    <3>2. pc'[Consumer] = pc[Consumer]
      BY <1>1, <1>2, <1>3
    <3>3. pc[Consumer] \in CopyPoints \cup HelpPoints =>
            /\ bTail[Consumer].node \in Contents
            /\ next'[bTail[Consumer].node] = next[bTail[Consumer].node]
      BY <1>5, ConsumerCopies
    <3> QED
      BY <1>3, <1>6, <3>1, <3>2, <3>3 DEF TailCopy, HelpPoints
  <2>2. TailCopy(t)'
    BY <1>3 DEF TailCopy, CopyPoints, HelpPoints
  <2>3. \A u \in Threads : u = t \/ u = Consumer
    BY <1>2 DEF OneProducer, Threads
  <2> QED
    BY <2>1, <2>2, <2>3 DEF TailCopies
<1>11. HeadCopies'
  BY <1>1, <1>2, <1>3, <1>6 DEF Inductive, HeadCopies
<1> QED
  BY <1>7, <1>8, <1>9, <1>10, <1>11

(* The node is linked behind the last one, where the tail is.              *)
LEMMA LinkStep ==
  ASSUME OneProducer, Inductive, NEW t \in Threads, EnqueueLink(t),
         next[bTail[t].node] = NullNode
  PROVE  Roles' /\ Structure' /\ Books' /\ TailCopies' /\ HeadCopies'
<1> USE DEF Goto
<1>1. /\ TypeOK /\ Roles /\ Carriers /\ NodesAccounted /\ Structure
      /\ t \in Producers /\ t # Consumer /\ Consumer \in Threads
      /\ Threads = Producers \cup {Consumer}
  BY LinkReady, ThreadsAssumption DEF Inductive, Books, Threads
<1> DEFINE L == Len(list)
           n == node[t]
<1>2. /\ pc[t] = "enq_link" /\ pc'[t] = "enq_read"
      /\ \A u \in Threads : u # t => pc'[u] = pc[u] /\ node'[u] = node[u]
      /\ UNCHANGED <<head, tail, data, useSize, inUse, bTail, bNext, bHead, bData>>
      /\ bTail[t].node = LastNode /\ tail.node = LastNode
      /\ n \in Nodes /\ n \notin Contents /\ n # NullNode /\ next[n] = NullNode
      /\ node'[t] = NullNode /\ node' = [node EXCEPT ![t] = NullNode]
      /\ next' = [next EXCEPT ![LastNode] = n] /\ list' = Append(list, n)
  BY <1>1, LinkReady, NodesAssumption DEF EnqueueLink, LinkIf, ends, nums, pool, lnums, TypeOK
<1>3. /\ L \in Nat \ {0} /\ DOMAIN list = 1 .. L /\ LastNode \in Contents
      /\ \A i \in 1 .. L : list[i] \in Nodes /\ list[i] \in Contents
      /\ \A m \in Contents : m \in Nodes /\ \E i \in 1 .. L : m = list[i]
      /\ head.node = list[1]
  BY ListFacts DEF Inductive
<1>4. /\ list' \in Seq(Nodes) /\ Len(list') = L + 1 /\ DOMAIN list' = 1 .. L + 1
      /\ \A i \in 1 .. L : list'[i] = list[i]
      /\ list'[L + 1] = n /\ list' # <<>>
  <2>1. list \in Seq(Nodes)
    BY <1>1 DEF TypeOK
  <2>2. list' \in Seq(Nodes) /\ Len(list') = L + 1
    BY <1>2, <2>1, AppendProperties
  <2> QED
    BY <1>2, <2>1, <2>2, AppendProperties, LenProperties
<1>5. Contents' = Contents \cup {n}
  <2>1. L + 1 \in 1 .. L + 1 /\ \A i \in 1 .. L : i \in 1 .. L + 1
    BY <1>3
  <2>2. \A i \in 1 .. L + 1 : i \in 1 .. L \/ i = L + 1
    BY <1>3
  <2>3. ASSUME NEW m \in Contents' PROVE m \in Contents \cup {n}
    <3>1. PICK i \in 1 .. L + 1 : m = list'[i]
      BY <1>4, <2>3 DEF Contents
    <3> QED
      BY <1>3, <1>4, <2>2, <3>1
  <2>4. ASSUME NEW m \in Contents PROVE m \in Contents'
    <3>1. PICK i \in 1 .. L : m = list[i]
      BY <1>3
    <3>2. i \in DOMAIN list' /\ list'[i] = m
      BY <1>4, <2>1, <3>1
    <3> QED
      BY <3>2 DEF Contents
  <2>5. n \in Contents'
    BY <1>4, <2>1 DEF Contents
  <2> QED
    BY <2>3, <2>4, <2>5
<1>6. LastNode' = n
  BY <1>4 DEF LastNode
<1>7. /\ next'[LastNode] = n
      /\ \A m \in Nodes : m # LastNode => next'[m] = next[m]
      /\ next'[n] = NullNode
  BY <1>1, <1>2, <1>3 DEF TypeOK
<1>8. Roles'
  BY <1>1, <1>2 DEF Roles, EnqPoints
<1>9. Structure'
  <2>1. Linked = {} /\ Linked' # {}
    BY <1>1, <1>2 DEF Linked, OneProducer
  <2>2. SizeCovered'
    <3>1. /\ Cardinality(Linked) = 0 /\ Cardinality(Linked') = 1
          /\ pc'[Consumer] = pc[Consumer] /\ useSize' = useSize /\ useSize \in Nat
          /\ L \in Nat /\ Len(list') = L + 1
      BY <1>1, <1>2, <1>3, <1>4, <2>1, LinkedCount DEF TypeOK
    <3> QED
      BY <1>1, <3>1 DEF Structure, SizeCovered
  <2>3. Distinct'
    BY <1>1, <1>2, <1>3, <1>4 DEF Structure, Distinct
  <2>4. ASSUME NEW i \in 1 .. Len(list') - 1 PROVE next'[list'[i]] = list'[i + 1]
    <3>1. L \in Nat /\ L >= 1 /\ Len(list') = L + 1
      BY <1>3, <1>4
    <3>2. i \in 1 .. L /\ (i = L \/ (i \in 1 .. L - 1 /\ i + 1 \in 1 .. L))
      BY <3>1
    <3>3. CASE i = L
      BY <1>4, <1>7, <3>2, <3>3 DEF LastNode
    <3>4. CASE i \in 1 .. L - 1 /\ i + 1 \in 1 .. L
      <4>1. list[i] # LastNode
        <5>1. L \in 1 .. L /\ i # L
          BY <3>1, <3>4
        <5> QED
          BY <1>1, <1>3, <3>2, <5>1 DEF Structure, Distinct, LastNode
      <4>2. next[list[i]] = list[i + 1]
        BY <1>1, <3>4 DEF Structure, QueueRep, AddedIsQueued
      <4>3. list'[i] = list[i] /\ list'[i + 1] = list[i + 1] /\ list[i] \in Nodes
        BY <1>3, <1>4, <3>2, <3>4
      <4> QED
        BY <1>7, <4>1, <4>2, <4>3, Zenon
    <3> QED
      BY <3>2, <3>3, <3>4
  <2>5. head'.node = list'[1]
    <3>1. 1 \in 1 .. L
      BY <1>3
    <3> QED
      BY <1>2, <1>3, <1>4, <3>1
  <2>6. next'[list'[Len(list')]] = NullNode
    BY <1>4, <1>7
  <2>7. Len(list') > 1 /\ tail'.node = list'[Len(list') - 1]
    <3>1. L \in 1 .. L /\ Len(list') - 1 = L /\ Len(list') > 1
      BY <1>3, <1>4
    <3> QED
      BY <1>2, <1>4, <3>1 DEF LastNode
  <2> QED
    BY <1>4, <2>2, <2>3, <2>4, <2>5, <2>6, <2>7 DEF Structure, QueueRep, AddedIsQueued
<1>10. Books'
  <2>1. n \in Carried /\ Carried' = Carried \ {n}
    <3>1. \A u \in Threads : u # t => node[u] # n
      BY <1>1, <1>2 DEF Carriers, OneProducer
    <3> QED
      BY <1>1, <1>2, <3>1 DEF Carried
  <2>2. NodesAccounted'
    BY <1>1, <1>2, <1>5, <2>1 DEF NodesAccounted
  <2>3. Carriers'
    <3>1. node[Consumer] # n
      BY <1>1, <1>2 DEF Carriers
    <3>2. ASSUME NEW u \in Threads
          PROVE  (node'[u] # NullNode <=> Carrying(u)') /\ node'[u] \notin Contents'
      <4>1. CASE u = t
        BY <1>1, <1>2, <1>3, <1>5, <4>1, NodesAssumption
           DEF Carrying, BuildPoints, HelpPoints
      <4>2. CASE u # t
        <5>1. u = Consumer
          BY <1>1, <4>2 DEF OneProducer
        <5> QED
          BY <1>1, <1>2, <1>5, <3>1, <5>1 DEF Carriers, Carrying
      <4> QED
        BY <4>1, <4>2
    <3> QED
      BY <1>1, <1>2, <3>2 DEF Carriers, OneProducer
  <2>4. Built'
    BY <1>1, <1>2 DEF Built, OneProducer
  <2> QED
    BY <2>2, <2>3, <2>4 DEF Books
<1>11. TailCopies'
  <2>1. TailCopy(Consumer)'
    <3>1. TailCopy(Consumer)
      BY <1>1 DEF Inductive, TailCopies
    <3>2. pc'[Consumer] = pc[Consumer] /\ node'[Consumer] = node[Consumer]
      BY <1>1, <1>2
    <3>3. pc[Consumer] \in CopyPoints \cup HelpPoints =>
            /\ bTail[Consumer].node \in Contents /\ bTail[Consumer].node # n
      BY <1>2, ConsumerCopies
    <3>4. pc[Consumer] \in HelpPoints =>
            /\ bTail[Consumer].node # LastNode
            /\ next'[bTail[Consumer].node] = next[bTail[Consumer].node]
      BY <1>1, <1>3, <1>7, <3>1, <3>3, NextFacts DEF TailCopy
    <3> QED
      BY <1>2, <1>3, <1>5, <1>6, <3>1, <3>2, <3>3, <3>4, ConsumerCopies DEF TailCopy, HelpPoints
  <2>2. TailCopy(t)'
    <3>1. L \in 1 .. L /\ Len(list') - 1 = L /\ Len(list') > 1
      BY <1>3, <1>4
    <3> QED
      BY <1>2, <1>4, <3>1 DEF TailCopy, CopyPoints, HelpPoints, LastNode
  <2>3. \A u \in Threads : u = t \/ u = Consumer
    BY <1>1 DEF OneProducer
  <2> QED
    BY <2>1, <2>2, <2>3, Zenon DEF TailCopies
<1>12. HeadCopies'
  <2>1. pc[Consumer] \in MovePoints => list'[2] = list[2]
    <3>1. pc[Consumer] \in MovePoints => 2 \in 1 .. L
      BY <1>3, SizeFacts DEF Inductive, MovePoints
    <3> QED
      BY <1>4, <3>1
  <2>2. pc'[Consumer] = pc[Consumer]
    BY <1>1, <1>2
  <2>3. pc[Consumer] \in {"deq_next"} \cup HelpPoints => bTail[Consumer].node \in Contents'
    BY <1>5, ConsumerCopies DEF CopyPoints
  <2> QED
    BY <1>2, <2>1, <2>2, <2>3 DEF Inductive, HeadCopies, MovePoints
<1> QED
  BY <1>8, <1>9, <1>10, <1>11, <1>12

(* The old dummy leaves the queue, the tail does not.                      *)
LEMMA HeadStep ==
  ASSUME OneProducer, Inductive, NEW t \in Threads, HeadExchange(t)
  PROVE  Roles' /\ Structure' /\ Books' /\ TailCopies' /\ HeadCopies'
<1> USE DEF Goto
<1>1. /\ TypeOK /\ Roles /\ Carriers /\ NodesAccounted /\ Structure /\ HeadCopies
      /\ t = Consumer /\ t \notin Producers /\ Threads = Producers \cup {Consumer}
  BY HeadReady, ThreadsAssumption DEF Inductive, Books, Threads
<1> DEFINE L == Len(list)
           d == list[1]
<1>2. /\ pc[t] = "head_move" /\ pc'[t] = "deq_free"
      /\ \A u \in Threads : u # t => pc'[u] = pc[u] /\ node'[u] = node[u]
      /\ \A u \in Threads : u # t => bTail'[u] = bTail[u] /\ bNext'[u] = bNext[u]
      /\ UNCHANGED <<tail, data, useSize, inUse, next>>
      /\ node'[t] = d /\ head.node = d /\ head'.node = list[2] /\ list' = Tail(list)
  <2>1. /\ head' = [node |-> list[2], unique |-> lHead[t]] /\ head.node = d
        /\ list' = Tail(list) /\ node' = [node EXCEPT ![t] = d]
        /\ pc[t] = "head_move" /\ pc' = [pc EXCEPT ![t] = "deq_free"]
    BY HeadReady
  <2>2. /\ bTail' = [bTail EXCEPT ![t] = NoCopy] /\ bNext' = [bNext EXCEPT ![t] = NullNode]
        /\ UNCHANGED <<tail, data, useSize, inUse, next>>
    BY DEF HeadExchange, mem, pool
  <2> QED
    BY <1>1, <2>1, <2>2 DEF TypeOK
<1>3. L \in Nat /\ L >= 2 /\ useSize \in Nat
  BY <1>1, HeadReady DEF TypeOK
<1>4. /\ DOMAIN list = 1 .. L
      /\ \A i \in 1 .. L : list[i] \in Nodes /\ list[i] \in Contents
      /\ \A m \in Contents : m \in Nodes /\ \E i \in 1 .. L : m = list[i]
  BY ListFacts DEF Inductive
<1>5. \A i, j \in 1 .. L : list[i] = list[j] => i = j
  BY <1>1, <1>4 DEF Structure, Distinct
<1>6. /\ Len(list') = L - 1 /\ DOMAIN list' = 1 .. L - 1 /\ list' # <<>>
      /\ \A i \in 1 .. L - 1 : list'[i] = list[i + 1]
  <2>1. list \in Seq(Nodes) /\ list # <<>>
    BY <1>1, HeadReady DEF TypeOK
  <2>2. list' \in Seq(Nodes) /\ Len(list') = L - 1
    BY <1>2, <2>1, HeadTailProperties
  <2>3. DOMAIN list' = 1 .. L - 1
    BY <2>2, LenProperties
  <2>4. \A i \in 1 .. L - 1 : list'[i] = list[i + 1]
    BY <1>2, <2>1, <2>2, HeadTailProperties
  <2>5. list' # <<>>
    BY <1>3, <2>2, EmptySeq
  <2> QED
    BY <2>2, <2>3, <2>4, <2>5
<1>7. LastNode' = LastNode /\ (L > 2 => list'[Len(list') - 1] = list[L - 1])
  <2>1. L - 1 \in 1 .. L - 1 /\ (L - 1) + 1 = L
    BY <1>3
  <2>2. L > 2 => L - 2 \in 1 .. L - 1 /\ (L - 2) + 1 = L - 1 /\ Len(list') - 1 = L - 2
    BY <1>3, <1>6
  <2> QED
    BY <1>6, <2>1, <2>2 DEF LastNode
<1>8. d \in Contents /\ d \in Nodes /\ d # NullNode /\ next[d] # NullNode
  <2>1. 1 \in 1 .. L
    BY <1>3
  <2>2. d # LastNode
    BY <1>3, NextFacts DEF Inductive
  <2> QED
    BY <1>4, <2>1, <2>2, NextFacts, NodesAssumption DEF Inductive
<1>9. Contents' = Contents \ {d}
  <2>1. ASSUME NEW m \in Contents' PROVE m \in Contents /\ m # d
    <3>1. PICK i \in 1 .. L - 1 : m = list'[i]
      BY <1>6, <2>1 DEF Contents
    <3>2. i + 1 \in 1 .. L /\ 1 \in 1 .. L /\ i + 1 # 1
      BY <1>3, <3>1
    <3> QED
      BY <1>4, <1>5, <1>6, <3>1, <3>2
  <2>2. ASSUME NEW m \in Contents, m # d PROVE m \in Contents'
    <3>1. PICK i \in 1 .. L : m = list[i]
      BY <1>4
    <3>2. i - 1 \in 1 .. L - 1 /\ (i - 1) + 1 = i
      BY <1>3, <2>2, <3>1
    <3>3. list'[i - 1] = m
      BY <1>6, <3>1, <3>2
    <3> QED
      BY <1>6, <3>2, <3>3 DEF Contents
  <2> QED
    BY <2>1, <2>2
<1>10. Roles'
  BY <1>1, <1>2 DEF Roles, DeqPoints
<1>11. Structure'
  <2>1. Linked' = Linked
    BY <1>1, <1>2 DEF Linked
  <2>2. SizeCovered'
    <3>1. Cardinality(Linked) \in Nat
      BY LinkedCount
    <3> QED
      BY <1>1, <1>2, <1>3, <1>6, <2>1, <3>1 DEF Structure, SizeCovered
  <2>3. Distinct'
    <3>1. \A i \in 1 .. L - 1 : i + 1 \in 1 .. L /\ i \in Int
      BY <1>3
    <3> QED
      BY <1>5, <1>6, <3>1 DEF Distinct
  <2>4. ASSUME NEW i \in 1 .. Len(list') - 1 PROVE next[list'[i]] = list'[i + 1]
    <3>1. i \in 1 .. L - 1 /\ i + 1 \in 1 .. L - 1
      BY <1>3, <1>6
    <3> QED
      BY <1>1, <1>6, <3>1 DEF Structure, QueueRep, AddedIsQueued
  <2>5. head'.node = list'[1]
    <3>1. 1 \in 1 .. L - 1 /\ 1 + 1 = 2
      BY <1>3
    <3> QED
      BY <1>2, <1>6, <3>1
  <2>6. next[LastNode] = NullNode
    BY NextFacts DEF Inductive
  <2>7. tail.node # d
    BY <1>1, <1>2 DEF HeadCopies, HeadPoints, MovePoints
  <2>8. tail.node = LastNode \/ (L > 2 /\ tail.node = list[L - 1])
    <3>1. tail.node = LastNode \/ tail.node = list[L - 1]
      BY <1>1 DEF Structure, QueueRep, LastNode
    <3>2. L > 2 \/ L - 1 = 1
      <4>1. \A k \in Nat : k >= 2 => k > 2 \/ k - 1 = 1
        OBVIOUS
      <4> QED
        BY <1>3, <4>1
    <3>3. L - 1 = 1 => list[L - 1] = d
      OBVIOUS
    <3> QED
      BY <2>7, <3>1, <3>2, <3>3
  <2>9. L > 2 => Len(list') > 1
    BY <1>3, <1>6
  <2> QED
    BY <1>2, <1>6, <1>7, <2>2, <2>3, <2>4, <2>5, <2>6, <2>8, <2>9
       DEF Structure, QueueRep, AddedIsQueued, LastNode
<1>12. Books'
  <2>1. node[t] = NullNode
    BY <1>1, <1>2 DEF Carriers, Carrying
  <2>2. Carried' = Carried \cup {d}
    BY <1>1, <1>2, <1>8, <2>1 DEF Carried
  <2>3. NodesAccounted'
    BY <1>1, <1>2, <1>8, <1>9, <2>2 DEF NodesAccounted
  <2>4. Carriers'
    BY <1>1, <1>2, <1>8, <1>9 DEF Carriers, Carrying
  <2>5. Built'
    BY <1>1, <1>2 DEF Inductive, Books, Built
  <2> QED
    BY <2>3, <2>4, <2>5 DEF Books
<1>13. TailCopies'
  <2>1. ASSUME NEW u \in Producers PROVE TailCopy(u)'
    <3>1. TailCopy(u)
      BY <1>1 DEF Inductive, TailCopies
    <3>2. /\ pc'[u] = pc[u] /\ node'[u] = node[u] /\ bTail'[u] = bTail[u] /\ bNext'[u] = bNext[u]
      BY <1>1, <1>2
    <3>3. pc[u] \in {"enq_read", "enq_move"} =>
            Len(list') > 1 /\ list'[Len(list') - 1] = list[L - 1]
      <4>1. pc[u] \in {"enq_read", "enq_move"} => L >= 3
        BY <1>1, <1>2, SizeFacts DEF Inductive
      <4> QED
        BY <1>3, <1>6, <1>7, <4>1
    <3> QED
      BY <1>2, <1>7, <1>8, <1>9, <3>1, <3>2, <3>3 DEF TailCopy
  <2>2. TailCopy(t)'
    BY <1>2 DEF TailCopy, CopyPoints, HelpPoints
  <2> QED
    BY <1>1, <2>1, <2>2 DEF TailCopies
<1>14. HeadCopies'
  BY <1>1, <1>2 DEF HeadCopies, HelpPoints, HeadPoints, MovePoints
<1> QED
  BY <1>10, <1>11, <1>12, <1>13, <1>14

(* The old dummy goes back to the pool.                                    *)
LEMMA FreeStep ==
  ASSUME OneProducer, Inductive, NEW t \in Threads, DequeueFree(t)
  PROVE  Roles' /\ Structure' /\ Books' /\ TailCopies' /\ HeadCopies'
<1> USE DEF Goto
<1>1. /\ TypeOK /\ Roles /\ Carriers /\ NodesAccounted /\ Structure
      /\ Consumer \notin Producers /\ Threads = Producers \cup {Consumer}
      /\ pc[t] = "deq_free"
  BY ThreadsAssumption DEF Inductive, Books, Threads, DequeueFree, Release
<1>2. t = Consumer
  BY <1>1, Reads DEF EnqPoints, HelpPoints
<1>3. /\ pc'[t] = "idle"
      /\ \A u \in Threads : u # t => pc'[u] = pc[u] /\ node'[u] = node[u]
      /\ UNCHANGED <<head, tail, data, useSize, next, list, bTail, bNext, bHead, bData>>
      /\ inUse' = inUse \ {node[t]} /\ node'[t] = NullNode
  BY <1>1 DEF DequeueFree, Release, Pool!Free, ends, nums, mem, bks, hist, TypeOK
<1>4. Contents' = Contents /\ LastNode' = LastNode
  BY <1>3 DEF Contents, LastNode
<1>5. Roles'
  BY <1>1, <1>2, <1>3 DEF Roles
<1>6. Structure'
  <2>1. Linked' = Linked
    BY <1>1, <1>2, <1>3 DEF Linked
  <2>2. SizeCovered'
    BY <1>1, <1>2, <1>3, <2>1 DEF Structure, SizeCovered
  <2> QED
    BY <1>1, <1>3, <2>2 DEF Structure, Distinct, QueueRep, AddedIsQueued
<1>7. Books'
  <2>1. node[t] # NullNode /\ node[t] \notin Contents
    BY <1>1, <1>2 DEF Carriers, Carrying
  <2>2. Carried' = Carried \ {node[t]}
    <3>1. \A u \in Threads : u # t /\ node[u] # NullNode => node[u] # node[t]
      BY <1>1, <1>2 DEF Carriers
    <3> QED
      BY <1>1, <1>2, <1>3, <2>1, <3>1 DEF Carried
  <2>3. NodesAccounted'
    BY <1>1, <1>3, <1>4, <2>1, <2>2 DEF NodesAccounted
  <2>4. NullNode \notin Contents
    BY ListFacts, NodesAssumption DEF Inductive
  <2>5. Carriers'
    BY <1>1, <1>2, <1>3, <1>4, <2>4 DEF Carriers, Carrying
  <2>6. Built'
    BY <1>1, <1>2, <1>3 DEF Inductive, Books, Built
  <2> QED
    BY <2>3, <2>5, <2>6 DEF Books
<1>8. TailCopies'
  <2>1. ASSUME NEW u \in Producers PROVE TailCopy(u)'
    <3>1. TailCopy(u) /\ pc'[u] = pc[u] /\ node'[u] = node[u]
      BY <1>1, <1>2, <1>3 DEF Inductive, TailCopies
    <3> QED
      BY <1>3, <1>4, <3>1 DEF TailCopy
  <2>2. TailCopy(t)'
    BY <1>3 DEF TailCopy, CopyPoints, HelpPoints
  <2> QED
    BY <1>1, <1>2, <2>1, <2>2 DEF TailCopies
<1>9. HeadCopies'
  BY <1>2, <1>3 DEF HeadCopies, HelpPoints, HeadPoints, MovePoints
<1> QED
  BY <1>5, <1>6, <1>7, <1>8, <1>9

(* Clear leaves the dummy alone in the queue.                              *)
LEMMA ClearStep ==
  ASSUME OneProducer, Inductive, Clear
  PROVE  Roles' /\ Structure' /\ Books' /\ TailCopies' /\ HeadCopies'
<1>1. /\ \A t \in Threads : pc[t] = "idle" /\ pc'[t] = "idle"
      /\ next' = [next EXCEPT ![head.node] = NullNode]
      /\ head'.node = head.node /\ tail'.node = head.node /\ useSize' = 0
      /\ list' = <<head.node>> /\ inUse' = inUse \ Behind
      /\ UNCHANGED node /\ head.node \in Nodes /\ next'[head.node] = NullNode
      /\ Consumer \in Threads /\ Producers \subseteq Threads
  BY ListFacts DEF Inductive, Clear, bks, lnums, TypeOK, Threads
<1>2. Len(list') = 1 /\ DOMAIN list' = {1} /\ list'[1] = head.node /\ list' # <<>>
  BY <1>1
<1>3. Contents' = {head.node}
  BY <1>2 DEF Contents
<1>4. \A t \in Threads : node[t] = NullNode
  BY <1>1 DEF Inductive, Books, Carriers, Carrying, BuildPoints, HelpPoints
<1>5. Structure'
  <2>1. Linked' = {}
    BY <1>1 DEF Linked
  <2>2. SizeCovered'
    BY <1>1, <1>2, <2>1, FS_EmptySet DEF SizeCovered
  <2> QED
    BY <1>1, <1>2, <2>2 DEF Structure, Distinct, QueueRep, AddedIsQueued
<1>6. Books'
  <2>1. Carried = {} /\ Carried' = {}
    BY <1>1, <1>4 DEF Carried
  <2>2. inUse = Contents
    BY <2>1 DEF Inductive, Books, NodesAccounted
  <2>3. Contents \ Behind = {head.node}
    <3>1. /\ Len(list) \in Nat \ {0} /\ head.node = list[1] /\ DOMAIN list = 1 .. Len(list)
          /\ \A m \in Contents : \E i \in 1 .. Len(list) : m = list[i]
          /\ \A i \in 1 .. Len(list) : list[i] \in Contents
      BY ListFacts DEF Inductive
    <3>2. \A i \in 1 .. Len(list) : i = 1 \/ i \in 2 .. Len(list)
      BY <3>1
    <3>3. 1 \in 1 .. Len(list) /\ \A i \in 2 .. Len(list) : i \in 1 .. Len(list) /\ i # 1
      BY <3>1
    <3>4. head.node \notin Behind
      BY <3>1, <3>3 DEF Behind, Inductive, Structure, Distinct
    <3>5. \A m \in Contents : m = head.node \/ m \in Behind
      BY <3>1, <3>2 DEF Behind
    <3> QED
      BY <3>1, <3>3, <3>4, <3>5
  <2>4. NodesAccounted'
    BY <1>1, <1>3, <2>1, <2>2, <2>3 DEF NodesAccounted
  <2>5. Carriers' /\ Built'
    BY <1>1, <1>3, <1>4, NodesAssumption
       DEF Carriers, Built, Carrying, BuildPoints, HelpPoints
  <2> QED
    BY <2>4, <2>5 DEF Books
<1>7. Roles' /\ TailCopies' /\ HeadCopies'
  BY <1>1 DEF Roles, TailCopies, TailCopy, HeadCopies, CopyPoints, HelpPoints, HeadPoints,
              MovePoints
<1> QED
  BY <1>5, <1>6, <1>7


-----------------------------------------------------------------------------
(* Every step keeps the invariant.                                         *)
LEMMA StepInductive == OneProducer /\ Inductive /\ [Next]_vars => Inductive'
<1> SUFFICES ASSUME OneProducer, Inductive, [Next]_vars PROVE Inductive'
  OBVIOUS
<1> DEFINE Kept == Roles' /\ Structure' /\ Books' /\ TailCopies' /\ HeadCopies'
<1>1. TypeOK' /\ (enqs \in Nat)'
  BY TypeStep
<1>2. ASSUME NEW t \in Threads, EnqueueStep(t) PROVE Kept
  <2>1. CASE EnqueueFill(t)
    BY <2>1, FillStep
  <2>2. CASE EnqueueNumber(t)
    BY <2>2, NumberStep
  <2>3. CASE EnqueueLink(t) /\ next[bTail[t].node] = NullNode
    BY <2>3, LinkStep
  <2>4. CASE EnqueueLink(t) /\ next[bTail[t].node] # NullNode
    BY <2>4, NumberStep
  <2>5. CASE EnqueueCount(t)
    BY <2>5, CountStep
  <2> QED
    BY <1>2, <2>1, <2>2, <2>3, <2>4, <2>5 DEF EnqueueStep
<1>3. ASSUME NEW t \in Threads, DequeueStep(t) PROVE Kept
  <2>1. CASE DequeueNumber(t)
    BY <2>1, NumberStep
  <2>2. CASE \/ ReadHeadUnique(t) \/ ReadHeadNode(t) \/ ReadHeadNext(t)
             \/ ReadHeadData(t) \/ ReadHeadAgain(t)
    BY <2>2, ReadHeadStep
  <2>3. CASE HeadExchange(t)
    BY <2>3, HeadStep
  <2>4. CASE DequeueFree(t)
    BY <2>4, FreeStep
  <2> QED
    BY <1>3, <2>1, <2>2, <2>3, <2>4 DEF DequeueStep
<1>4. ASSUME NEW t \in Threads, TailStep(t) PROVE Kept
  <2>1. CASE ReadTailUnique(t) \/ ReadTailNode(t) \/ ReadTailNext(t)
    BY <2>1, ReadTailStep
  <2>2. CASE HelpNumber(t) \/ ReadAgain(t) \/ TailExchange(t)
    BY <2>2, MoveTailStep
  <2> QED
    BY <1>4, <2>1, <2>2 DEF TailStep
<1>5. ASSUME NEW t \in Threads, Dequeue(t) PROVE Kept
  BY <1>5, CountStep
<1>6. ASSUME NEW t \in Threads, NEW n \in Nodes, Enqueue(t, n) PROVE Kept
  BY <1>6, EnqueueFirst
<1>7. CASE Clear
  BY <1>1, <1>7, ClearStep DEF Inductive
<1>8. CASE UNCHANGED vars
  <2>1. UNCHANGED <<head, tail, next, data, useSize, inUse, pc, node, bTail, bNext, bHead, bData, list>>
    BY <1>8 DEF vars, ends, mem, pool, bks, hist
  <2>2. UNCHANGED <<Contents, Carried, Linked, LastNode>>
    BY <2>1 DEF Contents, Carried, Linked, LastNode
  <2>3. Roles' /\ Structure'
    BY <2>1, <2>2 DEF Inductive, Roles, Structure, Distinct, QueueRep, AddedIsQueued, SizeCovered
  <2>4. Books'
    BY <2>1, <2>2 DEF Inductive, Books, NodesAccounted, Carriers, Carrying, Built
  <2>5. TailCopies' /\ HeadCopies'
    BY <2>1, <2>2 DEF Inductive, TailCopies, TailCopy, HeadCopies
  <2> QED
    BY <1>1, <2>3, <2>4, <2>5 DEF Inductive
<1> QED
  BY <1>1, <1>2, <1>3, <1>4, <1>5, <1>6, <1>7, <1>8 DEF Next, Step, Inductive

(* The invariant holds at every step of a queue with one producer.         *)
THEOREM InductiveInvariant == ASSUME OneProducer PROVE Spec => []Inductive
<1>1. Init => Inductive
  BY InitInductive
<1>2. Inductive /\ [Next]_vars => Inductive'
  BY StepInductive
<1> QED
  BY <1>1, <1>2, PTL DEF Spec

(* Types: _UseSize, which is unsigned, is never lowered below zero.        *)
THEOREM TypeCorrect == ASSUME OneProducer PROVE Spec => []TypeOK
<1>1. Inductive => TypeOK
  BY DEF Inductive
<1> QED
  BY <1>1, InductiveInvariant, PTL

(* From the head the links lead through every node added, and the tail is  *)
(* the last node or the one before it.                                     *)
THEOREM QueueNeverBroken == ASSUME OneProducer PROVE Spec => []QueueRep
<1>1. Inductive => QueueRep
  BY DEF Inductive, Structure
<1> QED
  BY <1>1, InductiveInvariant, PTL

(* Dequeue, which cannot give up, always has a node behind the head.       *)
THEOREM SizeAlwaysCovered == ASSUME OneProducer PROVE Spec => []SizeCovered
<1>1. Inductive => SizeCovered
  BY DEF Inductive, Structure
<1> QED
  BY <1>1, InductiveInvariant, PTL

(* A node of the pool is in the queue, carried by a call, or free.         *)
THEOREM NodesAlwaysAccounted == ASSUME OneProducer PROVE Spec => []NodesAccounted
<1>1. Inductive => NodesAccounted
  BY DEF Inductive, Books
<1> QED
  BY <1>1, InductiveInvariant, PTL


-----------------------------------------------------------------------------
(* The queue of messages which CLockFreeQ stands for.                      *)
Waiting == [i \in 1 .. Len(list) - 1 |-> data[list[i + 1]]]
Any     == Values \cup {0}

(* It has a message for each node but the dummy.                           *)
LEMMA WaitingFacts ==
  ASSUME Inductive
  PROVE  /\ Waiting \in Seq(Any) /\ Len(Waiting) = Len(list) - 1
         /\ \A i \in 1 .. Len(list) - 1 : Waiting[i] = data[list[i + 1]]
<1>1. /\ Len(list) \in Nat \ {0} /\ \A i \in 1 .. Len(list) : list[i] \in Nodes
      /\ data \in [Nodes -> Any]
  BY ListFacts DEF Inductive, TypeOK, Any
<1>2. Len(list) - 1 \in Nat /\ \A i \in 1 .. Len(list) - 1 : i + 1 \in 1 .. Len(list)
  BY <1>1
<1>3. Waiting \in [1 .. Len(list) - 1 -> Any]
  BY <1>1, <1>2 DEF Waiting
<1>4. Waiting \in Seq(Any)
  BY <1>2, <1>3, SeqDef
<1>5. DOMAIN Waiting = 1 .. Len(list) - 1 /\ DOMAIN Waiting = 1 .. Len(Waiting)
      /\ Len(Waiting) \in Nat
  BY <1>3, <1>4, LenProperties
<1>6. Len(Waiting) = Len(list) - 1
  BY <1>2, <1>5
<1> QED
  BY <1>4, <1>6 DEF Waiting

(* The same after a step.                                                  *)
LEMMA WaitingFactsNext ==
  ASSUME Inductive'
  PROVE  /\ Waiting' \in Seq(Any) /\ Len(Waiting') = Len(list') - 1
         /\ \A i \in 1 .. Len(list') - 1 : Waiting'[i] = data'[list'[i + 1]]
<1>1. /\ (Waiting \in Seq(Any))' /\ (Len(Waiting) = Len(list) - 1)'
      /\ (\A i \in 1 .. Len(list) - 1 : Waiting[i] = data[list[i + 1]])'
  BY WaitingFacts, PTL
<1> QED
  BY <1>1 DEF Any, Values

(* The added node's message is the last one.                               *)
LEMMA LinkAppends ==
  ASSUME OneProducer, Inductive, Inductive', NEW t \in Threads, EnqueueLink(t),
         next[bTail[t].node] = NullNode
  PROVE  /\ data[node[t]] \in Values /\ got' = got
         /\ Waiting' = Append(Waiting, data[node[t]])
<1> DEFINE n == node[t]
           L == Len(list)
<1>1. n \in Nodes /\ data[n] \in Values /\ list' = Append(list, n)
  BY LinkReady
<1>2. data' = data /\ got' = got
  BY DEF EnqueueLink, LinkIf
<1>3. list \in Seq(Nodes) /\ L \in Nat \ {0}
  BY ListFacts DEF Inductive, TypeOK
<1>4. Len(list') = L + 1 /\ list'[L + 1] = n /\ \A i \in 1 .. L : list'[i] = list[i]
  BY <1>1, <1>3, AppendProperties
<1>5. Waiting \in Seq(Any) /\ Len(Waiting) = L - 1
      /\ \A i \in 1 .. L - 1 : Waiting[i] = data[list[i + 1]]
  BY WaitingFacts
<1>6. /\ Waiting' \in Seq(Any) /\ Len(Waiting') = Len(list') - 1
      /\ \A i \in 1 .. Len(list') - 1 : Waiting'[i] = data'[list'[i + 1]]
  BY WaitingFactsNext
<1>7. /\ Append(Waiting, data[n]) \in Seq(Any) /\ Len(Append(Waiting, data[n])) = L
      /\ Append(Waiting, data[n])[L] = data[n]
      /\ \A i \in 1 .. L - 1 : Append(Waiting, data[n])[i] = Waiting[i]
  <2>1. data[n] \in Any /\ (L - 1) + 1 = L
    BY <1>1, <1>3 DEF Any
  <2> QED
    BY <1>5, <2>1, AppendProperties
<1>8. \A i \in 1 .. L : Waiting'[i] = Append(Waiting, data[n])[i]
  <2>1. ASSUME NEW i \in 1 .. L PROVE Waiting'[i] = Append(Waiting, data[n])[i]
    <3>1. Waiting'[i] = data[list'[i + 1]]
      BY <1>2, <1>3, <1>4, <1>6
    <3>2. CASE i = L
      BY <1>4, <1>7, <3>1, <3>2
    <3>3. CASE i # L
      <4>1. i \in 1 .. L - 1 /\ i + 1 \in 1 .. L
        BY <1>3, <3>3
      <4> QED
        BY <1>4, <1>5, <1>7, <3>1, <4>1
    <3> QED
      BY <3>2, <3>3
  <2> QED
    BY <2>1
<1>9. Len(Waiting') = L /\ Len(Append(Waiting, data[n])) = L
  BY <1>3, <1>4, <1>6, <1>7
<1>10. Waiting' = Append(Waiting, data[n])
  BY <1>6, <1>7, <1>8, <1>9, SeqEqual
<1> QED
  BY <1>1, <1>2, <1>10


(* What leaves is the first message, the one of the node behind the dummy. *)
LEMMA HeadTakes ==
  ASSUME OneProducer, Inductive, Inductive', NEW t \in Threads, HeadExchange(t)
  PROVE  Waiting # <<>> /\ got' = Append(got, Head(Waiting)) /\ Waiting' = Tail(Waiting)
<1> DEFINE L == Len(list)
<1>1. /\ L \in Nat /\ L >= 2 /\ list # <<>> /\ list \in Seq(Nodes)
      /\ got' = Append(got, data[list[2]]) /\ list' = Tail(list)
  BY HeadReady DEF Inductive, TypeOK
<1>2. data' = data
  BY DEF HeadExchange, mem
<1>3. Len(list') = L - 1 /\ \A i \in 1 .. L - 1 : list'[i] = list[i + 1]
  BY <1>1, HeadTailProperties
<1>4. /\ Waiting \in Seq(Any) /\ Len(Waiting) = L - 1
      /\ \A i \in 1 .. L - 1 : Waiting[i] = data[list[i + 1]]
  BY WaitingFacts
<1>5. /\ Waiting' \in Seq(Any) /\ Len(Waiting') = Len(list') - 1
      /\ \A i \in 1 .. Len(list') - 1 : Waiting'[i] = data'[list'[i + 1]]
  BY WaitingFactsNext
<1>6. 1 \in 1 .. L - 1 /\ 1 + 1 = 2 /\ L - 1 # 0 /\ L - 2 \in Nat /\ (L - 1) - 1 = L - 2
  BY <1>1
<1>7. Waiting # <<>>
  BY <1>4, <1>6, EmptySeq
<1>8. /\ Tail(Waiting) \in Seq(Any) /\ Len(Tail(Waiting)) = L - 2
      /\ \A i \in 1 .. L - 2 : Tail(Waiting)[i] = Waiting[i + 1]
  BY <1>4, <1>6, <1>7, HeadTailProperties
<1>9. Head(Waiting) = data[list[2]]
  BY <1>4, <1>6
<1>10. Len(Waiting') = L - 2
  BY <1>3, <1>5, <1>6
<1>11. ASSUME NEW i \in 1 .. L - 2 PROVE Waiting'[i] = Tail(Waiting)[i]
  <2>1. i \in 1 .. L - 1 /\ i + 1 \in 1 .. L - 1
    BY <1>1
  <2>2. Waiting'[i] = data[list'[i + 1]]
    BY <1>2, <1>5, <1>10
  <2> QED
    BY <1>3, <1>4, <1>8, <2>1, <2>2
<1>12. Waiting' = Tail(Waiting)
  BY <1>5, <1>8, <1>10, <1>11, SeqEqual
<1> QED
  BY <1>1, <1>7, <1>9, <1>12

(* Clear forgets all messages.                                             *)
LEMMA ClearEmpties ==
  ASSUME Inductive, Inductive', Clear
  PROVE  Waiting' = <<>> /\ got' = got
<1>1. list' = <<head.node>> /\ got' = got
  BY DEF Clear
<1>2. Len(list') = 1
  BY <1>1
<1>3. Waiting' \in Seq(Any) /\ Len(Waiting') = 0
  BY <1>2, WaitingFactsNext
<1>4. Waiting' = <<>>
  BY <1>3, EmptySeq
<1> QED
  BY <1>1, <1>4

(* A new node's message is not waiting yet.                                *)
LEMMA EnqueueAddsNone ==
  ASSUME OneProducer, Inductive, Inductive', NEW t \in Threads, NEW n \in Nodes, Enqueue(t, n)
  PROVE  UNCHANGED <<Waiting, got>>
<1>1. list' = list /\ got' = got /\ n \notin inUse /\ data' = [data EXCEPT ![n] = enqs + 1]
  BY DEF Enqueue, Pool!Alloc
<1>2. n \notin Contents
  BY <1>1 DEF Inductive, Books, NodesAccounted
<1>3. /\ Len(list) \in Nat \ {0} /\ \A i \in 1 .. Len(list) : list[i] \in Contents
      /\ \A i \in 1 .. Len(list) : list[i] \in Nodes
  BY ListFacts DEF Inductive
<1>4. /\ Waiting \in Seq(Any) /\ Len(Waiting) = Len(list) - 1
      /\ \A i \in 1 .. Len(list) - 1 : Waiting[i] = data[list[i + 1]]
  BY WaitingFacts
<1>5. /\ Waiting' \in Seq(Any) /\ Len(Waiting') = Len(list) - 1
      /\ \A i \in 1 .. Len(list) - 1 : Waiting'[i] = data'[list[i + 1]]
  BY <1>1, WaitingFactsNext
<1>6. \A i \in 1 .. Len(list) - 1 : i + 1 \in 1 .. Len(list)
  BY <1>3
<1>7. \A i \in 1 .. Len(list) - 1 : data'[list[i + 1]] = data[list[i + 1]]
  <2>1. data \in [Nodes -> Any]
    BY DEF Inductive, TypeOK, Any
  <2>2. \A m \in Nodes : m # n => data'[m] = data[m]
    BY <1>1, <2>1
  <2>3. \A i \in 1 .. Len(list) - 1 : list[i + 1] \in Nodes /\ list[i + 1] # n
    BY <1>2, <1>3, <1>6
  <2> QED
    BY <2>2, <2>3
<1>8. Waiting' = Waiting
  BY <1>4, <1>5, <1>7, SeqEqual
<1> QED
  BY <1>1, <1>8

(* Every step is a step of the queue of messages, or none.                 *)
LEMMA StepRefines ==
  ASSUME OneProducer, Inductive, Inductive', [Next]_vars
  PROVE  Queue!Next \/ UNCHANGED <<Waiting, got>>
<1>1. ASSUME UNCHANGED <<data, list, got>> PROVE UNCHANGED <<Waiting, got>>
  BY <1>1 DEF Waiting
<1>2. ASSUME NEW t \in Threads, EnqueueStep(t)
      PROVE  Queue!Next \/ UNCHANGED <<Waiting, got>>
  <2>1. CASE EnqueueLink(t) /\ next[bTail[t].node] = NullNode
    <3>1. /\ data[node[t]] \in Values /\ got' = got
          /\ Waiting' = Append(Waiting, data[node[t]])
      BY <2>1, LinkAppends
    <3> QED
      BY <3>1 DEF Queue!Next, Queue!Enqueue, Waiting
  <2>2. CASE EnqueueLink(t) /\ next[bTail[t].node] # NullNode
    BY <1>1, <2>2 DEF EnqueueLink, LinkIf
  <2>3. CASE EnqueueFill(t) \/ EnqueueNumber(t) \/ EnqueueCount(t)
    BY <1>1, <2>3 DEF EnqueueFill, EnqueueNumber, EnqueueCount, Count, mem, hist
  <2> QED
    BY <1>2, <2>1, <2>2, <2>3 DEF EnqueueStep
<1>3. ASSUME NEW t \in Threads, DequeueStep(t)
      PROVE  Queue!Next \/ UNCHANGED <<Waiting, got>>
  <2>1. CASE HeadExchange(t)
    BY <2>1, HeadTakes DEF Queue!Next, Queue!Dequeue, Waiting
  <2>2. CASE DequeueNumber(t) \/ ReadHeadUnique(t) \/ ReadHeadNode(t) \/ ReadHeadNext(t)
    BY <1>1, <2>2 DEF DequeueNumber, ReadHeadUnique, ReadHeadNode, ReadHeadNext, mem, hist
  <2>3. CASE ReadHeadData(t) \/ ReadHeadAgain(t) \/ DequeueFree(t)
    BY <1>1, <2>3 DEF ReadHeadData, CopyData, ReadHeadAgain, DequeueFree, Release, mem, hist
  <2> QED
    BY <1>3, <2>1, <2>2, <2>3 DEF DequeueStep
<1>4. ASSUME NEW t \in Threads, TailStep(t) PROVE UNCHANGED <<Waiting, got>>
  BY <1>1, <1>4 DEF TailStep, ReadTailUnique, ReadTailNode, ReadTailNext, HelpNumber, ReadAgain,
                    TailExchange, MoveTail, mem, hist
<1>5. ASSUME NEW t \in Threads, Dequeue(t) PROVE UNCHANGED <<Waiting, got>>
  BY <1>1, <1>5 DEF Dequeue, Decrement, mem, hist
<1>6. ASSUME NEW t \in Threads, NEW n \in Nodes, Enqueue(t, n)
      PROVE  UNCHANGED <<Waiting, got>>
  BY <1>6, EnqueueAddsNone
<1>7. CASE Clear
  BY <1>7, ClearEmpties DEF Queue!Next, Queue!Clear, Waiting
<1>8. CASE UNCHANGED vars
  BY <1>1, <1>8 DEF vars, mem, hist
<1> QED
  BY <1>2, <1>3, <1>4, <1>5, <1>6, <1>7, <1>8 DEF Next, Step

(* The queue of the constructor is empty.                                  *)
LEMMA InitRefines == Init => Queue!Init
<1> SUFFICES ASSUME Init PROVE Queue!Init
  OBVIOUS
<1>1. Inductive /\ got = <<>> /\ Len(list) = 1
  BY InitInductive DEF Init
<1>2. Waiting \in Seq(Any) /\ Len(Waiting) = 0
  BY <1>1, WaitingFacts
<1> QED
  BY <1>1, <1>2, EmptySeq DEF Queue!Init, Waiting

(* CLockFreeQ with one producer implements Fifo: messages come out in the  *)
(* order in which they were linked, each once, LockFreeQ.h:91 and :170.    *)
THEOREM QueueImplementsFifo == ASSUME OneProducer PROVE Spec => ImplementsFifo
<1>1. Inductive /\ Inductive' /\ [Next]_vars =>
        [Queue!Next]_<<[i \in 1 .. Len(list) - 1 |-> data[list[i + 1]]], got>>
  BY StepRefines DEF Waiting
<1> QED
  BY InitRefines, <1>1, InductiveInvariant, PTL DEF Spec, ImplementsFifo, Queue!Spec
=============================================================================
