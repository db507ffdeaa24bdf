----------------------------- MODULE LockFreeQ ------------------------------
(***************************************************************************)
(* CLockFreeQ (LockFreeQ.h): a linked queue with a dummy node, a head and  *)
(* a tail that may lag behind, all exchanged together with a number.  Its  *)
(* nodes come from a CLockFree_FreeList, of which only the promise of      *)
(* NodePool is used: a node that has been dequeued can be handed out again *)
(* while another thread still looks at it.                                 *)
(*                                                                         *)
(* One action is one access to memory that several threads reach.  The     *)
(* consumer is the owner of a session's SendFlag, or ReleaseSession: there *)
(* is one at a time and it calls Dequeue only when GetUseSize is not zero. *)
(***************************************************************************)
EXTENDS Integers, Sequences, FiniteSets

CONSTANTS
  Producers, Consumer, \* the threads
  Nodes,               \* the nodes the pool can hand out
  NullNode,            \* nullptr
  MaxEnqueues,         \* bound on the calls of Enqueue
  MaxHelps             \* bound on the numbers taken to move the tail for others

Threads == Producers \cup {Consumer}
Values  == 1 .. MaxEnqueues

ASSUME ThreadsAssumption == IsFiniteSet(Producers) /\ Consumer \notin Producers
ASSUME NodesAssumption   ==
  IsFiniteSet(Nodes) /\ Nodes # {} /\ NullNode \notin Nodes
ASSUME BoundsAssumption  == MaxEnqueues \in Nat /\ MaxHelps \in Nat

VARIABLES
  head, tail,            \* *_phead and *_ptail: [node, unique]
  headUnique, tailUnique, \* _HeadUniqueCount, _TailUniqueCount
  next, data,            \* pNextNode and Data of every node
  useSize,               \* _UseSize
  inUse, served,         \* the pool of nodes
  pc,
  node,                  \* pnNode of Enqueue, bTopHeadNode.pNode of Dequeue at the end
  bTail, bNext,          \* the copy of the tail and of the node behind it
  bHead, bData,          \* the copy of the head and the data behind it
  lTail, lHead,          \* the numbers taken for the exchanges
  enqs, got, list        \* calls so far; history: the results, and the nodes from head on

ends  == <<head, tail>>
nums  == <<headUnique, tailUnique>>
mem   == <<next, data>>
pool  == <<inUse, served>>
bks   == <<bTail, bNext, bHead, bData>>
lnums == <<lTail, lHead>>
hist  == <<enqs, got, list>>
vars  == <<ends, nums, mem, useSize, pool, pc, node, bks, lnums, hist>>

Pool == INSTANCE NodePool

NoCopy     == [node |-> NullNode, unique |-> 0]
EnqPoints  == {"enq_fill", "enq_number", "enq_unique", "enq_node", "enq_next",
               "enq_link", "enq_read", "enq_move", "enq_count"}
DeqPoints  == {"deq_number", "deq_unique", "deq_node", "deq_next", "head_unique",
               "head_node", "head_next", "head_data", "head_read", "head_move", "deq_free"}
HelpPoints == {"help_number", "help_read", "help_move"}

At(t, p)   == pc[t] = p
Goto(t, p) == pc' = [pc EXCEPT ![t] = p]

(* The constructor: a dummy node, and nothing behind it.                   *)
Init ==
  /\ \E n \in Nodes : /\ head = [node |-> n, unique |-> 0]
                      /\ inUse = {n} /\ list = <<n>>
  /\ tail = head
  /\ headUnique = 0 /\ tailUnique = 0 /\ useSize = 0 /\ served = 1
  /\ next = [n \in Nodes |-> NullNode] /\ data = [n \in Nodes |-> 0]
  /\ pc = [t \in Threads |-> "idle"]
  /\ node = [t \in Threads |-> NullNode]
  /\ bTail = [t \in Threads |-> NoCopy] /\ bNext = [t \in Threads |-> NullNode]
  /\ bHead = [t \in Threads |-> NoCopy] /\ bData = [t \in Threads |-> 0]
  /\ lTail = [t \in Threads |-> 0] /\ lHead = [t \in Threads |-> 0]
  /\ enqs = 0 /\ got = <<>>

-----------------------------------------------------------------------------
(* The copy of the tail, which both calls begin their loop with: its two   *)
(* words and then the node behind it.                                      *)

ReadTailUnique(t) ==
  /\ \/ At(t, "enq_unique") /\ Goto(t, "enq_node")
     \/ At(t, "deq_unique") /\ Goto(t, "deq_node")
  /\ bTail' = [bTail EXCEPT ![t].unique = tail.unique]
  /\ UNCHANGED <<ends, nums, mem, useSize, pool, node, bNext, bHead, bData, lnums, hist>>

ReadTailNode(t) ==
  /\ \/ At(t, "enq_node") /\ Goto(t, "enq_next")
     \/ At(t, "deq_node") /\ Goto(t, "deq_next")
  /\ bTail' = [bTail EXCEPT ![t].node = tail.node]
  /\ UNCHANGED <<ends, nums, mem, useSize, pool, node, bNext, bHead, bData, lnums, hist>>

(* A node behind the tail: move the tail first.  A null tail would end the *)
(* process here.                                                           *)
ReadTailNext(t) ==
  /\ bTail[t].node # NullNode
  /\ LET behind == next[bTail[t].node] # NullNode IN
       \/ At(t, "enq_next") /\ Goto(t, IF behind THEN "help_number" ELSE "enq_link")
       \/ At(t, "deq_next") /\ Goto(t, IF behind THEN "help_number" ELSE "head_unique")
  /\ UNCHANGED <<ends, nums, mem, useSize, pool, node, bks, lnums, hist>>

HelpNumber(t) ==
  /\ At(t, "help_number")
  /\ tailUnique < MaxEnqueues + MaxHelps
  /\ tailUnique' = tailUnique + 1
  /\ lTail' = [lTail EXCEPT ![t] = tailUnique + 1]
  /\ Goto(t, "help_read")
  /\ UNCHANGED <<ends, headUnique, mem, useSize, pool, node, bks, lHead, hist>>

(* The exchange's argument reads the node behind the copy once more.       *)
ReadAgain(t) ==
  /\ \/ At(t, "help_read") /\ Goto(t, "help_move")
     \/ At(t, "enq_read") /\ Goto(t, "enq_move")
  /\ bNext' = [bNext EXCEPT ![t] = next[bTail[t].node]]
  /\ UNCHANGED <<ends, nums, mem, useSize, pool, node, bTail, bHead, bData, lnums, hist>>

(* Helping goes back to the start of the loop, whether it succeeds or not. *)
MoveTail(t, same) ==
  /\ \/ At(t, "help_move") /\ Goto(t, IF t = Consumer THEN "deq_unique" ELSE "enq_unique")
     \/ At(t, "enq_move") /\ Goto(t, "enq_count")
  /\ tail' = IF same THEN [node |-> bNext[t], unique |-> lTail[t]] ELSE tail
  /\ bTail' = [bTail EXCEPT ![t] = NoCopy]
  /\ bNext' = [bNext EXCEPT ![t] = NullNode]
  /\ UNCHANGED <<head, nums, mem, useSize, pool, node, bHead, bData, lnums, hist>>

(* Mutant: moves the tail without comparing it with the copy.              *)
TailExchange_Store(t) == MoveTail(t, TRUE)

TailExchange(t) == MoveTail(t, tail = bTail[t])

-----------------------------------------------------------------------------
(* Enqueue.                                                                *)

Enqueue(t, n) ==
  /\ At(t, "idle") /\ t \in Producers
  /\ enqs < MaxEnqueues
  /\ enqs' = enqs + 1
  /\ Pool!Alloc(n)
  /\ node' = [node EXCEPT ![t] = n]
  /\ data' = [data EXCEPT ![n] = enqs + 1]
  /\ Goto(t, "enq_fill")
  /\ UNCHANGED <<ends, nums, next, useSize, bks, lnums, got, list>>

EnqueueFill(t) ==
  /\ At(t, "enq_fill")
  /\ next' = [next EXCEPT ![node[t]] = NullNode]
  /\ Goto(t, "enq_number")
  /\ UNCHANGED <<ends, nums, data, useSize, pool, node, bks, lnums, hist>>

EnqueueNumber(t) ==
  /\ At(t, "enq_number")
  /\ tailUnique' = tailUnique + 1
  /\ lTail' = [lTail EXCEPT ![t] = tailUnique + 1]
  /\ Goto(t, "enq_unique")
  /\ UNCHANGED <<ends, headUnique, mem, useSize, pool, node, bks, lHead, hist>>

LinkIf(t, free) ==
  /\ At(t, "enq_link")
  /\ \/ /\ free
        /\ next' = [next EXCEPT ![bTail[t].node] = node[t]]
        /\ list' = Append(list, node[t])
        /\ node' = [node EXCEPT ![t] = NullNode]
        /\ Goto(t, "enq_read")
        /\ UNCHANGED bTail
     \/ /\ ~free
        /\ bTail' = [bTail EXCEPT ![t] = NoCopy]
        /\ Goto(t, "enq_unique")
        /\ UNCHANGED <<next, list, node>>
  /\ UNCHANGED <<ends, nums, data, useSize, pool, bNext, bHead, bData, lnums, enqs, got>>

(* The exchange of pNextNode compares it with null and nothing else.       *)
EnqueueLink(t) == LinkIf(t, next[bTail[t].node] = NullNode)

Count(t, k) ==
  /\ At(t, "enq_count")
  /\ useSize' = useSize + k
  /\ lTail' = [lTail EXCEPT ![t] = 0]
  /\ Goto(t, "idle")
  /\ UNCHANGED <<ends, nums, mem, pool, node, bks, lHead, hist>>

(* Mutant: the count is forgotten.                                         *)
EnqueueCount_None(t) == Count(t, 0)

EnqueueCount(t) == Count(t, 1)

-----------------------------------------------------------------------------
(* Dequeue.  lUseSize is unsigned, so the test for a value below zero is   *)
(* never true and there is no way out for an empty queue.                  *)

Decrement(t, ready) ==
  /\ At(t, "idle") /\ t = Consumer
  /\ ready
  /\ useSize' = useSize - 1
  /\ Goto(t, "deq_number")
  /\ UNCHANGED <<ends, nums, mem, pool, node, bks, lnums, hist>>

(* Mutant: the callers do not look at GetUseSize.                          *)
Dequeue_Ungated(t) == Decrement(t, useSize >= 0)

Dequeue(t) == Decrement(t, useSize > 0)

DequeueNumber(t) ==
  /\ At(t, "deq_number")
  /\ headUnique' = headUnique + 1
  /\ lHead' = [lHead EXCEPT ![t] = headUnique + 1]
  /\ Goto(t, "deq_unique")
  /\ UNCHANGED <<ends, tailUnique, mem, useSize, pool, node, bks, lTail, hist>>

ReadHeadUnique(t) ==
  /\ At(t, "head_unique")
  /\ bHead' = [bHead EXCEPT ![t].unique = head.unique]
  /\ Goto(t, "head_node")
  /\ UNCHANGED <<ends, nums, mem, useSize, pool, node, bTail, bNext, bData, lnums, hist>>

ReadHeadNode(t) ==
  /\ At(t, "head_node")
  /\ bHead' = [bHead EXCEPT ![t].node = head.node]
  /\ Goto(t, "head_next")
  /\ UNCHANGED <<ends, nums, mem, useSize, pool, node, bTail, bNext, bData, lnums, hist>>

(* "Came because there is a size, but there is nothing": start again.      *)
ReadHeadNext(t) ==
  /\ At(t, "head_next")
  /\ bNext' = [bNext EXCEPT ![t] = next[bHead[t].node]]
  /\ Goto(t, IF next[bHead[t].node] = NullNode THEN "deq_unique" ELSE "head_data")
  /\ UNCHANGED <<ends, nums, mem, useSize, pool, node, bTail, bHead, bData, lnums, hist>>

CopyData(t, n) ==
  /\ At(t, "head_data")
  /\ bData' = [bData EXCEPT ![t] = data[n]]
  /\ Goto(t, "head_read")
  /\ UNCHANGED <<ends, nums, mem, useSize, pool, node, bTail, bNext, bHead, lnums, hist>>

(* Mutant: takes the data of the dummy instead of the node behind it.      *)
ReadHeadData_Dummy(t) == CopyData(t, bHead[t].node)

ReadHeadData(t) == CopyData(t, bNext[t])

ReadHeadAgain(t) ==
  /\ At(t, "head_read")
  /\ bNext' = [bNext EXCEPT ![t] = next[bHead[t].node]]
  /\ Goto(t, "head_move")
  /\ UNCHANGED <<ends, nums, mem, useSize, pool, node, bTail, bHead, bData, lnums, hist>>

(* The old dummy leaves, the node behind it is the new one.                *)
HeadExchange(t) ==
  /\ At(t, "head_move")
  /\ \/ /\ head = bHead[t]
        /\ head' = [node |-> bNext[t], unique |-> lHead[t]]
        /\ got' = Append(got, bData[t])
        /\ list' = Tail(list)
        /\ node' = [node EXCEPT ![t] = bHead[t].node]
        /\ Goto(t, "deq_free")
     \/ /\ head # bHead[t]
        /\ Goto(t, "deq_unique")
        /\ UNCHANGED <<head, got, list, node>>
  /\ bTail' = [bTail EXCEPT ![t] = NoCopy] /\ bNext' = [bNext EXCEPT ![t] = NullNode]
  /\ bHead' = [bHead EXCEPT ![t] = NoCopy] /\ bData' = [bData EXCEPT ![t] = 0]
  /\ UNCHANGED <<tail, nums, mem, useSize, pool, lnums, enqs>>

Release(t, change) ==
  /\ At(t, "deq_free")
  /\ change
  /\ node' = [node EXCEPT ![t] = NullNode]
  /\ lTail' = [lTail EXCEPT ![t] = 0] /\ lHead' = [lHead EXCEPT ![t] = 0]
  /\ Goto(t, "idle")
  /\ UNCHANGED <<ends, nums, mem, useSize, bks, hist>>

(* Mutant: the old dummy never goes back to the pool.                      *)
DequeueFree_Leak(t) == Release(t, UNCHANGED pool)

DequeueFree(t) == Release(t, Pool!Free(node[t]))

-----------------------------------------------------------------------------
(* Clear, which Initailize calls for the next session of the slot: nobody  *)
(* else is in a call by then.  The dummy stays; the numbers start again    *)
(* even if ReleaseSession has left nothing to free.                        *)

Behind == {list[i] : i \in 2 .. Len(list)}

Clear ==
  /\ \A t \in Threads : At(t, "idle")
  /\ next' = [next EXCEPT ![head.node] = NullNode]
  /\ head' = [head EXCEPT !.unique = 0]
  /\ tail' = [node |-> head.node, unique |-> 0]
  /\ headUnique' = 0 /\ tailUnique' = 0 /\ useSize' = 0
  /\ list' = <<head.node>>
  /\ inUse' = inUse \ Behind
  /\ UNCHANGED <<data, served, pc, node, bks, lnums, enqs, got>>

-----------------------------------------------------------------------------
EnqueueStep(t) ==
  \/ EnqueueFill(t) \/ EnqueueNumber(t) \/ EnqueueLink(t) \/ EnqueueCount(t)

DequeueStep(t) ==
  \/ DequeueNumber(t) \/ ReadHeadUnique(t) \/ ReadHeadNode(t) \/ ReadHeadNext(t)
  \/ ReadHeadData(t) \/ ReadHeadAgain(t) \/ HeadExchange(t) \/ DequeueFree(t)

TailStep(t) ==
  \/ ReadTailUnique(t) \/ ReadTailNode(t) \/ ReadTailNext(t)
  \/ HelpNumber(t) \/ ReadAgain(t) \/ TailExchange(t)

Step(t) == EnqueueStep(t) \/ DequeueStep(t) \/ TailStep(t)

Next ==
  \/ \E t \in Threads :
       Step(t) \/ Dequeue(t) \/ \E n \in Nodes : Enqueue(t, n)
  \/ Clear

Spec == Init /\ [][Next]_vars

-----------------------------------------------------------------------------
Contents == {list[i] : i \in DOMAIN list}
Carried  == {node[t] : t \in Threads} \ {NullNode}
Linked   == {t \in Producers : pc[t] \in {"enq_read", "enq_move", "enq_count"}}

(* Types: _UseSize is unsigned, so it must never be lowered below zero.    *)
TypeOK ==
  /\ head \in [node : Nodes \cup {NullNode}, unique : Nat]
  /\ tail \in [node : Nodes \cup {NullNode}, unique : Nat]
  /\ headUnique \in Nat /\ tailUnique \in Nat /\ useSize \in Nat
  /\ next \in [Nodes -> Nodes \cup {NullNode}]
  /\ data \in [Nodes -> Values \cup {0}]
  /\ inUse \subseteq Nodes /\ served \in Nat
  /\ pc \in [Threads -> {"idle"} \cup EnqPoints \cup DeqPoints \cup HelpPoints]
  /\ node \in [Threads -> Nodes \cup {NullNode}]
  /\ bTail \in [Threads -> [node : Nodes \cup {NullNode}, unique : Nat]]
  /\ bNext \in [Threads -> Nodes \cup {NullNode}]
  /\ bHead \in [Threads -> [node : Nodes \cup {NullNode}, unique : Nat]]
  /\ bData \in [Threads -> Values \cup {0}]
  /\ lTail \in [Threads -> Nat] /\ lHead \in [Threads -> Nat]
  /\ list \in Seq(Nodes)

(* Once a node has been added its Enqueue has succeeded (the comment of    *)
(* the loop): from the head, the links lead through every node added and   *)
(* not yet dequeued, in the order of the additions.                        *)
AddedIsQueued ==
  /\ list # <<>> /\ head.node = list[1]
  /\ \A i \in 1 .. Len(list) - 1 : next[list[i]] = list[i + 1]

(* Nothing hangs behind the last node, and the tail is that node or the    *)
(* one before it: the tail never falls behind by more than one Enqueue,    *)
(* which is all the helping loops move it by.                              *)
QueueRep ==
  /\ AddedIsQueued
  /\ next[list[Len(list)]] = NullNode
  /\ \/ tail.node = list[Len(list)]
     \/ Len(list) > 1 /\ tail.node = list[Len(list) - 1]

(* _UseSize never counts more than is linked: Dequeue, which has no test   *)
(* for an empty queue, always finds a node behind the head.                *)
SizeCovered ==
  Len(list) - 1 = useSize + Cardinality(Linked)
                    + (IF pc[Consumer] \in {"idle", "deq_free"} THEN 0 ELSE 1)

(* No node is lost to the pool and none is in it while the queue uses it.  *)
NodesAccounted == inUse = Contents \cup Carried

(* The queue implements Fifo: a message is in it from the exchange of the  *)
(* last pNextNode to the exchange of the head.                             *)
Queue == INSTANCE Fifo WITH
  queue <- [i \in 1 .. Len(list) - 1 |-> data[list[i + 1]]]
ImplementsFifo == Queue!Spec
=============================================================================
