------------------------------ MODULE FreeList ------------------------------
(***************************************************************************)
(* CLockFree_FreeList (LockFree_FreeList.h): a pool of nodes kept as a     *)
(* linked stack behind a 16-byte TopNODE, popped by Alloc with a double    *)
(* word compare-exchange and pushed by Free with a single word one.        *)
(*                                                                         *)
(* One action is one access to shared memory.  An access to a node that    *)
(* only its owner can reach is folded into the shared access next to it.   *)
(* Memory is sequentially consistent: every store the algorithm depends on *)
(* is an Interlocked call or is made visible by one.                       *)
(***************************************************************************)
EXTENDS Integers, Sequences, FiniteSets

CONSTANTS
  Threads,     \* the threads that share the pool
  Nodes,       \* the nodes the heap can provide
  NullNode,    \* nullptr
  MaxAllocs    \* bound on the calls of Alloc in a behaviour

ASSUME ThreadsAssumption == IsFiniteSet(Threads)
ASSUME NodesAssumption   == IsFiniteSet(Nodes) /\ NullNode \notin Nodes
ASSUME BoundAssumption   == MaxAllocs \in Nat

VARIABLES
  topNode,     \* _pTopNode->pNode
  topUnique,   \* _pTopNode->UniqueCount
  next,        \* pNextNode of every node
  useSize,     \* _UseSize
  allocSize,   \* _AllocSize
  uniqueCount, \* _UniqueCount
  created,     \* the nodes HeapAlloc has made
  held,        \* the nodes clients own: returned by Alloc, not yet passed to Free
  pc,          \* where each thread is
  lAllocSize, lUnique, bUnique, bNode, bNext, fNode, \* locals of Alloc and Free
  list         \* history: what the pool should contain, bottom first

shared == <<topNode, topUnique, next, useSize, allocSize, uniqueCount>>
locals == <<lAllocSize, lUnique, bUnique, bNode, bNext, fNode>>
vars   == <<shared, created, held, pc, locals, list>>

-----------------------------------------------------------------------------
(* Program points.                                                         *)

PopPoints   == {"pop_reserve", "pop_unique", "pop_node", "pop_recheck",
                "pop_next", "pop_exchange"}
PushPoints  == {"push_link", "push_exchange"}
Points      == {"idle", "use", "grow", "unuse"} \cup PopPoints \cup PushPoints

At(t, p)    == pc[t] = p
Goto(t, p)  == pc' = [pc EXCEPT ![t] = p]

(* The copy of the top is dead once the exchange has been tried.           *)
Forget(t)   ==
  /\ bUnique' = [bUnique EXCEPT ![t] = 0]
  /\ bNode' = [bNode EXCEPT ![t] = NullNode]
  /\ bNext' = [bNext EXCEPT ![t] = NullNode]

Poppers     == {t \in Threads : pc[t] \in PopPoints}
Pushers     == {t \in Threads : pc[t] \in PushPoints}

Init ==
  /\ topNode = NullNode
  /\ topUnique = 0
  /\ next = [n \in Nodes |-> NullNode]
  /\ useSize = 0
  /\ allocSize = 0
  /\ uniqueCount = 0
  /\ created = {}
  /\ held = {}
  /\ pc = [t \in Threads |-> "idle"]
  /\ lAllocSize = [t \in Threads |-> 0]
  /\ lUnique = [t \in Threads |-> 0]
  /\ bUnique = [t \in Threads |-> 0]
  /\ bNode = [t \in Threads |-> NullNode]
  /\ bNext = [t \in Threads |-> NullNode]
  /\ fNode = [t \in Threads |-> NullNode]
  /\ list = <<>>

-----------------------------------------------------------------------------
(* Alloc.  _AllocSize is read before _UseSize is raised, so the comparison *)
(* uses a value that may be old by then.                                   *)

AllocBegin(t) ==
  /\ At(t, "idle")
  /\ uniqueCount + allocSize < MaxAllocs
  /\ lAllocSize' = [lAllocSize EXCEPT ![t] = allocSize]
  /\ Goto(t, "use")
  /\ UNCHANGED <<shared, created, held, lUnique, bUnique, bNode, bNext, fNode, list>>

Admit(t, left) ==
  /\ At(t, "use")
  /\ useSize' = useSize + 1
  /\ lAllocSize' = [lAllocSize EXCEPT ![t] = 0]
  /\ Goto(t, IF left THEN "pop_reserve" ELSE "grow")
  /\ UNCHANGED <<topNode, topUnique, next, allocSize, uniqueCount, created, held,
                 lUnique, bUnique, bNode, bNext, fNode, list>>

(* Mutant: compares with the value _UseSize had before the increment.      *)
AllocUse_OffByOne(t) == Admit(t, lAllocSize[t] >= useSize)

AllocUse(t) == Admit(t, lAllocSize[t] >= useSize + 1)

(* HeapAlloc, construction of the node and the increment of _AllocSize.    *)
AllocGrow(t) ==
  /\ At(t, "grow")
  /\ \E n \in Nodes \ created :
       /\ created' = created \cup {n}
       /\ held' = held \cup {n}
       /\ next' = [next EXCEPT ![n] = NullNode]
  /\ allocSize' = allocSize + 1
  /\ Goto(t, "idle")
  /\ UNCHANGED <<topNode, topUnique, useSize, uniqueCount, locals, list>>

PopReserve(t) ==
  /\ At(t, "pop_reserve")
  /\ uniqueCount' = uniqueCount + 1
  /\ lUnique' = [lUnique EXCEPT ![t] = uniqueCount + 1]
  /\ Goto(t, "pop_unique")
  /\ UNCHANGED <<topNode, topUnique, next, useSize, allocSize, created, held,
                 lAllocSize, bUnique, bNode, bNext, fNode, list>>

PopReadUnique(t) ==
  /\ At(t, "pop_unique")
  /\ bUnique' = [bUnique EXCEPT ![t] = topUnique]
  /\ Goto(t, "pop_node")
  /\ UNCHANGED <<shared, created, held, lAllocSize, lUnique, bNode, bNext, fNode, list>>

PopReadNode(t) ==
  /\ At(t, "pop_node")
  /\ bNode' = [bNode EXCEPT ![t] = topNode]
  /\ Goto(t, "pop_recheck")
  /\ UNCHANGED <<shared, created, held, lAllocSize, lUnique, bUnique, bNext, fNode, list>>

PopRecheck(t) ==
  /\ At(t, "pop_recheck")
  /\ Goto(t, IF bUnique[t] = topUnique THEN "pop_next" ELSE "pop_unique")
  /\ UNCHANGED <<shared, created, held, locals, list>>

(* bTopNode.pNode->pNextNode: the node may have left the pool by now.  A   *)
(* null pointer ends the process: the thread stays here.                   *)
PopReadNext(t) ==
  /\ At(t, "pop_next")
  /\ bNode[t] # NullNode
  /\ bNext' = [bNext EXCEPT ![t] = next[bNode[t]]]
  /\ Goto(t, "pop_exchange")
  /\ UNCHANGED <<shared, created, held, lAllocSize, lUnique, bUnique, bNode, fNode, list>>

CompareExchange(t, same) ==
  /\ At(t, "pop_exchange")
  /\ \/ /\ same
        /\ topNode' = bNext[t]
        /\ topUnique' = lUnique[t]
        /\ held' = held \cup {bNode[t]}
        /\ list' = SubSeq(list, 1, Len(list) - 1)
        /\ lUnique' = [lUnique EXCEPT ![t] = 0]
        /\ Goto(t, "idle")
     \/ /\ ~same
        /\ Goto(t, "pop_unique")
        /\ UNCHANGED <<topNode, topUnique, held, list, lUnique>>
  /\ Forget(t)
  /\ UNCHANGED <<next, useSize, allocSize, uniqueCount, created, lAllocSize, fNode>>

(* Mutant: compares the pointer alone, which the top may have regained.    *)
PopExchange_NoUnique(t) == CompareExchange(t, topNode = bNode[t])

(* Mutant: takes the node without comparing at all.                        *)
PopExchange_Store(t) == CompareExchange(t, TRUE)

PopExchange(t) == CompareExchange(t, topNode = bNode[t] /\ topUnique = bUnique[t])

-----------------------------------------------------------------------------
(* Free.  Any thread may give a node back: a message is allocated by one   *)
(* thread and released by another.                                         *)

FreeBegin(t, n) ==
  /\ At(t, "idle")
  /\ n \in held
  /\ held' = held \ {n}
  /\ fNode' = [fNode EXCEPT ![t] = n]
  /\ Goto(t, "push_link")
  /\ UNCHANGED <<shared, created, lAllocSize, lUnique, bUnique, bNode, bNext, list>>

PushLink(t) ==
  /\ At(t, "push_link")
  /\ bNode' = [bNode EXCEPT ![t] = topNode]
  /\ next' = [next EXCEPT ![fNode[t]] = topNode]
  /\ Goto(t, "push_exchange")
  /\ UNCHANGED <<topNode, topUnique, useSize, allocSize, uniqueCount,
                 created, held, lAllocSize, lUnique, bUnique, bNext, fNode, list>>

(* Mutant: retries the exchange without reading the top again.             *)
PushExchange_NoReload(t) ==
  /\ At(t, "push_exchange")
  /\ \/ /\ topNode = bNode[t]
        /\ topNode' = fNode[t]
        /\ list' = Append(list, fNode[t])
        /\ Goto(t, "unuse")
     \/ /\ topNode # bNode[t]
        /\ UNCHANGED <<topNode, list, pc>>
  /\ UNCHANGED <<topUnique, next, useSize, allocSize, uniqueCount, created, held, locals>>

(* A single word exchange: UniqueCount keeps its value.                    *)
PushExchange(t) ==
  /\ At(t, "push_exchange")
  /\ \/ /\ topNode = bNode[t]
        /\ topNode' = fNode[t]
        /\ list' = Append(list, fNode[t])
        /\ Goto(t, "unuse")
     \/ /\ topNode # bNode[t]
        /\ Goto(t, "push_link")
        /\ UNCHANGED <<topNode, list>>
  /\ UNCHANGED <<topUnique, next, useSize, allocSize, uniqueCount, created, held, locals>>

LeaveFree(t, size) ==
  /\ At(t, "unuse")
  /\ useSize' = size
  /\ fNode' = [fNode EXCEPT ![t] = NullNode]
  /\ bNode' = [bNode EXCEPT ![t] = NullNode]
  /\ Goto(t, "idle")
  /\ UNCHANGED <<topNode, topUnique, next, allocSize, uniqueCount,
                 created, held, lAllocSize, lUnique, bUnique, bNext, list>>

(* Mutant: Free forgets _UseSize.                                          *)
FreeUnuse_Kept(t) == LeaveFree(t, useSize)

FreeUnuse(t) == LeaveFree(t, useSize - 1)

-----------------------------------------------------------------------------
Alloc(t) ==
  \/ AllocUse(t) \/ AllocGrow(t) \/ PopReserve(t) \/ PopReadUnique(t)
  \/ PopReadNode(t) \/ PopRecheck(t) \/ PopReadNext(t) \/ PopExchange(t)

Free(t) == PushLink(t) \/ PushExchange(t) \/ FreeUnuse(t)

Next == \E t \in Threads :
  \/ AllocBegin(t)
  \/ \E n \in Nodes : FreeBegin(t, n)
  \/ Alloc(t)
  \/ Free(t)

Spec == Init /\ [][Next]_vars

(* A thread inside a call keeps running; calling is up to the client.      *)
FairSpec == Spec /\ \A t \in Threads : WF_vars(Alloc(t)) /\ WF_vars(Free(t))

-----------------------------------------------------------------------------
(* Types: the unsigned counters never fall below zero, and a thread is     *)
(* only at the program points of Alloc and Free.                           *)
TypeOK ==
  /\ topNode \in Nodes \cup {NullNode}
  /\ topUnique \in Nat
  /\ next \in [Nodes -> Nodes \cup {NullNode}]
  /\ useSize \in Nat /\ allocSize \in Nat /\ uniqueCount \in Nat
  /\ created \subseteq Nodes /\ held \subseteq Nodes
  /\ pc \in [Threads -> Points]
  /\ lAllocSize \in [Threads -> Nat]
  /\ lUnique \in [Threads -> Nat] /\ bUnique \in [Threads -> Nat]
  /\ bNode \in [Threads -> Nodes \cup {NullNode}]
  /\ bNext \in [Threads -> Nodes \cup {NullNode}]
  /\ fNode \in [Threads -> Nodes \cup {NullNode}]
  /\ list \in Seq(Nodes)

(* The pointers from _pTopNode down spell out the pool's contents: no pop  *)
(* or push, however the threads interleave, loses a node, links one twice  *)
(* or brings back an old successor (the ABA the UniqueCount is there for). *)
ListRep ==
  /\ topNode = IF list = <<>> THEN NullNode ELSE list[Len(list)]
  /\ \A i \in DOMAIN list : next[list[i]] = IF i = 1 THEN NullNode ELSE list[i - 1]
  /\ \A i, j \in DOMAIN list : list[i] = list[j] => i = j

(* The comparison of an old _AllocSize with _UseSize admits a thread to    *)
(* the popping loop only when a node is left for it: there are always at   *)
(* least as many nodes in the pool as threads committed to popping one.    *)
PoppersCovered == Cardinality(Poppers) <= Len(list)

(* Alloc never reads pNextNode through a null top: the loop has no test    *)
(* for an empty pool and relies on the comparison of the counters.         *)
NoNullDereference == \A t \in Threads : At(t, "pop_next") => bNode[t] # NullNode

(* Between calls _UseSize is the number of nodes clients own and           *)
(* _AllocSize the number the heap has made: the pair DebugPrint shows.     *)
CountersExact ==
  (\A t \in Threads : At(t, "idle")) =>
     /\ useSize = Cardinality(held)
     /\ allocSize = Cardinality(held) + Len(list)

(* The pool implements NodePool: a node leaves it for one client at a time.*)
(* The calls of Alloc served are the grown nodes and the reservations of   *)
(* _UniqueCount that have been used up.                                    *)
Reserved == {t \in Threads : pc[t] \in PopPoints \ {"pop_reserve"}}
Pool == INSTANCE NodePool WITH
  inUse  <- held \cup {fNode[t] : t \in Pushers},
  served <- allocSize + uniqueCount - Cardinality(Reserved)
ImplementsPool == Pool!Spec

(* Every call returns once the others stop interfering: a retry of either  *)
(* loop means that another call has succeeded, and calls are bounded here. *)
(* Only a call that needs a new node can wait, when the heap has none.     *)
CallsReturn ==
  \A t \in Threads :
    ~At(t, "idle") ~> At(t, "idle") \/ (At(t, "grow") /\ created = Nodes)

-----------------------------------------------------------------------------
(* Why the invariants hold: the parts of an inductive one.                 *)

Contents  == {list[i] : i \in DOMAIN list}
Counted   == {t \in Threads : pc[t] \in PopPoints \cup PushPoints \cup {"grow", "unuse"}}
Snapshots == {"pop_node", "pop_recheck", "pop_next", "pop_exchange"}

(* A node is in one place: with a client, in the list or with a pusher.    *)
Partition ==
  /\ created = held \cup Contents \cup {fNode[t] : t \in Pushers}
  /\ held \cap Contents = {}
  /\ \A t \in Pushers : fNode[t] \notin held \cup Contents
  /\ \A t, u \in Pushers : fNode[t] = fNode[u] => t = u

(* _UseSize runs ahead of the nodes in use by the calls in progress.       *)
Sizes ==
  /\ allocSize = Cardinality(held) + Cardinality(Pushers) + Len(list)
  /\ useSize = Cardinality(held) + Cardinality(Counted)
  /\ \A t \in Threads : At(t, "use") => lAllocSize[t] <= allocSize

(* The number a pop has reserved is not on the top, nor in any copy of it. *)
Unique ==
  /\ topUnique <= uniqueCount
  /\ \A t \in Threads : bUnique[t] <= uniqueCount
  /\ \A t \in Reserved :
       /\ lUnique[t] <= uniqueCount
       /\ lUnique[t] # topUnique
       /\ \A u \in Threads : pc[u] \in Snapshots => bUnique[u] # lUnique[t]
       /\ \A u \in Reserved : lUnique[u] = lUnique[t] => u = t

(* While the top keeps its UniqueCount nothing has been popped, so the     *)
(* node a thread has read is still in the list, with the same successor.   *)
Snapshot ==
  \A t \in Threads :
    /\ pc[t] \in {"pop_recheck", "pop_next", "pop_exchange"} =>
         /\ bNode[t] # NullNode
         /\ bUnique[t] = topUnique => bNode[t] \in Contents
    /\ At(t, "pop_exchange") /\ bUnique[t] = topUnique => bNext[t] = next[bNode[t]]
    /\ At(t, "push_exchange") => next[fNode[t]] = bNode[t]
    /\ t \in Pushers => fNode[t] # NullNode

Inductive ==
  TypeOK /\ ListRep /\ PoppersCovered /\ Partition /\ Sizes /\ Unique /\ Snapshot
=============================================================================
