--------------------------- MODULE LockFreeStack ----------------------------
(***************************************************************************)
(* CLockFreeStack (LockFreeStack.h) as the server uses it: the stack of    *)
(* the free session indexes, popped by the accept thread and pushed by     *)
(* whichever thread releases a session.  Its nodes come from a             *)
(* CLockFree_FreeList, of which only the promise of NodePool is used.      *)
(*                                                                         *)
(* One action is one access to memory that several threads reach.  A node  *)
(* keeps its Data and pNextNode while it is back in the pool: the pool     *)
(* links its nodes through a field of its own.                             *)
(***************************************************************************)
EXTENDS Integers, Sequences, FiniteSets

CONSTANTS
  Poppers, Pushers, \* the accept thread; the threads that release sessions
  MaxClients,       \* how many indexes there are
  Nodes,            \* the nodes the pool can hand out
  NullNode,         \* nullptr
  MaxPops           \* bound on the calls of pop

Threads == Poppers \cup Pushers
Indexes == 1 .. MaxClients

ASSUME ThreadsAssumption == IsFiniteSet(Threads) /\ Poppers \cap Pushers = {}
ASSUME NodesAssumption   == IsFiniteSet(Nodes) /\ NullNode \notin Nodes
ASSUME BoundsAssumption  ==
  MaxClients \in Nat /\ MaxPops \in Nat /\ MaxClients <= Cardinality(Nodes)

VARIABLES
  topNode, topUnique,    \* _pTopNode
  next, data,            \* pNextNode and Data of every node
  useSize, uniqueCount,  \* _UseSize, _UniqueCount
  inUse, served,         \* the pool of nodes
  pc,
  node,                  \* nNode, or bTopNode.pNode once it has been popped
  bTop, lUnique,         \* bTopNode with the successor read through it, lUniqueCount
  out,                   \* how often each index is outside the stack
  list,                  \* history: what the stack should contain, bottom first
  pops,                  \* calls of pop so far
  undone                 \* history: a pop has found _UseSize negative

top  == <<topNode, topUnique, next, data>>
size == <<useSize, uniqueCount>>
pool == <<inUse, served>>
own  == <<node, bTop, lUnique>>
hist == <<out, list, pops, undone>>
vars == <<top, size, pool, pc, own, hist>>

Pool == INSTANCE NodePool

PopPoints  == {"pop_undo", "pop_reserve", "pop_unique", "pop_node", "pop_recheck",
               "pop_next", "pop_exchange", "pop_return"}
PushPoints == {"push_link", "push_exchange", "push_count"}
NoCopy     == [unique |-> 0, node |-> NullNode, next |-> NullNode]

At(t, p)   == pc[t] = p
Goto(t, p) == pc' = [pc EXCEPT ![t] = p]

(* Start has pushed every index before the threads exist.                  *)
Init ==
  /\ list \in {q \in [Indexes -> Nodes] : \A i, j \in Indexes : q[i] = q[j] => i = j}
  /\ topNode = IF MaxClients = 0 THEN NullNode ELSE list[MaxClients]
  /\ topUnique = 0 /\ uniqueCount = 0
  /\ next = [n \in Nodes |->
       IF \E i \in Indexes \ {1} : list[i] = n
       THEN list[(CHOOSE i \in Indexes : list[i] = n) - 1]
       ELSE NullNode]
  /\ data = [n \in Nodes |-> IF \E i \in Indexes : list[i] = n
                             THEN CHOOSE i \in Indexes : list[i] = n
                             ELSE 0]
  /\ useSize = MaxClients
  /\ inUse = {list[i] : i \in Indexes} /\ served = MaxClients
  /\ pc = [t \in Threads |-> "idle"]
  /\ node = [t \in Threads |-> NullNode]
  /\ bTop = [t \in Threads |-> NoCopy]
  /\ lUnique = [t \in Threads |-> 0]
  /\ out = [i \in Indexes |-> 0]
  /\ pops = 0 /\ undone = FALSE

-----------------------------------------------------------------------------
(* push.                                                                   *)

(* Alloc of a node and the store of Data.                                  *)
PushAlloc(t, i, n) ==
  /\ At(t, "idle") /\ t \in Pushers
  /\ out[i] > 0
  /\ out' = [out EXCEPT ![i] = @ - 1]
  /\ Pool!Alloc(n)
  /\ data' = [data EXCEPT ![n] = i]
  /\ node' = [node EXCEPT ![t] = n]
  /\ Goto(t, "push_link")
  /\ UNCHANGED <<topNode, topUnique, next, size, bTop, lUnique, list, pops, undone>>

PushLink(t) ==
  /\ At(t, "push_link")
  /\ bTop' = [bTop EXCEPT ![t].node = topNode]
  /\ next' = [next EXCEPT ![node[t]] = topNode]
  /\ Goto(t, "push_exchange")
  /\ UNCHANGED <<topNode, topUnique, data, size, pool, node, lUnique, hist>>

(* Mutant: links the node by a plain store, whatever the top has become.   *)
PushExchange_Store(t) ==
  /\ At(t, "push_exchange")
  /\ topNode' = node[t]
  /\ list' = Append(list, node[t])
  /\ node' = [node EXCEPT ![t] = NullNode]
  /\ bTop' = [bTop EXCEPT ![t] = NoCopy]
  /\ Goto(t, "push_count")
  /\ UNCHANGED <<topUnique, next, data, size, pool, lUnique, out, pops, undone>>

PushExchange(t) ==
  /\ At(t, "push_exchange")
  /\ \/ /\ topNode = bTop[t].node
        /\ topNode' = node[t]
        /\ list' = Append(list, node[t])
        /\ node' = [node EXCEPT ![t] = NullNode]
        /\ Goto(t, "push_count")
     \/ /\ topNode # bTop[t].node
        /\ Goto(t, "push_link")
        /\ UNCHANGED <<topNode, list, node>>
  /\ bTop' = [bTop EXCEPT ![t] = NoCopy]
  /\ UNCHANGED <<topUnique, next, data, size, pool, lUnique, out, pops, undone>>

PushCount(t) ==
  /\ At(t, "push_count")
  /\ useSize' = useSize + 1
  /\ Goto(t, "idle")
  /\ UNCHANGED <<top, uniqueCount, pool, own, hist>>

-----------------------------------------------------------------------------
(* pop.  The decrement reserves an element unless the size was zero.       *)

PopDecrement(t, empty) ==
  /\ At(t, "idle") /\ t \in Poppers
  /\ pops < MaxPops
  /\ pops' = pops + 1
  /\ useSize' = useSize - 1
  /\ Goto(t, IF empty THEN "pop_undo" ELSE "pop_reserve")
  /\ undone' = (undone \/ empty)
  /\ UNCHANGED <<top, uniqueCount, pool, own, out, list>>

(* Mutant: lets the last element be reserved twice.                        *)
Pop_OffByOne(t) == PopDecrement(t, useSize - 1 < -1)

Pop(t) == PopDecrement(t, useSize - 1 < 0)

Undo(t, change) ==
  /\ At(t, "pop_undo")
  /\ useSize' = useSize + change
  /\ Goto(t, IF useSize + 1 <= 0 THEN "idle" ELSE "pop_reserve")
  /\ UNCHANGED <<top, uniqueCount, pool, own, hist>>

(* Mutant: the decrement of a pop that fails is not taken back.            *)
PopUndo_Kept(t) == Undo(t, 0)

(* When a push has raised the size in between, the pop goes on although    *)
(* its decrement has been taken back.                                      *)
PopUndo(t) == Undo(t, 1)

PopReserve(t) ==
  /\ At(t, "pop_reserve")
  /\ uniqueCount' = uniqueCount + 1
  /\ lUnique' = [lUnique EXCEPT ![t] = uniqueCount + 1]
  /\ Goto(t, "pop_unique")
  /\ UNCHANGED <<top, useSize, pool, node, bTop, hist>>

PopReadUnique(t) ==
  /\ At(t, "pop_unique")
  /\ bTop' = [bTop EXCEPT ![t].unique = topUnique]
  /\ Goto(t, "pop_node")
  /\ UNCHANGED <<top, size, pool, node, lUnique, hist>>

PopReadNode(t) ==
  /\ At(t, "pop_node")
  /\ bTop' = [bTop EXCEPT ![t].node = topNode]
  /\ Goto(t, "pop_recheck")
  /\ UNCHANGED <<top, size, pool, node, lUnique, hist>>

PopRecheck(t) ==
  /\ At(t, "pop_recheck")
  /\ Goto(t, IF bTop[t].unique = topUnique THEN "pop_next" ELSE "pop_unique")
  /\ UNCHANGED <<top, size, pool, own, hist>>

(* Reading through a null top ends the process: the thread stays here.     *)
PopReadNext(t) ==
  /\ At(t, "pop_next")
  /\ bTop[t].node # NullNode
  /\ bTop' = [bTop EXCEPT ![t].next = next[bTop[t].node]]
  /\ Goto(t, "pop_exchange")
  /\ UNCHANGED <<top, size, pool, node, lUnique, hist>>

CompareExchange(t, same) ==
  /\ At(t, "pop_exchange")
  /\ \/ /\ same
        /\ topNode' = bTop[t].next
        /\ topUnique' = lUnique[t]
        /\ node' = [node EXCEPT ![t] = bTop[t].node]
        /\ list' = SubSeq(list, 1, Len(list) - 1)
        /\ Goto(t, "pop_return")
     \/ ~same /\ Goto(t, "pop_unique") /\ UNCHANGED <<topNode, topUnique, node, list>>
  /\ bTop' = [bTop EXCEPT ![t] = NoCopy]
  /\ UNCHANGED <<next, data, size, pool, lUnique, out, pops, undone>>

(* Mutant: compares the pointer alone, which the top may have regained.    *)
PopExchange_NoUnique(t) == CompareExchange(t, topNode = bTop[t].node)

PopExchange(t) ==
  CompareExchange(t, topNode = bTop[t].node /\ topUnique = bTop[t].unique)

(* Data is read out and the node goes back to the pool.                    *)
PopReturn(t) ==
  /\ At(t, "pop_return")
  /\ out' = [out EXCEPT ![data[node[t]]] = @ + 1]
  /\ Pool!Free(node[t])
  /\ node' = [node EXCEPT ![t] = NullNode]
  /\ lUnique' = [lUnique EXCEPT ![t] = 0]
  /\ Goto(t, "idle")
  /\ UNCHANGED <<top, size, bTop, list, pops, undone>>

-----------------------------------------------------------------------------
Next == \E t \in Threads :
  \/ \E i \in Indexes, n \in Nodes : PushAlloc(t, i, n)
  \/ PushLink(t) \/ PushExchange(t) \/ PushCount(t)
  \/ Pop(t) \/ PopUndo(t) \/ PopReserve(t) \/ PopReadUnique(t) \/ PopReadNode(t)
  \/ PopRecheck(t) \/ PopReadNext(t) \/ PopExchange(t) \/ PopReturn(t)

Spec == Init /\ [][Next]_vars

-----------------------------------------------------------------------------
Contents    == {list[i] : i \in DOMAIN list}
Carried     == {node[t] : t \in Threads} \ {NullNode}
Within(S)   == {t \in Threads : pc[t] \in S}

(* Every variable keeps its type, and _UseSize falls below zero by no more *)
(* than the pops that are about to put it right.                           *)
TypeOK ==
  /\ topNode \in Nodes \cup {NullNode} /\ topUnique \in Nat
  /\ next \in [Nodes -> Nodes \cup {NullNode}]
  /\ data \in [Nodes -> Indexes \cup {0}]
  /\ useSize \in Int /\ useSize >= - Cardinality(Within({"pop_undo"}))
  /\ uniqueCount \in Nat
  /\ inUse \subseteq Nodes /\ served \in Nat
  /\ pc \in [Threads -> {"idle"} \cup PopPoints \cup PushPoints]
  /\ node \in [Threads -> Nodes \cup {NullNode}]
  /\ bTop \in [Threads -> [unique : Nat, node : Nodes \cup {NullNode},
                           next : Nodes \cup {NullNode}]]
  /\ lUnique \in [Threads -> Nat]
  /\ out \in [Indexes -> Nat]
  /\ list \in Seq(Nodes)

(* An index is given to one session at a time and never gets lost: it is   *)
(* outside the stack, or one node that is on it or on its way carries it,  *)
(* even after a pop that went on without a reservation.                    *)
IndexExclusive ==
  /\ \A i \in Indexes :
       out[i] + Cardinality({n \in Contents \cup Carried : data[n] = i}) = 1
  /\ inUse = Contents \cup Carried

(* The pointers from _pTopNode down spell out the stack's contents.        *)
ListRep ==
  /\ topNode = IF list = <<>> THEN NullNode ELSE list[Len(list)]
  /\ \A i \in DOMAIN list : next[list[i]] = IF i = 1 THEN NullNode ELSE list[i - 1]

(* AcceptThread turns a connection away only at capacity: a pop that is    *)
(* about to fail leaves nothing on the stack but what pushes in progress   *)
(* have not counted yet, or other pops are committed to take.              *)
RefusedWhenFull ==
  \A t \in Threads : At(t, "pop_undo") /\ useSize + 1 <= 0 =>
    Len(list) <= Cardinality(Within({"push_count"}))
                   + Cardinality(Within(PopPoints \ {"pop_return"}) \ {t})

(* pop never reads pNextNode through a null top.                           *)
NoNullDereference == \A t \in Threads : At(t, "pop_next") => bTop[t].node # NullNode

(* That holds for as long as no pop has met an empty stack: the decrement  *)
(* of _UseSize reserves an element for every pop that goes on.             *)
SafeBelowCapacity == ~undone => NoNullDereference

-----------------------------------------------------------------------------
(* Why the invariants hold: the parts of an inductive one.                 *)

Waiting   == Within(PopPoints \ {"pop_return"})
Uncounted == Within({"push_count"})
Reserved  == Within(PopPoints \ {"pop_undo", "pop_reserve", "pop_return"})
Snapshots == {"pop_node", "pop_recheck", "pop_next", "pop_exchange"}

(* A node outside the pool is in one place: on the stack or with a thread. *)
Places ==
  /\ inUse = Contents \cup Carried
  /\ \A i, j \in DOMAIN list : list[i] = list[j] => i = j
  /\ \A t \in Threads :
       /\ node[t] # NullNode <=> pc[t] \in {"push_link", "push_exchange", "pop_return"}
       /\ node[t] \notin Contents
       /\ \A u \in Threads : node[t] = node[u] /\ node[t] # NullNode => t = u

(* Such a node carries an index, and another one than the others do; an    *)
(* index is outside the stack exactly when no node carries it.             *)
IndexOnce ==
  /\ \A n \in inUse : data[n] \in Indexes
  /\ \A m, n \in inUse : data[m] = data[n] => m = n
  /\ \A i \in Indexes : out[i] = IF \E n \in inUse : data[n] = i THEN 0 ELSE 1

(* _UseSize with the pops that have lowered it and the pushes that have    *)
(* not raised it yet covers what is on the stack, exactly so until a pop   *)
(* takes its decrement back and goes on all the same.                      *)
Sizes ==
  /\ Len(list) <= useSize + Cardinality(Uncounted) + Cardinality(Waiting)
  /\ ~undone =>
       /\ useSize >= 0 /\ Within({"pop_undo"}) = {}
       /\ Len(list) = useSize + Cardinality(Uncounted) + Cardinality(Waiting)

(* The number a pop has reserved is not on the top, nor in any copy of it. *)
Unique ==
  /\ topUnique <= uniqueCount
  /\ \A t \in Threads : bTop[t].unique <= uniqueCount
  /\ \A t \in Reserved :
       /\ lUnique[t] <= uniqueCount
       /\ lUnique[t] # topUnique
       /\ \A u \in Threads : pc[u] \in Snapshots => bTop[u].unique # lUnique[t]
       /\ \A u \in Reserved : lUnique[u] = lUnique[t] => u = t

(* While the top keeps its number nothing has been popped, so the node a   *)
(* thread has read is still on the stack, with the same successor.         *)
Snapshot ==
  \A t \in Threads :
    /\ pc[t] \in {"pop_recheck", "pop_next", "pop_exchange"} =>
         /\ bTop[t].node = NullNode => undone /\ ~At(t, "pop_exchange")
         /\ bTop[t].unique = topUnique =>
              bTop[t].node \in Contents \cup {NullNode}
    /\ At(t, "pop_exchange") /\ bTop[t].unique = topUnique =>
         bTop[t].next = next[bTop[t].node]
    /\ At(t, "push_exchange") => next[node[t]] = bTop[t].node

Inductive ==
  TypeOK /\ ListRep /\ Places /\ IndexOnce /\ Sizes /\ Unique /\ Snapshot
=============================================================================
