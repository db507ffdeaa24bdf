------------------------------ MODULE NodePool ------------------------------
(***************************************************************************)
(* What a node pool promises to its clients, whatever it is built from:    *)
(* a node that is handed out is nobody else's until it is given back.      *)
(* CLockFree_FreeList (module FreeList) is shown to implement it, and the  *)
(* containers built on the pool rely on nothing else.                      *)
(***************************************************************************)
EXTENDS Naturals

CONSTANT Nodes

VARIABLES
  inUse,    \* the nodes that are outside the pool
  served    \* how many calls of Alloc have returned

Init == inUse = {} /\ served = 0

(***************************************************************************)
(* The node is a recycled one or one the heap has just made: a client      *)
(* cannot tell, it only knows that nobody else has it.                     *)
(***************************************************************************)
Alloc(n) ==
  /\ n \notin inUse
  /\ inUse' = inUse \cup {n}
  /\ served' = served + 1

Free(n) ==
  /\ n \in inUse
  /\ inUse' = inUse \ {n}
  /\ UNCHANGED served

Next == \E n \in Nodes : Alloc(n) \/ Free(n)

Spec == Init /\ [][Next]_<<inUse, served>>
=============================================================================
