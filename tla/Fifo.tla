-------------------------------- MODULE Fifo --------------------------------
(***************************************************************************)
(* What a queue of messages promises: they come out in the order they went *)
(* in, each of them once.  CLockFreeQ (module LockFreeQ), used as SendQ is *)
(* used, is shown to implement it.                                         *)
(***************************************************************************)
EXTENDS Naturals, Sequences

CONSTANT Values

VARIABLES
  queue, \* what is in the queue, oldest first
  got    \* what has been taken out, in order

Init == queue = <<>> /\ got = <<>>

Enqueue(v) == queue' = Append(queue, v) /\ UNCHANGED got

Dequeue ==
  /\ queue # <<>>
  /\ got' = Append(got, Head(queue))
  /\ queue' = Tail(queue)

Clear == queue' = <<>> /\ UNCHANGED got

Next == (\E v \in Values : Enqueue(v)) \/ Dequeue \/ Clear

Spec == Init /\ [][Next]_<<queue, got>>
=============================================================================
