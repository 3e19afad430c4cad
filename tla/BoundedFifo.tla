---------------------------- MODULE BoundedFifo ----------------------------
(***************************************************************************)
(* What both queues of the library (CNetQueue and CQueueT) promise their   *)
(* callers: items leave in the order in which they were accepted, each of  *)
(* them once and unchanged, and the items in the queue never weigh more    *)
(* than its capacity.  CNetQueue weighs an item in bytes, CQueueT counts   *)
(* every item as one.                                                      *)
(***************************************************************************)
EXTENDS Naturals, Sequences

CONSTANTS Items,        \* what may be put into the queue
          Takers,       \* the threads that take items out
          Capacity,     \* the weight the queue can hold
          Weight(_),    \* what a sequence of items weighs
          NoItem        \* "nothing taken yet"

VARIABLES q,            \* the accepted items, oldest first
          got           \* got[t]: the item taker t was given last

vars == <<q, got>>

Init == q = <<>> /\ got = [t \in Takers |-> NoItem]

Put(i) == /\ Weight(Append(q, i)) <= Capacity
          /\ q' = Append(q, i)
          /\ UNCHANGED got

Take(t) == /\ q # <<>>
           /\ got' = [got EXCEPT ![t] = Head(q)]
           /\ q' = Tail(q)

Next == (\E i \in Items : Put(i)) \/ (\E t \in Takers : Take(t))

Spec == Init /\ [][Next]_vars
=============================================================================
