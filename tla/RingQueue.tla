------------------------------ MODULE RingQueue ------------------------------
(***************************************************************************)
(* What ring_in_vector promises its users: each node that is not a head    *)
(* is on the queue of exactly one head, and moving a node takes it from    *)
(* its queue and puts it last on the queue of another (or the same) head.  *)
(***************************************************************************)
EXTENDS Integers, Sequences

CONSTANTS Heads,         \* the nodes used as heads of rings
          First, Last    \* the other nodes are First..Last

VARIABLE queue           \* queue[h]: the nodes of head h, first to last

Movable == First..Last

(* At the start every movable node is on the queue of head 0, ascending. *)
QueueInit ==
  queue = [h \in Heads |-> IF h = 0 THEN [i \in 1..Last-First+1 |-> First+i-1]
                                    ELSE << >>]

(* The queue s without the node k, if it holds it. *)
Without(s, k) ==
  IF \A p \in DOMAIN s : s[p] # k THEN s
  ELSE LET p == CHOOSE p \in DOMAIN s : s[p] = k
       IN  [i \in 1..Len(s)-1 |-> IF i < p THEN s[i] ELSE s[i+1]]

MoveTo(k, j) ==
  queue' = [h \in Heads |-> IF h = j THEN Append(Without(queue[h], k), k)
                                      ELSE Without(queue[h], k)]

QueueNext == \E k \in Movable, j \in Heads : MoveTo(k, j)

QueueSpec == QueueInit /\ [][QueueNext]_queue
=============================================================================
