---------------------------- MODULE RingInVector ----------------------------
(***************************************************************************)
(* The rings of one vector at work: resize(), the heads taken off the ring *)
(* of node 0, then nodes moved from ring to ring in any order.  The vector *)
(* is that of the multiplexer (mplex-io.cpp:11-13): heads FREE, WAIT and   *)
(* READY, and MaxEvents handles.  RingQueue says what it must look like.   *)
(***************************************************************************)
EXTENDS Ring

CONSTANT MaxEvents     \* handles besides the heads (mplex_io_type's n)

ASSUME MaxEventsAssumption == MaxEvents \in Nat \ {0}

VARIABLE ring

Heads   == {FREE, WAIT, READY}
Size    == MaxEvents + 3
Nodes   == 0..Size-1
Movable == Nodes \ Heads

(* mplex_io_type's constructor: resize, then the heads WAIT and READY out. *)
FreshRing == Erase(Erase(Resize(Size), WAIT), READY)

RingInit == ring = FreshRing

Move(k, j) == ring' = Relink(ring, k, j)

RingNext == \E k \in Movable, j \in Heads : Move(k, j)

RingSpec == RingInit /\ [][RingNext]_ring

-----------------------------------------------------------------------------
(* The links stay a set of closed rings, each wholly under one head, and   *)
(* a head never leaves its own: insert (server.hpp:58) writes k's links    *)
(* before the neighbours' and erase (server.hpp:67) the other way round,   *)
(* which is what keeps them so when k's neighbours are the head itself.    *)
RingInv ==
  /\ WellLinked(ring, Nodes)
  /\ \A h \in Heads : ring.home[h] = h
  /\ \A k \in Movable : ring.home[k] \in Heads

(* The implementation of RingQueue: what begin()/next()/end() enumerate is *)
(* the queue of the head, in the order of the moves (first in, first out), *)
(* so that no handle is served twice or skipped in a pass for its links.   *)
Queue == INSTANCE RingQueue
           WITH First <- READY + 1, Last <- Size - 1,
                queue <- [h \in Heads |-> Walk(ring, h, Size)]

ImplementsQueue == Queue!QueueSpec
=============================================================================
