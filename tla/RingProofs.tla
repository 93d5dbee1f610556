----------------------------- MODULE RingProofs -----------------------------
(***************************************************************************)
(* RingInVector keeps its invariant and implements RingQueue, for a vector *)
(* of any size.                                                            *)
(***************************************************************************)
EXTENDS RingInVector, RingLemmas

LEMMA RingsHold == (RingInit => RingInv) /\ (RingInv /\ [RingNext]_ring => RingInv')
<1> USE MaxEventsAssumption
<1>1. RingInit => RingInv
  <2>1. Size \in Nat /\ Size >= 3 /\ Nodes = 0..Size-1
    BY DEF Size, Nodes
  <2>2. /\ WellLinked(FreshRing, Nodes)
        /\ \A i \in Nodes : FreshRing.home[i] = IF i \in {WAIT, READY} THEN i ELSE FREE
    BY <2>1, FreshLinks DEF FreshRing
  <2>3. Heads \subseteq Nodes /\ Movable \subseteq Nodes
    BY <2>1 DEF Heads, Movable, FREE, WAIT, READY
  <2> QED BY <2>2, <2>3 DEF RingInit, RingInv, Heads, Movable, FREE, WAIT, READY
<1>2. RingInv /\ [RingNext]_ring => RingInv'
  <2> SUFFICES ASSUME RingInv, [RingNext]_ring PROVE RingInv'
    OBVIOUS
  <2>1. CASE UNCHANGED ring
    BY <2>1 DEF RingInv, WellLinked, Links
  <2>2. ASSUME NEW k \in Movable, NEW j \in Heads, Move(k, j)
        PROVE  RingInv'
    <3>1. k \in Nodes /\ j \in Nodes /\ k # j
      BY DEF Movable, Heads, Nodes, Size, FREE, WAIT, READY
    <3>2. /\ WellLinked(Relink(ring, k, j), Nodes)
          /\ \A i \in Nodes : Relink(ring, k, j).home[i] = IF i = k THEN j ELSE ring.home[i]
      BY <3>1, RelinkLinks DEF RingInv
    <3>3. ring.home \in [Nodes -> Nodes] /\ Heads \subseteq Nodes
      BY DEF RingInv, WellLinked, Links, Heads, Nodes, Size, FREE, WAIT, READY
    <3> QED BY <2>2, <3>2, <3>3 DEF Move, RingInv, Movable
  <2> QED BY <2>1, <2>2 DEF RingNext
<1> QED BY <1>1, <1>2

(* The rings stay linked and each node under a head, whatever is moved     *)
(* where, for a vector of any size.                                        *)
THEOREM RingsStayLinked == RingSpec => []RingInv
BY RingsHold, PTL DEF RingSpec

-----------------------------------------------------------------------------
LEMMA SizeFacts ==
  /\ Size \in Nat /\ Size >= 3 /\ Nodes = 0..Size-1
  /\ Heads = {FREE, WAIT, READY} /\ Heads \subseteq Nodes
BY MaxEventsAssumption DEF Size, Nodes, Heads, FREE, WAIT, READY

(* The inductive invariant of the refinement: a walk from a head comes     *)
(* back to it and passes each node of its ring once.                       *)
WalksEnd == RingInv /\ Queued(ring, Size)

(* What a move does to the walks. *)
LEMMA MoveWalks ==
  ASSUME WalksEnd, NEW k \in Movable, NEW j \in Heads, Move(k, j)
  PROVE  Queued(ring', Size) /\ MovesLast(ring, ring', Size, k, j)
<1>1. /\ WellLinked(ring, 0..Size-1) /\ OwnHeads(ring, {FREE, WAIT, READY})
      /\ k \in (0..Size-1) \ {FREE, WAIT, READY} /\ j \in {FREE, WAIT, READY}
      /\ Queued(ring, Size)
  BY SizeFacts DEF WalksEnd, RingInv, OwnHeads, Movable
<1>2. Queued(Relink(ring, k, j), Size) /\ MovesLast(ring, Relink(ring, k, j), Size, k, j)
  BY <1>1, SizeFacts, RelinkQueued
<1>3. ring' = Relink(ring, k, j)
  BY DEF Move
<1> QED BY <1>2, <1>3, SizeFacts

LEMMA WalksKept == RingSpec => []WalksEnd
<1>1. RingInit => WalksEnd
  BY RingsHold, SizeFacts, FreshQueued DEF RingInit, FreshRing, WalksEnd
<1>2. WalksEnd /\ [RingNext]_ring => WalksEnd'
  <2> SUFFICES ASSUME WalksEnd, [RingNext]_ring PROVE WalksEnd'
    OBVIOUS
  <2>1. RingInv'
    BY RingsHold DEF WalksEnd
  <2>2. CASE UNCHANGED ring
    BY <2>1, <2>2 DEF WalksEnd, Queued
  <2>3. CASE RingNext
    BY <2>1, <2>3, MoveWalks DEF RingNext, WalksEnd
  <2> QED BY <2>2, <2>3
<1> QED BY <1>1, <1>2, PTL DEF RingSpec

(* The walks, as the queue that RingQueue speaks of. *)
Walked == [h \in Heads |-> Walk(ring, h, Size)]

(* Each ring is a queue, for a vector of any size: erase(k) and insert(j,  *)
(* k) take k from the queue it is on, leave the others of it in order, and *)
(* put k last on that of j (server.hpp:58-79), so that whoever passes from *)
(* begin() over next() to end() meets the nodes in the order they came,    *)
(* each once.                                                              *)
THEOREM RingsAreQueues == RingSpec => ImplementsQueue
<1>1. RingInit => Queue!QueueInit
  <2> SUFFICES ASSUME RingInit PROVE Queue!QueueInit
    OBVIOUS
  <2>1. ASSUME NEW h \in Heads
        PROVE  Walk(ring, h, Size) = FreshQueue(h, Size)
    BY SizeFacts, FreshQueued DEF RingInit, FreshRing
  <2>2. ASSUME NEW h \in Heads
        PROVE  FreshQueue(h, Size) =
                 IF h = 0 THEN [i \in 1..(Size-1)-(READY+1)+1 |-> (READY+1)+i-1] ELSE << >>
    <3>1. (Size-1)-(READY+1)+1 = Size-3 /\ \A i \in 1..Size-3 : (READY+1)+i-1 = i+2
      BY SizeFacts DEF READY
    <3> QED BY <3>1 DEF FreshQueue, FREE
  <2>3. \A h \in Heads : Walk(ring, h, Size) =
                 IF h = 0 THEN [i \in 1..(Size-1)-(READY+1)+1 |-> (READY+1)+i-1] ELSE << >>
    BY <2>1, <2>2
  <2> QED BY <2>3 DEF Queue!QueueInit
<1>2. WalksEnd /\ [RingNext]_ring => [Queue!QueueNext]_Walked
  <2> SUFFICES ASSUME WalksEnd, [RingNext]_ring PROVE [Queue!QueueNext]_Walked
    OBVIOUS
  <2>1. CASE UNCHANGED ring
    BY <2>1 DEF Walked
  <2>2. ASSUME NEW k \in Movable, NEW j \in Heads, Move(k, j)
        PROVE  Queue!QueueNext
    <3>1. \A s : Queue!Without(s, k) = QueueWithout(s, k)
      BY DEF Queue!Without, QueueWithout
    <3>2. ASSUME NEW h \in Heads
          PROVE  Walk(ring', h, Size) =
                   IF h = j THEN Append(Queue!Without([g \in Heads |-> Walk(ring, g, Size)][h], k), k)
                            ELSE Queue!Without([g \in Heads |-> Walk(ring, g, Size)][h], k)
      BY <2>2, <3>1, MoveWalks, SizeFacts DEF MovesLast, PutLast
    <3>3. Queue!MoveTo(k, j)
      BY <3>2, Zenon DEF Queue!MoveTo
    <3>4. k \in Queue!Movable
      BY SizeFacts DEF Queue!Movable, Movable, FREE, WAIT, READY
    <3> QED BY <3>3, <3>4 DEF Queue!QueueNext
  <2> QED BY <2>1, <2>2 DEF RingNext
<1> QED BY <1>1, <1>2, WalksKept, PTL DEF RingSpec, ImplementsQueue, Queue!QueueSpec, Walked
=============================================================================
