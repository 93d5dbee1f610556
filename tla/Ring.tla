-------------------------------- MODULE Ring --------------------------------
(***************************************************************************)
(* ring_in_vector<NODE_T> (server.hpp): doubly linked rings threaded       *)
(* through one vector by index.  Node j may be the head of a ring: the     *)
(* handles of the multiplexer keep the rings FREE, WAIT and READY in one   *)
(* vector, the connections of the server the rings FREE and WAIT.          *)
(*                                                                         *)
(* A ring value is a record of the two link fields and of a history field  *)
(* that no code reads: home[i] is the head under which node i was last     *)
(* inserted.  The operators are the class's methods, as functions from     *)
(* ring values to ring values.                                             *)
(***************************************************************************)
EXTENDS Integers, Sequences

(* server.hpp:29-31: a state of a handle or handler is also the index of   *)
(* the head of the ring that holds it.                                     *)
FREE  == 0
WAIT  == 1
READY == 2

(* resize(n): every node on the ring of node 0, in index order. *)
Resize(n) ==
  LET size == IF n = 0 THEN 16 ELSE n
  IN  [next |-> [i \in 0..size-1 |-> IF i = size-1 THEN 0 ELSE i+1],
       prev |-> [i \in 0..size-1 |-> IF i = 0 THEN size-1 ELSE i-1],
       home |-> [i \in 0..size-1 |-> 0]]

EmptyRing(r, j) == r.next[j] = j

(* Wrong variant of Insert: first on the ring of j, as a stack. *)
InsertFirst(r, j, k) ==
  LET n == r.next[j]
  IN  [next |-> [[r.next EXCEPT ![k] = n] EXCEPT ![j] = k],
       prev |-> [[r.prev EXCEPT ![k] = j] EXCEPT ![n] = k],
       home |-> [r.home EXCEPT ![k] = j]]

(* insert(j, k) links node k in front of node j: last on the ring of j. *)
Insert(r, j, k) ==
  LET p == r.prev[j]
  IN  [next |-> [[r.next EXCEPT ![k] = j] EXCEPT ![p] = k],
       prev |-> [[r.prev EXCEPT ![k] = p] EXCEPT ![j] = k],
       home |-> [r.home EXCEPT ![k] = j]]

(* Wrong variant of Erase: the neighbour after i still points back to it. *)
EraseHalf(r, i) ==
  [next |-> [[r.next EXCEPT ![r.prev[i]] = r.next[i]] EXCEPT ![i] = i],
   prev |-> [r.prev EXCEPT ![i] = i],
   home |-> [r.home EXCEPT ![i] = i]]

(* erase(i) unlinks node i and leaves it alone on a ring of its own. *)
Erase(r, i) ==
  [next |-> [[r.next EXCEPT ![r.prev[i]] = r.next[i]] EXCEPT ![i] = i],
   prev |-> [[r.prev EXCEPT ![r.next[i]] = r.prev[i]] EXCEPT ![i] = i],
   home |-> [r.home EXCEPT ![i] = i]]

(* The only way the program moves a node: erase(k) and then insert(j, k). *)
Relink(r, k, j) == Insert(Erase(r, k), j, k)

-----------------------------------------------------------------------------
(* What the rings of one vector must be: next and prev inverse to each     *)
(* other and closed on the nodes, and all of a ring under one head.        *)
Links(r, Nodes) ==
  /\ r.next \in [Nodes -> Nodes]
  /\ r.prev \in [Nodes -> Nodes]
  /\ r.home \in [Nodes -> Nodes]

WellLinked(r, Nodes) ==
  /\ Links(r, Nodes)
  /\ \A i \in Nodes : /\ r.next[r.prev[i]] = i
                      /\ r.prev[r.next[i]] = i
                      /\ r.home[r.next[i]] = r.home[i]

(* The nodes of the ring of head h, first to last, as begin() and next()   *)
(* visit them until end(); at most size of them, so that a broken ring has *)
(* a value.                                                                *)
Walk(r, h, size) ==
  LET from[k \in 0..size] ==
        [i \in 0..size-1 |-> IF k = 0 \/ i = h THEN << >> ELSE <<i>> \o from[k-1][r.next[i]]]
  IN  from[size][r.next[h]]
=============================================================================
