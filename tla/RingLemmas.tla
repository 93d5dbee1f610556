----------------------------- MODULE RingLemmas -----------------------------
(***************************************************************************)
(* Facts about the operators of Ring, for a vector of any size: each of    *)
(* ring_in_vector's methods keeps the links a set of closed rings.         *)
(***************************************************************************)
EXTENDS Ring, WellFoundedInduction, FiniteSetTheorems, SequenceTheorems, TLAPS

(* resize(n) makes one ring of all nodes, under node 0. *)
LEMMA ResizeLinks ==
  ASSUME NEW n \in Nat \ {0}
  PROVE  /\ WellLinked(Resize(n), 0..n-1)
         /\ \A i \in 0..n-1 : Resize(n).home[i] = 0
BY DEF Resize, WellLinked, Links

(* erase(k) keeps the rings closed; k is alone on one of its own. *)
LEMMA EraseLinks ==
  ASSUME NEW N, NEW r, WellLinked(r, N), NEW k \in N
  PROVE  /\ WellLinked(Erase(r, k), N)
         /\ \A i \in N : Erase(r, k).home[i] = IF i = k THEN k ELSE r.home[i]
         /\ Erase(r, k).next[k] = k /\ Erase(r, k).prev[k] = k
<1> DEFINE e == Erase(r, k)
<1>1. Links(e, N)
  BY DEF WellLinked, Links, Erase
<1>2. /\ \A i \in N : e.home[i] = IF i = k THEN k ELSE r.home[i]
      /\ e.next[k] = k /\ e.prev[k] = k
  BY DEF WellLinked, Links, Erase
<1>3. ASSUME NEW i \in N
      PROVE  e.next[e.prev[i]] = i /\ e.prev[e.next[i]] = i /\ e.home[e.next[i]] = e.home[i]
  BY DEF WellLinked, Links, Erase
<1> QED BY <1>1, <1>2, <1>3 DEF WellLinked

(* insert(j, k) of a node that is alone puts it on the ring of j. *)
LEMMA InsertLinks ==
  ASSUME NEW N, NEW r, WellLinked(r, N), NEW k \in N, NEW j \in N, k # j,
         r.home[j] = j, r.next[k] = k, r.prev[k] = k
  PROVE  /\ WellLinked(Insert(r, j, k), N)
         /\ \A i \in N : Insert(r, j, k).home[i] = IF i = k THEN j ELSE r.home[i]
<1> DEFINE e == Insert(r, j, k)
<1>1. Links(e, N)
  BY DEF WellLinked, Links, Insert
<1>2. \A i \in N : e.home[i] = IF i = k THEN j ELSE r.home[i]
  BY DEF WellLinked, Links, Insert
<1>3. ASSUME NEW i \in N
      PROVE  e.next[e.prev[i]] = i /\ e.prev[e.next[i]] = i /\ e.home[e.next[i]] = e.home[i]
  BY DEF WellLinked, Links, Insert
<1> QED BY <1>1, <1>2, <1>3 DEF WellLinked

(* The program's move: erase(k), then insert(j, k) for a head j. *)
LEMMA RelinkLinks ==
  ASSUME NEW N, NEW r, WellLinked(r, N), NEW k \in N, NEW j \in N, k # j,
         r.home[j] = j
  PROVE  /\ WellLinked(Relink(r, k, j), N)
         /\ \A i \in N : Relink(r, k, j).home[i] = IF i = k THEN j ELSE r.home[i]
<1>1. PICK e : e = Erase(r, k)
  OBVIOUS
<1>2. /\ WellLinked(e, N)
      /\ \A i \in N : e.home[i] = IF i = k THEN k ELSE r.home[i]
      /\ e.next[k] = k /\ e.prev[k] = k
  BY <1>1, EraseLinks
<1>3. e.home[j] = j
  BY <1>2
<1>4. /\ WellLinked(Insert(e, j, k), N)
      /\ \A i \in N : Insert(e, j, k).home[i] = IF i = k THEN j ELSE e.home[i]
  BY <1>2, <1>3, InsertLinks
<1> QED BY <1>1, <1>2, <1>4 DEF Relink

(* The constructor of mplex_io_type: three rings, all other nodes on that  *)
(* of FREE.                                                                *)
LEMMA FreshLinks ==
  ASSUME NEW n \in Nat, n >= 3
  PROVE  LET r == Erase(Erase(Resize(n), WAIT), READY)
         IN  /\ WellLinked(r, 0..n-1)
             /\ \A i \in 0..n-1 : r.home[i] = IF i \in {WAIT, READY} THEN i ELSE FREE
<1>1. PICK z : z = Resize(n)
  OBVIOUS
<1>2. WellLinked(z, 0..n-1) /\ \A i \in 0..n-1 : z.home[i] = 0
  BY <1>1, ResizeLinks
<1>3. WAIT \in 0..n-1 /\ READY \in 0..n-1
  BY DEF WAIT, READY
<1>4. PICK a : a = Erase(z, WAIT)
  OBVIOUS
<1>5. /\ WellLinked(a, 0..n-1)
      /\ \A i \in 0..n-1 : a.home[i] = IF i = WAIT THEN WAIT ELSE z.home[i]
  BY <1>2, <1>3, <1>4, EraseLinks
<1>6. PICK b : b = Erase(a, READY)
  OBVIOUS
<1>7. /\ WellLinked(b, 0..n-1)
      /\ \A i \in 0..n-1 : b.home[i] = IF i = READY THEN READY ELSE a.home[i]
  BY <1>3, <1>5, <1>6, EraseLinks
<1>8. \A i \in 0..n-1 : b.home[i] = IF i \in {WAIT, READY} THEN i ELSE FREE
  BY <1>2, <1>5, <1>7 DEF WAIT, READY, FREE
<1> QED BY <1>1, <1>4, <1>6, <1>7, <1>8

-----------------------------------------------------------------------------
(* Every node is on the ring of a head: no set of nodes without a head is  *)
(* closed under prev.                                                      *)
Rooted(r, N, H) == \A S \in SUBSET (N \ H) : S # {} => \E i \in S : r.prev[i] \notin S

(* Only a head can be a ring by itself. *)
LEMMA RootedNotAlone ==
  ASSUME NEW N, NEW H, NEW r, WellLinked(r, N), Rooted(r, N, H), NEW k \in N \ H
  PROVE  r.prev[k] # k /\ r.next[k] # k
<1>1. {k} \in SUBSET (N \ H) /\ {k} # {}
  OBVIOUS
<1>2. r.prev[k] # k
  BY <1>1 DEF Rooted
<1> QED BY <1>2 DEF WellLinked

(* A ring that looks empty from its head holds no other node. *)
LEMMA RootedEmpty ==
  ASSUME NEW N, NEW H, NEW r, WellLinked(r, N), Rooted(r, N, H), H \subseteq N,
         \A g \in H : r.home[g] = g, NEW h \in H, EmptyRing(r, h), NEW i \in N, r.home[i] = h
  PROVE  i = h
<1> DEFINE S == {k \in N \ H : r.home[k] = h}
<1>1. ASSUME NEW k \in S
      PROVE  r.prev[k] \in S
  <2>1. r.prev[k] \in N /\ r.home[r.prev[k]] = h
    BY DEF WellLinked, Links
  <2>2. r.prev[k] # h
    BY DEF WellLinked, EmptyRing
  <2> QED BY <2>1, <2>2
<1>2. S = {}
  BY <1>1 DEF Rooted
<1> QED BY <1>2

(* The links after erase(k) and insert(j, k) of a node k that is not alone. *)
LEMMA RelinkShape ==
  ASSUME NEW N, NEW r, WellLinked(r, N), NEW k \in N, NEW j \in N, k # j, r.prev[k] # k,
         NEW q, q = IF r.next[k] = j THEN r.prev[k] ELSE r.prev[j],
         NEW t, t = Relink(r, k, j)
  PROVE  /\ q \in N /\ q # k
         /\ \A i \in N : t.prev[i] = IF i = j THEN k
                                     ELSE IF i = k THEN q
                                     ELSE IF i = r.next[k] THEN r.prev[k] ELSE r.prev[i]
         /\ \A i \in N : t.next[i] = IF i = k THEN j
                                     ELSE IF i = q THEN k
                                     ELSE IF i = r.prev[k] THEN r.next[k] ELSE r.next[i]
<1>1. PICK e : e = Erase(r, k)
  OBVIOUS
<1>2. /\ r.next \in [N -> N] /\ r.prev \in [N -> N]
      /\ r.next[k] # k /\ r.next[k] \in N /\ r.prev[k] \in N
  BY DEF WellLinked, Links
<1>3. /\ e.next = [[r.next EXCEPT ![r.prev[k]] = r.next[k]] EXCEPT ![k] = k]
      /\ e.prev = [[r.prev EXCEPT ![r.next[k]] = r.prev[k]] EXCEPT ![k] = k]
  BY <1>1 DEF Erase
<1>4. e.prev[j] = q
  BY <1>2, <1>3
<1>5. q \in N /\ q # k
  BY <1>2 DEF WellLinked
<1>6. /\ t.next = [[e.next EXCEPT ![k] = j] EXCEPT ![q] = k]
      /\ t.prev = [[e.prev EXCEPT ![k] = q] EXCEPT ![j] = k]
  BY <1>1, <1>4 DEF Relink, Insert
<1>7. /\ e.next \in [N -> N] /\ e.prev \in [N -> N]
      /\ \A i \in N : e.prev[i] = IF i = k THEN k
                                  ELSE IF i = r.next[k] THEN r.prev[k] ELSE r.prev[i]
      /\ \A i \in N : e.next[i] = IF i = k THEN k
                                  ELSE IF i = r.prev[k] THEN r.next[k] ELSE r.next[i]
  BY <1>2, <1>3
<1> QED BY <1>5, <1>6, <1>7

(* The program's move leaves every node on the ring of a head. *)
LEMMA RelinkRooted ==
  ASSUME NEW N, NEW H, NEW r, WellLinked(r, N), Rooted(r, N, H), NEW k \in N \ H,
         NEW j \in H, j \in N
  PROVE  Rooted(Relink(r, k, j), N, H)
<1>1. PICK t : t = Relink(r, k, j)
  OBVIOUS
<1>2. PICK q : q = IF r.next[k] = j THEN r.prev[k] ELSE r.prev[j]
  OBVIOUS
<1>3. k # j /\ r.prev[k] # k
  BY RootedNotAlone
<1>4. /\ q \in N /\ q # k
      /\ \A i \in N : t.prev[i] = IF i = j THEN k
                                  ELSE IF i = k THEN q
                                  ELSE IF i = r.next[k] THEN r.prev[k] ELSE r.prev[i]
  BY <1>1, <1>2, <1>3, RelinkShape
<1>5. ASSUME NEW S \in SUBSET (N \ H), S # {}, \A i \in S : t.prev[i] \in S
      PROVE  FALSE
  <2>1. CASE r.next[k] \in S
    <3>1. S \cup {k} \in SUBSET (N \ H) /\ S \cup {k} # {}
      OBVIOUS
    <3>2. r.prev[k] \in S
      <4>1. r.next[k] # j /\ r.next[k] # k
        BY <1>3, <2>1 DEF WellLinked
      <4> QED BY <1>4, <1>5, <2>1, <4>1
    <3>3. ASSUME NEW i \in S \cup {k}
          PROVE  r.prev[i] \in S \cup {k}
      <4>1. CASE i = k
        BY <3>2, <4>1
      <4>2. CASE i = r.next[k]
        BY <4>2 DEF WellLinked
      <4>3. CASE i # k /\ i # r.next[k]
        BY <1>4, <1>5, <4>3
      <4> QED BY <4>1, <4>2, <4>3
    <3> QED BY <3>1, <3>3 DEF Rooted
  <2>2. CASE r.next[k] \notin S
    <3>1. S \ {k} \in SUBSET (N \ H)
      OBVIOUS
    <3>2. S \ {k} # {}
      BY <1>4, <1>5
    <3>3. ASSUME NEW i \in S \ {k}
          PROVE  r.prev[i] \in S \ {k}
      <4>1. t.prev[i] = r.prev[i]
        BY <1>4, <2>2
      <4>2. r.prev[i] # k
        BY <2>2 DEF WellLinked
      <4> QED BY <1>5, <4>1, <4>2
    <3> QED BY <3>1, <3>2, <3>3 DEF Rooted
  <2> QED BY <2>1, <2>2
<1> QED BY <1>1, <1>5 DEF Rooted

(* A move concerns the ring it takes the node from and the one it puts it  *)
(* on, and no other.                                                       *)
LEMMA RelinkElsewhere ==
  ASSUME NEW N, NEW r, WellLinked(r, N), NEW k \in N, NEW j \in N, k # j, r.prev[k] # k,
         r.home[j] = j, NEW i \in N, r.home[i] # r.home[k], r.home[i] # j
  PROVE  Relink(r, k, j).next[i] = r.next[i] /\ Relink(r, k, j).prev[i] = r.prev[i]
<1>1. PICK t : t = Relink(r, k, j)
  OBVIOUS
<1>2. PICK q : q = IF r.next[k] = j THEN r.prev[k] ELSE r.prev[j]
  OBVIOUS
<1>3. r.prev[j] \in N /\ r.prev[k] \in N /\ r.next[k] \in N
  BY DEF WellLinked, Links
<1>4. r.home[r.prev[j]] = j /\ r.home[r.prev[k]] = r.home[k] /\ r.home[r.next[k]] = r.home[k]
  BY <1>3 DEF WellLinked
<1>5. i # k /\ i # j /\ i # q /\ i # r.prev[k] /\ i # r.next[k]
  BY <1>2, <1>4
<1> QED BY <1>1, <1>2, <1>5, RelinkShape

-----------------------------------------------------------------------------
(* The rings the constructors make. *)
LEMMA LeastElement ==
  ASSUME NEW T, T \subseteq Nat, T # {}
  PROVE  \E x \in T : \A y \in T : x <= y
<1>1. PICK x \in T : \A y \in T : <<y, x>> \notin OpToRel(<, Nat)
  BY WFMin, NatLessThanWellFounded, Zenon
<1>2. \A y \in T : ~(y < x)
  BY <1>1, Zenon DEF OpToRel
<1> QED BY <1>2

(* Rings in index order, as resize links them, have a head each. *)
LEMMA DescendingRooted ==
  ASSUME NEW N \in SUBSET Nat, NEW H, NEW r,
         \A i \in N \ H : r.prev[i] \in Nat /\ r.prev[i] < i
  PROVE  Rooted(r, N, H)
<1> SUFFICES ASSUME NEW S \in SUBSET (N \ H), S # {}
             PROVE  \E i \in S : r.prev[i] \notin S
  BY DEF Rooted
<1>1. S \subseteq Nat
  OBVIOUS
<1>2. PICK i \in S : \A k \in S : i <= k
  BY <1>1, LeastElement, Zenon
<1>3. r.prev[i] \in Nat /\ r.prev[i] < i /\ i \in Nat
  BY <1>1
<1>4. ~(i <= r.prev[i])
  BY <1>3
<1> QED BY <1>2, <1>4, Zenon

(* resize(n), pointwise. *)
LEMMA ResizeShape ==
  ASSUME NEW n \in Nat \ {0}, NEW z, z = Resize(n)
  PROVE  /\ z.next \in [0..n-1 -> 0..n-1] /\ z.prev \in [0..n-1 -> 0..n-1]
         /\ \A i \in 0..n-1 : i # n-1 => z.next[i] = i+1
         /\ \A i \in 0..n-1 : i # 0 => z.prev[i] = i-1
         /\ z.next[n-1] = 0 /\ z.prev[0] = n-1
<1>1. /\ z.next = [i \in 0..n-1 |-> IF i = n-1 THEN 0 ELSE i+1]
      /\ z.prev = [i \in 0..n-1 |-> IF i = 0 THEN n-1 ELSE i-1]
  BY DEF Resize
<1> QED BY <1>1

(* The rings FREE and WAIT of a vector of n nodes of which none is taken:  *)
(* the free ones in index order.                                           *)
NoneTaken(r, n) ==
  /\ WellLinked(r, 0..n-1) /\ Rooted(r, 0..n-1, {FREE, WAIT})
  /\ \A i \in 0..n-1 : r.home[i] = IF i = WAIT THEN WAIT ELSE FREE
  /\ r.next[FREE] = (IF n = 2 THEN 0 ELSE 2)
  /\ \A i \in 2..n-1 : /\ i # n-1 => r.next[i] = i+1
                       /\ i # 2 => r.prev[i] = i-1
  /\ n > 2 => r.prev[2] = FREE /\ r.next[n-1] = FREE

(* The constructor of tcpserver_type links its connection objects so. *)
LEMMA ObjectsShape ==
  ASSUME NEW n \in Nat, n >= 2, NEW r, r = Erase(Resize(n), WAIT)
  PROVE  NoneTaken(r, n)
<1>1. WellLinked(r, 0..n-1) /\ \A i \in 0..n-1 : r.home[i] = IF i = WAIT THEN WAIT ELSE FREE
  <2>1. WellLinked(Resize(n), 0..n-1) /\ \A i \in 0..n-1 : Resize(n).home[i] = 0
    BY ResizeLinks
  <2>2. WAIT \in 0..n-1
    BY DEF WAIT
  <2> QED BY <2>1, <2>2, EraseLinks DEF FREE
<1>2. PICK z : z = Resize(n)
  OBVIOUS
<1>3. /\ z.next \in [0..n-1 -> 0..n-1] /\ z.prev \in [0..n-1 -> 0..n-1]
      /\ \A i \in 0..n-1 : i # n-1 => z.next[i] = i+1
      /\ \A i \in 0..n-1 : i # 0 => z.prev[i] = i-1
      /\ z.next[n-1] = 0 /\ z.prev[0] = n-1
  <2>1. n \in Nat \ {0}
    OBVIOUS
  <2> QED BY <1>2, <2>1, ResizeShape
<1>4. /\ \A i \in 0..n-1 : r.next[i] = IF i = 1 THEN 1 ELSE IF i = z.prev[1] THEN z.next[1]
                                                                        ELSE z.next[i]
      /\ \A i \in 0..n-1 : r.prev[i] = IF i = 1 THEN 1 ELSE IF i = z.next[1] THEN z.prev[1]
                                                                        ELSE z.prev[i]
  <2>1. r = Erase(z, 1) /\ 1 \in 0..n-1
    BY <1>2 DEF WAIT
  <2>2. /\ r.next = [[z.next EXCEPT ![z.prev[1]] = z.next[1]] EXCEPT ![1] = 1]
        /\ r.prev = [[z.prev EXCEPT ![z.next[1]] = z.prev[1]] EXCEPT ![1] = 1]
    BY <2>1 DEF Erase
  <2> QED BY <1>3, <2>1, <2>2
<1>5. z.prev[1] = 0 /\ z.next[1] = (IF n = 2 THEN 0 ELSE 2)
  BY <1>3
<1>6. ASSUME NEW i \in 2..n-1
      PROVE  /\ i # n-1 => r.next[i] = i+1
             /\ i = n-1 => r.next[i] = FREE
             /\ i # 2 => r.prev[i] = i-1
             /\ i = 2 => r.prev[i] = FREE
  <2>1. i \in 0..n-1 /\ i # 0 /\ i # 1
    OBVIOUS
  <2>2. r.next[i] = z.next[i]
    BY <1>4, <1>5, <2>1
  <2>3. r.prev[i] = IF i = z.next[1] THEN 0 ELSE z.prev[i]
    BY <1>4, <1>5, <2>1
  <2>4. z.next[1] = 2
    BY <1>5
  <2> QED BY <1>3, <2>1, <2>2, <2>3, <2>4 DEF FREE
<1>7. r.next[FREE] = (IF n = 2 THEN 0 ELSE 2)
  BY <1>4, <1>5 DEF FREE
<1>8. \A i \in (0..n-1) \ {FREE, WAIT} : r.prev[i] \in Nat /\ r.prev[i] < i
  BY <1>6 DEF FREE, WAIT
<1>9. Rooted(r, 0..n-1, {FREE, WAIT})
  BY <1>8, DescendingRooted
<1>10. n > 2 => 2 \in 2..n-1 /\ n-1 \in 2..n-1
  OBVIOUS
<1> QED BY <1>1, <1>6, <1>7, <1>9, <1>10 DEF NoneTaken

(* mplex_io_type: the free handles in index order. *)
LEMMA FreshShape ==
  ASSUME NEW n \in Nat, n >= 3, NEW r, r = Erase(Erase(Resize(n), WAIT), READY)
  PROVE  /\ r.next[FREE] = (IF n = 3 THEN 0 ELSE 3)
         /\ \A i \in 3..n-1 : /\ i # n-1 => r.next[i] = i+1
                              /\ i # 3 => r.prev[i] = i-1
         /\ n > 3 => r.prev[3] = FREE /\ r.next[n-1] = FREE
         /\ Rooted(r, 0..n-1, {FREE, WAIT, READY})
<1>1. PICK a : a = Erase(Resize(n), WAIT)
  OBVIOUS
<1>2. /\ WellLinked(a, 0..n-1)
      /\ a.next[0] = 2 /\ a.prev[2] = 0
      /\ \A i \in 2..n-1 : /\ i # n-1 => a.next[i] = i+1
                           /\ i # 2 => a.prev[i] = i-1
      /\ a.next[n-1] = 0
  <2>1. NoneTaken(a, n)
    BY <1>1, ObjectsShape
  <2>2. n > 2
    OBVIOUS
  <2> QED BY <2>1, <2>2 DEF NoneTaken, FREE
<1>3. a.next \in [0..n-1 -> 0..n-1] /\ a.prev \in [0..n-1 -> 0..n-1]
  BY <1>2 DEF WellLinked, Links
<1>4. /\ \A i \in 0..n-1 : r.next[i] = IF i = 2 THEN 2 ELSE IF i = a.prev[2] THEN a.next[2]
                                                                        ELSE a.next[i]
      /\ \A i \in 0..n-1 : r.prev[i] = IF i = 2 THEN 2 ELSE IF i = a.next[2] THEN a.prev[2]
                                                                        ELSE a.prev[i]
  <2>1. r = Erase(a, 2) /\ 2 \in 0..n-1
    BY <1>1 DEF READY
  <2>2. /\ r.next = [[a.next EXCEPT ![a.prev[2]] = a.next[2]] EXCEPT ![2] = 2]
        /\ r.prev = [[a.prev EXCEPT ![a.next[2]] = a.prev[2]] EXCEPT ![2] = 2]
    BY <2>1 DEF Erase
  <2> QED BY <1>3, <2>1, <2>2
<1>5. a.next[2] = (IF n = 3 THEN 0 ELSE 3)
  BY <1>2
<1>6. ASSUME NEW i \in 3..n-1
      PROVE  /\ i # n-1 => r.next[i] = i+1
             /\ i = n-1 => r.next[i] = FREE
             /\ i # 3 => r.prev[i] = i-1
             /\ i = 3 => r.prev[i] = FREE
  <2>1. i \in 0..n-1 /\ i \in 2..n-1 /\ i # 2 /\ i # 0 /\ n # 3
    OBVIOUS
  <2> QED BY <1>2, <1>4, <1>5, <2>1 DEF FREE
<1>7. r.next[FREE] = (IF n = 3 THEN 0 ELSE 3)
  BY <1>2, <1>4, <1>5 DEF FREE
<1>8. \A i \in (0..n-1) \ {FREE, WAIT, READY} : r.prev[i] \in Nat /\ r.prev[i] < i
  BY <1>6 DEF FREE, WAIT, READY
<1>9. Rooted(r, 0..n-1, {FREE, WAIT, READY})
  BY <1>8, DescendingRooted
<1>10. n > 3 => 3 \in 3..n-1 /\ n-1 \in 3..n-1
  OBVIOUS
<1> QED BY <1>6, <1>7, <1>9, <1>10

-----------------------------------------------------------------------------
(* Induction, over a set of numbers. *)
LEMMA AllNumbers ==
  ASSUME NEW T, 0 \in T, \A n \in Nat : n \in T => n + 1 \in T
  PROVE  Nat \subseteq T
<1> SUFFICES ASSUME NEW m \in Nat, m \notin T PROVE FALSE
  OBVIOUS
<1>1. PICK x \in Nat \ T : \A y \in Nat \ T : x <= y
  <2>1. Nat \ T \subseteq Nat /\ Nat \ T # {}
    OBVIOUS
  <2> QED BY <2>1, LeastElement, Zenon
<1>2. x # 0 /\ x - 1 \in Nat
  BY <1>1
<1>3. x - 1 \in T
  BY <1>1, <1>2
<1> QED BY <1>1, <1>2, <1>3

LEMMA IntervalSize ==
  ASSUME NEW n \in Nat
  PROVE  IsFiniteSet(0..n) /\ Cardinality(0..n) = n + 1
<1>1. 0 \in Int /\ n \in Int /\ ~(0 > n) /\ n - 0 + 1 = n + 1
  OBVIOUS
<1>2. Cardinality(0..n) = IF 0 > n THEN 0 ELSE n - 0 + 1
  BY <1>1, FS_Interval, Zenon
<1>3. IsFiniteSet(0..n)
  BY <1>1, FS_Interval, Zenon
<1> QED BY <1>1, <1>2, <1>3

(* s holds the nodes of the ring of h, in the order of the links. *)
NodeAt(s, h, i) == IF i \in 1..Len(s) THEN s[i] ELSE h

Threaded(r, N, H, h, s) ==
  /\ s \in Seq(N \ H)
  /\ \A i, l \in 1..Len(s) : s[i] = s[l] => i = l
  /\ \A i \in 1..Len(s) : r.home[s[i]] = h
  /\ \A k \in N \ H : r.home[k] = h => \E i \in 1..Len(s) : s[i] = k
  /\ \A i \in 0..Len(s) : r.next[NodeAt(s, h, i)] = NodeAt(s, h, i+1)

LEMMA ThreadedShort ==
  ASSUME NEW size \in Nat, NEW H, NEW h \in H, h \in 0..size-1, NEW r, NEW s,
         Threaded(r, 0..size-1, H, h, s)
  PROVE  Len(s) + 1 <= size
<1>1. PICK n : n = Len(s)
  OBVIOUS
<1>2. n \in Nat /\ \A i \in 1..n : s[i] \in (0..size-1) \ H
  BY <1>1 DEF Threaded
<1> SUFFICES ASSUME n + 1 > size PROVE FALSE
  BY <1>1, <1>2
<1> DEFINE f == [i \in 0..n |-> NodeAt(s, h, i)]
<1>3. f \in [0..n -> 0..size-1]
  BY <1>1, <1>2 DEF NodeAt
<1>4. /\ IsFiniteSet(0..n) /\ IsFiniteSet(0..size-1)
      /\ Cardinality(0..size-1) < Cardinality(0..n)
  <2>1. size - 1 \in Nat
    OBVIOUS
  <2>2. IsFiniteSet(0..n) /\ Cardinality(0..n) = n + 1
    BY <1>2, IntervalSize
  <2>3. IsFiniteSet(0..size-1) /\ Cardinality(0..size-1) = size - 1 + 1
    BY <2>1, IntervalSize
  <2> QED BY <1>2, <2>2, <2>3
<1>5. PICK i, l \in 0..n : i # l /\ f[i] = f[l]
  <2> HIDE DEF f
  <2> QED BY <1>3, <1>4, FS_PigeonHole
<1>6. NodeAt(s, h, i) = NodeAt(s, h, l)
  BY <1>5
<1> QED BY <1>1, <1>2, <1>5, <1>6 DEF NodeAt, Threaded

(* What Walk makes of at most k nodes from i on, given what it makes of at *)
(* most k-1.                                                               *)
WalkRow(v, k, r, h, size) ==
  [i \in 0..size-1 |-> IF k = 0 \/ i = h THEN << >> ELSE <<i>> \o v[r.next[i]]]

WalkRows(w, r, h, size, n) == [k \in 0..n |-> WalkRow(w[k-1], k, r, h, size)]

LEMMA FirstRow ==
  ASSUME NEW u, NEW v, NEW r, NEW h, NEW size
  PROVE  WalkRow(u, 0, r, h, size) = WalkRow(v, 0, r, h, size)
BY DEF WalkRow

(* There is such a function: Walk is what its definition says. *)
LEMMA RowsExist ==
  ASSUME NEW r, NEW h, NEW size, NEW n \in Nat
  PROVE  \E w : w = WalkRows(w, r, h, size, n)
<1> DEFINE T == {m \in Nat : \E w : w = WalkRows(w, r, h, size, m)}
<1>1. 0 \in T
  <2> DEFINE w == [k \in 0..0 |-> WalkRow(0, 0, r, h, size)]
  <2>1. \A k \in 0..0 : WalkRow(0, 0, r, h, size) = WalkRow(w[k-1], k, r, h, size)
    BY FirstRow
  <2>2. w = WalkRows(w, r, h, size, 0)
    BY <2>1, Zenon DEF WalkRows
  <2> HIDE DEF w
  <2> QED BY <2>2
<1>2. ASSUME NEW m \in Nat, m \in T PROVE m + 1 \in T
  <2>1. PICK f : f = WalkRows(f, r, h, size, m)
    BY <1>2
  <2> DEFINE w == [k \in 0..m+1 |-> IF k = m+1 THEN WalkRow(f[m], m+1, r, h, size) ELSE f[k]]
  <2>2. ASSUME NEW k \in 0..m+1 PROVE w[k] = WalkRow(w[k-1], k, r, h, size)
    <3>1. CASE k = m+1
      <4>1. k - 1 = m /\ m \in 0..m+1 /\ m # m+1
        BY <3>1
      <4>2. w[k] = WalkRow(f[m], m+1, r, h, size) /\ w[m] = f[m]
        BY <3>1, <4>1
      <4> HIDE DEF w
      <4> QED BY <3>1, <4>1, <4>2
    <3>2. CASE k # m+1
      <4>1. k \in 0..m /\ w[k] = f[k]
        BY <3>2
      <4>2. f[k] = WalkRow(f[k-1], k, r, h, size)
        BY <2>1, <4>1, Zenon DEF WalkRows
      <4>3. k # 0 => w[k-1] = f[k-1]
        BY <3>2
      <4> HIDE DEF w
      <4>4. CASE k = 0
        BY <4>1, <4>2, <4>4, FirstRow
      <4>5. CASE k # 0
        BY <4>1, <4>2, <4>3, <4>5
      <4> QED BY <4>4, <4>5
    <3> QED BY <3>1, <3>2
  <2>3. w = WalkRows(w, r, h, size, m+1)
    <3>1. DOMAIN w = 0..m+1 /\ w = [k \in 0..m+1 |-> w[k]]
      OBVIOUS
    <3> HIDE DEF w
    <3> QED BY <2>2, <3>1, Zenon DEF WalkRows
  <2> HIDE DEF w
  <2> QED BY <2>3
<1> HIDE DEF T
<1>3. n \in T
  BY <1>1, <1>2, AllNumbers
<1> QED BY <1>3 DEF T

LEMMA WalkIsRow ==
  ASSUME NEW r, NEW h, NEW size \in Nat
  PROVE  \E w : w = WalkRows(w, r, h, size, size) /\ Walk(r, h, size) = w[size][r.next[h]]
<1> DEFINE w == CHOOSE f : f = WalkRows(f, r, h, size, size)
<1>1. w = WalkRows(w, r, h, size, size)
  BY RowsExist, Zenon
<1>2. Walk(r, h, size) = w[size][r.next[h]]
  BY Zenon DEF Walk, WalkRows, WalkRow
<1> HIDE DEF w
<1> QED BY <1>1, <1>2

(* The rest of a sequence from its p-th element on. *)
LEMMA RestOf ==
  ASSUME NEW S, NEW s \in Seq(S), NEW p \in 1..Len(s)
  PROVE  SubSeq(s, p, Len(s)) = <<s[p]>> \o SubSeq(s, p+1, Len(s))
<1>1. PICK n : n = Len(s)
  OBVIOUS
<1>2. PICK a : a = SubSeq(s, p, n)
  OBVIOUS
<1>3. PICK b : b = SubSeq(s, p+1, n)
  OBVIOUS
<1>4. n \in Nat /\ p \in 1..n
  BY <1>1
<1>5. a \in Seq(S) /\ Len(a) = n-p+1 /\ \A i \in 1..n-p+1 : a[i] = s[p+i-1]
  BY <1>1, <1>2, <1>4
<1>6. b \in Seq(S) /\ Len(b) = n-p /\ \A i \in 1..n-p : b[i] = s[p+i]
  BY <1>1, <1>3, <1>4
<1>7. PICK c : c = <<s[p]>> \o b
  OBVIOUS
<1>8. s[p] \in S /\ <<s[p]>> \in Seq(S) /\ Len(<<s[p]>>) = 1 /\ <<s[p]>>[1] = s[p]
  OBVIOUS
<1>9. c \in Seq(S) /\ Len(c) = n-p+1
      /\ \A i \in 1..n-p+1 : c[i] = IF i = 1 THEN s[p] ELSE b[i-1]
  BY <1>4, <1>6, <1>7, <1>8
<1>10. \A i \in 1..n-p+1 : c[i] = a[i]
  <2> SUFFICES ASSUME NEW i \in 1..n-p+1 PROVE c[i] = a[i]
    OBVIOUS
  <2>1. CASE i = 1
    BY <1>4, <1>5, <1>9, <2>1
  <2>2. CASE i # 1
    <3>1. i-1 \in 1..n-p /\ p+(i-1) = p+i-1
      BY <1>4, <2>2
    <3> QED BY <1>5, <1>6, <1>9, <2>2, <3>1
  <2> QED BY <2>1, <2>2
<1>11. c = a
  BY <1>5, <1>9, <1>10, SeqEqual, Zenon
<1> QED BY <1>1, <1>2, <1>3, <1>7, <1>11

LEMMA WalkThreaded ==
  ASSUME NEW size \in Nat, NEW H, NEW h \in H, h \in 0..size-1, NEW r, NEW s,
         Threaded(r, 0..size-1, H, h, s)
  PROVE  Walk(r, h, size) = s
<1>1. PICK n : n = Len(s)
  OBVIOUS
<1>2. n \in Nat /\ n + 1 <= size /\ s \in Seq((0..size-1) \ H)
  <2>1. n + 1 <= size
    BY <1>1, ThreadedShort
  <2> QED BY <1>1, <2>1 DEF Threaded
<1>3. PICK w : w = WalkRows(w, r, h, size, size) /\ Walk(r, h, size) = w[size][r.next[h]]
  BY WalkIsRow
<1>4. ASSUME NEW k \in 0..size, NEW i \in 0..size-1
      PROVE  w[k][i] = IF k = 0 \/ i = h THEN << >> ELSE <<i>> \o w[k-1][r.next[i]]
  <2>1. w[k] = WalkRow(w[k-1], k, r, h, size)
    BY <1>3, Zenon DEF WalkRows
  <2> QED BY <2>1, Zenon DEF WalkRow
<1> DEFINE Good(k) == \A p \in 1..n+1 : n+1 <= k+p => w[k][NodeAt(s, h, p)] = SubSeq(s, p, n)
           T == {k \in Nat : k <= size => Good(k)}
<1>5. ASSUME NEW k \in 0..size PROVE w[k][h] = << >> /\ SubSeq(s, n+1, n) = << >> /\ NodeAt(s, h, n+1) = h
  <2>1. w[k][h] = << >>
    BY <1>4, Zenon
  <2>2. SubSeq(s, n+1, n) = << >>
    BY <1>2
  <2>3. n + 1 \notin 1..Len(s)
    BY <1>1, <1>2
  <2> QED BY <2>1, <2>2, <2>3 DEF NodeAt
<1>6. 0 \in T
  <2>1. \A p \in 1..n+1 : n+1 <= 0+p => p = n+1
    BY <1>2
  <2>2. 0 \in 0..size
    OBVIOUS
  <2> QED BY <1>5, <2>1, <2>2
<1>7. ASSUME NEW k \in Nat, k \in T PROVE k + 1 \in T
  <2> SUFFICES ASSUME k + 1 <= size, NEW p \in 1..n+1, n+1 <= (k+1)+p
               PROVE  w[k+1][NodeAt(s, h, p)] = SubSeq(s, p, n)
    OBVIOUS
  <2>1. k + 1 \in 0..size /\ k \in 0..size /\ (k+1)-1 = k /\ k + 1 # 0
    OBVIOUS
  <2>2. CASE p = n+1
    BY <1>5, <2>1, <2>2
  <2>3. CASE p # n+1
    <3>1. p \in 1..n /\ p+1 \in 1..n+1 /\ n+1 <= k+(p+1) /\ p \in 0..n
      BY <1>2, <2>3
    <3>2. NodeAt(s, h, p) = s[p] /\ s[p] \in 0..size-1 /\ s[p] # h
      BY <1>1, <1>2, <3>1 DEF NodeAt
    <3>3. w[k+1][s[p]] = <<s[p]>> \o w[k][r.next[s[p]]]
      BY <1>4, <2>1, <3>2
    <3>4. r.next[s[p]] = NodeAt(s, h, p+1)
      BY <1>1, <3>1, <3>2 DEF Threaded
    <3>5. w[k][NodeAt(s, h, p+1)] = SubSeq(s, p+1, n)
      <4>1. k <= size
        BY <2>1
      <4> QED BY <1>7, <3>1, <4>1
    <3>6. SubSeq(s, p, n) = <<s[p]>> \o SubSeq(s, p+1, n)
      BY <1>1, <1>2, <3>1, RestOf
    <3> HIDE DEF T, Good
    <3> QED BY <3>2, <3>3, <3>4, <3>5, <3>6
  <2> QED BY <2>2, <2>3
<1>8. Good(size)
  <2> HIDE DEF T
  <2>1. Nat \subseteq T
    BY <1>6, <1>7, AllNumbers
  <2> HIDE DEF Good
  <2> USE DEF T
  <2> QED BY <2>1
<1>9. w[size][NodeAt(s, h, 1)] = SubSeq(s, 1, n)
  BY <1>2, <1>8
<1>10. r.next[h] = NodeAt(s, h, 1)
  <2>1. 0 \in 0..n /\ 0 + 1 = 1 /\ NodeAt(s, h, 0) = h
    BY <1>1, <1>2 DEF NodeAt
  <2> QED BY <1>1, <2>1 DEF Threaded
<1>11. SubSeq(s, 1, n) = s
  BY <1>1, <1>2
<1> QED BY <1>3, <1>9, <1>10, <1>11

(* s without k. *)
QueueWithout(s, k) ==
  IF \A p \in DOMAIN s : s[p] # k THEN s
  ELSE LET p == CHOOSE p \in DOMAIN s : s[p] = k
       IN  [i \in 1..Len(s)-1 |-> IF i < p THEN s[i] ELSE s[i+1]]

WithoutAt(d, s, p) ==
  /\ Len(d) = Len(s) - 1
  /\ \A i \in 1..Len(s)-1 : d[i] = IF i < p THEN s[i] ELSE s[i+1]

LEMMA DropOne ==
  ASSUME NEW S, NEW s \in Seq(S), \A i, l \in 1..Len(s) : s[i] = s[l] => i = l, NEW p \in 1..Len(s)
  PROVE  QueueWithout(s, s[p]) \in Seq(S) /\ WithoutAt(QueueWithout(s, s[p]), s, p)
<1>1. PICK n : n = Len(s) - 1
  OBVIOUS
<1>2. n \in Nat /\ DOMAIN s = 1..n+1 /\ p \in DOMAIN s /\ Len(s) = n + 1
  BY <1>1
<1>3. (CHOOSE q \in DOMAIN s : s[q] = s[p]) = p
  BY <1>2
<1> DEFINE d == [i \in 1..n |-> IF i < p THEN s[i] ELSE s[i+1]]
<1>4. QueueWithout(s, s[p]) = d
  <2>1. ~(\A q \in DOMAIN s : s[q] # s[p])
    BY <1>2
  <2> QED BY <1>1, <1>3, <2>1, Zenon DEF QueueWithout
<1>5. d \in Seq(S) /\ Len(d) = n
  <2>1. \A i \in 1..n : d[i] \in S
    BY <1>2
  <2> QED BY <1>2, <2>1
<1>6. \A i \in 1..n : d[i] = IF i < p THEN s[i] ELSE s[i+1]
  OBVIOUS
<1> HIDE DEF d
<1> QED BY <1>1, <1>4, <1>5, <1>6 DEF WithoutAt

LEMMA EraseShape ==
  ASSUME NEW N, NEW r, WellLinked(r, N), NEW k \in N, NEW e, e = Erase(r, k)
  PROVE  /\ \A i \in N : e.next[i] = IF i = k THEN k ELSE IF i = r.prev[k] THEN r.next[k] ELSE r.next[i]
         /\ \A i \in N : e.home[i] = IF i = k THEN k ELSE r.home[i]
<1>1. /\ r.next \in [N -> N] /\ r.prev \in [N -> N] /\ r.home \in [N -> N]
  BY DEF WellLinked, Links
<1>2. /\ e.next = [[r.next EXCEPT ![r.prev[k]] = r.next[k]] EXCEPT ![k] = k]
      /\ e.home = [r.home EXCEPT ![k] = k]
  BY DEF Erase
<1> QED BY <1>1, <1>2

LEMMA EraseThreads ==
  ASSUME NEW N, NEW H, NEW r, WellLinked(r, N), NEW k \in N \ H, NEW h \in H, h \in N,
         r.home[h] = h, NEW s, Threaded(r, N, H, h, s)
  PROVE  Threaded(Erase(r, k), N, H, h, QueueWithout(s, k))
<1>1. PICK e : e = Erase(r, k)
  OBVIOUS
<1>2. /\ \A i \in N : e.next[i] = IF i = k THEN k ELSE IF i = r.prev[k] THEN r.next[k] ELSE r.next[i]
      /\ \A i \in N : e.home[i] = IF i = k THEN k ELSE r.home[i]
  BY <1>1, EraseShape
<1>3. PICK n : n = Len(s)
  OBVIOUS
<1>4. /\ n \in Nat /\ s \in Seq(N \ H)
      /\ \A i, l \in 1..n : s[i] = s[l] => i = l
      /\ \A i \in 1..n : r.home[s[i]] = h
      /\ \A x \in N \ H : r.home[x] = h => \E i \in 1..n : s[i] = x
      /\ \A i \in 0..n : r.next[NodeAt(s, h, i)] = NodeAt(s, h, i+1)
  BY <1>3 DEF Threaded
<1>5. \A i \in 1..n : s[i] \in N \ H
  BY <1>3, <1>4
<1>6. r.prev[k] \in N /\ r.next[k] \in N /\ r.home[r.prev[k]] = r.home[k] /\ r.next[r.prev[k]] = k
  BY DEF WellLinked, Links
<1>7. CASE r.home[k] # h
  <2>1. \A i \in 1..n : s[i] # k
    BY <1>4, <1>7
  <2>2. QueueWithout(s, k) = s
    <3>1. DOMAIN s = 1..n
      BY <1>3, <1>4
    <3> QED BY <2>1, <3>1, Zenon DEF QueueWithout
  <2>3. \A i \in 1..n : e.home[s[i]] = h
    BY <1>2, <1>4, <1>5, <2>1
  <2>4. \A x \in N \ H : e.home[x] = h => \E i \in 1..n : s[i] = x
    BY <1>2, <1>4, <1>7
  <2>5. ASSUME NEW i \in 0..n PROVE e.next[NodeAt(s, h, i)] = NodeAt(s, h, i+1)
    <3>1. NodeAt(s, h, i) \in N /\ NodeAt(s, h, i) # k /\ r.home[NodeAt(s, h, i)] = h
      BY <1>3, <1>4, <1>5, <2>1 DEF NodeAt
    <3>2. NodeAt(s, h, i) # r.prev[k]
      BY <1>6, <1>7, <3>1
    <3> QED BY <1>2, <1>4, <3>1, <3>2
  <2>6. Threaded(e, N, H, h, s)
    BY <1>3, <1>4, <2>3, <2>4, <2>5 DEF Threaded
  <2> QED BY <1>1, <2>2, <2>6
<1>8. CASE r.home[k] = h
  <2>1. PICK p \in 1..n : s[p] = k
    BY <1>4, <1>8
  <2>2. PICK d : d = QueueWithout(s, k)
    OBVIOUS
  <2>3. d \in Seq(N \ H) /\ WithoutAt(d, s, p)
    BY <1>3, <1>4, <2>1, <2>2, DropOne
  <2>4. Len(d) = n - 1 /\ \A i \in 1..n-1 : d[i] = IF i < p THEN s[i] ELSE s[i+1]
    BY <1>3, <2>3 DEF WithoutAt
  <2>5. \A i \in 1..n-1 : /\ i < p => i \in 1..n /\ i # p
                          /\ ~(i < p) => i + 1 \in 1..n /\ i + 1 # p
    BY <1>4
  <2>6. \A i, l \in 1..n-1 : d[i] = d[l] => i = l
    <3> SUFFICES ASSUME NEW i \in 1..n-1, NEW l \in 1..n-1, d[i] = d[l] PROVE i = l
      OBVIOUS
    <3>1. PICK x \in 1..n : x = IF i < p THEN i ELSE i + 1
      BY <2>5
    <3>2. PICK y \in 1..n : y = IF l < p THEN l ELSE l + 1
      BY <2>5
    <3>3. s[x] = s[y]
      BY <2>4, <3>1, <3>2
    <3>4. x = y
      BY <1>4, <3>3
    <3> QED BY <1>4, <3>1, <3>2, <3>4
  <2>7. \A i \in 1..n-1 : d[i] # k /\ e.home[d[i]] = h
    <3> SUFFICES ASSUME NEW i \in 1..n-1 PROVE d[i] # k /\ e.home[d[i]] = h
      OBVIOUS
    <3>1. PICK x \in 1..n : x # p /\ d[i] = s[x]
      BY <2>4, <2>5
    <3>2. s[x] # k /\ s[x] \in N /\ r.home[s[x]] = h
      BY <1>4, <1>5, <2>1, <3>1
    <3> QED BY <1>2, <3>1, <3>2
  <2>8. ASSUME NEW x \in N \ H, e.home[x] = h PROVE \E i \in 1..n-1 : d[i] = x
    <3>1. x # k /\ r.home[x] = h
      BY <1>2, <2>8
    <3>2. PICK i \in 1..n : s[i] = x
      BY <1>4, <3>1
    <3>3. i # p
      BY <2>1, <3>1, <3>2
    <3>4. CASE i < p
      <4>1. i \in 1..n-1
        BY <1>4, <3>4
      <4> QED BY <2>4, <3>2, <3>4, <4>1
    <3>5. CASE p < i
      <4>1. i - 1 \in 1..n-1 /\ ~(i - 1 < p) /\ (i - 1) + 1 = i
        BY <1>4, <3>5
      <4> QED BY <2>4, <3>2, <4>1
    <3> QED BY <1>4, <3>3, <3>4, <3>5
  <2>9. r.prev[k] = NodeAt(s, h, p-1) /\ r.next[k] = NodeAt(s, h, p+1)
    <3>1. p - 1 \in 0..n /\ p - 1 + 1 = p /\ p \in 0..n
      BY <1>4
    <3>2. NodeAt(s, h, p) = k
      BY <1>3, <2>1 DEF NodeAt
    <3>3. r.next[NodeAt(s, h, p-1)] = k /\ r.next[k] = NodeAt(s, h, p+1)
      BY <1>4, <3>1, <3>2
    <3>4. NodeAt(s, h, p-1) \in N
      BY <1>3, <1>5, <3>1 DEF NodeAt
    <3>5. r.prev[k] = NodeAt(s, h, p-1)
      BY <3>3, <3>4 DEF WellLinked
    <3> QED BY <3>3, <3>5
  <2>10. \A i \in 0..n-1 : NodeAt(d, h, i) = IF i < p THEN NodeAt(s, h, i) ELSE NodeAt(s, h, i+1)
    <3> SUFFICES ASSUME NEW i \in 0..n-1 PROVE NodeAt(d, h, i) = IF i < p THEN NodeAt(s, h, i) ELSE NodeAt(s, h, i+1)
      OBVIOUS
    <3>1. CASE i = 0
      BY <1>3, <1>4, <2>4, <3>1 DEF NodeAt
    <3>2. CASE i \in 1..n-1
      <4>1. NodeAt(d, h, i) = d[i]
        BY <2>4, <3>2 DEF NodeAt
      <4>2. (i < p => NodeAt(s, h, i) = s[i]) /\ (~(i < p) => NodeAt(s, h, i+1) = s[i+1])
        BY <1>3, <2>5, <3>2 DEF NodeAt
      <4> QED BY <2>4, <3>2, <4>1, <4>2
    <3> QED BY <1>4, <3>1, <3>2
  <2>11. ASSUME NEW i \in 0..n-1 PROVE e.next[NodeAt(d, h, i)] = NodeAt(d, h, i+1)
    <3>1. NodeAt(d, h, i+1) = IF i + 1 < p THEN NodeAt(s, h, i+1) ELSE NodeAt(s, h, i+2)
      <4>1. CASE i + 1 \in 0..n-1
        <5>1. i + 1 + 1 = i + 2
          BY <1>4
        <5> QED BY <2>10, <4>1, <5>1
      <4>2. CASE i = n - 1
        <5>1. NodeAt(d, h, i+1) = h
          BY <1>4, <2>4, <4>2 DEF NodeAt
        <5>2. ~(i + 1 < p) /\ i + 2 \notin 1..n
          BY <1>4, <4>2
        <5>3. NodeAt(s, h, i+2) = h
          BY <1>3, <5>2 DEF NodeAt
        <5> QED BY <5>1, <5>2, <5>3
      <4> QED BY <1>4, <4>1, <4>2
    <3>2. PICK x \in 0..n : x = IF i < p THEN i ELSE i + 1
      BY <1>4
    <3>3. NodeAt(d, h, i) = NodeAt(s, h, x)
      BY <2>10, <3>2
    <3>4. x # p /\ (x = p - 1 <=> i = p - 1)
      BY <1>4, <3>2
    <3>5. NodeAt(s, h, x) \in N /\ NodeAt(s, h, x) # k
      BY <1>3, <1>4, <1>5, <2>1, <3>4 DEF NodeAt
    <3>6. CASE i = p - 1
      <4>1. x = p - 1 /\ ~(i + 1 < p) /\ i + 2 = p + 1
        BY <1>4, <3>4, <3>6
      <4>2. e.next[NodeAt(s, h, x)] = NodeAt(s, h, p+1)
        BY <1>2, <2>9, <3>5, <4>1
      <4> QED BY <3>1, <3>3, <4>1, <4>2
    <3>7. CASE i # p - 1
      <4>1. x \in 0..n /\ p - 1 \in 0..n-1 /\ x # p - 1 /\ ~(x = 0 /\ p - 1 = 0)
        BY <1>4, <3>4, <3>7
      <4>2. NodeAt(s, h, x) # NodeAt(s, h, p-1)
        BY <1>3, <1>4, <1>5, <4>1 DEF NodeAt
      <4>3. e.next[NodeAt(s, h, x)] = NodeAt(s, h, x+1)
        BY <1>2, <1>4, <2>9, <3>5, <4>2
      <4>4. x + 1 = IF i + 1 < p THEN i + 1 ELSE i + 2
        BY <1>4, <3>2, <3>7
      <4> QED BY <3>1, <3>3, <4>3, <4>4
    <3> QED BY <3>6, <3>7
  <2>12. Threaded(e, N, H, h, d)
    BY <1>4, <2>3, <2>4, <2>6, <2>7, <2>8, <2>11 DEF Threaded
  <2> QED BY <1>1, <2>2, <2>12
<1> QED BY <1>7, <1>8

PutLast(s, h, j, k) == IF h = j THEN Append(s, k) ELSE s

LEMMA InsertThreads ==
  ASSUME NEW N, NEW H, NEW e, WellLinked(e, N), NEW k \in N \ H, e.next[k] = k, e.prev[k] = k,
         e.home[k] = k, NEW j \in H, j \in N, e.home[j] = j, NEW h \in H, h \in N, e.home[h] = h,
         NEW s, Threaded(e, N, H, h, s)
  PROVE  Threaded(Insert(e, j, k), N, H, h, PutLast(s, h, j, k))
<1>1. PICK t : t = Insert(e, j, k)
  OBVIOUS
<1>2. PICK p : p = e.prev[j]
  OBVIOUS
<1>3. p \in N /\ e.next[p] = j /\ e.home[p] = j /\ k # j /\ p # k
  BY <1>2 DEF WellLinked, Links
<1>4. /\ \A i \in N : t.next[i] = IF i = p THEN k ELSE IF i = k THEN j ELSE e.next[i]
      /\ \A i \in N : t.home[i] = IF i = k THEN j ELSE e.home[i]
  <2>1. e.next \in [N -> N] /\ e.home \in [N -> N]
    BY DEF WellLinked, Links
  <2>2. /\ t.next = [[e.next EXCEPT ![k] = j] EXCEPT ![p] = k]
        /\ t.home = [e.home EXCEPT ![k] = j]
    BY <1>1, <1>2 DEF Insert
  <2> QED BY <2>1, <2>2
<1>5. PICK n : n = Len(s)
  OBVIOUS
<1>6. /\ n \in Nat /\ s \in Seq(N \ H)
      /\ \A i, l \in 1..n : s[i] = s[l] => i = l
      /\ \A i \in 1..n : e.home[s[i]] = h
      /\ \A x \in N \ H : e.home[x] = h => \E i \in 1..n : s[i] = x
      /\ \A i \in 0..n : e.next[NodeAt(s, h, i)] = NodeAt(s, h, i+1)
  BY <1>5 DEF Threaded
<1>7. \A i \in 1..n : s[i] \in N \ H /\ s[i] # k
  BY <1>5, <1>6
<1>8. \A i \in 0..n : NodeAt(s, h, i) \in N /\ NodeAt(s, h, i) # k /\ e.home[NodeAt(s, h, i)] = h
  BY <1>5, <1>6, <1>7 DEF NodeAt
<1>9. CASE h # j
  <2>1. \A i \in 1..n : t.home[s[i]] = h
    BY <1>4, <1>6, <1>7
  <2>2. \A x \in N \ H : t.home[x] = h => \E i \in 1..n : s[i] = x
    BY <1>4, <1>6, <1>9
  <2>3. \A i \in 0..n : t.next[NodeAt(s, h, i)] = NodeAt(s, h, i+1)
    BY <1>3, <1>4, <1>6, <1>8, <1>9
  <2>4. Threaded(t, N, H, h, s)
    BY <1>5, <1>6, <2>1, <2>2, <2>3 DEF Threaded
  <2> QED BY <1>1, <1>9, <2>4 DEF PutLast
<1>10. CASE h = j
  <2>1. PICK d : d = Append(s, k)
    OBVIOUS
  <2>2. /\ d \in Seq(N \ H) /\ Len(d) = n + 1
        /\ \A i \in 1..n : d[i] = s[i]
        /\ d[n+1] = k
    BY <1>5, <1>6, <2>1
  <2>3. \A i \in 1..n+1 : i \in 1..n \/ i = n + 1
    BY <1>6
  <2>4. \A i, l \in 1..n+1 : d[i] = d[l] => i = l
    BY <1>6, <1>7, <2>2, <2>3
  <2>5. \A i \in 1..n+1 : t.home[d[i]] = h
    BY <1>4, <1>6, <1>7, <1>10, <2>2, <2>3
  <2>6. ASSUME NEW x \in N \ H, t.home[x] = h PROVE \E i \in 1..n+1 : d[i] = x
    <3>1. CASE x = k
      <4>1. n + 1 \in 1..n+1
        BY <1>6
      <4> QED BY <2>2, <3>1, <4>1
    <3>2. CASE x # k
      <4>1. PICK i \in 1..n : s[i] = x
        BY <1>4, <1>6, <2>6, <3>2
      <4>2. i \in 1..n+1
        BY <1>6
      <4> QED BY <2>2, <4>1, <4>2
    <3> QED BY <3>1, <3>2
  <2>7. p = NodeAt(s, h, n)
    <3>1. e.next[NodeAt(s, h, n)] = NodeAt(s, h, n+1) /\ n \in 0..n /\ n + 1 \notin 1..n
      BY <1>6
    <3>2. NodeAt(s, h, n+1) = h
      BY <1>5, <3>1 DEF NodeAt
    <3>3. NodeAt(s, h, n) \in N
      BY <1>8, <3>1
    <3> QED BY <1>2, <1>10, <3>1, <3>2, <3>3 DEF WellLinked
  <2>8. \A i \in 0..n : NodeAt(d, h, i) = NodeAt(s, h, i)
    BY <1>5, <1>6, <2>2 DEF NodeAt
  <2>9. NodeAt(d, h, n+1) = k /\ NodeAt(d, h, n+2) = h
    <3>1. n + 1 \in 1..n+1 /\ n + 2 \notin 1..n+1
      BY <1>6
    <3> QED BY <2>2, <3>1 DEF NodeAt
  <2>10. ASSUME NEW i \in 0..n+1 PROVE t.next[NodeAt(d, h, i)] = NodeAt(d, h, i+1)
    <3>1. CASE i = n + 1
      <4>1. i + 1 = n + 2
        BY <1>6, <3>1
      <4> QED BY <1>3, <1>4, <1>10, <2>9, <3>1, <4>1
    <3>2. CASE i = n
      <4>1. n \in 0..n
        BY <1>6
      <4> QED BY <1>3, <1>4, <2>7, <2>8, <2>9, <3>2, <4>1
    <3>3. CASE i \in 0..n-1
      <4>1. i \in 0..n /\ i + 1 \in 0..n /\ n \in 0..n /\ i # n /\ ~(i = 0 /\ n = 0)
        BY <1>6, <3>3
      <4>2. NodeAt(s, h, i) # NodeAt(s, h, n)
        BY <1>5, <1>6, <1>7, <4>1 DEF NodeAt
      <4> QED BY <1>4, <1>6, <1>8, <2>7, <2>8, <4>1, <4>2
    <3> QED BY <1>6, <3>1, <3>2, <3>3
  <2>11. Threaded(t, N, H, h, d)
    <3>1. \A i \in 0..Len(d) : t.next[NodeAt(d, h, i)] = NodeAt(d, h, i+1)
      BY <2>2, <2>10
    <3> QED BY <2>2, <2>4, <2>5, <2>6, <3>1 DEF Threaded
  <2> QED BY <1>1, <1>10, <2>1, <2>11 DEF PutLast
<1> QED BY <1>9, <1>10

AloneNode(e, k) == e.next[k] = k /\ e.prev[k] = k /\ e.home[k] = k

(* The heads are on their own rings. *)
OwnHeads(r, H) == \A g \in H : r.home[g] = g

LEMMA ErasedAlone ==
  ASSUME NEW N, NEW H, H \subseteq N, NEW r, WellLinked(r, N), OwnHeads(r, H), NEW k \in N, k \notin H
  PROVE  WellLinked(Erase(r, k), N) /\ AloneNode(Erase(r, k), k) /\ OwnHeads(Erase(r, k), H)
BY EraseLinks DEF AloneNode, OwnHeads

(* The program's move takes k from its queue and puts it last on j's. *)
LEMMA RelinkThreads ==
  ASSUME NEW N, NEW H, H \subseteq N, NEW r, WellLinked(r, N), OwnHeads(r, H),
         NEW k \in N \ H, NEW j \in H, NEW h \in H, NEW s, Threaded(r, N, H, h, s)
  PROVE  Threaded(Relink(r, k, j), N, H, h, PutLast(QueueWithout(s, k), h, j, k))
<1>1. k \in N /\ k \notin H /\ j \in N /\ h \in N
  OBVIOUS
<1>2. WellLinked(Erase(r, k), N) /\ AloneNode(Erase(r, k), k) /\ OwnHeads(Erase(r, k), H)
  BY <1>1, ErasedAlone
<1>3. PICK e : e = Erase(r, k)
  OBVIOUS
<1>4. Threaded(e, N, H, h, QueueWithout(s, k))
  <2>1. r.home[h] = h
    BY DEF OwnHeads
  <2> QED BY <1>1, <1>3, <2>1, EraseThreads
<1>5. /\ WellLinked(e, N)
      /\ e.next[k] = k /\ e.prev[k] = k /\ e.home[k] = k /\ e.home[j] = j /\ e.home[h] = h
  BY <1>2, <1>3 DEF AloneNode, OwnHeads
<1>6. Threaded(Insert(e, j, k), N, H, h, PutLast(QueueWithout(s, k), h, j, k))
  BY <1>1, <1>4, <1>5, InsertThreads
<1> QED BY <1>3, <1>6 DEF Relink

(* mplex_io_type's constructor leaves every handle on the ring of FREE, in *)
(* index order, and the rings of WAIT and READY empty.                     *)
FreshQueue(h, n) == IF h = FREE THEN [i \in 1..n-3 |-> i+2] ELSE << >>

LEMMA FreshThreads ==
  ASSUME NEW n \in Nat, n >= 3, NEW h \in {FREE, WAIT, READY}
  PROVE  Threaded(Erase(Erase(Resize(n), WAIT), READY), 0..n-1, {FREE, WAIT, READY}, h,
                  FreshQueue(h, n))
<1>1. PICK r : r = Erase(Erase(Resize(n), WAIT), READY)
  OBVIOUS
<1>2. /\ WellLinked(r, 0..n-1)
      /\ \A i \in 0..n-1 : r.home[i] = IF i \in {WAIT, READY} THEN i ELSE FREE
  BY <1>1, FreshLinks
<1>3. /\ r.next[FREE] = (IF n = 3 THEN 0 ELSE 3)
      /\ \A i \in 3..n-1 : i # n-1 => r.next[i] = i+1
      /\ n > 3 => r.next[n-1] = FREE
      /\ Rooted(r, 0..n-1, {FREE, WAIT, READY})
  BY <1>1, FreshShape
<1>4. PICK s : s = FreshQueue(h, n)
  OBVIOUS
<1>5. PICK N : N = 0..n-1
  OBVIOUS
<1>6. CASE h = FREE
  <2>1. s \in Seq(N \ {FREE, WAIT, READY}) /\ Len(s) = n-3 /\ \A i \in 1..n-3 : s[i] = i+2
    <3>1. s = [i \in 1..n-3 |-> i+2]
      BY <1>4, <1>6 DEF FreshQueue
    <3>2. n-3 \in Nat /\ \A i \in 1..n-3 : i+2 \in N \ {FREE, WAIT, READY}
      BY <1>5 DEF FREE, WAIT, READY
    <3> QED BY <3>1, <3>2
  <2>2. \A i, l \in 1..n-3 : s[i] = s[l] => i = l
    BY <2>1
  <2>3. \A i \in 1..n-3 : r.home[s[i]] = h
    BY <1>2, <1>6, <2>1 DEF FREE, WAIT, READY
  <2>4. ASSUME NEW k \in N \ {FREE, WAIT, READY} PROVE \E i \in 1..n-3 : s[i] = k
    <3>1. k-2 \in 1..n-3 /\ (k-2)+2 = k
      BY <1>5 DEF FREE, WAIT, READY
    <3> QED BY <2>1, <3>1
  <2>5. ASSUME NEW i \in 0..n-3 PROVE r.next[NodeAt(s, h, i)] = NodeAt(s, h, i+1)
    <3>1. /\ NodeAt(s, h, i) = IF i = 0 THEN 0 ELSE i+2
          /\ NodeAt(s, h, i+1) = IF i = n-3 THEN 0 ELSE i+3
      BY <1>6, <2>1 DEF NodeAt, FREE
    <3>2. CASE i = 0
      BY <1>3, <3>1, <3>2 DEF FREE
    <3>3. CASE i # 0 /\ i = n-3
      <4>1. i+2 = n-1 /\ n > 3
        BY <3>3
      <4> QED BY <1>3, <3>1, <3>3, <4>1 DEF FREE
    <3>4. CASE i # 0 /\ i # n-3
      <4>1. i+2 \in 3..n-1 /\ i+2 # n-1 /\ (i+2)+1 = i+3
        BY <3>4
      <4> QED BY <1>3, <3>1, <3>4, <4>1
    <3> QED BY <3>2, <3>3, <3>4
  <2>6. Threaded(r, N, {FREE, WAIT, READY}, h, s)
    BY <2>1, <2>2, <2>3, <2>4, <2>5 DEF Threaded
  <2> QED BY <1>1, <1>4, <1>5, <2>6
<1>7. CASE h # FREE
  <2>1. s = << >> /\ Len(s) = 0 /\ h \in {WAIT, READY} /\ h \in N
    BY <1>4, <1>5, <1>7 DEF FreshQueue, FREE, WAIT, READY
  <2>2. \A k \in N \ {FREE, WAIT, READY} : r.home[k] = FREE
    BY <1>2, <1>5
  <2>3. r.next[h] = h
    <3>1. r.next[h] \in N /\ r.home[r.next[h]] = h
      BY <1>2, <1>5, <2>1 DEF WellLinked, Links
    <3> QED BY <1>2, <1>5, <1>7, <2>1, <3>1 DEF FREE, WAIT, READY
  <2>4. Threaded(r, N, {FREE, WAIT, READY}, h, s)
    BY <1>7, <2>1, <2>2, <2>3 DEF Threaded, NodeAt
  <2> QED BY <1>1, <1>4, <1>5, <2>4
<1> QED BY <1>6, <1>7

-----------------------------------------------------------------------------
(* Each head of the vector of mplex_io_type has the queue that its walk    *)
(* finds.                                                                  *)
Queued(r, n) ==
  \A h \in {FREE, WAIT, READY} :
    Threaded(r, 0..n-1, {FREE, WAIT, READY}, h, Walk(r, h, n))

LEMMA HeadsInVector ==
  ASSUME NEW n \in Nat, n >= 3
  PROVE  {FREE, WAIT, READY} \subseteq 0..n-1
BY DEF FREE, WAIT, READY

(* The constructor leaves the handles queued on FREE. *)
LEMMA FreshQueued ==
  ASSUME NEW n \in Nat, n >= 3, NEW r, r = Erase(Erase(Resize(n), WAIT), READY)
  PROVE  Queued(r, n) /\ \A h \in {FREE, WAIT, READY} : Walk(r, h, n) = FreshQueue(h, n)
<1>1. ASSUME NEW h \in {FREE, WAIT, READY}
      PROVE  /\ Walk(r, h, n) = FreshQueue(h, n)
             /\ Threaded(r, 0..n-1, {FREE, WAIT, READY}, h, Walk(r, h, n))
  <2>1. Threaded(r, 0..n-1, {FREE, WAIT, READY}, h, FreshQueue(h, n))
    BY FreshThreads
  <2>2. h \in 0..n-1
    BY HeadsInVector
  <2>3. Walk(r, h, n) = FreshQueue(h, n)
    BY <2>1, <2>2, WalkThreaded
  <2> QED BY <2>1, <2>3
<1> QED BY <1>1 DEF Queued

(* The queues of t are those of r but for k, which went to the end of j's. *)
MovesLast(r, t, n, k, j) ==
  \A h \in {FREE, WAIT, READY} :
    Walk(t, h, n) = PutLast(QueueWithout(Walk(r, h, n), k), h, j, k)

(* The program's move: the node goes from its queue to the end of another. *)
LEMMA RelinkQueued ==
  ASSUME NEW n \in Nat, n >= 3, NEW r, WellLinked(r, 0..n-1), Queued(r, n),
         OwnHeads(r, {FREE, WAIT, READY}), NEW k \in (0..n-1) \ {FREE, WAIT, READY},
         NEW j \in {FREE, WAIT, READY}
  PROVE  Queued(Relink(r, k, j), n) /\ MovesLast(r, Relink(r, k, j), n, k, j)
<1>1. ASSUME NEW h \in {FREE, WAIT, READY}
      PROVE  /\ Walk(Relink(r, k, j), h, n) = PutLast(QueueWithout(Walk(r, h, n), k), h, j, k)
             /\ Threaded(Relink(r, k, j), 0..n-1, {FREE, WAIT, READY}, h, Walk(Relink(r, k, j), h, n))
  <2>1. Threaded(r, 0..n-1, {FREE, WAIT, READY}, h, Walk(r, h, n))
    BY DEF Queued
  <2>2. Threaded(Relink(r, k, j), 0..n-1, {FREE, WAIT, READY}, h,
                 PutLast(QueueWithout(Walk(r, h, n), k), h, j, k))
    BY <2>1, HeadsInVector, RelinkThreads
  <2>3. h \in 0..n-1
    BY HeadsInVector
  <2>4. Walk(Relink(r, k, j), h, n) = PutLast(QueueWithout(Walk(r, h, n), k), h, j, k)
    BY <2>2, <2>3, WalkThreaded
  <2> QED BY <2>2, <2>4
<1> QED BY <1>1 DEF Queued, MovesLast
=============================================================================
