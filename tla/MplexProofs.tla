---------------------------- MODULE MplexProofs ----------------------------
(***************************************************************************)
(* The multiplexer keeps its invariants for any number of handles, any     *)
(* descriptors, any triggers and any order of the calls, and its rings are *)
(* queues.                                                                 *)
(***************************************************************************)
EXTENDS Mplex, MplexLemmas

(* Sound is as strong as what the runs check. *)
LEMMA SoundImplies ==
  ASSUME NEW s, Sound(s)
  PROVE  RingsHoldHandles(s) /\ NothingParked(s) /\ KernelKnowsHandles(s)
<1>1. s.armed \subseteq Slots
  BY DEF Sound, RingOK, MplexType
<1> QED BY <1>1 DEF Sound, RingOK, HandleOK, RingsHoldHandles, NothingParked, KernelKnowsHandles, Heads

-----------------------------------------------------------------------------
(* The inductive invariant: the handles are sound, the events wait has     *)
(* still to handle are of registered files, and outside wait there are     *)
(* none, so that no call comes between an event and its handle.            *)
MplexIInv ==
  /\ Sound(m)
  /\ evset \in SUBSET (Slots \X SUBSET IO)
  /\ mode \in {"idle", "wait", "timer"}
  /\ \A e \in evset : m.interest[e[1]] # {}
  /\ mode # "wait" => evset = {}

(* A call, whatever it does to the handles, comes when evset is empty. *)
LEMMA CallKeeps ==
  ASSUME NEW s, Sound(s), MplexIInv, Call(s)
  PROVE  MplexIInv'
BY DEF MplexIInv, Call, Sound, RingOK

LEMMA MplexStepKeeps == MplexIInv /\ [MplexNext]_mplexVars => MplexIInv'
<1> SUFFICES ASSUME MplexIInv, [MplexNext]_mplexVars PROVE MplexIInv'
  OBVIOUS
<1> USE MplexAssumption
<1>0. Sound(m) /\ m \in MplexType
  BY DEF MplexIInv, Sound, RingOK
<1>1. ASSUME NEW fd \in Fds, NEW trigger \in Triggers, AddHandle(fd, trigger)
      PROVE  MplexIInv'
  <2>1. Sound(Add(m, trigger, fd, fd, fd \notin Unpollable))
    <3>1. /\ HasRoom(m) /\ trigger \cap IO # {} /\ fd \in Nat
          /\ trigger \in SUBSET (IO \cup {EDGE}) /\ (fd \notin Unpollable) \in BOOLEAN
      BY <1>1 DEF AddHandle, MplexAssumption
    <3> QED BY <1>0, <3>1, AddSound
  <2> QED BY <1>1, <2>1, CallKeeps DEF AddHandle
<1>2. ASSUME NEW uptime \in 1..MaxTime, AddTimerHandle(uptime)
      PROVE  MplexIInv'
  <2>1. Sound(AddTimer(m, uptime, 0))
    <3>1. HasRoom(m) /\ uptime \in Nat \ {0}
      BY <1>2 DEF AddTimerHandle, MplexAssumption
    <3> QED BY <1>0, <3>1, AddTimerSound
  <2> QED BY <1>2, <2>1, CallKeeps DEF AddTimerHandle
<1>3. ASSUME NEW id \in Nodes, NEW event \in IO, DropHandle(id, event)
      PROVE  MplexIInv'
  <2>1. Sound(Drop(m, {event}, id))
    BY <1>0, DropSound
  <2> QED BY <1>3, <2>1, CallKeeps DEF DropHandle
<1>4. ASSUME NEW id \in Nodes, NEW trigger \in Triggers, ModHandle(id, trigger)
      PROVE  MplexIInv'
  <2>1. trigger \in SUBSET (IO \cup {EDGE})
    BY DEF MplexAssumption
  <2>2. CASE InUse(m, id) /\ m.ev_permit[id] /\ m.interest[id] = {}
    <3>1. Sound(ModRefused(m, trigger, id))
      <4>1. id \in Slots
        BY <2>2 DEF InUse
      <4> QED BY <1>0, <2>1, <2>2, <4>1, ModRefusedSound
    <3> QED BY <1>4, <2>2, <3>1, CallKeeps DEF ModHandle
  <2>3. CASE ~(InUse(m, id) /\ m.ev_permit[id] /\ m.interest[id] = {})
    <3>1. Sound(Mod(m, trigger, id))
      <4>1. CASE id \in Slots
        BY <1>0, <2>1, <4>1, ModSound
      <4>2. CASE id \notin Slots
        BY <1>0, <4>2 DEF Mod, InUse
      <4> QED BY <4>1, <4>2
    <3> QED BY <1>4, <2>3, <3>1, CallKeeps DEF ModHandle
  <2> QED BY <2>2, <2>3
<1>5. ASSUME NEW id \in Nodes, DelHandle(id)
      PROVE  MplexIInv'
  BY <1>0, <1>5, DelSound, CallKeeps DEF DelHandle
<1>6. ASSUME NEW id \in Nodes, NEW uptime \in 1..MaxTime, ModTimerOf(id, uptime)
      PROVE  MplexIInv'
  <2>1. uptime \in Nat \ {0}
    BY DEF MplexAssumption
  <2> QED BY <1>0, <1>6, <2>1, ModTimerSound, CallKeeps DEF ModTimerOf
<1>7. ASSUME NEW id \in Nodes, StopTimerOf(id)
      PROVE  MplexIInv'
  BY <1>0, <1>7, StopTimerSound, CallKeeps DEF StopTimerOf
<1>8. ASSUME NEW id \in Slots, Wakeup(id)
      PROVE  MplexIInv'
  <2>1. PICK armed : armed = m.armed \cup {id}
    OBVIOUS
  <2>2. armed \in SUBSET Slots
    BY <1>0, <2>1, FieldTypes
  <2>3. \A i \in armed : m.interest[i] # {}
    BY <1>0, <1>8, <2>1, SoundImplies DEF KernelKnowsHandles, Wakeup
  <2>4. m' = [m EXCEPT !.armed = armed]
    BY <1>8, <2>1 DEF Wakeup
  <2>5. Sound(m') /\ m'.interest = m.interest
    BY <1>0, <2>2, <2>3, <2>4, ArmedSound
  <2> QED BY <1>8, <2>5 DEF Wakeup, MplexIInv
<1>9. ASSUME NEW ready \in [m.armed -> SUBSET IO], Wait(ready)
      PROVE  MplexIInv'
  <2>1. PICK armed : armed = {id \in Reported(m, ready) : EDGE \notin m.interest[id]}
    OBVIOUS
  <2>2. armed \in SUBSET Slots /\ Reported(m, ready) \in SUBSET Slots
    BY <1>0, <2>1, FieldTypes DEF Reported
  <2>3. \A i \in Reported(m, ready) : m.interest[i] # {} /\ Polled(m, ready, i) \in SUBSET IO
    BY <1>0 DEF Reported, Polled
  <2>4. m' = [m EXCEPT !.armed = armed]
    BY <1>9, <2>1 DEF Wait, EpollWait
  <2>5. Sound(m') /\ m'.interest = m.interest
    BY <1>0, <2>1, <2>2, <2>3, <2>4, ArmedSound
  <2>6. evset' \in SUBSET (Slots \X SUBSET IO) /\ \A e \in evset' : m.interest[e[1]] # {}
    BY <1>9, <2>2, <2>3 DEF Wait
  <2> QED BY <1>9, <2>5, <2>6 DEF Wait, MplexIInv
<1>10. ASSUME CollectEvent
       PROVE  MplexIInv'
  <2>1. PICK e \in evset : m' = Collect(m, e[1], e[2]) /\ evset' = evset \ {e}
    BY <1>10 DEF CollectEvent
  <2>2. e[1] \in Slots /\ e[2] \in SUBSET IO /\ m.interest[e[1]] # {}
    BY DEF MplexIInv
  <2>3. Sound(m') /\ m'.interest = m.interest
    BY <1>0, <2>1, <2>2, CollectSound
  <2> QED BY <1>10, <2>1, <2>3 DEF CollectEvent, MplexIInv
<1>11. ASSUME NEW now \in 0..MaxTime, RunTimer(now)
       PROVE  MplexIInv'
  <2>1. Sound(ReadClock(m, now))
    <3>1. now \in Nat
      BY DEF MplexAssumption
    <3> QED BY <1>0, <3>1, ReadClockSound
  <2> QED BY <1>11, <2>1 DEF RunTimer, MplexIInv
<1>12. ASSUME ExpireEntry
       PROVE  MplexIInv'
  <2>1. PICK e \in m.timers : m' = Expire(m, e)
    BY <1>12 DEF ExpireEntry, Due
  <2>2. Sound(m')
    BY <1>0, <2>1, ExpireSound
  <2> QED BY <1>12, <2>2 DEF ExpireEntry, MplexIInv
<1>13. CASE WaitDone \/ RunTimerDone \/ UNCHANGED mplexVars
  BY <1>13 DEF WaitDone, RunTimerDone, mplexVars, MplexIInv, Sound, RingOK
<1> QED BY <1>1, <1>2, <1>3, <1>4, <1>5, <1>6, <1>7, <1>8, <1>9, <1>10, <1>11, <1>12, <1>13
        DEF MplexNext

(* For any number of handles, any descriptors, any triggers and any order  *)
(* of the calls, the events and the ticks.                                 *)
LEMMA MplexInvariant == MplexSpec => []MplexIInv
<1>1. MplexInit => MplexIInv
  BY FreshSound DEF MplexInit, MplexIInv
<1> QED BY <1>1, MplexStepKeeps, PTL DEF MplexSpec

(* What the invariant is for. *)
LEMMA InvariantSays ==
  MplexIInv => MplexTypeOK /\ RingsAgree /\ NoLostWakeup /\ KernelAgrees
<1> SUFFICES ASSUME MplexIInv
             PROVE  MplexTypeOK /\ RingsAgree /\ NoLostWakeup /\ KernelAgrees
  OBVIOUS
<1>1. Sound(m) /\ m \in MplexType
  BY DEF MplexIInv, Sound, RingOK
<1> QED BY <1>1, SoundImplies DEF MplexIInv, MplexTypeOK, RingsAgree, NoLostWakeup, KernelAgrees

-----------------------------------------------------------------------------
(* The types of the handles' fields, whatever the multiplexer is called    *)
(* with.                                                                   *)
THEOREM MplexTyped == MplexSpec => []MplexTypeOK
BY MplexInvariant, InvariantSays, PTL

(* After any calls in any order the handles form linked rings, a handle is *)
(* on the ring FREE exactly when its state says so, and one in state READY *)
(* is on the ring the server passes over (mplex-io.cpp, mplex-epoll.cpp).  *)
THEOREM RingsFollowState == MplexSpec => []RingsAgree
BY MplexInvariant, InvariantSays, PTL

(* A handle for which an event it waits for is noted is not left on the    *)
(* ring WAIT, where nobody would look at it (mplex-epoll.cpp:42,           *)
(* mplex-io.cpp:103).                                                      *)
THEOREM NoEventParked == MplexSpec => []NoLostWakeup
BY MplexInvariant, InvariantSays, PTL

(* What the kernel has registered or on its ready list, and what           *)
(* epoll_wait returned, is of handles that were added and not deleted      *)
(* (mplex-epoll.cpp).                                                      *)
THEOREM KernelListInStep == MplexSpec => []KernelAgrees
BY MplexInvariant, InvariantSays, PTL

-----------------------------------------------------------------------------
(* The ring is mplex_io_type's, of MaxEvents handles and three heads.      *)
LEMMA VectorFacts ==
  /\ MaxEvents+3 \in Nat /\ MaxEvents+3 >= 3 /\ Nodes = 0..(MaxEvents+3)-1
  /\ Slots = (0..(MaxEvents+3)-1) \ {FREE, WAIT, READY}
BY MaxEventsAssumption DEF Nodes, Slots

(* Every action of the multiplexer relinks at most one handle. *)
LEMMA StepsMoveOne ==
  ASSUME MplexIInv, MplexNext
  PROVE  RingStep(m, m')
<1>0. m \in MplexType /\ Sound(m)
  BY DEF MplexIInv, Sound, RingOK
<1>1. ASSUME NEW fd \in Fds, NEW trigger \in Triggers, AddHandle(fd, trigger)
      PROVE  RingStep(m, m')
  <2>1. FreshId(m) \in Slots
    BY <1>0, <1>1, FreshIdFree DEF AddHandle
  <2> QED BY <1>0, <1>1, <2>1, AddRing DEF AddHandle, Call
<1>2. ASSUME NEW uptime \in 1..MaxTime, AddTimerHandle(uptime)
      PROVE  RingStep(m, m')
  <2>1. FreshId(m) \in Slots
    BY <1>0, <1>2, FreshIdFree DEF AddTimerHandle
  <2> QED BY <1>0, <1>2, <2>1, AddTimerRing DEF AddTimerHandle, Call
<1>3. ASSUME NEW id \in Nodes, NEW event \in IO, DropHandle(id, event)
      PROVE  RingStep(m, m')
  BY <1>0, <1>3, DropRing DEF DropHandle, Call
<1>4. ASSUME NEW id \in Nodes, NEW trigger \in Triggers, ModHandle(id, trigger)
      PROVE  RingStep(m, m')
  <2>1. m' = ModRefused(m, trigger, id) \/ m' = Mod(m, trigger, id)
    BY <1>4 DEF ModHandle, Call
  <2> QED BY <1>0, <2>1, ModRefusedRing, ModRing
<1>5. ASSUME NEW id \in Nodes, DelHandle(id)
      PROVE  RingStep(m, m')
  BY <1>0, <1>5, DelRing DEF DelHandle, Call
<1>6. ASSUME NEW id \in Nodes, NEW uptime \in 1..MaxTime, ModTimerOf(id, uptime)
      PROVE  RingStep(m, m')
  <2>1. StopTimer(m, id).state = m.state
    BY <1>0 DEF StopTimer, MplexType
  <2>2. m.state[id] \in Heads
    BY <1>0, FieldTypes DEF Heads
  <2> QED BY <1>0, <1>6, <2>1, <2>2, ModTimerRing DEF ModTimerOf, Call
<1>7. ASSUME NEW id \in Nodes, StopTimerOf(id)
      PROVE  RingStep(m, m')
  BY <1>0, <1>7, StopTimerStep DEF StopTimerOf, Call
<1>8. CASE \E id \in Slots : Wakeup(id)
  <2>1. KeepsRing(m, m')
    BY <1>0, <1>8, HasRing DEF Wakeup, KeepsRing
  <2> QED BY <2>1 DEF RingStep
<1>9. CASE \E ready \in [m.armed -> SUBSET IO] : Wait(ready)
  <2>1. KeepsRing(m, m')
    BY <1>0, <1>9, HasRing DEF Wait, EpollWait, KeepsRing
  <2> QED BY <2>1 DEF RingStep
<1>10. CASE CollectEvent
  <2>1. PICK e \in evset : m' = Collect(m, e[1], e[2])
    BY <1>10 DEF CollectEvent
  <2>2. e[1] \in Slots
    BY DEF MplexIInv
  <2> QED BY <1>0, <2>1, <2>2, CollectRing
<1>11. CASE \E now \in 0..MaxTime : RunTimer(now)
  <2>1. KeepsRing(m, m')
    BY <1>0, <1>11, HasRing DEF RunTimer, ReadClock, KeepsRing
  <2> QED BY <2>1 DEF RingStep
<1>12. CASE ExpireEntry
  <2>1. PICK e \in m.timers : m' = Expire(m, e)
    BY <1>12 DEF ExpireEntry, Due
  <2>2. e[2] \in Slots
    BY <1>0, FieldTypes
  <2> QED BY <1>0, <2>1, <2>2, ExpireRing
<1>13. CASE WaitDone \/ RunTimerDone
  BY <1>0, <1>13, HasRing DEF WaitDone, RunTimerDone, RingStep
<1> QED BY <1>1, <1>2, <1>3, <1>4, <1>5, <1>6, <1>7, <1>8, <1>9, <1>10, <1>11, <1>12, <1>13
        DEF MplexNext

(* The inductive invariant of the refinement: a walk from a head comes     *)
(* back to it and passes each handle of its ring once.                     *)
WalksEnd == MplexIInv /\ Queued(m.ring, MaxEvents+3)

(* What a step does to the walks. *)
LEMMA StepWalks ==
  ASSUME WalksEnd, RingStep(m, m')
  PROVE  /\ Queued(m'.ring, MaxEvents+3)
         /\ \/ m'.ring = m.ring
            \/ \E k \in Slots, j \in Heads : MovesLast(m.ring, m'.ring, MaxEvents+3, k, j)
<1>1. CASE KeepsRing(m, m')
  BY <1>1 DEF KeepsRing, WalksEnd
<1>2. ASSUME NEW k \in Slots, NEW j \in Heads, m'.ring = Relink(m.ring, k, j)
      PROVE  Queued(m'.ring, MaxEvents+3) /\ MovesLast(m.ring, m'.ring, MaxEvents+3, k, j)
  <2>1. /\ WellLinked(m.ring, 0..(MaxEvents+3)-1) /\ OwnHeads(m.ring, {FREE, WAIT, READY})
        /\ k \in (0..(MaxEvents+3)-1) \ {FREE, WAIT, READY} /\ j \in {FREE, WAIT, READY}
        /\ Queued(m.ring, MaxEvents+3)
    BY VectorFacts DEF WalksEnd, MplexIInv, Sound, RingOK, OwnHeads, Heads
  <2>2. /\ Queued(Relink(m.ring, k, j), MaxEvents+3)
        /\ MovesLast(m.ring, Relink(m.ring, k, j), MaxEvents+3, k, j)
    BY <2>1, VectorFacts, RelinkQueued
  <2> QED BY <1>2, <2>2
<1> QED BY <1>1, <1>2 DEF RingStep

LEMMA WalksKept == MplexSpec => []WalksEnd
<1>1. MplexInit => WalksEnd
  <2> SUFFICES ASSUME MplexInit PROVE WalksEnd
    OBVIOUS
  <2>1. MplexIInv
    BY FreshSound DEF MplexInit, MplexIInv
  <2>2. m.ring = Erase(Erase(Resize(MaxEvents+3), WAIT), READY)
    BY DEF MplexInit, FreshMplex
  <2> QED BY <2>1, <2>2, VectorFacts, FreshQueued DEF WalksEnd
<1>2. WalksEnd /\ [MplexNext]_mplexVars => WalksEnd'
  <2> SUFFICES ASSUME WalksEnd, [MplexNext]_mplexVars PROVE WalksEnd'
    OBVIOUS
  <2>1. MplexIInv'
    BY MplexStepKeeps DEF WalksEnd
  <2>2. CASE UNCHANGED mplexVars
    BY <2>1, <2>2 DEF WalksEnd, mplexVars
  <2>3. CASE MplexNext
    <3>1. RingStep(m, m')
      BY <2>3, StepsMoveOne DEF WalksEnd
    <3> QED BY <2>1, <3>1, StepWalks DEF WalksEnd
  <2> QED BY <2>2, <2>3
<1> QED BY <1>1, <1>2, PTL DEF MplexSpec

(* The walks, as the queue that RingQueue speaks of. *)
Walked == [h \in {FREE, WAIT, READY} |-> Walk(m.ring, h, MaxEvents+3)]

(* For any number of handles, each action of the multiplexer moves at most *)
(* one handle, and that one to the end of a ring, the order of all others  *)
(* kept (insert, server.hpp:58, is always at the end, and wait and         *)
(* run_timer move one handle per iteration): READY lists the handles in    *)
(* the order in which they got there, and no step makes one overtake.      *)
THEOREM HandlesAreQueued == MplexSpec => MovesOneHandle
<1>1. MplexInit => HandleQueue!QueueInit
  <2> SUFFICES ASSUME MplexInit PROVE HandleQueue!QueueInit
    OBVIOUS
  <2>1. m.ring = Erase(Erase(Resize(MaxEvents+3), WAIT), READY)
    BY DEF MplexInit, FreshMplex
  <2>2. \A h \in {FREE, WAIT, READY} : Walk(m.ring, h, MaxEvents+3) = FreshQueue(h, MaxEvents+3)
    BY <2>1, VectorFacts, FreshQueued
  <2>3. ASSUME NEW h \in {FREE, WAIT, READY}
        PROVE  FreshQueue(h, MaxEvents+3) =
                 IF h = 0 THEN [i \in 1..(MaxEvents+2)-(READY+1)+1 |-> (READY+1)+i-1] ELSE << >>
    <3>1. (MaxEvents+2)-(READY+1)+1 = (MaxEvents+3)-3 /\ \A i \in 1..(MaxEvents+3)-3 : (READY+1)+i-1 = i+2
      BY MaxEventsAssumption DEF READY
    <3> QED BY <3>1 DEF FreshQueue, FREE
  <2>4. \A h \in {FREE, WAIT, READY} : Walk(m.ring, h, MaxEvents+3) =
                 IF h = 0 THEN [i \in 1..(MaxEvents+2)-(READY+1)+1 |-> (READY+1)+i-1] ELSE << >>
    BY <2>2, <2>3
  <2> QED BY <2>4 DEF HandleQueue!QueueInit
<1>2. WalksEnd /\ [MplexNext]_mplexVars => [HandleQueue!QueueNext]_Walked
  <2> SUFFICES ASSUME WalksEnd, [MplexNext]_mplexVars PROVE [HandleQueue!QueueNext]_Walked
    OBVIOUS
  <2>1. CASE m'.ring = m.ring
    BY <2>1 DEF Walked
  <2>2. ASSUME NEW k \in Slots, NEW j \in Heads, MovesLast(m.ring, m'.ring, MaxEvents+3, k, j)
        PROVE  HandleQueue!QueueNext
    <3>1. \A s : HandleQueue!Without(s, k) = QueueWithout(s, k)
      BY DEF HandleQueue!Without, QueueWithout
    <3>2. ASSUME NEW h \in {FREE, WAIT, READY}
          PROVE  Walk(m'.ring, h, MaxEvents+3) =
                   IF h = j THEN Append(HandleQueue!Without([g \in {FREE, WAIT, READY} |-> Walk(m.ring, g, MaxEvents+3)][h], k), k)
                            ELSE HandleQueue!Without([g \in {FREE, WAIT, READY} |-> Walk(m.ring, g, MaxEvents+3)][h], k)
      BY <2>2, <3>1 DEF MovesLast, PutLast
    <3>3. HandleQueue!MoveTo(k, j)
      BY <3>2, Zenon DEF HandleQueue!MoveTo
    <3>4. k \in HandleQueue!Movable /\ j \in {FREE, WAIT, READY}
      BY VectorFacts, MaxEventsAssumption DEF HandleQueue!Movable, FREE, WAIT, READY, Heads
    <3> QED BY <3>3, <3>4 DEF HandleQueue!QueueNext
  <2>3. CASE UNCHANGED mplexVars
    BY <2>1, <2>3 DEF mplexVars
  <2>4. CASE MplexNext
    BY <2>1, <2>2, <2>4, StepsMoveOne, StepWalks DEF WalksEnd
  <2> QED BY <2>3, <2>4
<1> QED BY <1>1, <1>2, WalksKept, PTL DEF MplexSpec, MovesOneHandle, HandleQueue!QueueSpec, Walked
=============================================================================
