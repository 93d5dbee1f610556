---------------------------- MODULE MplexLemmas ----------------------------
(***************************************************************************)
(* Facts about the operators of MplexIo, for any number of handles: each   *)
(* of the multiplexer's methods takes sound values to sound values, and    *)
(* what it changes of the handle it is called with.                        *)
(*                                                                         *)
(* Sound says of each handle what its ring, its state, its pending events  *)
(* and its registration with the kernel have to do with each other         *)
(* (HandleOK).  A method changes one handle: it is enough to look at that  *)
(* one and at the ring it leaves it on (MoveSound, StaySound).             *)
(***************************************************************************)
EXTENDS MplexIo, RingLemmas

Heads == {FREE, WAIT, READY}

(* What is right of handle `id` of s when it is on the ring of head h. *)
HandleOK(s, id, h) ==
  /\ h \in Heads
  /\ s.state[id] = FREE <=> h = FREE
  /\ s.state[id] = READY => h = READY
  /\ (h = WAIT /\ (s.ev_permit[id] => s.interest[id] # {})) => Enabled(s, id) = {}
  /\ s.interest[id] # {} => s.state[id] # FREE /\ s.ev_permit[id]
  /\ id \in s.armed => s.interest[id] # {}

RingOK(s) ==
  /\ s \in MplexType
  /\ WellLinked(s.ring, Nodes)
  /\ Rooted(s.ring, Nodes, Heads)
  /\ \A h \in Heads : s.ring.home[h] = h

Sound(s) == RingOK(s) /\ \A id \in Slots : HandleOK(s, id, s.ring.home[id])

(* All but one handle are as they should be. *)
SoundBut(s, id) == RingOK(s) /\ \A i \in Slots \ {id} : HandleOK(s, i, s.ring.home[i])

(* Handle i of t is as it was in s. *)
SameHandle(s, t, i) ==
  /\ t.state[i] = s.state[i]
  /\ t.ev_permit[i] = s.ev_permit[i]
  /\ t.ev_mask[i] = s.ev_mask[i]
  /\ t.events[i] = s.events[i]
  /\ t.interest[i] = s.interest[i]
  /\ i \in t.armed => i \in s.armed

(* The heads are nodes, and no handles. *)
LEMMA NodesFacts ==
  /\ Slots \subseteq Nodes
  /\ Heads \subseteq Nodes
  /\ Heads \cap Slots = {}
  /\ Nodes = Slots \cup Heads
  /\ FREE # WAIT /\ FREE # READY /\ WAIT # READY
BY MaxEventsAssumption DEF Nodes, Slots, Heads, FREE, WAIT, READY

(* Requeue changes the ring alone, and only where its handle is. *)
LEMMA RequeueFrame ==
  ASSUME NEW s, RingOK(s), NEW id \in Slots, NEW h \in Heads, NEW u, u = Requeue(s, id, h)
  PROVE  /\ RingOK(u) /\ u = [s EXCEPT !.ring = Relink(s.ring, id, h)]
         /\ u.ring = Relink(s.ring, id, h)
         /\ u.ev_permit = s.ev_permit /\ u.state = s.state /\ u.ev_mask = s.ev_mask
         /\ u.events = s.events /\ u.interest = s.interest /\ u.armed = s.armed
         /\ u.fd = s.fd /\ u.handler_id = s.handler_id
         /\ u.timers = s.timers /\ u.looptime = s.looptime
         /\ \A i \in Nodes : u.ring.home[i] = IF i = id THEN h ELSE s.ring.home[i]
<1>1. PICK r : r = Relink(s.ring, id, h)
  OBVIOUS
<1>2. id \in Nodes /\ h \in Nodes /\ id # h /\ id \in Nodes \ Heads /\ s \in MplexType
  BY NodesFacts DEF RingOK
<1>3. /\ WellLinked(r, Nodes) /\ Rooted(r, Nodes, Heads)
      /\ \A i \in Nodes : r.home[i] = IF i = id THEN h ELSE s.ring.home[i]
  BY <1>1, <1>2, RelinkLinks, RelinkRooted DEF RingOK
<1>4. u = [s EXCEPT !.ring = r]
  BY <1>1 DEF Requeue
<1>5. r \in [next : [Nodes -> Nodes], prev : [Nodes -> Nodes], home : [Nodes -> Nodes]]
  BY <1>1, <1>3 DEF WellLinked, Links, Relink, Insert
<1>6. u.ring = r
  BY <1>2, <1>4 DEF MplexType
<1>7. /\ u \in MplexType
      /\ u.ev_permit = s.ev_permit /\ u.state = s.state /\ u.ev_mask = s.ev_mask
      /\ u.events = s.events /\ u.interest = s.interest /\ u.armed = s.armed
      /\ u.fd = s.fd /\ u.handler_id = s.handler_id
      /\ u.timers = s.timers /\ u.looptime = s.looptime
  BY <1>2, <1>4, <1>5 DEF MplexType
<1>8. \A g \in Heads : u.ring.home[g] = g
  BY <1>2, <1>3, <1>6, NodesFacts DEF RingOK
<1> QED BY <1>1, <1>3, <1>4, <1>6, <1>7, <1>8 DEF RingOK

(* A method that changes handle id and moves it to the ring of h. *)
LEMMA MoveSoundBut ==
  ASSUME NEW id \in Slots, NEW s, SoundBut(s, id), NEW t \in MplexType, t.ring = s.ring,
         \A i \in Slots \ {id} : SameHandle(s, t, i), NEW h, HandleOK(t, id, h)
  PROVE  Sound(Requeue(t, id, h))
<1>1. PICK u : u = Requeue(t, id, h)
  OBVIOUS
<1>2. h \in Heads
  BY DEF HandleOK
<1>3. RingOK(t)
  BY DEF SoundBut, RingOK
<1>4. /\ RingOK(u)
      /\ u.ev_permit = t.ev_permit /\ u.state = t.state /\ u.ev_mask = t.ev_mask
      /\ u.events = t.events /\ u.interest = t.interest /\ u.armed = t.armed
      /\ \A i \in Nodes : u.ring.home[i] = IF i = id THEN h ELSE t.ring.home[i]
  BY <1>1, <1>2, <1>3, RequeueFrame
<1>5. HandleOK(u, id, u.ring.home[id])
  BY <1>4, NodesFacts DEF HandleOK, Enabled
<1>6. ASSUME NEW i \in Slots \ {id}
      PROVE  HandleOK(u, i, u.ring.home[i])
  <2>1. u.ring.home[i] = s.ring.home[i] /\ HandleOK(s, i, s.ring.home[i])
    BY <1>4, NodesFacts DEF SoundBut
  <2> QED BY <1>4, <2>1 DEF HandleOK, Enabled, SameHandle
<1> QED BY <1>1, <1>4, <1>5, <1>6 DEF Sound

(* A handle moved to the end of another ring is sound there if ... *)
LEMMA MoveSound ==
  ASSUME NEW s, Sound(s), NEW t \in MplexType, t.ring = s.ring, NEW id \in Slots,
         \A i \in Slots \ {id} : SameHandle(s, t, i), NEW h, HandleOK(t, id, h)
  PROVE  Sound(Requeue(t, id, h))
<1>1. SoundBut(s, id)
  BY DEF Sound, SoundBut
<1> QED BY <1>1, MoveSoundBut

(* A method that changes handle id and leaves it where it is. *)
LEMMA StaySound ==
  ASSUME NEW s, Sound(s), NEW t \in MplexType, t.ring = s.ring, NEW id \in Slots,
         \A i \in Slots \ {id} : SameHandle(s, t, i), HandleOK(t, id, s.ring.home[id])
  PROVE  Sound(t)
<1>1. ASSUME NEW i \in Slots \ {id}
      PROVE  HandleOK(t, i, t.ring.home[i])
  <2>1. HandleOK(s, i, s.ring.home[i])
    BY DEF Sound, RingOK
  <2> QED BY <2>1 DEF HandleOK, Enabled, SameHandle
<1> QED BY <1>1 DEF Sound, RingOK

-----------------------------------------------------------------------------
(* The methods.  Each lemma gives the fields of the changed record one by  *)
(* one and then judges the handle.                                         *)

(* The handle add and add_timer take is a free one. *)
LEMMA FreshIdFree ==
  ASSUME NEW s, Sound(s), HasRoom(s)
  PROVE  /\ FreshId(s) \in Slots
         /\ s.state[FreshId(s)] = FREE /\ s.interest[FreshId(s)] = {}
         /\ FreshId(s) \notin s.armed
<1>1. PICK id : id = FreshId(s)
  OBVIOUS
<1>2. id \in Nodes /\ s.ring.home[id] = FREE /\ id # FREE
  <2>1. FREE \in Nodes /\ s.ring.home[FREE] = FREE
    BY NodesFacts DEF Sound, RingOK, Heads
  <2>2. id = s.ring.next[FREE] /\ id # FREE
    BY <1>1 DEF FreshId, HasRoom, EmptyRing
  <2> QED BY <2>1, <2>2 DEF Sound, RingOK, WellLinked, Links
<1>3. id \in Slots
  BY <1>2, NodesFacts DEF Sound, RingOK, Heads
<1> QED BY <1>1, <1>2, <1>3 DEF Sound, RingOK, HandleOK

(* The types of the fields, one by one. *)
LEMMA FieldTypes ==
  ASSUME NEW s \in MplexType
  PROVE  /\ s.ev_permit \in [Nodes -> BOOLEAN]
         /\ s.fd \in [Nodes -> Nat \cup {NoFd}]
         /\ s.uptime \in [Nodes -> Nat]
         /\ s.handler_id \in [Nodes -> Nat]
         /\ s.state \in [Nodes -> {FREE, WAIT, READY}]
         /\ s.ev_mask \in [Nodes -> SUBSET (IO \cup {TIMER})]
         /\ s.events \in [Nodes -> SUBSET (IO \cup {TIMER})]
         /\ s.timers \in SUBSET ((Nat \ {0}) \X Slots)
         /\ s.interest \in [Nodes -> SUBSET (IO \cup {EDGE})]
         /\ s.armed \in SUBSET Slots
BY DEF MplexType

(* add of a pollable or an unpollable file. *)
LEMMA AddSound ==
  ASSUME NEW s, Sound(s), HasRoom(s), NEW trigger \in SUBSET (IO \cup {EDGE}),
         trigger \cap IO # {}, NEW fd \in Nat, NEW handler_id \in Nat, NEW permit \in BOOLEAN
  PROVE  Sound(Add(s, trigger, fd, handler_id, permit))
<1>1. PICK id : id = FreshId(s)
  OBVIOUS
<1>2. id \in Slots /\ id \in Nodes /\ s.state[id] = FREE
  BY <1>1, FreshIdFree, NodesFacts
<1>3. PICK state : state = IF permit THEN WAIT ELSE READY
  OBVIOUS
<1>4. PICK t : t = [s EXCEPT !.ev_permit[id]  = permit,
                             !.fd[id]         = fd,
                             !.uptime[id]     = 0,
                             !.handler_id[id] = handler_id,
                             !.state[id]      = state,
                             !.ev_mask[id]    = trigger \cap IO,
                             !.events[id]     = IF permit THEN {} ELSE trigger \cap IO,
                             !.interest[id]   = IF permit THEN trigger ELSE {},
                             !.armed          = IF permit THEN s.armed \cup {id} ELSE s.armed]
  OBVIOUS
<1>5. s \in MplexType
  BY DEF Sound, RingOK
<1>6. /\ t.ring = s.ring
      /\ t.ev_permit = [s.ev_permit EXCEPT ![id] = permit]
      /\ t.state = [s.state EXCEPT ![id] = state]
      /\ t.ev_mask = [s.ev_mask EXCEPT ![id] = trigger \cap IO]
      /\ t.events = [s.events EXCEPT ![id] = IF permit THEN {} ELSE trigger \cap IO]
      /\ t.interest = [s.interest EXCEPT ![id] = IF permit THEN trigger ELSE {}]
      /\ t.armed = IF permit THEN s.armed \cup {id} ELSE s.armed
  BY <1>4, <1>5 DEF MplexType
<1>7. /\ t.ev_permit \in [Nodes -> BOOLEAN]
      /\ t.state \in [Nodes -> {FREE, WAIT, READY}]
      /\ t.ev_mask \in [Nodes -> SUBSET (IO \cup {TIMER})]
      /\ t.events \in [Nodes -> SUBSET (IO \cup {TIMER})]
      /\ t.interest \in [Nodes -> SUBSET (IO \cup {EDGE})]
      /\ t.armed \in SUBSET Slots
  BY <1>2, <1>3, <1>5, <1>6, FieldTypes
<1>8. /\ t.fd \in [Nodes -> Nat \cup {NoFd}]
      /\ t.uptime \in [Nodes -> Nat]
      /\ t.handler_id \in [Nodes -> Nat]
  BY <1>2, <1>4, <1>5 DEF MplexType
<1>9. t \in MplexType
  BY <1>4, <1>5, <1>7, <1>8 DEF MplexType
<1>10. \A i \in Slots \ {id} : SameHandle(s, t, i)
  BY <1>2, <1>5, <1>6, NodesFacts, FieldTypes DEF SameHandle
<1>11. HandleOK(t, id, state)
  <2>1. /\ t.ev_permit[id] = permit /\ t.state[id] = state
        /\ t.events[id] = IF permit THEN {} ELSE trigger \cap IO
        /\ t.interest[id] = IF permit THEN trigger ELSE {}
        /\ t.armed = IF permit THEN s.armed \cup {id} ELSE s.armed
    BY <1>2, <1>5, <1>6, FieldTypes
  <2>2. id \notin s.armed /\ trigger # {}
    BY <1>1, FreshIdFree
  <2> QED BY <1>3, <2>1, <2>2, NodesFacts DEF HandleOK, Heads, Enabled
<1>12. Sound(Requeue(t, id, state))
  BY <1>2, <1>6, <1>9, <1>10, <1>11, MoveSound
<1> QED BY <1>1, <1>3, <1>4, <1>12 DEF Add

(* drop: fewer events, and the handle waits again when none is left. *)
LEMMA DropSound ==
  ASSUME NEW s, Sound(s), NEW events \in SUBSET IO, NEW id \in Nodes
  PROVE  Sound(Drop(s, events, id))
<1>1. CASE ~InUse(s, id)
  BY <1>1 DEF Drop
<1>2. CASE InUse(s, id)
  <2>1. id \in Slots /\ s.state[id] # FREE /\ s \in MplexType /\ id \in Nodes
    BY <1>2 DEF InUse, Sound, RingOK
  <2>2. PICK t : t = IF s.ev_permit[id] THEN [s EXCEPT !.events[id] = @ \ events] ELSE s
    OBVIOUS
  <2>3. /\ t \in MplexType
        /\ t.ring = s.ring /\ t.state = s.state /\ t.ev_permit = s.ev_permit
        /\ t.ev_mask = s.ev_mask /\ t.interest = s.interest /\ t.armed = s.armed
        /\ t.events = IF s.ev_permit[id] THEN [s.events EXCEPT ![id] = @ \ events]
                                         ELSE s.events
    BY <2>1, <2>2 DEF MplexType
  <2>4. \A i \in Slots \ {id} : SameHandle(s, t, i)
    BY <2>1, <2>3, NodesFacts, FieldTypes DEF SameHandle
  <2>5. t.events[id] \subseteq s.events[id]
    BY <2>1, <2>3, FieldTypes
  <2>6. HandleOK(s, id, s.ring.home[id])
    BY <2>1 DEF Sound, RingOK
  <2>7. CASE s.state[id] = READY /\ Enabled(t, id) = {}
    <3>1. PICK u : u = [t EXCEPT !.state[id] = WAIT]
      OBVIOUS
    <3>2. /\ u \in MplexType
          /\ u.ring = s.ring /\ u.state = [s.state EXCEPT ![id] = WAIT]
          /\ u.ev_permit = s.ev_permit /\ u.events = t.events
          /\ u.ev_mask = s.ev_mask /\ u.interest = s.interest /\ u.armed = s.armed
      BY <2>1, <2>3, <3>1 DEF MplexType
    <3>3. \A i \in Slots \ {id} : SameHandle(s, u, i)
      BY <2>1, <2>3, <3>2, NodesFacts, FieldTypes DEF SameHandle
    <3>4. HandleOK(u, id, WAIT)
      <4>1. u.state[id] = WAIT /\ Enabled(u, id) = {}
        BY <2>1, <2>3, <2>7, <3>2, FieldTypes DEF Enabled
      <4> QED BY <2>1, <2>6, <3>2, <4>1, NodesFacts DEF HandleOK, Heads
    <3>5. Sound(Requeue(u, id, WAIT))
      BY <2>1, <3>2, <3>3, <3>4, MoveSound
    <3> QED BY <1>2, <2>2, <2>7, <3>1, <3>5 DEF Drop
  <2>8. CASE ~(s.state[id] = READY /\ Enabled(t, id) = {})
    <3>1. HandleOK(t, id, s.ring.home[id])
      BY <2>3, <2>5, <2>6 DEF HandleOK, Enabled
    <3>2. Sound(t)
      BY <2>1, <2>3, <2>4, <3>1, StaySound
    <3> QED BY <1>2, <2>2, <2>8, <3>2 DEF Drop
  <2> QED BY <2>7, <2>8
<1> QED BY <1>1, <1>2

(* stop_timer changes the timer's events and mask alone; it may leave the  *)
(* entry in the multimap.                                                  *)
LEMMA StopTimerFrame ==
  ASSUME NEW s \in MplexType, NEW id \in Nodes, NEW u, InUse(s, id) /\ u = StopTimer(s, id)
  PROVE  /\ u \in MplexType
         /\ u.ring = s.ring /\ u.state = s.state /\ u.ev_permit = s.ev_permit
         /\ u.interest = s.interest /\ u.armed = s.armed /\ u.looptime = s.looptime
         /\ \A i \in Nodes :
              /\ u.events[i] = IF i = id THEN s.events[i] \ {TIMER} ELSE s.events[i]
              /\ u.ev_mask[i] = IF i = id THEN s.ev_mask[i] \ {TIMER} ELSE s.ev_mask[i]
<1>1. PICK t : t = [s EXCEPT !.uptime[id] = 0, !.events[id] = @ \ {TIMER}]
  OBVIOUS
<1>2. /\ t.ring = s.ring /\ t.state = s.state /\ t.ev_permit = s.ev_permit
      /\ t.interest = s.interest /\ t.armed = s.armed /\ t.looptime = s.looptime
      /\ t.events = [s.events EXCEPT ![id] = @ \ {TIMER}]
      /\ t.ev_mask = s.ev_mask /\ t.timers = s.timers
      /\ t \in MplexType
  BY <1>1 DEF MplexType
<1>3. PICK v : v = IF TIMER \in t.ev_mask[id]
                   THEN [t EXCEPT !.timers = @ \ {<<t.uptime[id], id>>}]
                   ELSE t
  OBVIOUS
<1>4. /\ v.ring = t.ring /\ v.state = t.state /\ v.ev_permit = t.ev_permit
      /\ v.interest = t.interest /\ v.armed = t.armed /\ v.looptime = t.looptime
      /\ v.events = t.events /\ v.ev_mask = t.ev_mask
      /\ v \in MplexType
  BY <1>2, <1>3 DEF MplexType
<1>5. u = [v EXCEPT !.ev_mask[id] = @ \ {TIMER}]
  BY <1>1, <1>3 DEF StopTimer
<1>6. /\ u.ring = v.ring /\ u.state = v.state /\ u.ev_permit = v.ev_permit
      /\ u.interest = v.interest /\ u.armed = v.armed /\ u.looptime = v.looptime
      /\ u.events = v.events /\ u.ev_mask = [v.ev_mask EXCEPT ![id] = @ \ {TIMER}]
  BY <1>4, <1>5 DEF MplexType
<1>7. u.ev_mask \in [Nodes -> SUBSET (IO \cup {TIMER})]
  BY <1>4, <1>6, FieldTypes
<1>8. u \in MplexType
  BY <1>4, <1>5, <1>7 DEF MplexType
<1>9. \A i \in Nodes :
        /\ u.events[i] = IF i = id THEN s.events[i] \ {TIMER} ELSE s.events[i]
        /\ u.ev_mask[i] = IF i = id THEN s.ev_mask[i] \ {TIMER} ELSE s.ev_mask[i]
  <2>1. /\ s.events \in [Nodes -> SUBSET (IO \cup {TIMER})]
        /\ s.ev_mask \in [Nodes -> SUBSET (IO \cup {TIMER})]
    BY FieldTypes
  <2>2. u.events = [s.events EXCEPT ![id] = s.events[id] \ {TIMER}]
    BY <1>2, <1>4, <1>6
  <2>3. u.ev_mask = [s.ev_mask EXCEPT ![id] = s.ev_mask[id] \ {TIMER}]
    BY <1>2, <1>4, <1>6
  <2> QED BY <2>1, <2>2, <2>3
<1> QED BY <1>2, <1>4, <1>6, <1>8, <1>9

(* The time out of a handle is no business of the other handles. *)
LEMMA StopTimerSound ==
  ASSUME NEW s, Sound(s), NEW id \in Nodes
  PROVE  Sound(StopTimer(s, id))
<1>1. CASE ~InUse(s, id)
  BY <1>1 DEF StopTimer
<1>2. CASE InUse(s, id)
  <2>1. id \in Slots /\ s \in MplexType
    BY <1>2 DEF InUse, Sound, RingOK
  <2>2. PICK u : u = StopTimer(s, id)
    OBVIOUS
  <2>3. /\ u \in MplexType
        /\ u.ring = s.ring /\ u.state = s.state /\ u.ev_permit = s.ev_permit
        /\ u.interest = s.interest /\ u.armed = s.armed
        /\ \A i \in Nodes :
             /\ u.events[i] = IF i = id THEN s.events[i] \ {TIMER} ELSE s.events[i]
             /\ u.ev_mask[i] = IF i = id THEN s.ev_mask[i] \ {TIMER} ELSE s.ev_mask[i]
    BY <1>2, <2>1, <2>2, StopTimerFrame
  <2>4. \A i \in Slots \ {id} : SameHandle(s, u, i)
    BY <2>1, <2>3, NodesFacts, FieldTypes DEF SameHandle
  <2>5. HandleOK(u, id, s.ring.home[id])
    <3>1. HandleOK(s, id, s.ring.home[id])
      BY <2>1 DEF Sound, RingOK
    <3>2. Enabled(u, id) \subseteq Enabled(s, id)
      BY <2>1, <2>3, FieldTypes DEF Enabled
    <3> QED BY <2>3, <3>1, <3>2 DEF HandleOK
  <2> QED BY <2>1, <2>2, <2>3, <2>4, <2>5, StaySound
<1> QED BY <1>1, <1>2

(* ... and leaves no time out pending. *)
LEMMA StopTimerState ==
  ASSUME NEW s, Sound(s), NEW id \in Nodes, InUse(s, id), NEW t, t = StopTimer(s, id)
  PROVE  t.state[id] = s.state[id] /\ TIMER \notin t.events[id]
<1>1. s \in MplexType
  BY DEF Sound, RingOK
<1>2. /\ t \in MplexType
      /\ t.ring = s.ring /\ t.state = s.state /\ t.ev_permit = s.ev_permit
      /\ t.interest = s.interest /\ t.armed = s.armed /\ t.looptime = s.looptime
      /\ \A i \in Nodes :
           /\ t.events[i] = IF i = id THEN s.events[i] \ {TIMER} ELSE s.events[i]
           /\ t.ev_mask[i] = IF i = id THEN s.ev_mask[i] \ {TIMER} ELSE s.ev_mask[i]
  BY <1>1, StopTimerFrame
<1> QED BY <1>2

(* add_timer: a handle without a file, ready at once if the time is over. *)
LEMMA AddTimerSound ==
  ASSUME NEW s, Sound(s), HasRoom(s), NEW uptime \in Nat \ {0}, NEW handler_id \in Nat
  PROVE  Sound(AddTimer(s, uptime, handler_id))
<1>1. PICK id : id = FreshId(s)
  OBVIOUS
<1>2. id \in Slots /\ id \in Nodes /\ s.interest[id] = {} /\ id \notin s.armed
  BY <1>1, FreshIdFree, NodesFacts
<1> DEFINE later == s.looptime < uptime
<1>4. PICK state : state = IF later THEN WAIT ELSE READY
  OBVIOUS
<1>5. PICK t : t = [s EXCEPT !.ev_permit[id]  = FALSE,
                             !.fd[id]         = NoFd,
                             !.uptime[id]     = uptime,
                             !.handler_id[id] = handler_id,
                             !.state[id]      = state,
                             !.ev_mask[id]    = {TIMER},
                             !.events[id]     = IF later THEN {} ELSE {TIMER},
                             !.timers         = IF later THEN @ \cup {<<uptime, id>>} ELSE @]
  OBVIOUS
<1>6. s \in MplexType
  BY DEF Sound, RingOK
<1>7. /\ t.ring = s.ring /\ t.interest = s.interest /\ t.armed = s.armed
      /\ t.ev_permit = [s.ev_permit EXCEPT ![id] = FALSE]
      /\ t.state = [s.state EXCEPT ![id] = state]
      /\ t.ev_mask = [s.ev_mask EXCEPT ![id] = {TIMER}]
      /\ t.events = [s.events EXCEPT ![id] = IF later THEN {} ELSE {TIMER}]
      /\ t.timers = IF later THEN s.timers \cup {<<uptime, id>>} ELSE s.timers
  BY <1>5, <1>6 DEF MplexType
<1>8. /\ t.ev_permit \in [Nodes -> BOOLEAN]
      /\ t.state \in [Nodes -> {FREE, WAIT, READY}]
      /\ t.ev_mask \in [Nodes -> SUBSET (IO \cup {TIMER})]
      /\ t.events \in [Nodes -> SUBSET (IO \cup {TIMER})]
      /\ t.timers \in SUBSET ((Nat \ {0}) \X Slots)
  BY <1>2, <1>4, <1>6, <1>7, FieldTypes
<1>9. /\ t.fd \in [Nodes -> Nat \cup {NoFd}]
      /\ t.uptime \in [Nodes -> Nat]
      /\ t.handler_id \in [Nodes -> Nat]
  BY <1>2, <1>5, <1>6 DEF MplexType
<1>10. t \in MplexType
  BY <1>5, <1>6, <1>8, <1>9 DEF MplexType
<1>11. \A i \in Slots \ {id} : SameHandle(s, t, i)
  BY <1>2, <1>6, <1>7, NodesFacts, FieldTypes DEF SameHandle
<1>12. HandleOK(t, id, state)
  <2>1. /\ t.state[id] = state /\ t.interest[id] = {} /\ id \notin t.armed
        /\ t.events[id] = IF later THEN {} ELSE {TIMER}
    BY <1>2, <1>6, <1>7, FieldTypes
  <2> QED BY <1>4, <2>1, NodesFacts DEF HandleOK, Heads, Enabled
<1>13. Sound(Requeue(t, id, state))
  BY <1>2, <1>7, <1>10, <1>11, <1>12, MoveSound
<1> QED BY <1>1, <1>4, <1>5, <1>13 DEF AddTimer

(* mod_timer: stop_timer, and the new time; over already, it is pending. *)
LEMMA ModTimerSound ==
  ASSUME NEW s, Sound(s), NEW uptime \in Nat \ {0}, NEW id \in Nodes
  PROVE  Sound(ModTimer(s, uptime, id))
<1>1. CASE ~InUse(s, id)
  BY <1>1 DEF ModTimer
<1>2. CASE InUse(s, id)
  <2> DEFINE later == s.looptime < uptime
  <2>1. id \in Slots /\ s \in MplexType /\ s.state[id] # FREE
    BY <1>2 DEF InUse, Sound, RingOK
  <2>2. PICK t : t = StopTimer(s, id)
    OBVIOUS
  <2>3. Sound(t) /\ t \in MplexType
    BY <2>2, StopTimerSound DEF Sound, RingOK
  <2>4. t.state[id] = s.state[id] /\ TIMER \notin t.events[id]
    BY <1>2, <2>2, StopTimerState
  <2>5. HandleOK(t, id, t.ring.home[id])
    BY <2>1, <2>3 DEF Sound, RingOK
  <2>6. PICK state : state = IF later THEN t.state[id] ELSE READY
    OBVIOUS
  <2>7. state \in {WAIT, READY}
    BY <2>1, <2>4, <2>6, FieldTypes
  <2>8. PICK u : u = [t EXCEPT !.uptime[id]  = uptime,
                               !.state[id]   = state,
                               !.ev_mask[id] = @ \cup {TIMER},
                               !.events[id]  = @ \cup (IF later THEN {} ELSE {TIMER}),
                               !.timers      = IF state = WAIT THEN @ \cup {<<uptime, id>>}
                                                               ELSE @]
    OBVIOUS
  <2>9. /\ u.ring = t.ring /\ u.interest = t.interest /\ u.armed = t.armed
        /\ u.ev_permit = t.ev_permit
        /\ u.state = [t.state EXCEPT ![id] = state]
        /\ u.ev_mask = [t.ev_mask EXCEPT ![id] = @ \cup {TIMER}]
        /\ u.events = [t.events EXCEPT ![id] = @ \cup (IF later THEN {} ELSE {TIMER})]
        /\ u.timers = IF state = WAIT THEN t.timers \cup {<<uptime, id>>} ELSE t.timers
    BY <2>3, <2>8 DEF MplexType
  <2>10. /\ u.state \in [Nodes -> {FREE, WAIT, READY}]
         /\ u.ev_mask \in [Nodes -> SUBSET (IO \cup {TIMER})]
         /\ u.events \in [Nodes -> SUBSET (IO \cup {TIMER})]
         /\ u.timers \in SUBSET ((Nat \ {0}) \X Slots)
    BY <2>1, <2>3, <2>7, <2>9, FieldTypes
  <2>11. u.uptime \in [Nodes -> Nat]
    BY <2>3, <2>8 DEF MplexType
  <2>12. u \in MplexType
    BY <2>3, <2>8, <2>10, <2>11 DEF MplexType
  <2>13. \A i \in Slots \ {id} : SameHandle(t, u, i)
    BY <2>1, <2>3, <2>9, NodesFacts, FieldTypes DEF SameHandle
  <2>14. u.state[id] = state
    BY <2>1, <2>3, <2>9, FieldTypes
  <2>15. CASE state # t.state[id]
    <3>1. state = READY
      BY <2>6, <2>15
    <3>2. HandleOK(u, id, READY)
      BY <2>5, <2>9, <2>14, <3>1, NodesFacts DEF HandleOK, Heads
    <3>3. Sound(Requeue(u, id, state))
      BY <2>1, <2>3, <2>9, <2>12, <2>13, <3>1, <3>2, MoveSound
    <3> QED BY <1>2, <2>2, <2>6, <2>8, <2>15, <3>3 DEF ModTimer
  <2>16. CASE state = t.state[id]
    <3>1. HandleOK(u, id, t.ring.home[id])
      <4>1. CASE state = READY
        BY <2>5, <2>9, <2>14, <2>16, <4>1, NodesFacts DEF HandleOK, Heads
      <4>2. CASE state = WAIT
        <5>1. later
          BY <2>6, <4>2, NodesFacts
        <5>2. Enabled(u, id) = Enabled(t, id)
          BY <2>1, <2>3, <2>4, <2>9, <5>1, FieldTypes DEF Enabled
        <5> QED BY <2>5, <2>9, <2>14, <2>16, <4>2, <5>2, NodesFacts DEF HandleOK, Heads
      <4> QED BY <2>7, <4>1, <4>2
    <3>2. Sound(u)
      BY <2>1, <2>3, <2>9, <2>12, <2>13, <3>1, StaySound
    <3> QED BY <1>2, <2>2, <2>6, <2>8, <2>16, <3>2 DEF ModTimer
  <2> QED BY <2>15, <2>16
<1> QED BY <1>1, <1>2

(* t is s with another mask for handle id. *)
OtherMask(s, t, id) ==
  /\ t \in MplexType
  /\ t.ring = s.ring /\ t.state = s.state /\ t.ev_permit = s.ev_permit
  /\ t.interest = s.interest /\ t.armed = s.armed /\ t.events = s.events
  /\ \A i \in Slots \ {id} : t.ev_mask[i] = s.ev_mask[i]

(* mod changes the mask first ... *)
LEMMA MaskedFrame ==
  ASSUME NEW s \in MplexType, NEW trigger \in SUBSET (IO \cup {EDGE}), NEW id \in Slots,
         NEW t, t = Masked(s, trigger, id)
  PROVE  OtherMask(s, t, id)
<1>1. PICK mask : mask = [s.ev_mask EXCEPT ![id] = (@ \ IO) \cup (trigger \cap IO)]
  OBVIOUS
<1>2. t = [s EXCEPT !.ev_mask = mask]
  BY <1>1 DEF Masked
<1>3. s.ev_mask \in [Nodes -> SUBSET (IO \cup {TIMER})] /\ id \in Nodes
  BY FieldTypes, NodesFacts
<1>4. mask \in [Nodes -> SUBSET (IO \cup {TIMER})]
  BY <1>1, <1>3
<1>5. /\ t \in MplexType
      /\ t.ring = s.ring /\ t.state = s.state /\ t.ev_permit = s.ev_permit
      /\ t.interest = s.interest /\ t.armed = s.armed /\ t.events = s.events
      /\ t.ev_mask = mask
  BY <1>2, <1>4 DEF MplexType
<1>6. \A i \in Slots \ {id} : mask[i] = s.ev_mask[i]
  BY <1>1, <1>3, NodesFacts
<1> QED BY <1>5, <1>6 DEF OtherMask

(* ... and leaves it so when the kernel refuses the rest: that handle is   *)
(* not registered, and nothing is promised of it until it is deleted.      *)
LEMMA ModRefusedSound ==
  ASSUME NEW s, Sound(s), NEW trigger \in SUBSET (IO \cup {EDGE}), NEW id \in Slots,
         s.ev_permit[id], s.interest[id] = {}
  PROVE  Sound(ModRefused(s, trigger, id))
<1>1. s \in MplexType
  BY DEF Sound, RingOK
<1>2. PICK t : t = Masked(s, trigger, id)
  OBVIOUS
<1>3. OtherMask(s, t, id)
  BY <1>1, <1>2, MaskedFrame
<1>4. \A i \in Slots \ {id} : SameHandle(s, t, i)
  BY <1>3 DEF SameHandle, OtherMask
<1>5. HandleOK(t, id, s.ring.home[id])
  <2>1. HandleOK(s, id, s.ring.home[id])
    BY DEF Sound, RingOK
  <2> QED BY <1>3, <2>1 DEF HandleOK, OtherMask
<1>6. Sound(t)
  BY <1>3, <1>4, <1>5, StaySound DEF OtherMask
<1> QED BY <1>2, <1>6 DEF ModRefused

(* mod: whatever the new trigger, the handle is on the ring READY exactly  *)
(* when an event it waits for is pending.                                  *)
LEMMA ModSound ==
  ASSUME NEW s, Sound(s), NEW trigger \in SUBSET (IO \cup {EDGE}), NEW id \in Slots
  PROVE  Sound(Mod(s, trigger, id))
<1>1. CASE ~InUse(s, id)
  BY <1>1 DEF Mod
<1>2. CASE InUse(s, id)
  <2>0. s.state[id] # FREE
    BY <1>2 DEF InUse
  <2>1. s \in MplexType /\ id \in Nodes
    BY NodesFacts DEF Sound, RingOK
  <2>2. PICK t : t = Masked(s, trigger, id)
    OBVIOUS
  <2>3. /\ t \in MplexType
        /\ t.ring = s.ring /\ t.state = s.state /\ t.ev_permit = s.ev_permit
        /\ t.interest = s.interest /\ t.armed = s.armed /\ t.events = s.events
        /\ \A i \in Slots \ {id} : t.ev_mask[i] = s.ev_mask[i]
    <3>1. OtherMask(s, t, id)
      BY <2>1, <2>2, MaskedFrame
    <3> QED BY <3>1 DEF OtherMask
  <2>4. PICK u :
          u = CASE s.ev_permit[id] ->
                     [t EXCEPT !.interest[id] = IF trigger \cap IO = {} THEN {} ELSE trigger,
                               !.armed = IF trigger \cap IO = {} THEN @ \ {id}
                                                                 ELSE @ \cup {id}]
                [] ~s.ev_permit[id] /\ trigger \cap IO # {} ->
                     [t EXCEPT !.events[id] = (@ \ IO) \cup (trigger \cap IO)]
                [] OTHER -> t
    OBVIOUS
  <2>5. HandleOK(s, id, s.ring.home[id])
    BY <2>1 DEF Sound, RingOK
  <2>6. /\ u \in MplexType
        /\ u.ring = s.ring /\ u.state = s.state /\ u.ev_permit = s.ev_permit
        /\ \A i \in Slots \ {id} : SameHandle(s, u, i)
        /\ u.interest[id] # {} => u.ev_permit[id]
        /\ id \in u.armed => u.interest[id] # {}
    <3>1. CASE s.ev_permit[id]
      <4>1. u = [t EXCEPT !.interest[id] = IF trigger \cap IO = {} THEN {} ELSE trigger,
                          !.armed = IF trigger \cap IO = {} THEN @ \ {id} ELSE @ \cup {id}]
        BY <2>4, <3>1
      <4>2. /\ u.ring = t.ring /\ u.state = t.state /\ u.ev_permit = t.ev_permit
            /\ u.events = t.events /\ u.ev_mask = t.ev_mask
            /\ u.interest = [t.interest EXCEPT ![id] = IF trigger \cap IO = {} THEN {} ELSE trigger]
            /\ u.armed = IF trigger \cap IO = {} THEN t.armed \ {id} ELSE t.armed \cup {id}
        BY <2>3, <4>1 DEF MplexType
      <4>3. u.interest \in [Nodes -> SUBSET (IO \cup {EDGE})] /\ u.armed \in SUBSET Slots
        BY <2>1, <2>3, <4>2, FieldTypes
      <4>4. u \in MplexType
        BY <2>3, <4>1, <4>3 DEF MplexType
      <4>5. \A i \in Slots \ {id} : SameHandle(s, u, i)
        BY <2>1, <2>3, <4>2, NodesFacts, FieldTypes DEF SameHandle
      <4>6. /\ u.interest[id] = IF trigger \cap IO = {} THEN {} ELSE trigger
            /\ id \in u.armed => trigger \cap IO # {}
        BY <2>1, <2>3, <4>2, FieldTypes
      <4> QED BY <2>3, <3>1, <4>2, <4>4, <4>5, <4>6
    <3>2. CASE ~s.ev_permit[id] /\ trigger \cap IO # {}
      <4>1. u = [t EXCEPT !.events[id] = (@ \ IO) \cup (trigger \cap IO)]
        BY <2>4, <3>2
      <4>2. /\ u.ring = t.ring /\ u.state = t.state /\ u.ev_permit = t.ev_permit
            /\ u.interest = t.interest /\ u.armed = t.armed /\ u.ev_mask = t.ev_mask
            /\ u.events = [t.events EXCEPT ![id] = (@ \ IO) \cup (trigger \cap IO)]
        BY <2>3, <4>1 DEF MplexType
      <4>3. u.events \in [Nodes -> SUBSET (IO \cup {TIMER})]
        BY <2>1, <2>3, <4>2, FieldTypes
      <4>4. u \in MplexType
        BY <2>3, <4>1, <4>3 DEF MplexType
      <4>5. \A i \in Slots \ {id} : SameHandle(s, u, i)
        BY <2>1, <2>3, <4>2, NodesFacts, FieldTypes DEF SameHandle
      <4> QED BY <2>3, <2>5, <4>2, <4>4, <4>5 DEF HandleOK
    <3>3. CASE ~s.ev_permit[id] /\ trigger \cap IO = {}
      <4>1. u = t
        BY <2>4, <3>3
      <4>2. \A i \in Slots \ {id} : SameHandle(s, u, i)
        BY <2>3, <4>1 DEF SameHandle
      <4> QED BY <2>3, <2>5, <4>1, <4>2 DEF HandleOK
    <3> QED BY <3>1, <3>2, <3>3
  <2>7. PICK state : state = IF Enabled(u, id) # {} THEN READY ELSE WAIT
    OBVIOUS
  <2>8. PICK v : v = [u EXCEPT !.state[id] = state]
    OBVIOUS
  <2>9. /\ v \in MplexType
        /\ v.ring = u.ring /\ v.ev_permit = u.ev_permit /\ v.events = u.events
        /\ v.ev_mask = u.ev_mask /\ v.interest = u.interest /\ v.armed = u.armed
        /\ v.state = [u.state EXCEPT ![id] = state]
    BY <2>6, <2>7, <2>8 DEF MplexType
  <2>10. \A i \in Slots \ {id} : SameHandle(s, v, i)
    BY <2>1, <2>6, <2>9, NodesFacts, FieldTypes DEF SameHandle
  <2>11. v.state[id] = state /\ Enabled(v, id) = Enabled(u, id)
    BY <2>1, <2>6, <2>9, NodesFacts, FieldTypes DEF Enabled
  <2>12. CASE state # s.state[id]
    <3>1. HandleOK(v, id, state)
      BY <2>6, <2>7, <2>9, <2>11, NodesFacts DEF HandleOK, Heads
    <3>2. Sound(Requeue(v, id, state))
      BY <2>1, <2>6, <2>9, <2>10, <3>1, MoveSound
    <3> QED BY <1>2, <2>2, <2>4, <2>7, <2>8, <2>12, <3>2 DEF Mod
  <2>13. CASE state = s.state[id]
    <3>1. HandleOK(v, id, s.ring.home[id])
      BY <2>0, <2>5, <2>6, <2>7, <2>9, <2>11, <2>13, NodesFacts DEF HandleOK, Heads
    <3>2. Sound(v)
      BY <2>1, <2>6, <2>9, <2>10, <3>1, StaySound
    <3> QED BY <1>2, <2>2, <2>4, <2>7, <2>8, <2>13, <3>2 DEF Mod
  <2> QED BY <2>12, <2>13
<1> QED BY <1>1, <1>2

(* wait: an event of a registered file takes its handle to the ring READY. *)
LEMMA CollectSound ==
  ASSUME NEW s, Sound(s), NEW id \in Slots, s.interest[id] # {}, NEW events \in SUBSET IO
  PROVE  Sound(Collect(s, id, events)) /\ Collect(s, id, events).interest = s.interest
<1>1. s \in MplexType /\ id \in Nodes
  BY NodesFacts DEF Sound, RingOK
<1>2. PICK t : t = [s EXCEPT !.events[id] = @ \cup events]
  OBVIOUS
<1>3. /\ t.ring = s.ring /\ t.state = s.state /\ t.ev_permit = s.ev_permit
      /\ t.ev_mask = s.ev_mask /\ t.interest = s.interest /\ t.armed = s.armed
      /\ t.events = [s.events EXCEPT ![id] = @ \cup events]
  BY <1>1, <1>2 DEF MplexType
<1>4. t.events \in [Nodes -> SUBSET (IO \cup {TIMER})]
  BY <1>1, <1>3, FieldTypes
<1>5. t \in MplexType
  BY <1>1, <1>2, <1>4 DEF MplexType
<1>6. \A i \in Slots \ {id} : SameHandle(s, t, i)
  BY <1>1, <1>3, NodesFacts, FieldTypes DEF SameHandle
<1>7. HandleOK(s, id, s.ring.home[id])
  BY DEF Sound, RingOK
<1>8. CASE s.state[id] = WAIT /\ Enabled(t, id) # {}
  <2>1. HandleOK(t, id, READY)
    BY <1>3, <1>7, <1>8, NodesFacts DEF HandleOK, Heads
  <2>2. Sound(Requeue(t, id, READY))
    BY <1>3, <1>5, <1>6, <2>1, MoveSound
  <2>3. Requeue(t, id, READY).interest = s.interest
    BY <1>3, <1>5 DEF Requeue, MplexType
  <2> QED BY <1>2, <1>8, <2>2, <2>3 DEF Collect
<1>9. CASE ~(s.state[id] = WAIT /\ Enabled(t, id) # {})
  <2>1. HandleOK(t, id, s.ring.home[id])
    <3>1. s.state[id] \in {FREE, WAIT, READY} /\ s.state[id] # FREE
      BY <1>1, <1>7, FieldTypes DEF HandleOK
    <3> QED BY <1>3, <1>7, <1>9, <3>1, NodesFacts DEF HandleOK, Heads
  <2>2. Sound(t)
    BY <1>3, <1>5, <1>6, <2>1, StaySound
  <2> QED BY <1>2, <1>3, <1>9, <2>2 DEF Collect
<1> QED BY <1>8, <1>9

(* run_timer: an entry that is due, even one left over by stop_timer or    *)
(* by a handle that is free by now, harms no handle.                       *)
LEMMA ExpireSound ==
  ASSUME NEW s, Sound(s), NEW e \in s.timers
  PROVE  Sound(Expire(s, e))
<1>1. s \in MplexType
  BY DEF Sound, RingOK
<1>2. PICK id : id = e[2]
  OBVIOUS
<1>3. id \in Slots /\ id \in Nodes
  BY <1>1, <1>2, FieldTypes, NodesFacts
<1>4. PICK t : t = [s EXCEPT !.events[id] = @ \cup {TIMER}, !.timers = @ \ {e}]
  OBVIOUS
<1>5. /\ t.ring = s.ring /\ t.state = s.state /\ t.ev_permit = s.ev_permit
      /\ t.ev_mask = s.ev_mask /\ t.interest = s.interest /\ t.armed = s.armed
      /\ t.events = [s.events EXCEPT ![id] = @ \cup {TIMER}]
      /\ t.timers = s.timers \ {e}
  BY <1>1, <1>4 DEF MplexType
<1>6. /\ t.events \in [Nodes -> SUBSET (IO \cup {TIMER})]
      /\ t.timers \in SUBSET ((Nat \ {0}) \X Slots)
  BY <1>1, <1>3, <1>5, FieldTypes
<1>7. t \in MplexType
  BY <1>1, <1>4, <1>6 DEF MplexType
<1>8. \A i \in Slots \ {id} : SameHandle(s, t, i)
  BY <1>1, <1>3, <1>5, NodesFacts, FieldTypes DEF SameHandle
<1>9. HandleOK(s, id, s.ring.home[id])
  BY <1>3 DEF Sound, RingOK
<1>10. CASE s.state[id] = WAIT
  <2>1. HandleOK(t, id, READY)
    BY <1>5, <1>9, <1>10, NodesFacts DEF HandleOK, Heads
  <2>2. Sound(Requeue(t, id, READY))
    BY <1>3, <1>5, <1>7, <1>8, <2>1, MoveSound
  <2> QED BY <1>2, <1>4, <1>10, <2>2 DEF Expire
<1>11. CASE s.state[id] # WAIT
  <2>1. HandleOK(t, id, s.ring.home[id])
    <3>1. s.state[id] \in {FREE, WAIT, READY}
      BY <1>1, <1>3, FieldTypes
    <3> QED BY <1>5, <1>9, <1>11, <3>1, NodesFacts DEF HandleOK, Heads
  <2>2. Sound(t)
    BY <1>3, <1>5, <1>7, <1>8, <2>1, StaySound
  <2> QED BY <1>2, <1>4, <1>11, <2>2 DEF Expire
<1> QED BY <1>10, <1>11

(* The clock. *)
LEMMA ReadClockSound ==
  ASSUME NEW s, Sound(s), NEW now \in Nat
  PROVE  Sound(ReadClock(s, now))
<1>1. s \in MplexType
  BY DEF Sound, RingOK
<1>2. PICK t : t = [s EXCEPT !.looptime = now]
  OBVIOUS
<1>3. /\ t \in MplexType
      /\ t.ring = s.ring /\ t.state = s.state /\ t.ev_permit = s.ev_permit
      /\ t.ev_mask = s.ev_mask /\ t.interest = s.interest /\ t.armed = s.armed
      /\ t.events = s.events
  BY <1>1, <1>2 DEF MplexType
<1>4. \A i \in Slots : HandleOK(t, i, t.ring.home[i])
  BY <1>3 DEF Sound, RingOK, HandleOK, Enabled
<1>5. Sound(t)
  BY <1>3, <1>4 DEF Sound, RingOK
<1> QED BY <1>2, <1>5 DEF ReadClock

(* The kernel's ready list holds registered handles only: epoll_wait may   *)
(* take some off it, a wakeup may put one on it.                           *)
LEMMA ArmedSound ==
  ASSUME NEW s, Sound(s), NEW armed \in SUBSET Slots,
         \A id \in armed : s.interest[id] # {},
         NEW t, t = [s EXCEPT !.armed = armed]
  PROVE  Sound(t) /\ t.interest = s.interest
<1>1. s \in MplexType
  BY DEF Sound, RingOK
<1>2. /\ t \in MplexType
      /\ t.ring = s.ring /\ t.state = s.state /\ t.ev_permit = s.ev_permit
      /\ t.ev_mask = s.ev_mask /\ t.interest = s.interest /\ t.armed = armed
      /\ t.events = s.events
  BY <1>1 DEF MplexType
<1>3. \A i \in Slots : HandleOK(t, i, t.ring.home[i])
  BY <1>2 DEF Sound, RingOK, HandleOK, Enabled
<1> QED BY <1>2, <1>3 DEF Sound, RingOK

(* The constructor: every handle free, on the ring FREE. *)
LEMMA FreshSound == Sound(FreshMplex(0))
<1>1. PICK r : r = Erase(Erase(Resize(MaxEvents+3), WAIT), READY)
  OBVIOUS
<1>2. WellLinked(r, Nodes) /\ \A i \in Nodes : r.home[i] = IF i \in {WAIT, READY} THEN i ELSE FREE
  <2>1. MaxEvents + 3 \in Nat /\ MaxEvents + 3 >= 3 /\ Nodes = 0..(MaxEvents+3)-1
    BY MaxEventsAssumption DEF Nodes
  <2> QED BY <1>1, <2>1, FreshLinks
<1>3. r \in [next : [Nodes -> Nodes], prev : [Nodes -> Nodes], home : [Nodes -> Nodes]]
  BY <1>1, <1>2 DEF WellLinked, Links, Erase
<1>4. PICK s : s = FreshMplex(0)
  OBVIOUS
<1>5. /\ s.ring = r /\ s.armed = {}
      /\ s.state = [i \in Nodes |-> FREE] /\ s.interest = [i \in Nodes |-> {}]
  BY <1>1, <1>4 DEF FreshMplex
<1>6. s \in MplexType
  BY <1>1, <1>3, <1>4 DEF FreshMplex, MplexType
<1>7. \A h \in Heads : s.ring.home[h] = h
  BY <1>2, <1>5, NodesFacts DEF Heads
<1>8. \A id \in Slots : HandleOK(s, id, s.ring.home[id])
  BY <1>2, <1>5, NodesFacts DEF Heads, HandleOK
<1>9. Rooted(r, Nodes, Heads)
  <2>1. MaxEvents + 3 \in Nat /\ MaxEvents + 3 >= 3 /\ Nodes = 0..(MaxEvents+3)-1
    BY MaxEventsAssumption DEF Nodes
  <2> QED BY <1>1, <2>1, FreshShape DEF Heads
<1> QED BY <1>2, <1>4, <1>5, <1>6, <1>7, <1>8, <1>9 DEF Sound, RingOK

-----------------------------------------------------------------------------
(* What the methods do to the handle they are called with, and that they   *)
(* do nothing to the others.                                               *)
Untouched(s, t, i) ==
  /\ t.fd[i] = s.fd[i]
  /\ t.handler_id[i] = s.handler_id[i]
  /\ t.state[i] = s.state[i]
  /\ t.ev_permit[i] = s.ev_permit[i]
  /\ t.ev_mask[i] = s.ev_mask[i]
  /\ t.events[i] = s.events[i]
  /\ t.interest[i] = s.interest[i]
  /\ i \in t.armed <=> i \in s.armed

OnlyTouches(s, t, id) == \A i \in Slots \ {id} : Untouched(s, t, i)

(* What add has done with handle id of s.                                  *)
Added(s, u, id, trigger, fd, handler_id) ==
  /\ id \in Slots /\ OnlyTouches(s, u, id)
  /\ u.fd[id] = fd /\ u.handler_id[id] = handler_id /\ u.state[id] = WAIT
  /\ u.ev_permit[id] = TRUE /\ u.ev_mask[id] = trigger \cap IO
  /\ u.interest[id] = trigger /\ u.events[id] = {} /\ id \in u.armed
  /\ u.timers = s.timers /\ u.looptime = s.looptime
  /\ u.ring = Relink(s.ring, id, WAIT)

(* add of a pollable file takes the first free handle, and no other.       *)
LEMMA AddEffect ==
  ASSUME NEW s, Sound(s), HasRoom(s), NEW trigger \in SUBSET (IO \cup {EDGE}),
         NEW fd \in Nat, NEW handler_id \in Nat,
         NEW id, id = FreshId(s), NEW u, u = Add(s, trigger, fd, handler_id, TRUE)
  PROVE  Added(s, u, id, trigger, fd, handler_id)
<1>1. id \in Slots /\ id \in Nodes /\ RingOK(s) /\ s \in MplexType
  BY FreshIdFree, NodesFacts DEF Sound, RingOK
<1>2. PICK t : t = [s EXCEPT !.ev_permit[id]  = TRUE,
                             !.fd[id]         = fd,
                             !.uptime[id]     = 0,
                             !.handler_id[id] = handler_id,
                             !.state[id]      = WAIT,
                             !.ev_mask[id]    = trigger \cap IO,
                             !.events[id]     = {},
                             !.interest[id]   = trigger,
                             !.armed          = s.armed \cup {id}]
  OBVIOUS
<1>3. /\ t.ring = s.ring /\ t.timers = s.timers /\ t.looptime = s.looptime
      /\ t.ev_permit = [s.ev_permit EXCEPT ![id] = TRUE]
      /\ t.fd = [s.fd EXCEPT ![id] = fd]
      /\ t.handler_id = [s.handler_id EXCEPT ![id] = handler_id]
      /\ t.state = [s.state EXCEPT ![id] = WAIT]
      /\ t.ev_mask = [s.ev_mask EXCEPT ![id] = trigger \cap IO]
      /\ t.events = [s.events EXCEPT ![id] = {}]
      /\ t.interest = [s.interest EXCEPT ![id] = trigger]
      /\ t.armed = s.armed \cup {id}
  BY <1>1, <1>2 DEF MplexType
<1>4. u = Requeue(t, id, WAIT)
  BY <1>2 DEF Add
<1>5. RingOK(t)
  <2>1. /\ t.fd \in [Nodes -> Nat \cup {NoFd}]
        /\ t.handler_id \in [Nodes -> Nat]
        /\ t.ev_permit \in [Nodes -> BOOLEAN]
        /\ t.state \in [Nodes -> {FREE, WAIT, READY}]
    BY <1>1, <1>3, FieldTypes
  <2>2. /\ t.ev_mask \in [Nodes -> SUBSET (IO \cup {TIMER})]
        /\ t.events \in [Nodes -> SUBSET (IO \cup {TIMER})]
        /\ t.interest \in [Nodes -> SUBSET (IO \cup {EDGE})]
        /\ t.armed \in SUBSET Slots
    BY <1>1, <1>3, FieldTypes
  <2>3. t.uptime \in [Nodes -> Nat]
    BY <1>1, <1>2 DEF MplexType
  <2>4. t \in MplexType
    BY <1>1, <1>2, <2>1, <2>2, <2>3 DEF MplexType
  <2> QED BY <1>1, <1>3, <2>4 DEF RingOK
<1>6. /\ u.ring = Relink(s.ring, id, WAIT)
      /\ u.ev_permit = t.ev_permit /\ u.state = t.state /\ u.ev_mask = t.ev_mask
      /\ u.events = t.events /\ u.interest = t.interest /\ u.armed = t.armed
      /\ u.fd = t.fd /\ u.handler_id = t.handler_id
      /\ u.timers = t.timers /\ u.looptime = t.looptime
  <2>1. WAIT \in Heads
    BY DEF Heads
  <2>2. PICK v : v = Requeue(t, id, WAIT)
    OBVIOUS
  <2>3. /\ v.ring = Relink(t.ring, id, WAIT)
        /\ v.ev_permit = t.ev_permit /\ v.state = t.state /\ v.ev_mask = t.ev_mask
        /\ v.events = t.events /\ v.interest = t.interest /\ v.armed = t.armed
        /\ v.fd = t.fd /\ v.handler_id = t.handler_id
        /\ v.timers = t.timers /\ v.looptime = t.looptime
    BY <1>1, <1>5, <2>1, <2>2, RequeueFrame
  <2>4. u = v
    BY <1>4, <2>2
  <2> QED BY <1>3, <2>3, <2>4
<1>7. /\ \A i \in Slots : u.ev_permit[i] = IF i = id THEN TRUE ELSE s.ev_permit[i]
      /\ \A i \in Slots : u.fd[i] = IF i = id THEN fd ELSE s.fd[i]
      /\ \A i \in Slots : u.handler_id[i] = IF i = id THEN handler_id ELSE s.handler_id[i]
      /\ \A i \in Slots : u.state[i] = IF i = id THEN WAIT ELSE s.state[i]
      /\ \A i \in Slots : u.ev_mask[i] = IF i = id THEN trigger \cap IO ELSE s.ev_mask[i]
      /\ \A i \in Slots : u.events[i] = IF i = id THEN {} ELSE s.events[i]
      /\ \A i \in Slots : u.interest[i] = IF i = id THEN trigger ELSE s.interest[i]
  <2>1. \A i \in Slots : u.ev_permit[i] = IF i = id THEN TRUE ELSE s.ev_permit[i]
    <3>1. u.ev_permit = [s.ev_permit EXCEPT ![id] = TRUE] /\ s.ev_permit \in [Nodes -> BOOLEAN]
      BY <1>1, <1>3, <1>6, FieldTypes
    <3> QED BY <1>1, <3>1, NodesFacts
  <2>2. \A i \in Slots : u.fd[i] = IF i = id THEN fd ELSE s.fd[i]
    <3>1. u.fd = [s.fd EXCEPT ![id] = fd] /\ s.fd \in [Nodes -> Nat \cup {NoFd}]
      BY <1>1, <1>3, <1>6, FieldTypes
    <3> QED BY <1>1, <3>1, NodesFacts
  <2>3. \A i \in Slots : u.handler_id[i] = IF i = id THEN handler_id ELSE s.handler_id[i]
    <3>1. u.handler_id = [s.handler_id EXCEPT ![id] = handler_id] /\ s.handler_id \in [Nodes -> Nat]
      BY <1>1, <1>3, <1>6, FieldTypes
    <3> QED BY <1>1, <3>1, NodesFacts
  <2>4. \A i \in Slots : u.state[i] = IF i = id THEN WAIT ELSE s.state[i]
    <3>1. u.state = [s.state EXCEPT ![id] = WAIT] /\ s.state \in [Nodes -> {FREE, WAIT, READY}]
      BY <1>1, <1>3, <1>6, FieldTypes
    <3> QED BY <1>1, <3>1, NodesFacts
  <2>5. \A i \in Slots : u.ev_mask[i] = IF i = id THEN trigger \cap IO ELSE s.ev_mask[i]
    <3>1. u.ev_mask = [s.ev_mask EXCEPT ![id] = trigger \cap IO] /\ s.ev_mask \in [Nodes -> SUBSET (IO \cup {TIMER})]
      BY <1>1, <1>3, <1>6, FieldTypes
    <3> QED BY <1>1, <3>1, NodesFacts
  <2>6. \A i \in Slots : u.events[i] = IF i = id THEN {} ELSE s.events[i]
    <3>1. u.events = [s.events EXCEPT ![id] = {}] /\ s.events \in [Nodes -> SUBSET (IO \cup {TIMER})]
      BY <1>1, <1>3, <1>6, FieldTypes
    <3> QED BY <1>1, <3>1, NodesFacts
  <2>7. \A i \in Slots : u.interest[i] = IF i = id THEN trigger ELSE s.interest[i]
    <3>1. u.interest = [s.interest EXCEPT ![id] = trigger] /\ s.interest \in [Nodes -> SUBSET (IO \cup {EDGE})]
      BY <1>1, <1>3, <1>6, FieldTypes
    <3> QED BY <1>1, <3>1, NodesFacts
  <2> QED BY <2>1, <2>2, <2>3, <2>4, <2>5, <2>6, <2>7
<1>8. \A i \in Slots \ {id} : i \in u.armed <=> i \in s.armed
  BY <1>3, <1>6
<1>9. OnlyTouches(s, u, id)
  BY <1>7, <1>8 DEF OnlyTouches, Untouched
<1> QED BY <1>1, <1>3, <1>6, <1>7, <1>9 DEF Added

(* stop_timer removes no entry: it looks for one of time 0. *)
LEMMA StopTimerEffect ==
  ASSUME NEW s, RingOK(s), NEW id \in Nodes, InUse(s, id), NEW u, u = StopTimer(s, id)
  PROVE  /\ RingOK(u) /\ OnlyTouches(s, u, id)
         /\ u.ring = s.ring /\ u.fd = s.fd /\ u.handler_id = s.handler_id
         /\ u.state = s.state /\ u.ev_permit = s.ev_permit
         /\ u.interest = s.interest /\ u.armed = s.armed
         /\ u.looptime = s.looptime /\ u.timers = s.timers
         /\ u.events[id] = s.events[id] \ {TIMER} /\ u.ev_mask[id] = s.ev_mask[id] \ {TIMER}
<1>1. s \in MplexType
  BY DEF RingOK
<1>0. id \in Slots
  BY DEF InUse
<1>2. /\ u \in MplexType
      /\ u.ring = s.ring /\ u.state = s.state /\ u.ev_permit = s.ev_permit
      /\ u.interest = s.interest /\ u.armed = s.armed /\ u.looptime = s.looptime
      /\ \A i \in Nodes :
           /\ u.events[i] = IF i = id THEN s.events[i] \ {TIMER} ELSE s.events[i]
           /\ u.ev_mask[i] = IF i = id THEN s.ev_mask[i] \ {TIMER} ELSE s.ev_mask[i]
  BY <1>1, StopTimerFrame
<1>3. PICK t : t = [s EXCEPT !.uptime[id] = 0, !.events[id] = @ \ {TIMER}]
  OBVIOUS
<1>4. /\ t.fd = s.fd /\ t.handler_id = s.handler_id /\ t.timers = s.timers
      /\ t.uptime[id] = 0 /\ t \in MplexType
  BY <1>1, <1>3 DEF MplexType
<1>5. t.timers \ {<<t.uptime[id], id>>} = s.timers
  <2>1. s.timers \in SUBSET ((Nat \ {0}) \X Slots)
    BY <1>1, FieldTypes
  <2> QED BY <1>4, <2>1
<1>6. PICK v : v = IF TIMER \in t.ev_mask[id]
                   THEN [t EXCEPT !.timers = @ \ {<<t.uptime[id], id>>}] ELSE t
  OBVIOUS
<1>7. v.fd = s.fd /\ v.handler_id = s.handler_id /\ v.timers = s.timers /\ v \in MplexType
  BY <1>4, <1>5, <1>6 DEF MplexType
<1>8. u = [v EXCEPT !.ev_mask[id] = @ \ {TIMER}]
  BY <1>3, <1>6 DEF StopTimer
<1>9. u.fd = s.fd /\ u.handler_id = s.handler_id /\ u.timers = s.timers
  BY <1>7, <1>8 DEF MplexType
<1>10. OnlyTouches(s, u, id)
  BY <1>2, <1>9, NodesFacts DEF OnlyTouches, Untouched
<1>11. RingOK(u)
  BY <1>2 DEF RingOK
<1> QED BY <1>2, <1>9, <1>10, <1>11

(* mod_timer with a time to come: another entry, unless the handle is in   *)
(* state READY.                                                            *)
TimerSet(s, u, id, uptime) ==
  /\ OnlyTouches(s, u, id)
  /\ u.ring = s.ring /\ u.fd = s.fd /\ u.handler_id = s.handler_id
  /\ u.state = s.state /\ u.ev_permit = s.ev_permit
  /\ u.interest = s.interest /\ u.armed = s.armed /\ u.looptime = s.looptime
  /\ u.timers = IF s.state[id] = WAIT THEN s.timers \cup {<<uptime, id>>} ELSE s.timers
  /\ u.events[id] = s.events[id] \ {TIMER} /\ u.ev_mask[id] = s.ev_mask[id] \cup {TIMER}

(* ... which is what mod_timer comes to. *)
LEMMA ModTimerEffect ==
  ASSUME NEW s, RingOK(s), NEW id \in Nodes, InUse(s, id),
         NEW uptime \in Nat, s.looptime < uptime, NEW u, u = ModTimer(s, uptime, id)
  PROVE  TimerSet(s, u, id, uptime)
<1>1. id \in Slots
  BY DEF InUse
<1>2. PICK t : t = StopTimer(s, id)
  OBVIOUS
<1>3. /\ RingOK(t) /\ OnlyTouches(s, t, id)
      /\ t.ring = s.ring /\ t.fd = s.fd /\ t.handler_id = s.handler_id
      /\ t.state = s.state /\ t.ev_permit = s.ev_permit
      /\ t.interest = s.interest /\ t.armed = s.armed
      /\ t.looptime = s.looptime /\ t.timers = s.timers
      /\ t.events[id] = s.events[id] \ {TIMER} /\ t.ev_mask[id] = s.ev_mask[id] \ {TIMER}
  BY <1>2, StopTimerEffect
<1>0. t \in MplexType
  BY <1>3 DEF RingOK
<1>4. PICK v : v = [t EXCEPT !.uptime[id]  = uptime,
                             !.state[id]   = t.state[id],
                             !.ev_mask[id] = @ \cup {TIMER},
                             !.events[id]  = @ \cup {},
                             !.timers      = IF t.state[id] = WAIT THEN @ \cup {<<uptime, id>>}
                                                                   ELSE @]
  OBVIOUS
<1>5. u = v
  BY <1>2, <1>3, <1>4 DEF ModTimer
<1>6. /\ v.ring = t.ring /\ v.fd = t.fd /\ v.handler_id = t.handler_id
      /\ v.ev_permit = t.ev_permit /\ v.interest = t.interest /\ v.armed = t.armed
      /\ v.looptime = t.looptime
      /\ v.state = [t.state EXCEPT ![id] = t.state[id]]
      /\ v.ev_mask = [t.ev_mask EXCEPT ![id] = t.ev_mask[id] \cup {TIMER}]
      /\ v.events = [t.events EXCEPT ![id] = t.events[id] \cup {}]
      /\ v.timers = IF t.state[id] = WAIT THEN t.timers \cup {<<uptime, id>>} ELSE t.timers
  BY <1>0, <1>4 DEF MplexType
<1>7. v.state = t.state /\ v.events = t.events
  <2>1. t.events[id] \cup {} = t.events[id]
    OBVIOUS
  <2>2. /\ t.state = [i \in Nodes |-> t.state[i]]
        /\ t.events = [i \in Nodes |-> t.events[i]]
    BY <1>0, FieldTypes
  <2> QED BY <1>1, <1>6, <2>1, <2>2
<1>8. \A i \in Slots :
        v.ev_mask[i] = IF i = id THEN s.ev_mask[id] \cup {TIMER} ELSE t.ev_mask[i]
  <2>1. t.ev_mask[id] \cup {TIMER} = s.ev_mask[id] \cup {TIMER}
    BY <1>3
  <2> QED BY <1>0, <1>1, <1>6, <2>1, NodesFacts, FieldTypes
<1>9. OnlyTouches(s, v, id)
  BY <1>3, <1>6, <1>7, <1>8 DEF OnlyTouches, Untouched
<1> QED BY <1>1, <1>3, <1>5, <1>6, <1>7, <1>8, <1>9 DEF TimerSet

(* del: the handle is free again and the kernel has forgotten it, whatever *)
(* it was before.                                                          *)
LEMMA DelEffect ==
  ASSUME NEW s, NEW id \in Nodes, SoundBut(s, id), ~DelRefused(s, id), NEW w, w = Del(s, id)
  PROVE  /\ Sound(w) /\ OnlyTouches(s, w, id)
         /\ w.fd[id] = NoFd /\ w.state[id] = FREE /\ w.interest[id] = {}
         /\ w.timers = s.timers /\ w.looptime = s.looptime
         /\ w.ring = Relink(s.ring, id, FREE)
<1>1. InUse(s, id) /\ id \in Slots /\ RingOK(s)
  BY DEF DelRefused, InUse, SoundBut
<1>2. PICK t : t = StopTimer(s, id)
  OBVIOUS
<1>3. /\ RingOK(t) /\ OnlyTouches(s, t, id)
      /\ t.ring = s.ring /\ t.looptime = s.looptime /\ t.timers = s.timers
  BY <1>1, <1>2, StopTimerEffect
<1>4. t \in MplexType
  BY <1>3 DEF RingOK
<1>5. PICK u : u = [t EXCEPT !.ev_permit[id]  = FALSE,
                             !.fd[id]         = NoFd,
                             !.handler_id[id] = 0,
                             !.state[id]      = FREE,
                             !.ev_mask[id]    = {},
                             !.events[id]     = {},
                             !.interest[id]   = {},
                             !.armed          = @ \ {id}]
  OBVIOUS
<1>6. w = Requeue(u, id, FREE)
  BY <1>2, <1>5 DEF Del
<1>7. /\ u.ring = t.ring /\ u.armed = t.armed \ {id}
      /\ u.timers = t.timers /\ u.looptime = t.looptime
      /\ u.ev_permit = [t.ev_permit EXCEPT ![id] = FALSE]
      /\ u.fd = [t.fd EXCEPT ![id] = NoFd]
      /\ u.handler_id = [t.handler_id EXCEPT ![id] = 0]
      /\ u.state = [t.state EXCEPT ![id] = FREE]
      /\ u.ev_mask = [t.ev_mask EXCEPT ![id] = {}]
      /\ u.events = [t.events EXCEPT ![id] = {}]
      /\ u.interest = [t.interest EXCEPT ![id] = {}]
  BY <1>4, <1>5 DEF MplexType
<1>8. u \in MplexType
  <2>1. /\ u.ev_permit \in [Nodes -> BOOLEAN]
        /\ u.state \in [Nodes -> {FREE, WAIT, READY}]
        /\ u.ev_mask \in [Nodes -> SUBSET (IO \cup {TIMER})]
        /\ u.events \in [Nodes -> SUBSET (IO \cup {TIMER})]
        /\ u.interest \in [Nodes -> SUBSET (IO \cup {EDGE})]
        /\ u.armed \in SUBSET Slots
    BY <1>1, <1>4, <1>7, FieldTypes
  <2>2. u.fd \in [Nodes -> Nat \cup {NoFd}] /\ u.handler_id \in [Nodes -> Nat]
    BY <1>4, <1>5 DEF MplexType
  <2> QED BY <1>4, <1>5, <2>1, <2>2 DEF MplexType
<1>9. OnlyTouches(t, u, id)
  <2>1. ASSUME NEW i \in Slots \ {id}
        PROVE  /\ u.ev_permit[i] = t.ev_permit[i] /\ u.fd[i] = t.fd[i]
               /\ u.handler_id[i] = t.handler_id[i] /\ u.state[i] = t.state[i]
               /\ u.ev_mask[i] = t.ev_mask[i] /\ u.events[i] = t.events[i]
               /\ u.interest[i] = t.interest[i]
    BY <1>1, <1>4, <1>7, NodesFacts, FieldTypes
  <2> QED BY <1>7, <2>1 DEF OnlyTouches, Untouched
<1>10. /\ u.fd[id] = NoFd /\ u.state[id] = FREE /\ u.interest[id] = {}
       /\ u.events[id] = {} /\ id \notin u.armed
  BY <1>4, <1>7, FieldTypes
<1>11. OnlyTouches(s, u, id)
  BY <1>3, <1>9 DEF OnlyTouches, Untouched
<1>12. Sound(w)
  <2>1. \A i \in Slots \ {id} : SameHandle(s, u, i)
    BY <1>11 DEF OnlyTouches, Untouched, SameHandle
  <2>2. HandleOK(u, id, FREE)
    BY <1>10, NodesFacts DEF HandleOK, Heads, Enabled
  <2>3. Sound(Requeue(u, id, FREE))
    BY <1>1, <1>3, <1>7, <1>8, <2>1, <2>2, MoveSoundBut
  <2> QED BY <1>6, <2>3
<1>13. /\ w.ring = Relink(s.ring, id, FREE)
       /\ w.ev_permit = u.ev_permit /\ w.state = u.state /\ w.ev_mask = u.ev_mask
       /\ w.events = u.events /\ w.interest = u.interest /\ w.armed = u.armed
       /\ w.fd = u.fd /\ w.handler_id = u.handler_id
       /\ w.timers = u.timers /\ w.looptime = u.looptime
  <2>1. RingOK(u) /\ FREE \in Heads
    BY <1>3, <1>7, <1>8 DEF RingOK, Heads
  <2>2. PICK v : v = Requeue(u, id, FREE)
    OBVIOUS
  <2>3. /\ v.ring = Relink(u.ring, id, FREE)
        /\ v.ev_permit = u.ev_permit /\ v.state = u.state /\ v.ev_mask = u.ev_mask
        /\ v.events = u.events /\ v.interest = u.interest /\ v.armed = u.armed
        /\ v.fd = u.fd /\ v.handler_id = u.handler_id
        /\ v.timers = u.timers /\ v.looptime = u.looptime
    BY <1>1, <2>1, <2>2, RequeueFrame
  <2> QED BY <1>3, <1>6, <1>7, <2>2, <2>3
<1>14. OnlyTouches(s, w, id)
  BY <1>11, <1>13 DEF OnlyTouches, Untouched
<1> QED BY <1>3, <1>7, <1>10, <1>12, <1>13, <1>14

(* del keeps the handles sound. *)
LEMMA DelSound ==
  ASSUME NEW s, Sound(s), NEW id \in Nodes
  PROVE  Sound(Del(s, id))
<1>1. SoundBut(s, id)
  BY DEF Sound, SoundBut
<1>2. CASE DelRefused(s, id)
  BY <1>2 DEF Del
<1>3. CASE ~DelRefused(s, id)
  <2>1. PICK w : w = Del(s, id)
    OBVIOUS
  <2>2. Sound(w)
    BY <1>1, <1>3, <2>1, DelEffect
  <2> QED BY <2>1, <2>2
<1> QED BY <1>2, <1>3

(* drop takes events away, and a handle left with none goes back to wait. *)
LEMMA DropEffect ==
  ASSUME NEW s, Sound(s), NEW id \in Nodes, InUse(s, id), s.ev_permit[id],
         NEW events \in SUBSET IO, NEW w, w = Drop(s, events, id)
  PROVE  /\ OnlyTouches(s, w, id)
         /\ w.fd = s.fd /\ w.handler_id = s.handler_id /\ w.ev_permit = s.ev_permit
         /\ w.ev_mask = s.ev_mask /\ w.interest = s.interest /\ w.armed = s.armed
         /\ w.timers = s.timers /\ w.looptime = s.looptime
         /\ w.events[id] = s.events[id] \ events
         /\ w.state[id] \in {WAIT, READY}
         /\ \/ w.state[id] = s.state[id] /\ w.ring = s.ring
            \/ w.state[id] = WAIT /\ Enabled(w, id) = {} /\ w.ring = Relink(s.ring, id, WAIT)
<1>1. s \in MplexType /\ RingOK(s)
  BY DEF Sound, RingOK
<1>2. id \in Slots /\ s.state[id] # FREE
  BY DEF InUse
<1>3. PICK t : t = [s EXCEPT !.events[id] = @ \ events]
  OBVIOUS
<1>4. /\ t.ring = s.ring /\ t.state = s.state /\ t.fd = s.fd /\ t.handler_id = s.handler_id
      /\ t.ev_permit = s.ev_permit /\ t.ev_mask = s.ev_mask /\ t.interest = s.interest
      /\ t.armed = s.armed /\ t.timers = s.timers /\ t.looptime = s.looptime
      /\ t.events = [s.events EXCEPT ![id] = s.events[id] \ events]
  BY <1>1, <1>3 DEF MplexType
<1>5. t \in MplexType
  <2>1. t.events \in [Nodes -> SUBSET (IO \cup {TIMER})]
    BY <1>1, <1>4, FieldTypes
  <2> QED BY <1>1, <1>3, <2>1 DEF MplexType
<1>6. t.events[id] = s.events[id] \ events /\ \A i \in Slots \ {id} : t.events[i] = s.events[i]
  BY <1>1, <1>4, NodesFacts, FieldTypes
<1>7. OnlyTouches(s, t, id)
  BY <1>4, <1>6 DEF OnlyTouches, Untouched
<1>8. s.state[id] \in {WAIT, READY}
  BY <1>1, <1>2, FieldTypes
<1>9. CASE s.state[id] = READY /\ Enabled(t, id) = {}
  <2>1. PICK u : u = [t EXCEPT !.state[id] = WAIT]
    OBVIOUS
  <2>2. /\ u.ring = s.ring /\ u.fd = s.fd /\ u.handler_id = s.handler_id
        /\ u.ev_permit = s.ev_permit /\ u.ev_mask = s.ev_mask /\ u.interest = s.interest
        /\ u.armed = s.armed /\ u.timers = s.timers /\ u.looptime = s.looptime
        /\ u.events = t.events
        /\ u.state = [s.state EXCEPT ![id] = WAIT] /\ u \in MplexType
    BY <1>4, <1>5, <2>1 DEF MplexType
  <2>3. u.state[id] = WAIT /\ \A i \in Slots \ {id} : u.state[i] = s.state[i]
    BY <1>1, <2>2, NodesFacts, FieldTypes
  <2>4. RingOK(u) /\ WAIT \in Heads
    BY <1>1, <2>2 DEF RingOK, Heads
  <2>5. PICK v : v = Requeue(u, id, WAIT)
    OBVIOUS
  <2>6. /\ v.ring = Relink(u.ring, id, WAIT)
        /\ v.ev_permit = u.ev_permit /\ v.state = u.state /\ v.ev_mask = u.ev_mask
        /\ v.events = u.events /\ v.interest = u.interest /\ v.armed = u.armed
        /\ v.fd = u.fd /\ v.handler_id = u.handler_id
        /\ v.timers = u.timers /\ v.looptime = u.looptime
    BY <1>2, <2>4, <2>5, RequeueFrame
  <2>7. w = v
    BY <1>3, <1>9, <2>1, <2>5 DEF Drop
  <2>8. OnlyTouches(s, w, id)
    <3>1. /\ w.fd = s.fd /\ w.handler_id = s.handler_id /\ w.ev_permit = s.ev_permit
          /\ w.ev_mask = s.ev_mask /\ w.interest = s.interest /\ w.armed = s.armed
      <4>1. /\ v.fd = s.fd /\ v.handler_id = s.handler_id /\ v.ev_permit = s.ev_permit
            /\ v.ev_mask = s.ev_mask /\ v.interest = s.interest /\ v.armed = s.armed
        BY <2>2, <2>6
      <4> QED BY <2>7, <4>1
    <3>2. \A i \in Slots \ {id} : w.events[i] = s.events[i] /\ w.state[i] = s.state[i]
      <4>1. \A i \in Slots \ {id} : v.events[i] = s.events[i] /\ v.state[i] = s.state[i]
        BY <1>6, <2>2, <2>3, <2>6
      <4> QED BY <2>7, <4>1
    <3> QED BY <3>1, <3>2 DEF OnlyTouches, Untouched
  <2>9. Enabled(w, id) = {}
    BY <1>4, <1>9, <2>2, <2>6, <2>7 DEF Enabled
  <2> QED BY <1>6, <2>2, <2>3, <2>6, <2>7, <2>8, <2>9
<1>10. CASE ~(s.state[id] = READY /\ Enabled(t, id) = {})
  <2>1. w = t
    BY <1>3, <1>10 DEF Drop
  <2> QED BY <1>4, <1>6, <1>7, <1>8, <2>1
<1> QED BY <1>9, <1>10

(* mod, half way: the mask alone.  Its handle may be wrong until del. *)
LEMMA MaskedEffect ==
  ASSUME NEW s, Sound(s), NEW trigger \in SUBSET (IO \cup {EDGE}), NEW id \in Slots,
         NEW t, t = Masked(s, trigger, id)
  PROVE  /\ SoundBut(t, id) /\ OnlyTouches(s, t, id)
         /\ t.ring = s.ring /\ t.state = s.state /\ t.fd = s.fd /\ t.handler_id = s.handler_id
         /\ t.ev_permit = s.ev_permit /\ t.interest = s.interest /\ t.armed = s.armed
         /\ t.events = s.events /\ t.timers = s.timers /\ t.looptime = s.looptime
         /\ t.ev_mask[id] = (s.ev_mask[id] \ IO) \cup (trigger \cap IO)
<1>1. s \in MplexType /\ id \in Nodes
  BY NodesFacts DEF Sound, RingOK
<1>2. OtherMask(s, t, id)
  BY <1>1, MaskedFrame
<1>3. PICK mask : mask = [s.ev_mask EXCEPT ![id] = (s.ev_mask[id] \ IO) \cup (trigger \cap IO)]
  OBVIOUS
<1>4. t = [s EXCEPT !.ev_mask = mask]
  BY <1>3 DEF Masked
<1>5. /\ t.fd = s.fd /\ t.handler_id = s.handler_id /\ t.timers = s.timers
      /\ t.looptime = s.looptime /\ t.ev_mask = mask
  BY <1>1, <1>4 DEF MplexType
<1>6. t.ev_mask[id] = (s.ev_mask[id] \ IO) \cup (trigger \cap IO)
  BY <1>1, <1>3, <1>5, FieldTypes
<1>7. OnlyTouches(s, t, id)
  BY <1>2, <1>5 DEF OnlyTouches, Untouched, OtherMask
<1>8. RingOK(t)
  BY <1>2 DEF OtherMask, Sound, RingOK
<1>9. ASSUME NEW i \in Slots \ {id}
      PROVE  HandleOK(t, i, t.ring.home[i])
  <2>1. HandleOK(s, i, s.ring.home[i])
    BY DEF Sound
  <2> QED BY <1>2, <2>1 DEF HandleOK, Enabled, OtherMask
<1> QED BY <1>2, <1>5, <1>6, <1>7, <1>8, <1>9 DEF OtherMask, SoundBut

(* mod of a watched file: the kernel looks at it again, and the ring it is *)
(* on follows from the events that are pending.                            *)
Registers(s, w, id, trigger) ==
  /\ OnlyTouches(s, w, id)
  /\ w.fd = s.fd /\ w.handler_id = s.handler_id /\ w.ev_permit = s.ev_permit
  /\ w.events = s.events /\ w.timers = s.timers /\ w.looptime = s.looptime
  /\ w.ev_mask[id] = (s.ev_mask[id] \ IO) \cup (trigger \cap IO)
  /\ w.interest[id] = trigger /\ id \in w.armed
  /\ w.state[id] = IF Enabled(w, id) # {} THEN READY ELSE WAIT
  /\ w.ring = IF w.state[id] = s.state[id] THEN s.ring
                                           ELSE Relink(s.ring, id, w.state[id])

(* ... which is what mod comes to. *)
LEMMA ModEffect ==
  ASSUME NEW s, Sound(s), NEW trigger \in SUBSET (IO \cup {EDGE}), trigger \cap IO # {},
         NEW id \in Slots, InUse(s, id), s.ev_permit[id], NEW w, w = Mod(s, trigger, id)
  PROVE  Registers(s, w, id, trigger)
<1>1. s \in MplexType /\ id \in Nodes
  BY NodesFacts DEF Sound, RingOK
<1>2. PICK t : t = Masked(s, trigger, id)
  OBVIOUS
<1>0. SoundBut(t, id)
  BY <1>2, MaskedEffect
<1>3. /\ OnlyTouches(s, t, id)
      /\ t.ring = s.ring /\ t.state = s.state /\ t.fd = s.fd /\ t.handler_id = s.handler_id
      /\ t.ev_permit = s.ev_permit /\ t.interest = s.interest /\ t.armed = s.armed
      /\ t.events = s.events /\ t.timers = s.timers /\ t.looptime = s.looptime
      /\ t.ev_mask[id] = (s.ev_mask[id] \ IO) \cup (trigger \cap IO)
  BY <1>2, MaskedEffect
<1>4. RingOK(t) /\ t \in MplexType
  BY <1>0 DEF SoundBut, RingOK
<1>5. PICK u :
        u = CASE s.ev_permit[id] ->
                   [t EXCEPT !.interest[id] = IF trigger \cap IO = {} THEN {} ELSE trigger,
                             !.armed = IF trigger \cap IO = {} THEN @ \ {id}
                                                               ELSE @ \cup {id}]
              [] ~s.ev_permit[id] /\ trigger \cap IO # {} ->
                   [t EXCEPT !.events[id] = (@ \ IO) \cup (trigger \cap IO)]
              [] OTHER -> t
  OBVIOUS
<1>20. u = [t EXCEPT !.interest[id] = trigger, !.armed = @ \cup {id}]
  BY <1>5
<1>6. PICK state : state = IF Enabled(u, id) # {} THEN READY ELSE WAIT
  OBVIOUS
<1>7. PICK v : v = [u EXCEPT !.state[id] = state]
  OBVIOUS
<1>8. w = IF state # s.state[id] THEN Requeue(v, id, state) ELSE v
  <2>1. CASE state # s.state[id]
    <3>1. Mod(s, trigger, id) = Requeue(v, id, state)
      BY <1>2, <1>5, <1>6, <1>7, <2>1 DEF Mod
    <3> QED BY <2>1, <3>1
  <2>2. CASE state = s.state[id]
    <3>1. Mod(s, trigger, id) = v
      BY <1>2, <1>5, <1>6, <1>7, <2>2 DEF Mod
    <3> QED BY <2>2, <3>1
  <2> QED BY <2>1, <2>2
<1>9. /\ u.ring = s.ring /\ u.state = s.state /\ u.fd = s.fd /\ u.handler_id = s.handler_id
      /\ u.ev_permit = s.ev_permit /\ u.ev_mask = t.ev_mask /\ u.armed = s.armed \cup {id}
      /\ u.events = s.events /\ u.timers = s.timers /\ u.looptime = s.looptime
      /\ u.interest = [s.interest EXCEPT ![id] = trigger]
  BY <1>3, <1>4, <1>20 DEF MplexType
<1>10. u \in MplexType
  <2>1. u.interest \in [Nodes -> SUBSET (IO \cup {EDGE})] /\ u.armed \in SUBSET Slots
    BY <1>1, <1>9, FieldTypes
  <2> QED BY <1>4, <1>20, <2>1 DEF MplexType
<1>11. /\ v.ring = s.ring /\ v.fd = s.fd /\ v.handler_id = s.handler_id
       /\ v.ev_permit = s.ev_permit /\ v.ev_mask = t.ev_mask /\ v.armed = s.armed \cup {id}
       /\ v.events = s.events /\ v.timers = s.timers /\ v.looptime = s.looptime
       /\ v.interest = u.interest /\ v.state = [s.state EXCEPT ![id] = state]
       /\ v \in MplexType
  BY <1>6, <1>7, <1>9, <1>10 DEF MplexType
<1>12. RingOK(v) /\ state \in Heads
  BY <1>3, <1>4, <1>6, <1>11 DEF RingOK, Heads
<1>13. /\ w.ring = IF state = s.state[id] THEN s.ring ELSE Relink(s.ring, id, state)
       /\ w.fd = s.fd /\ w.handler_id = s.handler_id
       /\ w.ev_permit = s.ev_permit /\ w.ev_mask = t.ev_mask /\ w.armed = s.armed \cup {id}
       /\ w.events = s.events /\ w.timers = s.timers /\ w.looptime = s.looptime
       /\ w.interest = u.interest /\ w.state = v.state
  <2>1. PICK x : x = Requeue(v, id, state)
    OBVIOUS
  <2>2. /\ x.ring = Relink(v.ring, id, state)
        /\ x.ev_permit = v.ev_permit /\ x.state = v.state /\ x.ev_mask = v.ev_mask
        /\ x.events = v.events /\ x.interest = v.interest /\ x.armed = v.armed
        /\ x.fd = v.fd /\ x.handler_id = v.handler_id
        /\ x.timers = v.timers /\ x.looptime = v.looptime
    BY <1>12, <2>1, RequeueFrame
  <2>3. CASE state = s.state[id]
    BY <1>8, <1>11, <2>3
  <2>4. CASE state # s.state[id]
    BY <1>8, <1>11, <2>1, <2>2, <2>4
  <2> QED BY <2>3, <2>4
<1>14. /\ w.interest[id] = trigger /\ \A i \in Slots \ {id} : w.interest[i] = s.interest[i]
       /\ w.state[id] = state /\ \A i \in Slots \ {id} : w.state[i] = s.state[i]
  <2>1. w.interest = [s.interest EXCEPT ![id] = trigger] /\ w.state = [s.state EXCEPT ![id] = state]
    BY <1>9, <1>11, <1>13
  <2> QED BY <1>1, <2>1, NodesFacts, FieldTypes
<1>15. Enabled(w, id) = Enabled(u, id)
  BY <1>9, <1>13 DEF Enabled
<1>16. OnlyTouches(s, w, id)
  <2>1. \A i \in Slots \ {id} : w.ev_mask[i] = s.ev_mask[i] /\ (i \in w.armed <=> i \in s.armed)
    BY <1>3, <1>13 DEF OnlyTouches, Untouched
  <2> QED BY <1>13, <1>14, <2>1 DEF OnlyTouches, Untouched
<1>17. w.ev_mask[id] = (s.ev_mask[id] \ IO) \cup (trigger \cap IO) /\ id \in w.armed
  BY <1>3, <1>13
<1> QED BY <1>6, <1>13, <1>14, <1>15, <1>16, <1>17 DEF Registers

(* An event arrives, of the file or of the timer: the handle keeps its     *)
(* state, and one that waits for it goes to the ring READY.                *)
Receives(s, w, id, events) ==
  /\ OnlyTouches(s, w, id)
  /\ w.fd = s.fd /\ w.handler_id = s.handler_id /\ w.ev_permit = s.ev_permit
  /\ w.state = s.state /\ w.ev_mask = s.ev_mask /\ w.interest = s.interest
  /\ w.armed = s.armed /\ w.looptime = s.looptime
  /\ w.events[id] = s.events[id] \cup events
  /\ w.ring = s.ring \/ (s.state[id] = WAIT /\ w.ring = Relink(s.ring, id, READY))

(* wait notes events at a handle. *)
LEMMA CollectEffect ==
  ASSUME NEW s, Sound(s), NEW id \in Slots, NEW events \in SUBSET IO,
         NEW w, w = Collect(s, id, events)
  PROVE  /\ Receives(s, w, id, events) /\ w.timers = s.timers
         /\ (s.state[id] = WAIT /\ Enabled(w, id) # {}) => w.ring = Relink(s.ring, id, READY)
<1>1. s \in MplexType /\ RingOK(s) /\ id \in Nodes
  BY NodesFacts DEF Sound, RingOK
<1>2. PICK t : t = [s EXCEPT !.events[id] = @ \cup events]
  OBVIOUS
<1>3. /\ t.ring = s.ring /\ t.state = s.state /\ t.fd = s.fd /\ t.handler_id = s.handler_id
      /\ t.ev_permit = s.ev_permit /\ t.ev_mask = s.ev_mask /\ t.interest = s.interest
      /\ t.armed = s.armed /\ t.timers = s.timers /\ t.looptime = s.looptime
      /\ t.events = [s.events EXCEPT ![id] = s.events[id] \cup events]
  BY <1>1, <1>2 DEF MplexType
<1>4. RingOK(t)
  <2>1. t.events \in [Nodes -> SUBSET (IO \cup {TIMER})]
    BY <1>1, <1>3, FieldTypes
  <2>2. t \in MplexType
    BY <1>1, <1>2, <2>1 DEF MplexType
  <2> QED BY <1>1, <1>3, <2>2 DEF RingOK
<1>5. t.events[id] = s.events[id] \cup events /\ \A i \in Slots \ {id} : t.events[i] = s.events[i]
  BY <1>1, <1>3, NodesFacts, FieldTypes
<1>6. Receives(s, t, id, events)
  BY <1>3, <1>5 DEF Receives, OnlyTouches, Untouched
<1>7. CASE s.state[id] = WAIT /\ Enabled(t, id) # {}
  <2>1. PICK v : v = Requeue(t, id, READY)
    OBVIOUS
  <2>2. READY \in Heads
    BY DEF Heads
  <2>3. /\ v.ring = Relink(t.ring, id, READY)
        /\ v.ev_permit = t.ev_permit /\ v.state = t.state /\ v.ev_mask = t.ev_mask
        /\ v.events = t.events /\ v.interest = t.interest /\ v.armed = t.armed
        /\ v.fd = t.fd /\ v.handler_id = t.handler_id
        /\ v.timers = t.timers /\ v.looptime = t.looptime
    BY <1>4, <2>1, <2>2, RequeueFrame
  <2>4. Receives(s, v, id, events) /\ v.timers = s.timers /\ v.ring = Relink(s.ring, id, READY)
    BY <1>3, <1>6, <1>7, <2>3 DEF Receives, OnlyTouches, Untouched
  <2>5. w = v
    BY <1>2, <1>7, <2>1 DEF Collect
  <2> QED BY <2>4, <2>5
<1>8. CASE ~(s.state[id] = WAIT /\ Enabled(t, id) # {})
  <2>1. w = t
    BY <1>2, <1>8 DEF Collect
  <2> QED BY <1>3, <1>6, <1>8, <2>1
<1> QED BY <1>7, <1>8

(* run_timer notes the event TIMER. *)
LEMMA ExpireEffect ==
  ASSUME NEW s, Sound(s), NEW e \in s.timers, NEW id, id = e[2], NEW w, w = Expire(s, e)
  PROVE  /\ id \in Slots /\ Receives(s, w, id, {TIMER}) /\ w.timers = s.timers \ {e}
         /\ s.state[id] = WAIT => w.ring = Relink(s.ring, id, READY)
<1>1. s \in MplexType /\ RingOK(s)
  BY DEF Sound, RingOK
<1>0. id \in Slots /\ id \in Nodes
  BY <1>1, FieldTypes, NodesFacts
<1>2. PICK t : t = [s EXCEPT !.events[id] = @ \cup {TIMER}, !.timers = @ \ {e}]
  OBVIOUS
<1>3. /\ t.ring = s.ring /\ t.state = s.state /\ t.fd = s.fd /\ t.handler_id = s.handler_id
      /\ t.ev_permit = s.ev_permit /\ t.ev_mask = s.ev_mask /\ t.interest = s.interest
      /\ t.armed = s.armed /\ t.timers = s.timers \ {e} /\ t.looptime = s.looptime
      /\ t.events = [s.events EXCEPT ![id] = s.events[id] \cup {TIMER}]
  BY <1>1, <1>2 DEF MplexType
<1>4. RingOK(t)
  <2>1. t.events \in [Nodes -> SUBSET (IO \cup {TIMER})] /\ t.timers \in SUBSET ((Nat \ {0}) \X Slots)
    BY <1>0, <1>1, <1>3, FieldTypes
  <2>2. t \in MplexType
    BY <1>1, <1>2, <2>1 DEF MplexType
  <2> QED BY <1>1, <1>3, <2>2 DEF RingOK
<1>5. t.events[id] = s.events[id] \cup {TIMER} /\ \A i \in Slots \ {id} : t.events[i] = s.events[i]
  BY <1>0, <1>1, <1>3, NodesFacts, FieldTypes
<1>6. Receives(s, t, id, {TIMER})
  BY <1>3, <1>5 DEF Receives, OnlyTouches, Untouched
<1>7. CASE s.state[id] = WAIT
  <2>1. PICK v : v = Requeue(t, id, READY)
    OBVIOUS
  <2>2. READY \in Heads
    BY DEF Heads
  <2>3. /\ v.ring = Relink(t.ring, id, READY)
        /\ v.ev_permit = t.ev_permit /\ v.state = t.state /\ v.ev_mask = t.ev_mask
        /\ v.events = t.events /\ v.interest = t.interest /\ v.armed = t.armed
        /\ v.fd = t.fd /\ v.handler_id = t.handler_id
        /\ v.timers = t.timers /\ v.looptime = t.looptime
    BY <1>0, <1>4, <2>1, <2>2, RequeueFrame
  <2>4. /\ Receives(s, v, id, {TIMER}) /\ v.timers = s.timers \ {e}
        /\ v.ring = Relink(s.ring, id, READY)
    BY <1>3, <1>6, <1>7, <2>3 DEF Receives, OnlyTouches, Untouched
  <2>5. w = v
    BY <1>2, <1>7, <2>1 DEF Expire
  <2> QED BY <1>0, <2>4, <2>5
<1>8. CASE s.state[id] # WAIT
  <2>1. w = t
    BY <1>2, <1>8 DEF Expire
  <2> QED BY <1>0, <1>3, <1>6, <1>8, <2>1
<1> QED BY <1>7, <1>8

(* Another clock, another ready list. *)
LEMMA ReadClockEffect ==
  ASSUME NEW s, Sound(s), NEW now, NEW t, t = ReadClock(s, now)
  PROVE  /\ \A i \in Slots : Untouched(s, t, i)
         /\ t.ring = s.ring /\ t.timers = s.timers /\ t.looptime = now
<1>1. s \in MplexType
  BY DEF Sound, RingOK
<1>2. /\ t.ring = s.ring /\ t.state = s.state /\ t.fd = s.fd /\ t.handler_id = s.handler_id
      /\ t.ev_permit = s.ev_permit /\ t.ev_mask = s.ev_mask /\ t.interest = s.interest
      /\ t.armed = s.armed /\ t.timers = s.timers /\ t.looptime = now /\ t.events = s.events
  BY <1>1 DEF ReadClock, MplexType
<1> QED BY <1>2 DEF Untouched

(* The kernel's ready list grows. *)
LEMMA ArmedEffect ==
  ASSUME NEW s, Sound(s), NEW armed, NEW t, t = [s EXCEPT !.armed = armed]
  PROVE  /\ t.ring = s.ring /\ t.state = s.state /\ t.fd = s.fd /\ t.handler_id = s.handler_id
         /\ t.ev_permit = s.ev_permit /\ t.ev_mask = s.ev_mask /\ t.interest = s.interest
         /\ t.armed = armed /\ t.timers = s.timers /\ t.looptime = s.looptime
         /\ t.events = s.events
<1>1. s \in MplexType
  BY DEF Sound, RingOK
<1> QED BY <1>1 DEF MplexType

(* The ring FREE is the same in t as in r. *)
SameFreeRing(r, t) ==
  \A i \in Nodes : /\ t.home[i] = FREE <=> r.home[i] = FREE
                   /\ r.home[i] = FREE => t.next[i] = r.next[i] /\ t.prev[i] = r.prev[i]

(* It is while handles in use move from ring to ring. *)
LEMMA BusyMoves ==
  ASSUME NEW s, Sound(s), NEW id \in Slots, s.state[id] # FREE, NEW h \in {WAIT, READY}
  PROVE  SameFreeRing(s.ring, Relink(s.ring, id, h))
<1>1. PICK r : r = s.ring
  OBVIOUS
<1>2. /\ WellLinked(r, Nodes) /\ Rooted(r, Nodes, Heads)
      /\ r.home[FREE] = FREE /\ r.home[h] = h /\ r.home[id] # FREE
  BY <1>1, NodesFacts DEF Sound, RingOK, HandleOK, Heads
<1>3. id \in Nodes /\ id \in Nodes \ Heads /\ h \in Nodes /\ h # FREE /\ id # h
  BY NodesFacts DEF Heads
<1>4. r.prev[id] # id
  BY <1>2, <1>3, RootedNotAlone
<1>5. \A i \in Nodes : Relink(r, id, h).home[i] = IF i = id THEN h ELSE r.home[i]
  BY <1>2, <1>3, RelinkLinks
<1>6. ASSUME NEW i \in Nodes, r.home[i] = FREE
      PROVE  Relink(r, id, h).next[i] = r.next[i] /\ Relink(r, id, h).prev[i] = r.prev[i]
  BY <1>2, <1>3, <1>4, <1>6, RelinkElsewhere
<1> QED BY <1>1, <1>2, <1>3, <1>5, <1>6 DEF SameFreeRing

-----------------------------------------------------------------------------
(* What the methods do to the rings: each moves at most one handle, to the *)
(* end of a ring.                                                          *)
(* t has the ring of s. *)
KeepsRing(s, t) == "ring" \in DOMAIN t /\ t.ring = s.ring

(* A step that relinks at most one handle, under a head. *)
RingStep(s, t) ==
  \/ KeepsRing(s, t)
  \/ \E id \in Slots, h \in Heads : "ring" \in DOMAIN t /\ t.ring = Relink(s.ring, id, h)

(* A multiplexer has a ring, and keeps it when nothing is done.            *)
LEMMA HasRing ==
  ASSUME NEW s \in MplexType
  PROVE  "ring" \in DOMAIN s /\ KeepsRing(s, s)
BY DEF MplexType, KeepsRing

(* erase and insert of one handle, after its other fields were written.    *)
LEMMA RequeueStep ==
  ASSUME NEW s, NEW t, KeepsRing(s, t), NEW id \in Slots, NEW h \in Heads
  PROVE  RingStep(s, Requeue(t, id, h))
<1>1. PICK r : r = Relink(s.ring, id, h)
  OBVIOUS
<1>2. PICK u : u = [t EXCEPT !.ring = r]
  OBVIOUS
<1>3. "ring" \in DOMAIN u /\ u.ring = r
  BY <1>2 DEF KeepsRing
<1>4. u = Requeue(t, id, h)
  BY <1>1, <1>2 DEF Requeue, KeepsRing
<1> QED BY <1>1, <1>3, <1>4 DEF RingStep

(* stop_timer writes no link, whatever it finds.                           *)
LEMMA StopTimerRing ==
  ASSUME NEW s, KeepsRing(s, s), NEW id
  PROVE  KeepsRing(s, StopTimer(s, id))
BY DEF StopTimer, KeepsRing


(* add takes the first free handle to WAIT or READY.                       *)
LEMMA AddRing ==
  ASSUME NEW s \in MplexType, FreshId(s) \in Slots, NEW trigger, NEW fd, NEW handler_id, NEW permit
  PROVE  RingStep(s, Add(s, trigger, fd, handler_id, permit))
<1>1. PICK id : id = FreshId(s)
  OBVIOUS
<1>2. PICK state : state = IF permit THEN WAIT ELSE READY
  OBVIOUS
<1>3. PICK t : t = [s EXCEPT !.ev_permit[id]  = permit,
                             !.fd[id]         = fd,
                             !.uptime[id]     = 0,
                             !.handler_id[id] = handler_id,
                             !.state[id]      = state,
                             !.ev_mask[id]    = trigger \cap IO,
                             !.events[id]     = IF permit THEN {} ELSE trigger \cap IO,
                             !.interest[id]   = IF permit THEN trigger ELSE {},
                             !.armed          = IF permit THEN s.armed \cup {id} ELSE s.armed]
  OBVIOUS
<1>4. KeepsRing(s, t)
  BY <1>3, HasRing DEF KeepsRing
<1>5. state \in Heads
  BY <1>2 DEF Heads
<1>6. RingStep(s, Requeue(t, id, state))
  BY <1>1, <1>4, <1>5, RequeueStep
<1> QED BY <1>1, <1>2, <1>3, <1>6 DEF Add

(* drop moves a handle, if at all, from READY to WAIT.                     *)
LEMMA DropRing ==
  ASSUME NEW s \in MplexType, NEW id, NEW events
  PROVE  RingStep(s, Drop(s, events, id))
<1>1. PICK t : t = IF s.ev_permit[id] THEN [s EXCEPT !.events[id] = @ \ events] ELSE s
  OBVIOUS
<1>2. KeepsRing(s, t) /\ KeepsRing(s, s)
  BY <1>1, HasRing DEF KeepsRing
<1>3. PICK w : w = [t EXCEPT !.state[id] = WAIT]
  OBVIOUS
<1>4. KeepsRing(s, w)
  BY <1>2, <1>3 DEF KeepsRing
<1>5. CASE ~InUse(s, id)
  <2>1. Drop(s, events, id) = s
    BY <1>5 DEF Drop
  <2> QED BY <1>2, <2>1 DEF RingStep
<1>6. CASE InUse(s, id) /\ s.state[id] = READY /\ Enabled(t, id) = {}
  <2>1. Drop(s, events, id) = Requeue(w, id, WAIT)
    BY <1>1, <1>3, <1>6 DEF Drop
  <2>2. id \in Slots /\ WAIT \in Heads
    BY <1>6 DEF InUse, Heads
  <2> QED BY <1>4, <2>1, <2>2, RequeueStep
<1>7. CASE InUse(s, id) /\ ~(s.state[id] = READY /\ Enabled(t, id) = {})
  <2>1. Drop(s, events, id) = t
    BY <1>1, <1>7 DEF Drop
  <2> QED BY <1>2, <2>1 DEF RingStep
<1> QED BY <1>5, <1>6, <1>7

(* A refused mod leaves the rings alone.                                   *)
LEMMA ModRefusedRing ==
  ASSUME NEW s \in MplexType, NEW id, NEW trigger
  PROVE  RingStep(s, ModRefused(s, trigger, id))
<1>1. KeepsRing(s, ModRefused(s, trigger, id))
  BY HasRing DEF ModRefused, Masked, KeepsRing
<1> QED BY <1>1 DEF RingStep

(* mod moves its handle, if at all, to the ring of its new state.          *)
LEMMA ModRing ==
  ASSUME NEW s \in MplexType, NEW id, NEW trigger
  PROVE  RingStep(s, Mod(s, trigger, id))
<1>1. PICK t : t = Masked(s, trigger, id)
  OBVIOUS
<1>2. KeepsRing(s, t) /\ KeepsRing(s, s)
  BY <1>1, HasRing DEF Masked, KeepsRing
<1>3. PICK u : u = CASE s.ev_permit[id] ->
                     [t EXCEPT !.interest[id] = IF trigger \cap IO = {} THEN {} ELSE trigger,
                               !.armed = IF trigger \cap IO = {} THEN @ \ {id} ELSE @ \cup {id}]
                [] ~s.ev_permit[id] /\ trigger \cap IO # {} ->
                     [t EXCEPT !.events[id] = (@ \ IO) \cup (trigger \cap IO)]
                [] OTHER -> t
  OBVIOUS
<1>4. KeepsRing(s, u)
  BY <1>2, <1>3 DEF KeepsRing
<1>5. PICK state : state = IF Enabled(u, id) # {} THEN READY ELSE WAIT
  OBVIOUS
<1>6. PICK v : v = [u EXCEPT !.state[id] = state]
  OBVIOUS
<1>7. KeepsRing(s, v) /\ state \in Heads
  BY <1>4, <1>5, <1>6 DEF KeepsRing, Heads
<1>8. Mod(s, trigger, id) = CASE ~InUse(s, id) -> s
                              [] InUse(s, id) /\ state # s.state[id] -> Requeue(v, id, state)
                              [] OTHER -> v
  BY <1>1, <1>3, <1>5, <1>6, Zenon DEF Mod
<1>9. CASE ~InUse(s, id)
  <2>1. Mod(s, trigger, id) = s
    BY <1>8, <1>9
  <2> QED BY <1>2, <2>1 DEF RingStep
<1>10. CASE InUse(s, id) /\ state # s.state[id]
  <2>1. Mod(s, trigger, id) = Requeue(v, id, state)
    BY <1>8, <1>10
  <2>2. id \in Slots
    BY <1>10 DEF InUse
  <2> QED BY <1>7, <2>1, <2>2, RequeueStep
<1>11. CASE InUse(s, id) /\ state = s.state[id]
  <2>1. Mod(s, trigger, id) = v
    BY <1>8, <1>11
  <2> QED BY <1>7, <2>1 DEF RingStep
<1> QED BY <1>9, <1>10, <1>11

(* stop_timer leaves the rings alone.                                      *)
LEMMA StopTimerStep ==
  ASSUME NEW s \in MplexType, NEW id
  PROVE  KeepsRing(s, StopTimer(s, id)) /\ RingStep(s, StopTimer(s, id))
BY HasRing, StopTimerRing DEF RingStep

(* add_timer takes the first free handle to WAIT or READY.                 *)
LEMMA AddTimerRing ==
  ASSUME NEW s \in MplexType, FreshId(s) \in Slots, NEW uptime, NEW handler_id
  PROVE  RingStep(s, AddTimer(s, uptime, handler_id))
<1>1. PICK id : id = FreshId(s)
  OBVIOUS
<1>2. PICK later : later = (s.looptime < uptime)
  OBVIOUS
<1>3. PICK state : state = IF later THEN WAIT ELSE READY
  OBVIOUS
<1>4. PICK t : t = [s EXCEPT !.ev_permit[id]  = FALSE,
                             !.fd[id]         = NoFd,
                             !.uptime[id]     = uptime,
                             !.handler_id[id] = handler_id,
                             !.state[id]      = state,
                             !.ev_mask[id]    = {TIMER},
                             !.events[id]     = IF later THEN {} ELSE {TIMER},
                             !.timers         = IF later THEN @ \cup {<<uptime, id>>} ELSE @]
  OBVIOUS
<1>5. KeepsRing(s, t)
  BY <1>4, HasRing DEF KeepsRing
<1>6. state \in Heads
  BY <1>3 DEF Heads
<1>7. RingStep(s, Requeue(t, id, state))
  BY <1>1, <1>5, <1>6, RequeueStep
<1> QED BY <1>1, <1>2, <1>3, <1>4, <1>7 DEF AddTimer

(* mod_timer moves its handle, if at all, to READY.                        *)
LEMMA ModTimerRing ==
  ASSUME NEW s \in MplexType, NEW id, NEW uptime, StopTimer(s, id).state[id] \in Heads
  PROVE  RingStep(s, ModTimer(s, uptime, id))
<1>1. PICK t : t = StopTimer(s, id)
  OBVIOUS
<1>2. PICK later : later = (s.looptime < uptime)
  OBVIOUS
<1>3. PICK state : state = IF later THEN t.state[id] ELSE READY
  OBVIOUS
<1>4. PICK u : u = [t EXCEPT !.uptime[id]  = uptime,
                             !.state[id]   = state,
                             !.ev_mask[id] = @ \cup {TIMER},
                             !.events[id]  = @ \cup (IF later THEN {} ELSE {TIMER}),
                             !.timers      = IF state = WAIT THEN @ \cup {<<uptime, id>>}
                                                             ELSE @]
  OBVIOUS
<1>5. KeepsRing(s, t)
  BY <1>1, StopTimerStep
<1>6. KeepsRing(s, u) /\ KeepsRing(s, s)
  BY <1>4, <1>5, HasRing DEF KeepsRing
<1>7. state \in Heads
  BY <1>1, <1>3 DEF Heads
<1>8. ModTimer(s, uptime, id) = CASE ~InUse(s, id) -> s
                                  [] InUse(s, id) /\ state # t.state[id] -> Requeue(u, id, state)
                                  [] OTHER -> u
  BY <1>1, <1>2, <1>3, <1>4, Zenon DEF ModTimer
<1>9. CASE ~InUse(s, id)
  <2>1. ModTimer(s, uptime, id) = s
    BY <1>8, <1>9
  <2> QED BY <1>6, <2>1 DEF RingStep
<1>10. CASE InUse(s, id) /\ state # t.state[id]
  <2>1. ModTimer(s, uptime, id) = Requeue(u, id, state)
    BY <1>8, <1>10
  <2>2. id \in Slots
    BY <1>10 DEF InUse
  <2> QED BY <1>6, <1>7, <2>1, <2>2, RequeueStep
<1>11. CASE InUse(s, id) /\ state = t.state[id]
  <2>1. ModTimer(s, uptime, id) = u
    BY <1>8, <1>11
  <2> QED BY <1>6, <2>1 DEF RingStep
<1> QED BY <1>9, <1>10, <1>11

(* del moves its handle, if at all, to FREE.                               *)
LEMMA DelRing ==
  ASSUME NEW s \in MplexType, NEW id
  PROVE  RingStep(s, Del(s, id))
<1>1. PICK t : t = StopTimer(s, id)
  OBVIOUS
<1>2. PICK u : u = [t EXCEPT !.ev_permit[id]  = FALSE,
                             !.fd[id]         = NoFd,
                             !.handler_id[id] = 0,
                             !.state[id]      = FREE,
                             !.ev_mask[id]    = {},
                             !.events[id]     = {},
                             !.interest[id]   = {},
                             !.armed          = @ \ {id}]
  OBVIOUS
<1>3. KeepsRing(s, t)
  BY <1>1, StopTimerStep
<1>4. KeepsRing(s, u) /\ KeepsRing(s, s)
  BY <1>2, <1>3, HasRing DEF KeepsRing
<1>5. Del(s, id) = IF DelRefused(s, id) THEN s ELSE Requeue(u, id, FREE)
  BY <1>1, <1>2 DEF Del
<1>6. CASE DelRefused(s, id)
  BY <1>4, <1>5, <1>6 DEF RingStep
<1>7. CASE ~DelRefused(s, id)
  <2>1. id \in Slots /\ FREE \in Heads
    BY <1>7 DEF DelRefused, InUse, Heads
  <2>2. RingStep(s, Requeue(u, id, FREE))
    BY <1>4, <2>1, RequeueStep
  <2> QED BY <1>5, <1>7, <2>2
<1> QED BY <1>6, <1>7

(* wait moves the handle of an event, if at all, to READY.                 *)
LEMMA CollectRing ==
  ASSUME NEW s \in MplexType, NEW id \in Slots, NEW events
  PROVE  RingStep(s, Collect(s, id, events))
<1>1. PICK t : t = [s EXCEPT !.events[id] = @ \cup events]
  OBVIOUS
<1>2. KeepsRing(s, t) /\ READY \in Heads
  BY <1>1, HasRing DEF KeepsRing, Heads
<1>3. Collect(s, id, events) =
        IF s.state[id] = WAIT /\ Enabled(t, id) # {} THEN Requeue(t, id, READY) ELSE t
  BY <1>1, Zenon DEF Collect
<1>4. RingStep(s, Requeue(t, id, READY)) /\ RingStep(s, t)
  BY <1>2, RequeueStep DEF RingStep
<1> QED BY <1>3, <1>4

(* run_timer moves the handle of an entry, if at all, to READY.            *)
LEMMA ExpireRing ==
  ASSUME NEW s \in MplexType, NEW e, e[2] \in Slots
  PROVE  RingStep(s, Expire(s, e))
<1>1. PICK id : id = e[2]
  OBVIOUS
<1>2. PICK t : t = [s EXCEPT !.events[id] = @ \cup {TIMER}, !.timers = @ \ {e}]
  OBVIOUS
<1>3. KeepsRing(s, t) /\ READY \in Heads
  BY <1>2, HasRing DEF KeepsRing, Heads
<1>4. Expire(s, e) = IF s.state[id] = WAIT THEN Requeue(t, id, READY) ELSE t
  BY <1>1, <1>2, Zenon DEF Expire
<1>5. RingStep(s, Requeue(t, id, READY)) /\ RingStep(s, t)
  BY <1>1, <1>3, RequeueStep DEF RingStep
<1> QED BY <1>4, <1>5
=============================================================================
