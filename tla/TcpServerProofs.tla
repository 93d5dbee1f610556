--------------------------- MODULE TcpServerProofs ---------------------------
(***************************************************************************)
(* The loop keeps its invariants for any number of connections, clients,   *)
(* descriptors and seconds and any time out, whether or not the kernel     *)
(* fails, the client speaks first or the user interrupts.                  *)
(*                                                                         *)
(* The invariant relates the loop, the connection objects, the handles of  *)
(* the multiplexer (Sound, from MplexLemmas), the sockets and the kernel.  *)
(* A step is reduced to what it leaves alone before the conjuncts are      *)
(* looked at: BooksKept (nobody comes or goes), Calm (no registration      *)
(* changes), PassedBy, Welcomed and Removed (what on_accept and            *)
(* remove_handler come to).                                                *)
(***************************************************************************)
EXTENDS TcpServer, MplexLemmas, FiniteSetTheorems

(* The types, by who writes the variables, and what pc says of them. *)
ConnTypes ==
  /\ conn \in [Handlers -> [state : {FREE, WAIT}, handle_id : {-1} \cup Slots,
                            iowait : SUBSET IO]]
  /\ born \in [Handlers -> 0..MaxTime]

LoopTypes ==
  /\ pc \in {"init", "top", "timer", "wait", "check", "scan", "settle",
             "shutdown", "stopped"}
  /\ cur \in Nat /\ nxt \in Nodes
  /\ io \in [by : {"none", "on_read", "on_write"}, h : Handlers,
             result : {"none", "some", "again", "zero", "error", "intr"}]
  /\ pc # "settle" => io = NoIo
  /\ pc = "stopped" => cur \notin Handlers

SockTypes ==
  sock \in [ConnFds -> [open : BOOLEAN, rx : 0..MaxRx, room : BOOLEAN,
                        peer : {"open", "fin", "reset", "gone"}]]

WorldTypes ==
  /\ backlog \in Nat /\ clients \in 0..MaxClients /\ backlog <= clients
  /\ now \in 0..MaxTime /\ alarm \in BOOLEAN /\ sigint \in BOOLEAN

ClockTypes ==
  /\ m.looptime <= now
  /\ \A e \in m.timers : e[1] <= MaxTime + Timeout

Types == ConnTypes /\ LoopTypes /\ SockTypes /\ WorldTypes /\ ClockTypes

(* Nothing has been done yet. *)
Untried ==
  pc = "init" => /\ m = FreshMplex(0)
                 /\ handlers = Erase(Resize(1 + MaxConnections), WAIT)
                 /\ \A h \in Handlers : conn[h].state = FREE /\ conn[h].handle_id = -1
                 /\ \A fd \in ConnFds : ~sock[fd].open

(* What epoll_wait has returned is about registered handles. *)
Pending ==
  /\ evset \subseteq Slots \X SUBSET IO
  /\ \A e \in evset : m.interest[e[1]] # {}
  /\ pc # "wait" => evset = {}

(* The rings of the connection objects. *)
Objects ==
  /\ WellLinked(handlers, Handlers)
  /\ Rooted(handlers, Handlers, {FREE, WAIT})
  /\ handlers.home[FREE] = FREE /\ handlers.home[WAIT] = WAIT
  /\ conn[FREE].state = FREE /\ conn[WAIT].state = FREE
  /\ \A h \in Connections : handlers.home[h] = conn[h].state

(* The connections that have not been closed: shutdown has come to cur. *)
Serving == {h \in Live : Running \/ (pc = "shutdown" /\ cur <= h)}

Holds(h, id) ==
  /\ id \in Slots /\ InUse(m, id) /\ m.handler_id[id] = h
  /\ m.fd[id] \in ConnFds /\ sock[m.fd[id]].open

Listening(id) ==
  /\ m.fd[id] = ListenFd /\ m.handler_id[id] = 0 /\ m.ev_permit[id]
  /\ m.ev_mask[id] = {"READ"} /\ m.interest[id] = {"READ"}

Owners ==
  /\ \A h \in Serving : Holds(h, HandleOf(h))
  /\ \A h, g \in Serving : m.fd[HandleOf(h)] = m.fd[HandleOf(g)] => h = g
  /\ \A fd \in ConnFds : sock[fd].open => \E h \in Serving : m.fd[HandleOf(h)] = fd
  /\ \A id \in Slots : InUse(m, id) => Listening(id) \/ \E h \in Serving : HandleOf(h) = id

Direction(d) == d = {"READ"} \/ d = {"WRITE"}

(* How the handle of a connection is registered. *)
Registered(h, id) ==
  /\ m.ev_permit[id]
  /\ TIMER \in m.ev_mask[id] /\ EDGE \in m.interest[id]
  /\ m.interest[id] \cap IO = m.ev_mask[id] \cap IO
  /\ Direction(conn[h].iowait)
  /\ io.h # h => m.ev_mask[id] \cap IO = conn[h].iowait

Registrations == \A h \in Serving : Registered(h, HandleOf(h))

(* Between iotransfer and what the handler does with its result. *)
Dir == IF io.by = "on_read" THEN "READ" ELSE "WRITE"

Settling ==
  pc = "settle" =>
    /\ io.h \in Live /\ HandleOf(io.h) = cur /\ io.by # "none"
    /\ m.ring.home[cur] = READY /\ nxt # cur
    /\ TIMER \notin Enabled(m, cur) /\ Dir \in m.events[cur]
    /\ m.ev_mask[cur] \cap IO = {Dir}
    /\ io.result # "some" => conn[io.h].iowait = {Dir}
    /\ (io.result = "again" /\ Dir \in PollFd(m.fd[cur])) => cur \in m.armed

(* The handle that a free object would be given next but one is the one it *)
(* had before: objects and handles are taken from the front of their rings *)
(* FREE and come back to the end of them together.  One handle more is     *)
(* free than there are free objects, the first one.                        *)
FreeObjects == {h \in Connections : conn[h].state = FREE}

InStep(P) ==
  /\ EmptyRing(handlers, FREE) => m.ring.next[m.ring.next[FREE]] = FREE
  /\ \A h \in FreeObjects :
       /\ m.ring.home[P[h]] = FREE
       /\ conn[h].handle_id \in {-1, P[h]}
       /\ m.ring.prev[P[h]] = IF handlers.prev[h] = FREE THEN m.ring.next[FREE]
                                                         ELSE P[handlers.prev[h]]
       /\ handlers.next[h] = FREE => m.ring.next[P[h]] = FREE

Lockstep ==
  (Running /\ pc # "init") => /\ HasRoom(m)
                              /\ \E P \in [FreeObjects -> Slots] : InStep(P)

(* The time out of every connection is still to come, or noticed. *)
TimedOut(h) == TIMER \in Enabled(m, HandleOf(h))

Lives ==
  Running => \A h \in Live :
               <<born[h] + Timeout, HandleOf(h)>> \in m.timers \/ TimedOut(h)

(* Those noticed are ahead of the pass over READY. *)
Ahead(A, first) ==
  /\ \A h \in Live : TimedOut(h) => HandleOf(h) \in A
  /\ \A a \in A : m.ring.home[a] = READY /\ (a = first \/ m.ring.prev[a] \in A)

NoneDue    == \A h \in Live : ~TimedOut(h) /\ m.looptime < born[h] + Timeout
DueNoticed == \A h \in Live : TimedOut(h) \/ m.looptime < born[h] + Timeout

InTime ==
  ~sigint =>
    /\ pc \in {"top", "wait"} => NoneDue
    /\ pc \in {"check", "scan", "settle"} => DueNoticed
    /\ pc = "scan" => \E A \in SUBSET Slots : Ahead(A, cur)
    /\ pc = "settle" => \E A \in SUBSET (Slots \ {cur}) : Ahead(A, nxt)

TcpServerIInv ==
  /\ Types /\ Untried /\ Sound(m) /\ Pending /\ Objects
  /\ Owners /\ Registrations /\ Settling /\ CursorOnReady
  /\ Lockstep /\ WakeupKept /\ Lives /\ InTime

-----------------------------------------------------------------------------
(* Constants. *)
LEMMA Numbers ==
  /\ MaxConnections \in Nat /\ MaxConnections >= 1
  /\ MaxEvents = 1 + MaxConnections
  /\ Timeout \in Nat /\ Timeout >= 1
  /\ MaxRx \in Nat /\ MaxClients \in Nat /\ MaxTime \in Nat
  /\ Handlers \subseteq Nat /\ Connections \subseteq Handlers
  /\ FREE \in Handlers /\ WAIT \in Handlers /\ FREE \notin Connections /\ WAIT \notin Connections
  /\ Handlers = Connections \cup {FREE, WAIT}
  /\ ListenFd \notin ConnFds /\ ConnFds \subseteq Nat /\ ListenFd \in Nat
  /\ Slots \subseteq Nat /\ Nodes \subseteq Nat
BY TcpServerAssumption DEF Handlers, Connections, FREE, WAIT, ListenFd, ConnFds, Slots, Nodes

(* Only connection objects proper are ever in use. *)
LEMMA LiveFacts ==
  ASSUME Objects
  PROVE  /\ Live \subseteq Connections /\ Live \subseteq Handlers
         /\ Live = {h \in Connections : conn[h].state # FREE}
         /\ \A h \in Live : h \in Nat /\ h # 0
<1>1. conn[FREE].state = FREE /\ conn[WAIT].state = FREE
  BY DEF Objects
<1> QED BY <1>1, Numbers DEF Live, FREE

(* While the loop runs every connection in use is being served. *)
LEMMA RunningServes == Running => Serving = Live
BY DEF Serving

(* The shape of a handle and its links, from the multiplexer's types. *)
LEMMA HandleTypes ==
  ASSUME TcpServerIInv
  PROVE  m \in MplexType /\ RingOK(m) /\ Sound(m) /\ Objects /\ Types
BY DEF TcpServerIInv, Sound, RingOK

(* A handle on the ring READY is in use. *)
LEMMA ReadyInUse ==
  ASSUME NEW s, Sound(s), NEW id \in Nodes, id # READY, s.ring.home[id] = READY
  PROVE  id \in Slots /\ InUse(s, id) /\ s.state[id] # FREE
<1>1. id \in Slots
  <2>1. s.ring.home[FREE] = FREE /\ s.ring.home[WAIT] = WAIT
    BY DEF Sound, RingOK, Heads
  <2> QED BY <2>1, NodesFacts DEF Heads
<1>2. HandleOK(s, id, READY)
  BY <1>1 DEF Sound
<1> QED BY <1>1, <1>2, NodesFacts DEF HandleOK, InUse

(* Who a handle in use belongs to. *)
LEMMA Whose ==
  ASSUME TcpServerIInv, NEW id \in Slots, InUse(m, id),
         0 < m.handler_id[id] \/ TIMER \in m.ev_mask[id] \/ "WRITE" \in m.ev_mask[id]
  PROVE  m.handler_id[id] \in Serving /\ HandleOf(m.handler_id[id]) = id
<1>1. ~Listening(id)
  BY DEF Listening, TIMER
<1>2. PICK h \in Serving : HandleOf(h) = id
  BY <1>1 DEF TcpServerIInv, Owners
<1>3. m.handler_id[id] = h
  BY <1>2 DEF TcpServerIInv, Owners, Holds
<1> QED BY <1>2, <1>3

(* The same from the connection's side. *)
LEMMA Held ==
  ASSUME TcpServerIInv, NEW h \in Serving, NEW id, id = HandleOf(h)
  PROVE  /\ h \in Live /\ h \in Connections
         /\ Holds(h, id) /\ Registered(h, id) /\ id \in Slots /\ m.state[id] # FREE
         /\ ~DelRefused(m, id) /\ conn[h].handle_id = id
<1>1. Holds(h, id) /\ Registered(h, id)
  BY DEF TcpServerIInv, Owners, Registrations
<1>2. h \in Live /\ h \in Connections
  BY LiveFacts, HandleTypes DEF Serving
<1>3. ~DelRefused(m, id)
  BY <1>1 DEF DelRefused, Holds, Registered
<1> QED BY <1>1, <1>2, <1>3 DEF Holds, InUse, HandleOf

-----------------------------------------------------------------------------
(* Steps that leave alone who owns what. *)
BooksKept ==
  /\ UNCHANGED <<handlers, born>>
  /\ \A h \in Handlers : conn'[h].state = conn[h].state /\ conn'[h].handle_id = conn[h].handle_id
  /\ \A fd \in ConnFds : sock'[fd].open = sock[fd].open
  /\ \A i \in Slots : /\ m'.fd[i] = m.fd[i] /\ m'.handler_id[i] = m.handler_id[i]
                      /\ m'.ev_permit[i] = m.ev_permit[i]
                      /\ m'.state[i] = FREE <=> m.state[i] = FREE
                      /\ Listening(i) => m'.ev_mask[i] = m.ev_mask[i] /\ m'.interest[i] = m.interest[i]
  /\ SameFreeRing(m.ring, m'.ring)

(* What keeps the books keeps who is in use. *)
LEMMA BooksLive == ASSUME BooksKept PROVE Live' = Live /\ FreeObjects' = FreeObjects
BY Numbers DEF BooksKept, Live, FreeObjects

(* ... what it holds, ... *)
LEMMA BooksOwners ==
  ASSUME TcpServerIInv, BooksKept, Serving' = Serving
  PROVE  Owners'
<1>1. \A h \in Serving : HandleOf(h)' = HandleOf(h) /\ HandleOf(h) \in Slots
  BY Held, LiveFacts, HandleTypes DEF BooksKept, HandleOf, Serving
<1>2. \A h \in Serving : Holds(h, HandleOf(h))'
  BY <1>1, Held DEF BooksKept, Holds, InUse
<1>3. \A h, g \in Serving : m'.fd[HandleOf(h)'] = m'.fd[HandleOf(g)'] => h = g
  BY <1>1 DEF TcpServerIInv, Owners, BooksKept
<1>4. \A fd \in ConnFds : sock'[fd].open => \E h \in Serving : m'.fd[HandleOf(h)'] = fd
  BY <1>1 DEF TcpServerIInv, Owners, BooksKept
<1>5. \A id \in Slots : InUse(m, id)' => Listening(id)' \/ \E h \in Serving : HandleOf(h)' = id
  BY <1>1 DEF TcpServerIInv, Owners, BooksKept, InUse, Listening
<1> QED BY <1>2, <1>3, <1>4, <1>5 DEF Owners

(* ... and what every connection object says of itself. *)
LEMMA BooksObjects == ASSUME TcpServerIInv, BooksKept PROVE Objects'
<1>1. /\ conn'[FREE].state = FREE /\ conn'[WAIT].state = FREE
      /\ \A h \in Connections : handlers.home[h] = conn'[h].state
  BY Numbers DEF BooksKept, TcpServerIInv, Objects
<1> QED BY <1>1 DEF BooksKept, TcpServerIInv, Objects

(* Free objects and free handles stay in step while neither ring changes. *)
LEMMA StepsAlike ==
  ASSUME TcpServerIInv, BooksKept, HasRoom(m), NEW P \in [FreeObjects -> Slots], InStep(P)
  PROVE  HasRoom(m') /\ InStep(P)'
<1>1. /\ \A i \in Nodes : m.ring.home[i] = FREE =>
            /\ m'.ring.home[i] = FREE
            /\ m'.ring.next[i] = m.ring.next[i] /\ m'.ring.prev[i] = m.ring.prev[i]
      /\ handlers' = handlers
  BY DEF BooksKept, SameFreeRing
<1>2. FREE \in Nodes /\ m.ring.home[FREE] = FREE /\ m.ring.next[FREE] \in Nodes
      /\ m.ring.home[m.ring.next[FREE]] = FREE
  BY HandleTypes, NodesFacts DEF RingOK, WellLinked, Links, Heads
<1>3. HasRoom(m') /\ m'.ring.next[FREE] = m.ring.next[FREE]
  BY <1>1, <1>2 DEF HasRoom, EmptyRing
<1>4. (EmptyRing(handlers, FREE) => m.ring.next[m.ring.next[FREE]] = FREE)'
  BY <1>1, <1>2 DEF InStep
<1>5. ASSUME NEW h \in FreeObjects
      PROVE  /\ m'.ring.home[P[h]] = FREE
             /\ conn'[h].handle_id \in {-1, P[h]}
             /\ m'.ring.prev[P[h]] = IF handlers.prev[h] = FREE THEN m'.ring.next[FREE]
                                                               ELSE P[handlers.prev[h]]
             /\ handlers.next[h] = FREE => m'.ring.next[P[h]] = FREE
  <2>1. P[h] \in Nodes /\ m.ring.home[P[h]] = FREE
    BY NodesFacts DEF InStep
  <2>2. conn'[h].handle_id = conn[h].handle_id
    BY Numbers DEF FreeObjects, BooksKept
  <2> QED BY <1>1, <1>2, <1>3, <2>1, <2>2 DEF InStep
<1>6. FreeObjects' = FreeObjects
  BY BooksLive
<1> QED BY <1>1, <1>3, <1>4, <1>5, <1>6 DEF InStep

(* ... and so the two rings FREE stay in step, ... *)
LEMMA BooksLockstep ==
  ASSUME TcpServerIInv, BooksKept, (Running' /\ pc' # "init") => (Running /\ pc # "init")
  PROVE  Lockstep'
<1> SUFFICES ASSUME Running /\ pc # "init"
             PROVE  HasRoom(m') /\ \E P \in [FreeObjects' -> Slots] : InStep(P)'
  BY DEF Lockstep
<1>1. PICK P \in [FreeObjects -> Slots] : HasRoom(m) /\ InStep(P)
  BY DEF TcpServerIInv, Lockstep
<1>2. HasRoom(m') /\ InStep(P)'
  BY <1>1, StepsAlike
<1>3. FreeObjects' = FreeObjects
  BY BooksLive
<1> QED BY <1>1, <1>2, <1>3

(* Among them, those that change neither state nor mask nor registration   *)
(* of a handle, and take no event from it.                                 *)
Calm ==
  /\ UNCHANGED <<handlers, conn, born>>
  /\ \A fd \in ConnFds : sock'[fd].open = sock[fd].open
  /\ \A i \in Slots : /\ m'.fd[i] = m.fd[i] /\ m'.handler_id[i] = m.handler_id[i]
                      /\ m'.ev_permit[i] = m.ev_permit[i] /\ m'.state[i] = m.state[i]
                      /\ m'.ev_mask[i] = m.ev_mask[i] /\ m'.interest[i] = m.interest[i]
                      /\ m.events[i] \subseteq m'.events[i]
  /\ SameFreeRing(m.ring, m'.ring)
  /\ \A i \in Nodes : m.ring.home[i] = READY => m'.ring.home[i] = READY

(* A step that changes no registration keeps the books. *)
LEMMA CalmBooks == Calm => BooksKept
BY DEF Calm, BooksKept

(* ... and whom the kernel would wake up for what. *)
LEMMA CalmRegistrations ==
  ASSUME TcpServerIInv, Calm, Serving' = Serving, \A h \in Serving : io'.h # h => io.h # h
  PROVE  Registrations'
<1>1. ASSUME NEW h \in Serving
      PROVE  Registered(h, HandleOf(h))'
  <2>1. HandleOf(h)' = HandleOf(h) /\ HandleOf(h) \in Slots /\ Registered(h, HandleOf(h))
    BY Held DEF Calm, HandleOf
  <2> QED BY <2>1 DEF Calm, Registered
<1> QED BY <1>1 DEF Registrations

(* All that such a step keeps of the invariant. *)
LEMMA CalmKeeps ==
  ASSUME TcpServerIInv, Calm, Serving' = Serving, \A h \in Serving : io'.h # h => io.h # h,
         (Running' /\ pc' # "init") => (Running /\ pc # "init")
  PROVE  Objects' /\ Owners' /\ Registrations' /\ Lockstep'
BY CalmBooks, BooksOwners, BooksObjects, BooksLockstep, CalmRegistrations

(* Only the kernel's ready list changes. *)
OnlyArmed ==
  /\ m'.ring = m.ring /\ m'.state = m.state /\ m'.fd = m.fd /\ m'.handler_id = m.handler_id
  /\ m'.ev_permit = m.ev_permit /\ m'.ev_mask = m.ev_mask /\ m'.interest = m.interest
  /\ m'.timers = m.timers /\ m'.looptime = m.looptime /\ m'.events = m.events

(* A step outside the loop only makes the kernel's ready list longer. *)
LEMMA OnlyArmedCalm ==
  ASSUME OnlyArmed, UNCHANGED <<handlers, conn, born>>,
         \A fd \in ConnFds : sock'[fd].open = sock[fd].open
  PROVE  Calm
BY DEF OnlyArmed, Calm, SameFreeRing

(* ... so what it changed is noted there. *)
LEMMA ArmedSteps ==
  ASSUME TcpServerIInv, NEW A \in SUBSET Slots, \A id \in A : m.interest[id] # {},
         m' = [m EXCEPT !.armed = A]
  PROVE  Sound(m)' /\ OnlyArmed /\ m'.armed = A
<1>1. Sound(m)
  BY HandleTypes
<1>2. PICK t : t = [m EXCEPT !.armed = A]
  OBVIOUS
<1>3. Sound(t)
  BY <1>1, <1>2, ArmedSound
<1>4. /\ t.ring = m.ring /\ t.state = m.state /\ t.fd = m.fd /\ t.handler_id = m.handler_id
      /\ t.ev_permit = m.ev_permit /\ t.ev_mask = m.ev_mask /\ t.interest = m.interest
      /\ t.armed = A /\ t.timers = m.timers /\ t.looptime = m.looptime
      /\ t.events = m.events
  BY <1>1, <1>2, ArmedEffect
<1>5. m' = t
  BY <1>2
<1> QED BY <1>3, <1>4, <1>5 DEF OnlyArmed

(* A step of the clients, the clock or the user: whoever's descriptor      *)
(* becomes ready is on the ready list.                                     *)
WorldMoves ==
  /\ UNCHANGED <<pc, cur, nxt, io, handlers, conn, born, evset>>
  /\ \A fd \in ConnFds : sock'[fd].open = sock[fd].open
  /\ OnlyArmed /\ m.armed \subseteq m'.armed
  /\ \A id \in Slots : m.interest[id] # {} =>
       PollFd(m.fd[id])' = PollFd(m.fd[id]) \/ id \in m'.armed
  /\ sigint => sigint'

(* A step outside the loop keeps the invariant. *)
LEMMA WorldKeeps ==
  ASSUME TcpServerIInv, WorldMoves, Types', Sound(m)', pc # "init"
  PROVE  TcpServerIInv'
<1>1. Calm
  BY OnlyArmedCalm DEF WorldMoves
<1>2. Serving' = Serving /\ Live' = Live
  BY BooksLive, CalmBooks, <1>1 DEF Serving, Running, WorldMoves
<1>3. Objects' /\ Owners' /\ Registrations' /\ Lockstep'
  BY <1>1, <1>2, CalmKeeps DEF WorldMoves, Running
<1>4. Untried'
  BY DEF Untried, WorldMoves
<1>5. Pending'
  BY DEF TcpServerIInv, Pending, WorldMoves, OnlyArmed
<1>6. CursorOnReady'
  BY DEF TcpServerIInv, CursorOnReady, WorldMoves, OnlyArmed
<1>7. Lives' /\ InTime'
  <2>1. /\ m'.timers = m.timers /\ m'.looptime = m.looptime /\ m'.ring = m.ring
        /\ m'.events = m.events /\ m'.ev_mask = m.ev_mask /\ conn' = conn
        /\ born' = born /\ pc' = pc /\ cur' = cur /\ nxt' = nxt /\ (sigint => sigint')
    BY DEF WorldMoves, OnlyArmed
  <2>2. Lives'
    BY <1>2, <2>1 DEF TcpServerIInv, Lives, Running, TimedOut, Enabled, HandleOf
  <2>3. \A A \in SUBSET Slots : (Ahead(A, cur) => Ahead(A, cur)') /\ (Ahead(A, nxt) => Ahead(A, nxt)')
    BY <1>2, <2>1 DEF Ahead, TimedOut, Enabled, HandleOf
  <2>4. (NoneDue => NoneDue') /\ (DueNoticed => DueNoticed')
    BY <1>2, <2>1 DEF NoneDue, DueNoticed, TimedOut, Enabled, HandleOf
  <2>5. InTime'
    BY <2>1, <2>3, <2>4 DEF TcpServerIInv, InTime
  <2> QED BY <2>2, <2>5
<1>8. Settling'
  <2> SUFFICES ASSUME pc = "settle" PROVE Settling'
    BY DEF Settling, WorldMoves
  <2>1. /\ io.h \in Live /\ HandleOf(io.h) = cur /\ io.by # "none"
        /\ m.ring.home[cur] = READY /\ nxt # cur
        /\ TIMER \notin Enabled(m, cur) /\ Dir \in m.events[cur]
        /\ m.ev_mask[cur] \cap IO = {Dir}
        /\ io.result # "some" => conn[io.h].iowait = {Dir}
        /\ (io.result = "again" /\ Dir \in PollFd(m.fd[cur])) => cur \in m.armed
    BY DEF TcpServerIInv, Settling
  <2>2. cur \in Slots /\ m.interest[cur] # {}
    BY <2>1, Held DEF Serving, Running, Registered
  <2>3. (io.result = "again" /\ Dir \in PollFd(m.fd[cur])') => cur \in m'.armed
    BY <2>1, <2>2 DEF WorldMoves
  <2> QED BY <1>2, <2>1, <2>3 DEF Settling, WorldMoves, OnlyArmed, Dir, Enabled, HandleOf, PollFd
<1>9. WakeupKept'
  <2> SUFFICES ASSUME NEW h \in Live, Running, io.h # h, NEW id, id = HandleOf(h),
                      PollFd(m.fd[id])' \cap conn[h].iowait # {}
               PROVE  \/ m.ring.home[id] = READY /\ Enabled(m, id) \cap IO # {}
                      \/ id \in m'.armed /\ m.interest[id] \cap PollFd(m.fd[id])' # {}
                      \/ \E e \in evset : e[1] = id /\ e[2] \cap conn[h].iowait # {}
    BY <1>2 DEF WakeupKept, WorldMoves, OnlyArmed, Running, Enabled, HandleOf
  <2>1. id \in Slots /\ Registered(h, id)
    BY Held, RunningServes
  <2>2. m.interest[id] \cap IO = conn[h].iowait /\ m.interest[id] # {}
    BY <2>1 DEF Registered
  <2>3. CASE id \in m'.armed
    BY <2>2, <2>3
  <2>4. CASE id \notin m'.armed
    <3>1. PollFd(m.fd[id])' = PollFd(m.fd[id]) /\ id \notin m.armed
      BY <2>1, <2>2, <2>4 DEF WorldMoves
    <3> QED BY <3>1 DEF TcpServerIInv, WakeupKept
  <2> QED BY <2>3, <2>4
<1> QED BY <1>3, <1>4, <1>5, <1>6, <1>7, <1>8, <1>9 DEF TcpServerIInv

-----------------------------------------------------------------------------
(* The clients, the clock and the user. *)

(* A wakeup of one descriptor's handles. *)
LEMMA WokenMoves ==
  ASSUME TcpServerIInv, NEW fd, m' = Woken(fd),
         UNCHANGED <<pc, cur, nxt, io, handlers, conn, born, evset, sigint>>,
         \A c \in ConnFds : sock'[c].open = sock[c].open,
         \A c \in Nat \ {fd} : PollFd(c)' = PollFd(c)
  PROVE  WorldMoves /\ Sound(m)' /\ OnlyArmed
<1>1. m \in MplexType /\ Sound(m)
  BY HandleTypes
<1>2. PICK A : A = m.armed \cup {id \in Slots : m.interest[id] # {} /\ m.fd[id] = fd}
  OBVIOUS
<1>3. A \in SUBSET Slots /\ \A id \in A : m.interest[id] # {}
  BY <1>1, <1>2, FieldTypes DEF Sound, HandleOK
<1>4. m' = [m EXCEPT !.armed = A]
  BY <1>2 DEF Woken
<1>5. Sound(m)' /\ OnlyArmed /\ m'.armed = A
  BY <1>3, <1>4, ArmedSteps
<1>6. ASSUME NEW id \in Slots, m.interest[id] # {}
      PROVE  PollFd(m.fd[id])' = PollFd(m.fd[id]) \/ id \in m'.armed
  <2>1. m'.fd[id] = m.fd[id]
    BY <1>5 DEF OnlyArmed
  <2>2. CASE m.fd[id] = fd
    BY <1>2, <1>5, <1>6, <2>2
  <2>3. CASE m.fd[id] # fd
    <3>1. m.fd[id] \in Nat
      <4>1. InUse(m, id)
        BY <1>1, <1>6 DEF Sound, HandleOK, InUse
      <4>2. CASE Listening(id)
        BY <4>2, Numbers DEF Listening
      <4>3. CASE \E h \in Serving : HandleOf(h) = id
        BY <4>3, Numbers, Held DEF Holds
      <4> QED BY <4>1, <4>2, <4>3 DEF TcpServerIInv, Owners
    <3> QED BY <2>1, <2>3, <3>1 DEF PollFd
  <2> QED BY <2>2, <2>3
<1> QED BY <1>2, <1>5, <1>6 DEF WorldMoves

(* A client connects. *)
LEMMA ConnectKeeps == ASSUME TcpServerIInv, Connect PROVE TcpServerIInv'
<1>1. WorldMoves /\ Sound(m)' /\ OnlyArmed
  <2>1. \A c \in Nat \ {ListenFd} : PollFd(c)' = PollFd(c)
    BY DEF Connect, PollFd
  <2> QED BY <2>1, WokenMoves DEF Connect, loopVars, connVars
<1>2. Types'
  <2>1. WorldTypes'
    BY Numbers DEF Connect, TcpServerIInv, Types, WorldTypes
  <2> QED BY <1>1, <2>1 DEF Connect, loopVars, connVars, OnlyArmed, TcpServerIInv, Types, ConnTypes, LoopTypes, SockTypes, ClockTypes
<1>3. pc # "init"
  BY DEF Connect, AtSystemCall
<1> QED BY <1>1, <1>2, <1>3, WorldKeeps

(* A client acts on its connection. *)
LEMMA PeerActsKeeps ==
  ASSUME TcpServerIInv, NEW fd \in ConnFds,
         NEW s \in [open : BOOLEAN, rx : 0..MaxRx, room : BOOLEAN,
                    peer : {"open", "fin", "reset", "gone"}],
         s.open = sock[fd].open, PeerActs(fd, s)
  PROVE  TcpServerIInv'
<1>1. /\ sock' = [sock EXCEPT ![fd] = s]
      /\ sock \in [ConnFds -> [open : BOOLEAN, rx : 0..MaxRx, room : BOOLEAN,
                               peer : {"open", "fin", "reset", "gone"}]]
  BY DEF PeerActs, TcpServerIInv, Types, SockTypes
<1>2. \A c \in ConnFds : sock'[c].open = sock[c].open
  BY <1>1
<1>3. WorldMoves /\ Sound(m)' /\ OnlyArmed
  <2>1. \A c \in Nat \ {fd} : PollFd(c)' = PollFd(c)
    BY <1>1 DEF PeerActs, worldVars, PollFd
  <2> QED BY <1>2, <2>1, WokenMoves DEF PeerActs, loopVars, connVars, worldVars
<1>4. Types'
  <2>1. SockTypes'
    BY <1>1 DEF SockTypes
  <2> QED BY <1>3, <2>1 DEF PeerActs, loopVars, connVars, worldVars, OnlyArmed, TcpServerIInv, Types, ConnTypes, LoopTypes, WorldTypes, ClockTypes
<1>5. pc # "init"
  BY DEF PeerActs, AtSystemCall
<1> QED BY <1>3, <1>4, <1>5, WorldKeeps

(* Whatever a client does. *)
LEMMA ClientKeeps ==
  ASSUME TcpServerIInv, NEW fd \in ConnFds, Send(fd) \/ Fin(fd) \/ Reset(fd) \/ Drain(fd)
  PROVE  TcpServerIInv'
<1> DEFINE Sockets == [open : BOOLEAN, rx : 0..MaxRx, room : BOOLEAN,
                       peer : {"open", "fin", "reset", "gone"}]
<1>1. PICK r \in Sockets : r = sock[fd]
  BY DEF TcpServerIInv, Types, SockTypes
<1>3. CASE Send(fd)
  <2>1. PICK s : s = [r EXCEPT !.rx = @ + 1]
    OBVIOUS
  <2>2. r.rx + 1 \in 0..MaxRx
    BY <1>1, <1>3, Numbers DEF Send
  <2>3. s \in Sockets /\ s.open = r.open
    BY <2>1, <2>2
  <2> QED BY <1>1, <1>3, <2>1, <2>3, PeerActsKeeps DEF Send
<1>4. CASE Fin(fd)
  <2>1. PICK s : s = [r EXCEPT !.peer = "fin"]
    OBVIOUS
  <2>2. s \in Sockets /\ s.open = r.open
    BY <2>1
  <2> QED BY <1>1, <1>4, <2>1, <2>2, PeerActsKeeps DEF Fin
<1>5. CASE Reset(fd)
  <2>1. PICK s : s = [r EXCEPT !.peer = "reset", !.rx = 0]
    OBVIOUS
  <2>3. 0 \in 0..MaxRx
    BY Numbers
  <2>2. s \in Sockets /\ s.open = r.open
    BY <2>1, <2>3
  <2> QED BY <1>1, <1>5, <2>1, <2>2, PeerActsKeeps DEF Reset
<1>6. CASE Drain(fd)
  <2>1. PICK s : s = [r EXCEPT !.room = TRUE]
    OBVIOUS
  <2>2. s \in Sockets /\ s.open = r.open
    BY <2>1
  <2> QED BY <1>1, <1>6, <2>1, <2>2, PeerActsKeeps DEF Drain
<1> QED BY <1>3, <1>4, <1>5, <1>6

(* A second passes. *)
LEMMA TickKeeps == ASSUME TcpServerIInv, Tick PROVE TcpServerIInv'
<1>1. WorldMoves /\ Sound(m)'
  BY HandleTypes DEF Tick, WorldMoves, OnlyArmed, loopVars, connVars, PollFd
<1>2. Types'
  <2>1. WorldTypes' /\ ClockTypes'
    BY Numbers, HandleTypes DEF Tick, TcpServerIInv, Types, WorldTypes, ClockTypes, MplexType
  <2> QED BY <2>1 DEF Tick, loopVars, connVars, TcpServerIInv, Types, ConnTypes, LoopTypes, SockTypes
<1>3. pc # "init"
  BY DEF Tick
<1> QED BY <1>1, <1>2, <1>3, WorldKeeps

(* SIGINT arrives. *)
LEMMA InterruptKeeps == ASSUME TcpServerIInv, Interrupt PROVE TcpServerIInv'
<1>1. WorldMoves /\ Sound(m)'
  BY HandleTypes DEF Interrupt, WorldMoves, OnlyArmed, loopVars, connVars, PollFd
<1>2. Types'
  BY DEF Interrupt, loopVars, connVars, TcpServerIInv, Types, ConnTypes, LoopTypes, SockTypes, WorldTypes, ClockTypes
<1>3. pc # "init"
  BY DEF Interrupt
<1> QED BY <1>1, <1>2, <1>3, WorldKeeps

(* No step outside the loop disturbs the invariant. *)
LEMMA EnvironmentKeeps == ASSUME TcpServerIInv, Environment PROVE TcpServerIInv'
BY ConnectKeeps, ClientKeeps, TickKeeps, InterruptKeeps DEF Environment

-----------------------------------------------------------------------------
(* The loop where it only moves on. *)
Idle ==
  /\ UNCHANGED <<m, evset, handlers, conn, born, sock, io, nxt, backlog, clients, now, sigint>>
  /\ pc \notin {"init", "settle"} /\ pc' \notin {"init", "settle"}
  /\ alarm' \in BOOLEAN
  /\ evset = {}

(* A step of the loop between two handlers, which touches no handle. *)
LEMMA IdleKeeps ==
  ASSUME TcpServerIInv, Idle, Serving' = Serving, Running' => Running,
         LoopTypes', CursorOnReady', InTime'
  PROVE  TcpServerIInv'
<1>1. Calm
  BY OnlyArmedCalm DEF OnlyArmed, Idle
<1>2. Objects' /\ Owners' /\ Registrations' /\ Lockstep'
  BY <1>1, CalmKeeps DEF Idle
<1>3. Types'
  BY DEF Idle, TcpServerIInv, Types, ConnTypes, SockTypes, WorldTypes, ClockTypes
<1>4. Untried' /\ Settling' /\ Pending'
  BY DEF Idle, Untried, Settling, Pending
<1>5. Sound(m)'
  BY HandleTypes DEF Idle
<1>6. Live' = Live
  BY DEF Live, Idle
<1>7. WakeupKept'
  BY <1>6 DEF TcpServerIInv, WakeupKept, Idle, PollFd, HandleOf
<1>8. Lives'
  BY <1>6 DEF TcpServerIInv, Lives, Idle, HandleOf, TimedOut
<1> QED BY <1>2, <1>3, <1>4, <1>5, <1>7, <1>8 DEF TcpServerIInv

(* What is due has been noticed by the end of run_timer. *)
LEMMA NothingLeftDue ==
  ASSUME TcpServerIInv, Due(m) = {}
  PROVE  \A e \in m.timers : m.looptime < e[1]
<1>1. m.timers \in SUBSET ((Nat \ {0}) \X Slots) /\ m.looptime \in Nat
  BY HandleTypes DEF MplexType
<1>2. ASSUME NEW e \in m.timers, e[1] <= m.looptime
      PROVE  FALSE
  <2> DEFINE T == {f[1] : f \in m.timers}
  <2>1. T \subseteq Nat /\ T # {}
    BY <1>1, <1>2
  <2>2. PICK x \in T : \A y \in T : x <= y
    BY <2>1, LeastElement
  <2>3. PICK f \in m.timers : f[1] = x
    BY <2>2
  <2>4. f[1] <= e[1] /\ f[1] \in Nat /\ e[1] \in Nat
    BY <1>1, <2>2, <2>3
  <2>5. f \in Due(m)
    BY <1>1, <1>2, <2>2, <2>3, <2>4 DEF Due
  <2> QED BY <2>5
<1>3. \A e \in m.timers : e[1] \in Nat
  BY <1>1
<1> QED BY <1>1, <1>2, <1>3

(* run_timer is over (mplex-io.cpp:118). *)
LEMMA FinishRunTimerKeeps == ASSUME TcpServerIInv, FinishRunTimer PROVE TcpServerIInv'
<1>1. Idle /\ Serving' = Serving /\ Running' /\ Running
  BY DEF FinishRunTimer, Idle, connVars, worldVars, TcpServerIInv, Pending, Serving, Running, Live
<1>2. LoopTypes' /\ CursorOnReady'
  BY DEF FinishRunTimer, TcpServerIInv, Types, LoopTypes, CursorOnReady
<1>3. InTime'
  <2>1. ASSUME NEW h \in Live
        PROVE  TimedOut(h) \/ m.looptime < born[h] + Timeout
    <3>1. <<born[h] + Timeout, HandleOf(h)>> \in m.timers \/ TimedOut(h)
      BY <1>1 DEF TcpServerIInv, Lives
    <3> QED BY <3>1, NothingLeftDue DEF FinishRunTimer
  <2>2. DueNoticed'
    BY <2>1 DEF DueNoticed, FinishRunTimer, connVars, Live, TimedOut, Enabled, HandleOf
  <2> QED BY <2>2 DEF InTime, FinishRunTimer
<1> QED BY <1>1, <1>2, <1>3, IdleKeeps

(* epoll_wait fails (mplex-epoll.cpp:32). *)
LEMMA WaitFailsKeeps == ASSUME TcpServerIInv, WaitFails PROVE TcpServerIInv'
<1>1. Idle /\ Serving' = Serving /\ ~Running'
  <2>1. \A h \in Live : 0 <= h
    BY LiveFacts, HandleTypes
  <2> QED BY <2>1 DEF WaitFails, Idle, connVars, worldVars, TcpServerIInv, Pending, Types, WorldTypes, Serving, Running, Live
<1>2. LoopTypes' /\ CursorOnReady' /\ InTime'
  BY DEF WaitFails, TcpServerIInv, Types, LoopTypes, CursorOnReady, InTime
<1> QED BY <1>1, <1>2, IdleKeeps

(* All events have been collected (mplex-epoll.cpp:37). *)
LEMMA FinishWaitKeeps == ASSUME TcpServerIInv, FinishWait PROVE TcpServerIInv'
<1>1. Idle /\ Serving' = Serving /\ Running' /\ Running
  BY DEF FinishWait, Idle, connVars, worldVars, TcpServerIInv, Types, WorldTypes, Serving, Running, Live
<1>2. LoopTypes' /\ CursorOnReady'
  BY DEF FinishWait, TcpServerIInv, Types, LoopTypes, CursorOnReady
<1>3. InTime'
  <2>1. NoneDue => DueNoticed'
    BY DEF NoneDue, DueNoticed, FinishWait, connVars, Live, TimedOut, Enabled, HandleOf
  <2> QED BY <2>1 DEF TcpServerIInv, InTime, FinishWait, worldVars
<1> QED BY <1>1, <1>2, <1>3, IdleKeeps

(* A time out that has been noticed has its handle on the ring READY. *)
LEMMA DueOnReady ==
  ASSUME TcpServerIInv, Running, NEW h \in Live, TimedOut(h)
  PROVE  HandleOf(h) \in Slots /\ m.ring.home[HandleOf(h)] = READY
<1>1. PICK id : id = HandleOf(h)
  OBVIOUS
<1>2. id \in Slots /\ m.state[id] # FREE /\ m.interest[id] # {}
  BY <1>1, Held, RunningServes DEF Registered
<1>3. HandleOK(m, id, m.ring.home[id])
  BY <1>2, HandleTypes DEF Sound
<1>4. Enabled(m, id) # {}
  BY <1>1 DEF TimedOut
<1> QED BY <1>1, <1>2, <1>3, <1>4 DEF HandleOK, Heads

(* READY is linked from its head and back. *)
LEMMA ReadyRing ==
  ASSUME TcpServerIInv
  PROVE  /\ READY \in Nodes /\ m.ring.home[READY] = READY /\ READY \notin Slots
         /\ \A i \in Nodes : /\ m.ring.next[i] \in Nodes /\ m.ring.prev[i] \in Nodes
                             /\ m.ring.home[m.ring.next[i]] = m.ring.home[i]
                             /\ m.ring.home[m.ring.prev[i]] = m.ring.home[i]
                             /\ m.ring.next[m.ring.prev[i]] = i
                             /\ m.ring.prev[m.ring.next[i]] = i
<1>1. WellLinked(m.ring, Nodes) /\ \A h \in Heads : m.ring.home[h] = h
  BY HandleTypes DEF RingOK
<1>2. READY \in Nodes /\ READY \in Heads /\ READY \notin Slots
  BY NodesFacts DEF Heads
<1>3. \A i \in Nodes : m.ring.next[i] \in Nodes /\ m.ring.prev[i] \in Nodes
  BY <1>1 DEF WellLinked, Links
<1> QED BY <1>1, <1>2, <1>3 DEF WellLinked

(* A pass begins with all of READY ahead, ... *)
LEMMA AllAhead ==
  ASSUME TcpServerIInv, Running
  PROVE  \E A \in SUBSET Slots : Ahead(A, m.ring.next[READY])
<1> DEFINE A == {a \in Slots : m.ring.home[a] = READY}
<1>1. \A h \in Live : TimedOut(h) => HandleOf(h) \in A
  BY DueOnReady
<1>2. ASSUME NEW a \in A
      PROVE  a = m.ring.next[READY] \/ m.ring.prev[a] \in A
  <2>1. a \in Nodes /\ m.ring.prev[a] \in Nodes /\ m.ring.home[m.ring.prev[a]] = READY
        /\ m.ring.next[m.ring.prev[a]] = a
    BY NodesFacts, ReadyRing
  <2>2. CASE m.ring.prev[a] = READY
    BY <2>1, <2>2
  <2>3. CASE m.ring.prev[a] # READY
    BY <2>1, <2>3, ReadyInUse, HandleTypes
  <2> QED BY <2>2, <2>3
<1>3. Ahead(A, m.ring.next[READY])
  BY <1>1, <1>2 DEF Ahead
<1> QED BY <1>3

(* ... leaves behind only what it has been at, ... *)
LEMMA NextAhead ==
  ASSUME TcpServerIInv, NEW A \in SUBSET Slots, Ahead(A, cur)
  PROVE  \A a \in A \ {cur} : /\ m.ring.home[a] = READY
                              /\ a = m.ring.next[cur] \/ m.ring.prev[a] \in A \ {cur}
<1> SUFFICES ASSUME NEW a \in A \ {cur}
             PROVE  /\ m.ring.home[a] = READY
                    /\ a = m.ring.next[cur] \/ m.ring.prev[a] \in A \ {cur}
  OBVIOUS
<1>1. m.ring.home[a] = READY /\ m.ring.prev[a] \in A
  BY DEF Ahead
<1>2. m.ring.next[m.ring.prev[a]] = a
  BY NodesFacts, ReadyRing
<1> QED BY <1>1, <1>2

(* ... and nothing at the end. *)
LEMMA NoneAhead ==
  ASSUME TcpServerIInv, NEW A \in SUBSET Slots, Ahead(A, READY)
  PROVE  A = {}
<1>1. \A a \in A : m.ring.prev[a] \in A
  BY ReadyRing DEF Ahead
<1>2. A \in SUBSET (Nodes \ Heads) /\ Rooted(m.ring, Nodes, Heads)
  BY NodesFacts, HandleTypes DEF RingOK
<1> QED BY <1>1, <1>2 DEF Rooted

(* The pass over READY is over (tcpserver.cpp:115). *)
LEMMA EndOfPassKeeps == ASSUME TcpServerIInv, EndOfPass PROVE TcpServerIInv'
<1>1. Idle /\ Serving' = Serving /\ Running' /\ Running
  BY DEF EndOfPass, Idle, connVars, worldVars, TcpServerIInv, Pending, Types, WorldTypes, Serving, Running, Live
<1>2. LoopTypes' /\ CursorOnReady'
  BY DEF EndOfPass, TcpServerIInv, Types, LoopTypes, CursorOnReady
<1>3. InTime'
  <2> SUFFICES ASSUME ~sigint PROVE InTime'
    BY DEF EndOfPass, worldVars, InTime
  <2>1. cur = READY /\ DueNoticed /\ \E A \in SUBSET Slots : Ahead(A, cur)
    BY DEF EndOfPass, TcpServerIInv, InTime
  <2>2. Ahead({}, READY)
    BY <2>1, NoneAhead
  <2>3. NoneDue
    BY <2>1, <2>2 DEF NoneDue, DueNoticed, Ahead
  <2>4. NoneDue'
    BY <2>3 DEF NoneDue, EndOfPass, connVars, Live, TimedOut, Enabled, HandleOf
  <2> QED BY <2>4 DEF InTime, EndOfPass
<1> QED BY <1>1, <1>2, <1>3, IdleKeeps

(* The pass over READY begins, or the signal ends the loop. *)
LEMMA CheckReadyKeeps == ASSUME TcpServerIInv, CheckReady PROVE TcpServerIInv'
<1>1. Idle /\ Running
  BY DEF CheckReady, Idle, connVars, worldVars, TcpServerIInv, Pending, Types, WorldTypes, Running
<1>2. CASE sigint
  <2>1. pc' = "shutdown" /\ cur' = 0
    BY <1>2 DEF CheckReady, Interrupted
  <2>2. Serving' = Serving
    <3>1. \A h \in Live : 0 <= h
      BY LiveFacts, HandleTypes
    <3> QED BY <1>1, <2>1, <3>1 DEF Idle, Serving, Running, Live
  <2>3. LoopTypes' /\ CursorOnReady' /\ InTime' /\ ~Running'
    BY <1>1, <2>1 DEF Idle, TcpServerIInv, Types, LoopTypes, CursorOnReady, InTime, Running
  <2> QED BY <1>1, <2>2, <2>3, IdleKeeps
<1>3. CASE ~sigint /\ EmptyRing(m.ring, READY)
  <2>1. pc' = "top" /\ cur' = cur
    BY <1>3 DEF CheckReady, Interrupted
  <2>2. Serving' = Serving /\ Running'
    BY <1>1, <2>1 DEF Idle, Serving, Running, Live
  <2>3. LoopTypes' /\ CursorOnReady'
    BY <1>1, <2>1 DEF Idle, TcpServerIInv, Types, LoopTypes, CursorOnReady
  <2>4. ASSUME NEW h \in Live, TimedOut(h)
        PROVE  FALSE
    <3>1. HandleOf(h) \in Slots /\ m.ring.home[HandleOf(h)] = READY
      BY <1>1, <2>4, DueOnReady
    <3>2. /\ WellLinked(m.ring, Nodes) /\ Rooted(m.ring, Nodes, Heads) /\ Heads \subseteq Nodes
          /\ \A g \in Heads : m.ring.home[g] = g
      BY NodesFacts, HandleTypes DEF RingOK
    <3>3. READY \in Heads /\ HandleOf(h) \in Nodes
      BY <3>1, NodesFacts DEF Heads
    <3>4. HandleOf(h) = READY
      BY <1>3, <3>1, <3>2, <3>3, RootedEmpty
    <3> QED BY <3>1, <3>4, ReadyRing
  <2>5. InTime'
    <3>1. NoneDue
      BY <1>3, <2>4 DEF NoneDue, DueNoticed, TcpServerIInv, InTime, CheckReady
    <3>2. NoneDue'
      BY <1>1, <3>1 DEF NoneDue, Idle, Live, TimedOut, Enabled, HandleOf
    <3> QED BY <2>1, <3>2 DEF InTime
  <2> QED BY <1>1, <2>2, <2>3, <2>5, IdleKeeps
<1>4. CASE ~sigint /\ ~EmptyRing(m.ring, READY)
  <2>1. pc' = "scan" /\ cur' = m.ring.next[READY]
    BY <1>4 DEF CheckReady, Interrupted
  <2>2. Serving' = Serving /\ Running'
    BY <1>1, <2>1 DEF Idle, Serving, Running, Live
  <2>3. cur' \in Nodes /\ m.ring.home[cur'] = READY /\ cur' \in Nat
    BY <2>1, ReadyRing, Numbers
  <2>4. LoopTypes' /\ CursorOnReady'
    BY <1>1, <2>1, <2>3 DEF Idle, TcpServerIInv, Types, LoopTypes, CursorOnReady
  <2>5. PICK A \in SUBSET Slots : Ahead(A, cur')
    BY <1>1, <2>1, AllAhead
  <2>6. DueNoticed
    BY <1>4 DEF TcpServerIInv, InTime, CheckReady
  <2>7. DueNoticed'
    BY <1>1, <2>6 DEF DueNoticed, Idle, Live, TimedOut, Enabled, HandleOf
  <2>8. Ahead(A, cur)'
    BY <1>1, <2>5 DEF Ahead, Idle, Live, TimedOut, Enabled, HandleOf
  <2>9. InTime'
    BY <2>1, <2>7, <2>8 DEF InTime
  <2> QED BY <1>1, <2>2, <2>4, <2>9, IdleKeeps
<1> QED BY <1>2, <1>3, <1>4

(* A handle with nothing to do is passed over. *)
LEMMA SkipHandleKeeps == ASSUME TcpServerIInv, SkipHandle PROVE TcpServerIInv'
<1>1. Idle /\ Serving' = Serving /\ Running' /\ Running
  BY DEF SkipHandle, Scanning, Advance, Idle, connVars, worldVars, TcpServerIInv, Pending, Types, WorldTypes, Serving, Running, Live
<1>2. cur \in Nodes /\ m.ring.home[cur] = READY /\ pc = "scan" /\ pc' = "scan" /\ cur' = m.ring.next[cur]
  BY DEF SkipHandle, Scanning, Advance, TcpServerIInv, CursorOnReady
<1>3. cur' \in Nodes /\ m.ring.home[cur'] = READY /\ cur' \in Nat
  BY <1>2, ReadyRing, Numbers
<1>4. LoopTypes' /\ CursorOnReady'
  BY <1>1, <1>2, <1>3 DEF Idle, TcpServerIInv, Types, LoopTypes, CursorOnReady
<1>5. InTime'
  <2> SUFFICES ASSUME ~sigint PROVE InTime'
    BY <1>1 DEF Idle, InTime
  <2>1. PICK A \in SUBSET Slots : Ahead(A, cur)
    BY <1>2 DEF TcpServerIInv, InTime
  <2>2. TIMER \notin Enabled(m, cur)
    BY DEF SkipHandle, DispatchAccept, TIMER
  <2>3. PICK B \in SUBSET Slots : B = A \ {cur}
    OBVIOUS
  <2>4. Ahead(B, cur')
    BY <1>2, <2>1, <2>2, <2>3, NextAhead DEF Ahead, TimedOut
  <2>7. Ahead(B, cur)'
    BY <1>1, <2>4 DEF Ahead, Idle, Live, TimedOut, Enabled, HandleOf
  <2>5. DueNoticed
    BY <1>2 DEF TcpServerIInv, InTime
  <2>6. DueNoticed'
    BY <1>1, <2>5 DEF DueNoticed, Idle, Live, TimedOut, Enabled, HandleOf
  <2> QED BY <1>2, <2>7, <2>6 DEF InTime
<1> QED BY <1>1, <1>4, <1>5, IdleKeeps

(* shutdown() is over. *)
LEMMA StopKeeps == ASSUME TcpServerIInv, Stop PROVE TcpServerIInv'
<1>1. cur \notin Handlers /\ cur \in Nat /\ cur' = cur /\ pc = "shutdown" /\ pc' = "stopped"
  BY DEF Stop, AllClosed, TcpServerIInv, Types, LoopTypes
<1>2. Idle /\ ~Running'
  BY DEF Stop, Idle, connVars, worldVars, TcpServerIInv, Pending, Types, WorldTypes, Running
<1>3. Serving' = Serving
  <2>1. \A h \in Live : ~(cur <= h)
    BY <1>1, Numbers DEF Live, Handlers
  <2> QED BY <1>1, <1>2, <2>1 DEF Serving, Running, Live, Idle
<1>4. LoopTypes' /\ CursorOnReady' /\ InTime'
  BY <1>1, <1>2 DEF Idle, TcpServerIInv, Types, LoopTypes, CursorOnReady, InTime
<1> QED BY <1>2, <1>3, <1>4, IdleKeeps

-----------------------------------------------------------------------------
(* The loops of run_timer and wait: handles receive events. *)
Gather ==
  /\ Calm
  /\ UNCHANGED <<cur, nxt, io, sock, backlog, clients, now, sigint, alarm>>
  /\ pc \in {"top", "timer", "wait"} /\ pc' \in {"timer", "wait"}

(* A step of run_timer or wait that notes events at handles. *)
LEMMA GatherKeeps ==
  ASSUME TcpServerIInv, Gather, Sound(m)', ClockTypes', Pending', WakeupKept', Lives', InTime'
  PROVE  TcpServerIInv'
<1>1. Running /\ Running'
  BY DEF Gather, Running
<1>2. Serving' = Serving
  BY <1>1, RunningServes, BooksLive, CalmBooks DEF Gather, Serving
<1>3. Objects' /\ Owners' /\ Registrations' /\ Lockstep'
  BY <1>1, <1>2, CalmKeeps DEF Gather
<1>4. Types'
  BY DEF Gather, Calm, TcpServerIInv, Types, ConnTypes, LoopTypes, SockTypes, WorldTypes
<1>5. Untried' /\ Settling' /\ CursorOnReady'
  BY DEF Gather, Untried, Settling, CursorOnReady
<1> QED BY <1>3, <1>4, <1>5 DEF TcpServerIInv

(* A wakeup passes from the ready list to evset and from there to events. *)
Passed ==
  /\ \A id \in Slots :
       (id \in m.armed /\ m.interest[id] \cap PollFd(m.fd[id]) # {}) =>
         \/ id \in m'.armed
         \/ <<id, m.interest[id] \cap PollFd(m.fd[id])>> \in evset'
  /\ \A e \in evset :
       \/ e \in evset'
       \/ e[2] \cap m.ev_mask[e[1]] # {} =>
            m'.ring.home[e[1]] = READY /\ e[2] \subseteq m'.events[e[1]]

(* What is being collected stays on its way to its connection. *)
LEMMA PassedKeeps == ASSUME TcpServerIInv, Gather, Passed PROVE WakeupKept'
<1>1. Live' = Live /\ conn' = conn
  BY BooksLive, CalmBooks DEF Gather, Calm
<1> SUFFICES ASSUME NEW h \in Live, io.h # h, NEW id, id = HandleOf(h),
                    PollFd(m.fd[id]) \cap conn[h].iowait # {}
             PROVE  \/ m'.ring.home[id] = READY /\ Enabled(m, id)' \cap IO # {}
                    \/ id \in m'.armed /\ m'.interest[id] \cap PollFd(m.fd[id]) # {}
                    \/ \E e \in evset' : e[1] = id /\ e[2] \cap conn[h].iowait # {}
  <2>1. ASSUME NEW h \in Live
        PROVE  HandleOf(h)' = HandleOf(h) /\ m'.fd[HandleOf(h)] = m.fd[HandleOf(h)]
    <3>1. HandleOf(h) \in Slots
      BY Held, RunningServes DEF Gather, Running
    <3> QED BY <1>1, <3>1 DEF Gather, Calm, HandleOf
  <2>2. \A c : PollFd(c)' = PollFd(c)
    BY DEF Gather, PollFd
  <2> QED BY <1>1, <2>1, <2>2 DEF WakeupKept, Gather
<1>2. id \in Slots /\ Registered(h, id)
  BY Held, RunningServes DEF Gather, Running
<1>3. /\ m.interest[id] \cap IO = conn[h].iowait /\ m.ev_mask[id] \cap IO = conn[h].iowait
      /\ m'.interest[id] = m.interest[id] /\ m'.ev_mask[id] = m.ev_mask[id]
      /\ m.events[id] \subseteq m'.events[id]
      /\ m.ring.home[id] = READY => m'.ring.home[id] = READY
  BY <1>2, NodesFacts DEF Registered, Gather, Calm
<1>4. \/ m.ring.home[id] = READY /\ Enabled(m, id) \cap IO # {}
      \/ id \in m.armed /\ m.interest[id] \cap PollFd(m.fd[id]) # {}
      \/ \E e \in evset : e[1] = id /\ e[2] \cap conn[h].iowait # {}
  BY DEF TcpServerIInv, WakeupKept, Gather, Running
<1>5. CASE m.ring.home[id] = READY /\ Enabled(m, id) \cap IO # {}
  BY <1>3, <1>5 DEF Enabled
<1>6. CASE id \in m.armed /\ m.interest[id] \cap PollFd(m.fd[id]) # {}
  <2>1. CASE id \in m'.armed
    BY <1>3, <1>6, <2>1
  <2>2. CASE <<id, m.interest[id] \cap PollFd(m.fd[id])>> \in evset'
    <3>1. (m.interest[id] \cap PollFd(m.fd[id])) \cap conn[h].iowait # {}
      BY <1>3
    <3> QED BY <2>2, <3>1
  <2> QED BY <1>2, <1>6, <2>1, <2>2 DEF Passed
<1>7. CASE \E e \in evset : e[1] = id /\ e[2] \cap conn[h].iowait # {}
  <2>1. PICK e \in evset : e[1] = id /\ e[2] \cap conn[h].iowait # {}
    BY <1>7
  <2>2. CASE e \in evset'
    BY <2>1, <2>2
  <2>3. CASE e \notin evset'
    <3>1. e[2] \cap m.ev_mask[id] # {} /\ (e[2] \cap m.ev_mask[id]) \cap IO # {}
      BY <1>3, <2>1
    <3>2. m'.ring.home[id] = READY /\ e[2] \subseteq m'.events[id]
      BY <2>1, <2>3, <3>1 DEF Passed
    <3> QED BY <1>3, <3>1, <3>2 DEF Enabled
  <2> QED BY <2>2, <2>3
<1> QED BY <1>4, <1>5, <1>6, <1>7

(* run_timer looks for the time outs that are due. *)
LEMMA StartRunTimerKeeps == ASSUME TcpServerIInv, StartRunTimer PROVE TcpServerIInv'
<1>1. Sound(m) /\ now \in Nat
  BY HandleTypes, Numbers DEF Types, WorldTypes
<1>2. PICK t : t = ReadClock(m, now)
  OBVIOUS
<1>3. m' = t
  BY <1>2 DEF StartRunTimer
<1>4. /\ Sound(t) /\ \A i \in Slots : Untouched(m, t, i)
      /\ t.ring = m.ring /\ t.timers = m.timers /\ t.looptime = now
  BY <1>1, <1>2, ReadClockSound, ReadClockEffect
<1>5. Sound(m)'
  BY <1>3, <1>4
<1>6. Gather
  BY <1>3, <1>4 DEF StartRunTimer, connVars, worldVars, Gather, Calm, Untouched, SameFreeRing
<1>7. ClockTypes' /\ Pending'
  <2>1. evset' = evset /\ evset = {}
    BY DEF StartRunTimer, TcpServerIInv, Pending
  <2> QED BY <1>1, <1>3, <1>4, <2>1 DEF StartRunTimer, worldVars, TcpServerIInv, Types, ClockTypes, Pending
<1>8. WakeupKept'
  <2>1. Passed
    BY <1>3, <1>4 DEF Passed, Untouched, StartRunTimer
  <2> QED BY <1>6, <2>1, PassedKeeps
<1>9. Lives'
  <2>1. ASSUME NEW h \in Live
        PROVE  <<born[h] + Timeout, HandleOf(h)>> \in m'.timers \/ TimedOut(h)'
    <3>1. HandleOf(h) \in Slots
      BY <1>6, Held, RunningServes DEF Gather, Running
    <3>2. <<born[h] + Timeout, HandleOf(h)>> \in m.timers \/ TimedOut(h)
      BY <1>6 DEF TcpServerIInv, Lives, Gather, Running
    <3> QED BY <1>3, <1>4, <1>6, <3>1, <3>2 DEF Untouched, TimedOut, Enabled, HandleOf, Gather, Calm
  <2> QED BY <1>6, <2>1, BooksLive, CalmBooks DEF Lives, Gather, Calm, HandleOf
<1>10. InTime'
  BY DEF InTime, StartRunTimer
<1> QED BY <1>5, <1>6, <1>7, <1>8, <1>9, <1>10, GatherKeeps

(* A handle that receives events is otherwise as it was. *)
LEMMA ReceivesCalm ==
  ASSUME TcpServerIInv, NEW id \in Slots, NEW events, NEW t, m' = t,
         Receives(m, t, id, events),
         UNCHANGED <<handlers, conn, born, sock>>
  PROVE  Calm
<1>1. Sound(m)
  BY HandleTypes
<1>2. SameFreeRing(m.ring, t.ring)
  <2>1. CASE t.ring = m.ring
    BY <2>1 DEF SameFreeRing
  <2>2. CASE m.state[id] = WAIT /\ t.ring = Relink(m.ring, id, READY)
    <3>1. m.state[id] # FREE /\ READY \in {WAIT, READY}
      BY <2>2, NodesFacts
    <3> QED BY <1>1, <2>2, <3>1, BusyMoves
  <2> QED BY <2>1, <2>2 DEF Receives
<1>3. \A i \in Nodes : m.ring.home[i] = READY => t.ring.home[i] = READY
  <2>1. CASE t.ring = m.ring
    BY <2>1
  <2>2. CASE t.ring = Relink(m.ring, id, READY)
    <3>1. /\ WellLinked(m.ring, Nodes) /\ id \in Nodes /\ READY \in Nodes /\ id # READY
          /\ m.ring.home[READY] = READY
      BY <1>1, NodesFacts, ReadyRing DEF Sound, RingOK
    <3> QED BY <2>2, <3>1, RelinkLinks
  <2> QED BY <2>1, <2>2 DEF Receives
<1>4. \A i \in Slots : /\ t.fd[i] = m.fd[i] /\ t.handler_id[i] = m.handler_id[i]
                       /\ t.ev_permit[i] = m.ev_permit[i] /\ t.state[i] = m.state[i]
                       /\ t.ev_mask[i] = m.ev_mask[i] /\ t.interest[i] = m.interest[i]
                       /\ m.events[i] \subseteq t.events[i]
  BY DEF Receives, OnlyTouches, Untouched
<1> QED BY <1>2, <1>3, <1>4 DEF Calm

(* run_timer notes one time out at its handle. *)
LEMMA ExpireEntryKeeps == ASSUME TcpServerIInv, ExpireEntry PROVE TcpServerIInv'
<1>1. Sound(m) /\ pc = "timer" /\ pc' = pc /\ sock' = sock /\ born' = born
  BY HandleTypes DEF ExpireEntry, loopVars, connVars
<1>2. PICK e \in Due(m) : m' = Expire(m, e)
  BY DEF ExpireEntry
<1>3. PICK t, id : t = Expire(m, e) /\ id = e[2]
  OBVIOUS
<1>4. e \in m.timers /\ m' = t
  BY <1>2, <1>3 DEF Due
<1>5. /\ Sound(t) /\ id \in Slots /\ Receives(m, t, id, {TIMER}) /\ t.timers = m.timers \ {e}
  BY <1>1, <1>3, <1>4, ExpireSound, ExpireEffect
<1>6. Calm
  BY <1>4, <1>5, ReceivesCalm DEF ExpireEntry, connVars
<1>7. Gather /\ Sound(m)'
  BY <1>1, <1>4, <1>5, <1>6 DEF ExpireEntry, loopVars, connVars, worldVars, Gather
<1>8. ClockTypes' /\ Pending'
  <2>1. evset' = evset /\ evset = {} /\ now' = now
    BY <1>1 DEF ExpireEntry, worldVars, TcpServerIInv, Pending
  <2> QED BY <1>4, <1>5, <2>1 DEF TcpServerIInv, Types, ClockTypes, Pending, Receives
<1>9. WakeupKept'
  <2>1. Passed
    BY <1>1, <1>4, <1>5 DEF Passed, Receives, ExpireEntry
  <2> QED BY <1>7, <2>1, PassedKeeps
<1>10. Lives'
  <2>1. ASSUME NEW h \in Live
        PROVE  <<born[h] + Timeout, HandleOf(h)>> \in m'.timers \/ TimedOut(h)'
    <3>1. PICK i \in Slots : i = HandleOf(h) /\ Registered(h, i)
      BY <1>1, Held, RunningServes DEF Running
    <3>2. HandleOf(h)' = i
      BY <1>6, <3>1 DEF Calm, HandleOf
    <3>3. <<born[h] + Timeout, i>> \in m.timers \/ TIMER \in m.events[i] \cap m.ev_mask[i]
      BY <1>1, <3>1 DEF TcpServerIInv, Lives, Running, TimedOut, Enabled
    <3>4. TIMER \in t.ev_mask[i] /\ m.events[i] \subseteq t.events[i]
      BY <1>4, <1>6, <3>1 DEF Registered, Calm
    <3>5. CASE e = <<born[h] + Timeout, i>>
      <4>1. TIMER \in t.events[i]
        BY <1>3, <1>5, <3>5 DEF Receives
      <4> QED BY <1>4, <3>2, <3>4, <4>1 DEF TimedOut, Enabled
    <3>6. CASE e # <<born[h] + Timeout, i>>
      <4>1. CASE TIMER \in t.events[i]
        BY <1>4, <3>2, <3>4, <4>1 DEF TimedOut, Enabled
      <4>2. CASE TIMER \notin t.events[i]
        BY <1>1, <1>4, <1>5, <3>1, <3>3, <3>4, <3>6, <4>2
      <4> QED BY <4>1, <4>2
    <3> QED BY <3>5, <3>6
  <2>2. Live' = Live /\ \A h : HandleOf(h)' = HandleOf(h)
    BY <1>6, BooksLive, CalmBooks DEF Calm, HandleOf
  <2> QED BY <1>1, <2>1, <2>2 DEF Lives
<1>11. InTime'
  BY <1>1 DEF InTime
<1> QED BY <1>7, <1>8, <1>9, <1>10, <1>11, GatherKeeps

(* epoll_wait returns events. *)
LEMMA StartWaitKeeps == ASSUME TcpServerIInv, StartWait PROVE TcpServerIInv'
<1>1. Sound(m) /\ pc = "top" /\ pc' = "wait" /\ sock' = sock /\ born' = born /\ conn' = conn
  BY HandleTypes DEF StartWait, connVars
<1>2. PICK A : A = {id \in Reported(m, Ready) : EDGE \notin m.interest[id]}
  OBVIOUS
<1>3. m' = [m EXCEPT !.armed = A]
  BY <1>2 DEF StartWait, EpollWait
<1>4. \A id \in m.armed : id \in Slots /\ m.interest[id] # {}
  BY <1>1, FieldTypes DEF Sound, RingOK, HandleOK
<1>5. A \in SUBSET Slots /\ \A id \in A : m.interest[id] # {}
  BY <1>2, <1>4 DEF Reported
<1>6. Sound(m)' /\ OnlyArmed
  BY <1>3, <1>5, ArmedSteps
<1>7. Calm
  BY <1>1, <1>6, OnlyArmedCalm DEF StartWait, connVars
<1>8. Gather
  BY <1>1, <1>7 DEF StartWait, worldVars, Gather
<1>9. \A id \in m.armed : Polled(m, Ready, id) = m.interest[id] \cap PollFd(m.fd[id])
  BY DEF Polled, Ready
<1>10. ClockTypes' /\ Pending'
  <2>1. \A c : PollFd(c) \subseteq IO
    BY DEF PollFd, IO
  <2>2. \A e \in evset' : /\ e[1] \in Slots /\ m.interest[e[1]] # {}
                          /\ e \in Slots \X SUBSET IO
    BY <1>4, <1>9, <2>1 DEF StartWait, Reported
  <2> QED BY <1>1, <1>6, <2>2 DEF StartWait, worldVars, OnlyArmed, TcpServerIInv, Types, ClockTypes, Pending
<1>11. WakeupKept'
  <2>1. \A id \in m.armed : m.interest[id] \cap PollFd(m.fd[id]) # {} =>
                              <<id, m.interest[id] \cap PollFd(m.fd[id])>> \in evset'
    BY <1>9 DEF StartWait, Reported
  <2>2. evset = {}
    BY <1>1 DEF TcpServerIInv, Pending
  <2>3. Passed
    BY <2>1, <2>2 DEF Passed
  <2> QED BY <1>8, <2>3, PassedKeeps
<1>12. Lives' /\ InTime'
  <2>1. Live' = Live
    BY <1>7, BooksLive, CalmBooks
  <2>2. /\ m'.timers = m.timers /\ m'.looptime = m.looptime /\ sigint' = sigint
        /\ m'.events = m.events /\ m'.ev_mask = m.ev_mask
    BY <1>6 DEF OnlyArmed, StartWait, worldVars
  <2>3. Lives'
    BY <1>1, <2>1, <2>2 DEF TcpServerIInv, Lives, Running, TimedOut, Enabled, HandleOf
  <2>4. NoneDue => NoneDue'
    BY <1>1, <2>1, <2>2 DEF NoneDue, TimedOut, Enabled, HandleOf
  <2> QED BY <1>1, <2>2, <2>3, <2>4 DEF TcpServerIInv, InTime
<1> QED BY <1>6, <1>8, <1>10, <1>11, <1>12, GatherKeeps

(* wait notes one event at its handle. *)
LEMMA CollectEventKeeps == ASSUME TcpServerIInv, CollectEvent PROVE TcpServerIInv'
<1>1. Sound(m) /\ pc = "wait" /\ pc' = pc /\ sock' = sock /\ born' = born /\ conn' = conn
  BY HandleTypes DEF CollectEvent, loopVars, connVars
<1>2. PICK e \in evset : m' = Collect(m, e[1], e[2]) /\ evset' = evset \ {e}
  BY DEF CollectEvent
<1>3. PICK id, ev, t : id = e[1] /\ ev = e[2] /\ t = Collect(m, id, ev)
  OBVIOUS
<1>4. id \in Slots /\ ev \in SUBSET IO /\ m.interest[id] # {} /\ m' = t
  BY <1>2, <1>3 DEF TcpServerIInv, Pending
<1>5. /\ Sound(t) /\ Receives(m, t, id, ev) /\ t.timers = m.timers
      /\ (m.state[id] = WAIT /\ Enabled(t, id) # {}) => t.ring = Relink(m.ring, id, READY)
  BY <1>1, <1>3, <1>4, CollectSound, CollectEffect
<1>6. Calm
  BY <1>4, <1>5, ReceivesCalm DEF CollectEvent, connVars
<1>7. Gather /\ Sound(m)'
  BY <1>1, <1>4, <1>5, <1>6 DEF CollectEvent, loopVars, connVars, worldVars, Gather
<1>8. ClockTypes' /\ Pending'
  <2>1. now' = now /\ evset' \subseteq evset
    BY <1>2 DEF CollectEvent, worldVars
  <2>2. \A i \in Slots : m'.interest[i] = m.interest[i]
    BY <1>6 DEF Calm
  <2> QED BY <1>1, <1>4, <1>5, <2>1, <2>2 DEF TcpServerIInv, Types, ClockTypes, Pending, Receives
<1>9. WakeupKept'
  <2>1. ASSUME ev \cap m.ev_mask[id] # {}
        PROVE  t.ring.home[id] = READY /\ ev \subseteq t.events[id]
    <3>1. ev \subseteq t.events[id] /\ t.ev_mask = m.ev_mask
      BY <1>5 DEF Receives
    <3>2. Enabled(t, id) # {}
      BY <2>1, <3>1 DEF Enabled
    <3>3. HandleOK(m, id, m.ring.home[id]) /\ m.state[id] \in {FREE, WAIT, READY}
      BY <1>1, <1>4, NodesFacts, FieldTypes DEF Sound, RingOK
    <3>4. CASE m.state[id] = WAIT
      <4>1. /\ WellLinked(m.ring, Nodes) /\ id \in Nodes /\ READY \in Nodes /\ id # READY
            /\ m.ring.home[READY] = READY
        BY <1>1, <1>4, NodesFacts, ReadyRing DEF Sound, RingOK
      <4> QED BY <1>5, <3>1, <3>2, <3>4, <4>1, RelinkLinks
    <3>5. CASE m.state[id] = READY
      <4>1. m.ring.home[id] = READY
        BY <3>3, <3>5 DEF HandleOK
      <4> QED BY <1>4, <1>6, <3>1, <4>1, NodesFacts DEF Calm
    <3> QED BY <1>4, <3>3, <3>4, <3>5 DEF HandleOK
  <2>2. Passed
    BY <1>2, <1>3, <1>4, <1>5, <2>1 DEF Passed, Receives
  <2> QED BY <1>7, <2>2, PassedKeeps
<1>10. ASSUME NEW h \in Live
       PROVE  /\ HandleOf(h)' = HandleOf(h) /\ HandleOf(h) \in Slots
              /\ TimedOut(h)' <=> TimedOut(h)
  <2>1. HandleOf(h)' = HandleOf(h) /\ HandleOf(h) \in Slots
    BY <1>1, Held, RunningServes DEF Running, HandleOf
  <2>2. /\ TIMER \in t.events[HandleOf(h)] <=> TIMER \in m.events[HandleOf(h)]
        /\ t.ev_mask[HandleOf(h)] = m.ev_mask[HandleOf(h)]
    <3>1. TIMER \notin ev
      BY <1>4 DEF TIMER, IO
    <3> QED BY <1>5, <2>1, <3>1 DEF Receives, OnlyTouches, Untouched
  <2> QED BY <1>4, <2>1, <2>2 DEF TimedOut, Enabled
<1>11. Live' = Live /\ m'.timers = m.timers /\ m'.looptime = m.looptime /\ sigint' = sigint
  BY <1>4, <1>5, <1>6, BooksLive, CalmBooks DEF Receives, CollectEvent, worldVars
<1>12. Lives'
  BY <1>1, <1>10, <1>11 DEF TcpServerIInv, Lives, Running
<1>13. InTime'
  <2>1. NoneDue => NoneDue'
    BY <1>1, <1>10, <1>11 DEF NoneDue
  <2> QED BY <1>1, <1>11, <2>1 DEF TcpServerIInv, InTime
<1> QED BY <1>7, <1>8, <1>9, <1>12, <1>13, GatherKeeps

-----------------------------------------------------------------------------
(* The handler of a connection makes its system call. *)
Sockets == [open : BOOLEAN, rx : 0..MaxRx, room : BOOLEAN,
            peer : {"open", "fin", "reset", "gone"}]

(* In the scan, the handle at the cursor. *)
LEMMA AtCursor ==
  ASSUME TcpServerIInv, Scanning
  PROVE  /\ pc = "scan" /\ Running /\ io = NoIo /\ evset = {} /\ ~sigint
         /\ cur \in Nodes /\ cur \in Slots /\ InUse(m, cur) /\ m.state[cur] # FREE
         /\ m.ring.home[cur] = READY /\ m.ring.next[cur] # cur
         /\ m.ring.next[cur] \in Nodes /\ m.ring.home[m.ring.next[cur]] = READY
         /\ m.ring.next[cur] \in Nat
<1>1. pc = "scan" /\ Running /\ io = NoIo /\ evset = {} /\ ~sigint
  BY DEF Scanning, Running, TcpServerIInv, Types, LoopTypes, Pending
<1>2. cur \in Nodes /\ cur # READY /\ m.ring.home[cur] = READY
  BY <1>1 DEF Scanning, TcpServerIInv, CursorOnReady
<1>3. cur \in Slots /\ InUse(m, cur) /\ m.state[cur] # FREE
  BY <1>2, HandleTypes, ReadyInUse
<1>4. m.ring.next[cur] # cur
  <2>1. /\ WellLinked(m.ring, Nodes) /\ Rooted(m.ring, Nodes, Heads) /\ cur \in Nodes \ Heads
    BY <1>3, NodesFacts, HandleTypes DEF RingOK
  <2> QED BY <2>1, RootedNotAlone
<1> QED BY <1>1, <1>2, <1>3, <1>4, ReadyRing, Numbers

Transferred(h, fd, by, result, s, wait) ==
  /\ by \in {"on_read", "on_write"}
  /\ result \in {"some", "again", "zero", "error", "intr"}
  /\ s \in Sockets /\ s.open = sock[fd].open /\ Direction(wait)
  /\ io' = [by |-> by, h |-> h, result |-> result]
  /\ sock' = [sock EXCEPT ![fd] = s]
  /\ conn' = [conn EXCEPT ![h].iowait = wait]
  /\ result # "some" => wait = conn[h].iowait
  /\ conn[h].iowait = {IF by = "on_read" THEN "READ" ELSE "WRITE"}
  /\ (IF by = "on_read" THEN "READ" ELSE "WRITE") \in m.events[cur]
  /\ result = "again" => PollFd(fd)' \cap conn[h].iowait = {}
  /\ sigint' \in BOOLEAN /\ (sigint => sigint')

(* What a call of read or write on a connection does to its socket. *)
LEMMA IotransferEffect ==
  ASSUME TcpServerIInv, Iotransfer, NEW h, h = m.handler_id[cur], NEW fd, fd = m.fd[cur]
  PROVE  /\ Scanning /\ TIMER \notin Enabled(m, cur)
         /\ h \in Live /\ h \in Connections /\ HandleOf(h) = cur /\ fd \in ConnFds
         /\ m.ev_mask[cur] \cap IO = conn[h].iowait
         /\ \E by, result, s, wait : Transferred(h, fd, by, result, s, wait)
<1>1. Scanning /\ TIMER \notin Enabled(m, cur)
  BY DEF Iotransfer, DispatchRead, DispatchWrite
<1>2. 0 < m.handler_id[cur] \/ "WRITE" \in m.ev_mask[cur]
  BY DEF Iotransfer, DispatchRead, DispatchWrite, Enabled
<1>3. h \in Serving /\ HandleOf(h) = cur
  BY <1>1, <1>2, AtCursor, Whose
<1>4. h \in Live /\ h \in Connections /\ Holds(h, cur) /\ Registered(h, cur) /\ conn[h].handle_id = cur
  BY <1>3, Held
<1>5. io.h # h
  BY <1>1, <1>4, AtCursor, Numbers DEF NoIo, FREE
<1>6. m.ev_mask[cur] \cap IO = conn[h].iowait /\ Direction(conn[h].iowait) /\ fd \in ConnFds
  BY <1>4, <1>5 DEF Registered, Holds
<1>7. PICK by : by = IF DispatchRead THEN "on_read" ELSE "on_write"
  OBVIOUS
<1>8. PICK dir : dir = IF by = "on_read" THEN "READ" ELSE "WRITE"
  OBVIOUS
<1>9. dir \in Enabled(m, cur)
  BY <1>7, <1>8 DEF Iotransfer, DispatchRead, DispatchWrite
<1>10. dir \in m.events[cur] /\ conn[h].iowait = {dir}
  <2>1. dir \in IO
    BY <1>8 DEF IO
  <2> QED BY <1>6, <1>9, <2>1 DEF Enabled, Direction
<1>11. PICK r \in Sockets : r = sock[fd]
  BY <1>6 DEF TcpServerIInv, Types, SockTypes, Sockets
<1>12. /\ h \in Handlers /\ conn \in [Handlers -> [state : {FREE, WAIT}, handle_id : {-1} \cup Slots,
                            iowait : SUBSET IO]]
       /\ sock \in [ConnFds -> Sockets] /\ sigint \in BOOLEAN
  BY <1>4, Numbers DEF TcpServerIInv, Types, ConnTypes, SockTypes, Sockets, WorldTypes
<1> SUFFICES \E b, x, t, w : Transferred(h, fd, b, x, t, w)
  BY <1>1, <1>3, <1>4, <1>6
<1>13. ASSUME NEW result \in {"some", "again", "zero", "error", "intr"}, NEW s \in Sockets,
              s.open = r.open, NEW wait, IoResult(by, result, h, s, wait), Direction(wait),
              result # "some" => wait = conn[h].iowait,
              result = "again" => s = r /\ PollFd(fd) \cap conn[h].iowait = {},
              sigint' \in BOOLEAN /\ (sigint => sigint')
       PROVE  \E b, x, t, w : Transferred(h, fd, b, x, t, w)
  <2>1. by \in {"on_read", "on_write"} /\ conn[h].iowait = {IF by = "on_read" THEN "READ" ELSE "WRITE"}
    BY <1>7, <1>8, <1>10
  <2>2. sock' = [sock EXCEPT ![fd] = s]
    BY <1>4, <1>13 DEF IoResult
  <2>3. result = "again" => PollFd(fd)' \cap conn[h].iowait = {}
    <3> SUFFICES ASSUME result = "again" PROVE PollFd(fd)' = PollFd(fd)
      BY <1>13
    <3>1. sock' = sock
      BY <1>11, <1>12, <1>13, <2>2
    <3>2. fd # ListenFd
      BY <1>6, Numbers
    <3> QED BY <3>1, <3>2 DEF PollFd
  <2>4. Transferred(h, fd, by, result, s, wait)
    BY <1>8, <1>10, <1>11, <1>13, <2>1, <2>2, <2>3 DEF Transferred, IoResult
  <2> QED BY <2>4
<1>14. CASE conn[h].iowait = {"READ"} /\ Read(by, h) /\ UNCHANGED sigint
  <2>0. sigint' \in BOOLEAN /\ (sigint => sigint') /\ m.fd[conn[h].handle_id] = fd
        /\ Direction({"READ"}) /\ Direction({"WRITE"}) /\ fd # ListenFd
    BY <1>4, <1>6, <1>12, <1>14, Numbers DEF Direction
  <2>1. CASE \E n \in 1..r.rx, wait \in {{"READ"}, {"WRITE"}} :
               IoResult(by, "some", h, [r EXCEPT !.rx = @ - n], wait)
    <3>1. PICK n \in 1..r.rx, wait \in {{"READ"}, {"WRITE"}} :
               IoResult(by, "some", h, [r EXCEPT !.rx = @ - n], wait)
      BY <2>1
    <3>6. r.rx \in 0..MaxRx
      BY DEF Sockets
    <3>2. r.rx - n \in 0..MaxRx
      BY <3>6, Numbers
    <3>3. PICK s : s = [r EXCEPT !.rx = r.rx - n]
      OBVIOUS
    <3>4. s \in Sockets /\ s.open = r.open
      BY <3>2, <3>3 DEF Sockets
    <3>5. IoResult(by, "some", h, s, wait) /\ Direction(wait)
      BY <2>0, <3>1, <3>3
    <3> QED BY <1>13, <2>0, <3>4, <3>5
  <2>2. CASE r.rx = 0 /\ r.peer = "open" /\ IoResult(by, "again", h, r, conn[h].iowait)
    <3>1. PollFd(fd) \cap conn[h].iowait = {}
      BY <1>11, <1>14, <2>0, <2>2 DEF PollFd
    <3> QED BY <1>13, <1>14, <2>0, <2>2, <3>1
  <2>3. CASE r.rx = 0 /\ r.peer = "fin" /\ IoResult(by, "zero", h, r, conn[h].iowait)
    BY <1>13, <1>14, <2>0, <2>3
  <2>4. CASE r.peer = "reset" /\ IoResult(by, "error", h, r, conn[h].iowait)
    BY <1>13, <1>14, <2>0, <2>4
  <2> QED BY <1>11, <1>14, <2>0, <2>1, <2>2, <2>3, <2>4 DEF Read
<1>15. CASE conn[h].iowait = {"WRITE"} /\ Write(by, h) /\ UNCHANGED sigint
  <2>0. sigint' \in BOOLEAN /\ (sigint => sigint') /\ m.fd[conn[h].handle_id] = fd
        /\ Direction({"READ"}) /\ Direction({"WRITE"}) /\ fd # ListenFd
    BY <1>4, <1>6, <1>12, <1>15, Numbers DEF Direction
  <2>1. CASE \E left \in BOOLEAN, wait \in {{"READ"}, {"WRITE"}} :
               r.room /\ r.peer # "reset" /\ IoResult(by, "some", h, [r EXCEPT !.room = left], wait)
    <3>1. PICK left \in BOOLEAN, wait \in {{"READ"}, {"WRITE"}} :
               IoResult(by, "some", h, [r EXCEPT !.room = left], wait)
      BY <2>1
    <3>3. PICK s : s = [r EXCEPT !.room = left]
      OBVIOUS
    <3>4. s \in Sockets /\ s.open = r.open
      BY <3>3 DEF Sockets
    <3>5. IoResult(by, "some", h, s, wait) /\ Direction(wait)
      BY <2>0, <3>1, <3>3
    <3> QED BY <1>13, <2>0, <3>4, <3>5
  <2>2. CASE \E wait \in {{"READ"}, {"WRITE"}} : IoResult(by, "some", h, r, wait)
    BY <1>13, <2>0, <2>2
  <2>3. CASE ~r.room /\ r.peer # "reset" /\ IoResult(by, "again", h, r, conn[h].iowait)
    <3>1. PollFd(fd) \cap conn[h].iowait = {}
      BY <1>11, <1>15, <2>0, <2>3 DEF PollFd
    <3> QED BY <1>13, <1>15, <2>0, <2>3, <3>1
  <2>4. CASE IoResult(by, "zero", h, r, conn[h].iowait)
    BY <1>13, <1>15, <2>0, <2>4
  <2>5. CASE r.peer = "reset" /\ IoResult(by, "error", h, r, conn[h].iowait)
    BY <1>13, <1>15, <2>0, <2>5
  <2> QED BY <1>11, <1>15, <2>0, <2>1, <2>2, <2>3, <2>4, <2>5 DEF Write
<1>16. CASE Signals /\ sigint' = TRUE
            /\ IoResult(by, "intr", h, sock[m.fd[conn[h].handle_id]], conn[h].iowait)
  <2>1. IoResult(by, "intr", h, r, conn[h].iowait)
    BY <1>4, <1>11, <1>16
  <2> QED BY <1>6, <1>13, <1>16, <2>1
<1> QED BY <1>7, <1>14, <1>15, <1>16 DEF Iotransfer

(* The handler has made its call. *)
LEMMA IotransferKeeps == ASSUME TcpServerIInv, Iotransfer PROVE TcpServerIInv'
<1>1. PICK h, fd : h = m.handler_id[cur] /\ fd = m.fd[cur]
  OBVIOUS
<1>2. /\ Scanning /\ TIMER \notin Enabled(m, cur)
      /\ h \in Live /\ h \in Connections /\ HandleOf(h) = cur /\ fd \in ConnFds
      /\ m.ev_mask[cur] \cap IO = conn[h].iowait
      /\ \E by, result, s, wait : Transferred(h, fd, by, result, s, wait)
  BY <1>1, IotransferEffect
<1>3. PICK by, result, s, wait : Transferred(h, fd, by, result, s, wait)
  BY <1>2
<1>4. /\ UNCHANGED <<m, evset, cur, handlers, born, backlog, clients, now, alarm>>
      /\ pc' = "settle" /\ nxt' = m.ring.next[cur]
  BY DEF Iotransfer
<1>5. /\ pc = "scan" /\ Running /\ Running' /\ io = NoIo /\ evset = {} /\ ~sigint /\ cur \in Slots
      /\ m.ring.home[cur] = READY /\ m.ring.next[cur] # cur /\ m.ring.next[cur] \in Nodes
      /\ m.ring.home[m.ring.next[cur]] = READY
  BY <1>2, <1>4, AtCursor DEF Running
<1>6. /\ h \in Handlers /\ conn \in [Handlers -> [state : {FREE, WAIT}, handle_id : {-1} \cup Slots,
                            iowait : SUBSET IO]]
      /\ sock \in [ConnFds -> Sockets]
  BY <1>2, Numbers DEF TcpServerIInv, Types, ConnTypes, SockTypes, Sockets
<1>7. /\ \A g \in Handlers : conn'[g].state = conn[g].state /\ conn'[g].handle_id = conn[g].handle_id
      /\ \A g \in Handlers \ {h} : conn'[g] = conn[g]
      /\ conn'[h].iowait = wait
  BY <1>3, <1>6 DEF Transferred
<1>8. /\ \A c \in ConnFds : sock'[c].open = sock[c].open
      /\ \A c \in ConnFds \ {fd} : sock'[c] = sock[c]
  BY <1>3, <1>6 DEF Transferred
<1>9. BooksKept
  BY <1>4, <1>7, <1>8 DEF BooksKept, SameFreeRing
<1>10. Live' = Live /\ Serving = Live /\ Serving' = Live /\ \A g \in Handlers : HandleOf(g)' = HandleOf(g)
  BY <1>5, <1>7, <1>9, BooksLive, RunningServes DEF Serving, HandleOf
<1>11. Owners' /\ Objects' /\ Lockstep'
  BY <1>5, <1>9, <1>10, BooksOwners, BooksObjects, BooksLockstep
<1>12. Types'
  <2>1. wait \in SUBSET IO
    BY <1>3 DEF Transferred, Direction, IO
  <2>2. ConnTypes'
    BY <1>3, <1>4, <1>6, <2>1 DEF Transferred, TcpServerIInv, Types, ConnTypes
  <2>3. LoopTypes'
    BY <1>3, <1>4, <1>5, <1>6, Numbers DEF Transferred, TcpServerIInv, Types, LoopTypes
  <2>4. SockTypes'
    BY <1>3, <1>6 DEF Transferred, SockTypes, Sockets
  <2>5. WorldTypes' /\ ClockTypes'
    BY <1>3, <1>4 DEF Transferred, TcpServerIInv, Types, WorldTypes, ClockTypes
  <2> QED BY <2>2, <2>3, <2>4, <2>5 DEF Types
<1>13. Untried' /\ Sound(m)' /\ Pending' /\ CursorOnReady'
  BY <1>4, <1>5, HandleTypes DEF Untried, Pending, CursorOnReady
<1>14. io'.h = h /\ io'.by = by /\ io'.result = result
  BY <1>3 DEF Transferred
<1>15. Registrations'
  <2>1. ASSUME NEW g \in Live
        PROVE  Registered(g, HandleOf(g))'
    <3>1. PICK id : id = HandleOf(g) /\ Registered(g, id)
      BY <1>10, <2>1, Held
    <3>2. io.h # g /\ g \in Handlers
      BY <1>5, <2>1, Numbers DEF NoIo, Live, FREE
    <3>3. CASE g = h
      BY <1>3, <1>4, <1>7, <1>10, <1>14, <3>1, <3>2, <3>3 DEF Registered, Transferred
    <3>4. CASE g # h
      BY <1>4, <1>7, <1>10, <1>14, <3>1, <3>2, <3>4 DEF Registered
    <3> QED BY <3>3, <3>4
  <2> QED BY <1>10, <2>1 DEF Registrations
<1>16. Settling'
  <2>1. PICK dir : dir = IF by = "on_read" THEN "READ" ELSE "WRITE"
    OBVIOUS
  <2>2. dir \in m.events[cur] /\ conn[h].iowait = {dir} /\ by # "none"
    BY <1>3, <2>1 DEF Transferred
  <2>3. Dir' = dir
    BY <1>14, <2>1 DEF Dir
  <2>4. HandleOf(h)' = cur
    BY <1>2, <1>6, <1>10
  <2>5. result # "some" => wait = {dir}
    BY <1>3, <2>2 DEF Transferred
  <2>6. result = "again" => dir \notin PollFd(fd)'
    BY <1>3, <2>2 DEF Transferred
  <2>7. TIMER \notin Enabled(m, cur)'
    BY <1>2, <1>4 DEF Enabled
  <2>8. (io.result = "again" /\ Dir \in PollFd(m.fd[cur]))' => FALSE
    BY <1>1, <1>4, <1>14, <2>3, <2>6 DEF PollFd
  <2> QED BY <1>2, <1>4, <1>5, <1>7, <1>10, <1>14, <2>2, <2>3, <2>4, <2>5, <2>7, <2>8 DEF Settling
<1>17. WakeupKept'
  <2>1. ASSUME NEW g \in Live, g # h, NEW id, id = HandleOf(g), PollFd(m.fd[id])' \cap conn'[g].iowait # {}
        PROVE  \/ m.ring.home[id] = READY /\ Enabled(m, id) \cap IO # {}
               \/ id \in m.armed /\ m.interest[id] \cap PollFd(m.fd[id])' # {}
    <3>1. io.h # g /\ g \in Handlers
      BY <1>5, <2>1, Numbers DEF NoIo, Live, FREE
    <3>2. m.fd[id] # fd /\ m.fd[id] \in ConnFds
      <4>1. m.fd[id] \in ConnFds
        BY <1>10, <2>1, Held DEF Holds
      <4> QED BY <1>1, <1>2, <1>10, <2>1, <4>1 DEF TcpServerIInv, Owners
    <3>3. PollFd(m.fd[id])' = PollFd(m.fd[id])
      BY <1>4, <1>8, <3>2, Numbers DEF PollFd
    <3> QED BY <1>5, <1>7, <2>1, <3>1, <3>3 DEF TcpServerIInv, WakeupKept
  <2> QED BY <1>4, <1>10, <1>14, <2>1 DEF WakeupKept, Enabled, Live
<1>18. \A g \in Live : TimedOut(g)' <=> TimedOut(g)
  BY <1>4, <1>10 DEF TimedOut, Enabled, Live
<1>19. Lives'
  BY <1>4, <1>5, <1>10, <1>18 DEF TcpServerIInv, Lives, Live
<1>20. InTime'
  <2>1. PICK A \in SUBSET Slots : Ahead(A, cur)
    BY <1>5 DEF TcpServerIInv, InTime
  <2>2. PICK B \in SUBSET (Slots \ {cur}) : B = A \ {cur}
    OBVIOUS
  <2>3. Ahead(B, m.ring.next[cur])
    <3>1. \A g \in Live : TimedOut(g) => HandleOf(g) \in B
      BY <1>2, <2>1, <2>2 DEF Ahead, TimedOut
    <3> QED BY <2>1, <2>2, <3>1, NextAhead DEF Ahead
  <2>4. Ahead(B, nxt)'
    BY <1>4, <1>10, <1>18, <2>3 DEF Ahead, Live
  <2>5. DueNoticed
    BY <1>5 DEF TcpServerIInv, InTime
  <2>6. DueNoticed'
    BY <1>4, <1>10, <1>18, <2>5 DEF DueNoticed
  <2> QED BY <1>4, <2>4, <2>6 DEF InTime
<1> QED BY <1>11, <1>12, <1>13, <1>15, <1>16, <1>17, <1>19, <1>20 DEF TcpServerIInv

-----------------------------------------------------------------------------
(* What the handler does with the result, when the connection stays. *)
LEMMA AtSettle ==
  ASSUME TcpServerIInv, pc = "settle", NEW h, h = io.h
  PROVE  /\ Running /\ evset = {} /\ Sound(m)
         /\ h \in Live /\ h \in Connections /\ h \in Serving
         /\ HandleOf(h) = cur /\ conn[h].handle_id = cur
         /\ Holds(h, cur) /\ Registered(h, cur)
         /\ cur \in Slots /\ cur \in Nodes /\ m.state[cur] # FREE /\ ~Listening(cur)
         /\ m.ring.home[cur] = READY /\ m.ring.prev[cur] # cur /\ m.ring.next[cur] # cur
         /\ nxt \in Nodes /\ nxt # cur /\ m.ring.home[nxt] = READY /\ nxt \in Nat
<1>1. Running /\ evset = {} /\ Sound(m)
  BY HandleTypes DEF Running, TcpServerIInv, Pending
<1>2. h \in Live /\ HandleOf(h) = cur /\ m.ring.home[cur] = READY /\ nxt # cur
  BY DEF TcpServerIInv, Settling
<1>3. h \in Connections /\ h \in Serving /\ Holds(h, cur) /\ Registered(h, cur) /\ cur \in Slots
      /\ m.state[cur] # FREE /\ conn[h].handle_id = cur
  BY <1>1, <1>2, Held, RunningServes
<1>4. ~Listening(cur)
  BY <1>3, Numbers DEF Holds, Listening
<1>5. m.ring.prev[cur] # cur /\ m.ring.next[cur] # cur /\ cur \in Nodes
  <2>1. /\ WellLinked(m.ring, Nodes) /\ Rooted(m.ring, Nodes, Heads) /\ cur \in Nodes \ Heads
    BY <1>3, NodesFacts, HandleTypes DEF RingOK
  <2> QED BY <2>1, RootedNotAlone
<1>6. nxt \in Nodes /\ m.ring.home[nxt] = READY
  BY DEF TcpServerIInv, CursorOnReady
<1> QED BY <1>1, <1>2, <1>3, <1>4, <1>5, <1>6, Numbers

(* The ring after the handle at the cursor has been moved, or not. *)
Moved(t) == t = m.ring \/ \E head \in Heads : t = Relink(m.ring, cur, head)

(* ... is still a ring. *)
LEMMA MovedShape ==
  ASSUME TcpServerIInv, pc = "settle" \/ Scanning, NEW t, Moved(t)
  PROVE  /\ \A i \in Nodes : i # cur => t.home[i] = m.ring.home[i]
         /\ \A i \in Slots : (i # cur /\ m.ring.prev[i] # cur) => t.prev[i] = m.ring.prev[i]
<1>1. /\ WellLinked(m.ring, Nodes) /\ cur \in Nodes /\ cur \in Slots /\ m.ring.prev[cur] # cur
      /\ Heads \subseteq Nodes /\ Heads \cap Slots = {} /\ \A g \in Heads : m.ring.home[g] = g
  <2>1. cur \in Nodes /\ cur \in Slots
    BY AtSettle, AtCursor
  <2>2. /\ WellLinked(m.ring, Nodes) /\ Rooted(m.ring, Nodes, Heads) /\ cur \in Nodes \ Heads
        /\ Heads \subseteq Nodes /\ Heads \cap Slots = {} /\ \A g \in Heads : m.ring.home[g] = g
    BY <2>1, NodesFacts, HandleTypes DEF RingOK
  <2> QED BY <2>1, <2>2, RootedNotAlone
<1>2. CASE t = m.ring
  BY <1>2
<1>3. CASE \E head \in Heads : t = Relink(m.ring, cur, head)
  <2>1. PICK head \in Heads : t = Relink(m.ring, cur, head)
    BY <1>3
  <2>2. \A i \in Nodes : t.home[i] = IF i = cur THEN head ELSE m.ring.home[i]
    BY <1>1, <2>1, RelinkLinks
  <2>3. PICK q : q = IF m.ring.next[cur] = head THEN m.ring.prev[cur] ELSE m.ring.prev[head]
    OBVIOUS
  <2>4. \A i \in Nodes : t.prev[i] = IF i = head THEN cur
                                     ELSE IF i = cur THEN q
                                     ELSE IF i = m.ring.next[cur] THEN m.ring.prev[cur] ELSE m.ring.prev[i]
    BY <1>1, <2>1, <2>3, RelinkShape
  <2>5. ASSUME NEW i \in Slots, i # cur, m.ring.prev[i] # cur
        PROVE  t.prev[i] = m.ring.prev[i]
    <3>1. i \in Nodes /\ i # head /\ i # m.ring.next[cur]
      BY <1>1, <2>1, <2>5, NodesFacts DEF WellLinked
    <3> QED BY <2>4, <2>5, <3>1
  <2> QED BY <2>2, <2>5
<1> QED BY <1>2, <1>3 DEF Moved

(* The pass goes on with what was ahead of it. *)
Follows(r, A, first) == \A a \in A : r.home[a] = READY /\ (a = first \/ r.prev[a] \in A)

(* ... if what is noticed is still on READY. *)
LEMMA StillAhead ==
  ASSUME TcpServerIInv, pc = "settle" \/ Scanning, NEW t, Moved(t), NEW A \in SUBSET (Slots \ {cur}),
         NEW first, m.ring.next[cur] \in A => m.ring.next[cur] = first, Follows(m.ring, A, first)
  PROVE  Follows(t, A, first)
<1> SUFFICES ASSUME NEW a \in A
             PROVE  t.home[a] = READY /\ (a = first \/ t.prev[a] \in A)
  BY DEF Follows
<1>1. /\ a \in Nodes /\ a \in Slots /\ a # cur /\ m.ring.home[a] = READY
      /\ a = first \/ m.ring.prev[a] \in A
  BY NodesFacts DEF Follows
<1>2. CASE a = first
  BY <1>1, <1>2, MovedShape
<1>3. CASE a # first
  <2>1. m.ring.prev[a] \in A /\ m.ring.prev[a] # cur
    BY <1>1, <1>3
  <2> QED BY <1>1, <2>1, MovedShape
<1> QED BY <1>2, <1>3

Settled ==
  /\ pc = "settle" /\ pc' = "scan" /\ cur' = nxt /\ io' = NoIo /\ nxt' = nxt
  /\ UNCHANGED <<evset, handlers, conn, born, sock, backlog, clients, now, sigint, alarm>>
  /\ Sound(m)' /\ OnlyTouches(m, m', cur) /\ Moved(m'.ring)
  /\ m'.fd[cur] = m.fd[cur] /\ m'.handler_id[cur] = m.handler_id[cur]
  /\ m'.ev_permit[cur] = m.ev_permit[cur] /\ m'.state[cur] # FREE
  /\ SameFreeRing(m.ring, m'.ring)
  /\ TIMER \in m'.ev_mask[cur] /\ EDGE \in m'.interest[cur]
  /\ m'.ev_mask[cur] \cap IO = conn[io.h].iowait /\ m'.interest[cur] \cap IO = conn[io.h].iowait
  /\ TIMER \notin Enabled(m', cur)
  /\ m'.looptime = m.looptime /\ m.timers \subseteq m'.timers
  /\ \A e \in m'.timers : e[1] <= MaxTime + Timeout
  /\ PollFd(m.fd[cur]) \cap conn[io.h].iowait # {} =>
       \/ m'.ring.home[cur] = READY /\ Enabled(m', cur) \cap IO # {}
       \/ cur \in m'.armed

(* The handler is done and the connection stays. *)
LEMMA SettledKeeps == ASSUME TcpServerIInv, Settled PROVE TcpServerIInv'
<1>1. PICK h : h = io.h
  OBVIOUS
<1>2. /\ Running /\ evset = {} /\ h \in Live /\ h \in Connections /\ HandleOf(h) = cur
      /\ Holds(h, cur) /\ Registered(h, cur) /\ ~Listening(cur) /\ pc = "settle" /\ pc' = "scan"
      /\ cur \in Slots /\ m.state[cur] # FREE /\ nxt \in Nodes /\ nxt # cur /\ nxt \in Nat
      /\ m.ring.home[nxt] = READY /\ TIMER \notin Enabled(m, cur) /\ Running'
  BY <1>1, AtSettle DEF Settled, TcpServerIInv, Settling, Running
<1>3. /\ UNCHANGED <<evset, handlers, conn, born, sock, backlog, clients, now, sigint, alarm>>
      /\ m'.looptime = m.looptime /\ m.timers \subseteq m'.timers
      /\ OnlyTouches(m, m', cur) /\ io' = NoIo /\ cur' = nxt /\ nxt' = nxt
  BY DEF Settled
<1>4. BooksKept
  <2>1. \A i \in Slots : /\ m'.fd[i] = m.fd[i] /\ m'.handler_id[i] = m.handler_id[i]
                         /\ m'.ev_permit[i] = m.ev_permit[i]
                         /\ m'.state[i] = FREE <=> m.state[i] = FREE
                         /\ Listening(i) => m'.ev_mask[i] = m.ev_mask[i] /\ m'.interest[i] = m.interest[i]
    BY <1>2, <1>3 DEF Settled, OnlyTouches, Untouched
  <2> QED BY <2>1 DEF Settled, BooksKept
<1>5. Live' = Live /\ Serving = Live /\ Serving' = Live /\ \A g : HandleOf(g)' = HandleOf(g)
  BY <1>2, <1>3, <1>4, BooksLive, RunningServes DEF Serving, HandleOf
<1>6. Owners' /\ Objects' /\ Lockstep'
  BY <1>2, <1>4, <1>5, BooksOwners, BooksObjects, BooksLockstep
<1>7. Types'
  <2>1. NoIo \in [by : {"none", "on_read", "on_write"}, h : Handlers,
             result : {"none", "some", "again", "zero", "error", "intr"}]
    BY Numbers DEF NoIo, FREE
  <2>2. LoopTypes'
    BY <1>2, <1>3, <2>1 DEF LoopTypes
  <2>3. ClockTypes'
    BY <1>3 DEF Settled, TcpServerIInv, Types, ClockTypes
  <2> QED BY <1>3, <2>2, <2>3 DEF TcpServerIInv, Types, ConnTypes, SockTypes, WorldTypes
<1>8. Untried' /\ Sound(m)' /\ Pending' /\ Settling'
  BY <1>2, <1>3 DEF Untried, Settled, Pending, Settling
<1>9. CursorOnReady'
  <2>1. m'.ring.home[nxt] = READY
    BY <1>2, MovedShape DEF Settled
  <2> QED BY <1>2, <1>3, <2>1 DEF CursorOnReady
<1>10. ASSUME NEW g \in Live, g # h, NEW id, id = HandleOf(g)
       PROVE  id \in Slots /\ Untouched(m, m', id) /\ io.h # g /\ id # cur
  <2>1. id \in Slots /\ m.handler_id[id] = g /\ m.handler_id[cur] = h
    BY <1>2, <1>5, <1>10, Held DEF Holds
  <2> QED BY <1>1, <1>3, <1>10, <2>1 DEF OnlyTouches
<1>11. Registrations'
  <2>1. ASSUME NEW g \in Live
        PROVE  Registered(g, HandleOf(g))'
    <3>1. PICK id : id = HandleOf(g) /\ Registered(g, id)
      BY <1>5, Held
    <3>2. CASE g = h
      BY <1>1, <1>2, <1>3, <1>5, <3>2 DEF Settled, Registered
    <3>3. CASE g # h
      BY <1>3, <1>5, <1>10, <3>1, <3>3 DEF Registered, Untouched
    <3> QED BY <3>2, <3>3
  <2> QED BY <1>5, <2>1 DEF Registrations
<1>12. WakeupKept'
  <2>1. ASSUME NEW g \in Live, NEW id, id = HandleOf(g), PollFd(m'.fd[id]) \cap conn[g].iowait # {}
        PROVE  \/ m'.ring.home[id] = READY /\ Enabled(m, id)' \cap IO # {}
               \/ id \in m'.armed /\ m'.interest[id] \cap PollFd(m'.fd[id]) # {}
    <3>1. CASE g = h
      <4>1. id = cur /\ m'.fd[id] = m.fd[cur]
        BY <1>2, <2>1, <3>1 DEF Settled
      <4>2. m'.interest[cur] \cap IO = conn[g].iowait
        BY <1>1, <3>1 DEF Settled
      <4>3. \/ m'.ring.home[cur] = READY /\ Enabled(m', cur) \cap IO # {}
            \/ cur \in m'.armed
        BY <1>1, <2>1, <3>1, <4>1 DEF Settled
      <4>4. PollFd(m'.fd[id]) \cap m'.interest[id] # {}
        BY <2>1, <4>1, <4>2
      <4> QED BY <4>1, <4>3, <4>4 DEF Enabled
    <3>2. CASE g # h
      <4>1. id \in Slots /\ Untouched(m, m', id) /\ io.h # g /\ id # cur
        BY <1>10, <2>1, <3>2
      <4>2. \/ m.ring.home[id] = READY /\ Enabled(m, id) \cap IO # {}
            \/ id \in m.armed /\ m.interest[id] \cap PollFd(m.fd[id]) # {}
        BY <1>2, <2>1, <4>1 DEF TcpServerIInv, WakeupKept, Untouched
      <4>3. m'.ring.home[id] = m.ring.home[id]
        BY <1>2, <4>1, MovedShape, NodesFacts DEF Settled
      <4> QED BY <4>1, <4>2, <4>3 DEF Untouched, Enabled
    <3> QED BY <3>1, <3>2
  <2>2. \A c : PollFd(c)' = PollFd(c)
    BY <1>3 DEF PollFd
  <2> QED BY <1>3, <1>5, <2>1, <2>2 DEF WakeupKept
<1>13. ASSUME NEW g \in Live
       PROVE  TimedOut(g)' <=> TimedOut(g)
  <2>1. CASE g = h
    BY <1>2, <1>5, <2>1 DEF Settled, TimedOut, Enabled
  <2>2. CASE g # h
    BY <1>5, <1>10, <2>2 DEF TimedOut, Enabled, Untouched
  <2> QED BY <2>1, <2>2
<1>14. Lives'
  BY <1>2, <1>3, <1>5, <1>13 DEF TcpServerIInv, Lives
<1>15. InTime'
  <2> SUFFICES ASSUME ~sigint PROVE InTime'
    BY <1>3 DEF InTime
  <2>1. PICK A \in SUBSET (Slots \ {cur}) : Ahead(A, nxt)
    BY <1>2 DEF TcpServerIInv, InTime
  <2>2. Ahead(A, nxt)'
    <3>1. \A a \in A : m'.ring.home[a] = READY /\ (a = nxt \/ m'.ring.prev[a] \in A)
      <4>1. m.ring.next[cur] \in A => m.ring.next[cur] = nxt
        <5>1. m.ring.prev[m.ring.next[cur]] = cur
          BY <1>2, NodesFacts, ReadyRing
        <5> QED BY <2>1, <5>1 DEF Ahead
      <4>2. PICK t : t = m'.ring /\ Moved(t)
        BY DEF Settled
      <4>3. Follows(m.ring, A, nxt)
        BY <2>1 DEF Ahead, Follows
      <4>4. Follows(t, A, nxt)
        BY <1>2, <4>1, <4>2, <4>3, StillAhead
      <4> QED BY <4>2, <4>4 DEF Follows
    <3> QED BY <1>3, <1>5, <1>13, <2>1, <3>1 DEF Ahead
  <2>3. DueNoticed'
    BY <1>2, <1>3, <1>5, <1>13 DEF TcpServerIInv, InTime, DueNoticed
  <2>4. Ahead(A, cur)'
    BY <1>3, <2>2 DEF Ahead
  <2> QED BY <1>2, <2>3, <2>4 DEF InTime
<1> QED BY <1>6, <1>7, <1>8, <1>9, <1>11, <1>12, <1>14, <1>15 DEF TcpServerIInv

(* The call found nothing (EAGAIN). *)
LEMMA NoProgressKeeps == ASSUME TcpServerIInv, NoProgress PROVE TcpServerIInv'
<1>1. PICK h, dir : h = io.h /\ dir = Dir
  OBVIOUS
<1>2. /\ pc = "settle" /\ pc' = "scan" /\ cur' = nxt /\ io' = NoIo /\ nxt' = nxt
      /\ UNCHANGED <<evset, handlers, conn, born, sock, backlog, clients, now, sigint, alarm>>
      /\ io.result \in {"again", "intr"}
  BY DEF NoProgress, Resume, connVars, worldVars
<1>3. /\ Sound(m) /\ HandleOf(h) = cur /\ conn[h].handle_id = cur /\ Registered(h, cur)
      /\ cur \in Slots /\ cur \in Nodes /\ InUse(m, cur) /\ m.state[cur] # FREE /\ m.ev_permit[cur]
  BY <1>1, <1>2, AtSettle DEF InUse, Registered
<1>4. /\ m.ring.home[cur] = READY /\ TIMER \notin Enabled(m, cur) /\ dir \in m.events[cur]
      /\ m.ev_mask[cur] \cap IO = {dir} /\ conn[h].iowait = {dir}
      /\ (io.result = "again" /\ dir \in PollFd(m.fd[cur])) => cur \in m.armed
  BY <1>1, <1>2 DEF TcpServerIInv, Settling
<1>5. /\ TIMER \in m.ev_mask[cur] /\ EDGE \in m.interest[cur]
      /\ m.interest[cur] \cap IO = {dir} /\ dir \in IO /\ dir # TIMER
  BY <1>1, <1>3, <1>4 DEF Registered, Dir, IO, TIMER
<1>6. \A e \in m.timers : e[1] <= MaxTime + Timeout
  BY DEF TcpServerIInv, Types, ClockTypes
<1>7. CASE io.result = "intr"
  <2>1. m' = m
    BY <1>7 DEF NoProgress
  <2>2. OnlyTouches(m, m', cur) /\ Moved(m'.ring) /\ SameFreeRing(m.ring, m'.ring)
    BY <2>1 DEF OnlyTouches, Untouched, Moved, SameFreeRing
  <2>3. m'.ring.home[cur] = READY /\ Enabled(m', cur) \cap IO # {}
    BY <1>4, <1>5, <2>1 DEF Enabled
  <2>4. Settled
    BY <1>1, <1>2, <1>3, <1>4, <1>5, <1>6, <2>1, <2>2, <2>3 DEF Settled
  <2> QED BY <2>4, SettledKeeps
<1>8. CASE io.result = "again"
  <2>1. PICK w : w = Drop(m, {dir}, cur)
    OBVIOUS
  <2>2. m' = w
    BY <1>1, <1>3, <1>8, <2>1 DEF NoProgress, Dir
  <2>3. /\ OnlyTouches(m, w, cur)
        /\ w.fd = m.fd /\ w.handler_id = m.handler_id /\ w.ev_permit = m.ev_permit
        /\ w.ev_mask = m.ev_mask /\ w.interest = m.interest /\ w.armed = m.armed
        /\ w.timers = m.timers /\ w.looptime = m.looptime
        /\ w.events[cur] = m.events[cur] \ {dir} /\ w.state[cur] \in {WAIT, READY}
        /\ w.ring = m.ring \/ w.ring = Relink(m.ring, cur, WAIT)
    BY <1>3, <1>5, <2>1, DropEffect
  <2>4. Sound(w)
    BY <1>3, <1>5, <2>1, DropSound
  <2>5. Moved(w.ring) /\ SameFreeRing(m.ring, w.ring)
    <3>1. CASE w.ring = m.ring
      BY <3>1 DEF Moved, SameFreeRing
    <3>2. CASE w.ring = Relink(m.ring, cur, WAIT)
      BY <1>3, <3>2, BusyMoves DEF Moved, Heads
    <3> QED BY <2>3, <3>1, <3>2
  <2>6. TIMER \notin Enabled(w, cur)
    BY <1>4, <2>3 DEF Enabled
  <2>7. PollFd(m.fd[cur]) \cap {dir} # {} => cur \in w.armed
    BY <1>4, <1>8, <2>3
  <2>8. w.state[cur] # FREE
    BY <2>3, NodesFacts
  <2>9. Sound(m)' /\ OnlyTouches(m, m', cur) /\ Moved(m'.ring) /\ SameFreeRing(m.ring, m'.ring)
    BY <2>2, <2>3, <2>4, <2>5
  <2>10. Settled
    BY <1>1, <1>2, <1>3, <1>4, <1>5, <1>6, <2>2, <2>3, <2>6, <2>7, <2>8, <2>9 DEF Settled
  <2> QED BY <2>10, SettledKeeps
<1> QED BY <1>2, <1>7, <1>8

(* The time out is set again. *)
LEMMA UptimeFacts ==
  ASSUME TcpServerIInv
  PROVE  /\ Uptime \in Nat /\ Uptime \in Nat \ {0} /\ m.looptime < Uptime
         /\ Uptime <= MaxTime + Timeout /\ m.looptime \in Nat /\ m.looptime \in 0..MaxTime
<1>1. m.looptime \in Nat /\ m.looptime <= now /\ now \in 0..MaxTime
  BY HandleTypes DEF MplexType, Types, ClockTypes, WorldTypes
<1> QED BY <1>1, Numbers DEF Uptime

(* mod_timer for the handle at the cursor. *)
LEMMA Restarted ==
  ASSUME TcpServerIInv, pc = "settle", NEW s, s = ModTimer(m, Uptime, cur)
  PROVE  /\ Sound(s) /\ OnlyTouches(m, s, cur)
         /\ s.ring = m.ring /\ s.fd = m.fd /\ s.handler_id = m.handler_id
         /\ s.state = m.state /\ s.ev_permit = m.ev_permit
         /\ s.interest = m.interest /\ s.armed = m.armed /\ s.looptime = m.looptime
         /\ m.timers \subseteq s.timers
         /\ \A e \in s.timers : e[1] <= MaxTime + Timeout
         /\ s.events[cur] = m.events[cur] \ {TIMER} /\ s.ev_mask[cur] = m.ev_mask[cur] \cup {TIMER}
         /\ InUse(s, cur) /\ s.ev_permit[cur]
<1>1. Sound(m) /\ RingOK(m) /\ cur \in Nodes /\ InUse(m, cur) /\ m.ev_permit[cur]
  BY AtSettle, HandleTypes DEF InUse, Registered
<1>2. PICK u : u = Uptime
  OBVIOUS
<1>3. u \in Nat /\ u \in Nat \ {0} /\ m.looptime < u /\ u <= MaxTime + Timeout
  BY <1>2, UptimeFacts
<1>4. PICK v : v = ModTimer(m, u, cur)
  OBVIOUS
<1>5. Sound(v)
  BY <1>1, <1>3, <1>4, ModTimerSound
<1>6. /\ OnlyTouches(m, v, cur)
      /\ v.ring = m.ring /\ v.fd = m.fd /\ v.handler_id = m.handler_id
      /\ v.state = m.state /\ v.ev_permit = m.ev_permit
      /\ v.interest = m.interest /\ v.armed = m.armed /\ v.looptime = m.looptime
      /\ v.timers = IF m.state[cur] = WAIT THEN m.timers \cup {<<u, cur>>} ELSE m.timers
      /\ v.events[cur] = m.events[cur] \ {TIMER} /\ v.ev_mask[cur] = m.ev_mask[cur] \cup {TIMER}
  <2>1. TimerSet(m, v, cur, u)
    BY <1>1, <1>3, <1>4, ModTimerEffect
  <2> QED BY <2>1 DEF TimerSet
<1>7. \A e \in v.timers : e[1] <= MaxTime + Timeout
  <2>1. \A e \in m.timers : e[1] <= MaxTime + Timeout
    BY DEF TcpServerIInv, Types, ClockTypes
  <2> QED BY <1>3, <1>6, <2>1
<1>8. s = v
  BY <1>2, <1>4
<1> QED BY <1>1, <1>5, <1>6, <1>7, <1>8 DEF InUse

(* The registration is that of the direction the connection waits for. *)
LEMMA TurnedOrNot ==
  ASSUME TcpServerIInv, pc = "settle", NEW h, h = io.h
  PROVE  conn[h].iowait = {IF Turns THEN Other ELSE Dir}
<1>1. Registered(h, cur) /\ io.by \in {"on_read", "on_write"}
  BY AtSettle DEF TcpServerIInv, Settling, Types, LoopTypes
<1> QED BY <1>1 DEF Registered, Direction, Turns, Other, Dir

(* The call moved octets. *)
LEMMA ProgressKeeps ==
  ASSUME TcpServerIInv, Progress,
         m' = IF Turns THEN Mod(ModTimer(m, Uptime, cur), {Other, EDGE}, cur)
                       ELSE ModTimer(m, Uptime, cur),
         UNCHANGED <<sock, connVars>>
  PROVE  TcpServerIInv'
<1>1. PICK h, s : h = io.h /\ s = ModTimer(m, Uptime, cur)
  OBVIOUS
<1>2. /\ pc = "settle" /\ pc' = "scan" /\ cur' = nxt /\ io' = NoIo /\ nxt' = nxt
      /\ UNCHANGED <<evset, handlers, conn, born, sock, backlog, clients, now, sigint, alarm>>
      /\ io.result = "some"
  BY DEF Progress, Resume, connVars, worldVars
<1>3. /\ Sound(m) /\ HandleOf(h) = cur /\ conn[h].handle_id = cur /\ Registered(h, cur)
      /\ cur \in Slots /\ cur \in Nodes /\ InUse(m, cur) /\ m.state[cur] # FREE /\ m.ev_permit[cur]
  BY <1>1, <1>2, AtSettle DEF InUse, Registered
<1>4. /\ Sound(s) /\ OnlyTouches(m, s, cur)
      /\ s.ring = m.ring /\ s.fd = m.fd /\ s.handler_id = m.handler_id
      /\ s.state = m.state /\ s.ev_permit = m.ev_permit
      /\ s.interest = m.interest /\ s.armed = m.armed /\ s.looptime = m.looptime
      /\ m.timers \subseteq s.timers
      /\ \A e \in s.timers : e[1] <= MaxTime + Timeout
      /\ s.events[cur] = m.events[cur] \ {TIMER} /\ s.ev_mask[cur] = m.ev_mask[cur] \cup {TIMER}
      /\ InUse(s, cur) /\ s.ev_permit[cur]
  BY <1>1, <1>2, Restarted
<1>5. /\ m.ring.home[cur] = READY /\ Dir \in m.events[cur] /\ m.ev_mask[cur] \cap IO = {Dir}
      /\ EDGE \in m.interest[cur] /\ m.interest[cur] \cap IO = {Dir}
      /\ Dir \in IO /\ Other \in IO /\ TIMER \notin IO /\ EDGE \notin IO /\ Dir # TIMER
  BY <1>2, <1>3 DEF TcpServerIInv, Settling, Registered, Dir, Other, IO, TIMER, EDGE
<1>6. CASE ~Turns
  <2>1. m' = s /\ conn[h].iowait = {Dir}
    BY <1>1, <1>2, <1>6, TurnedOrNot
  <2>2. Moved(m'.ring) /\ SameFreeRing(m.ring, m'.ring) /\ OnlyTouches(m, m', cur) /\ Sound(m)'
    BY <1>4, <2>1 DEF Moved, SameFreeRing
  <2>3. Enabled(m', cur) \cap IO # {} /\ TIMER \notin Enabled(m', cur)
    BY <1>4, <1>5, <2>1 DEF Enabled
  <2>4. TIMER \in m'.ev_mask[cur] /\ m'.ev_mask[cur] \cap IO = {Dir}
    BY <1>4, <1>5, <2>1
  <2>5. Settled
    BY <1>1, <1>2, <1>3, <1>4, <1>5, <2>1, <2>2, <2>3, <2>4 DEF Settled
  <2> QED BY <2>5, SettledKeeps
<1>7. CASE Turns
  <2>1. PICK d, trigger, w : d = Other /\ trigger = {d, EDGE} /\ w = Mod(s, trigger, cur)
    OBVIOUS
  <2>2. m' = w /\ conn[h].iowait = {d} /\ d \in IO
    BY <1>1, <1>2, <1>5, <1>7, <2>1, TurnedOrNot
  <2>3. trigger \in SUBSET (IO \cup {EDGE}) /\ trigger \cap IO = {d} /\ trigger \cap IO # {}
    BY <1>5, <2>1, <2>2
  <2>4. /\ OnlyTouches(s, w, cur)
        /\ w.fd = s.fd /\ w.handler_id = s.handler_id /\ w.ev_permit = s.ev_permit
        /\ w.events = s.events /\ w.timers = s.timers /\ w.looptime = s.looptime
        /\ w.ev_mask[cur] = (s.ev_mask[cur] \ IO) \cup (trigger \cap IO)
        /\ w.interest[cur] = trigger /\ cur \in w.armed
        /\ w.state[cur] = (IF Enabled(w, cur) # {} THEN READY ELSE WAIT)
        /\ w.ring = IF w.state[cur] = s.state[cur] THEN s.ring
                                                   ELSE Relink(s.ring, cur, w.state[cur])
    <3>1. Registers(s, w, cur, trigger)
      BY <1>3, <1>4, <2>1, <2>3, ModEffect
    <3> QED BY <3>1 DEF Registers
  <2>5. Sound(w)
    BY <1>3, <1>4, <2>1, <2>3, ModSound
  <2>6. Moved(w.ring) /\ SameFreeRing(m.ring, w.ring) /\ w.state[cur] # FREE
    <3>1. w.state[cur] \in {WAIT, READY} /\ w.state[cur] \in Heads
      BY <2>4 DEF Heads
    <3>2. CASE w.ring = m.ring
      BY <3>1, <3>2, NodesFacts DEF Moved, SameFreeRing
    <3>3. CASE w.ring = Relink(m.ring, cur, w.state[cur])
      BY <1>3, <3>1, <3>3, BusyMoves, NodesFacts DEF Moved
    <3> QED BY <1>4, <2>4, <3>2, <3>3
  <2>7. OnlyTouches(m, w, cur)
    BY <1>4, <2>4 DEF OnlyTouches, Untouched
  <2>8. TIMER \notin Enabled(w, cur) /\ TIMER \in w.ev_mask[cur] /\ w.ev_mask[cur] \cap IO = {d}
    BY <1>4, <1>5, <2>2, <2>3, <2>4 DEF Enabled
  <2>9. EDGE \in w.interest[cur] /\ w.interest[cur] \cap IO = {d}
    BY <2>1, <2>3, <2>4
  <2>10. Sound(m)' /\ OnlyTouches(m, m', cur) /\ Moved(m'.ring) /\ SameFreeRing(m.ring, m'.ring)
    BY <2>2, <2>5, <2>6, <2>7
  <2>11. Settled
    BY <1>1, <1>2, <1>4, <2>2, <2>4, <2>6, <2>8, <2>9, <2>10 DEF Settled
  <2> QED BY <2>11, SettledKeeps
<1> QED BY <1>6, <1>7

-----------------------------------------------------------------------------
(* The rings FREE of objects and of handles. *)
LEMMA ObjectRing ==
  ASSUME TcpServerIInv
  PROVE  /\ WellLinked(handlers, Handlers) /\ Rooted(handlers, Handlers, {FREE, WAIT})
         /\ FREE \in Handlers /\ WAIT \in Handlers /\ FREE # WAIT
         /\ handlers.home[FREE] = FREE /\ handlers.home[WAIT] = WAIT
         /\ \A i \in Handlers : /\ handlers.next[i] \in Handlers /\ handlers.prev[i] \in Handlers
                                /\ handlers.home[handlers.next[i]] = handlers.home[i]
                                /\ handlers.home[handlers.prev[i]] = handlers.home[i]
                                /\ handlers.next[handlers.prev[i]] = i
                                /\ handlers.prev[handlers.next[i]] = i
         /\ \A i \in Handlers : (i # FREE /\ handlers.home[i] = FREE) <=> i \in FreeObjects
         /\ \A h \in Live : h \in Handlers /\ handlers.home[h] = WAIT /\ h \notin FreeObjects
                            /\ h # FREE /\ h # WAIT /\ handlers.prev[h] # h
<1>1. /\ WellLinked(handlers, Handlers) /\ Rooted(handlers, Handlers, {FREE, WAIT})
      /\ handlers.home[FREE] = FREE /\ handlers.home[WAIT] = WAIT
      /\ \A h \in Connections : handlers.home[h] = conn[h].state
  BY DEF TcpServerIInv, Objects
<1>2. FREE \in Handlers /\ WAIT \in Handlers /\ FREE # WAIT
  BY Numbers, NodesFacts
<1>3. \A i \in Handlers : handlers.next[i] \in Handlers /\ handlers.prev[i] \in Handlers
  BY <1>1 DEF WellLinked, Links
<1>4. \A i \in Handlers : (i # FREE /\ handlers.home[i] = FREE) <=> i \in FreeObjects
  <2>1. \A i \in Handlers : i = FREE \/ i = WAIT \/ i \in Connections
    BY Numbers
  <2> QED BY <1>1, <1>2, <2>1, Numbers DEF FreeObjects
<1>5. ASSUME NEW h \in Live
      PROVE  /\ h \in Handlers /\ handlers.home[h] = WAIT /\ h \notin FreeObjects
             /\ h # FREE /\ h # WAIT /\ handlers.prev[h] # h
  <2>1. h \in Connections /\ conn[h].state # FREE
    BY LiveFacts, HandleTypes
  <2>2. conn[h].state \in {FREE, WAIT} /\ h \in Handlers \ {FREE, WAIT}
    BY <2>1, Numbers DEF TcpServerIInv, Types, ConnTypes
  <2> QED BY <1>1, <2>1, <2>2, RootedNotAlone DEF FreeObjects
<1> QED BY <1>1, <1>2, <1>3, <1>4, <1>5 DEF WellLinked

(* An object and its handle come back to the ends of their rings FREE. *)
LEMMA GivenBackInStep ==
  ASSUME TcpServerIInv, HasRoom(m), NEW P \in [FreeObjects -> Slots], InStep(P),
         NEW h \in Live, NEW id \in Slots, conn[h].handle_id = id, m.ring.home[id] # FREE,
         m'.ring = Relink(m.ring, id, FREE), handlers' = Relink(handlers, h, FREE),
         conn' = [conn EXCEPT ![h].state = FREE]
  PROVE  HasRoom(m') /\ \E Q \in [FreeObjects' -> Slots] : InStep(Q)'
<1>1. PICK t, r, f, o : t = m'.ring /\ r = handlers' /\ f = m.ring.prev[FREE] /\ o = handlers.prev[FREE]
  OBVIOUS
<1>2. /\ WellLinked(m.ring, Nodes) /\ id \in Nodes /\ FREE \in Nodes /\ id # FREE
      /\ m.ring.home[FREE] = FREE /\ m.ring.prev[id] # id
  <2>1. /\ WellLinked(m.ring, Nodes) /\ Rooted(m.ring, Nodes, Heads) /\ id \in Nodes \ Heads
        /\ FREE \in Nodes /\ m.ring.home[FREE] = FREE /\ id \in Nodes
    BY NodesFacts, HandleTypes DEF RingOK, Heads
  <2> QED BY <2>1, RootedNotAlone
<1>3. /\ m.ring.next[id] # FREE /\ m.ring.prev[id] # FREE
      /\ m.ring.next[f] = FREE /\ f # FREE /\ f \in Nodes
      /\ \A i \in Nodes : m.ring.home[i] = FREE => i # m.ring.next[id] /\ i # m.ring.prev[id] /\ i # id
  <2>1. m.ring.next[f] = FREE /\ f \in Nodes
    BY <1>1, <1>2, ReadyRing
  <2>2. f # FREE
    BY <2>1 DEF HasRoom, EmptyRing
  <2> QED BY <1>2, <2>1, <2>2, ReadyRing
<1>4. /\ \A i \in Nodes : t.prev[i] = IF i = FREE THEN id
                                     ELSE IF i = id THEN f
                                     ELSE IF i = m.ring.next[id] THEN m.ring.prev[id] ELSE m.ring.prev[i]
      /\ \A i \in Nodes : t.next[i] = IF i = id THEN FREE
                                     ELSE IF i = f THEN id
                                     ELSE IF i = m.ring.prev[id] THEN m.ring.next[id] ELSE m.ring.next[i]
  BY <1>1, <1>2, <1>3, RelinkShape
<1>5. \A i \in Nodes : t.home[i] = IF i = id THEN FREE ELSE m.ring.home[i]
  BY <1>1, <1>2, RelinkLinks
<1>6. t.next[FREE] = m.ring.next[FREE]
  BY <1>2, <1>3, <1>4
<1>7. /\ WellLinked(handlers, Handlers) /\ h \in Handlers /\ FREE \in Handlers /\ h # FREE
      /\ handlers.home[FREE] = FREE /\ handlers.prev[h] # h /\ handlers.home[h] # FREE
      /\ o \in Handlers /\ handlers.next[o] = FREE /\ handlers.home[o] = FREE
      /\ \A i \in Handlers : handlers.home[i] = FREE =>
                               i # handlers.next[h] /\ i # handlers.prev[h] /\ i # h
  BY <1>1, ObjectRing
<1>8. /\ \A i \in Handlers : r.prev[i] = IF i = FREE THEN h
                                     ELSE IF i = h THEN o
                                     ELSE IF i = handlers.next[h] THEN handlers.prev[h] ELSE handlers.prev[i]
      /\ \A i \in Handlers : r.next[i] = IF i = h THEN FREE
                                     ELSE IF i = o THEN h
                                     ELSE IF i = handlers.prev[h] THEN handlers.next[h] ELSE handlers.next[i]
  <2>1. handlers.next[h] # FREE
    BY <1>7
  <2> QED BY <1>1, <1>7, <2>1, RelinkShape
<1>9. /\ \A g \in Handlers : conn'[g].state = IF g = h THEN FREE ELSE conn[g].state
      /\ \A g \in Handlers : conn'[g].handle_id = conn[g].handle_id
  <2>1. conn \in [Handlers -> [state : {FREE, WAIT}, handle_id : {-1} \cup Slots, iowait : SUBSET IO]]
    BY DEF TcpServerIInv, Types, ConnTypes
  <2> QED BY <1>7, <2>1
<1>10. FreeObjects' = FreeObjects \cup {h}
  <2>1. h \in Connections
    BY LiveFacts, HandleTypes
  <2> QED BY <1>9, <2>1, Numbers DEF FreeObjects
<1>11. HasRoom(m')
  BY <1>1, <1>6 DEF HasRoom, EmptyRing
<1>12. PICK Q : Q = [g \in FreeObjects \cup {h} |-> IF g = h THEN id ELSE P[g]]
  OBVIOUS
<1>13. r.next[FREE] # FREE
  <2>1. CASE o = FREE
    BY <1>7, <1>8, <2>1
  <2>2. CASE o # FREE
    <3>1. r.next[FREE] = handlers.next[FREE]
      BY <1>7, <1>8, <2>2
    <3>2. handlers.prev[handlers.next[FREE]] = FREE
      BY ObjectRing
    <3> QED BY <1>1, <2>2, <3>1, <3>2
  <2> QED BY <2>1, <2>2
<1>14. ASSUME NEW g \in FreeObjects
       PROVE  /\ t.home[Q[g]] = FREE
              /\ conn'[g].handle_id \in {-1, Q[g]}
              /\ t.prev[Q[g]] = IF r.prev[g] = FREE THEN t.next[FREE] ELSE Q[r.prev[g]]
              /\ r.next[g] = FREE => t.next[Q[g]] = FREE
  <2>1. g \in Handlers /\ g # FREE /\ g # h /\ handlers.home[g] = FREE /\ Q[g] = P[g]
    <3>1. g \in Handlers /\ g # h
      BY ObjectRing, Numbers DEF FreeObjects
    <3> QED BY <1>12, <3>1, ObjectRing
  <2>2. /\ m.ring.home[P[g]] = FREE /\ conn[g].handle_id \in {-1, P[g]} /\ P[g] \in Slots /\ P[g] \in Nodes
        /\ m.ring.prev[P[g]] = IF handlers.prev[g] = FREE THEN m.ring.next[FREE] ELSE P[handlers.prev[g]]
    BY NodesFacts DEF InStep
  <2>3. t.home[P[g]] = FREE /\ t.prev[P[g]] = m.ring.prev[P[g]]
    <3>1. P[g] # FREE
      BY <2>2 DEF Slots
    <3> QED BY <1>3, <1>4, <1>5, <2>2, <3>1
  <2>4. r.prev[g] = handlers.prev[g]
    BY <1>7, <1>8, <2>1
  <2>5. handlers.prev[g] # FREE => handlers.prev[g] \in FreeObjects /\ Q[handlers.prev[g]] = P[handlers.prev[g]]
    <3>1. handlers.prev[g] \in Handlers /\ handlers.home[handlers.prev[g]] = FREE
      BY <2>1, ObjectRing
    <3>2. handlers.prev[g] # h
      BY <1>7, <3>1
    <3> QED BY <1>12, <3>1, <3>2, ObjectRing
  <2>6. r.next[g] # FREE
    <3>1. CASE g = o
      BY <1>7, <1>8, <2>1, <3>1
    <3>2. CASE g # o
      <4>1. r.next[g] = handlers.next[g]
        BY <1>7, <1>8, <2>1, <3>2
      <4>2. handlers.prev[handlers.next[g]] = g
        BY <2>1, ObjectRing
      <4> QED BY <1>1, <3>2, <4>1, <4>2
    <3> QED BY <3>1, <3>2
  <2>7. conn'[g].handle_id \in {-1, Q[g]}
    BY <1>9, <2>1, <2>2
  <2> QED BY <1>6, <2>1, <2>2, <2>3, <2>4, <2>5, <2>6, <2>7
<1>15. /\ t.home[Q[h]] = FREE
       /\ conn'[h].handle_id \in {-1, Q[h]}
       /\ t.prev[Q[h]] = IF r.prev[h] = FREE THEN t.next[FREE] ELSE Q[r.prev[h]]
       /\ r.next[h] = FREE => t.next[Q[h]] = FREE
  <2>1. Q[h] = id
    BY <1>12
  <2>2. t.home[id] = FREE /\ conn'[h].handle_id = id /\ t.next[id] = FREE /\ t.prev[id] = f /\ r.prev[h] = o
    BY <1>2, <1>4, <1>5, <1>7, <1>8, <1>9
  <2>3. CASE o = FREE
    <3>1. EmptyRing(handlers, FREE)
      BY <1>7, <2>3 DEF EmptyRing
    <3>2. m.ring.next[m.ring.next[FREE]] = FREE
      BY <3>1 DEF InStep
    <3>3. m.ring.prev[FREE] = m.ring.next[FREE]
      BY <1>2, <3>2, ReadyRing
    <3> QED BY <1>1, <1>6, <2>1, <2>2, <2>3, <3>3
  <2>4. CASE o # FREE
    <3>1. o \in FreeObjects /\ o # h
      BY <1>7, <2>4, ObjectRing
    <3>2. m.ring.next[P[o]] = FREE /\ P[o] \in Nodes
      BY <1>7, <3>1, NodesFacts DEF InStep
    <3>3. m.ring.prev[FREE] = P[o]
      BY <3>2, ReadyRing
    <3>4. Q[o] = P[o]
      BY <1>12, <3>1
    <3> QED BY <1>1, <2>1, <2>2, <2>4, <3>3, <3>4
  <2> QED BY <2>3, <2>4
<1>16. InStep(Q)'
  <2>1. \A g \in FreeObjects \cup {h} :
          /\ t.home[Q[g]] = FREE
          /\ conn'[g].handle_id \in {-1, Q[g]}
          /\ t.prev[Q[g]] = IF r.prev[g] = FREE THEN t.next[FREE] ELSE Q[r.prev[g]]
          /\ r.next[g] = FREE => t.next[Q[g]] = FREE
    BY <1>14, <1>15
  <2> QED BY <1>1, <1>10, <1>13, <2>1 DEF InStep, EmptyRing
<1>17. Q \in [FreeObjects' -> Slots]
  BY <1>10, <1>12
<1> QED BY <1>11, <1>16, <1>17

(* When a connection is closed the others keep what is theirs. *)
LEMMA ClosedOwners ==
  ASSUME TcpServerIInv, NEW h \in Serving, NEW id, id = HandleOf(h), NEW fd, fd = m.fd[id],
         OnlyTouches(m, m', id), m'.state[id] = FREE,
         Serving' = Serving \ {h}, \A g \in Serving : HandleOf(g)' = HandleOf(g),
         ~sock'[fd].open, \A c \in ConnFds \ {fd} : sock'[c] = sock[c]
  PROVE  /\ Owners'
         /\ \A g \in Serving \ {h} :
              /\ HandleOf(g) \in Slots /\ HandleOf(g) # id /\ Untouched(m, m', HandleOf(g))
              /\ m.fd[HandleOf(g)] \in ConnFds /\ m.fd[HandleOf(g)] # fd /\ Registered(g, HandleOf(g))
<1>1. ASSUME NEW g \in Serving \ {h}, NEW i, i = HandleOf(g)
      PROVE  /\ i \in Slots /\ i # id /\ Untouched(m, m', i)
             /\ Holds(g, i) /\ m.fd[i] \in ConnFds /\ m.fd[i] # fd /\ Registered(g, i)
  <2>1. Holds(g, i) /\ Registered(g, i) /\ Holds(h, id)
    BY <1>1, Held
  <2>2. i # id /\ i \in Slots
    BY <1>1, <2>1 DEF Holds
  <2>3. m.fd[i] # fd
    BY <1>1 DEF TcpServerIInv, Owners
  <2> QED BY <2>1, <2>2, <2>3 DEF Holds, OnlyTouches
<1>2. ASSUME NEW g \in Serving \ {h}
      PROVE  Holds(g, HandleOf(g))'
  BY <1>1 DEF Holds, Untouched, InUse
<1>3. ASSUME NEW g \in Serving \ {h}, NEW k \in Serving \ {h}, m'.fd[HandleOf(g)] = m'.fd[HandleOf(k)]
      PROVE  g = k
  <2>1. m'.fd[HandleOf(g)] = m.fd[HandleOf(g)] /\ m'.fd[HandleOf(k)] = m.fd[HandleOf(k)]
    BY <1>1 DEF Untouched
  <2> QED BY <1>3, <2>1 DEF TcpServerIInv, Owners
<1>4. ASSUME NEW c \in ConnFds, sock'[c].open
      PROVE  \E g \in Serving \ {h} : m'.fd[HandleOf(g)] = c
  <2>1. c # fd /\ sock[c].open
    BY <1>4
  <2>2. PICK g \in Serving : m.fd[HandleOf(g)] = c
    BY <2>1 DEF TcpServerIInv, Owners
  <2>3. g # h
    BY <2>1, <2>2
  <2> QED BY <1>1, <2>2, <2>3 DEF Untouched
<1>5. ASSUME NEW i \in Slots, InUse(m', i)
      PROVE  Listening(i)' \/ \E g \in Serving \ {h} : HandleOf(g) = i
  <2>1. i # id /\ Untouched(m, m', i)
    BY <1>5 DEF InUse, OnlyTouches
  <2>2. Listening(i) \/ \E g \in Serving : HandleOf(g) = i
    BY <1>5, <2>1 DEF TcpServerIInv, Owners, InUse, Untouched
  <2> QED BY <2>1, <2>2 DEF Listening, Untouched
<1>6. Owners'
  BY <1>2, <1>3, <1>4, <1>5 DEF Owners
<1> QED BY <1>1, <1>6

(* A connection is removed, by the pass or by its own handler. *)
Removed(h, fd) ==
  /\ (pc = "settle" /\ io.h = h /\ cur' = nxt) \/ (Scanning /\ cur' = m.ring.next[cur])
  /\ pc' = "scan" /\ io' = NoIo /\ nxt' = nxt
  /\ UNCHANGED <<evset, backlog, clients, now, sigint, alarm>>
  /\ Sound(m)' /\ OnlyTouches(m, m', cur)
  /\ m'.state[cur] = FREE /\ m'.ring = Relink(m.ring, cur, FREE)
  /\ m'.looptime = m.looptime /\ m.timers \subseteq m'.timers
  /\ \A e \in m'.timers : e[1] <= MaxTime + Timeout
  /\ sock' = [sock EXCEPT ![fd] = Closed]
  /\ conn' = [conn EXCEPT ![h].state = FREE]
  /\ handlers' = Relink(handlers, h, FREE)
  /\ born' = [born EXCEPT ![h] = 0]

(* All that closing a connection keeps. *)
LEMMA RemovedKeeps ==
  ASSUME TcpServerIInv, NEW h \in Live, HandleOf(h) = cur, NEW fd, fd = m.fd[cur], Removed(h, fd)
  PROVE  TcpServerIInv'
<1>1. /\ Running /\ Running' /\ evset = {} /\ evset' = {} /\ pc \in {"scan", "settle"} /\ pc' = "scan"
      /\ cur \in Slots /\ cur \in Nodes /\ m.ring.home[cur] = READY
      /\ cur' \in Nodes /\ cur' # cur /\ m.ring.home[cur'] = READY /\ cur' \in Nat
      /\ \A g \in Live : g # h => io.h # g
  <2>1. CASE pc = "settle" /\ io.h = h /\ cur' = nxt
    BY <2>1, AtSettle DEF Removed, Running
  <2>2. CASE Scanning /\ cur' = m.ring.next[cur]
    <3>1. \A g \in Live : NoIo.h # g
      BY LiveFacts, HandleTypes DEF NoIo, FREE
    <3> QED BY <2>2, <3>1, AtCursor DEF Removed, Running
  <2> QED BY <2>1, <2>2 DEF Removed
<1>2. /\ h \in Serving /\ h \in Connections /\ h \in Handlers /\ Holds(h, cur) /\ Registered(h, cur)
      /\ conn[h].handle_id = cur /\ fd \in ConnFds /\ ~Listening(cur)
  <2>1. h \in Serving /\ Holds(h, cur)
    BY <1>1, Held, RunningServes
  <2> QED BY <2>1, Held, Numbers DEF Holds, Listening
<1>3. /\ UNCHANGED <<evset, backlog, clients, now, sigint, alarm>>
      /\ m'.looptime = m.looptime /\ m.timers \subseteq m'.timers
      /\ OnlyTouches(m, m', cur) /\ io' = NoIo /\ nxt' = nxt /\ m'.state[cur] = FREE
      /\ sock' = [sock EXCEPT ![fd] = Closed] /\ conn' = [conn EXCEPT ![h].state = FREE]
      /\ handlers' = Relink(handlers, h, FREE) /\ born' = [born EXCEPT ![h] = 0]
      /\ m'.ring = Relink(m.ring, cur, FREE)
  BY DEF Removed
<1>4. /\ conn \in [Handlers -> [state : {FREE, WAIT}, handle_id : {-1} \cup Slots, iowait : SUBSET IO]]
      /\ born \in [Handlers -> 0..MaxTime] /\ sock \in [ConnFds -> Sockets]
  BY DEF TcpServerIInv, Types, ConnTypes, SockTypes, Sockets
<1>5. /\ conn'[h].state = FREE
      /\ \A g \in Handlers : conn'[g].handle_id = conn[g].handle_id
      /\ \A g \in Handlers \ {h} : conn'[g] = conn[g] /\ born'[g] = born[g]
      /\ ~sock'[fd].open /\ \A c \in ConnFds \ {fd} : sock'[c] = sock[c]
  BY <1>2, <1>3, <1>4 DEF Closed
<1>6. /\ Live' = Live \ {h} /\ Serving = Live /\ Serving' = Live'
      /\ \A g \in Live : HandleOf(g)' = HandleOf(g)
  BY <1>1, <1>2, <1>5, RunningServes DEF Live, HandleOf, Serving
<1>7. Types'
  <2>1. Closed \in Sockets /\ 0 \in 0..MaxTime
    BY Numbers DEF Closed, Sockets
  <2>2. ConnTypes'
    BY <1>2, <1>3, <1>4, <2>1 DEF ConnTypes
  <2>3. SockTypes'
    BY <1>2, <1>3, <1>4, <2>1 DEF SockTypes, Sockets
  <2>4. NoIo \in [by : {"none", "on_read", "on_write"}, h : Handlers,
             result : {"none", "some", "again", "zero", "error", "intr"}]
    BY Numbers DEF NoIo, FREE
  <2>5. LoopTypes'
    BY <1>1, <1>3, <2>4 DEF TcpServerIInv, Types, LoopTypes
  <2>6. ClockTypes' /\ WorldTypes'
    BY <1>3 DEF Removed, TcpServerIInv, Types, ClockTypes, WorldTypes
  <2> QED BY <2>2, <2>3, <2>5, <2>6 DEF Types
<1>8. Untried' /\ Sound(m)' /\ Settling'
  BY <1>1 DEF Untried, Removed, Settling
<1>9. Pending'
  BY <1>1 DEF Pending
<1>10. Objects'
  <2>1. /\ WellLinked(handlers', Handlers)
        /\ \A i \in Handlers : handlers'.home[i] = IF i = h THEN FREE ELSE handlers.home[i]
    BY <1>2, <1>3, ObjectRing, RelinkLinks
  <2>2. Rooted(handlers', Handlers, {FREE, WAIT})
    <3>1. h \in Handlers \ {FREE, WAIT} /\ FREE \in {FREE, WAIT} /\ FREE \in Handlers
      BY ObjectRing
    <3> QED BY <1>3, <3>1, ObjectRing, RelinkRooted
  <2>3. h # FREE /\ h # WAIT
    BY ObjectRing
  <2>4. conn'[FREE].state = FREE /\ conn'[WAIT].state = FREE
    BY <1>5, <2>3, Numbers DEF TcpServerIInv, Objects
  <2>5. \A g \in Connections : handlers'.home[g] = conn'[g].state
    BY <1>5, <2>1, Numbers DEF TcpServerIInv, Objects
  <2> QED BY <2>1, <2>2, <2>3, <2>4, <2>5, ObjectRing DEF Objects
<1>12. /\ Owners'
       /\ \A g \in Live \ {h} :
            /\ HandleOf(g) \in Slots /\ HandleOf(g) # cur /\ Untouched(m, m', HandleOf(g))
            /\ m.fd[HandleOf(g)] \in ConnFds /\ m.fd[HandleOf(g)] # fd /\ Registered(g, HandleOf(g))
  BY <1>2, <1>3, <1>5, <1>6, ClosedOwners
<1>11. ASSUME NEW g \in Live \ {h}, NEW id, id = HandleOf(g)
       PROVE  /\ id \in Slots /\ id # cur /\ Untouched(m, m', id) /\ g \in Handlers
              /\ m.fd[id] \in ConnFds /\ m.fd[id] # fd /\ Registered(g, id)
  BY <1>11, <1>12 DEF Live
<1>13. Registrations'
  <2>1. ASSUME NEW g \in Live \ {h}
        PROVE  Registered(g, HandleOf(g))'
    BY <1>1, <1>5, <1>6, <1>11 DEF Registered, Untouched
  <2> QED BY <1>6, <2>1 DEF Registrations
<1>14. PICK t : t = m'.ring /\ Moved(t)
  BY <1>3 DEF Moved, Heads
<1>15. CursorOnReady'
  <2>1. m'.ring.home[cur'] = READY
    BY <1>1, <1>14, MovedShape DEF Removed
  <2> QED BY <1>1, <2>1 DEF CursorOnReady
<1>16. Lockstep'
  <2>1. PICK P \in [FreeObjects -> Slots] : HasRoom(m) /\ InStep(P)
    BY <1>1 DEF TcpServerIInv, Lockstep
  <2>2. m.ring.home[cur] # FREE
    BY <1>1, NodesFacts
  <2>3. PICK id : id = cur
    OBVIOUS
  <2>4. HasRoom(m') /\ \E Q \in [FreeObjects' -> Slots] : InStep(Q)'
    BY <1>1, <1>2, <1>3, <2>1, <2>2, <2>3, GivenBackInStep
  <2> QED BY <2>4 DEF Lockstep
<1>17. WakeupKept'
  <2>1. ASSUME NEW g \in Live \ {h}, NEW id, id = HandleOf(g), NEW c, c = m.fd[id],
               PollFd(c)' \cap conn'[g].iowait # {}
        PROVE  \/ m'.ring.home[id] = READY /\ Enabled(m', id) \cap IO # {}
               \/ id \in m'.armed /\ m'.interest[id] \cap PollFd(c)' # {}
    <3>1. /\ id \in Slots /\ id # cur /\ Untouched(m, m', id) /\ io.h # g /\ g \in Handlers
          /\ c \in ConnFds /\ c # fd
      BY <1>1, <1>11, <2>1
    <3>2. PollFd(c)' = PollFd(c)
      BY <1>3, <1>5, <3>1, Numbers DEF PollFd
    <3>3. conn'[g].iowait = conn[g].iowait
      BY <1>5, <3>1
    <3>4. \/ m.ring.home[id] = READY /\ Enabled(m, id) \cap IO # {}
          \/ id \in m.armed /\ m.interest[id] \cap PollFd(c) # {}
      BY <1>1, <2>1, <3>1, <3>2, <3>3 DEF TcpServerIInv, WakeupKept
    <3>5. m'.ring.home[id] = m.ring.home[id]
      BY <1>14, <3>1, MovedShape, NodesFacts DEF Removed
    <3> QED BY <3>1, <3>2, <3>4, <3>5 DEF Untouched, Enabled
  <2>2. \A g \in Live \ {h} : m'.fd[HandleOf(g)] = m.fd[HandleOf(g)]
    BY <1>11 DEF Untouched
  <2> QED BY <1>6, <2>1, <2>2 DEF WakeupKept, Enabled
<1>18. ASSUME NEW g \in Live \ {h}
       PROVE  TimedOut(g)' <=> TimedOut(g)
  BY <1>6, <1>11 DEF TimedOut, Enabled, Untouched
<1>19. Lives'
  BY <1>1, <1>3, <1>5, <1>6, <1>11, <1>18 DEF TcpServerIInv, Lives
<1>20. InTime'
  <2> SUFFICES ASSUME ~sigint PROVE InTime'
    BY <1>3 DEF InTime
  <2>1. PICK A \in SUBSET (Slots \ {cur}) :
          /\ Follows(m.ring, A, cur') /\ (m.ring.next[cur] \in A => m.ring.next[cur] = cur')
          /\ \A g \in Live \ {h} : TimedOut(g) => HandleOf(g) \in A
    <3>1. CASE pc = "settle" /\ cur' = nxt
      <4>1. PICK A \in SUBSET (Slots \ {cur}) : Ahead(A, nxt)
        BY <3>1 DEF TcpServerIInv, InTime
      <4>2. m.ring.next[cur] \in A => m.ring.next[cur] = nxt
        <5>1. m.ring.prev[m.ring.next[cur]] = cur
          BY <1>1, ReadyRing
        <5> QED BY <4>1, <5>1 DEF Ahead
      <4> QED BY <3>1, <4>1, <4>2 DEF Ahead, Follows
    <3>2. CASE Scanning /\ cur' = m.ring.next[cur]
      <4>1. PICK A \in SUBSET Slots : Ahead(A, cur)
        BY <3>2 DEF Scanning, TcpServerIInv, InTime
      <4>2. PICK B \in SUBSET (Slots \ {cur}) : B = A \ {cur}
        OBVIOUS
      <4>3. Follows(m.ring, B, cur')
        BY <3>2, <4>1, <4>2, NextAhead DEF Follows
      <4>4. \A g \in Live \ {h} : TimedOut(g) => HandleOf(g) \in B
        BY <1>11, <4>1, <4>2 DEF Ahead
      <4> QED BY <3>2, <4>3, <4>4
    <3> QED BY <3>1, <3>2 DEF Removed
  <2>2. Follows(t, A, cur')
    BY <1>14, <2>1, StillAhead DEF Removed
  <2>3. Ahead(A, cur)'
    <3>1. \A a \in A : m'.ring.home[a] = READY /\ (a = cur' \/ m'.ring.prev[a] \in A)
      BY <1>14, <2>2 DEF Follows
    <3>2. \A g \in Live' : TimedOut(g)' => HandleOf(g)' \in A
      BY <1>6, <1>18, <2>1
    <3> QED BY <3>1, <3>2 DEF Ahead
  <2>4. DueNoticed'
    BY <1>1, <1>3, <1>5, <1>6, <1>11, <1>18 DEF TcpServerIInv, InTime, DueNoticed
  <2>5. A \in SUBSET Slots
    BY <2>1
  <2> QED BY <1>1, <2>3, <2>4, <2>5 DEF InTime
<1> QED BY <1>7, <1>8, <1>9, <1>10, <1>12, <1>13, <1>15, <1>16, <1>17, <1>19, <1>20 DEF TcpServerIInv

(* Connection h, whose handle is at the cursor, is removed. *)
Removes(h, fd) == h \in Live /\ HandleOf(h) = cur /\ fd = m.fd[cur] /\ Removed(h, fd)

(* A connection removed in the pass over READY. *)
LEMMA RemovesKeeps == ASSUME TcpServerIInv, \E h, fd : Removes(h, fd) PROVE TcpServerIInv'
BY RemovedKeeps DEF Removes

(* remove_handler, whatever became of the timer and of the mask before. *)
LEMMA RemoveHandlerRemoves ==
  ASSUME TcpServerIInv, NEW h \in Live, HandleOf(h) = cur, NEW s,
         SoundBut(s, cur), OnlyTouches(m, s, cur), s.ring = m.ring, s.fd = m.fd,
         s.state = m.state, s.ev_permit = m.ev_permit, s.interest = m.interest,
         s.looptime = m.looptime, m.timers \subseteq s.timers,
         \A e \in s.timers : e[1] <= MaxTime + Timeout,
         RemoveHandler(s, h),
         (pc = "settle" /\ io.h = h /\ cur' = nxt) \/ (Scanning /\ cur' = m.ring.next[cur]),
         pc' = "scan", io' = NoIo, nxt' = nxt,
         UNCHANGED <<evset, backlog, clients, now, sigint, alarm>>
  PROVE  \E g, fd : Removes(g, fd)
<1>1. Running
  BY DEF Running, Scanning
<1>2. /\ Holds(h, cur) /\ Registered(h, cur) /\ cur \in Slots /\ conn[h].handle_id = cur
      /\ conn[h].state # FREE /\ cur \in Nodes /\ ~DelRefused(m, cur)
  BY <1>1, Held, RunningServes, NodesFacts DEF Live
<1>3. PICK w, fd : w = Del(s, cur) /\ fd = m.fd[cur]
  OBVIOUS
<1>4. /\ m' = w /\ sock' = [sock EXCEPT ![fd] = Closed] /\ conn' = [conn EXCEPT ![h].state = FREE]
      /\ handlers' = Relink(handlers, h, FREE) /\ born' = [born EXCEPT ![h] = 0]
  BY <1>2, <1>3 DEF RemoveHandler, CloseFd, GivenBack, Holds
<1>5. ~DelRefused(s, cur)
  BY <1>2 DEF DelRefused, InUse
<1>6. /\ Sound(w) /\ OnlyTouches(s, w, cur) /\ w.state[cur] = FREE
      /\ w.timers = s.timers /\ w.looptime = s.looptime /\ w.ring = Relink(s.ring, cur, FREE)
  BY <1>2, <1>3, <1>5, DelEffect
<1>7. OnlyTouches(m, w, cur)
  BY <1>6 DEF OnlyTouches, Untouched
<1>8. Removed(h, fd)
  BY <1>4, <1>6, <1>7 DEF Removed
<1> QED BY <1>3, <1>8 DEF Removes

(* A time out closes its connection (on_timer). *)
LEMMA OnTimerRemoves == ASSUME TcpServerIInv, OnTimer PROVE \E h, fd : Removes(h, fd)
<1>1. PICK h, s : h = m.handler_id[cur] /\ s = StopTimer(m, cur)
  OBVIOUS
<1>2. Scanning /\ TIMER \in m.ev_mask[cur]
  BY DEF OnTimer, Enabled
<1>3. /\ Sound(m) /\ RingOK(m) /\ cur \in Nodes /\ cur \in Slots /\ InUse(m, cur)
      /\ pc = "scan" /\ Running /\ io = NoIo
  BY <1>2, AtCursor, HandleTypes
<1>4. h \in Live /\ HandleOf(h) = cur
  BY <1>1, <1>2, <1>3, Whose, RunningServes
<1>5. /\ OnlyTouches(m, s, cur) /\ s.ring = m.ring /\ s.fd = m.fd /\ s.state = m.state
      /\ s.ev_permit = m.ev_permit /\ s.interest = m.interest
      /\ s.looptime = m.looptime /\ s.timers = m.timers
  BY <1>1, <1>3, StopTimerEffect
<1>6. SoundBut(s, cur)
  BY <1>1, <1>3, StopTimerSound DEF Sound, SoundBut
<1>7. \A e \in s.timers : e[1] <= MaxTime + Timeout
  BY <1>5 DEF TcpServerIInv, Types, ClockTypes
<1>8. /\ RemoveHandler(s, h) /\ cur' = m.ring.next[cur] /\ pc' = "scan" /\ io' = NoIo /\ nxt' = nxt
      /\ UNCHANGED <<evset, backlog, clients, now, sigint, alarm>>
  BY <1>1, <1>3 DEF OnTimer, Advance, worldVars
<1> QED BY <1>2, <1>4, <1>5, <1>6, <1>7, <1>8, RemoveHandlerRemoves

(* The end of the peer's octets, or a failed call, closes it. *)
LEMMA HangupRemoves == ASSUME TcpServerIInv, Hangup PROVE \E h, fd : Removes(h, fd)
<1>1. PICK h, s : h = io.h /\ s = m
  OBVIOUS
<1>2. pc = "settle"
  BY DEF Hangup
<1>3. h \in Live /\ HandleOf(h) = cur /\ Sound(m)
  BY <1>1, <1>2, AtSettle
<1>4. SoundBut(s, cur) /\ OnlyTouches(m, s, cur)
  BY <1>1, <1>3 DEF Sound, SoundBut, OnlyTouches, Untouched
<1>5. \A e \in s.timers : e[1] <= MaxTime + Timeout
  BY <1>1 DEF TcpServerIInv, Types, ClockTypes
<1>6. /\ RemoveHandler(s, h) /\ cur' = nxt /\ pc' = "scan" /\ io' = NoIo /\ nxt' = nxt
      /\ UNCHANGED <<evset, backlog, clients, now, sigint, alarm>>
  BY <1>1 DEF Hangup, Resume, worldVars
<1> QED BY <1>1, <1>2, <1>3, <1>4, <1>5, <1>6, RemoveHandlerRemoves

(* A registration the kernel refuses closes it. *)
LEMMA ProgressRefusedRemoves ==
  ASSUME TcpServerIInv, Progress,
         RemoveHandler(ModRefused(ModTimer(m, Uptime, cur), {Other, EDGE}, cur), io.h)
  PROVE  \E h, fd : Removes(h, fd)
<1>1. PICK h, s, trigger, w : /\ h = io.h /\ s = ModTimer(m, Uptime, cur) /\ trigger = {Other, EDGE}
                              /\ w = Masked(s, trigger, cur)
  OBVIOUS
<1>2. pc = "settle"
  BY DEF Progress
<1>3. h \in Live /\ HandleOf(h) = cur /\ cur \in Slots
  BY <1>1, <1>2, AtSettle
<1>4. /\ Sound(s) /\ OnlyTouches(m, s, cur)
      /\ s.ring = m.ring /\ s.fd = m.fd /\ s.state = m.state /\ s.ev_permit = m.ev_permit
      /\ s.interest = m.interest /\ s.looptime = m.looptime
      /\ m.timers \subseteq s.timers
      /\ \A e \in s.timers : e[1] <= MaxTime + Timeout
      /\ InUse(s, cur)
  BY <1>1, <1>2, Restarted
<1>5. trigger \in SUBSET (IO \cup {EDGE})
  BY <1>1 DEF Other, IO
<1>6. /\ SoundBut(w, cur) /\ OnlyTouches(s, w, cur)
      /\ w.ring = s.ring /\ w.state = s.state /\ w.fd = s.fd
      /\ w.ev_permit = s.ev_permit /\ w.interest = s.interest
      /\ w.timers = s.timers /\ w.looptime = s.looptime
  BY <1>1, <1>3, <1>4, <1>5, MaskedEffect
<1>7. OnlyTouches(m, w, cur)
  BY <1>4, <1>6 DEF OnlyTouches, Untouched
<1>8. /\ RemoveHandler(w, h) /\ cur' = nxt /\ pc' = "scan" /\ io' = NoIo /\ nxt' = nxt
      /\ UNCHANGED <<evset, backlog, clients, now, sigint, alarm>>
  BY <1>1, <1>4 DEF Progress, Resume, worldVars, ModRefused
<1> QED BY <1>1, <1>2, <1>3, <1>4, <1>6, <1>7, <1>8, RemoveHandlerRemoves

(* Progress succeeds, or the new registration is refused. *)
LEMMA ProgressCases ==
  ASSUME TcpServerIInv, Progress
  PROVE  \/ /\ m' = IF Turns THEN Mod(ModTimer(m, Uptime, cur), {Other, EDGE}, cur)
                             ELSE ModTimer(m, Uptime, cur)
            /\ UNCHANGED <<sock, connVars>>
         \/ \E h, fd : Removes(h, fd)
<1>1. conn[io.h].handle_id = cur
  <2>1. PICK h : h = io.h
    OBVIOUS
  <2> QED BY <2>1, AtSettle DEF Progress
<1>2. \/ /\ m' = IF Turns THEN Mod(ModTimer(m, Uptime, cur), {Other, EDGE}, cur)
                          ELSE ModTimer(m, Uptime, cur)
         /\ UNCHANGED <<sock, connVars>>
      \/ RemoveHandler(ModRefused(ModTimer(m, Uptime, cur), {Other, EDGE}, cur), io.h)
  BY <1>1 DEF Progress
<1> QED BY <1>2, ProgressRefusedRemoves

(* Whatever the call returned. *)
LEMMA SettleKeeps == ASSUME TcpServerIInv, Progress \/ NoProgress \/ Hangup PROVE TcpServerIInv'
BY ProgressCases, ProgressKeeps, NoProgressKeeps, HangupRemoves, RemovesKeeps

-----------------------------------------------------------------------------
(* shutdown(). *)
LEMMA ShutdownHandlerKeeps == ASSUME TcpServerIInv, ShutdownHandler PROVE TcpServerIInv'
<1>1. /\ pc = "shutdown" /\ pc' = pc /\ cur \in Handlers /\ cur' = cur + 1 /\ ~Running /\ ~Running'
      /\ UNCHANGED <<evset, nxt, io, handlers, conn, born, backlog, clients, now, sigint, alarm>>
      /\ evset = {} /\ Sound(m)
  BY HandleTypes DEF ShutdownHandler, Running, connVars, worldVars, TcpServerIInv, Pending
<1>2. Live' = Live /\ \A h : HandleOf(h)' = HandleOf(h)
  BY <1>1 DEF Live, HandleOf
<1>3. Serving = {h \in Live : cur <= h} /\ Serving' = {h \in Live : cur + 1 <= h}
  BY <1>1, <1>2 DEF Serving
<1>4. Objects' /\ Untried' /\ Pending' /\ Settling' /\ CursorOnReady' /\ Lockstep' /\ WakeupKept' /\ Lives'
      /\ InTime'
  BY <1>1 DEF TcpServerIInv, Objects, Untried, Pending, Settling, CursorOnReady, Lockstep, WakeupKept, Lives, InTime
<1>5. \A h \in Live : h \in Nat /\ cur \in Nat
  BY <1>1, LiveFacts, HandleTypes, Numbers
<1>6. LoopTypes' /\ ConnTypes' /\ WorldTypes'
  <2>1. cur + 1 \in Nat
    BY <1>1, Numbers
  <2> QED BY <1>1, <2>1 DEF TcpServerIInv, Types, LoopTypes, ConnTypes, WorldTypes
<1>7. CASE cur > 0 /\ conn[cur].state # FREE
  <2>1. PICK h, id, fd, w : h = cur /\ id = HandleOf(h) /\ fd = m.fd[id] /\ w = Del(m, id)
    OBVIOUS
  <2>2. h \in Live /\ h \in Serving
    BY <1>1, <1>3, <1>5, <1>7, <2>1 DEF Live
  <2>3. Serving' = Serving \ {h}
    BY <1>3, <1>5, <2>1
  <2>4. Holds(h, id) /\ id \in Slots /\ id \in Nodes /\ ~DelRefused(m, id) /\ fd \in ConnFds
    BY <2>1, <2>2, Held, NodesFacts DEF Holds
  <2>5. m' = w /\ sock' = [sock EXCEPT ![fd] = Closed]
    BY <1>7, <2>1, <2>4 DEF ShutdownHandler, CloseFd, HandleOf
  <2>6. SoundBut(m, id)
    BY <1>1 DEF Sound, SoundBut
  <2>7. /\ Sound(w) /\ OnlyTouches(m, w, id) /\ w.state[id] = FREE
        /\ w.timers = m.timers /\ w.looptime = m.looptime
    BY <2>1, <2>4, <2>6, DelEffect
  <2>8. sock \in [ConnFds -> Sockets] /\ Closed \in Sockets
    BY Numbers DEF TcpServerIInv, Types, SockTypes, Sockets, Closed
  <2>9. ~sock'[fd].open /\ \A c \in ConnFds \ {fd} : sock'[c] = sock[c]
    BY <2>4, <2>5, <2>8 DEF Closed
  <2>10. OnlyTouches(m, m', id) /\ m'.state[id] = FREE
    BY <2>5, <2>7
  <2>11. /\ Owners'
         /\ \A g \in Serving \ {h} :
              HandleOf(g) \in Slots /\ Untouched(m, m', HandleOf(g)) /\ Registered(g, HandleOf(g))
    BY <1>2, <2>1, <2>2, <2>3, <2>9, <2>10, ClosedOwners
  <2>12. Registrations'
    <3>1. ASSUME NEW g \in Serving \ {h}
          PROVE  Registered(g, HandleOf(g))'
      BY <1>1, <1>2, <2>11 DEF Registered, Untouched
    <3> QED BY <2>3, <3>1 DEF Registrations
  <2>13. SockTypes' /\ ClockTypes'
    BY <1>1, <2>5, <2>7, <2>8 DEF TcpServerIInv, Types, SockTypes, Sockets, ClockTypes
  <2> QED BY <1>4, <1>6, <2>5, <2>7, <2>11, <2>12, <2>13 DEF TcpServerIInv, Types
<1>8. CASE ~(cur > 0 /\ conn[cur].state # FREE)
  <2>1. m' = m /\ sock' = sock
    BY <1>8 DEF ShutdownHandler
  <2>2. cur \notin Live
    BY <1>5, <1>8 DEF Live
  <2>3. Serving' = Serving
    BY <1>3, <1>5, <2>2
  <2>4. Calm
    BY <1>1, <2>1, OnlyArmedCalm DEF OnlyArmed
  <2>5. Owners' /\ Registrations'
    BY <1>1, <2>3, <2>4, CalmKeeps
  <2>6. SockTypes' /\ ClockTypes' /\ Sound(m)'
    BY <1>1, <2>1 DEF TcpServerIInv, Types, SockTypes, ClockTypes
  <2> QED BY <1>4, <1>6, <2>5, <2>6 DEF TcpServerIInv, Types
<1> QED BY <1>7, <1>8

-----------------------------------------------------------------------------
(* The first of the free objects and the first of the free handles are     *)
(* taken.                                                                  *)
LEMMA TakenInStep ==
  ASSUME TcpServerIInv, HasRoom(m), NEW P \in [FreeObjects -> Slots], InStep(P),
         NEW h, h = handlers.next[FREE], h # FREE, NEW id, id = m.ring.next[FREE],
         m'.ring = Relink(m.ring, id, WAIT), handlers' = Relink(handlers, h, WAIT),
         \A g \in Handlers \ {h} : conn'[g] = conn[g], conn'[h].state # FREE
  PROVE  HasRoom(m') /\ \E Q \in [FreeObjects' -> Slots] : InStep(Q)'
<1>1. PICK t, r : t = m'.ring /\ r = handlers'
  OBVIOUS
<1>2. /\ WellLinked(m.ring, Nodes) /\ id \in Nodes /\ id \in Slots /\ FREE \in Nodes /\ WAIT \in Nodes
      /\ id # FREE /\ id # WAIT /\ FREE # WAIT
      /\ m.ring.home[FREE] = FREE /\ m.ring.home[WAIT] = WAIT /\ m.ring.home[id] = FREE
      /\ m.ring.prev[id] = FREE
  <2>1. /\ WellLinked(m.ring, Nodes) /\ \A g \in Heads : m.ring.home[g] = g
        /\ FREE \in Nodes /\ WAIT \in Nodes /\ FREE # WAIT /\ FREE \in Heads /\ WAIT \in Heads
    BY NodesFacts, HandleTypes DEF RingOK, Heads
  <2>2. id \in Slots /\ id # FREE
    BY HandleTypes, FreshIdFree DEF FreshId, HasRoom, EmptyRing
  <2>3. m.ring.home[id] = FREE /\ m.ring.prev[id] = FREE
    BY <2>1, ReadyRing
  <2> QED BY <2>1, <2>2, <2>3, NodesFacts
<1>3. PICK q : q = IF m.ring.next[id] = WAIT THEN m.ring.prev[id] ELSE m.ring.prev[WAIT]
  OBVIOUS
<1>4. /\ m.ring.next[id] # WAIT /\ q \in Nodes /\ m.ring.home[q] = WAIT
  BY <1>2, <1>3, ReadyRing
<1>5. /\ \A i \in Nodes : t.prev[i] = IF i = WAIT THEN id
                                     ELSE IF i = id THEN q
                                     ELSE IF i = m.ring.next[id] THEN FREE ELSE m.ring.prev[i]
      /\ \A i \in Nodes : t.next[i] = IF i = id THEN WAIT
                                     ELSE IF i = q THEN id
                                     ELSE IF i = FREE THEN m.ring.next[id] ELSE m.ring.next[i]
  BY <1>1, <1>2, <1>3, RelinkShape
<1>6. \A i \in Nodes : t.home[i] = IF i = id THEN WAIT ELSE m.ring.home[i]
  BY <1>1, <1>2, RelinkLinks
<1>7. /\ WellLinked(handlers, Handlers) /\ h \in Handlers /\ h \in FreeObjects /\ FREE \in Handlers
      /\ WAIT \in Handlers /\ h # WAIT /\ handlers.home[h] = FREE /\ handlers.prev[h] = FREE
      /\ handlers.home[WAIT] = WAIT /\ handlers.home[FREE] = FREE
  BY <1>2, ObjectRing
<1>8. PICK o : o = IF handlers.next[h] = WAIT THEN handlers.prev[h] ELSE handlers.prev[WAIT]
  OBVIOUS
<1>9. handlers.next[h] # WAIT /\ o \in Handlers /\ handlers.home[o] = WAIT
  BY <1>2, <1>7, <1>8, ObjectRing
<1>10. /\ \A i \in Handlers : r.prev[i] = IF i = WAIT THEN h
                                     ELSE IF i = h THEN o
                                     ELSE IF i = handlers.next[h] THEN FREE ELSE handlers.prev[i]
       /\ \A i \in Handlers : r.next[i] = IF i = h THEN WAIT
                                     ELSE IF i = o THEN h
                                     ELSE IF i = FREE THEN handlers.next[h] ELSE handlers.next[i]
  BY <1>1, <1>7, <1>8, RelinkShape
<1>11. ASSUME NEW g \in FreeObjects
       PROVE  /\ P[g] \in Slots /\ P[g] \in Nodes /\ P[g] # id /\ P[g] # FREE /\ P[g] # q /\ P[g] # WAIT
              /\ m.ring.home[P[g]] = FREE
              /\ m.ring.prev[P[g]] = IF handlers.prev[g] = FREE THEN id ELSE P[handlers.prev[g]]
              /\ g \in Handlers /\ g # FREE /\ g # WAIT /\ handlers.home[g] = FREE
              /\ handlers.prev[g] # FREE => handlers.prev[g] \in FreeObjects
              /\ handlers.prev[g] \in Handlers /\ handlers.next[handlers.prev[g]] = g
  <2>1. /\ P[g] \in Slots /\ m.ring.home[P[g]] = FREE
        /\ m.ring.prev[P[g]] = IF handlers.prev[g] = FREE THEN id ELSE P[handlers.prev[g]]
    BY DEF InStep
  <2>2. /\ g \in Handlers /\ g # FREE /\ handlers.home[g] = FREE
        /\ handlers.prev[g] # FREE => handlers.prev[g] \in FreeObjects
        /\ handlers.prev[g] \in Handlers /\ handlers.next[handlers.prev[g]] = g
    <3>1. g \in Handlers
      BY Numbers DEF FreeObjects
    <3> QED BY <3>1, ObjectRing
  <2>3. m.ring.prev[P[g]] \in Slots
    BY <1>2, <2>1, <2>2
  <2>4. FREE \notin Slots /\ WAIT \notin Slots
    BY NodesFacts DEF Heads
  <2> QED BY <1>2, <1>4, <1>7, <2>1, <2>2, <2>3, <2>4, NodesFacts
<1>12. m.ring.next[id] = P[h]
  <2>1. m.ring.prev[P[h]] = id /\ P[h] \in Nodes
    BY <1>7, <1>11
  <2> QED BY <2>1, ReadyRing
<1>13. t.next[FREE] = P[h] /\ t.next[P[h]] = m.ring.next[P[h]] /\ P[h] # FREE
  BY <1>2, <1>4, <1>5, <1>7, <1>11, <1>12
<1>14. HasRoom(m')
  BY <1>1, <1>13 DEF HasRoom, EmptyRing
<1>15. FreeObjects' = FreeObjects \ {h}
  <2>1. h \in Connections
    BY <1>7 DEF FreeObjects
  <2> QED BY <2>1, Numbers DEF FreeObjects
<1>16. PICK Q : Q = [g \in FreeObjects \ {h} |-> P[g]]
  OBVIOUS
<1>17. r.next[FREE] = handlers.next[h]
  BY <1>2, <1>7, <1>9, <1>10
<1>18. r.next[FREE] = FREE => t.next[t.next[FREE]] = FREE
  BY <1>7, <1>13, <1>17 DEF InStep
<1>19. ASSUME NEW g \in FreeObjects \ {h}
       PROVE  /\ t.home[Q[g]] = FREE
              /\ conn'[g].handle_id \in {-1, Q[g]}
              /\ t.prev[Q[g]] = IF r.prev[g] = FREE THEN t.next[FREE] ELSE Q[r.prev[g]]
              /\ r.next[g] = FREE => t.next[Q[g]] = FREE
  <2>1. Q[g] = P[g] /\ g \in FreeObjects
    BY <1>16
  <2>2. handlers.prev[g] # FREE
    BY <1>11, <2>1
  <2>3. m.ring.prev[P[g]] = P[handlers.prev[g]] /\ handlers.prev[g] \in FreeObjects
    BY <1>11, <2>1, <2>2
  <2>4. P[g] # P[h]
    BY <1>7, <1>11, <2>3
  <2>5. t.prev[P[g]] = P[handlers.prev[g]] /\ t.home[P[g]] = FREE
    BY <1>5, <1>6, <1>11, <1>12, <2>1, <2>3, <2>4
  <2>6. conn'[g].handle_id \in {-1, Q[g]}
    <3>1. conn[g].handle_id \in {-1, P[g]}
      BY <2>1 DEF InStep
    <3> QED BY <1>11, <2>1, <3>1
  <2>7. r.next[g] = FREE => t.next[P[g]] = FREE
    <3>1. r.next[g] = handlers.next[g]
      BY <1>2, <1>9, <1>10, <1>11, <2>1
    <3>2. t.next[P[g]] = m.ring.next[P[g]]
      BY <1>5, <1>11, <2>1
    <3> QED BY <2>1, <3>1, <3>2 DEF InStep
  <2>8. CASE g = handlers.next[h]
    <3>1. r.prev[g] = FREE /\ handlers.prev[g] = h
      BY <1>7, <1>10, <1>11, <2>1, <2>8, ObjectRing
    <3> QED BY <1>13, <2>1, <2>5, <2>6, <2>7, <3>1
  <2>9. CASE g # handlers.next[h]
    <3>1. r.prev[g] = handlers.prev[g] /\ handlers.prev[g] # h
      BY <1>10, <1>11, <2>1, <2>9
    <3>2. Q[handlers.prev[g]] = P[handlers.prev[g]]
      BY <1>16, <2>3, <3>1
    <3> QED BY <2>1, <2>2, <2>5, <2>6, <2>7, <3>1, <3>2
  <2> QED BY <2>8, <2>9
<1>20. InStep(Q)'
  BY <1>1, <1>15, <1>18, <1>19 DEF InStep, EmptyRing
<1>21. Q \in [FreeObjects' -> Slots]
  BY <1>15, <1>16
<1> QED BY <1>14, <1>20, <1>21
-----------------------------------------------------------------------------
(* on_accept that accepts nobody: the pass goes on, the listener's queue   *)
(* may be shorter, and the free object forgets its handle.                 *)
PassedBy ==
  /\ Scanning /\ TIMER \notin Enabled(m, cur) /\ Advance
  /\ UNCHANGED <<m, evset, sock, handlers, born, clients, now, sigint, alarm>>
  /\ backlog' \in Nat /\ backlog' <= backlog
  /\ conn' = conn \/ \E h \in FreeObjects : conn' = [conn EXCEPT ![h].handle_id = -1]

(* A client that is not served, or none, changes nothing but the backlog. *)
LEMMA PassedByKeeps == ASSUME TcpServerIInv, PassedBy PROVE TcpServerIInv'
<1>1. /\ pc = "scan" /\ Running /\ io = NoIo /\ evset = {} /\ ~sigint
      /\ m.ring.next[cur] \in Nodes /\ m.ring.home[m.ring.next[cur]] = READY
      /\ m.ring.next[cur] \in Nat
  BY AtCursor DEF PassedBy
<1>2. /\ cur' = m.ring.next[cur] /\ pc' = "scan" /\ nxt' = nxt /\ io' = NoIo /\ Running'
      /\ UNCHANGED <<m, evset, sock, handlers, born, clients, now, sigint, alarm>>
      /\ backlog' \in Nat /\ backlog' <= backlog
  BY <1>1 DEF PassedBy, Advance, Running
<1>3. conn \in [Handlers -> [state : {FREE, WAIT}, handle_id : {-1} \cup Slots, iowait : SUBSET IO]]
  BY DEF TcpServerIInv, Types, ConnTypes
<1>4. /\ conn' \in [Handlers -> [state : {FREE, WAIT}, handle_id : {-1} \cup Slots, iowait : SUBSET IO]]
      /\ \A g \in Handlers : /\ conn'[g].state = conn[g].state
                             /\ conn'[g].handle_id \in {-1, conn[g].handle_id}
                             /\ g \notin FreeObjects => conn'[g] = conn[g]
  <2>1. CASE conn' = conn
    BY <1>3, <2>1
  <2>2. CASE \E h \in FreeObjects : conn' = [conn EXCEPT ![h].handle_id = -1]
    <3>1. PICK h \in FreeObjects : conn' = [conn EXCEPT ![h].handle_id = -1]
      BY <2>2
    <3>2. h \in Handlers
      BY Numbers DEF FreeObjects
    <3> QED BY <1>3, <3>1, <3>2
  <2> QED BY <2>1, <2>2 DEF PassedBy
<1>5. Live' = Live /\ FreeObjects' = FreeObjects /\ Serving = Live /\ Serving' = Live
  BY <1>1, <1>2, <1>4, Numbers DEF Live, FreeObjects, Serving
<1>6. ASSUME NEW g \in Live, NEW id, id = HandleOf(g)
      PROVE  /\ HandleOf(g)' = id /\ conn'[g] = conn[g] /\ g \in Handlers
             /\ Holds(g, id) /\ Registered(g, id) /\ m.fd[id] \in ConnFds
             /\ TimedOut(g)' <=> TimedOut(g)
  <2>1. g \in Handlers /\ g \notin FreeObjects
    BY ObjectRing
  <2>2. Holds(g, id) /\ Registered(g, id)
    BY <1>5, <1>6, Held
  <2> QED BY <1>2, <1>4, <1>6, <2>1, <2>2 DEF HandleOf, Holds, TimedOut, Enabled
<1>7. Types'
  <2>1. LoopTypes'
    BY <1>1, <1>2 DEF TcpServerIInv, Types, LoopTypes
  <2>2. SockTypes' /\ ClockTypes' /\ born' \in [Handlers -> 0..MaxTime]
    BY <1>2 DEF TcpServerIInv, Types, SockTypes, ClockTypes, ConnTypes
  <2>3. WorldTypes'
    BY <1>2, Numbers DEF TcpServerIInv, Types, WorldTypes
  <2> QED BY <1>4, <2>1, <2>2, <2>3 DEF Types, ConnTypes
<1>8. Untried' /\ Sound(m)' /\ Pending' /\ Settling' /\ CursorOnReady'
  BY <1>1, <1>2, HandleTypes DEF Untried, Pending, Settling, CursorOnReady
<1>9. Objects'
  <2>1. /\ conn'[FREE].state = FREE /\ conn'[WAIT].state = FREE
        /\ \A h \in Connections : handlers.home[h] = conn'[h].state
    BY <1>4, Numbers DEF TcpServerIInv, Objects
  <2> QED BY <1>2, <2>1 DEF TcpServerIInv, Objects
<1>10. Owners'
  <2>1. \A g \in Live : Holds(g, HandleOf(g))'
    BY <1>2, <1>6 DEF Holds, InUse
  <2>2. \A g, k \in Live : m.fd[HandleOf(g)'] = m.fd[HandleOf(k)'] => g = k
    BY <1>5, <1>6 DEF TcpServerIInv, Owners
  <2>3. \A fd \in ConnFds : sock[fd].open => \E g \in Live : m.fd[HandleOf(g)'] = fd
    BY <1>5, <1>6 DEF TcpServerIInv, Owners
  <2>4. \A id \in Slots : InUse(m, id) => Listening(id) \/ \E g \in Live : HandleOf(g)' = id
    BY <1>5, <1>6 DEF TcpServerIInv, Owners
  <2> QED BY <1>2, <1>5, <2>1, <2>2, <2>3, <2>4 DEF Owners, Listening
<1>11. Registrations'
  <2>1. \A g \in Live : Registered(g, HandleOf(g))'
    BY <1>1, <1>2, <1>6 DEF Registered
  <2> QED BY <1>5, <2>1 DEF Registrations
<1>12. Lockstep'
  <2>1. PICK P \in [FreeObjects -> Slots] : HasRoom(m) /\ InStep(P)
    BY <1>1 DEF TcpServerIInv, Lockstep
  <2>2. \A h \in FreeObjects : conn'[h].handle_id \in {-1, P[h]}
    <3>1. \A h \in FreeObjects : h \in Handlers /\ conn[h].handle_id \in {-1, P[h]}
      BY <2>1, Numbers DEF InStep, FreeObjects
    <3> QED BY <1>4, <3>1
  <2>3. InStep(P)' /\ HasRoom(m')
    BY <1>2, <1>5, <2>1, <2>2 DEF InStep
  <2> QED BY <1>5, <2>3 DEF Lockstep
<1>13. WakeupKept'
  <2>1. ASSUME NEW g \in Live, NEW id, id = HandleOf(g), NEW c, c = m.fd[id],
               PollFd(c)' \cap conn'[g].iowait # {}
        PROVE  \/ m.ring.home[id] = READY /\ Enabled(m, id) \cap IO # {}
               \/ id \in m.armed /\ m.interest[id] \cap PollFd(c)' # {}
    <3>1. g # 0
      BY LiveFacts, HandleTypes
    <3>2. PollFd(c)' = PollFd(c) /\ io.h # g /\ conn'[g] = conn[g]
      BY <1>1, <1>2, <1>6, <2>1, <3>1, Numbers DEF PollFd, NoIo
    <3> QED BY <1>1, <2>1, <3>2 DEF TcpServerIInv, WakeupKept
  <2>2. \A g \in Live : HandleOf(g)' = HandleOf(g)
    BY <1>6
  <2> QED BY <1>2, <1>5, <2>1, <2>2 DEF WakeupKept, Enabled
<1>14. Lives'
  BY <1>1, <1>2, <1>5, <1>6 DEF TcpServerIInv, Lives
<1>15. InTime'
  <2>1. PICK A \in SUBSET Slots : Ahead(A, cur)
    BY <1>1 DEF TcpServerIInv, InTime
  <2>2. PICK B \in SUBSET Slots : B = A \ {cur}
    OBVIOUS
  <2>3. Ahead(B, cur)'
    <3>1. \A a \in B : m.ring.home[a] = READY /\ (a = m.ring.next[cur] \/ m.ring.prev[a] \in B)
      BY <2>1, <2>2, NextAhead
    <3>2. \A g \in Live : TimedOut(g) => HandleOf(g) \in B
      BY <2>1, <2>2 DEF Ahead, TimedOut, PassedBy
    <3> QED BY <1>2, <1>5, <1>6, <3>1, <3>2 DEF Ahead
  <2>4. DueNoticed'
    BY <1>1, <1>2, <1>5, <1>6 DEF TcpServerIInv, InTime, DueNoticed
  <2> QED BY <1>2, <2>3, <2>4 DEF InTime
<1> QED BY <1>7, <1>8, <1>9, <1>10, <1>11, <1>12, <1>13, <1>14, <1>15 DEF TcpServerIInv
-----------------------------------------------------------------------------
(* Two nodes of the vector are heads of rings. *)
LEMMA ObjectCount == IsFiniteSet(Connections) /\ Cardinality(Connections) = MaxConnections - 1
<1>1. Connections = 2..MaxConnections
  BY Numbers DEF Connections, Handlers, FREE, WAIT
<1>2. IsFiniteSet(2..MaxConnections) /\ Cardinality(2..MaxConnections) = MaxConnections - 1
  <2>1. 2 \in Int /\ MaxConnections \in Int
    BY Numbers
  <2>2. Cardinality(2..MaxConnections) = IF 2 > MaxConnections THEN 0 ELSE MaxConnections - 2 + 1
    BY <2>1, FS_Interval
  <2> QED BY <2>1, <2>2, FS_Interval, Numbers
<1> QED BY <1>1, <1>2

(* There are fewer connection objects than descriptors for them: accept    *)
(* finds one that is not open.                                             *)
LEMMA FdFree ==
  ASSUME TcpServerIInv, Running
  PROVE  AcceptFd \in ConnFds /\ ~sock[AcceptFd].open
<1>1. IsFiniteSet(ConnFds) /\ Cardinality(ConnFds) = MaxConnections
  BY Numbers, FS_Interval DEF ConnFds
<1>2. IsFiniteSet(Connections) /\ Cardinality(Connections) = MaxConnections - 1
  BY ObjectCount
<1>3. \E fd \in ConnFds : ~sock[fd].open
  <2> SUFFICES ASSUME \A fd \in ConnFds : sock[fd].open PROVE FALSE
    OBVIOUS
  <2>1. \A fd \in ConnFds : \E h \in Connections : m.fd[HandleOf(h)] = fd
    BY RunningServes, LiveFacts, HandleTypes DEF TcpServerIInv, Owners
  <2>2. PICK f : f = [fd \in ConnFds |-> CHOOSE h \in Connections : m.fd[HandleOf(h)] = fd]
    OBVIOUS
  <2>3. f \in [ConnFds -> Connections] /\ \A fd \in ConnFds : m.fd[HandleOf(f[fd])] = fd
    BY <2>1, <2>2
  <2>4. Cardinality(ConnFds) > Cardinality(Connections)
    BY <1>1, <1>2, Numbers
  <2>5. \E x, y \in ConnFds : x # y /\ f[x] = f[y]
    BY <1>1, <1>2, <2>3, <2>4, FS_PigeonHole
  <2> QED BY <2>3, <2>5
<1>4. \E fd \in ConnFds : ~sock[fd].open /\ \A other \in ConnFds : ~sock[other].open => fd <= other
  <2>1. PICK T : T = {fd \in ConnFds : ~sock[fd].open}
    OBVIOUS
  <2>2. T \subseteq Nat /\ T # {}
    BY <1>3, <2>1, Numbers
  <2> QED BY <2>1, <2>2, LeastElement
<1> QED BY <1>4 DEF AcceptFd

(* A connection is accepted: the first free object and the first free      *)
(* handle for the file fd.                                                 *)
Welcomed(h, id, fd) ==
  /\ Scanning /\ TIMER \notin Enabled(m, cur) /\ Advance
  /\ h = handlers.next[FREE] /\ h # FREE /\ id = m.ring.next[FREE] /\ HasRoom(m)
  /\ fd \in ConnFds /\ ~sock[fd].open
  /\ UNCHANGED <<evset, clients, now, sigint, alarm>>
  /\ backlog' \in Nat /\ backlog' <= backlog
  /\ Sound(m)' /\ OnlyTouches(m, m', id) /\ m'.ring = Relink(m.ring, id, WAIT)
  /\ m'.fd[id] = fd /\ m'.handler_id[id] = h /\ m'.state[id] = WAIT /\ m'.ev_permit[id]
  /\ m'.ev_mask[id] = {"READ", TIMER} /\ m'.interest[id] = {"READ", EDGE}
  /\ m'.events[id] = {} /\ id \in m'.armed
  /\ m'.looptime = m.looptime
  /\ m'.timers = m.timers \cup {<<m.looptime + Timeout, id>>}
  /\ sock' \in [ConnFds -> Sockets] /\ sock'[fd].open
  /\ \A c \in ConnFds \ {fd} : sock'[c] = sock[c]
  /\ conn' = [conn EXCEPT ![h] = [state |-> WAIT, handle_id |-> id, iowait |-> {"READ"}]]
  /\ handlers' = Relink(handlers, h, WAIT)
  /\ born' = [born EXCEPT ![h] = m.looptime]

(* What is new and what is not. *)
LEMMA WelcomedFacts ==
  ASSUME TcpServerIInv, NEW h, NEW id, NEW fd, Welcomed(h, id, fd)
  PROVE  /\ h \in FreeObjects /\ h \in Connections /\ h \in Handlers /\ h \notin Live /\ h # 0
         /\ id \in Slots /\ id # cur /\ m.state[id] = FREE /\ m.ring.home[id] = FREE
         /\ Live' = Live \cup {h} /\ Serving = Live /\ Serving' = Live \cup {h}
         /\ \A g \in Handlers \ {h} : conn'[g] = conn[g] /\ born'[g] = born[g]
         /\ conn'[h] = [state |-> WAIT, handle_id |-> id, iowait |-> {"READ"}]
         /\ born'[h] = m.looptime /\ HandleOf(h)' = id
         /\ \A i \in Nodes : m'.ring.home[i] = IF i = id THEN WAIT ELSE m.ring.home[i]
         /\ \A i \in Nodes : m.ring.home[i] = READY => m'.ring.next[i] = m.ring.next[i]
                                                       /\ m'.ring.prev[i] = m.ring.prev[i]
<1>1. Scanning /\ HasRoom(m) /\ id = FreshId(m) /\ h = handlers.next[FREE] /\ h # FREE
  BY DEF Welcomed, FreshId
<1>2. h \in FreeObjects /\ h \in Connections /\ h \in Handlers /\ h \notin Live /\ h # 0
  <2>1. h \in Handlers /\ handlers.home[h] = FREE
    BY <1>1, ObjectRing
  <2>2. h \in FreeObjects
    BY <1>1, <2>1, ObjectRing
  <2> QED BY <1>1, <2>1, <2>2 DEF FreeObjects, Live, FREE
<1>3. id \in Slots /\ m.state[id] = FREE /\ m.ring.home[id] = FREE /\ id \in Nodes
  <2>1. id \in Slots /\ m.state[id] = FREE
    BY <1>1, HandleTypes, FreshIdFree
  <2>2. HandleOK(m, id, m.ring.home[id])
    BY <2>1, HandleTypes DEF Sound
  <2> QED BY <2>1, <2>2, NodesFacts DEF HandleOK
<1>4. id # cur
  BY <1>1, <1>3, AtCursor
<1>5. /\ conn \in [Handlers -> [state : {FREE, WAIT}, handle_id : {-1} \cup Slots, iowait : SUBSET IO]]
      /\ born \in [Handlers -> 0..MaxTime]
      /\ conn' = [conn EXCEPT ![h] = [state |-> WAIT, handle_id |-> id, iowait |-> {"READ"}]]
      /\ born' = [born EXCEPT ![h] = m.looptime]
  BY DEF TcpServerIInv, Types, ConnTypes, Welcomed
<1>6. /\ \A g \in Handlers \ {h} : conn'[g] = conn[g] /\ born'[g] = born[g]
      /\ conn'[h] = [state |-> WAIT, handle_id |-> id, iowait |-> {"READ"}]
      /\ born'[h] = m.looptime /\ HandleOf(h)' = id
  BY <1>2, <1>5 DEF HandleOf
<1>7. Live' = Live \cup {h}
  BY <1>2, <1>6, NodesFacts DEF Live
<1>8. Running /\ Running'
  BY <1>1, AtCursor DEF Welcomed, Advance, Running
<1>9. Serving = Live /\ Serving' = Live \cup {h}
  BY <1>7, <1>8 DEF Serving
<1>10. PICK t : t = m'.ring
  OBVIOUS
<1>11. t = Relink(m.ring, id, WAIT) /\ WellLinked(m.ring, Nodes) /\ WAIT \in Nodes /\ WAIT # id
       /\ m.ring.home[WAIT] = WAIT /\ m.ring.prev[id] # id
  <2>1. WellLinked(m.ring, Nodes) /\ Rooted(m.ring, Nodes, Heads) /\ m.ring.home[WAIT] = WAIT
    BY HandleTypes DEF RingOK, Heads
  <2>2. id \in Nodes \ Heads
    BY <1>3, NodesFacts
  <2>3. m.ring.prev[id] # id
    BY <2>1, <2>2, RootedNotAlone
  <2> QED BY <1>10, <2>1, <2>2, <2>3, NodesFacts DEF Welcomed, Heads
<1>12. \A i \in Nodes : t.home[i] = IF i = id THEN WAIT ELSE m.ring.home[i]
  BY <1>3, <1>11, RelinkLinks
<1>13. ASSUME NEW i \in Nodes, m.ring.home[i] = READY
       PROVE  t.next[i] = m.ring.next[i] /\ t.prev[i] = m.ring.prev[i]
  <2>1. m.ring.home[i] # m.ring.home[id] /\ m.ring.home[i] # WAIT
    BY <1>3, <1>13, NodesFacts
  <2> QED BY <1>3, <1>11, <2>1, RelinkElsewhere
<1> QED BY <1>2, <1>3, <1>4, <1>6, <1>7, <1>9, <1>10, <1>12, <1>13

(* All that serving one more client keeps. *)
LEMMA WelcomedKeeps ==
  ASSUME TcpServerIInv, NEW h, NEW id, NEW fd, Welcomed(h, id, fd)
  PROVE  TcpServerIInv'
<1>1. /\ pc = "scan" /\ Running /\ io = NoIo /\ evset = {} /\ ~sigint
      /\ cur \in Slots /\ cur \in Nodes /\ m.ring.home[cur] = READY
      /\ m.ring.next[cur] \in Nodes /\ m.ring.home[m.ring.next[cur]] = READY
      /\ m.ring.next[cur] \in Nat
  BY AtCursor DEF Welcomed
<1>2. /\ cur' = m.ring.next[cur] /\ pc' = "scan" /\ nxt' = nxt /\ io' = NoIo /\ Running'
      /\ UNCHANGED <<evset, clients, now, sigint, alarm>>
      /\ backlog' \in Nat /\ backlog' <= backlog
  BY <1>1 DEF Welcomed, Advance, Running
<1>3. /\ h \in FreeObjects /\ h \in Connections /\ h \in Handlers /\ h \notin Live /\ h # 0
      /\ id \in Slots /\ id # cur /\ m.state[id] = FREE /\ m.ring.home[id] = FREE
      /\ Live' = Live \cup {h} /\ Serving = Live /\ Serving' = Live \cup {h}
      /\ \A g \in Handlers \ {h} : conn'[g] = conn[g] /\ born'[g] = born[g]
      /\ conn'[h] = [state |-> WAIT, handle_id |-> id, iowait |-> {"READ"}]
      /\ born'[h] = m.looptime /\ HandleOf(h)' = id
      /\ \A i \in Nodes : m'.ring.home[i] = IF i = id THEN WAIT ELSE m.ring.home[i]
      /\ \A i \in Nodes : m.ring.home[i] = READY => m'.ring.next[i] = m.ring.next[i]
                                                    /\ m'.ring.prev[i] = m.ring.prev[i]
  BY WelcomedFacts
<1>4. /\ fd \in ConnFds /\ ~sock[fd].open
      /\ Sound(m)' /\ OnlyTouches(m, m', id)
      /\ m'.fd[id] = fd /\ m'.handler_id[id] = h /\ m'.state[id] = WAIT /\ m'.ev_permit[id]
      /\ m'.ev_mask[id] = {"READ", TIMER} /\ m'.interest[id] = {"READ", EDGE}
      /\ m'.events[id] = {} /\ id \in m'.armed
      /\ m'.looptime = m.looptime
      /\ m'.timers = m.timers \cup {<<m.looptime + Timeout, id>>}
      /\ sock' \in [ConnFds -> Sockets] /\ sock'[fd].open
      /\ \A c \in ConnFds \ {fd} : sock'[c] = sock[c]
  BY DEF Welcomed
<1>5. ASSUME NEW g \in Live, NEW i, i = HandleOf(g)
      PROVE  /\ HandleOf(g)' = i /\ conn'[g] = conn[g] /\ born'[g] = born[g] /\ g \in Handlers
             /\ g # h /\ i \in Slots /\ i # id /\ i \in Nodes
             /\ Untouched(m, m', i) /\ Holds(g, i) /\ Registered(g, i)
             /\ m.fd[i] \in ConnFds /\ m.fd[i] # fd /\ g # 0
             /\ TimedOut(g)' <=> TimedOut(g)
  <2>1. g \in Handlers /\ g # h /\ conn'[g] = conn[g] /\ born'[g] = born[g] /\ g # 0
    BY <1>3, ObjectRing, LiveFacts, HandleTypes
  <2>2. Holds(g, i) /\ Registered(g, i) /\ i \in Slots /\ m.state[i] # FREE
    BY <1>3, <1>5, Held
  <2>3. i # id /\ m.fd[i] # fd /\ i \in Nodes
    BY <1>3, <1>4, <2>2, NodesFacts DEF Holds
  <2>4. Untouched(m, m', i)
    BY <1>4, <2>2, <2>3 DEF OnlyTouches
  <2>5. HandleOf(g)' = i
    BY <1>5, <2>1 DEF HandleOf
  <2> QED BY <1>5, <2>1, <2>2, <2>3, <2>4, <2>5 DEF Holds, TimedOut, Enabled, Untouched
<1>6. /\ m.looptime \in 0..MaxTime /\ m.looptime \in Nat /\ m.looptime + Timeout <= MaxTime + Timeout
      /\ m.looptime < m.looptime + Timeout
  BY UptimeFacts, Numbers
<1>7. Types'
  <2>1. LoopTypes'
    BY <1>1, <1>2 DEF TcpServerIInv, Types, LoopTypes
  <2>2. SockTypes'
    BY <1>4 DEF SockTypes, Sockets
  <2>3. ConnTypes'
    <3>1. [state |-> WAIT, handle_id |-> id, iowait |-> {"READ"}]
            \in [state : {FREE, WAIT}, handle_id : {-1} \cup Slots, iowait : SUBSET IO]
      BY <1>3 DEF IO
    <3> QED BY <1>3, <1>6, <3>1 DEF TcpServerIInv, Types, ConnTypes, Welcomed
  <2>4. WorldTypes'
    BY <1>2, Numbers DEF TcpServerIInv, Types, WorldTypes
  <2>5. ClockTypes'
    BY <1>2, <1>4, <1>6 DEF TcpServerIInv, Types, ClockTypes
  <2> QED BY <2>1, <2>2, <2>3, <2>4, <2>5 DEF Types
<1>8. Untried' /\ Pending' /\ Settling'
  BY <1>1, <1>2 DEF Untried, Pending, Settling
<1>9. CursorOnReady'
  BY <1>1, <1>2, <1>3, NodesFacts DEF CursorOnReady
<1>10. Objects'
  <2>1. PICK r : r = handlers'
    OBVIOUS
  <2>2. /\ r = Relink(handlers, h, WAIT) /\ h \in Handlers \ {FREE, WAIT} /\ WAIT \in {FREE, WAIT}
        /\ WAIT \in Handlers /\ h # WAIT
    BY <1>3, <2>1, Numbers DEF Welcomed
  <2>3. /\ WellLinked(r, Handlers)
        /\ \A i \in Handlers : r.home[i] = IF i = h THEN WAIT ELSE handlers.home[i]
    BY <2>2, ObjectRing, RelinkLinks
  <2>4. Rooted(r, Handlers, {FREE, WAIT})
    BY <2>2, ObjectRing, RelinkRooted
  <2>5. conn'[FREE].state = FREE /\ conn'[WAIT].state = FREE
    BY <1>3, <2>2, Numbers DEF TcpServerIInv, Objects
  <2>6. \A g \in Connections : r.home[g] = conn'[g].state
    BY <1>3, <2>3, Numbers DEF TcpServerIInv, Objects
  <2>7. FREE \in Handlers /\ FREE # h
    BY <2>2, Numbers
  <2> QED BY <2>1, <2>2, <2>3, <2>4, <2>5, <2>6, <2>7, ObjectRing DEF Objects
<1>11. Owners'
  <2>1. \A g \in Live : Holds(g, HandleOf(g))'
    BY <1>4, <1>5 DEF Holds, InUse, Untouched
  <2>2. Holds(h, HandleOf(h))'
    BY <1>3, <1>4, NodesFacts DEF Holds, InUse
  <2>3. \A g, k \in Live \cup {h} : m'.fd[HandleOf(g)'] = m'.fd[HandleOf(k)'] => g = k
    <3>1. \A g \in Live : m'.fd[HandleOf(g)'] = m.fd[HandleOf(g)] /\ m.fd[HandleOf(g)] # fd
      BY <1>5 DEF Untouched
    <3>2. m'.fd[HandleOf(h)'] = fd
      BY <1>3, <1>4
    <3>3. \A g, k \in Live : m.fd[HandleOf(g)] = m.fd[HandleOf(k)] => g = k
      BY <1>3 DEF TcpServerIInv, Owners
    <3> QED BY <3>1, <3>2, <3>3
  <2>4. \A c \in ConnFds : sock'[c].open => \E g \in Live \cup {h} : m'.fd[HandleOf(g)'] = c
    <3>1. ASSUME NEW c \in ConnFds, sock'[c].open, c # fd
          PROVE  \E g \in Live : m'.fd[HandleOf(g)'] = c
      <4>1. PICK g \in Live : m.fd[HandleOf(g)] = c
        BY <1>3, <1>4, <3>1 DEF TcpServerIInv, Owners
      <4> QED BY <1>5, <4>1 DEF Untouched
    <3> QED BY <1>3, <1>4, <3>1
  <2>5. ASSUME NEW i \in Slots, InUse(m', i)
        PROVE  Listening(i)' \/ \E g \in Live \cup {h} : HandleOf(g)' = i
    <3>1. CASE i = id
      BY <1>3, <3>1
    <3>2. CASE i # id
      <4>1. Untouched(m, m', i)
        BY <1>4, <3>2 DEF OnlyTouches
      <4>2. Listening(i) \/ \E g \in Live : HandleOf(g) = i
        BY <1>3, <2>5, <4>1 DEF TcpServerIInv, Owners, InUse, Untouched
      <4> QED BY <1>5, <4>1, <4>2 DEF Listening, Untouched
    <3> QED BY <3>1, <3>2
  <2> QED BY <1>3, <2>1, <2>2, <2>3, <2>4, <2>5 DEF Owners
<1>12. Registrations'
  <2>1. \A g \in Live : Registered(g, HandleOf(g))'
    BY <1>1, <1>2, <1>5 DEF Registered, Untouched
  <2>2. Registered(h, HandleOf(h))'
    BY <1>3, <1>4 DEF Registered, Direction, IO, TIMER, EDGE
  <2> QED BY <1>3, <2>1, <2>2 DEF Registrations
<1>13. Lockstep'
  <2>1. PICK P \in [FreeObjects -> Slots] : HasRoom(m) /\ InStep(P)
    BY <1>1 DEF TcpServerIInv, Lockstep
  <2>2. /\ h = handlers.next[FREE] /\ h # FREE /\ id = m.ring.next[FREE]
        /\ m'.ring = Relink(m.ring, id, WAIT) /\ handlers' = Relink(handlers, h, WAIT)
    BY DEF Welcomed
  <2>3. conn'[h].state # FREE
    BY <1>3, NodesFacts
  <2>4. HasRoom(m') /\ \E Q \in [FreeObjects' -> Slots] : InStep(Q)'
    BY <1>3, <2>1, <2>2, <2>3, TakenInStep
  <2> QED BY <2>4 DEF Lockstep
<1>14. WakeupKept'
  <2>1. ASSUME NEW g \in Live, NEW i, i = HandleOf(g), NEW c, c = m.fd[i],
               PollFd(c)' \cap conn'[g].iowait # {}
        PROVE  \/ m'.ring.home[i] = READY /\ Enabled(m', i) \cap IO # {}
               \/ i \in m'.armed /\ m'.interest[i] \cap PollFd(c)' # {}
    <3>1. PollFd(c)' = PollFd(c) /\ io.h # g /\ conn'[g] = conn[g]
      <4>1. c \in ConnFds /\ c # fd /\ g # 0
        BY <1>5, <2>1
      <4> QED BY <1>1, <1>4, <1>5, <2>1, <4>1, Numbers DEF PollFd, NoIo
    <3>2. \/ m.ring.home[i] = READY /\ Enabled(m, i) \cap IO # {}
          \/ i \in m.armed /\ m.interest[i] \cap PollFd(c) # {}
      BY <1>1, <2>1, <3>1 DEF TcpServerIInv, WakeupKept
    <3>3. Untouched(m, m', i) /\ m'.ring.home[i] = m.ring.home[i]
      BY <1>3, <1>5, <2>1
    <3> QED BY <3>1, <3>2, <3>3 DEF Untouched, Enabled
  <2>2. \A g \in Live : HandleOf(g)' = HandleOf(g) /\ m'.fd[HandleOf(g)] = m.fd[HandleOf(g)]
    BY <1>5 DEF Untouched
  <2>3. PollFd(fd)' \cap conn'[h].iowait # {} => m'.interest[id] \cap PollFd(fd)' # {}
    BY <1>3, <1>4
  <2> QED BY <1>3, <1>4, <2>1, <2>2, <2>3 DEF WakeupKept, Enabled
<1>15. Lives'
  <2>1. \A g \in Live : <<born[g] + Timeout, HandleOf(g)>> \in m.timers \/ TimedOut(g)
    BY <1>1 DEF TcpServerIInv, Lives
  <2>2. \A g \in Live : <<born'[g] + Timeout, HandleOf(g)'>> \in m'.timers \/ TimedOut(g)'
    BY <1>4, <1>5, <2>1
  <2>3. <<born'[h] + Timeout, HandleOf(h)'>> \in m'.timers
    BY <1>3, <1>4
  <2> QED BY <1>3, <2>2, <2>3 DEF Lives
<1>16. ~TimedOut(h)'
  BY <1>3, <1>4 DEF TimedOut, Enabled
<1>17. InTime'
  <2>1. PICK A \in SUBSET Slots : Ahead(A, cur)
    BY <1>1 DEF TcpServerIInv, InTime
  <2>2. PICK B \in SUBSET Slots : B = A \ {cur}
    OBVIOUS
  <2>3. Ahead(B, cur)'
    <3>1. \A a \in B : m.ring.home[a] = READY /\ (a = m.ring.next[cur] \/ m.ring.prev[a] \in B)
      BY <2>1, <2>2, NextAhead
    <3>2. \A a \in B : m'.ring.home[a] = READY /\ (a = cur' \/ m'.ring.prev[a] \in B)
      <4>1. \A a \in B : a \in Nodes /\ a # id
        BY <1>3, <3>1, NodesFacts
      <4> QED BY <1>2, <1>3, <3>1, <4>1
    <3>3. \A g \in Live : TimedOut(g) => HandleOf(g) \in B
      BY <2>1, <2>2 DEF Ahead, TimedOut, Welcomed
    <3>4. \A g \in Live' : TimedOut(g)' => HandleOf(g)' \in B
      BY <1>3, <1>5, <1>16, <3>3
    <3> QED BY <3>2, <3>4 DEF Ahead
  <2>4. DueNoticed'
    <3>1. \A g \in Live : TimedOut(g) \/ m.looptime < born[g] + Timeout
      BY <1>1 DEF TcpServerIInv, InTime, DueNoticed
    <3> QED BY <1>3, <1>4, <1>5, <1>6, <3>1 DEF DueNoticed
  <2> QED BY <1>2, <2>3, <2>4 DEF InTime
<1> QED BY <1>4, <1>7, <1>8, <1>9, <1>10, <1>11, <1>12, <1>13, <1>14, <1>15, <1>17 DEF TcpServerIInv

(* accept and the registrations succeed. *)
LEMMA AcceptedWelcomes ==
  ASSUME TcpServerIInv, DispatchAccept, Advance, ~EmptyRing(handlers, FREE),
         Accepted(AcceptFd, handlers.next[FREE]), backlog > 0, backlog' = backlog - 1,
         UNCHANGED <<evset, clients, now, sigint, alarm>>
  PROVE  \E h, id, fd : Welcomed(h, id, fd)
<1>1. PICK h, id, fd, up, trigger :
        /\ h = handlers.next[FREE] /\ id = FreshId(m) /\ fd = AcceptFd
        /\ up = m.looptime + Timeout /\ trigger = {"READ", EDGE}
  OBVIOUS
<1>2. Scanning /\ TIMER \notin Enabled(m, cur) /\ Running
  BY AtCursor DEF DispatchAccept, TIMER
<1>3. fd \in ConnFds /\ ~sock[fd].open /\ fd \in Nat
  BY <1>1, <1>2, FdFree, Numbers
<1>4. h # FREE /\ h \in Handlers /\ h \in Nat /\ h \in FreeObjects /\ conn[h].state = FREE
  <2>1. h # FREE /\ h \in Handlers /\ handlers.home[h] = FREE
    BY <1>1, ObjectRing DEF EmptyRing
  <2>2. h \in FreeObjects
    BY <2>1, ObjectRing
  <2> QED BY <2>1, <2>2, Numbers DEF FreeObjects
<1>5. PICK s, w : s = Add(m, trigger, fd, h, TRUE) /\ w = ModTimer(s, up, id)
  OBVIOUS
<1>6. /\ HasRoom(m) /\ m' = w
      /\ \E rx \in 0..MaxRx, peer \in {"open", "fin"} :
           sock' = [sock EXCEPT ![fd] =
                      [open |-> TRUE, rx |-> rx, peer |-> peer, room |-> TRUE]]
      /\ conn' = [conn EXCEPT ![h] = [state |-> WAIT, handle_id |-> id, iowait |-> {"READ"}]]
      /\ handlers' = Relink(handlers, h, WAIT)
      /\ born' = [born EXCEPT ![h] = m.looptime]
  BY <1>1, <1>4, <1>5 DEF Accepted
<1>7. up \in Nat /\ up \in Nat \ {0} /\ m.looptime < up /\ m.looptime \in Nat
  BY <1>1, UptimeFacts DEF Uptime
<1>8. trigger \in SUBSET (IO \cup {EDGE}) /\ trigger \cap IO = {"READ"}
  BY <1>1 DEF IO, EDGE
<1>9. /\ id \in Slots /\ OnlyTouches(m, s, id)
      /\ s.fd[id] = fd /\ s.handler_id[id] = h /\ s.state[id] = WAIT
      /\ s.ev_permit[id] = TRUE /\ s.ev_mask[id] = trigger \cap IO
      /\ s.interest[id] = trigger /\ s.events[id] = {} /\ id \in s.armed
      /\ s.timers = m.timers /\ s.looptime = m.looptime
      /\ s.ring = Relink(m.ring, id, WAIT)
  <2>1. Added(m, s, id, trigger, fd, h)
    BY <1>1, <1>3, <1>4, <1>5, <1>6, <1>8, HandleTypes, AddEffect
  <2> QED BY <2>1 DEF Added
<1>10. Sound(s)
  <2>1. trigger \cap IO # {}
    BY <1>8
  <2> QED BY <1>3, <1>4, <1>5, <1>6, <1>8, <2>1, HandleTypes, AddSound
<1>11. RingOK(s) /\ id \in Nodes /\ InUse(s, id)
  BY <1>9, <1>10, NodesFacts DEF Sound, InUse
<1>12. TimerSet(s, w, id, up) /\ Sound(w)
  BY <1>5, <1>7, <1>9, <1>10, <1>11, ModTimerEffect, ModTimerSound
<1>13. /\ w.ring = Relink(m.ring, id, WAIT) /\ w.fd[id] = fd /\ w.handler_id[id] = h
       /\ w.state[id] = WAIT /\ w.ev_permit[id] /\ w.interest[id] = {"READ", EDGE}
       /\ id \in w.armed /\ w.looptime = m.looptime
       /\ w.timers = m.timers \cup {<<m.looptime + Timeout, id>>}
       /\ w.events[id] = {} /\ w.ev_mask[id] = {"READ", TIMER}
  BY <1>1, <1>8, <1>9, <1>12 DEF TimerSet
<1>14. OnlyTouches(m, w, id)
  BY <1>9, <1>12 DEF TimerSet, OnlyTouches, Untouched
<1>15. /\ sock' \in [ConnFds -> Sockets] /\ sock'[fd].open
       /\ \A c \in ConnFds \ {fd} : sock'[c] = sock[c]
  <2>1. PICK rx \in 0..MaxRx, peer \in {"open", "fin"} :
           sock' = [sock EXCEPT ![fd] =
                      [open |-> TRUE, rx |-> rx, peer |-> peer, room |-> TRUE]]
    BY <1>6
  <2>2. [open |-> TRUE, rx |-> rx, peer |-> peer, room |-> TRUE] \in Sockets
    BY DEF Sockets
  <2>3. sock \in [ConnFds -> Sockets]
    BY DEF TcpServerIInv, Types, SockTypes, Sockets
  <2> QED BY <1>3, <2>1, <2>2, <2>3
<1>16. backlog' \in Nat /\ backlog' <= backlog
  BY DEF TcpServerIInv, Types, WorldTypes
<1>17. Welcomed(h, id, fd)
  BY <1>1, <1>2, <1>3, <1>4, <1>6, <1>12, <1>13, <1>14, <1>15, <1>16 DEF Welcomed, FreshId
<1> QED BY <1>17

(* The handle a free object remembers is free too, so that del has nothing *)
(* to do.                                                                  *)
LEMMA StaleHandle ==
  ASSUME TcpServerIInv, Running, pc # "init", NEW h \in FreeObjects, NEW id, id = conn[h].handle_id
  PROVE  (IF id >= 0 THEN Del(m, id) ELSE m) = m
<1>1. PICK P \in [FreeObjects -> Slots] : InStep(P)
  BY DEF TcpServerIInv, Lockstep
<1>2. id = -1 \/ (id = P[h] /\ P[h] \in Slots /\ m.ring.home[P[h]] = FREE)
  BY <1>1 DEF InStep
<1>3. CASE id = -1
  BY <1>3
<1>4. CASE id = P[h]
  <2>1. HandleOK(m, id, FREE) /\ id \in Slots
    BY <1>1, <1>4, HandleTypes DEF Sound, InStep
  <2>2. DelRefused(m, id)
    BY <2>1 DEF HandleOK, DelRefused, InUse
  <2> QED BY <2>2 DEF Del
<1> QED BY <1>2, <1>3, <1>4

(* A client is served, or lost, or there was none. *)
LEMMA OnAcceptCases ==
  ASSUME TcpServerIInv, OnAccept
  PROVE  /\ handlers.next[FREE] \in FreeObjects
         /\ \/ backlog > 0 /\ backlog' = backlog - 1 /\ \E h, id, fd : Welcomed(h, id, fd)
            \/ backlog > 0 /\ backlog' = backlog - 1 /\ (KernelFails \/ FcntlFails) /\ PassedBy
            \/ backlog' = backlog /\ PassedBy
<1>1. PICK h : h = handlers.next[FREE]
  OBVIOUS
<1>2. /\ DispatchAccept /\ ~EmptyRing(handlers, FREE) /\ Advance
      /\ UNCHANGED <<evset, clients, now, sigint, alarm>>
      /\ \/ /\ backlog > 0 /\ backlog' = backlog - 1
            /\ \/ Accepted(AcceptFd, h)
               \/ (KernelFails \/ ~HasRoom(m)) /\ AcceptUndone(h, -1)
               \/ FcntlFails /\ AcceptUndone(h, conn[h].handle_id)
         \/ UNCHANGED <<m, sock, connVars, backlog>>
  BY <1>1 DEF OnAccept
<1>3. Scanning /\ TIMER \notin Enabled(m, cur) /\ Running /\ pc # "init"
  BY <1>2, AtCursor DEF DispatchAccept, TIMER
<1>4. h \in FreeObjects
  <2>1. h # FREE /\ h \in Handlers /\ handlers.home[h] = FREE
    BY <1>1, <1>2, ObjectRing DEF EmptyRing
  <2> QED BY <2>1, ObjectRing
<1>8. HasRoom(m)
  BY <1>3 DEF TcpServerIInv, Lockstep
<1>5. ASSUME backlog > 0, backlog' = backlog - 1, Accepted(AcceptFd, h)
      PROVE  \E k, id, fd : Welcomed(k, id, fd)
  BY <1>1, <1>2, <1>5, AcceptedWelcomes
<1>6. ASSUME NEW id \in {-1, conn[h].handle_id}, AcceptUndone(h, id), backlog > 0, backlog' = backlog - 1
      PROVE  PassedBy
  <2>1. backlog' \in Nat /\ backlog' <= backlog
    BY <1>6 DEF TcpServerIInv, Types, WorldTypes
  <2>2. (IF id >= 0 THEN Del(m, id) ELSE m) = m
    BY <1>3, <1>4, <1>6, StaleHandle
  <2>3. m' = m /\ UNCHANGED <<sock, handlers, born>> /\ conn' = [conn EXCEPT ![h].handle_id = -1]
    BY <1>6, <2>2 DEF AcceptUndone
  <2> QED BY <1>2, <1>3, <1>4, <2>1, <2>3 DEF PassedBy
<1>7. ASSUME UNCHANGED <<m, sock, connVars, backlog>>
      PROVE  PassedBy
  <2>1. backlog' \in Nat /\ backlog' <= backlog
    BY <1>7 DEF TcpServerIInv, Types, WorldTypes
  <2> QED BY <1>2, <1>3, <1>7, <2>1 DEF PassedBy, connVars
<1> QED BY <1>1, <1>2, <1>4, <1>5, <1>6, <1>7, <1>8

(* on_accept. *)
LEMMA OnAcceptKeeps == ASSUME TcpServerIInv, OnAccept PROVE TcpServerIInv'
BY OnAcceptCases, WelcomedKeeps, PassedByKeeps
-----------------------------------------------------------------------------
(* The beginning: the constructors' rings, ... *)
LEMMA UntriedFacts ==
  ASSUME TcpServerIInv, pc = "init"
  PROVE  /\ m = FreshMplex(0) /\ Sound(m) /\ Running /\ io = NoIo /\ evset = {}
         /\ Live = {} /\ Serving = {} /\ FreeObjects = Connections
         /\ \A h \in Handlers : conn[h].handle_id = -1
         /\ \A fd \in ConnFds : ~sock[fd].open
         /\ HasRoom(m) /\ FreshId(m) = 3
<1>1. /\ m = FreshMplex(0) /\ Sound(m) /\ Running /\ io = NoIo /\ evset = {}
      /\ \A h \in Handlers : conn[h].state = FREE /\ conn[h].handle_id = -1
      /\ \A fd \in ConnFds : ~sock[fd].open
  BY DEF TcpServerIInv, Untried, Running, Types, LoopTypes, Pending
<1>2. Live = {} /\ Serving = {} /\ FreeObjects = Connections
  BY <1>1, Numbers DEF Live, Serving, FreeObjects
<1>3. m.ring = Erase(Erase(Resize(MaxEvents+3), WAIT), READY)
  BY <1>1 DEF FreshMplex
<1>4. MaxEvents + 3 \in Nat /\ MaxEvents + 3 >= 3 /\ MaxEvents + 3 # 3
  BY Numbers
<1>5. m.ring.next[FREE] = 3
  BY <1>3, <1>4, FreshShape
<1> QED BY <1>1, <1>2, <1>5 DEF HasRoom, EmptyRing, FreshId, FREE

(* ... and what is left of them when the listener has its handle: each     *)
(* object is one step behind a handle.                                     *)
LEMMA FirstInStep ==
  ASSUME TcpServerIInv, pc = "init", m'.ring = Relink(m.ring, 3, WAIT), UNCHANGED <<handlers, conn>>
  PROVE  HasRoom(m') /\ \E P \in [FreeObjects' -> Slots] : InStep(P)'
<1>1. PICK n, k : n = MaxEvents + 3 /\ k = 1 + MaxConnections
  OBVIOUS
<1>2. /\ n \in Nat /\ n >= 5 /\ Nodes = 0..n-1 /\ Slots = 3..n-1 /\ n = k + 3
      /\ k \in Nat /\ k >= 2 /\ Handlers = 0..k-1 /\ Connections = 2..k-1
      /\ FREE = 0 /\ WAIT = 1 /\ READY = 2
  BY <1>1, Numbers DEF Nodes, Slots, Handlers, Connections, FREE, WAIT, READY
<1>3. PICK r, o, t : r = m.ring /\ o = handlers /\ t = m'.ring
  OBVIOUS
<1>4. r = Erase(Erase(Resize(n), WAIT), READY) /\ o = Erase(Resize(k), WAIT)
  BY <1>1, <1>3, UntriedFacts DEF TcpServerIInv, Untried, FreshMplex
<1>5. /\ r.next[0] = 3
      /\ \A i \in 3..n-1 : /\ i # n-1 => r.next[i] = i+1
                           /\ i # 3 => r.prev[i] = i-1
      /\ r.prev[3] = 0 /\ r.next[n-1] = 0
      /\ Rooted(r, 0..n-1, {FREE, WAIT, READY})
  <2>1. n >= 3 /\ n # 3 /\ n > 3
    BY <1>2
  <2> QED BY <1>2, <1>4, <2>1, FreshShape
<1>6. /\ WellLinked(r, 0..n-1)
      /\ \A i \in 0..n-1 : r.home[i] = IF i \in {WAIT, READY} THEN i ELSE FREE
  <2>1. n >= 3
    BY <1>2
  <2> QED BY <1>2, <1>4, <2>1, FreshLinks
<1>7. /\ o.next[0] = (IF k = 2 THEN 0 ELSE 2)
      /\ \A i \in 2..k-1 : /\ i # k-1 => o.next[i] = i+1
                           /\ i # 2 => o.prev[i] = i-1
      /\ k > 2 => o.prev[2] = 0 /\ o.next[k-1] = 0
  <2>1. NoneTaken(o, k)
    BY <1>2, <1>4, ObjectsShape
  <2> QED BY <1>2, <2>1 DEF NoneTaken
<1>8. r.prev[1] = 1
  <2>0. 1 \in 0..n-1
    BY <1>2
  <2>1. r.prev[1] \in 0..n-1 /\ r.next[r.prev[1]] = 1 /\ r.home[r.next[r.prev[1]]] = r.home[r.prev[1]]
    BY <1>6, <2>0 DEF WellLinked, Links
  <2>2. r.home[1] = 1
    BY <1>2, <1>6
  <2>3. r.home[r.prev[1]] = 1
    BY <2>1, <2>2
  <2> QED BY <1>2, <1>6, <2>1, <2>3
<1>9. r.next[3] = 4
  BY <1>2, <1>5
<1>10. PICK q : q = IF r.next[3] = 1 THEN r.prev[3] ELSE r.prev[1]
  OBVIOUS
<1>11. q = 1
  BY <1>8, <1>9, <1>10
<1>12. /\ \A i \in 0..n-1 : t.prev[i] = IF i = 1 THEN 3
                                     ELSE IF i = 3 THEN q
                                     ELSE IF i = r.next[3] THEN r.prev[3] ELSE r.prev[i]
       /\ \A i \in 0..n-1 : t.next[i] = IF i = 3 THEN 1
                                     ELSE IF i = q THEN 3
                                     ELSE IF i = r.prev[3] THEN r.next[3] ELSE r.next[i]
  <2>1. PICK N, a, b : N = 0..n-1 /\ a = 3 /\ b = 1
    OBVIOUS
  <2>2. t = Relink(r, a, b) /\ a \in N /\ b \in N /\ a # b /\ r.prev[a] # a
    BY <1>2, <1>3, <1>5, <2>1
  <2>3. WellLinked(r, N) /\ q = IF r.next[a] = b THEN r.prev[a] ELSE r.prev[b]
    BY <1>6, <1>10, <2>1
  <2>4. /\ \A i \in N : t.prev[i] = IF i = b THEN a
                                     ELSE IF i = a THEN q
                                     ELSE IF i = r.next[a] THEN r.prev[a] ELSE r.prev[i]
        /\ \A i \in N : t.next[i] = IF i = a THEN b
                                     ELSE IF i = q THEN a
                                     ELSE IF i = r.prev[a] THEN r.next[a] ELSE r.next[i]
    BY <2>2, <2>3, RelinkShape
  <2> QED BY <2>1, <2>4
<1>13. \A i \in 0..n-1 : t.home[i] = IF i = 3 THEN 1 ELSE r.home[i]
  <2>1. PICK N, a, b : N = 0..n-1 /\ a = 3 /\ b = 1
    OBVIOUS
  <2>2. t = Relink(r, a, b) /\ a \in N /\ b \in N /\ a # b /\ r.home[b] = b /\ WellLinked(r, N)
    BY <1>2, <1>3, <1>6, <2>1
  <2>3. \A i \in N : t.home[i] = IF i = a THEN b ELSE r.home[i]
    BY <2>2, RelinkLinks
  <2> QED BY <2>1, <2>3
<1>14. t.next[0] = 4
  BY <1>2, <1>5, <1>9, <1>11, <1>12
<1>15. HasRoom(m')
  BY <1>2, <1>3, <1>14 DEF HasRoom, EmptyRing
<1>16. FreeObjects' = 2..k-1
  <2>1. FreeObjects = Connections
    BY UntriedFacts
  <2> QED BY <1>2, <2>1 DEF FreeObjects
<1>17. PICK P : P = [h \in 2..k-1 |-> h + 3]
  OBVIOUS
<1>18. P \in [FreeObjects' -> Slots]
  BY <1>2, <1>16, <1>17
<1>19. o.next[0] = 0 => t.next[4] = 0
  <2>1. o.next[0] = 0 => n = 5
    BY <1>2, <1>7
  <2> QED BY <1>2, <1>5, <1>9, <1>11, <1>12, <2>1
<1>20. ASSUME NEW h \in 2..k-1
       PROVE  /\ t.home[P[h]] = 0
              /\ conn[h].handle_id \in {-1, P[h]}
              /\ t.prev[P[h]] = IF o.prev[h] = 0 THEN t.next[0] ELSE P[o.prev[h]]
              /\ o.next[h] = 0 => t.next[P[h]] = 0
  <2>1. P[h] = h + 3 /\ P[h] \in 5..n-1 /\ h \in Handlers
    BY <1>2, <1>17
  <2>2. t.home[P[h]] = 0
    BY <1>2, <1>6, <1>13, <2>1
  <2>3. conn[h].handle_id = -1
    BY <2>1, UntriedFacts
  <2>4. t.prev[P[h]] = h + 2
    BY <1>2, <1>5, <1>9, <1>11, <1>12, <2>1
  <2>5. o.prev[h] = (IF h = 2 THEN 0 ELSE h - 1)
    BY <1>2, <1>7
  <2>6. t.prev[P[h]] = IF o.prev[h] = 0 THEN t.next[0] ELSE P[o.prev[h]]
    BY <1>2, <1>14, <1>17, <2>4, <2>5
  <2>7. o.next[h] = 0 => t.next[P[h]] = 0
    <3>1. o.next[h] = 0 => h = k-1
      BY <1>2, <1>7
    <3>2. t.next[P[h]] = r.next[P[h]]
      BY <1>2, <1>5, <1>11, <1>12, <2>1
    <3> QED BY <1>2, <1>5, <2>1, <3>1, <3>2
  <2> QED BY <2>2, <2>3, <2>6, <2>7
<1>21. InStep(P)'
  <2>1. t.next[t.next[0]] = t.next[4]
    BY <1>14
  <2> QED BY <1>2, <1>3, <1>16, <1>19, <1>20, <2>1 DEF InStep, EmptyRing
<1> QED BY <1>15, <1>18, <1>21

(* The listener is registered (tcpserver.cpp:40), or that fails. *)
LEMMA InitializeKeeps == ASSUME TcpServerIInv, Initialize PROVE TcpServerIInv'
<1>1. /\ pc = "init" /\ pc' \in {"top", "shutdown"} /\ cur' = 0
      /\ UNCHANGED <<evset, nxt, io, handlers, conn, born, sock, backlog, clients, now, sigint, alarm>>
  BY DEF Initialize, connVars, worldVars
<1>2. /\ m = FreshMplex(0) /\ Sound(m) /\ io = NoIo /\ evset = {}
      /\ Live = {} /\ \A fd \in ConnFds : ~sock[fd].open
      /\ HasRoom(m) /\ FreshId(m) = 3
  BY <1>1, UntriedFacts
<1>3. Live' = {} /\ Serving' = {}
  BY <1>1, <1>2 DEF Live, Serving
<1>4. PICK w, trigger, fd : w = Add(m, trigger, fd, 0, TRUE) /\ trigger = {"READ"} /\ fd = ListenFd
  OBVIOUS
<1>5. Sound(w) /\ Added(m, w, 3, trigger, fd, 0) /\ trigger \cap IO = {"READ"}
  <2>1. trigger \in SUBSET (IO \cup {EDGE}) /\ trigger \cap IO = {"READ"} /\ trigger \cap IO # {}
        /\ fd \in Nat /\ 0 \in Nat
    BY <1>4, Numbers DEF IO
  <2>2. PICK id : id = FreshId(m)
    OBVIOUS
  <2>3. Sound(w)
    BY <1>2, <1>4, <2>1, AddSound
  <2>4. Added(m, w, id, trigger, fd, 0)
    BY <1>2, <1>4, <2>1, <2>2, AddEffect
  <2> QED BY <1>2, <2>1, <2>2, <2>3, <2>4
<1>6. (m' = w /\ pc' = "top") \/ (m' = m /\ pc' = "shutdown")
  BY <1>4 DEF Initialize
<1>7. Sound(m)' /\ m'.timers = m.timers /\ m'.looptime = m.looptime
  BY <1>2, <1>5, <1>6 DEF Added
<1>8. Types'
  <2>1. LoopTypes'
    BY <1>1, <1>2 DEF TcpServerIInv, Types, LoopTypes
  <2> QED BY <1>1, <1>7, <2>1 DEF TcpServerIInv, Types, ConnTypes, SockTypes, WorldTypes, ClockTypes
<1>9. Untried' /\ Pending' /\ Objects' /\ Settling' /\ CursorOnReady'
  BY <1>1, <1>2 DEF Untried, Pending, Objects, Settling, CursorOnReady, TcpServerIInv
<1>10. Registrations' /\ WakeupKept' /\ Lives' /\ InTime'
  BY <1>1, <1>3 DEF Registrations, WakeupKept, Lives, InTime, NoneDue
<1>11. Owners'
  <2>1. ASSUME NEW i \in Slots, InUse(m', i)
        PROVE  Listening(i)'
    <3>1. m.state[i] = FREE
      BY <1>2, NodesFacts DEF FreshMplex
    <3>2. m' = w /\ i = 3
      BY <1>5, <1>6, <2>1, <3>1 DEF InUse, Added, OnlyTouches, Untouched
    <3> QED BY <1>4, <1>5, <3>2 DEF Added, Listening
  <2> QED BY <1>1, <1>2, <1>3, <2>1 DEF Owners
<1>12. Lockstep'
  <2>1. CASE m' = w
    <3>1. m'.ring = Relink(m.ring, 3, WAIT)
      BY <1>5, <2>1 DEF Added
    <3> QED BY <1>1, <3>1, FirstInStep DEF Lockstep
  <2>2. CASE pc' = "shutdown"
    BY <2>2 DEF Lockstep, Running
  <2> QED BY <1>6, <2>1, <2>2
<1> QED BY <1>7, <1>8, <1>9, <1>10, <1>11, <1>12 DEF TcpServerIInv

(* The invariant holds when the constructors are done. *)
LEMMA TcpServerStart == TcpServerInit => TcpServerIInv
<1> SUFFICES ASSUME TcpServerInit PROVE TcpServerIInv
  OBVIOUS
<1>1. /\ m = FreshMplex(0) /\ evset = {} /\ pc = "init" /\ cur = READY /\ nxt = READY /\ io = NoIo
      /\ handlers = Erase(Resize(1 + MaxConnections), WAIT)
      /\ conn = [h \in Handlers |-> [state |-> FREE, handle_id |-> -1, iowait |-> {}]]
      /\ sock = [fd \in ConnFds |-> Closed]
      /\ backlog = 0 /\ clients = 0 /\ now = 0 /\ alarm = FALSE /\ sigint = FALSE
      /\ born = [h \in Handlers |-> 0]
  BY DEF TcpServerInit
<1>2. Sound(m) /\ m.timers = {} /\ m.looptime = 0 /\ \A i \in Nodes : m.state[i] = FREE
  BY <1>1, FreshSound DEF FreshMplex
<1>3. Live = {} /\ Serving = {}
  BY <1>1, Numbers DEF Live, Serving
<1>4. Types
  <2>1. ConnTypes
    BY <1>1, Numbers DEF ConnTypes
  <2>2. LoopTypes
    BY <1>1, Numbers, NodesFacts DEF LoopTypes, NoIo, READY, FREE, Nodes
  <2>3. SockTypes
    BY <1>1, Numbers DEF SockTypes, Closed
  <2>4. WorldTypes /\ ClockTypes
    <3>1. alarm \in BOOLEAN /\ sigint \in BOOLEAN
      BY <1>1, Zenon
    <3>2. backlog \in Nat /\ clients \in 0..MaxClients /\ backlog <= clients /\ now \in 0..MaxTime
      BY <1>1, Numbers
    <3> QED BY <1>1, <1>2, <3>1, <3>2 DEF WorldTypes, ClockTypes
  <2> QED BY <2>1, <2>2, <2>3, <2>4 DEF Types
<1>5. Untried /\ Pending /\ Settling /\ CursorOnReady /\ Lockstep
  BY <1>1, Numbers DEF Untried, Pending, Settling, CursorOnReady, Lockstep, Closed
<1>6. Registrations /\ WakeupKept /\ Lives /\ InTime
  BY <1>1, <1>3 DEF Registrations, WakeupKept, Lives, InTime
<1>7. Owners
  BY <1>1, <1>2, <1>3, NodesFacts DEF Owners, InUse, Closed
<1>8. Objects
  <2>1. PICK n, r : n = 1 + MaxConnections /\ r = handlers
    OBVIOUS
  <2>2. n \in Nat /\ n >= 2 /\ r = Erase(Resize(n), WAIT) /\ Handlers = 0..n-1
    BY <1>1, <2>1, Numbers DEF Handlers
  <2>5. NoneTaken(r, n)
    BY <2>2, ObjectsShape
  <2>3. /\ WellLinked(handlers, Handlers) /\ Rooted(handlers, Handlers, {FREE, WAIT})
        /\ \A i \in Handlers : handlers.home[i] = IF i = WAIT THEN WAIT ELSE FREE
    BY <2>1, <2>2, <2>5 DEF NoneTaken
  <2>4. \A h \in Handlers : conn[h].state = FREE
    BY <1>1
  <2> QED BY <2>3, <2>4, Numbers, NodesFacts DEF Objects
<1> QED BY <1>2, <1>4, <1>5, <1>6, <1>7, <1>8 DEF TcpServerIInv

(* No step of the loop disturbs the invariant. *)
LEMMA LoopKeeps == ASSUME TcpServerIInv, Loop PROVE TcpServerIInv'
BY InitializeKeeps, StartRunTimerKeeps, ExpireEntryKeeps, FinishRunTimerKeeps, StartWaitKeeps,
   WaitFailsKeeps, CollectEventKeeps, FinishWaitKeeps, CheckReadyKeeps, EndOfPassKeeps,
   OnTimerRemoves, RemovesKeeps, IotransferKeeps, OnAcceptKeeps, SkipHandleKeeps, SettleKeeps,
   ShutdownHandlerKeeps, StopKeeps
DEF Loop
(* A step that changes nothing. *)
LEMMA StutterKeeps == ASSUME TcpServerIInv, UNCHANGED vars PROVE TcpServerIInv'
<1>1. /\ m' = m /\ evset' = evset /\ handlers' = handlers /\ conn' = conn /\ pc' = pc
      /\ cur' = cur /\ nxt' = nxt /\ io' = io /\ sock' = sock /\ backlog' = backlog
      /\ clients' = clients /\ now' = now /\ alarm' = alarm /\ sigint' = sigint /\ born' = born
  BY DEF vars
<1>2. CASE pc = "init"
  <2>1. Live' = Live /\ Serving' = Serving /\ \A h : HandleOf(h)' = HandleOf(h)
    BY <1>1 DEF Live, Serving, Running, HandleOf
  <2>2. Types' /\ Untried' /\ Sound(m)' /\ Pending' /\ Objects' /\ Settling' /\ CursorOnReady' /\ Lockstep'
    BY <1>1, <1>2, HandleTypes
    DEF TcpServerIInv, Types, ConnTypes, LoopTypes, SockTypes, WorldTypes, ClockTypes, Untried,
        Pending, Objects, Settling, CursorOnReady, Lockstep
  <2>3. Owners'
    BY <1>1, <2>1 DEF TcpServerIInv, Owners, Holds, Listening
  <2>4. Live' = {} /\ Serving' = {}
    BY <1>2, <2>1, UntriedFacts
  <2>5. Registrations' /\ WakeupKept' /\ Lives' /\ InTime'
    BY <1>1, <1>2, <2>4 DEF Registrations, WakeupKept, Lives, InTime
  <2> QED BY <2>2, <2>3, <2>5 DEF TcpServerIInv
<1>3. CASE pc # "init"
  <2>1. WorldMoves
    BY <1>1 DEF WorldMoves, OnlyArmed, PollFd
  <2>2. Types' /\ Sound(m)'
    BY <1>1, HandleTypes DEF Types, ConnTypes, LoopTypes, SockTypes, WorldTypes, ClockTypes
  <2> QED BY <1>3, <2>1, <2>2, WorldKeeps
<1> QED BY <1>2, <1>3

(* The invariant of the server, for every number of connections, every     *)
(* time out and whether or not the kernel fails and signals come: it holds *)
(* at the start and every step of the loop, of the clients, of the clock   *)
(* and of the user keeps it.                                               *)
THEOREM TcpServerSafe == TcpServerSpec => []TcpServerIInv
<1>1. TcpServerIInv /\ [TcpServerNext]_vars => TcpServerIInv'
  BY LoopKeeps, EnvironmentKeeps, StutterKeeps DEF TcpServerNext
<1> QED BY <1>1, TcpServerStart, PTL DEF TcpServerSpec

-----------------------------------------------------------------------------
(* The types of the loop's variables. *)
THEOREM TcpServerTyped == TcpServerSpec => []TcpServerTypeOK
<1>1. TcpServerIInv => TcpServerTypeOK
  <2> SUFFICES ASSUME TcpServerIInv PROVE TcpServerTypeOK
    OBVIOUS
  <2>1. Types /\ m.timers \in SUBSET ((Nat \ {0}) \X Slots)
    BY HandleTypes, FieldTypes
  <2>2. \A e \in m.timers : e[1] \in 1..MaxTime+Timeout /\ e[2] \in Slots
    BY <2>1, Numbers DEF Types, ClockTypes
  <2>3. backlog \in 0..MaxClients /\ clients \in 0..MaxClients /\ now \in 0..MaxTime
    BY <2>1, Numbers DEF Types, WorldTypes
  <2>4. {alarm, sigint} \subseteq BOOLEAN
    BY <2>1 DEF Types, WorldTypes
  <2>5. io.h \in Handlers
    BY <2>1 DEF Types, LoopTypes
  <2> QED BY <2>1, <2>2, <2>3, <2>4, <2>5 DEF TcpServerTypeOK, Types, ConnTypes, LoopTypes, SockTypes
<1> QED BY <1>1, TcpServerSafe, PTL

(* A connection in use, its handle and its descriptor name each other, and *)
(* no handle and no open descriptor is without a connection (on_accept,    *)
(* remove_handler, on_close).                                              *)
THEOREM EveryFileOwned == TcpServerSpec => []Ownership
<1>1. TcpServerIInv => Ownership
  <2> SUFFICES ASSUME TcpServerIInv, Running PROVE Ownership
    BY DEF Ownership
  <2>1. Serving = Live /\ Objects /\ Owners
    BY RunningServes DEF TcpServerIInv
  <2>2. \A h \in Live : /\ InUse(m, HandleOf(h)) /\ m.handler_id[HandleOf(h)] = h
                        /\ m.fd[HandleOf(h)] \in ConnFds /\ sock[m.fd[HandleOf(h)]].open
    BY <2>1 DEF Owners, Holds
  <2>3. \A id \in Slots : InUse(m, id) => m.fd[id] = ListenFd \/ \E h \in Live : HandleOf(h) = id
    BY <2>1 DEF Owners, Listening
  <2>4. /\ WellLinked(handlers, Handlers)
        /\ \A h \in Handlers \ {FREE, WAIT} : handlers.home[h] = conn[h].state
    BY <2>1 DEF Objects, Connections
  <2> QED BY <2>1, <2>2, <2>3, <2>4 DEF Ownership, Owners
<1> QED BY <1>1, TcpServerSafe, PTL

(* Between two calls of its handlers a connection is registered for the    *)
(* one direction its continuation waits for (on_read:55, on_write:80).     *)
THEOREM RegisteredForIowait == TcpServerSpec => []MaskIsIowait
<1>1. TcpServerIInv => MaskIsIowait
  BY RunningServes DEF TcpServerIInv, Registrations, Registered, MaskIsIowait
<1> QED BY <1>1, TcpServerSafe, PTL

(* next_i of the pass over READY stays on READY, whatever the handlers do  *)
(* (tcpserver.cpp:119).                                                    *)
THEOREM CursorStaysOnReady == TcpServerSpec => []CursorOnReady
<1>1. TcpServerIInv => CursorOnReady
  BY DEF TcpServerIInv
<1> QED BY <1>1, TcpServerSafe, PTL

(* What a connection waits for and its socket offers is on its way to it:  *)
(* on READY, on the kernel's ready list or among the events being          *)
(* collected.                                                              *)
THEOREM NoWakeupLost == TcpServerSpec => []WakeupKept
<1>1. TcpServerIInv => WakeupKept
  BY DEF TcpServerIInv
<1> QED BY <1>1, TcpServerSafe, PTL

(* Before the loop waits again, every connection accepted Timeout seconds  *)
(* ago or longer has been closed.                                          *)
THEOREM NobodyOutlivesTimeout == TcpServerSpec => []LifetimeBounded
<1>1. TcpServerIInv => LifetimeBounded
  BY DEF TcpServerIInv, InTime, NoneDue, LifetimeBounded
<1> QED BY <1>1, TcpServerSafe, PTL

(* Only MaxConnections - 1 connections in use keep a client waiting, and a *)
(* free connection object always finds a free handle.                      *)
THEOREM FreeObjectHasHandle == TcpServerSpec => []Capacity
<1>1. ASSUME TcpServerIInv, Running PROVE EmptyRing(handlers, FREE) <=> Live = Connections
  <2>1. CASE EmptyRing(handlers, FREE)
    <3>1. \A i \in Handlers : handlers.home[i] = FREE => i = FREE
      BY <1>1, <2>1, ObjectRing, RootedEmpty
    <3>2. \A h \in Connections : h \in Handlers /\ h \notin FreeObjects
      BY <1>1, <3>1, ObjectRing, Numbers
    <3> QED BY <1>1, <2>1, <3>2, LiveFacts, HandleTypes DEF FreeObjects
  <2>2. CASE ~EmptyRing(handlers, FREE)
    <3>1. handlers.next[FREE] \in Handlers /\ handlers.home[handlers.next[FREE]] = FREE
      BY <1>1, ObjectRing
    <3>2. handlers.next[FREE] \in FreeObjects
      BY <1>1, <2>2, <3>1, ObjectRing DEF EmptyRing
    <3> QED BY <1>1, <2>2, <3>2, ObjectRing DEF FreeObjects
  <2> QED BY <2>1, <2>2
<1>2. ASSUME TcpServerIInv PROVE Live = Connections <=> Cardinality(Live) = MaxConnections - 1
  <2>1. IsFiniteSet(Connections) /\ Cardinality(Connections) = MaxConnections - 1
    BY ObjectCount
  <2>2. Live \in SUBSET Connections
    BY <1>2, LiveFacts, HandleTypes
  <2> QED BY <2>1, <2>2, FS_Subset
<1>3. ASSUME TcpServerIInv, Running PROVE HasRoom(m)
  BY <1>3, UntriedFacts DEF TcpServerIInv, Lockstep
<1>4. TcpServerIInv => Capacity
  BY <1>1, <1>2, <1>3 DEF Capacity
<1> QED BY <1>4, TcpServerSafe, PTL

(* shutdown() leaves no connection's socket open, and no handle but the    *)
(* listener's.                                                             *)
THEOREM NothingLeftOpen == TcpServerSpec => []ShutdownClosesAll
<1>1. TcpServerIInv => ShutdownClosesAll
  <2> SUFFICES ASSUME TcpServerIInv, pc = "stopped" PROVE ShutdownClosesAll
    BY DEF ShutdownClosesAll
  <2>1. Serving = {}
    BY DEF Serving, Running
  <2> QED BY <2>1 DEF TcpServerIInv, Owners, Listening, ShutdownClosesAll
<1> QED BY <1>1, TcpServerSafe, PTL

-----------------------------------------------------------------------------
(***************************************************************************)
(* The server implements ConnPool.                                         *)
(*                                                                         *)
(* The sessions of the pool are found through the sockets, by who owns     *)
(* them (TcpServer!OwnerOf).  They are easier to follow from the side of   *)
(* the connections: the invariant of the server and that what shutdown()   *)
(* has closed has no descriptor any more (Gone) say that the sessions are  *)
(* what the connections hold (SessionsServed).  Each action of the server  *)
(* is then one of the moves of the pool (PoolMoves), or none.              *)
(***************************************************************************)
(* What shutdown() has closed has no descriptor any more. *)
Gone == \A h \in Live : h \notin Serving => HandleOf(h) \in Slots /\ m.fd[HandleOf(h)] = NoFd

(* The abstract state. *)
Sessions == {<<fd, OwnerOf(fd)>> : fd \in {c \in ConnFds : sock[c].open}}
Phase == CASE pc = "shutdown" -> "closing" [] pc = "stopped" -> "down" [] OTHER -> "up"

(* ... which is what the connections hold. *)
Served == {<<m.fd[HandleOf(h)], h>> : h \in Serving}

(* Every open socket is that of one connection, and the only one it has. *)
LEMMA SessionsServed == TcpServerIInv /\ Gone => Sessions = Served
<1> SUFFICES ASSUME TcpServerIInv, Gone PROVE Sessions = Served
  OBVIOUS
<1>1. ASSUME NEW h \in Serving
      PROVE  /\ m.fd[HandleOf(h)] \in ConnFds /\ sock[m.fd[HandleOf(h)]].open
             /\ OwnerOf(m.fd[HandleOf(h)]) = h
  <2>1. PICK id, fd : id = HandleOf(h) /\ fd = m.fd[id]
    OBVIOUS
  <2>2. h \in Live /\ fd \in ConnFds /\ sock[fd].open
    BY <2>1, Held DEF Holds
  <2>3. ASSUME NEW g \in Live, m.fd[HandleOf(g)] = fd
        PROVE  g = h
    <3>1. fd # NoFd
      BY <2>2, Numbers DEF NoFd
    <3>2. g \in Serving
      BY <2>3, <3>1 DEF Gone
    <3> QED BY <2>1, <2>3, <3>2 DEF TcpServerIInv, Owners
  <2>4. \E g \in Live : m.fd[HandleOf(g)] = fd
    BY <2>1, <2>2
  <2>5. OwnerOf(fd) = CHOOSE g \in Live : m.fd[HandleOf(g)] = fd
    BY <2>4 DEF OwnerOf
  <2>6. OwnerOf(fd) = h
    BY <2>1, <2>2, <2>3, <2>5
  <2> QED BY <2>1, <2>2, <2>6
<1>2. \A fd \in ConnFds : sock[fd].open => \E h \in Serving : m.fd[HandleOf(h)] = fd
  BY DEF TcpServerIInv, Owners
<1>3. Sessions \subseteq Served
  BY <1>1, <1>2 DEF Sessions, Served
<1>4. Served \subseteq Sessions
  BY <1>1 DEF Sessions, Served
<1> QED BY <1>3, <1>4

(* A step that gives no descriptor to a handle and none to a connection. *)
Quiet ==
  /\ \A h \in Handlers : conn'[h].state = conn[h].state /\ conn'[h].handle_id = conn[h].handle_id
  /\ \A i \in Slots : m'.fd[i] = m.fd[i]

(* Such a step leaves what the connections hold, ... *)
LEMMA QuietServed ==
  ASSUME TcpServerIInv, Quiet, Serving' = Serving
  PROVE  Served' = Served
<1>1. ASSUME NEW h \in Serving
      PROVE  <<m'.fd[HandleOf(h)'], h>> = <<m.fd[HandleOf(h)], h>>
  <2>1. HandleOf(h) \in Slots /\ h \in Handlers
    BY Held, Numbers
  <2> QED BY <2>1 DEF Quiet, HandleOf
<1> QED BY <1>1 DEF Served

(* ... and who is served as long as the loop runs. *)
LEMMA QuietLive ==
  ASSUME Quiet, Serving = Live, Serving' = Live'
  PROVE  Serving' = Serving
BY DEF Quiet, Live

(* While nobody has been closed by shutdown() nobody is gone. *)
LEMMA AllServed ==
  ASSUME Running \/ (pc = "shutdown" /\ cur = 0)
  PROVE  Serving = Live /\ Gone
<1>1. \A h \in Live : h \in Nat
  BY Numbers DEF Live
<1>2. Serving = Live
  BY <1>1 DEF Serving
<1> QED BY <1>2 DEF Gone

(* The same of the next state. *)
LEMMA AllServedNext ==
  ASSUME Running' \/ (pc' = "shutdown" /\ cur' = 0)
  PROVE  Serving' = Live' /\ Gone'
<1>1. \A h \in Live' : h \in Nat
  BY Numbers DEF Live
<1>2. Serving' = Live'
  BY <1>1 DEF Serving
<1> QED BY <1>2 DEF Gone

(* A step of the pool, or none. *)
Stays   == backlog' = backlog /\ Served' = Served /\ Phase' = Phase
Arrives == Phase = "up" /\ backlog' = backlog + 1 /\ Served' = Served /\ Phase' = Phase
Admits  == /\ Phase = "up" /\ backlog > 0 /\ Cardinality(Served) < MaxConnections - 1
           /\ \E fd \in ConnFds, h \in Connections :
                (\A s \in Served : s[1] # fd /\ s[2] # h) /\ Served' = Served \cup {<<fd, h>>}
           /\ backlog' = backlog - 1 /\ Phase' = Phase
Loses   == /\ Phase = "up" /\ backlog > 0 /\ Cardinality(Served) < MaxConnections - 1
           /\ KernelFails \/ FcntlFails
           /\ backlog' = backlog - 1 /\ Served' = Served /\ Phase' = Phase
Closes  == /\ Phase # "down" /\ backlog' = backlog /\ Phase' = Phase
           /\ \E s \in Served : Served' = Served \ {s}
Stops   == Phase = "up" /\ Phase' = "closing" /\ backlog' = backlog /\ Served' = Served
Downs   == Phase = "closing" /\ Served = {} /\ Phase' = "down" /\ backlog' = backlog /\ Served' = Served

PoolMoves == Stays \/ Arrives \/ Admits \/ Loses \/ Closes \/ Stops \/ Downs

(* A move of what the connections hold is a move of the pool. *)
LEMMA MovesThePool ==
  ASSUME Sessions = Served, Sessions' = Served', PoolMoves
  PROVE  [Pool!PoolNext]_(Pool!poolVars)
<1>1. Connections = Handlers \ {FREE, WAIT}
  BY DEF Connections
<1>0. \A S : Pool!Cardinality(S) = Cardinality(S)
  BY Zenon DEF Pool!Cardinality, Cardinality, Pool!IsFiniteSet, IsFiniteSet
<1>2. CASE Stays
  <2>1. backlog' = backlog /\ Sessions' = Sessions /\ Phase' = Phase
    BY <1>2 DEF Stays
  <2> QED BY <2>1, Zenon DEF Sessions, Phase, Pool!poolVars
<1>3. CASE Arrives
  <2>1. Phase = "up" /\ backlog' = backlog + 1 /\ Sessions' = Sessions /\ Phase' = Phase
    BY <1>3 DEF Arrives
  <2>2. Pool!Arrive
    BY <2>1, Zenon DEF Sessions, Phase, Pool!Arrive
  <2> QED BY <2>2, Zenon DEF Pool!PoolNext
<1>4. CASE Admits
  <2>1. PICK fd \in ConnFds, h \in Connections :
          (\A s \in Served : s[1] # fd /\ s[2] # h) /\ Served' = Served \cup {<<fd, h>>}
    BY <1>4 DEF Admits
  <2>2. /\ Phase = "up" /\ backlog > 0 /\ Cardinality(Sessions) < MaxConnections - 1
        /\ \A s \in Sessions : s[1] # fd /\ s[2] # h
        /\ backlog' = backlog - 1 /\ Phase' = Phase
        /\ Sessions' = Sessions \cup {<<fd, h>>}
    BY <1>4, <2>1 DEF Admits
  <2>3. Pool!Admit(fd, h)
    BY <1>0, <2>2, Zenon DEF Sessions, Phase, Pool!Admit
  <2> QED BY <1>1, <2>3, Zenon DEF Pool!PoolNext
<1>5. CASE Loses
  <2>1. /\ Phase = "up" /\ backlog > 0 /\ Cardinality(Sessions) < MaxConnections - 1
        /\ KernelFails \/ FcntlFails
        /\ backlog' = backlog - 1 /\ Sessions' = Sessions /\ Phase' = Phase
    BY <1>5 DEF Loses
  <2>2. Pool!Lose
    BY <1>0, <2>1, Zenon DEF Sessions, Phase, Pool!Lose
  <2> QED BY <2>2, Zenon DEF Pool!PoolNext
<1>6. CASE Closes
  <2>1. PICK s \in Sessions : Sessions' = Sessions \ {s}
    BY <1>6 DEF Closes
  <2>2. Phase # "down" /\ backlog' = backlog /\ Phase' = Phase
    BY <1>6 DEF Closes
  <2>3. Pool!Close(s)
    BY <2>1, <2>2, Zenon DEF Sessions, Phase, Pool!Close
  <2> QED BY <2>1, <2>3, Zenon DEF Sessions, Pool!PoolNext
<1>7. CASE Stops
  <2>1. Phase = "up" /\ Phase' = "closing" /\ backlog' = backlog /\ Sessions' = Sessions
    BY <1>7 DEF Stops
  <2>2. Pool!BeginStop
    BY <2>1, Zenon DEF Sessions, Phase, Pool!BeginStop
  <2> QED BY <2>2, Zenon DEF Pool!PoolNext
<1>8. CASE Downs
  <2>1. /\ Phase = "closing" /\ Sessions = {} /\ Phase' = "down" /\ backlog' = backlog
        /\ Sessions' = Sessions
    BY <1>8 DEF Downs
  <2>2. Pool!Down
    BY <2>1, Zenon DEF Sessions, Phase, Pool!Down
  <2> QED BY <2>2, Zenon DEF Pool!PoolNext
<1> QED BY <1>2, <1>3, <1>4, <1>5, <1>6, <1>7, <1>8 DEF PoolMoves
(* How many are served. *)
LEMMA FewServed ==
  ASSUME TcpServerIInv, Running, NEW h \in FreeObjects
  PROVE  Cardinality(Served) < MaxConnections - 1
<1>1. Live \subseteq Connections /\ h \in Connections \ Live /\ Serving = Live
  BY LiveFacts, HandleTypes, RunningServes DEF FreeObjects, Live
<1>2. /\ IsFiniteSet(Connections) /\ Cardinality(Connections) = MaxConnections - 1
  BY ObjectCount
<1>3. /\ IsFiniteSet(Live) /\ Cardinality(Live) <= Cardinality(Connections)
      /\ Cardinality(Live) # Cardinality(Connections)
  BY <1>1, <1>2, FS_Subset
<1>4. PICK f : f = [g \in Live |-> <<m.fd[HandleOf(g)], g>>]
  OBVIOUS
<1>5. f \in Surjection(Live, Served)
  BY <1>1, <1>4 DEF Served, Surjection
<1>6. IsFiniteSet(Served) /\ Cardinality(Served) <= Cardinality(Live)
  BY <1>3, <1>5, FS_Surjection
<1>7. Cardinality(Live) \in Nat /\ Cardinality(Served) \in Nat
  BY <1>3, <1>6, FS_CardinalityType
<1> QED BY <1>2, <1>3, <1>6, <1>7, Numbers

(* Outside shutdown() a step that is quiet leaves the pool alone. *)
LEMMA QuietStays ==
  ASSUME TcpServerIInv, Quiet, Running, Running', backlog' = backlog
  PROVE  Gone' /\ PoolMoves
<1>1. Serving = Live /\ Serving' = Live' /\ Gone'
  BY AllServed, AllServedNext
<1>2. Served' = Served
  BY <1>1, QuietLive, QuietServed
<1>3. Phase' = Phase
  BY DEF Running, Phase
<1> QED BY <1>1, <1>2, <1>3 DEF PoolMoves, Stays

(* The beginning of shutdown(). *)
LEMMA QuietStops ==
  ASSUME TcpServerIInv, Quiet, Running, pc' = "shutdown", cur' = 0, backlog' = backlog
  PROVE  Gone' /\ PoolMoves
<1>1. Serving = Live /\ Serving' = Live' /\ Gone'
  BY AllServed, AllServedNext
<1>2. Served' = Served
  BY <1>1, QuietLive, QuietServed
<1>3. Phase = "up" /\ Phase' = "closing"
  BY DEF Running, Phase
<1> QED BY <1>1, <1>2, <1>3 DEF PoolMoves, Stops

(* The kernel's ready list is nobody's descriptor. *)
LEMMA ArmedQuiet ==
  ASSUME TcpServerIInv, NEW A, m' = [m EXCEPT !.armed = A], UNCHANGED conn
  PROVE  Quiet
<1>1. PICK t : t = [m EXCEPT !.armed = A]
  OBVIOUS
<1>2. t.fd = m.fd
  BY <1>1, HandleTypes, ArmedEffect
<1> QED BY <1>1, <1>2 DEF Quiet

(* A client arrives, and nothing else outside the loop concerns the pool. *)
LEMMA EnvironmentPool ==
  ASSUME TcpServerIInv, Environment
  PROVE  Gone' /\ PoolMoves
<1>1. CASE Connect
  <2>1. PICK A : A = m.armed \cup {id \in Slots : m.interest[id] # {} /\ m.fd[id] = ListenFd}
    OBVIOUS
  <2>2. Quiet
    BY <1>1, <2>1, ArmedQuiet DEF Connect, connVars, Woken
  <2>3. Running /\ Running' /\ pc' = pc /\ backlog' = backlog + 1
    BY <1>1 DEF Connect, AtSystemCall, loopVars, Running
  <2>4. Serving = Live /\ Serving' = Live' /\ Gone'
    BY <2>3, AllServed, AllServedNext
  <2>5. Served' = Served
    BY <2>2, <2>4, QuietLive, QuietServed
  <2>6. Phase = "up" /\ Phase' = "up"
    BY <2>3 DEF Running, Phase
  <2> QED BY <2>3, <2>4, <2>5, <2>6 DEF PoolMoves, Arrives
<1>2. CASE \E fd \in ConnFds : Send(fd) \/ Fin(fd) \/ Reset(fd) \/ Drain(fd)
  <2>1. PICK fd, s : PeerActs(fd, s)
    BY <1>2 DEF Send, Fin, Reset, Drain
  <2>2. PICK A : A = m.armed \cup {id \in Slots : m.interest[id] # {} /\ m.fd[id] = fd}
    OBVIOUS
  <2>3. Quiet
    BY <2>1, <2>2, ArmedQuiet DEF PeerActs, connVars, Woken
  <2>4. Running /\ Running' /\ backlog' = backlog
    BY <2>1 DEF PeerActs, AtSystemCall, loopVars, worldVars, Running
  <2> QED BY <2>3, <2>4, QuietStays
<1>3. CASE Tick \/ Interrupt
  <2>1. Quiet
    BY <1>3 DEF Tick, Interrupt, Quiet, connVars
  <2>2. Running /\ Running' /\ backlog' = backlog
    BY <1>3 DEF Tick, Interrupt, loopVars, Running
  <2> QED BY <2>1, <2>2, QuietStays
<1> QED BY <1>1, <1>2, <1>3 DEF Environment

(* The listener is registered, or the server stops before it has started. *)
LEMMA InitializePool ==
  ASSUME TcpServerIInv, Initialize
  PROVE  Gone' /\ PoolMoves
<1>1. pc = "init" /\ Running /\ conn' = conn /\ backlog' = backlog
  BY DEF Initialize, Running, connVars, worldVars
<1>2. Running' \/ (pc' = "shutdown" /\ cur' = 0)
  BY DEF Initialize, Running
<1>3. Serving = Live /\ Serving' = Live' /\ Gone'
  BY <1>1, <1>2, AllServed, AllServedNext
<1>4. Live = {} /\ Live' = {}
  BY <1>1, Numbers DEF TcpServerIInv, Untried, Live
<1>5. Served = {} /\ Served' = {}
  BY <1>3, <1>4 DEF Served
<1>6. Phase = "up" /\ (Phase' = "up" \/ Phase' = "closing")
  BY <1>1, <1>2 DEF Running, Phase
<1> QED BY <1>1, <1>3, <1>5, <1>6 DEF PoolMoves, Stays, Stops

(* Waiting for events, and collecting them. *)
LEMMA GatherPool ==
  ASSUME TcpServerIInv,
         StartRunTimer \/ ExpireEntry \/ FinishRunTimer \/ StartWait \/ CollectEvent \/ FinishWait
  PROVE  Gone' /\ PoolMoves
<1>1. Running /\ Running' /\ backlog' = backlog /\ conn' = conn
  BY DEF StartRunTimer, ExpireEntry, FinishRunTimer, StartWait, CollectEvent, FinishWait,
         Running, loopVars, connVars, worldVars
<1>2. \A i \in Slots : m'.fd[i] = m.fd[i]
  <2>1. CASE StartRunTimer
    <3>1. PICK t : t = ReadClock(m, now)
      OBVIOUS
    <3>2. \A i \in Slots : Untouched(m, t, i)
      BY <3>1, HandleTypes, ReadClockEffect
    <3> QED BY <2>1, <3>1, <3>2 DEF StartRunTimer, Untouched
  <2>2. CASE ExpireEntry
    <3>1. PICK e \in m.timers : m' = Expire(m, e)
      BY <2>2 DEF ExpireEntry, Due
    <3>2. PICK t, id : t = Expire(m, e) /\ id = e[2]
      OBVIOUS
    <3>3. Receives(m, t, id, {TIMER})
      BY <3>2, HandleTypes, ExpireEffect
    <3> QED BY <3>1, <3>2, <3>3 DEF Receives
  <2>3. CASE StartWait
    <3>1. PICK A : A = {id \in Reported(m, Ready) : EDGE \notin m.interest[id]}
      OBVIOUS
    <3>2. m' = [m EXCEPT !.armed = A]
      BY <2>3, <3>1 DEF StartWait, EpollWait
    <3>3. Quiet
      BY <1>1, <3>2, ArmedQuiet
    <3> QED BY <3>3 DEF Quiet
  <2>4. CASE CollectEvent
    <3>1. PICK e \in evset : m' = Collect(m, e[1], e[2])
      BY <2>4 DEF CollectEvent
    <3>2. PICK id, ev, t : id = e[1] /\ ev = e[2] /\ t = Collect(m, id, ev)
      OBVIOUS
    <3>3. id \in Slots /\ ev \in SUBSET IO
      BY <3>1, <3>2 DEF TcpServerIInv, Pending
    <3>4. Receives(m, t, id, ev)
      BY <3>2, <3>3, HandleTypes, CollectEffect
    <3> QED BY <3>1, <3>2, <3>4 DEF Receives
  <2>5. CASE FinishRunTimer \/ FinishWait
    BY <2>5 DEF FinishRunTimer, FinishWait
  <2> QED BY <2>1, <2>2, <2>3, <2>4, <2>5
<1>3. Quiet
  BY <1>1, <1>2 DEF Quiet
<1> QED BY <1>1, <1>3, QuietStays

(* Failures of epoll_wait, and the steps between two handlers. *)
LEMMA BetweenPool ==
  ASSUME TcpServerIInv, WaitFails \/ CheckReady \/ EndOfPass \/ SkipHandle
  PROVE  Gone' /\ PoolMoves
<1>1. Quiet /\ Running /\ backlog' = backlog
  BY DEF WaitFails, CheckReady, EndOfPass, SkipHandle, Scanning, Quiet, connVars, worldVars, Running
<1>2. Running' \/ (pc' = "shutdown" /\ cur' = 0)
  BY DEF WaitFails, CheckReady, EndOfPass, SkipHandle, Scanning, Advance, Running
<1> QED BY <1>1, <1>2, QuietStays, QuietStops
(* A call of read or write is no concern of the pool, ... *)
LEMMA IotransferPool ==
  ASSUME TcpServerIInv, Iotransfer
  PROVE  Gone' /\ PoolMoves
<1>1. PICK h, fd : h = m.handler_id[cur] /\ fd = m.fd[cur]
  OBVIOUS
<1>2. \E by, result, s, wait : Transferred(h, fd, by, result, s, wait)
  BY <1>1, IotransferEffect
<1>3. PICK wait : conn' = [conn EXCEPT ![h].iowait = wait]
  BY <1>2 DEF Transferred
<1>4. m' = m /\ backlog' = backlog /\ Running' /\ Scanning
  BY <1>1, IotransferEffect DEF Iotransfer, Running
<1>5. conn \in [Handlers -> [state : {FREE, WAIT}, handle_id : {-1} \cup Slots, iowait : SUBSET IO]]
  BY DEF TcpServerIInv, Types, ConnTypes
<1>6. Quiet /\ Running
  BY <1>3, <1>4, <1>5 DEF Quiet, Scanning, Running
<1> QED BY <1>4, <1>6, QuietStays

(* A connection that is removed takes its descriptor with it. *)
LEMMA RemovesPool ==
  ASSUME TcpServerIInv, NEW h, NEW fd, Removes(h, fd)
  PROVE  Gone' /\ PoolMoves
<1>1. h \in Live /\ HandleOf(h) = cur /\ fd = m.fd[cur] /\ Removed(h, fd)
  BY DEF Removes
<1>2. /\ Running /\ Running' /\ backlog' = backlog /\ OnlyTouches(m, m', cur)
      /\ conn' = [conn EXCEPT ![h].state = FREE]
  BY <1>1 DEF Removed, Running, Scanning
<1>3. Serving = Live /\ Serving' = Live' /\ Gone'
  BY <1>2, AllServed, AllServedNext
<1>4. conn \in [Handlers -> [state : {FREE, WAIT}, handle_id : {-1} \cup Slots, iowait : SUBSET IO]]
  BY DEF TcpServerIInv, Types, ConnTypes
<1>5. \A g \in Handlers : /\ conn'[g].handle_id = conn[g].handle_id
                          /\ conn'[g].state = IF g = h THEN FREE ELSE conn[g].state
  BY <1>2, <1>4
<1>6. Serving' = Serving \ {h}
  BY <1>1, <1>3, <1>5 DEF Live
<1>7. ASSUME NEW g \in Serving \ {h}
      PROVE  <<m'.fd[HandleOf(g)'], g>> = <<m.fd[HandleOf(g)], g>>
  <2>1. PICK id, jd : id = HandleOf(g) /\ jd = HandleOf(h)
    OBVIOUS
  <2>2. id \in Slots /\ Holds(g, id) /\ Holds(h, jd) /\ g \in Handlers
    BY <1>1, <1>3, <2>1, Held, Numbers
  <2>3. id # cur
    BY <1>1, <2>1, <2>2, <1>7 DEF Holds
  <2>4. m'.fd[id] = m.fd[id] /\ HandleOf(g)' = id
    BY <1>2, <1>5, <2>1, <2>2, <2>3 DEF OnlyTouches, Untouched, HandleOf
  <2> QED BY <2>1, <2>4
<1>8. Served' = {<<m.fd[HandleOf(g)], g>> : g \in Serving \ {h}}
  BY <1>6, <1>7 DEF Served
<1>9. <<fd, h>> \in Served /\ Served' = Served \ {<<fd, h>>}
  BY <1>1, <1>3, <1>8 DEF Served
<1>10. Phase = "up" /\ Phase' = "up"
  BY <1>2 DEF Running, Phase
<1> QED BY <1>2, <1>3, <1>9, <1>10 DEF PoolMoves, Closes

(* ... nor is what follows, unless the connection is closed. *)
LEMMA SettlePool ==
  ASSUME TcpServerIInv, Progress \/ NoProgress \/ Hangup \/ OnTimer
  PROVE  Gone' /\ PoolMoves
<1>1. CASE Hangup \/ OnTimer
  BY <1>1, HangupRemoves, OnTimerRemoves, RemovesPool
<1>2. CASE NoProgress
  <2>1. PICK h, dir : h = io.h /\ dir = Dir
    OBVIOUS
  <2>2. /\ pc = "settle" /\ Running /\ Running' /\ backlog' = backlog /\ conn' = conn
        /\ io.result \in {"again", "intr"}
    BY <1>2 DEF NoProgress, Resume, connVars, worldVars, Running
  <2>3. /\ Sound(m) /\ conn[h].handle_id = cur /\ Registered(h, cur)
        /\ cur \in Nodes /\ InUse(m, cur) /\ m.ev_permit[cur]
    BY <2>1, <2>2, AtSettle DEF InUse, Registered
  <2>4. PICK w : w = Drop(m, {dir}, cur)
    OBVIOUS
  <2>5. w.fd = m.fd
    BY <2>1, <2>3, <2>4, DropEffect DEF Dir, IO
  <2>6. m' = w \/ m' = m
    BY <1>2, <2>1, <2>3, <2>4 DEF NoProgress, Dir
  <2>7. Quiet
    BY <2>2, <2>5, <2>6 DEF Quiet
  <2> QED BY <2>2, <2>7, QuietStays
<1>3. CASE Progress
  <2>1. CASE \E h, fd : Removes(h, fd)
    BY <2>1, RemovesPool
  <2>2. CASE /\ m' = IF Turns THEN Mod(ModTimer(m, Uptime, cur), {Other, EDGE}, cur)
                              ELSE ModTimer(m, Uptime, cur)
             /\ UNCHANGED <<sock, connVars>>
    <3>1. PICK h, s, trigger : h = io.h /\ s = ModTimer(m, Uptime, cur) /\ trigger = {Other, EDGE}
      OBVIOUS
    <3>2. /\ pc = "settle" /\ Running /\ Running' /\ backlog' = backlog /\ conn' = conn
      BY <1>3, <2>2 DEF Progress, Resume, connVars, worldVars, Running
    <3>3. cur \in Slots
      BY <3>1, <3>2, <1>3, AtSettle DEF Progress
    <3>4. Sound(s) /\ s.fd = m.fd /\ InUse(s, cur) /\ s.ev_permit[cur]
      BY <1>3, <3>1, <3>2, Restarted
    <3>5. trigger \in SUBSET (IO \cup {EDGE}) /\ trigger \cap IO # {}
      BY <3>1 DEF Other, IO, EDGE
    <3>6. PICK w : w = Mod(s, trigger, cur)
      OBVIOUS
    <3>7. Registers(s, w, cur, trigger)
      BY <3>3, <3>4, <3>5, <3>6, ModEffect
    <3>8. m'.fd = m.fd
      BY <2>2, <3>1, <3>4, <3>6, <3>7 DEF Registers
    <3>9. Quiet
      BY <3>2, <3>8 DEF Quiet
    <3> QED BY <3>2, <3>9, QuietStays
  <2> QED BY <1>3, <2>1, <2>2, ProgressCases
<1> QED BY <1>1, <1>2, <1>3

(* A client is admitted, or lost, or there was none. *)
LEMMA OnAcceptPool ==
  ASSUME TcpServerIInv, OnAccept
  PROVE  Gone' /\ PoolMoves
<1>1. PICK first \in FreeObjects : first = handlers.next[FREE]
  BY OnAcceptCases
<1>2. /\ Running /\ Running' /\ Phase = "up" /\ Phase' = "up"
  BY DEF OnAccept, DispatchAccept, Scanning, Advance, Running, Phase
<1>3. Serving = Live /\ Serving' = Live' /\ Gone'
  BY <1>2, AllServed, AllServedNext
<1>4. Cardinality(Served) < MaxConnections - 1
  BY <1>1, <1>2, FewServed
<1>5. ASSUME PassedBy PROVE Served' = Served
  <2>1. m' = m /\ \A h \in Live : conn'[h] = conn[h]
    BY <1>5, Numbers DEF PassedBy, FreeObjects, Live, TcpServerIInv, Types, ConnTypes
  <2>2. Live' = Live
    <3>1. conn \in [Handlers -> [state : {FREE, WAIT}, handle_id : {-1} \cup Slots, iowait : SUBSET IO]]
      BY DEF TcpServerIInv, Types, ConnTypes
    <3>2. \A h \in Handlers : conn'[h].state = conn[h].state
      BY <1>5, <3>1 DEF PassedBy, FreeObjects
    <3> QED BY <3>2 DEF Live
  <2>3. \A h \in Live : HandleOf(h)' = HandleOf(h)
    BY <2>1 DEF HandleOf
  <2> QED BY <1>3, <2>1, <2>2, <2>3 DEF Served
<1>6. CASE backlog > 0 /\ backlog' = backlog - 1 /\ \E h, id, fd : Welcomed(h, id, fd)
  <2>1. PICK h, id, fd : Welcomed(h, id, fd)
    BY <1>6
  <2>2. /\ h \in Connections /\ h \in Handlers /\ h \notin Live /\ id \in Slots /\ m.state[id] = FREE
        /\ Serving' = Live \cup {h} /\ HandleOf(h)' = id
        /\ \A g \in Handlers \ {h} : conn'[g] = conn[g]
    BY <2>1, WelcomedFacts
  <2>3. fd \in ConnFds /\ ~sock[fd].open /\ OnlyTouches(m, m', id) /\ m'.fd[id] = fd
    BY <2>1 DEF Welcomed
  <2>4. ASSUME NEW g \in Live
        PROVE  /\ <<m'.fd[HandleOf(g)'], g>> = <<m.fd[HandleOf(g)], g>>
               /\ m.fd[HandleOf(g)] # fd /\ g # h
    <3>1. PICK jd : jd = HandleOf(g)
      OBVIOUS
    <3>2. jd \in Slots /\ Holds(g, jd) /\ m.state[jd] # FREE /\ g \in Handlers
      BY <1>3, <3>1, Held, Numbers
    <3>3. jd # id /\ g # h
      BY <2>2, <3>2
    <3>4. m'.fd[jd] = m.fd[jd] /\ HandleOf(g)' = jd
      BY <2>2, <2>3, <3>1, <3>2, <3>3 DEF OnlyTouches, Untouched, HandleOf
    <3> QED BY <2>3, <3>1, <3>2, <3>3, <3>4 DEF Holds
  <2>5. Served' = Served \cup {<<fd, h>>}
    <3>1. <<m'.fd[HandleOf(h)'], h>> = <<fd, h>>
      BY <2>2, <2>3
    <3> QED BY <1>3, <2>2, <2>4, <3>1 DEF Served
  <2>6. \A s \in Served : s[1] # fd /\ s[2] # h
    BY <1>3, <2>4 DEF Served
  <2> QED BY <1>2, <1>3, <1>4, <1>6, <2>2, <2>3, <2>5, <2>6 DEF PoolMoves, Admits
<1>7. CASE backlog > 0 /\ backlog' = backlog - 1 /\ (KernelFails \/ FcntlFails) /\ PassedBy
  BY <1>2, <1>3, <1>4, <1>5, <1>7 DEF PoolMoves, Loses
<1>8. CASE backlog' = backlog /\ PassedBy
  BY <1>2, <1>3, <1>5, <1>8 DEF PoolMoves, Stays
<1> QED BY <1>6, <1>7, <1>8, OnAcceptCases
(* shutdown() closes the connections in use one after the other, ... *)
LEMMA ShutdownHandlerPool ==
  ASSUME TcpServerIInv, Gone, ShutdownHandler
  PROVE  Gone' /\ PoolMoves
<1>1. /\ pc = "shutdown" /\ pc' = pc /\ cur \in Handlers /\ cur' = cur + 1
      /\ conn' = conn /\ backlog' = backlog
  BY DEF ShutdownHandler, connVars, worldVars
<1>2. Live' = Live /\ \A h : HandleOf(h)' = HandleOf(h)
  BY <1>1 DEF Live, HandleOf
<1>3. Serving = {h \in Live : cur <= h} /\ Serving' = {h \in Live : cur + 1 <= h}
  BY <1>1, <1>2 DEF Serving, Running
<1>4. \A h \in Live : h \in Nat /\ cur \in Nat
  BY <1>1, Numbers DEF Live
<1>5. Phase = "closing" /\ Phase' = "closing"
  BY <1>1 DEF Phase
<1>6. CASE cur > 0 /\ conn[cur].state # FREE
  <2>1. PICK h, id, fd, w : h = cur /\ id = HandleOf(h) /\ fd = m.fd[id] /\ w = Del(m, id)
    OBVIOUS
  <2>2. h \in Live /\ h \in Serving /\ Serving' = Serving \ {h}
    BY <1>1, <1>3, <1>4, <1>6, <2>1 DEF Live
  <2>3. Holds(h, id) /\ id \in Slots /\ id \in Nodes /\ ~DelRefused(m, id)
    BY <2>1, <2>2, Held, NodesFacts
  <2>4. m' = w
    BY <1>6, <2>1 DEF ShutdownHandler, HandleOf
  <2>5. SoundBut(m, id)
    BY HandleTypes DEF Sound, SoundBut
  <2>6. OnlyTouches(m, w, id) /\ w.fd[id] = NoFd
    BY <2>1, <2>3, <2>5, DelEffect
  <2>7. ASSUME NEW g \in Serving'
        PROVE  <<m'.fd[HandleOf(g)'], g>> = <<m.fd[HandleOf(g)], g>>
    <3>1. PICK jd : jd = HandleOf(g)
      OBVIOUS
    <3>2. jd \in Slots /\ Holds(g, jd) /\ g # h
      BY <2>2, <2>7, <3>1, Held
    <3>3. jd # id
      BY <2>3, <3>2 DEF Holds
    <3>4. m'.fd[jd] = m.fd[jd] /\ HandleOf(g)' = jd
      BY <1>2, <2>4, <2>6, <3>1, <3>2, <3>3 DEF OnlyTouches, Untouched
    <3> QED BY <3>1, <3>4
  <2>8. Served' = {<<m.fd[HandleOf(g)], g>> : g \in Serving \ {h}}
    BY <2>2, <2>7 DEF Served
  <2>9. <<fd, h>> \in Served /\ Served' = Served \ {<<fd, h>>}
    BY <2>1, <2>2, <2>8 DEF Served
  <2>10. Gone'
    <3>1. ASSUME NEW g \in Live, g \notin Serving'
          PROVE  HandleOf(g)' \in Slots /\ m'.fd[HandleOf(g)'] = NoFd
      <4>1. PICK jd : jd = HandleOf(g)
        OBVIOUS
      <4>2. jd \in Slots /\ (jd = id \/ m.fd[jd] = NoFd)
        BY <2>1, <2>2, <2>3, <3>1, <4>1 DEF Gone
      <4>3. HandleOf(g)' = jd
        BY <1>2, <4>1
      <4> QED BY <2>4, <2>6, <4>2, <4>3 DEF OnlyTouches, Untouched
    <3> QED BY <1>2, <3>1 DEF Gone
  <2> QED BY <1>1, <1>5, <2>9, <2>10 DEF PoolMoves, Closes
<1>7. CASE ~(cur > 0 /\ conn[cur].state # FREE)
  <2>1. m' = m
    BY <1>7 DEF ShutdownHandler
  <2>2. cur \notin Live
    BY <1>4, <1>7 DEF Live
  <2>3. Serving' = Serving
    BY <1>3, <1>4, <2>2
  <2>4. Quiet
    BY <1>1, <2>1 DEF Quiet
  <2>5. Served' = Served
    BY <2>3, <2>4, QuietServed
  <2>6. Gone'
    BY <1>2, <2>1, <2>3 DEF Gone
  <2> QED BY <1>1, <1>5, <2>5, <2>6 DEF PoolMoves, Stays
<1> QED BY <1>6, <1>7

(* ... and is over when it has come past the last. *)
LEMMA StopPool ==
  ASSUME TcpServerIInv, Gone, Stop
  PROVE  Gone' /\ PoolMoves
<1>1. /\ pc = "shutdown" /\ pc' = "stopped" /\ cur \notin Handlers /\ cur \in Nat
      /\ conn' = conn /\ backlog' = backlog /\ m' = m
  BY HandleTypes DEF Stop, AllClosed, connVars, worldVars, Types, LoopTypes
<1>2. \A h \in Handlers : ~(cur <= h)
  BY <1>1, Numbers DEF Handlers
<1>3. Serving = {} /\ Serving' = {}
  BY <1>1, <1>2 DEF Serving, Running, Live
<1>4. Served = {} /\ Served' = {}
  BY <1>3 DEF Served
<1>5. Phase = "closing" /\ Phase' = "down"
  BY <1>1 DEF Phase
<1>6. Gone'
  BY <1>1, <1>3 DEF Gone, Live, HandleOf
<1> QED BY <1>1, <1>4, <1>5, <1>6 DEF PoolMoves, Downs

(* A step that changes nothing. *)
LEMMA StutterPool == ASSUME Gone, UNCHANGED vars PROVE Gone' /\ PoolMoves
<1>1. Serving' = Serving /\ Live' = Live /\ m' = m /\ conn' = conn /\ pc' = pc /\ backlog' = backlog
  BY DEF vars, Serving, Live, Running
<1>2. Served' = Served /\ Gone' /\ Phase' = Phase
  BY <1>1 DEF Served, Gone, HandleOf, Phase
<1> QED BY <1>1, <1>2 DEF PoolMoves, Stays

(* Every step. *)
LEMMA StepPool ==
  ASSUME TcpServerIInv, Gone, [TcpServerNext]_vars
  PROVE  Gone' /\ PoolMoves
BY EnvironmentPool, InitializePool, GatherPool, BetweenPool, IotransferPool, SettlePool,
   OnAcceptPool, ShutdownHandlerPool, StopPool, StutterPool
DEF TcpServerNext, Loop

(* The abstract server starts when the constructors are done. *)
LEMMA PoolStarts == TcpServerInit => Gone /\ Pool!PoolInit
<1> SUFFICES ASSUME TcpServerInit PROVE Gone /\ Pool!PoolInit
  OBVIOUS
<1>1. Live = {} /\ backlog = 0 /\ pc = "init"
  BY DEF TcpServerInit, Live
<1>2. {c \in ConnFds : sock[c].open} = {}
  BY DEF TcpServerInit, Closed
<1>3. Sessions = {} /\ Phase = "up"
  BY <1>1, <1>2 DEF Sessions, Phase
<1>4. Pool!PoolInit
  BY <1>1, <1>3, Zenon DEF Sessions, Phase, Pool!PoolInit
<1> QED BY <1>1, <1>4 DEF Gone

-----------------------------------------------------------------------------
(* The server implements ConnPool for any number of connections, clients,  *)
(* descriptors and seconds: every step of the loop, of the clients, of the *)
(* clock and of the user is one step of the pool or none.  A descriptor    *)
(* never passes from one connection object to another, no step closes two  *)
(* connections, none is left to its own when a handler or a registration   *)
(* fails, nobody is admitted after shutdown() has begun, and it ends with  *)
(* all closed.                                                             *)
THEOREM ServerIsAPool == TcpServerSpec => ImplementsPool
<1>1. TcpServerInit => TcpServerIInv /\ Gone /\ Pool!PoolInit
  BY TcpServerStart, PoolStarts
<1>2. TcpServerIInv /\ Gone /\ [TcpServerNext]_vars => Gone'
  BY StepPool
<1>3. ASSUME TcpServerIInv, Gone, Sessions = Served, (Sessions = Served)', [TcpServerNext]_vars
      PROVE  [Pool!PoolNext]_(Pool!poolVars)
  <2>1. PoolMoves
    BY <1>3, StepPool
  <2>2. Sessions' = Served'
    BY <1>3
  <2> QED BY <1>3, <2>1, <2>2, MovesThePool
<1>4. TcpServerSpec => []TcpServerIInv
  BY TcpServerSafe
<1>5. TcpServerIInv /\ Gone => Sessions = Served
  BY SessionsServed
<1> QED BY <1>1, <1>2, <1>3, <1>4, <1>5, PTL DEF TcpServerSpec, ImplementsPool, Pool!PoolSpec
=============================================================================
