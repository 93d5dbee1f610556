------------------------------ MODULE TcpServer ------------------------------
(***************************************************************************)
(* tcpserver_type (tcpserver.cpp): the single threaded loop that waits for *)
(* events and timers, walks the READY ring and calls the connections, with *)
(* the part of connection_type (http-connection.cpp) that the loop talks   *)
(* to: on_accept, on_read, on_write, on_timer and on_close.  What a        *)
(* connection does with the bytes is left open here (module Connection):   *)
(* one call of iotransfer makes one system call and leaves the connection  *)
(* waiting to read or to write.                                            *)
(*                                                                         *)
(* Against it run the clients, the clock and the signals.  They interleave *)
(* with every system call of the loop and between a call of read or write  *)
(* and what the loop does with its result.  They take no step inside the   *)
(* stretches that only touch the server's memory (the loops of wait and    *)
(* run_timer), with whose steps theirs commute; the clock, which run_timer *)
(* reads and whose flag it resets, is the exception.                       *)
(***************************************************************************)
EXTENDS MplexIo, FiniteSets

CONSTANTS MaxConnections,  \* MAX_CONNECTIONS
          Timeout,         \* TIMEOUT
          MaxRx,           \* bound: reads' worth of input queued in a socket
          MaxClients,      \* bound: connections the clients ever make
          MaxTime,         \* bound of the clock
          KernelFails,     \* may epoll_ctl and epoll_wait fail?
          FcntlFails,      \* may fcntl fail on an accepted socket?
          Signals          \* may SIGINT be sent?

ASSUME TcpServerAssumption ==
  /\ MaxConnections \in Nat \ {0}
  /\ MaxEvents = 1 + MaxConnections
  /\ Timeout \in Nat \ {0}
  /\ MaxRx \in Nat /\ MaxClients \in Nat /\ MaxTime \in Nat
  /\ {KernelFails, FcntlFails, Signals} \subseteq BOOLEAN

VARIABLES
  m,          \* the multiplexer
  evset,      \* events epoll_wait returned, not yet collected
  handlers,   \* the rings of the connections: FREE and WAIT
  conn,       \* conn[h]: the fields of connection h the loop depends on
  pc,         \* where run() is
  cur, nxt,   \* i and next_i of run()'s loop over the READY ring
  io,         \* the result of iotransfer that on_read or on_write looks at
  sock,       \* sock[fd]: the kernel's end of an accepted connection
  backlog,    \* clients waiting in the listener's queue
  clients,    \* clients that came so far
  now,        \* time()
  alarm,      \* g_signal_alrm
  sigint,     \* g_signal_status
  born        \* history: looptime when the connection was accepted

loopVars == <<pc, cur, nxt, io>>
connVars == <<handlers, conn, born>>
worldVars == <<backlog, clients, now, sigint>>
vars == <<m, evset, handlers, conn, pc, cur, nxt, io, sock, backlog, clients,
          now, alarm, sigint, born>>

Handlers == 0..MaxConnections         \* node 0 and 1 head FREE and WAIT
Live     == {h \in Handlers : h # 0 /\ conn[h].state # FREE}
ListenFd == 0
ConnFds  == 1..MaxConnections

NoIo     == [by |-> "none", h |-> 0, result |-> "none"]
Closed   == [open |-> FALSE, rx |-> 0, peer |-> "gone", room |-> FALSE]

TcpServerInit ==
  /\ m = FreshMplex(0)
  /\ evset = {}
  /\ handlers = Erase(Resize(1 + MaxConnections), WAIT)
  /\ conn = [h \in Handlers |-> [state |-> FREE, handle_id |-> -1, iowait |-> {}]]
  /\ pc = "init" /\ cur = READY /\ nxt = READY /\ io = NoIo
  /\ sock = [fd \in ConnFds |-> Closed]
  /\ backlog = 0 /\ clients = 0 /\ now = 0 /\ alarm = FALSE /\ sigint = FALSE
  /\ born = [h \in Handlers |-> 0]

-----------------------------------------------------------------------------
(* The kernel's sockets.  poll() of a descriptor; a wakeup puts the handle *)
(* it is registered with on the ready list.                                *)
PollFd(fd) ==
  IF fd = ListenFd
  THEN IF backlog > 0 THEN {"READ"} ELSE {}
  ELSE (IF sock[fd].rx > 0 \/ sock[fd].peer # "open" THEN {"READ"} ELSE {})
       \cup (IF sock[fd].room \/ sock[fd].peer = "reset" THEN {"WRITE"} ELSE {})

Ready == [id \in m.armed |-> PollFd(m.fd[id])]

Woken(fd) ==
  [m EXCEPT !.armed = @ \cup {id \in Slots : m.interest[id] # {} /\ m.fd[id] = fd}]

AtSystemCall == pc \in {"top", "scan", "settle"}

Connect ==
  /\ AtSystemCall /\ clients < MaxClients
  /\ clients' = clients + 1
  /\ backlog' = backlog + 1
  /\ m' = Woken(ListenFd)
  /\ UNCHANGED <<loopVars, connVars, evset, sock, now, alarm, sigint>>

(* A client sends, half-closes, resets, or takes what the server wrote. *)
PeerActs(fd, s) ==
  /\ AtSystemCall /\ sock[fd].open
  /\ sock' = [sock EXCEPT ![fd] = s]
  /\ m' = Woken(fd)
  /\ UNCHANGED <<loopVars, connVars, evset, worldVars, alarm>>

Send(fd)  == /\ sock[fd].peer = "open" /\ sock[fd].rx < MaxRx
             /\ PeerActs(fd, [sock[fd] EXCEPT !.rx = @ + 1])
Fin(fd)   == /\ sock[fd].peer = "open"
             /\ PeerActs(fd, [sock[fd] EXCEPT !.peer = "fin"])
Reset(fd) == /\ sock[fd].peer \in {"open", "fin"}
             /\ PeerActs(fd, [sock[fd] EXCEPT !.peer = "reset", !.rx = 0])
Drain(fd) == /\ ~sock[fd].room
             /\ PeerActs(fd, [sock[fd] EXCEPT !.room = TRUE])

(* The interval timer: every second SIGALRM, which only sets a flag.       *)
(* run_timer takes less than a second: at most one alarm falls into it.    *)
Tick ==
  /\ pc = "top" \/ (pc = "timer" /\ now = m.looptime)
  /\ now < MaxTime
  /\ now' = now + 1
  /\ alarm' = TRUE
  /\ UNCHANGED <<m, evset, loopVars, connVars, sock, backlog, clients, sigint>>

Interrupt ==
  /\ pc \in {"top", "check", "scan"} /\ Signals /\ ~sigint
  /\ sigint' = TRUE
  /\ UNCHANGED <<m, evset, loopVars, connVars, sock, backlog, clients, now, alarm>>

Environment ==
  \/ Connect
  \/ \E fd \in ConnFds : Send(fd) \/ Fin(fd) \/ Reset(fd) \/ Drain(fd)
  \/ Tick
  \/ Interrupt

-----------------------------------------------------------------------------
(* initialize(): the listener is registered level triggered, for READ.     *)
(* Any failure on the way leads straight to shutdown().                    *)
Initialize ==
  /\ pc = "init"
  /\ \/ pc' = "top" /\ m' = Add(m, {"READ"}, ListenFd, 0, TRUE)
     \/ KernelFails /\ pc' = "shutdown" /\ UNCHANGED m
  /\ cur' = 0
  /\ UNCHANGED <<evset, nxt, io, connVars, sock, worldVars, alarm>>

(* Top of the loop, after an alarm: run_timer, then the flag is reset.     *)
StartRunTimer ==
  /\ pc = "top" /\ alarm
  /\ m' = ReadClock(m, now)
  /\ pc' = "timer"
  /\ UNCHANGED <<evset, cur, nxt, io, connVars, sock, worldVars, alarm>>

ExpireEntry ==
  /\ pc = "timer"
  /\ \E e \in Due(m) : m' = Expire(m, e)
  /\ UNCHANGED <<evset, loopVars, connVars, sock, worldVars, alarm>>

FinishRunTimer ==
  /\ pc = "timer" /\ Due(m) = {}
  /\ alarm' = FALSE
  /\ pc' = "check"
  /\ UNCHANGED <<m, evset, cur, nxt, io, connVars, sock, worldVars>>

(* Otherwise wait.  With nothing to report it returns after a second, at   *)
(* once when READY holds a handle, or on SIGINT: with no event each time.  *)
StartWait ==
  /\ pc = "top" /\ ~alarm
  /\ evset' = {<<id, Polled(m, Ready, id)>> : id \in Reported(m, Ready)}
  /\ m' = EpollWait(m, Ready)
  /\ pc' = "wait"
  /\ UNCHANGED <<cur, nxt, io, connVars, sock, worldVars, alarm>>

WaitFails ==
  /\ pc = "top" /\ ~alarm /\ KernelFails
  /\ pc' = "shutdown" /\ cur' = 0
  /\ UNCHANGED <<m, evset, nxt, io, connVars, sock, worldVars, alarm>>

CollectEvent ==
  /\ pc = "wait"
  /\ \E e \in evset : /\ m' = Collect(m, e[1], e[2])
                      /\ evset' = evset \ {e}
  /\ UNCHANGED <<loopVars, connVars, sock, worldVars, alarm>>

FinishWait ==
  /\ pc = "wait" /\ evset = {}
  /\ pc' = "check"
  /\ UNCHANGED <<m, evset, cur, nxt, io, connVars, sock, worldVars, alarm>>

(* Wrong variant of Interrupted: the break is missing. *)
InterruptedNever == FALSE

Interrupted == sigint

(* Then SIGINT, an empty READY ring, or a pass over it from begin(). *)
CheckReady ==
  /\ pc = "check"
  /\ \/ Interrupted /\ pc' = "shutdown" /\ cur' = 0
     \/ ~Interrupted /\ EmptyRing(m.ring, READY) /\ pc' = "top" /\ UNCHANGED cur
     \/ /\ ~Interrupted /\ ~EmptyRing(m.ring, READY)
        /\ pc' = "scan" /\ cur' = m.ring.next[READY]
  /\ UNCHANGED <<m, evset, nxt, io, connVars, sock, worldVars, alarm>>

-----------------------------------------------------------------------------
(* Wrong variants of CloseFd and GivenBack: the socket is left open; the   *)
(* connection object is not given back.                                    *)
CloseFdLeaks(fd) == sock

CloseFd(fd) == IF fd \in ConnFds THEN [sock EXCEPT ![fd] = Closed] ELSE sock

GivenBackNever(h) == handlers

GivenBack(h) == IF conn[h].state # FREE THEN Relink(handlers, h, FREE) ELSE handlers

(* remove_handler(h) on multiplexer value s: on_close deletes the handle   *)
(* and closes its file, the connection goes back to FREE.                  *)
RemoveHandler(s, h) ==
  LET id == conn[h].handle_id
  IN  /\ m' = Del(s, id)
      /\ sock' = CloseFd(s.fd[id])
      /\ conn' = [conn EXCEPT ![h].state = FREE]
      /\ handlers' = GivenBack(h)
      /\ born' = [born EXCEPT ![h] = 0]

(* The pass: next_i is read before the handler runs, which may move or     *)
(* free the handle i.                                                      *)
Scanning == pc = "scan" /\ cur # READY /\ ~sigint

EndOfPass ==
  /\ pc = "scan" /\ (cur = READY \/ sigint)
  /\ pc' = "top"
  /\ UNCHANGED <<m, evset, cur, nxt, io, connVars, sock, worldVars, alarm>>

Advance == cur' = m.ring.next[cur] /\ UNCHANGED <<pc, nxt, io>>

OnTimer ==
  /\ Scanning /\ TIMER \in Enabled(m, cur)
  /\ RemoveHandler(StopTimer(m, cur), m.handler_id[cur])
  /\ Advance
  /\ UNCHANGED <<evset, worldVars, alarm>>

DispatchRead  == Scanning /\ "READ" \in Enabled(m, cur) /\ TIMER \notin Enabled(m, cur)
                 /\ 0 < m.handler_id[cur]
DispatchWrite == Scanning /\ "WRITE" \in Enabled(m, cur) /\ TIMER \notin Enabled(m, cur)
                 /\ ~DispatchRead
DispatchAccept == Scanning /\ Enabled(m, cur) = {"READ"} /\ 0 = m.handler_id[cur]

(* iotransfer: the connection's continuation makes the one system call of  *)
(* the direction it waits for.                                             *)
IoResult(by, result, h, s, wait) ==
  /\ io' = [by |-> by, h |-> h, result |-> result]
  /\ sock' = [sock EXCEPT ![m.fd[conn[h].handle_id]] = s]
  /\ conn' = [conn EXCEPT ![h].iowait = wait]

Read(by, h) ==
  LET s == sock[m.fd[conn[h].handle_id]]
  IN  \/ \E n \in 1..s.rx, wait \in {{"READ"}, {"WRITE"}} :
           IoResult(by, "some", h, [s EXCEPT !.rx = @ - n], wait)
      \/ /\ s.rx = 0 /\ s.peer = "open"
         /\ IoResult(by, "again", h, s, conn[h].iowait)
      \/ /\ s.rx = 0 /\ s.peer = "fin"
         /\ IoResult(by, "zero", h, s, conn[h].iowait)
      \/ s.peer = "reset" /\ IoResult(by, "error", h, s, conn[h].iowait)

(* write or sendfile.  sendfile at the end of the file writes nothing, has *)
(* no use for room, and counts as progress; write of an empty body is 0.   *)
Write(by, h) ==
  LET s == sock[m.fd[conn[h].handle_id]]
  IN  \/ \E left \in BOOLEAN, wait \in {{"READ"}, {"WRITE"}} :
           /\ s.room /\ s.peer # "reset"
           /\ IoResult(by, "some", h, [s EXCEPT !.room = left], wait)
      \/ \E wait \in {{"READ"}, {"WRITE"}} : IoResult(by, "some", h, s, wait)
      \/ ~s.room /\ s.peer # "reset" /\ IoResult(by, "again", h, s, conn[h].iowait)
      \/ IoResult(by, "zero", h, s, conn[h].iowait)
      \/ s.peer = "reset" /\ IoResult(by, "error", h, s, conn[h].iowait)

Iotransfer ==
  /\ DispatchRead \/ DispatchWrite
  /\ LET h  == m.handler_id[cur]
         by == IF DispatchRead THEN "on_read" ELSE "on_write"
     IN  \/ conn[h].iowait = {"READ"} /\ Read(by, h) /\ UNCHANGED sigint
         \/ conn[h].iowait = {"WRITE"} /\ Write(by, h) /\ UNCHANGED sigint
         \/ /\ Signals /\ sigint' = TRUE       \* SIGINT interrupts it: EINTR
            /\ IoResult(by, "intr", h, sock[m.fd[conn[h].handle_id]], conn[h].iowait)
  /\ nxt' = m.ring.next[cur]
  /\ pc' = "settle"
  /\ UNCHANGED <<m, evset, cur, handlers, born, backlog, clients, now, alarm>>

(* Wrong variant of Resume: next_i is read after the handler has run. *)
ResumeLate == pc' = "scan" /\ cur' = m'.ring.next[cur] /\ io' = NoIo /\ UNCHANGED nxt

Resume == pc' = "scan" /\ cur' = nxt /\ io' = NoIo /\ UNCHANGED nxt

(* Wrong variants: the time out is in milliseconds; the direction never    *)
(* changes; it does not change back.                                       *)
UptimeMillis == (m.looptime + Timeout) * 1000
TurnsNever   == FALSE
TurnsOnce    == io.by = "on_read" /\ "WRITE" \in conn[io.h].iowait

Uptime == m.looptime + Timeout
Other  == IF io.by = "on_read" THEN "WRITE" ELSE "READ"
Turns  == Other \in conn[io.h].iowait

(* n > 0: the time out starts again, and when the connection now waits for *)
(* the other direction the registration is changed; if that fails it goes. *)
Progress ==
  /\ pc = "settle" /\ io.result = "some"
  /\ LET id == conn[io.h].handle_id
         s  == ModTimer(m, Uptime, id)
     IN  \/ /\ m' = IF Turns THEN Mod(s, {Other, EDGE}, id) ELSE s
            /\ UNCHANGED <<sock, connVars>>
         \/ /\ Turns /\ KernelFails
            /\ RemoveHandler(ModRefused(s, {Other, EDGE}, id), io.h)
  /\ Resume
  /\ UNCHANGED <<evset, worldVars, alarm>>

(* EAGAIN: the event is dropped. *)
NoProgress ==
  /\ pc = "settle" /\ io.result \in {"again", "intr"}
  /\ LET id    == conn[io.h].handle_id
         event == IF io.by = "on_read" THEN "READ" ELSE "WRITE"
     IN  m' = IF io.result = "again" THEN Drop(m, {event}, id) ELSE m
  /\ Resume
  /\ UNCHANGED <<evset, connVars, sock, worldVars, alarm>>

(* End of file or any other error. *)
Hangup ==
  /\ pc = "settle" /\ io.result \in {"zero", "error"}
  /\ RemoveHandler(m, io.h)
  /\ Resume
  /\ UNCHANGED <<evset, worldVars, alarm>>

(* The listener is readable: a free connection object tries to accept.     *)
AcceptFd == CHOOSE fd \in ConnFds :
              /\ ~sock[fd].open
              /\ \A other \in ConnFds : ~sock[other].open => fd <= other

Accepted(fd, h) ==
  LET s  == Add(m, {"READ", EDGE}, fd, h, TRUE)
      id == FreshId(m)
  IN  /\ HasRoom(m)
      /\ m' = ModTimer(s, m.looptime + Timeout, id)
      /\ \E rx \in 0..MaxRx, peer \in {"open", "fin"} :
           sock' = [sock EXCEPT ![fd] =
                      [open |-> TRUE, rx |-> rx, peer |-> peer, room |-> TRUE]]
      /\ conn' = [conn EXCEPT ![h] = [state |-> WAIT, handle_id |-> id,
                                      iowait |-> {"READ"}]]
      /\ handlers' = IF conn[h].state = FREE THEN Relink(handlers, h, WAIT)
                                             ELSE handlers
      /\ born' = [born EXCEPT ![h] = m.looptime]

(* The socket is closed again.  When it was fcntl that failed, handle_id   *)
(* still is the one of the connection that used this object before, or -1. *)
AcceptUndone(h, id) ==
  /\ m' = IF id >= 0 THEN Del(m, id) ELSE m
  /\ conn' = [conn EXCEPT ![h].handle_id = -1]
  /\ UNCHANGED <<sock, handlers, born>>

OnAccept ==
  /\ DispatchAccept /\ ~EmptyRing(handlers, FREE)
  /\ LET h == handlers.next[FREE]
     IN  \/ /\ backlog > 0
            /\ backlog' = backlog - 1
            /\ \/ Accepted(AcceptFd, h)
               \/ (KernelFails \/ ~HasRoom(m)) /\ AcceptUndone(h, -1)
               \/ FcntlFails /\ AcceptUndone(h, conn[h].handle_id)
         \/ /\ backlog = 0 \/ KernelFails
            /\ UNCHANGED <<m, sock, connVars, backlog>>
  /\ Advance
  /\ UNCHANGED <<evset, clients, now, sigint, alarm>>

(* No branch is taken: every connection object is in use, or the handle    *)
(* has no enabled event.                                                   *)
SkipHandle ==
  /\ Scanning
  /\ \/ Enabled(m, cur) = {}
     \/ DispatchAccept /\ EmptyRing(handlers, FREE)
  /\ Advance
  /\ UNCHANGED <<m, evset, connVars, sock, worldVars, alarm>>

-----------------------------------------------------------------------------
(* shutdown(): on_close of each connection in use, then the listener.      *)
ShutdownHandler ==
  /\ pc = "shutdown" /\ cur \in Handlers
  /\ IF cur > 0 /\ conn[cur].state # FREE
     THEN /\ m' = Del(m, conn[cur].handle_id)
          /\ sock' = CloseFd(m.fd[conn[cur].handle_id])
     ELSE UNCHANGED <<m, sock>>
  /\ cur' = cur + 1
  /\ UNCHANGED <<evset, pc, nxt, io, connVars, worldVars, alarm>>

(* Wrong variant of AllClosed: the last connection object is forgotten. *)
AllClosedButOne == cur >= MaxConnections

AllClosed == cur \notin Handlers

Stop ==
  /\ pc = "shutdown" /\ AllClosed
  /\ pc' = "stopped"
  /\ UNCHANGED <<m, evset, cur, nxt, io, connVars, sock, worldVars, alarm>>

Loop ==
  \/ Initialize
  \/ StartRunTimer \/ ExpireEntry \/ FinishRunTimer
  \/ StartWait \/ WaitFails \/ CollectEvent \/ FinishWait
  \/ CheckReady \/ EndOfPass
  \/ OnTimer \/ Iotransfer \/ OnAccept \/ SkipHandle
  \/ Progress \/ NoProgress \/ Hangup
  \/ ShutdownHandler \/ Stop

TcpServerNext == Loop \/ Environment

TcpServerSpec == TcpServerInit /\ [][TcpServerNext]_vars

(* The loop is one thread that the operating system runs, and nothing it   *)
(* calls blocks for ever.  The clock does not wait for the loop: Tick is   *)
(* confined to two places of it only because elsewhere it commutes, hence  *)
(* strong fairness.  Clients owe nothing.                                  *)
FairSpec == TcpServerSpec /\ WF_vars(Loop) /\ SF_vars(Tick)

-----------------------------------------------------------------------------
HandleOf(h) == conn[h].handle_id

(* The abstract server (ConnPool): who serves an open descriptor is found  *)
(* through the handles; nobody is 0.                                       *)
OwnerOf(fd) ==
  IF \E h \in Live : m.fd[HandleOf(h)] = fd
  THEN CHOOSE h \in Live : m.fd[HandleOf(h)] = fd ELSE 0

Pool == INSTANCE ConnPool WITH
  Descriptors <- ConnFds,
  Objects     <- Handlers \ {FREE, WAIT},
  Most        <- MaxConnections - 1,
  MayFail     <- KernelFails \/ FcntlFails,
  waiting     <- backlog,
  sessions    <- {<<fd, OwnerOf(fd)>> : fd \in {c \in ConnFds : sock[c].open}},
  phase       <- CASE pc = "shutdown" -> "closing" [] pc = "stopped" -> "down" [] OTHER -> "up"

(* The server implements ConnPool: each step of the loop, of the clients   *)
(* and of the clock is one step of it or none.  A descriptor never passes  *)
(* from one connection object to another, no step closes two connections,  *)
(* none is left to its own when a handler or a registration fails, nobody  *)
(* is admitted after the shutdown has begun, and it ends with all closed.  *)
ImplementsPool == Pool!PoolSpec

(* The types of the loop's state. *)
TcpServerTypeOK ==
  /\ conn \in [Handlers -> [state : {FREE, WAIT}, handle_id : {-1} \cup Slots,
                            iowait : SUBSET IO]]
  /\ pc \in {"init", "top", "timer", "wait", "check", "scan", "settle",
             "shutdown", "stopped"}
  /\ cur \in Nat /\ nxt \in Nodes
  /\ io.h \in Handlers
  /\ sock \in [ConnFds -> [open : BOOLEAN, rx : 0..MaxRx, room : BOOLEAN,
                           peer : {"open", "fin", "reset", "gone"}]]
  /\ backlog \in 0..MaxClients /\ clients \in 0..MaxClients
  /\ now \in 0..MaxTime /\ {alarm, sigint} \subseteq BOOLEAN
  /\ born \in [Handlers -> 0..MaxTime]
  /\ \A e \in m.timers : e[1] \in 1..MaxTime+Timeout /\ e[2] \in Slots

Running == pc \notin {"shutdown", "stopped"}

(* Who owns what (on_accept, remove_handler, on_close): a connection in    *)
(* use has one handle in use that names it back, that handle's descriptor  *)
(* is open, and nobody else's; there is no handle in use besides these and *)
(* the listener's, no open socket without a connection (a leak), and the   *)
(* rings of the connection objects agree with their states.                *)
Ownership ==
  Running =>
    /\ \A h \in Live :
         /\ InUse(m, HandleOf(h)) /\ m.handler_id[HandleOf(h)] = h
         /\ m.fd[HandleOf(h)] \in ConnFds /\ sock[m.fd[HandleOf(h)]].open
    /\ \A h, g \in Live : m.fd[HandleOf(h)] = m.fd[HandleOf(g)] => h = g
    /\ \A fd \in ConnFds : sock[fd].open => \E h \in Live : m.fd[HandleOf(h)] = fd
    /\ \A id \in Slots : InUse(m, id) =>
         m.fd[id] = ListenFd \/ \E h \in Live : HandleOf(h) = id
    /\ WellLinked(handlers, Handlers)
    /\ \A h \in Handlers \ {FREE, WAIT} : handlers.home[h] = conn[h].state

(* The loop calls a connection only for the direction its continuation     *)
(* waits for: the handle's mask, and what epoll watches, are iowait_mask   *)
(* whenever no handler is in the middle of its work (on_read:55,           *)
(* on_write:80 change them only when the direction changes).               *)
MaskIsIowait ==
  \A h \in Live : (Running /\ io.h # h) =>
    /\ m.ev_mask[HandleOf(h)] \cap IO = conn[h].iowait
    /\ m.interest[HandleOf(h)] \cap IO = conn[h].iowait

(* The pass of run() (tcpserver.cpp:119) stays on the READY ring although  *)
(* the handlers it calls move and free handles: next_i, saved before the   *)
(* call, never leaves it.                                                  *)
CursorOnReady ==
  LET onReady(i) == i \in Nodes /\ m.ring.home[i] = READY
  IN  /\ pc = "scan" => onReady(cur)
      /\ pc = "settle" => onReady(nxt)

(* No lost wakeup: when the socket of a connection can make the progress   *)
(* it waits for, then the connection is on the READY ring with the event,  *)
(* or epoll_wait is about to report it, or a handler is at work on it.     *)
(* The sockets are edge triggered: an event cleared in the wrong order, or *)
(* a missing EPOLL_CTL_MOD, would leave it waiting until the time out.     *)
WakeupKept ==
  \A h \in Live :
    LET id == HandleOf(h)
    IN  (Running /\ io.h # h /\ PollFd(m.fd[id]) \cap conn[h].iowait # {}) =>
          \/ m.ring.home[id] = READY /\ Enabled(m, id) \cap IO # {}
          \/ id \in m.armed /\ m.interest[id] \cap PollFd(m.fd[id]) # {}
          \/ \E e \in evset : e[1] = id /\ e[2] \cap conn[h].iowait # {}

(* No connection outlives Timeout seconds of loop time after its accept,   *)
(* whatever it does: after each pass the due ones are gone.  (mod_timer    *)
(* on every read and write would promise something else, see TimerIsDue.)  *)
LifetimeBounded ==
  (pc = "top" /\ ~sigint) => \A h \in Live : m.looptime < born[h] + Timeout

(* Connections are turned away only when MaxConnections - 1 are in use     *)
(* (two of the 1 + MAX_CONNECTIONS nodes are heads, tcpserver.cpp:102),    *)
(* and a free connection object always finds a free handle.                *)
Capacity ==
  Running =>
    /\ EmptyRing(handlers, FREE) <=> Cardinality(Live) = MaxConnections - 1
    /\ ~EmptyRing(handlers, FREE) => HasRoom(m)

(* shutdown() leaves no socket open and no handle but the listener's.      *)
ShutdownClosesAll ==
  pc = "stopped" => /\ \A fd \in ConnFds : ~sock[fd].open
                    /\ \A id \in Slots : InUse(m, id) => m.fd[id] = ListenFd

(* TIMEOUT (server.hpp:17): a connection is given up for lack of activity  *)
(* only when the time set by its last mod_timer has come.                  *)
TimerIsDue ==
  (Scanning /\ TIMER \in Enabled(m, cur)) => m.uptime[cur] <= m.looptime

(* Liveness.  A pass over READY ends, although handlers put handles on its *)
(* tail while it goes on.                                                  *)
PassEnds == (pc = "scan") ~> (pc = "top")

(* What a client sent is read, unless the connection is busy writing, or   *)
(* is closed: the edge of the last byte is never the one that is lost.     *)
Connections == Handlers \ {FREE, WAIT}
Input(h)    == h \in Live /\ sock[m.fd[HandleOf(h)]].rx > 0

InputRead ==
  \A h \in Connections : Input(h) ~> (~Input(h) \/ conn[h].iowait = {"WRITE"})

(* A waiting client is accepted unless as many as there can be are being   *)
(* served (Capacity), or the server stops.                                 *)
ClientAccepted ==
  (backlog > 0) ~> \/ backlog = 0 \/ pc = "stopped"
                   \/ Cardinality(Live) = MaxConnections - 1

(* SIGINT ends the program, at whichever of the three places it is seen.   *)
InterruptStops == sigint ~> (pc = "stopped")

(* Every connection is closed in the end, with no help from its client.    *)
(* The alarm that comes while run_timer is at work is lost (the flag is    *)
(* reset after it, tcpserver.cpp:108): the next one makes up for it, so    *)
(* that the bounded clock must have one tick left after the time out.      *)
EveryConnectionCloses ==
  \A h \in Connections :
    (conn[h].state = WAIT /\ born[h] + Timeout < MaxTime)
      ~> (conn[h].state = FREE \/ pc = "stopped")
=============================================================================
