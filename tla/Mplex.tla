-------------------------------- MODULE Mplex --------------------------------
(***************************************************************************)
(* The multiplexer under any client: mplex_epoll_type's methods called in  *)
(* any order, with any handle (in use or not), while the kernel delivers   *)
(* events and time passes.  The two loops of the component, run_timer's    *)
(* over the timers and wait's over the events epoll_wait returned, take a  *)
(* step per iteration.                                                     *)
(***************************************************************************)
EXTENDS MplexIo

CONSTANTS Fds,          \* the descriptors the client may add
          Unpollable,   \* those that epoll refuses with EPERM (regular files)
          Triggers,     \* the trigger arguments of add and mod
          MaxTime       \* bound of the clock

ASSUME MplexAssumption ==
  /\ Fds \subseteq Nat
  /\ Unpollable \subseteq Fds
  /\ Triggers \subseteq SUBSET (IO \cup {EDGE})
  /\ MaxTime \in Nat

VARIABLES m,        \* the multiplexer, a record (MplexIo)
          evset,    \* what epoll_wait returned and wait has not yet handled
          mode      \* "idle", or the loop the multiplexer is in

mplexVars == <<m, evset, mode>>

MplexInit ==
  /\ m = FreshMplex(0)
  /\ evset = {}
  /\ mode = "idle"

-----------------------------------------------------------------------------
(* A method called by the client: one step, when no loop is running. *)
Call(result) ==
  /\ mode = "idle"
  /\ m' = result
  /\ UNCHANGED <<evset, mode>>

(* A descriptor is added once: epoll_ctl refuses it with EEXIST otherwise. *)
AddHandle(fd, trigger) ==
  /\ HasRoom(m)
  /\ trigger \cap IO # {}
  /\ \A id \in Slots : InUse(m, id) => m.fd[id] # fd
  /\ Call(Add(m, trigger, fd, fd, fd \notin Unpollable))

AddTimerHandle(uptime) == HasRoom(m) /\ Call(AddTimer(m, uptime, 0))

DropHandle(id, event) == Call(Drop(m, {event}, id))

(* The kernel refuses MOD (ENOENT) for a descriptor it does not have. *)
ModHandle(id, trigger) ==
  IF InUse(m, id) /\ m.ev_permit[id] /\ m.interest[id] = {}
  THEN Call(ModRefused(m, trigger, id))
  ELSE Call(Mod(m, trigger, id))

DelHandle(id)           == Call(Del(m, id))
ModTimerOf(id, uptime)  == Call(ModTimer(m, uptime, id))
StopTimerOf(id)         == Call(StopTimer(m, id))

(* The environment: an event on a registered file. *)
Wakeup(id) ==
  /\ m.interest[id] # {}
  /\ m' = [m EXCEPT !.armed = @ \cup {id}]
  /\ UNCHANGED <<evset, mode>>

(* wait: epoll_wait, then the loop over its events in the order it gave. *)
Wait(ready) ==
  /\ mode = "idle"
  /\ m' = EpollWait(m, ready)
  /\ evset' = {<<id, Polled(m, ready, id)>> : id \in Reported(m, ready)}
  /\ mode' = "wait"

CollectEvent ==
  /\ mode = "wait"
  /\ \E e \in evset : /\ m' = Collect(m, e[1], e[2])
                      /\ evset' = evset \ {e}
  /\ UNCHANGED mode

WaitDone ==
  /\ mode = "wait" /\ evset = {}
  /\ mode' = "idle"
  /\ UNCHANGED <<m, evset>>

(* run_timer: the clock, then the loop over the entries that are due. *)
RunTimer(now) ==
  /\ mode = "idle"
  /\ now >= m.looptime
  /\ m' = ReadClock(m, now)
  /\ mode' = "timer"
  /\ UNCHANGED evset

ExpireEntry ==
  /\ mode = "timer"
  /\ \E e \in Due(m) : m' = Expire(m, e)
  /\ UNCHANGED <<evset, mode>>

RunTimerDone ==
  /\ mode = "timer" /\ Due(m) = {}
  /\ mode' = "idle"
  /\ UNCHANGED <<m, evset>>

MplexNext ==
  \/ \E fd \in Fds, trigger \in Triggers : AddHandle(fd, trigger)
  \/ \E uptime \in 1..MaxTime : AddTimerHandle(uptime)
  \/ \E id \in Nodes, event \in IO : DropHandle(id, event)
  \/ \E id \in Nodes, trigger \in Triggers : ModHandle(id, trigger)
  \/ \E id \in Nodes : DelHandle(id)
  \/ \E id \in Nodes, uptime \in 1..MaxTime : ModTimerOf(id, uptime)
  \/ \E id \in Nodes : StopTimerOf(id)
  \/ \E id \in Slots : Wakeup(id)
  \/ \E ready \in [m.armed -> SUBSET IO] : Wait(ready)
  \/ CollectEvent
  \/ WaitDone
  \/ \E now \in 0..MaxTime : RunTimer(now)
  \/ ExpireEntry
  \/ RunTimerDone

MplexSpec == MplexInit /\ [][MplexNext]_mplexVars

-----------------------------------------------------------------------------
(* The multiplexer's fields, the events wait is handling and the loop it   *)
(* is in keep their types.                                                 *)
MplexTypeOK ==
  /\ m \in MplexType
  /\ evset \in SUBSET (Slots \X SUBSET IO)
  /\ mode \in {"idle", "wait", "timer"}

(* The ring of the handles stays linked whatever the order of the calls    *)
(* (mplex-io.cpp, mplex-epoll.cpp: every erase is followed by an insert),  *)
(* and agrees with `state`: a free handle is on the ring add takes from,   *)
(* and only there; a handle in state READY is on the ring the server       *)
(* walks.  The converse is not so: wait (mplex-epoll.cpp:163) and          *)
(* run_timer (mplex-io.cpp:90) move a handle and leave it in state WAIT.   *)
RingsHoldHandles(s) ==
  /\ WellLinked(s.ring, Nodes)
  /\ \A h \in {FREE, WAIT, READY} : s.ring.home[h] = h
  /\ \A id \in Slots :
       /\ s.ring.home[id] \in {FREE, WAIT, READY}
       /\ s.state[id] = FREE <=> s.ring.home[id] = FREE
       /\ s.state[id] = READY => s.ring.home[id] = READY

(* No wakeup is lost inside the multiplexer: a handle that sits on the     *)
(* WAIT ring, where the server never looks, has no pending event that it   *)
(* waits for.  Every method that changes events or ev_mask must see to it. *)
(* (A handle whose fd left epoll by mod(0) is past waiting: its next mod   *)
(* fails half way.)                                                        *)
NothingParked(s) ==
  \A id \in Slots :
    (s.ring.home[id] = WAIT /\ (s.ev_permit[id] => s.interest[id] # {}))
      => Enabled(s, id) = {}

(* The kernel only reports handles in use: what it has registered, or on   *)
(* its ready list, was added and not deleted, so that no event of a closed *)
(* file reaches the handle's next owner.                                   *)
KernelKnowsHandles(s) ==
  /\ \A id \in Slots : s.interest[id] # {} => s.state[id] # FREE /\ s.ev_permit[id]
  /\ \A id \in s.armed : s.interest[id] # {}

RingsAgree    == RingsHoldHandles(m)
NoLostWakeup  == NothingParked(m)
KernelAgrees  == KernelKnowsHandles(m) /\ \A e \in evset : m.interest[e[1]] # {}

(* Each step of the multiplexer moves at most one handle, to the tail of a *)
(* ring: the pass of the server over READY sees a queue.                   *)
HandleQueue == INSTANCE RingQueue
  WITH Heads <- {FREE, WAIT, READY}, First <- READY + 1, Last <- MaxEvents + 2,
       queue <- [h \in {FREE, WAIT, READY} |-> Walk(m.ring, h, MaxEvents + 3)]

MovesOneHandle == HandleQueue!QueueSpec
=============================================================================
