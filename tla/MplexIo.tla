------------------------------- MODULE MplexIo -------------------------------
(***************************************************************************)
(* The multiplexer's data and operations: mplex_io_type (handle table and  *)
(* timers, mplex-io.cpp) with mplex_epoll_type (mplex-epoll.cpp) on it.    *)
(* Each operator is one method, as a function on multiplexer values:       *)
(*                                                                         *)
(*   ring        the rings FREE, WAIT and READY of the handle vector       *)
(*   ev_permit .. events   the fields of handle_type, one function each    *)
(*   timers      the multimap as a set of <<uptime, id>> (an entry that    *)
(*               is there twice fires twice at once, as it does here)      *)
(*   looptime    the time of the last run_timer                            *)
(*   interest    the kernel's side of epoll_fd: the trigger each handle's  *)
(*               fd is registered with, {} when it is not                  *)
(*   armed       the handles on the kernel's ready list: those that        *)
(*               epoll_wait will poll.  EPOLL_CTL_ADD and MOD put one      *)
(*               there and so does every wakeup of its socket; epoll_wait  *)
(*               keeps a level triggered one for as long as it is ready.   *)
(***************************************************************************)
EXTENDS Ring

CONSTANT MaxEvents       \* n of mplex_io_type(n): LISTENER_COUNT + MAX_CONNECTIONS

ASSUME MaxEventsAssumption == MaxEvents \in Nat \ {0}

Nodes == 0..MaxEvents+2
Slots == Nodes \ {FREE, WAIT, READY}

IO    == {"READ", "WRITE"}           \* READ_EVENT, WRITE_EVENT
TIMER == "TIMER"                     \* TIMER_EVENT
EDGE  == "EDGE"                      \* EDGE_EVENT

NoFd == -1

(* The types of the multiplexer's fields. *)
MplexType ==
  [ring       : [next : [Nodes -> Nodes], prev : [Nodes -> Nodes], home : [Nodes -> Nodes]],
   ev_permit  : [Nodes -> BOOLEAN],
   fd         : [Nodes -> Nat \cup {NoFd}],
   uptime     : [Nodes -> Nat],
   handler_id : [Nodes -> Nat],
   state      : [Nodes -> {FREE, WAIT, READY}],
   ev_mask    : [Nodes -> SUBSET (IO \cup {TIMER})],
   events     : [Nodes -> SUBSET (IO \cup {TIMER})],
   timers     : SUBSET ((Nat \ {0}) \X Slots),
   looptime   : Nat,
   interest   : [Nodes -> SUBSET (IO \cup {EDGE})],
   armed      : SUBSET Slots]

FreshMplex(now) ==
  [ring       |-> Erase(Erase(Resize(MaxEvents+3), WAIT), READY),
   ev_permit  |-> [i \in Nodes |-> FALSE],
   fd         |-> [i \in Nodes |-> NoFd],
   uptime     |-> [i \in Nodes |-> 0],
   handler_id |-> [i \in Nodes |-> 0],
   state      |-> [i \in Nodes |-> FREE],
   ev_mask    |-> [i \in Nodes |-> {}],
   events     |-> [i \in Nodes |-> {}],
   timers     |-> {},
   looptime   |-> now,
   interest   |-> [i \in Nodes |-> {}],
   armed      |-> {}]

(* range_check: the handle may be used. *)
InUse(s, id) == id \in Slots /\ s.state[id] # FREE

(* events(id): the pending events that the handle waits for. *)
Enabled(s, id) == s.events[id] \cap s.ev_mask[id]

HasRoom(s) == ~EmptyRing(s.ring, FREE)
FreshId(s) == s.ring.next[FREE]

(* Wrong variant: inserted without being erased from its ring. *)
RequeueLinkedTwice(s, id, head) == [s EXCEPT !.ring = Insert(s.ring, head, id)]

Requeue(s, id, head) == [s EXCEPT !.ring = Relink(s.ring, id, head)]

-----------------------------------------------------------------------------
(* Wrong variant of Add: the mask takes the trigger with EDGE_EVENT in it. *)
AddUnmasked(s, trigger, fd, handler_id, permit) ==
  LET id == FreshId(s)
      t  == [s EXCEPT !.ev_permit[id] = permit, !.fd[id] = fd, !.uptime[id] = 0,
                      !.handler_id[id] = handler_id, !.state[id] = WAIT,
                      !.ev_mask[id] = trigger, !.events[id] = {},
                      !.interest[id] = trigger, !.armed = s.armed \cup {id}]
  IN  Requeue(t, id, WAIT)

(* add: `permit` is FALSE for a file epoll refuses (EPERM), which is then  *)
(* always ready.  Called when HasRoom(s) and the kernel accepts.           *)
Add(s, trigger, fd, handler_id, permit) ==
  LET id    == FreshId(s)
      state == IF permit THEN WAIT ELSE READY
      t     == [s EXCEPT !.ev_permit[id]  = permit,
                         !.fd[id]         = fd,
                         !.uptime[id]     = 0,
                         !.handler_id[id] = handler_id,
                         !.state[id]      = state,
                         !.ev_mask[id]    = trigger \cap IO,
                         !.events[id]     = IF permit THEN {} ELSE trigger \cap IO,
                         !.interest[id]   = IF permit THEN trigger ELSE {},
                         !.armed          = IF permit THEN s.armed \cup {id} ELSE s.armed]
  IN  Requeue(t, id, state)

(* drop: the caller met EAGAIN, the event is over until the next edge. *)
Drop(s, events, id) ==
  LET t == IF s.ev_permit[id] THEN [s EXCEPT !.events[id] = @ \ events] ELSE s
  IN  CASE ~InUse(s, id) -> s
        [] InUse(s, id) /\ s.state[id] = READY /\ Enabled(t, id) = {} ->
             Requeue([t EXCEPT !.state[id] = WAIT], id, WAIT)
        [] OTHER -> t

(* mod: first the mask, ... *)
Masked(s, trigger, id) ==
  [s EXCEPT !.ev_mask[id] = (@ \ IO) \cup (trigger \cap IO)]

(* ... which stays changed when the kernel refuses the rest, ... *)
ModRefused(s, trigger, id) == IF InUse(s, id) THEN Masked(s, trigger, id) ELSE s

(* Wrong variant of Mod: no EPOLL_CTL_MOD when epoll watches the file      *)
(* already, so that the ready list does not learn of the new direction.    *)
ModUnarmed(s, trigger, id) ==
  LET t     == [Masked(s, trigger, id) EXCEPT !.interest[id] = trigger]
      state == IF Enabled(t, id) # {} THEN READY ELSE WAIT
      v     == [t EXCEPT !.state[id] = state]
  IN  IF state # s.state[id] THEN Requeue(v, id, state) ELSE v

(* ... then the kernel's registration, or the events of a plain file, and  *)
(* the ring by what is pending under the new mask.                         *)
Mod(s, trigger, id) ==
  LET t == Masked(s, trigger, id)
      u == CASE s.ev_permit[id] ->
                  [t EXCEPT !.interest[id] = IF trigger \cap IO = {} THEN {} ELSE trigger,
                            !.armed = IF trigger \cap IO = {} THEN @ \ {id}
                                                              ELSE @ \cup {id}]
             [] ~s.ev_permit[id] /\ trigger \cap IO # {} ->
                  [t EXCEPT !.events[id] = (@ \ IO) \cup (trigger \cap IO)]
             [] OTHER -> t
      state == IF Enabled(u, id) # {} THEN READY ELSE WAIT
      v     == [u EXCEPT !.state[id] = state]
  IN  CASE ~InUse(s, id) -> s
        [] InUse(s, id) /\ state # s.state[id] -> Requeue(v, id, state)
        [] OTHER -> v

(* Wrong variant of StopTimer: it finds the entry, but the one that        *)
(* mod_timer should then make is missing when the handle is READY.         *)
StopTimerFinds(s, id) ==
  LET t == [s EXCEPT !.uptime[id] = 0, !.events[id] = @ \ {TIMER},
                     !.timers = @ \ {<<s.uptime[id], id>>}]
  IN  IF InUse(s, id) THEN [t EXCEPT !.ev_mask[id] = @ \ {TIMER}] ELSE s

(* stop_timer: uptime is cleared first, and what is looked for in the      *)
(* multimap is the entry with that uptime.                                 *)
StopTimer(s, id) ==
  LET t == [s EXCEPT !.uptime[id] = 0, !.events[id] = @ \ {TIMER}]
      u == IF TIMER \in t.ev_mask[id]
           THEN [t EXCEPT !.timers = @ \ {<<t.uptime[id], id>>}]
           ELSE t
  IN  IF InUse(s, id) THEN [u EXCEPT !.ev_mask[id] = @ \ {TIMER}] ELSE s

(* add_timer: a handle with no file, only a time.  Called when HasRoom(s). *)
AddTimer(s, uptime, handler_id) ==
  LET id    == FreshId(s)
      later == s.looptime < uptime
      state == IF later THEN WAIT ELSE READY
      t     == [s EXCEPT !.ev_permit[id]  = FALSE,
                         !.fd[id]         = NoFd,
                         !.uptime[id]     = uptime,
                         !.handler_id[id] = handler_id,
                         !.state[id]      = state,
                         !.ev_mask[id]    = {TIMER},
                         !.events[id]     = IF later THEN {} ELSE {TIMER},
                         !.timers         = IF later THEN @ \cup {<<uptime, id>>} ELSE @]
  IN  Requeue(t, id, state)

(* mod_timer: an entry is made only for a handle in state WAIT. *)
ModTimer(s, uptime, id) ==
  LET later == s.looptime < uptime
      t     == StopTimer(s, id)
      state == IF later THEN t.state[id] ELSE READY
      u     == [t EXCEPT !.uptime[id]  = uptime,
                         !.state[id]   = state,
                         !.ev_mask[id] = @ \cup {TIMER},
                         !.events[id]  = @ \cup (IF later THEN {} ELSE {TIMER}),
                         !.timers      = IF state = WAIT THEN @ \cup {<<uptime, id>>}
                                                         ELSE @]
  IN  CASE ~InUse(s, id) -> s
        [] InUse(s, id) /\ state # t.state[id] -> Requeue(u, id, state)
        [] OTHER -> u

(* del: a handle whose fd is not registered any more cannot be deleted. *)
DelRefused(s, id) == ~InUse(s, id) \/ (s.ev_permit[id] /\ s.interest[id] = {})

(* Wrong variants of Del: the handle stays on its ring; the descriptor     *)
(* stays registered.                                                       *)
DelUnlinked(s, id) ==
  IF DelRefused(s, id) THEN s
  ELSE [StopTimer(s, id) EXCEPT !.ev_permit[id] = FALSE, !.fd[id] = NoFd,
                                !.handler_id[id] = 0, !.state[id] = FREE,
                                !.ev_mask[id] = {}, !.events[id] = {},
                                !.interest[id] = {}, !.armed = @ \ {id}]

DelRegistered(s, id) ==
  IF DelRefused(s, id) THEN s
  ELSE Requeue([StopTimer(s, id) EXCEPT !.ev_permit[id] = FALSE, !.fd[id] = NoFd,
                                        !.handler_id[id] = 0, !.state[id] = FREE,
                                        !.ev_mask[id] = {}, !.events[id] = {}], id, FREE)

Del(s, id) ==
  LET t == StopTimer(s, id)
      u == [t EXCEPT !.ev_permit[id]  = FALSE,
                     !.fd[id]         = NoFd,
                     !.handler_id[id] = 0,
                     !.state[id]      = FREE,
                     !.ev_mask[id]    = {},
                     !.events[id]     = {},
                     !.interest[id]   = {},
                     !.armed          = @ \ {id}]
  IN  IF DelRefused(s, id) THEN s ELSE Requeue(u, id, FREE)

-----------------------------------------------------------------------------
(* wait, first half: what epoll_wait returns when poll() of the handles'   *)
(* files would say `ready`, and what stays on the kernel's ready list.     *)
Polled(s, ready, id)  == s.interest[id] \cap ready[id]
Reported(s, ready)    == {id \in s.armed : Polled(s, ready, id) # {}}
EpollWait(s, ready)   ==
  [s EXCEPT !.armed = {id \in Reported(s, ready) : EDGE \notin s.interest[id]}]

(* Wrong variant of Collect: looks at the events before adding the new ones. *)
CollectLate(s, id, events) ==
  LET t == [s EXCEPT !.events[id] = @ \cup events]
  IN  IF s.state[id] = WAIT /\ Enabled(s, id) # {} THEN Requeue(t, id, READY) ELSE t

(* wait, second half: the loop body for one element of evset.  The handle  *)
(* goes to the ring READY but keeps the state WAIT.                        *)
Collect(s, id, events) ==
  LET t == [s EXCEPT !.events[id] = @ \cup events]
  IN  IF s.state[id] = WAIT /\ Enabled(t, id) # {} THEN Requeue(t, id, READY) ELSE t

(* run_timer: the clock is read, and then one entry at a time, the         *)
(* earliest first.                                                         *)
ReadClock(s, now) == [s EXCEPT !.looptime = now]

Due(s) == {e \in s.timers : /\ e[1] <= s.looptime
                            /\ \A f \in s.timers : e[1] <= f[1]}

Expire(s, e) ==
  LET id == e[2]
      t  == [s EXCEPT !.events[id] = @ \cup {TIMER}, !.timers = @ \ {e}]
  IN  IF s.state[id] = WAIT THEN Requeue(t, id, READY) ELSE t
=============================================================================
