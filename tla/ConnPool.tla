-------------------------------- MODULE ConnPool --------------------------------
(***************************************************************************)
(* What the server promises of its connections, without handles, events or *)
(* rings: clients queue up; one at a time gets a descriptor of its own and *)
(* a connection object of its own, keeps both until it is closed, and when *)
(* the server is told to stop it closes every one before it is down.       *)
(***************************************************************************)
EXTENDS Naturals, FiniteSets

CONSTANTS Descriptors, Objects,
          Most,             \* clients served at once
          MayFail           \* may the kernel fail a client that is accepted?

VARIABLES waiting,          \* clients in the queue
          sessions,         \* pairs of a descriptor and the object that serves it
          phase             \* "up", "closing" or "down"

poolVars == <<waiting, sessions, phase>>

PoolInit == waiting = 0 /\ sessions = {} /\ phase = "up"

Arrive ==
  /\ phase = "up"
  /\ waiting' = waiting + 1
  /\ UNCHANGED <<sessions, phase>>

Admit(fd, obj) ==
  /\ phase = "up" /\ waiting > 0 /\ Cardinality(sessions) < Most
  /\ \A s \in sessions : s[1] # fd /\ s[2] # obj
  /\ waiting' = waiting - 1
  /\ sessions' = sessions \cup {<<fd, obj>>}
  /\ UNCHANGED phase

(* A client is lost between accept and its registration. *)
Lose ==
  /\ phase = "up" /\ waiting > 0 /\ Cardinality(sessions) < Most /\ MayFail
  /\ waiting' = waiting - 1
  /\ UNCHANGED <<sessions, phase>>

Close(s) ==
  /\ phase # "down"
  /\ sessions' = sessions \ {s}
  /\ UNCHANGED <<waiting, phase>>

BeginStop == phase = "up" /\ phase' = "closing" /\ UNCHANGED <<waiting, sessions>>

Down ==
  /\ phase = "closing" /\ sessions = {}
  /\ phase' = "down"
  /\ UNCHANGED <<waiting, sessions>>

PoolNext ==
  \/ Arrive \/ Lose \/ BeginStop \/ Down
  \/ \E fd \in Descriptors, obj \in Objects : Admit(fd, obj)
  \/ \E s \in sessions : Close(s)

PoolSpec == PoolInit /\ [][PoolNext]_poolVars
=============================================================================
