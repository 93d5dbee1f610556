---------------------------- MODULE HttpSession ----------------------------
(***************************************************************************)
(* What a persistent HTTP/1.1 connection promises its client: the requests *)
(* are answered one at a time, in the order they were asked, each with a   *)
(* status its own request deserves; after an answer that says so the       *)
(* connection gives no other.                                              *)
(***************************************************************************)
EXTENDS Integers, Sequences

CONSTANTS Ask,            \* the requests a client may make
          Allowed(_),     \* the status codes that may answer a request
          Last(_),        \* whether a request must be the last to be answered
          MostAnswers     \* answers given on one connection

VARIABLES asked,          \* the requests, oldest first
          answers,        \* the answers: the status, and whether it is the last
          up              \* whether there is a connection

sessionVars == <<asked, answers, up>>

SessionInit == asked = << >> /\ answers = << >> /\ up = FALSE

(* A client makes a request, without waiting for the earlier answers. *)
MakeRequest ==
  /\ up
  /\ \E r \in Ask : asked' = Append(asked, r)
  /\ UNCHANGED <<answers, up>>

(* The server answers the oldest request that has no answer. *)
GiveAnswer ==
  /\ up
  /\ Len(answers) < Len(asked) /\ Len(answers) < MostAnswers
  /\ \A k \in DOMAIN answers : ~answers[k].last
  /\ LET r == asked[Len(answers) + 1]
     IN  \E code \in Allowed(r), last \in BOOLEAN :
           /\ Last(r) => last
           /\ answers' = Append(answers, [code |-> code, last |-> last])
  /\ UNCHANGED <<asked, up>>

HangUp   == up /\ up' = FALSE /\ UNCHANGED <<asked, answers>>
NewClient == ~up /\ up' = TRUE /\ asked' = << >> /\ answers' = << >>

SessionNext == MakeRequest \/ GiveAnswer \/ HangUp \/ NewClient

SessionSpec == SessionInit /\ [][SessionNext]_sessionVars
=============================================================================
