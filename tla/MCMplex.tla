------------------------------- MODULE MCMplex -------------------------------
(* Mplex for TLC: a listener-like level trigger, the two edge triggers of  *)
(* the server, the empty one of a client that stops listening.             *)
EXTENDS Mplex

MCTriggers == {{"READ"}, {"WRITE", EDGE}, {}}
=============================================================================
