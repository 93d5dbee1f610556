--------------------------- MODULE MCRingInVector ---------------------------
(* RingInVector for TLC: four handles besides the three heads. *)
EXTENDS RingInVector
=============================================================================
