------------------------------ MODULE MCFileCache ------------------------------
(* FileCache for TLC. *)
EXTENDS FileCache
=============================================================================
