----------------------------- MODULE MCThreads -----------------------------
(* Threads for TLC; the constants are given in the .cfg files. *)
EXTENDS Threads
=============================================================================
