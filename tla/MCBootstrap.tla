---------------------------- MODULE MCBootstrap ----------------------------
(* Bootstrap for TLC; the constants are given in the .cfg files. *)
EXTENDS Bootstrap
=============================================================================
