------------------------------ MODULE MCLogin ------------------------------
(* Login for TLC; the constants are given in the .cfg files. *)
EXTENDS Login
=============================================================================
