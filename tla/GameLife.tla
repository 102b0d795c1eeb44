------------------------------ MODULE GameLife ------------------------------
(***************************************************************************)
(* What steamclient may take for granted of a reaper: a game is a set of   *)
(* processes that begins with one and grows and shrinks as it likes, and   *)
(* reaper ends when, and not before, none of them lives.  Nothing is said  *)
(* of parents, orphans and zombies: Reaper implements this with them.      *)
(***************************************************************************)
CONSTANT Procs    \* the processes of a game

VARIABLES status,  \* of reaper
          living   \* the processes that live

lifeVars == <<status, living>>

Init == status = "starting" /\ living = {}

Start(p) ==
    /\ status = "starting"
    /\ status' = "waiting"
    /\ living' = {p}

Fail ==
    /\ status = "starting"
    /\ status' = "failed"
    /\ UNCHANGED living

\* A process of the game starts another one.
Spawn(q) ==
    /\ living # {}
    /\ living' = living \cup {q}
    /\ UNCHANGED status

End(p) ==
    /\ living' = living \ {p}
    /\ UNCHANGED status

Over ==
    /\ status = "waiting"
    /\ living = {}
    /\ status' = "ended"
    /\ UNCHANGED living

Next ==
    \/ \E p \in Procs : Start(p) \/ Spawn(p) \/ End(p)
    \/ Fail
    \/ Over

Safety == Init /\ [][Next]_lifeVars

Spec == Safety /\ WF_lifeVars(Over)
=============================================================================
