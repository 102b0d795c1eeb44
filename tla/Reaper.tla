------------------------------- MODULE Reaper -------------------------------
(***************************************************************************)
(* reaper (utils/reaper/main.cpp): it runs a game, given behind a --, and  *)
(* lives until the game and all that came of it have ended, so that        *)
(* steamclient can tell when the game has.  Processes and the kernel's     *)
(* rules for orphans are modelled from the calls the code makes: prctl,    *)
(* fork, execvp and wait.  steam-launch-wrapper                            *)
(* (utils/launchwrapper/main.cpp) takes its command the same way.          *)
(*                                                                         *)
(* Definitions whose comment begins with "Without" or "Wrong" are variants *)
(* with a plausible bug.                                                   *)
(***************************************************************************)
EXTENDS Naturals, Sequences, FiniteSets, FiniteSetsExt

CONSTANTS Procs,      \* the processes of a game
          CommandLines \* what reaper may be run with: sequences of words

ASSUME ReaperAssumption ==
    /\ IsFiniteSet(Procs)
    /\ {"reaper", "init"} \cap Procs = {}
    /\ IsFiniteSet(CommandLines)

VARIABLES argv,        \* reaper's arguments
          command,     \* what it executes
          reaper,      \* where reaper is
          procStatus,  \* the processes: off, alive, zombie (ended, not waited for), gone
          procParent   \* their parents

reaperVars == <<argv, command, reaper, procStatus, procParent>>

TheReaper == "reaper"
TheInit == "init"
Dashes == "--"

ReaperInit ==
    /\ argv \in CommandLines
    /\ command = <<>>
    /\ reaper = "starting"
    /\ procStatus = [p \in Procs |-> "off"]
    /\ procParent = [p \in Procs |-> TheInit]

\* main's loop over argv: the last -- with a word behind it.
ExecutableAt(args) ==
    LET dashes == {i \in 1 .. Len(args) - 1 : args[i] = Dashes}
    IN  IF dashes = {} THEN 0 ELSE 1 + Max(dashes)

\* Without prctl(PR_SET_CHILD_SUBREAPER): orphans go to init.
AdoptedByInit(p) ==
    procParent' = [q \in Procs |-> IF procParent[q] = p THEN TheInit ELSE procParent[q]]

\* reaper is a subreaper before it forks: the children of a process that ends
\* become reaper's.
Adopted(p) ==
    procParent' = [q \in Procs |-> IF procParent[q] = p THEN TheReaper ELSE procParent[q]]

StartReaper(p) ==
    LET at == ExecutableAt(argv)
    IN  /\ reaper = "starting"
        /\ IF at = 0
           THEN reaper' = "failed" /\ UNCHANGED <<command, procStatus, procParent>>
           ELSE /\ reaper' = "waiting"
                /\ command' = SubSeq(argv, at, Len(argv))
                /\ procStatus' = [procStatus EXCEPT ![p] = "alive"]
                /\ procParent' = [procParent EXCEPT ![p] = TheReaper]
        /\ argv' = argv

ForkFails ==
    /\ reaper = "starting"
    /\ ExecutableAt(argv) # 0
    /\ reaper' = "failed"
    /\ UNCHANGED <<argv, command, procStatus, procParent>>

\* Without the loop around wait.
WaitReturnsOnce(p) ==
    /\ reaper = "waiting"
    /\ procStatus[p] = "zombie" /\ procParent[p] = TheReaper
    /\ procStatus' = [procStatus EXCEPT ![p] = "gone"]
    /\ reaper' = "ended"
    /\ UNCHANGED <<argv, command, procParent>>

\* wait returns a child that has ended.
WaitReturns(p) ==
    /\ reaper = "waiting"
    /\ procStatus[p] = "zombie" /\ procParent[p] = TheReaper
    /\ procStatus' = [procStatus EXCEPT ![p] = "gone"]
    /\ UNCHANGED <<argv, command, reaper, procParent>>

\* wait returns -1 with ECHILD: reaper has no child.  (With EINTR it is called
\* again.)
NoChildLeft ==
    /\ reaper = "waiting"
    /\ \A p \in Procs : procParent[p] = TheReaper => procStatus[p] \in {"off", "gone"}
    /\ reaper' = "ended"
    /\ UNCHANGED <<argv, command, procStatus, procParent>>

-----------------------------------------------------------------------------
(* The game *)

Forks(p, q) ==
    /\ procStatus[p] = "alive" /\ procStatus[q] = "off"
    /\ procStatus' = [procStatus EXCEPT ![q] = "alive"]
    /\ procParent' = [procParent EXCEPT ![q] = p]
    /\ UNCHANGED <<argv, command, reaper>>

\* A process ends; so does one whose execvp failed.
Exits(p) ==
    /\ procStatus[p] = "alive"
    /\ procStatus' = [procStatus EXCEPT ![p] = "zombie"]
    /\ Adopted(p)
    /\ UNCHANGED <<argv, command, reaper>>

Reaps(p, q) ==
    /\ procStatus[p] = "alive" /\ procParent[q] = p /\ procStatus[q] = "zombie"
    /\ procStatus' = [procStatus EXCEPT ![q] = "gone"]
    /\ UNCHANGED <<argv, command, reaper, procParent>>

ReaperNext ==
    \/ \E p \in Procs : StartReaper(p)
    \/ ForkFails
    \/ \E p \in Procs : WaitReturns(p)
    \/ NoChildLeft
    \/ \E p, q \in Procs : Forks(p, q)
    \/ \E p \in Procs : Exits(p)
    \/ \E p, q \in Procs : Reaps(p, q)

\* A wait returns when there is something to say.  The game owes nothing.
ReaperFairness == WF_reaperVars((\E p \in Procs : WaitReturns(p)) \/ NoChildLeft)

ReaperSpec == ReaperInit /\ [][ReaperNext]_reaperVars /\ ReaperFairness

-----------------------------------------------------------------------------
(* Properties *)

ReaperTypeOK ==
    /\ argv \in CommandLines
    /\ reaper \in {"starting", "waiting", "ended", "failed"}
    /\ procStatus \in [Procs -> {"off", "alive", "zombie", "gone"}]
    /\ procParent \in [Procs -> Procs \cup {TheReaper, TheInit}]

\* reaper ends only after every process that came of the game, however often
\* its parents ended before it, has ended and been waited for
\* (utils/reaper/main.cpp:44).
ReaperOutlivesTheGame ==
    reaper = "ended" => \A p \in Procs : procStatus[p] \in {"off", "gone"}

\* Of parents, orphans and zombies nothing can be told from outside: reaper
\* starts the game, ends when no process of it lives, and does end then.
Living == {p \in Procs : procStatus[p] = "alive"}
Life == INSTANCE GameLife WITH status <- reaper, living <- Living
IsAGamesLife == Life!Spec
=============================================================================
