-------------------------- MODULE SingleInstance --------------------------
(***************************************************************************)
(* One client at a time: Startup::SingleInstanceChecks                     *)
(* (startup/startup.cpp) with the SingleInstanceMgr                        *)
(* (misc_logic/singleinstance.cpp).  A process looks for its pid file,     *)
(* asks whether that pid runs and what its executable is called, and       *)
(* either hands its arguments over and exits or writes its own pid.        *)
(* Nothing locks the file, and it is ~/.steam/steam.pid: the Bootstrapper, *)
(* which runs after the check, may link ~/.steam to another directory.  It *)
(* may also replace the process by the same executable, with the same pid, *)
(* and the check is made again.  Of the Bootstrapper there is here what    *)
(* becomes of ~/.steam; Bootstrap has the rest, for one process.           *)
(*                                                                         *)
(* The installed executable is opensteam; the bootstrapper's copy of it,   *)
(* and Valve's client, are called steam.                                   *)
(*                                                                         *)
(* A definition whose comment begins with "Wrong" is a variant of the next *)
(* one with a plausible bug.                                               *)
(***************************************************************************)
EXTENDS Naturals, FiniteSets

CONSTANTS Pids,          \* the processes started on one home directory
          MaxRestarts    \* bound: times the bootstrapper restarts a process

ASSUME SingleInstanceAssumption == IsFiniteSet(Pids) /\ MaxRestarts \in Nat

VARIABLES phase,       \* where each process is
          executable,  \* what its executable is called
          restoring,   \* it has --bootstrapper-restore-valvesteam
          restarts,    \* how often it has restarted, in OpenSteam's directory
          datalink,    \* what ~/.steam is
          pidFile,     \* what steam.pid holds in each directory
          instancePid, \* SingleInstanceMgr::instancepid of each process
          registered,  \* the directory of the steam.pid it wrote last
          alone        \* nobody else was starting while it was

singleInstanceVars == <<phase, executable, restoring, restarts, datalink, pidFile,
                        instancePid, registered, alone>>

NoPid == "no pid"
NoFile == "no file"
EmptyFile == "empty file"
Phase == {"off", "reading", "killing", "comparing", "truncating", "writing", "booting",
          "switching", "linked", "settingUp", "restoring", "running", "ended"}
Starting == Phase \ {"off", "running", "ended"}
Executable == {"opensteam", "steam"}

\* ~/.steam is missing or leads nowhere, is Valve's own directory, or is a link.
Datalink == {"nowhere", "unsplit", "valve", "opensteam"}
Here == IF datalink = "unsplit" THEN "valve" ELSE datalink
Dir == {"nowhere", "valve", "opensteam"}

Alive(p) == phase[p] \notin {"off", "ended"}

SingleInstanceInit ==
    /\ phase = [p \in Pids |-> "off"]
    /\ executable = [p \in Pids |-> "opensteam"]
    /\ restoring = [p \in Pids |-> FALSE]
    /\ restarts = [p \in Pids |-> 0]
    /\ datalink \in Datalink
    /\ pidFile = [d \in Dir |-> NoFile]
    /\ instancePid = [p \in Pids |-> NoPid]
    /\ registered = [p \in Pids |-> "nowhere"]
    /\ alone = [p \in Pids |-> TRUE]

Goes(p, to) == phase' = [phase EXCEPT ![p] = to]

GoesOn(p, to) ==
    /\ Goes(p, to)
    /\ UNCHANGED <<executable, restoring, restarts, pidFile, instancePid, registered, alone>>

\* Begins main beside the others; who is starting already is not alone any more.
Begins(p) ==
    LET others == {q \in Pids : phase[q] \in Starting}
    IN  /\ Goes(p, "reading")
        /\ alone' = [q \in Pids |-> IF q = p THEN others = {} ELSE alone[q] /\ q \notin others]

\* A user starts the client, or starts it to restore Valve's.
Launch(p) ==
    /\ phase[p] = "off"
    /\ \E exe \in Executable : executable' = [executable EXCEPT ![p] = exe]
    /\ \E restore \in BOOLEAN : restoring' = [restoring EXCEPT ![p] = restore]
    /\ Begins(p)
    /\ UNCHANGED <<restarts, datalink, pidFile, instancePid, registered>>

\* Application::Shutdown(true): the client becomes one that restores Valve's.
QuitAndRestore(p) ==
    /\ phase[p] = "running"
    /\ restoring' = [restoring EXCEPT ![p] = TRUE]
    /\ instancePid' = [instancePid EXCEPT ![p] = NoPid]
    /\ Begins(p)
    /\ UNCHANGED <<executable, restarts, datalink, pidFile, registered>>

\* What a process knows goes with it.  steam.pid stays.
Terminates(p) ==
    /\ Goes(p, "ended")
    /\ executable' = [executable EXCEPT ![p] = "opensteam"]
    /\ restoring' = [restoring EXCEPT ![p] = FALSE]
    /\ restarts' = [restarts EXCEPT ![p] = 0]
    /\ instancePid' = [instancePid EXCEPT ![p] = NoPid]
    /\ registered' = [registered EXCEPT ![p] = "nowhere"]
    /\ alone' = [alone EXCEPT ![p] = TRUE]
    /\ pidFile' = pidFile

\* The user quits, or the process is killed.
Ends(p) == Alive(p) /\ Terminates(p) /\ UNCHANGED datalink

-----------------------------------------------------------------------------
(* BCheckForInstance *)

\* Wrong: what was read is taken for a pid.
ReadAnything(p) ==
    LET named == pidFile[Here]
    IN  /\ phase[p] = "reading"
        /\ instancePid' = [instancePid EXCEPT ![p] = named]
        /\ Goes(p, IF named \in Pids \ {p} THEN "killing" ELSE "truncating")
        /\ UNCHANGED <<executable, restoring, restarts, datalink, pidFile, registered, alone>>

\* A file that is missing, or that another process has just truncated, names no
\* instance.
ReadPidFile(p) ==
    LET named == pidFile[Here]
    IN  /\ phase[p] = "reading"
        /\ instancePid' = [instancePid EXCEPT ![p] = IF named \in Pids THEN named ELSE NoPid]
        /\ Goes(p, IF named \in Pids \ {p} THEN "killing" ELSE "truncating")
        /\ UNCHANGED <<executable, restoring, restarts, datalink, pidFile, registered, alone>>

\* kill(instancepid, 0): does it run?
KillNothing(p) ==
    /\ phase[p] = "killing"
    /\ GoesOn(p, IF Alive(instancePid[p]) THEN "comparing" ELSE "truncating")
    /\ UNCHANGED datalink

\* Wrong name: that of the installed executable.
CompareWithInstalled(p) ==
    LET q == instancePid[p]
    IN  /\ phase[p] = "comparing"
        /\ IF ~Alive(q) \/ executable[q] = "opensteam" THEN Terminates(p) ELSE GoesOn(p, "truncating")
        /\ UNCHANGED datalink

\* The executable of a process that has just gone cannot be read: the exception
\* is caught nowhere.  A process called steam is sent the arguments, and this
\* one exits; any other is taken for a stranger.
CompareExecutable(p) ==
    LET q == instancePid[p]
    IN  /\ phase[p] = "comparing"
        /\ IF ~Alive(q) \/ executable[q] = "steam" THEN Terminates(p) ELSE GoesOn(p, "truncating")
        /\ UNCHANGED datalink

-----------------------------------------------------------------------------
(* SetThisProcessAsInstance *)

\* The file stays open from here to the write, wherever ~/.steam leads by then.
\* Where ~/.steam leads nowhere nothing is written, and nobody is told.
TruncatePidFile(p) ==
    /\ phase[p] = "truncating"
    /\ registered' = [registered EXCEPT ![p] = Here]
    /\ pidFile' = IF Here = "nowhere" THEN pidFile ELSE [pidFile EXCEPT ![Here] = EmptyFile]
    /\ Goes(p, "writing")
    /\ UNCHANGED <<executable, restoring, restarts, datalink, instancePid, alone>>

WritePidFile(p) ==
    /\ phase[p] = "writing"
    /\ pidFile' = IF registered[p] = "nowhere" THEN pidFile
                  ELSE [pidFile EXCEPT ![registered[p]] = p]
    /\ instancePid' = [instancePid EXCEPT ![p] = p]
    /\ Goes(p, "booting")
    /\ UNCHANGED <<executable, restoring, restarts, datalink, registered, alone>>

-----------------------------------------------------------------------------
(* The Bootstrapper *)

\* Bootstrapper::Restart: main begins anew, with the executable it was.
Restarts(p) ==
    /\ restarts[p] < MaxRestarts
    /\ restarts' = [restarts EXCEPT ![p] = @ + 1]
    /\ instancePid' = [instancePid EXCEPT ![p] = NoPid]
    /\ Goes(p, "reading")
    /\ UNCHANGED <<executable, restoring, pidFile, registered, alone>>

\* With no LD_LIBRARY_PATH the process first restarts with one.
SetLdLibraryPath(p) ==
    /\ phase[p] = "booting" /\ ~restoring[p] /\ restarts[p] = 0
    /\ Restarts(p) /\ UNCHANGED datalink

\* RunBootstrap: Valve's client is the active one, and OpenSteam takes over.
\* SetOpenSteamAsActiveInstall removes the link before it makes its own.
SwitchesToOpenSteam(p) ==
    /\ phase[p] = "booting" /\ ~restoring[p]
    /\ datalink = "valve"
    /\ datalink' = "nowhere"
    /\ GoesOn(p, "switching")

\* RunBootstrap: no split yet, or BLaunchedCorrectly fails, as it does before the
\* first restart.  Valve's directory, or the link, is moved out of the way.
SetsUpOpenSteam(p) ==
    /\ \/ phase[p] = "booting" /\ ~restoring[p] /\ datalink \in {"nowhere", "unsplit"}
       \/ /\ phase[p] = "booting" /\ ~restoring[p] /\ datalink = "opensteam"
          /\ restarts[p] = 0
       \/ phase[p] = "linked" /\ restarts[p] = 0
    /\ datalink' = "nowhere"
    /\ GoesOn(p, "settingUp")

\* CreateSymlinkIfInvalid(~/.steam, ~/.opensteam).  SetupOpenSteam then restarts.
LinksToOpenSteam(p) ==
    /\ \/ phase[p] = "switching" /\ GoesOn(p, "linked")
       \/ phase[p] = "settingUp" /\ Restarts(p)
    /\ datalink' = "opensteam"

\* RunBootstrap returns and the client runs.
Boots(p) ==
    /\ restarts[p] > 0
    /\ \/ phase[p] = "booting" /\ ~restoring[p] /\ datalink = "opensteam"
       \/ phase[p] = "linked"
    /\ GoesOn(p, "running") /\ UNCHANGED datalink

\* SetValveSteamAsActiveInstall: a link that is not Valve's is removed.
RestoresValveSteam(p) ==
    /\ phase[p] = "booting" /\ restoring[p]
    /\ IF datalink = "opensteam" THEN datalink' = "nowhere" /\ GoesOn(p, "restoring")
       ELSE datalink' = datalink /\ Terminates(p)

\* The new link leads nowhere if Valve's client was never there.
LinksToValves(p) ==
    /\ phase[p] = "restoring"
    /\ datalink' \in {"valve", "nowhere"}
    /\ Terminates(p)

SingleInstanceNext == \E p \in Pids :
    \/ Launch(p) \/ QuitAndRestore(p) \/ Ends(p)
    \/ ReadPidFile(p) \/ KillNothing(p) \/ CompareExecutable(p)
    \/ TruncatePidFile(p) \/ WritePidFile(p)
    \/ SetLdLibraryPath(p)
    \/ SwitchesToOpenSteam(p) \/ SetsUpOpenSteam(p) \/ LinksToOpenSteam(p)
    \/ Boots(p)
    \/ RestoresValveSteam(p) \/ LinksToValves(p)

SingleInstanceSpec == SingleInstanceInit /\ [][SingleInstanceNext]_singleInstanceVars

-----------------------------------------------------------------------------
(* Properties *)

SingleInstanceTypeOK ==
    /\ phase \in [Pids -> Phase] /\ executable \in [Pids -> Executable]
    /\ restoring \in [Pids -> BOOLEAN] /\ restarts \in [Pids -> 0..MaxRestarts]
    /\ datalink \in Datalink
    /\ pidFile \in [Dir -> Pids \cup {NoFile, EmptyFile}]
    /\ instancePid \in [Pids -> Pids \cup {NoPid}]
    /\ registered \in [Pids -> Dir]
    /\ alone \in [Pids -> BOOLEAN]

RunsAlone(p) == phase[p] = "running" /\ executable[p] = "steam" /\ alone[p]

\* Two clients called steam run side by side only when they, or others, were
\* started at the same time, or when one of them had written its pid elsewhere
\* than in OpenSteam's directory: a client that starts alone finds the one that
\* did and is registered there, whichever ones have come, gone, switched between
\* the clients, restarted or died in between (singleinstance.cpp:63).  One that
\* registers where ~/.steam leads before the bootstrapper links it elsewhere
\* (bootstrapper.cpp:360) is not found, although it started alone.
RegisteredRunsAlone ==
    \A p, q \in Pids : p # q /\ RunsAlone(p) /\ RunsAlone(q)
                       => registered[p] # "opensteam" \/ registered[q] # "opensteam"
=============================================================================
