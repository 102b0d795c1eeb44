----------------------------- MODULE Bootstrap -----------------------------
(***************************************************************************)
(* From the start of the process to the running client: Startup            *)
(* (startup/startup.cpp), the Bootstrapper (startup/bootstrapper.cpp) that *)
(* shares a home directory with Valve's client, and the Updater            *)
(* (startup/updater.cpp) that installs Valve's binaries.                   *)
(*                                                                         *)
(* Each of ~/.steam and ~/.local/share/Steam (the targets) is a directory  *)
(* of Valve's or a link to the one client that is active.  The process     *)
(* changes one entry of the file system at a time, may be killed between   *)
(* any two of them, and replaces itself by exec to go on in its own        *)
(* installation.  The links inside ~/.opensteam, which this code only      *)
(* creates, are left out.                                                  *)
(*                                                                         *)
(* A definition whose comment begins with "Without" or "Wrong" is a        *)
(* variant of the next one with a plausible bug.                           *)
(***************************************************************************)
EXTENDS Naturals, Sequences

CONSTANTS MaxStarts,   \* bound: times the user starts the client
          Options      \* the command lines: "none", "restore" and "dryRun"

ASSUME BootstrapAssumption ==
    MaxStarts \in Nat /\ Options \subseteq {"none", "restore", "dryRun"}

VARIABLES fs,        \* the entries of the file system that matter
          written,   \* what was written below the shared paths, and whose that was
          files,     \* of each package of Valve's binaries: what is installed
          manifest,  \* installed_manifest names the current version
          proc,      \* the process
          starts     \* number of starts so far

vars == <<fs, written, files, manifest, proc, starts>>

Target == {"targetDatalinkDir", "targetInstallDir"}
OS == [targetDatalinkDir |-> "OSDatalinkDir", targetInstallDir |-> "OSInstallDir"]
VS == [targetDatalinkDir |-> "VSDatalinkDir", targetInstallDir |-> "VSInstallDir"]
Path == Target \cup {OS[t] : t \in Target} \cup {VS[t] : t \in Target}

\* An entry is absent, a directory of Valve's, one without opensteam_marker, one
\* with it, or a symbolic link to a path.
Directory == {"valve", "unmarked", "marked"}
Entry == {"absent"} \cup Directory \cup Path

filesToDownload == <<"bins", "sdk", "misc">>
Package == {"bins", "sdk", "misc"}

\* A package is "absent" while one of its files is missing, "broken" while one
\* is incomplete.
Installed == {"absent", "broken", "intact"}

\* steam.pid, what Update installs, and what CopyOpensteamFiles copies.
Writing == {"pid", "update", "copy", "dryRunCopy"} \X {"valve", "opensteam"}

is_symlink(p) == fs[p] \in Path
resolved(p) == IF is_symlink(p) THEN fs[fs[p]] ELSE fs[p]
exists(p) == resolved(p) \in Directory

\* The process in one of the places where it can be; "failed" is the end by an
\* exception nobody catches.
Stopped == [pc |-> "off", option |-> "none", ldPath |-> FALSE, ranOnce |-> FALSE, setup |-> FALSE,
            launched |-> FALSE, step |-> 1, force |-> FALSE, downloadFailed |-> FALSE]

\* A home directory before the first start: in either place a directory of
\* Valve's or nothing.  Links made by hand are left out.
Init ==
    /\ fs \in {f \in [Path -> {"absent", "valve"}] : \A p \in Path \ Target : f[p] = "absent"}
    /\ written = {}
    /\ files = [p \in Package |-> "absent"]
    /\ manifest = FALSE
    /\ proc = Stopped
    /\ starts = 0

dryRun == proc.option = "dryRun"

\* Whose directory a path leads into.
Owner(p) == CASE resolved(p) = "valve" -> {"valve"}
              [] resolved(p) \in {"unmarked", "marked"} -> {"opensteam"}
              [] OTHER -> {}

\* What an extraction that was cut short may have made of a package.
Extracted(p) == {files} \cup {[files EXCEPT ![p] = left] : left \in {"broken", "intact"}}

At(pc) == proc.pc = pc
GoTo(pc) == proc' = [proc EXCEPT !.pc = pc, !.step = 1]
Fail == GoTo("failed") /\ UNCHANGED fs
Unwritten == UNCHANGED <<written, files, manifest, starts>>

-----------------------------------------------------------------------------
(* The process starts, ends, and replaces itself *)

Start ==
    /\ proc.pc \in {"off", "failed"}
    /\ starts < MaxStarts
    /\ starts' = starts + 1
    /\ \E option \in Options, ldPath \in BOOLEAN :
         proc' = [Stopped EXCEPT !.pc = "SingleInstanceChecks", !.option = option, !.ldPath = ldPath]
    /\ UNCHANGED <<fs, written, files, manifest>>

\* Before the Bootstrapper runs, steam.pid is truncated and written wherever
\* ~/.steam leads: Valve's directory, ours, or nowhere.  There is one process
\* here; what the check finds of others is modelled in SingleInstance.
SingleInstanceChecks ==
    /\ At("SingleInstanceChecks")
    /\ written' = written \cup {"pid"} \X Owner("targetDatalinkDir")
    /\ GoTo("RunBootstrapper")
    /\ UNCHANGED <<fs, files, manifest, starts>>

\* Killed at any time, also while a package is extracted.
Crash ==
    /\ proc.pc \notin {"off", "failed"}
    /\ proc' = Stopped
    /\ files' \in IF At("Update") THEN Extracted(filesToDownload[proc.step]) ELSE {files}
    /\ UNCHANGED <<fs, written, manifest, starts>>

\* Bootstrapper::Relaunch, which execs itself in OSInstallDir.  The environment
\* survives, and so does the command line.
Relaunch ==
    /\ At("Relaunch")
    /\ IF dryRun
         THEN GoTo("off") /\ UNCHANGED fs
         ELSE /\ proc' = [Stopped EXCEPT !.pc = "SingleInstanceChecks", !.option = proc.option,
                                         !.ldPath = proc.ldPath, !.ranOnce = proc.ranOnce,
                                         !.launched = TRUE]
              /\ fs' = [fs EXCEPT !["OSInstallDir"] = IF @ = "absent" THEN "unmarked" ELSE @]
    /\ Unwritten

-----------------------------------------------------------------------------
(* The Bootstrapper *)

\* Without the removal of an invalid link, over which no link can be made.
CreateSymlinkOnly(pc, t, to, next) ==
    /\ At(pc)
    /\ IF fs[t] = "absent" /\ ~dryRun THEN fs' = [fs EXCEPT ![t] = to] /\ GoTo(next)
       ELSE IF fs[t] = to \/ dryRun THEN GoTo(next) /\ UNCHANGED fs
       ELSE Fail
    /\ Unwritten

\* CreateSymlinkIfInvalid(t, to) where the process is at pc: an invalid link is
\* removed, in a dry run too; what is no link cannot be replaced by one.
CreateSymlinkIfInvalid(pc, t, to, next) ==
    /\ At(pc)
    /\ \/ /\ is_symlink(t) /\ fs[t] # to
          /\ fs' = [fs EXCEPT ![t] = "absent"]
          /\ UNCHANGED proc
       \/ /\ fs[t] = to \/ (fs[t] = "absent" /\ dryRun)
          /\ GoTo(next)
          /\ UNCHANGED fs
       \/ /\ fs[t] = "absent" /\ ~dryRun
          /\ fs' = [fs EXCEPT ![t] = to]
          /\ GoTo(next)
       \/ /\ fs[t] \in Directory
          /\ IF proc.option = "restore" THEN GoTo("off") /\ UNCHANGED fs
             ELSE IF dryRun THEN GoTo(next) /\ UNCHANGED fs
             ELSE Fail
    /\ Unwritten

\* Startup::RunBootstrapper with --bootstrapper-restore-valvesteam: the targets
\* must exist, else the exception is caught and the process exits.
RestoreValveSteam ==
    /\ At("RunBootstrapper")
    /\ proc.option = "restore"
    /\ GoTo(IF \A t \in Target : exists(t) THEN "RestoreDatalink" ELSE "off")
    /\ UNCHANGED fs /\ Unwritten

SetValveSteamAsActiveInstall ==
    \/ CreateSymlinkIfInvalid("RestoreDatalink", "targetDatalinkDir", "VSDatalinkDir", "RestoreInstall")
    \/ CreateSymlinkIfInvalid("RestoreInstall", "targetInstallDir", "VSInstallDir", "off")

\* With no LD_LIBRARY_PATH the process first relaunches itself with one.
SetLdLibraryPath ==
    /\ At("RunBootstrapper")
    /\ proc.option # "restore"
    /\ ~proc.ldPath
    /\ proc' = [proc EXCEPT !.pc = "Relaunch", !.ldPath = TRUE]
    /\ UNCHANGED fs /\ Unwritten

BIsSplitInstall ==
    exists("targetDatalinkDir") /\ \A t \in Target : is_symlink(t)

\* GetActiveInstall.  The file bootstrap.tar.xz marks an install of Valve's.
ActiveInstall ==
    IF ~BIsSplitInstall THEN "None"
    ELSE IF \A t \in Target : resolved(t) = "marked" THEN "OpenSteam"
    ELSE IF resolved("targetInstallDir") = "valve" THEN "ValveSteam"
    ELSE "Invalid"

\* Without the call of SetOpenSteamAsActiveInstall.
RunBootstrapUnswitched ==
    /\ At("RunBootstrapper")
    /\ proc.option # "restore"
    /\ proc.ldPath
    /\ \/ ActiveInstall = "None" /\ GoTo("CreateSplitDatalink")
       \/ ActiveInstall = "Invalid" /\ GoTo("SetupOpenSteam")
       \/ ActiveInstall \in {"OpenSteam", "ValveSteam"} /\ GoTo("BLaunchedCorrectly")
    /\ UNCHANGED fs /\ Unwritten

\* RunBootstrap up to the switch on the active install.
RunBootstrap ==
    /\ At("RunBootstrapper")
    /\ proc.option # "restore"
    /\ proc.ldPath
    /\ \/ ActiveInstall = "None" /\ GoTo("CreateSplitDatalink")
       \/ ActiveInstall = "Invalid" /\ GoTo("SetupOpenSteam")
       \/ ActiveInstall = "OpenSteam" /\ GoTo("BLaunchedCorrectly")
       \/ ActiveInstall = "ValveSteam" /\ GoTo("DeleteDatalink")
    /\ UNCHANGED fs /\ Unwritten

\* Wrong: Valve's directory removed, not renamed.
CreateSplitInstallRemoving(pc, t, next) ==
    /\ At(pc)
    /\ IF exists(t) /\ (is_symlink(t) \/ fs[t] = "marked" \/ dryRun)
         THEN GoTo("SetupOpenSteam") /\ UNCHANGED fs
         ELSE fs' = [fs EXCEPT ![t] = "absent"] /\ GoTo(next)
    /\ Unwritten

\* One half of CreateSplitInstall: Valve's directory makes room, unless the
\* target is a link, holds a marker, or this is a dry run.  A target that
\* does not exist may be a dangling link.
CreateSplitInstall(pc, t, next) ==
    /\ At(pc)
    /\ IF ~exists(t) THEN GoTo(next) /\ UNCHANGED fs
       ELSE IF is_symlink(t) \/ fs[t] = "marked" \/ dryRun
         THEN GoTo("SetupOpenSteam") /\ UNCHANGED fs
       ELSE IF exists(VS[t]) THEN Fail
       ELSE /\ fs' = [fs EXCEPT ![t] = "absent", ![VS[t]] = fs[t]]
            /\ GoTo(next)
    /\ Unwritten

SplitInstalls ==
    \/ CreateSplitInstall("CreateSplitDatalink", "targetDatalinkDir", "CreateSplitInstall")
    \/ CreateSplitInstall("CreateSplitInstall", "targetInstallDir", "SetupOpenSteam")

\* SetupOpenSteam makes the directories of OpenSteam and puts a marker in each.
Made == << <<"OSInstallDir", "unmarked">>, <<"OSDatalinkDir", "unmarked">>,
           <<"OSDatalinkDir", "marked">>, <<"OSInstallDir", "marked">> >>

\* Wrong: one step too many.
SetupOpenSteamPastEnd ==
    /\ At("SetupOpenSteam")
    /\ fs' = IF dryRun \/ fs[Made[proc.step][1]] = "marked" THEN fs
             ELSE [fs EXCEPT ![Made[proc.step][1]] = Made[proc.step][2]]
    /\ proc' = IF proc.step <= Len(Made) THEN [proc EXCEPT !.step = @ + 1]
               ELSE [proc EXCEPT !.pc = "DeleteDatalink", !.step = 1, !.setup = TRUE]
    /\ Unwritten

SetupOpenSteam ==
    /\ At("SetupOpenSteam")
    /\ LET p == Made[proc.step][1]
           made == Made[proc.step][2]
       IN fs' = IF dryRun \/ fs[p] = "marked" THEN fs ELSE [fs EXCEPT ![p] = made]
    /\ proc' = IF proc.step < Len(Made) THEN [proc EXCEPT !.step = @ + 1]
               ELSE [proc EXCEPT !.pc = "DeleteDatalink", !.step = 1, !.setup = TRUE]
    /\ Unwritten

\* DryRunDelete(t), which removes targetDatalinkDir whatever it is given; remove
\* throws on a directory that is not empty.
DryRunDelete(pc, t, next) ==
    /\ At(pc)
    /\ IF ~exists(t) \/ dryRun THEN GoTo(next) /\ UNCHANGED fs
       ELSE IF fs["targetDatalinkDir"] \in Directory THEN Fail
       ELSE fs' = [fs EXCEPT !["targetDatalinkDir"] = "absent"] /\ GoTo(next)
    /\ Unwritten

\* From here SetupOpenSteam goes on to copy its files, and RunBootstrap to
\* BLaunchedCorrectly.
SetOpenSteamAsActiveInstall ==
    \/ DryRunDelete("DeleteDatalink", "targetDatalinkDir", "DeleteInstall")
    \/ DryRunDelete("DeleteInstall", "targetInstallDir", "LinkDatalink")
    \/ CreateSymlinkIfInvalid("LinkDatalink", "targetDatalinkDir", "OSDatalinkDir", "LinkInstall")
    \/ CreateSymlinkIfInvalid("LinkInstall", "targetInstallDir", "OSInstallDir",
                              IF proc.setup THEN "CopyOpensteamFiles" ELSE "BLaunchedCorrectly")

\* CopyOpensteamMainBin, CopyOpensteamFiles (which knows no dry run), Restart.
CopyOpensteamFiles ==
    /\ At("CopyOpensteamFiles")
    /\ written' = written \cup {IF dryRun THEN "dryRunCopy" ELSE "copy"} \X Owner("targetInstallDir")
    /\ GoTo("Relaunch")
    /\ UNCHANGED <<fs, files, manifest, starts>>

BLaunchedCorrectly ==
    /\ At("BLaunchedCorrectly")
    /\ GoTo(IF ~(proc.launched /\ fs["OSInstallDir"] = "marked") THEN "SetupOpenSteam"
            ELSE IF dryRun THEN "off" ELSE "Verify")
    /\ UNCHANGED fs /\ Unwritten

-----------------------------------------------------------------------------
(* The Updater *)

\* Without the call of BVerifyBinaries.
VerifyManifestOnly ==
    /\ At("Verify")
    /\ GoTo(IF ~manifest THEN "Update" ELSE "Load")
    /\ UNCHANGED fs /\ Unwritten

\* Updater::Verify.  A file is good if it exists.
Verify ==
    /\ At("Verify")
    /\ GoTo(IF ~manifest \/ \E p \in Package : files[p] = "absent" THEN "Update" ELSE "Load")
    /\ UNCHANGED fs /\ Unwritten

\* One package of Updater::Update.  A download that failed is extracted as far
\* as it goes, and the manifest is written after it all the same.
Update ==
    /\ At("Update")
    /\ \E ok \in BOOLEAN :
         /\ files' \in IF ok THEN {[files EXCEPT ![filesToDownload[proc.step]] = "intact"]}
                      ELSE Extracted(filesToDownload[proc.step])
         /\ proc' = [proc EXCEPT !.downloadFailed = @ \/ ~ok,
                                 !.pc = IF proc.step < Len(filesToDownload) THEN "Update"
                                        ELSE IF proc.force THEN "Relaunch" ELSE "Load",
                                 !.step = IF @ < Len(filesToDownload) THEN @ + 1 ELSE 1,
                                 !.ranOnce = @ \/ (proc.force /\ proc.step = Len(filesToDownload))]
    /\ manifest' = TRUE
    /\ written' = written \cup {"update"} \X Owner("targetInstallDir")
    /\ UNCHANGED <<fs, starts>>

\* Without UPDATER_RAN_ONCE in the environment of the restart.
LoadAgainAndAgain ==
    /\ At("Load")
    /\ \/ proc' = [proc EXCEPT !.pc = "run"]
       \/ files["sdk"] # "intact" /\ proc' = [proc EXCEPT !.pc = "Update", !.force = TRUE]
    /\ UNCHANGED fs /\ Unwritten

\* Startup::RunBootstrapper: steamclient.so loads, as a good one always does, or
\* everything is downloaded again and the client restarts, once.
Load ==
    /\ At("Load")
    /\ \/ proc' = [proc EXCEPT !.pc = "run"]
       \/ /\ files["sdk"] # "intact"
          /\ proc' = IF proc.ranOnce THEN [proc EXCEPT !.pc = "off"]
                     ELSE [proc EXCEPT !.pc = "Update", !.force = TRUE]
    /\ UNCHANGED fs /\ Unwritten

\* Application::Shutdown, also with a restart to bring Valve's client back.
Quit ==
    /\ At("run")
    /\ \/ proc' = Stopped
       \/ /\ "restore" \in Options
          /\ proc' = [proc EXCEPT !.pc = "SingleInstanceChecks", !.option = "restore"]
    /\ UNCHANGED fs /\ Unwritten

-----------------------------------------------------------------------------
Step ==
    \/ SingleInstanceChecks \/ Relaunch
    \/ RestoreValveSteam \/ SetValveSteamAsActiveInstall
    \/ SetLdLibraryPath \/ RunBootstrap
    \/ SplitInstalls \/ SetupOpenSteam \/ SetOpenSteamAsActiveInstall
    \/ CopyOpensteamFiles \/ BLaunchedCorrectly
    \/ Verify \/ Update \/ Load

Next == Start \/ Step \/ Crash \/ Quit

\* A process that was started goes on; nobody has to start, quit or kill it.
Spec == Init /\ [][Next]_vars /\ WF_vars(Step)

-----------------------------------------------------------------------------
TypeOK ==
    /\ fs \in [Path -> Entry]
    /\ written \subseteq Writing
    /\ files \in [Package -> Installed]
    /\ manifest \in BOOLEAN
    /\ proc \in [pc : {"off", "failed", "run", "SingleInstanceChecks", "Relaunch",
                       "RunBootstrapper", "RestoreDatalink", "RestoreInstall",
                       "CreateSplitDatalink", "CreateSplitInstall", "SetupOpenSteam",
                       "DeleteDatalink", "DeleteInstall", "LinkDatalink", "LinkInstall",
                       "CopyOpensteamFiles", "BLaunchedCorrectly", "Verify", "Update", "Load"},
                 option : {"none", "restore", "dryRun"}, step : 1..4,
                 ldPath : BOOLEAN, ranOnce : BOOLEAN, setup : BOOLEAN, launched : BOOLEAN,
                 force : BOOLEAN, downloadFailed : BOOLEAN]
    /\ starts \in 0..MaxStarts

\* Neither a split, nor a switch between the clients, nor a crash in the middle
\* of one loses a directory of Valve's: it is under its own name or set aside.
ValveHas(t) == fs[t] = "valve" \/ fs[VS[t]] = "valve"
ValveFilesSurvive == [][\A t \in Target : ValveHas(t) => ValveHas(t)']_vars

\* Below the paths that both clients share, the Updater installs nothing into
\* Valve's directories, whatever earlier starts, dry runs and crashes left there
\* ("the bootstrap has already run so this should be safe", updater.cpp:21).
\* What does end up there is steam.pid, written before the bootstrap has run
\* (main.cpp:15), and the copies of a dry run (DryRunAltersNothing).
UpdatesOwnInstall ==
    \A what \in {"update", "copy"} : <<what, "valve">> \notin written

\* The client runs only while OpenSteam is the active install.
RunsAsOpenSteam == At("run") => ActiveInstall = "OpenSteam"

\* From a home with Valve's directories, one of them or none, and wherever
\* earlier runs were killed, the bootstrapper meets no entry that stops it with
\* an exception.
NeverStopsHalfway == ~At("failed")

\* The client runs with every file it needs in place, even when an earlier
\* update was killed after installed_manifest was written, unless a download of
\* this very run failed.
RunsComplete ==
    At("run") /\ ~proc.downloadFailed => \A p \in Package : files[p] # "absent"

\* The restarts come to an end: a start ends with the client running or the
\* process gone.
BootEnds == ~At("off") ~> proc.pc \in {"off", "run", "failed"}

\* "When dryRun is true, no files will be altered" (bootstrapper.cpp:331), said
\* of the bootstrapper, which runs after steam.pid is written.  The code does
\* not keep this.
DryRunAltersNothing ==
    [][dryRun /\ ~At("SingleInstanceChecks") => UNCHANGED <<fs, written>>]_vars
=============================================================================
