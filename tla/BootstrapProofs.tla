-------------------------- MODULE BootstrapProofs --------------------------
(***************************************************************************)
(* Theorems about Bootstrap, for any number of starts and any command      *)
(* lines.                                                                  *)
(*                                                                         *)
(* What a step may do to ~/.steam depends on the steps before it, and any  *)
(* of those may have been the last of an earlier start.  So the invariant  *)
(* has a part that always holds of the directories (Layout) and a part for *)
(* each place the process can be at (Progress).  A dry run, which may      *)
(* remove a link and otherwise goes where a start would go, needs only     *)
(* that it never gets as far as the Updater.                               *)
(***************************************************************************)
EXTENDS Bootstrap, TLAPS

PC == {"off", "failed", "run", "SingleInstanceChecks", "Relaunch",
       "RunBootstrapper", "RestoreDatalink", "RestoreInstall",
       "CreateSplitDatalink", "CreateSplitInstall", "SetupOpenSteam",
       "DeleteDatalink", "DeleteInstall", "LinkDatalink", "LinkInstall",
       "CopyOpensteamFiles", "BLaunchedCorrectly", "Verify", "Update", "Load"}

Proc == [pc : PC, option : {"none", "restore", "dryRun"}, step : 1..4,
         ldPath : BOOLEAN, ranOnce : BOOLEAN, setup : BOOLEAN, launched : BOOLEAN,
         force : BOOLEAN, downloadFailed : BOOLEAN]

Ours == {"absent", "unmarked", "marked"}
Theirs == {"absent", "valve"}

\* What the directories are in every state.  OpenSteam's datalink directory gets
\* its marker first, and both of Valve's directories are set aside before
\* the first link is made.
Layout ==
    /\ fs["OSInstallDir"] \in Ours /\ fs["OSDatalinkDir"] \in Ours
    /\ fs["VSInstallDir"] \in Theirs /\ fs["VSDatalinkDir"] \in Theirs
    /\ fs["targetInstallDir"] \in Theirs \cup {"OSInstallDir", "VSInstallDir"}
    /\ fs["targetDatalinkDir"] \in Theirs \cup {"OSDatalinkDir", "VSDatalinkDir"}
    /\ fs["targetInstallDir"] = "valve" => fs["VSInstallDir"] = "absent"
    /\ fs["targetDatalinkDir"] = "valve" => fs["VSDatalinkDir"] = "absent"
    /\ fs["OSInstallDir"] = "marked" => fs["OSDatalinkDir"] = "marked"
    /\ fs["targetDatalinkDir"] \in {"OSDatalinkDir", "VSDatalinkDir"} =>
           fs["targetInstallDir"] # "valve"

Restoring == {"RestoreDatalink", "RestoreInstall"}
Marked == {"Verify", "Update", "Load", "run"}
Linked == Marked \cup {"BLaunchedCorrectly"}
PastSplit == Linked \cup {"SetupOpenSteam", "DeleteDatalink", "DeleteInstall", "LinkDatalink",
                          "LinkInstall", "CopyOpensteamFiles"}

\* What the steps of this start have done when the process is where it is.
Done ==
    /\ proc.pc \in Restoring => proc.option = "restore"
    /\ proc.pc = "RestoreDatalink" =>
           fs["targetDatalinkDir"] = "valve" \/ fs["targetInstallDir"] # "valve"
    /\ proc.pc \in PastSplit \cup {"CreateSplitInstall"} => fs["targetDatalinkDir"] # "valve"
    /\ proc.pc \in PastSplit => fs["targetInstallDir"] # "valve"
    /\ proc.pc = "SetupOpenSteam" /\ proc.step = 4 => fs["OSDatalinkDir"] = "marked"
    /\ proc.pc \in Linked \cup {"LinkInstall"} => fs["targetDatalinkDir"] = "OSDatalinkDir"
    /\ proc.pc \in Linked \cup {"CopyOpensteamFiles"} => fs["targetInstallDir"] = "OSInstallDir"
    /\ proc.pc \in Marked => fs["OSInstallDir"] = "marked"

Progress ==
    /\ proc.pc # "failed"
    /\ dryRun => proc.pc \notin Marked
    /\ ~dryRun => Done

\* The packages the Updater has been through.
Downloaded ==
    /\ proc.pc = "Update" => proc.step \in 1..3
    /\ proc.pc = "Load" => proc.step = 1
    /\ proc.pc = "Update" /\ ~proc.downloadFailed =>
           /\ proc.step > 1 => files["bins"] # "absent"
           /\ proc.step > 2 => files["sdk"] # "absent"
    /\ proc.pc \in {"Load", "run"} /\ ~proc.downloadFailed => \A p \in Package : files[p] # "absent"

BootInv == TypeOK /\ Layout /\ Progress /\ Downloaded /\ UpdatesOwnInstall

-----------------------------------------------------------------------------
(* Names *)

LEMMA Paths ==
    /\ Path = {"targetDatalinkDir", "targetInstallDir", "OSDatalinkDir", "OSInstallDir",
               "VSDatalinkDir", "VSInstallDir"}
    /\ OS["targetDatalinkDir"] = "OSDatalinkDir" /\ OS["targetInstallDir"] = "OSInstallDir"
    /\ VS["targetDatalinkDir"] = "VSDatalinkDir" /\ VS["targetInstallDir"] = "VSInstallDir"
<1>1. /\ OS["targetDatalinkDir"] = "OSDatalinkDir" /\ OS["targetInstallDir"] = "OSInstallDir"
      /\ VS["targetDatalinkDir"] = "VSDatalinkDir" /\ VS["targetInstallDir"] = "VSInstallDir"
  BY DEF OS, VS
<1>2. QED
  BY <1>1 DEF Path, Target

LEMMA ProcType ==
    TypeOK <=> /\ fs \in [Path -> Entry] /\ written \subseteq Writing
               /\ files \in [Package -> Installed] /\ manifest \in BOOLEAN
               /\ proc \in Proc /\ starts \in 0..MaxStarts
BY Zenon DEF TypeOK, Proc, PC

\* Going to another place keeps all else the process knows.
LEMMA GoToFields ==
    ASSUME TypeOK, NEW to \in PC, GoTo(to)
    PROVE  /\ proc' \in Proc /\ proc'.pc = to /\ proc'.step = 1
           /\ proc'.option = proc.option /\ proc'.downloadFailed = proc.downloadFailed
<1>1. proc \in Proc
  BY ProcType
<1>2. proc' = [proc EXCEPT !.pc = to, !.step = 1]
  BY DEF GoTo
<1>3. proc' = [pc |-> to, option |-> proc.option, step |-> 1, ldPath |-> proc.ldPath,
                ranOnce |-> proc.ranOnce, setup |-> proc.setup, launched |-> proc.launched,
                force |-> proc.force, downloadFailed |-> proc.downloadFailed]
  BY <1>1, <1>2 DEF Proc
<1>5. proc' \in Proc
  BY <1>1, <1>3 DEF Proc
<1>4. QED
  BY <1>1, <1>2, <1>3 DEF Proc

LEMMA BootInit == Init => BootInv
<1> SUFFICES ASSUME Init PROVE BootInv
  OBVIOUS
<1>1. /\ fs \in [Path -> {"absent", "valve"}]
      /\ \A p \in Path \ Target : fs[p] = "absent"
  BY DEF Init
<1>2. Stopped \in Proc /\ Stopped.pc = "off" /\ Stopped.option = "none"
  BY DEF Stopped, Proc, PC
<1>3. TypeOK
  <2>1. fs \in [Path -> Entry]
    BY <1>1 DEF Entry, Directory
  <2>2. files \in [Package -> Installed]
    BY DEF Init, Installed
  <2>3. proc \in Proc
    BY <1>2 DEF Init
  <2>4. manifest \in BOOLEAN /\ written \subseteq Writing
    BY DEF Init
  <2>5. starts \in 0..MaxStarts
    BY BootstrapAssumption DEF Init
  <2>6. QED
    BY <2>1, <2>2, <2>3, <2>4, <2>5, ProcType
<1>4. Layout
  BY <1>1, Paths DEF Layout, Ours, Theirs, Target
<1>5. Progress /\ Downloaded /\ UpdatesOwnInstall
  BY <1>2 DEF Init, Progress, Done, dryRun, Downloaded, UpdatesOwnInstall, Restoring, Marked, Linked, PastSplit
<1>6. QED
  BY <1>3, <1>4, <1>5 DEF BootInv

-----------------------------------------------------------------------------
(* Steps in general *)

\* One entry changes.
LEMMA EntryChange ==
    ASSUME TypeOK, NEW p \in Path, NEW e \in Entry, fs' = [fs EXCEPT ![p] = e]
    PROVE  fs' \in [Path -> Entry] /\ fs'[p] = e /\ \A q \in Path : q # p => fs'[q] = fs[q]
BY DEF TypeOK

LEMMA UnwrittenType ==
    ASSUME TypeOK, UpdatesOwnInstall, fs' \in [Path -> Entry], proc' \in Proc, Unwritten
    PROVE  TypeOK' /\ UpdatesOwnInstall'
<1>1. /\ written' \subseteq Writing /\ written' = written
      /\ files' \in [Package -> Installed]
  BY DEF Unwritten, TypeOK, UpdatesOwnInstall
<1>2. manifest' \in BOOLEAN /\ starts' \in 0..MaxStarts
  BY DEF Unwritten, TypeOK
<1>3. TypeOK'
  BY <1>1, <1>2, Zenon DEF TypeOK, Proc, PC
<1>4. QED
  BY <1>1, <1>3 DEF UpdatesOwnInstall

LEMMA StartKeeps == ASSUME BootInv, Start PROVE BootInv'
<1>1. PICK option \in Options, ldPath \in BOOLEAN :
        proc' = [Stopped EXCEPT !.pc = "SingleInstanceChecks", !.option = option, !.ldPath = ldPath]
  BY DEF Start
<1>2. proc' = [pc |-> "SingleInstanceChecks", option |-> option, ldPath |-> ldPath, ranOnce |-> FALSE,
               setup |-> FALSE, launched |-> FALSE, step |-> 1, force |-> FALSE,
               downloadFailed |-> FALSE]
  BY <1>1 DEF Stopped
<1>3. option \in {"none", "restore", "dryRun"}
  BY BootstrapAssumption
<1>4. proc' \in Proc /\ proc'.pc = "SingleInstanceChecks"
  BY <1>2, <1>3 DEF Proc, PC
<1>5. starts' \in 0..MaxStarts
  BY BootstrapAssumption DEF Start, BootInv, TypeOK
<1>6. UNCHANGED <<fs, written, files, manifest>>
  BY DEF Start
<1>7. TypeOK'
  BY <1>4, <1>5, <1>6, ProcType, Zenon DEF BootInv, TypeOK, Proc, PC
<1>8. Layout' /\ UpdatesOwnInstall'
  BY <1>6 DEF BootInv, Layout, UpdatesOwnInstall
<1>9. Progress' /\ Downloaded'
  BY <1>4 DEF Progress, Done, dryRun, Downloaded, Restoring, Marked, Linked, PastSplit
<1>10. QED
  BY <1>7, <1>8, <1>9 DEF BootInv

LEMMA CrashKeeps == ASSUME BootInv, Crash PROVE BootInv'
<1>1. UNCHANGED <<fs, written, manifest, starts>> /\ proc' = Stopped
  BY DEF Crash
<1>2. files' \in [Package -> Installed]
  BY DEF Crash, BootInv, TypeOK, Extracted, Installed
<1>3. proc' \in Proc /\ proc'.pc = "off" /\ proc'.option = "none"
  BY <1>1 DEF Stopped, Proc, PC
<1>4. TypeOK'
  BY <1>1, <1>2, <1>3, ProcType, Zenon DEF BootInv, TypeOK, Proc, PC
<1>5. Layout' /\ UpdatesOwnInstall'
  BY <1>1 DEF BootInv, Layout, UpdatesOwnInstall
<1>6. Progress' /\ Downloaded'
  BY <1>3 DEF Progress, Done, dryRun, Downloaded, Restoring, Marked, Linked, PastSplit
<1>7. QED
  BY <1>4, <1>5, <1>6 DEF BootInv

\* The steps that only look: where they may lead, given what they saw.
LEMMA LookKeeps ==
    ASSUME BootInv, ~dryRun, NEW to \in PC, GoTo(to), UNCHANGED fs, Unwritten,
           to # "failed",
           to \in Restoring => proc.option = "restore",
           to = "RestoreDatalink" =>
               fs["targetDatalinkDir"] = "valve" \/ fs["targetInstallDir"] # "valve",
           to \in PastSplit \cup {"CreateSplitInstall"} => fs["targetDatalinkDir"] # "valve",
           to \in PastSplit => fs["targetInstallDir"] # "valve",
           to \in Linked \cup {"LinkInstall"} => fs["targetDatalinkDir"] = "OSDatalinkDir",
           to \in Linked \cup {"CopyOpensteamFiles"} => fs["targetInstallDir"] = "OSInstallDir",
           to \in Marked => fs["OSInstallDir"] = "marked",
           to \in {"Load", "run"} => \A p \in Package : files[p] # "absent"
    PROVE  BootInv'
<1>1. /\ proc' \in Proc /\ proc'.pc = to /\ proc'.step = 1
      /\ proc'.option = proc.option /\ proc'.downloadFailed = proc.downloadFailed
  BY GoToFields DEF BootInv
<1>2. fs' = fs /\ files' = files
  BY DEF Unwritten
<1>3. TypeOK' /\ UpdatesOwnInstall'
  BY <1>1, <1>2, UnwrittenType DEF BootInv, TypeOK
<1>4. Layout'
  BY <1>2 DEF BootInv, Layout
<1>5. Progress'
  BY <1>1, <1>2 DEF BootInv, Progress, Done, dryRun
<1>6. Downloaded'
  BY <1>1, <1>2 DEF Downloaded
<1>7. QED
  BY <1>3, <1>4, <1>5, <1>6 DEF BootInv

-----------------------------------------------------------------------------
(* The Bootstrapper's steps *)

\* What a look at the links tells.
LEMMA Resolved ==
    ASSUME BootInv
    PROVE  /\ exists("targetDatalinkDir") =>
                  fs["targetDatalinkDir"] = "valve" \/ fs["targetInstallDir"] # "valve"
           /\ BIsSplitInstall => /\ fs["targetDatalinkDir"] \in {"OSDatalinkDir", "VSDatalinkDir"}
                                 /\ fs["targetInstallDir"] \in {"OSInstallDir", "VSInstallDir"}
           /\ ActiveInstall = "OpenSteam" =>
                  /\ fs["targetDatalinkDir"] = "OSDatalinkDir"
                  /\ fs["targetInstallDir"] = "OSInstallDir"
                  /\ fs["OSInstallDir"] = "marked"
<1>1. /\ is_symlink("targetDatalinkDir") <=>
             fs["targetDatalinkDir"] \in {"OSDatalinkDir", "VSDatalinkDir"}
      /\ is_symlink("targetInstallDir") <=>
             fs["targetInstallDir"] \in {"OSInstallDir", "VSInstallDir"}
  BY Paths DEF BootInv, Layout, is_symlink, Theirs
<1>2. exists("targetDatalinkDir") =>
          fs["targetDatalinkDir"] = "valve" \/ fs["targetInstallDir"] # "valve"
  BY <1>1 DEF BootInv, Layout, exists, resolved, Directory, Theirs
<1>3. BIsSplitInstall => /\ fs["targetDatalinkDir"] \in {"OSDatalinkDir", "VSDatalinkDir"}
                         /\ fs["targetInstallDir"] \in {"OSInstallDir", "VSInstallDir"}
  BY <1>1 DEF BIsSplitInstall, Target
<1>4. ASSUME ActiveInstall = "OpenSteam"
      PROVE  /\ fs["targetDatalinkDir"] = "OSDatalinkDir"
             /\ fs["targetInstallDir"] = "OSInstallDir"
             /\ fs["OSInstallDir"] = "marked"
  <2>1. BIsSplitInstall /\ \A t \in Target : resolved(t) = "marked"
    BY <1>4 DEF ActiveInstall
  <2>2. /\ fs[fs["targetDatalinkDir"]] = "marked"
        /\ fs[fs["targetInstallDir"]] = "marked"
    BY <1>1, <1>3, <2>1 DEF resolved, Target
  <2>3. QED
    BY <1>3, <2>1, <2>2 DEF BootInv, Layout, Theirs
<1>5. QED
  BY <1>2, <1>3, <1>4

LEMMA RelaunchKeeps == ASSUME BootInv, ~dryRun, Relaunch PROVE BootInv'
<1>1. /\ fs' = [fs EXCEPT !["OSInstallDir"] = IF @ = "absent" THEN "unmarked" ELSE @]
      /\ proc' = [Stopped EXCEPT !.pc = "SingleInstanceChecks", !.option = proc.option,
                                 !.ldPath = proc.ldPath, !.ranOnce = proc.ranOnce,
                                 !.launched = TRUE]
      /\ Unwritten
  BY DEF Relaunch
<1>2. proc \in Proc /\ fs \in [Path -> Entry] /\ "OSInstallDir" \in Path
  BY ProcType, Paths DEF BootInv
<1>3. proc' = [pc |-> "SingleInstanceChecks", option |-> proc.option, ldPath |-> proc.ldPath,
               ranOnce |-> proc.ranOnce, setup |-> FALSE, launched |-> TRUE, step |-> 1,
               force |-> FALSE, downloadFailed |-> FALSE]
  BY <1>1 DEF Stopped
<1>4. proc' \in Proc /\ proc'.pc = "SingleInstanceChecks" /\ proc'.option = proc.option
  BY <1>2, <1>3 DEF Proc, PC, BootInv, Progress, Done, dryRun
<1>5. /\ fs' \in [Path -> Entry]
      /\ fs'["OSInstallDir"] = IF fs["OSInstallDir"] = "absent" THEN "unmarked"
                               ELSE fs["OSInstallDir"]
      /\ \A q \in Path : q # "OSInstallDir" => fs'[q] = fs[q]
  BY <1>1, <1>2 DEF Entry, Directory
<1>6. Layout'
  BY <1>5, Paths DEF BootInv, Layout, Ours
<1>7. TypeOK' /\ UpdatesOwnInstall'
  BY <1>1, <1>4, <1>5, UnwrittenType DEF BootInv
<1>8. Progress' /\ Downloaded'
  BY <1>4 DEF Progress, Done, dryRun, Downloaded, Restoring, Marked, Linked, PastSplit
<1>9. QED
  BY <1>6, <1>7, <1>8 DEF BootInv

\* What CreateSymlinkIfInvalid may do where no link meets a directory but when
\* Valve's client is restored.
LEMMA Symlink ==
    ASSUME BootInv, ~dryRun, NEW pc, NEW next \in PC, NEW t \in Target, NEW to \in Path,
           CreateSymlinkIfInvalid(pc, t, to, next),
           fs[t] \in Directory => proc.option = "restore"
    PROVE  /\ proc.pc = pc /\ Unwritten
           /\ fs' \in [Path -> Entry] /\ \A q \in Path : q # t => fs'[q] = fs[q]
           /\ proc' \in Proc
           /\ proc'.option = proc.option /\ proc'.downloadFailed = proc.downloadFailed
           /\ \/ fs[t] \in Path /\ fs'[t] = "absent" /\ proc' = proc
              \/ fs[t] \in {to, "absent"} /\ fs'[t] = to /\ proc'.pc = next /\ proc'.step = 1
              \/ fs' = fs /\ proc'.pc = "off" /\ proc'.step = 1
<1> DEFINE Kept == /\ proc' \in Proc /\ proc'.option = proc.option
                   /\ proc'.downloadFailed = proc.downloadFailed
<1>1. /\ proc.pc = pc /\ Unwritten /\ ~dryRun
      /\ t \in Path /\ "absent" \in Entry /\ to \in Entry /\ "off" \in PC
      /\ TypeOK /\ proc \in Proc /\ fs \in [Path -> Entry]
  BY ProcType DEF CreateSymlinkIfInvalid, At, BootInv, Progress, Done, dryRun, Path, Entry, PC
<1>2. CASE is_symlink(t) /\ fs[t] # to /\ fs' = [fs EXCEPT ![t] = "absent"] /\ UNCHANGED proc
  BY <1>1, <1>2, EntryChange DEF is_symlink
<1>3. CASE fs[t] = to /\ GoTo(next) /\ UNCHANGED fs
  BY <1>1, <1>3, GoToFields
<1>4. CASE fs[t] = "absent" /\ fs' = [fs EXCEPT ![t] = to] /\ GoTo(next)
  BY <1>1, <1>4, EntryChange, GoToFields
<1>5. CASE fs[t] \in Directory /\ GoTo("off") /\ UNCHANGED fs
  BY <1>1, <1>5, GoToFields
<1>6. QED
  BY <1>1, <1>2, <1>3, <1>4, <1>5 DEF CreateSymlinkIfInvalid

LEMMA RestoreKeeps ==
    ASSUME BootInv, ~dryRun, RestoreValveSteam \/ SetValveSteamAsActiveInstall PROVE BootInv'
<1> USE DEF Restoring, Marked, Linked, PastSplit
<1>1. CASE RestoreValveSteam
  <2>1. /\ proc.option = "restore" /\ UNCHANGED fs /\ Unwritten
        /\ \/ GoTo("RestoreDatalink") /\ exists("targetDatalinkDir")
           \/ GoTo("off")
    BY <1>1 DEF RestoreValveSteam, Target
  <2>2. CASE GoTo("RestoreDatalink") /\ exists("targetDatalinkDir")
    BY <2>1, <2>2, LookKeeps, Resolved DEF PC
  <2>3. CASE GoTo("off")
    BY <2>1, <2>3, LookKeeps DEF PC
  <2>4. QED
    BY <2>1, <2>2, <2>3
<1>2. CASE CreateSymlinkIfInvalid("RestoreDatalink", "targetDatalinkDir", "VSDatalinkDir",
                                  "RestoreInstall")
  <2>1. proc.pc = "RestoreDatalink" /\ proc.option = "restore"
    BY <1>2 DEF CreateSymlinkIfInvalid, At, BootInv, Progress, Done, dryRun
  <2> DEFINE t == "targetDatalinkDir"
  <2>2. /\ Unwritten /\ fs' \in [Path -> Entry] /\ \A q \in Path : q # t => fs'[q] = fs[q]
        /\ proc' \in Proc
        /\ proc'.option = proc.option /\ proc'.downloadFailed = proc.downloadFailed
        /\ \/ fs[t] \in Path /\ fs'[t] = "absent" /\ proc' = proc
           \/ /\ fs[t] \in {"VSDatalinkDir", "absent"} /\ fs'[t] = "VSDatalinkDir"
              /\ proc'.pc = "RestoreInstall" /\ proc'.step = 1
           \/ fs' = fs /\ proc'.pc = "off" /\ proc'.step = 1
    BY <1>2, <2>1, Symlink, Paths DEF Target, PC
  <2>3. TypeOK' /\ UpdatesOwnInstall'
    BY <2>2, UnwrittenType DEF BootInv
  <2>4. Layout'
    BY <2>1, <2>2, Paths DEF BootInv, Layout, Progress, Done, dryRun, Theirs
  <2>5. Progress'
    BY <2>1, <2>2, Paths DEF BootInv, Layout, Progress, Done, dryRun, Theirs
  <2>6. Downloaded'
    BY <2>1, <2>2 DEF Downloaded
  <2>7. QED
    BY <2>3, <2>4, <2>5, <2>6 DEF BootInv
<1>3. CASE CreateSymlinkIfInvalid("RestoreInstall", "targetInstallDir", "VSInstallDir", "off")
  <2>1. proc.pc = "RestoreInstall" /\ proc.option = "restore"
    BY <1>3 DEF CreateSymlinkIfInvalid, At, BootInv, Progress, Done, dryRun
  <2> DEFINE t == "targetInstallDir"
  <2>2. /\ Unwritten /\ fs' \in [Path -> Entry] /\ \A q \in Path : q # t => fs'[q] = fs[q]
        /\ proc' \in Proc
        /\ proc'.option = proc.option /\ proc'.downloadFailed = proc.downloadFailed
        /\ \/ fs[t] \in Path /\ fs'[t] = "absent" /\ proc' = proc
           \/ /\ fs[t] \in {"VSInstallDir", "absent"} /\ fs'[t] = "VSInstallDir"
              /\ proc'.pc = "off" /\ proc'.step = 1
           \/ fs' = fs /\ proc'.pc = "off" /\ proc'.step = 1
    BY <1>3, <2>1, Symlink, Paths DEF Target, PC
  <2>3. TypeOK' /\ UpdatesOwnInstall'
    BY <2>2, UnwrittenType DEF BootInv
  <2>4. Layout'
    BY <2>1, <2>2, Paths DEF BootInv, Layout, Theirs
  <2>5. Progress'
    BY <2>1, <2>2, Paths DEF BootInv, Progress, Done, dryRun
  <2>6. Downloaded'
    BY <2>1, <2>2 DEF Downloaded
  <2>7. QED
    BY <2>3, <2>4, <2>5, <2>6 DEF BootInv
<1>4. QED
  BY <1>1, <1>2, <1>3 DEF SetValveSteamAsActiveInstall

LEMMA RunBootstrapKeeps == ASSUME BootInv, ~dryRun, SetLdLibraryPath \/ RunBootstrap PROVE BootInv'
<1> USE DEF Restoring, Marked, Linked, PastSplit
<1>1. CASE SetLdLibraryPath
  <2>1. /\ proc' = [proc EXCEPT !.pc = "Relaunch", !.ldPath = TRUE]
        /\ UNCHANGED fs /\ Unwritten
    BY <1>1 DEF SetLdLibraryPath
  <2>2. proc \in Proc
    BY ProcType DEF BootInv
  <2>3. proc' = [pc |-> "Relaunch", option |-> proc.option, ldPath |-> TRUE,
                 ranOnce |-> proc.ranOnce, setup |-> proc.setup, launched |-> proc.launched,
                 step |-> proc.step, force |-> proc.force, downloadFailed |-> proc.downloadFailed]
    BY <2>1, <2>2 DEF Proc
  <2>4. proc' \in Proc /\ proc'.pc = "Relaunch" /\ proc'.option = proc.option
    BY <2>2, <2>3 DEF Proc, PC
  <2>5. TypeOK' /\ UpdatesOwnInstall' /\ Layout'
    BY <2>1, <2>4, UnwrittenType DEF BootInv, TypeOK, Layout
  <2>6. Progress' /\ Downloaded'
    BY <2>4 DEF BootInv, Progress, Done, dryRun, Downloaded
  <2>7. QED
    BY <2>5, <2>6 DEF BootInv
<1>2. CASE RunBootstrap
  <2>1. UNCHANGED fs /\ Unwritten
    BY <1>2 DEF RunBootstrap
  <2>2. CASE GoTo("CreateSplitDatalink")
    BY <2>1, <2>2, LookKeeps DEF PC
  <2>3. CASE ActiveInstall = "Invalid" /\ GoTo("SetupOpenSteam")
    <3>1. BIsSplitInstall
      BY <2>3 DEF ActiveInstall
    <3>2. QED
      BY <2>1, <2>3, <3>1, LookKeeps, Resolved DEF PC
  <2>4. CASE ActiveInstall = "OpenSteam" /\ GoTo("BLaunchedCorrectly")
    BY <2>1, <2>4, LookKeeps, Resolved DEF PC
  <2>5. CASE ActiveInstall = "ValveSteam" /\ GoTo("DeleteDatalink")
    <3>1. BIsSplitInstall
      BY <2>5 DEF ActiveInstall
    <3>2. QED
      BY <2>1, <2>5, <3>1, LookKeeps, Resolved DEF PC
  <2>6. QED
    BY <1>2, <2>2, <2>3, <2>4, <2>5 DEF RunBootstrap
<1>3. QED
  BY <1>1, <1>2

LEMMA SplitKeeps == ASSUME BootInv, ~dryRun, SplitInstalls PROVE BootInv'
<1> USE DEF Restoring, Marked, Linked, PastSplit
<1>1. ASSUME NEW pc \in PC, NEW next \in PC, NEW t \in Target,
             CreateSplitInstall(pc, t, next)
      PROVE  /\ proc.pc = pc /\ Unwritten
             /\ \/ ~exists(t) /\ UNCHANGED fs /\ GoTo(next)
                \/ exists(t) /\ is_symlink(t) /\ UNCHANGED fs /\ GoTo("SetupOpenSteam")
                \/ /\ fs[t] = "valve" /\ GoTo(next)
                   /\ fs' = [fs EXCEPT ![t] = "absent", ![VS[t]] = "valve"]
  <2>1. ~dryRun /\ fs[t] # "marked"
    BY Paths DEF BootInv, Progress, Done, dryRun, Layout, Target, Theirs
  <2>2. exists(t) /\ ~is_symlink(t) => fs[t] = "valve"
    BY <2>1, Paths DEF exists, resolved, Directory, BootInv, Layout, Target, is_symlink, Theirs
  <2>3. fs[t] = "valve" => ~exists(VS[t])
    BY Paths DEF exists, resolved, is_symlink, Directory, BootInv, Layout, Target
  <2>4. QED
    BY <1>1, <2>1, <2>2, <2>3 DEF CreateSplitInstall, At
<1>2. CASE CreateSplitInstall("CreateSplitDatalink", "targetDatalinkDir", "CreateSplitInstall")
  <2> DEFINE t == "targetDatalinkDir"
  <2>1. /\ proc.pc = "CreateSplitDatalink" /\ Unwritten
        /\ \/ ~exists(t) /\ UNCHANGED fs /\ GoTo("CreateSplitInstall")
           \/ exists(t) /\ is_symlink(t) /\ UNCHANGED fs /\ GoTo("SetupOpenSteam")
           \/ /\ fs[t] = "valve" /\ GoTo("CreateSplitInstall")
              /\ fs' = [fs EXCEPT ![t] = "absent", !["VSDatalinkDir"] = "valve"]
    BY <1>1, <1>2, Paths DEF PC, Target
  <2>2. CASE ~exists(t) /\ UNCHANGED fs /\ GoTo("CreateSplitInstall")
    <3>1. fs[t] # "valve"
      BY <2>2, Paths DEF exists, resolved, is_symlink, Directory
    <3>2. QED
      BY <2>1, <2>2, <3>1, LookKeeps DEF PC
  <2>3. CASE exists(t) /\ is_symlink(t) /\ UNCHANGED fs /\ GoTo("SetupOpenSteam")
    <3>1. fs[t] # "valve" /\ fs["targetInstallDir"] # "valve"
      BY <2>3, Resolved, Paths DEF is_symlink
    <3>2. QED
      BY <2>1, <2>3, <3>1, LookKeeps DEF PC
  <2>4. CASE /\ fs[t] = "valve" /\ GoTo("CreateSplitInstall")
             /\ fs' = [fs EXCEPT ![t] = "absent", !["VSDatalinkDir"] = "valve"]
    <3>1. /\ proc' \in Proc /\ proc'.pc = "CreateSplitInstall" /\ proc'.step = 1
          /\ proc'.option = proc.option
      BY <2>4, GoToFields DEF BootInv, PC
    <3>2. fs \in [Path -> Entry]
      BY DEF BootInv, TypeOK
    <3>3. /\ fs' \in [Path -> Entry] /\ fs'[t] = "absent" /\ fs'["VSDatalinkDir"] = "valve"
          /\ \A q \in Path \ {t, "VSDatalinkDir"} : fs'[q] = fs[q]
      BY <2>4, <3>2, Paths DEF Entry, Directory
    <3>4. Layout'
      BY <3>3, Paths DEF BootInv, Layout, Theirs
    <3>5. TypeOK' /\ UpdatesOwnInstall'
      BY <2>1, <3>1, <3>3, UnwrittenType DEF BootInv
    <3>6. Progress' /\ Downloaded'
      BY <3>1, <3>3 DEF BootInv, Progress, Done, dryRun, Downloaded
    <3>7. QED
      BY <3>4, <3>5, <3>6 DEF BootInv
  <2>5. QED
    BY <2>1, <2>2, <2>3, <2>4
<1>3. CASE CreateSplitInstall("CreateSplitInstall", "targetInstallDir", "SetupOpenSteam")
  <2> DEFINE t == "targetInstallDir"
  <2>1. /\ proc.pc = "CreateSplitInstall" /\ Unwritten
        /\ \/ ~exists(t) /\ UNCHANGED fs /\ GoTo("SetupOpenSteam")
           \/ exists(t) /\ is_symlink(t) /\ UNCHANGED fs /\ GoTo("SetupOpenSteam")
           \/ /\ fs[t] = "valve" /\ GoTo("SetupOpenSteam")
              /\ fs' = [fs EXCEPT ![t] = "absent", !["VSInstallDir"] = "valve"]
    BY <1>1, <1>3, Paths DEF PC, Target
  <2>2. fs["targetDatalinkDir"] # "valve"
    BY <2>1 DEF BootInv, Progress, Done, dryRun
  <2>3. CASE (~exists(t) \/ is_symlink(t)) /\ UNCHANGED fs /\ GoTo("SetupOpenSteam")
    <3>1. fs[t] # "valve"
      BY <2>3, Paths DEF exists, resolved, is_symlink, Directory
    <3>2. QED
      BY <2>1, <2>2, <2>3, <3>1, LookKeeps DEF PC
  <2>4. CASE /\ fs[t] = "valve" /\ GoTo("SetupOpenSteam")
             /\ fs' = [fs EXCEPT ![t] = "absent", !["VSInstallDir"] = "valve"]
    <3>1. /\ proc' \in Proc /\ proc'.pc = "SetupOpenSteam" /\ proc'.step = 1
          /\ proc'.option = proc.option
      BY <2>4, GoToFields DEF BootInv, PC
    <3>2. fs \in [Path -> Entry]
      BY DEF BootInv, TypeOK
    <3>3. /\ fs' \in [Path -> Entry] /\ fs'[t] = "absent" /\ fs'["VSInstallDir"] = "valve"
          /\ \A q \in Path \ {t, "VSInstallDir"} : fs'[q] = fs[q]
      BY <2>4, <3>2, Paths DEF Entry, Directory
    <3>4. Layout'
      BY <3>3, Paths DEF BootInv, Layout, Theirs
    <3>5. TypeOK' /\ UpdatesOwnInstall'
      BY <2>1, <3>1, <3>3, UnwrittenType DEF BootInv
    <3>6. Progress' /\ Downloaded'
      BY <2>2, <3>1, <3>3, Paths DEF BootInv, Progress, Done, dryRun, Downloaded
    <3>7. QED
      BY <3>4, <3>5, <3>6 DEF BootInv
  <2>5. QED
    BY <2>1, <2>3, <2>4
<1>4. QED
  BY <1>2, <1>3 DEF SplitInstalls

\* The four steps of SetupOpenSteam, one by one.
LEMMA SetupKeeps == ASSUME BootInv, ~dryRun, SetupOpenSteam PROVE BootInv'
<1> USE DEF Restoring, Marked, Linked, PastSplit
<1>1. /\ proc.pc = "SetupOpenSteam" /\ Unwritten
      /\ proc \in Proc /\ fs \in [Path -> Entry]
      /\ {"unmarked", "marked"} \subseteq Entry
  BY ProcType DEF SetupOpenSteam, At, BootInv, Entry, Directory
<1> DEFINE p == Made[proc.step][1]
           made == Made[proc.step][2]
<1>2. /\ p \in {"OSInstallDir", "OSDatalinkDir"} /\ made \in {"unmarked", "marked"}
      /\ fs' = IF fs[p] = "marked" THEN fs ELSE [fs EXCEPT ![p] = made]
      /\ made = "marked" /\ p = "OSInstallDir" => proc.step = 4
      /\ proc.step = 3 => p = "OSDatalinkDir" /\ made = "marked"
  <2>1. proc.step \in 1..4 /\ ~dryRun
    BY <1>1 DEF Proc, BootInv, Progress, Done, dryRun
  <2>2. fs' = IF fs[Made[proc.step][1]] = "marked" THEN fs
              ELSE [fs EXCEPT ![Made[proc.step][1]] = Made[proc.step][2]]
    BY <2>1 DEF SetupOpenSteam
  <2>3. /\ Made[1][1] = "OSInstallDir" /\ Made[1][2] = "unmarked"
        /\ Made[2][1] = "OSDatalinkDir" /\ Made[2][2] = "unmarked"
        /\ Made[3][1] = "OSDatalinkDir" /\ Made[3][2] = "marked"
        /\ Made[4][1] = "OSInstallDir" /\ Made[4][2] = "marked"
    BY DEF Made
  <2>4. CASE proc.step = 1
    BY <2>2, <2>3, <2>4
  <2>5. CASE proc.step = 2
    BY <2>2, <2>3, <2>5
  <2>6. CASE proc.step = 3
    BY <2>2, <2>3, <2>6
  <2>7. CASE proc.step = 4
    BY <2>2, <2>3, <2>7
  <2>8. QED
    BY <2>1, <2>4, <2>5, <2>6, <2>7
<1> HIDE DEF p, made
<1>3. /\ fs' \in [Path -> Entry] /\ \A q \in Path : q # p => fs'[q] = fs[q]
      /\ fs'[p] = IF fs[p] = "marked" THEN "marked" ELSE made
  BY <1>1, <1>2, Paths
<1>4. \/ /\ proc.step < 4 /\ proc' = [proc EXCEPT !.step = proc.step + 1]
      \/ /\ proc' = [proc EXCEPT !.pc = "DeleteDatalink", !.step = 1, !.setup = TRUE]
  BY <1>1 DEF SetupOpenSteam, Made, Proc
<1>5. /\ proc' \in Proc /\ proc'.option = proc.option
      /\ \/ proc'.pc = "SetupOpenSteam" /\ proc.step < 4 /\ proc'.step = proc.step + 1
         \/ proc'.pc = "DeleteDatalink" /\ proc'.step = 1
  <2>1. CASE proc.step < 4 /\ proc' = [proc EXCEPT !.step = proc.step + 1]
    <3>1. proc.step + 1 \in 1..4
      BY <1>1, <2>1 DEF Proc
    <3>2. proc' = [pc |-> proc.pc, option |-> proc.option, ldPath |-> proc.ldPath,
                   ranOnce |-> proc.ranOnce, setup |-> proc.setup, launched |-> proc.launched,
                   step |-> proc.step + 1, force |-> proc.force,
                   downloadFailed |-> proc.downloadFailed]
      BY <1>1, <2>1 DEF Proc
    <3>3. QED
      BY <1>1, <2>1, <3>1, <3>2 DEF Proc
  <2>2. CASE proc' = [proc EXCEPT !.pc = "DeleteDatalink", !.step = 1, !.setup = TRUE]
    <3>1. proc' = [pc |-> "DeleteDatalink", option |-> proc.option, ldPath |-> proc.ldPath,
                   ranOnce |-> proc.ranOnce, setup |-> TRUE, launched |-> proc.launched,
                   step |-> 1, force |-> proc.force, downloadFailed |-> proc.downloadFailed]
      BY <1>1, <2>2 DEF Proc
    <3>2. QED
      BY <1>1, <3>1 DEF Proc, PC
  <2>3. QED
    BY <1>4, <2>1, <2>2
<1>6. Layout'
  <2>1. made = "marked" /\ p = "OSInstallDir" => fs["OSDatalinkDir"] = "marked"
    BY <1>1, <1>2 DEF BootInv, Progress, Done, dryRun
  <2>2. fs["OSInstallDir"] = "marked" => fs["OSDatalinkDir"] = "marked"
    BY DEF BootInv, Layout
  <2>3. /\ fs'["OSInstallDir"] = "marked" => fs'["OSDatalinkDir"] = "marked"
        /\ fs'["OSInstallDir"] \in Ours /\ fs'["OSDatalinkDir"] \in Ours
    BY <1>2, <1>3, <2>1, <2>2, Paths DEF BootInv, Layout, Ours
  <2>4. QED
    BY <1>2, <1>3, <2>3, Paths DEF BootInv, Layout
<1>7. TypeOK' /\ UpdatesOwnInstall'
  BY <1>1, <1>3, <1>5, UnwrittenType DEF BootInv
<1>8. Progress'
  <2>1. proc.step \in 1..4
    BY <1>1 DEF Proc
  <2>2. /\ fs'["targetDatalinkDir"] = fs["targetDatalinkDir"]
        /\ fs'["targetInstallDir"] = fs["targetInstallDir"]
    BY <1>2, <1>3, Paths
  <2>3. proc'.pc = "SetupOpenSteam" /\ proc'.step = 4 => fs'["OSDatalinkDir"] = "marked"
    BY <1>2, <1>3, <1>5, <2>1
  <2>4. QED
    BY <1>1, <1>5, <2>2, <2>3 DEF BootInv, Progress, Done, dryRun
<1>9. Downloaded'
  BY <1>5 DEF Downloaded
<1>10. QED
  BY <1>6, <1>7, <1>8, <1>9 DEF BootInv

\* DryRunDelete(t): the link below ~/.steam that it removes is always the datalink.
LEMMA DeleteKeeps ==
    ASSUME BootInv, ~dryRun, NEW t \in Target,
           \/ DryRunDelete("DeleteDatalink", t, "DeleteInstall")
           \/ DryRunDelete("DeleteInstall", t, "LinkDatalink")
    PROVE  BootInv'
<1> USE DEF Restoring, Marked, Linked, PastSplit
<1> DEFINE d == "targetDatalinkDir"
<1>1. PICK next \in {"DeleteInstall", "LinkDatalink"} :
        /\ proc.pc \in {"DeleteDatalink", "DeleteInstall"} /\ Unwritten /\ GoTo(next)
        /\ fs' = fs \/ fs' = [fs EXCEPT ![d] = "absent"]
  <2>1. ~(fs[d] \in Directory)
    BY DEF DryRunDelete, At, BootInv, Layout, Progress, Done, dryRun, Directory, Theirs
  <2>2. QED
    BY <2>1 DEF DryRunDelete, At
<1>2. fs[d] # "valve" /\ fs["targetInstallDir"] # "valve"
  BY <1>1 DEF BootInv, Progress, Done, dryRun
<1>3. /\ proc' \in Proc /\ proc'.pc = next /\ proc'.step = 1 /\ proc'.option = proc.option
  BY <1>1, GoToFields DEF BootInv, PC
<1>4. fs \in [Path -> Entry]
  BY DEF BootInv, TypeOK
<1>5. /\ fs' \in [Path -> Entry] /\ fs'[d] \in {fs[d], "absent"}
      /\ \A q \in Path : q # d => fs'[q] = fs[q]
  BY <1>1, <1>4, Paths DEF Entry
<1>6. Layout'
  BY <1>2, <1>5, Paths DEF BootInv, Layout, Theirs
<1>7. TypeOK' /\ UpdatesOwnInstall'
  BY <1>1, <1>3, <1>5, UnwrittenType DEF BootInv
<1>8. Progress' /\ Downloaded'
  BY <1>2, <1>3, <1>5, Paths DEF BootInv, Progress, Done, dryRun, Downloaded
<1>9. QED
  BY <1>6, <1>7, <1>8 DEF BootInv

LEMMA LinkKeeps ==
    ASSUME BootInv, ~dryRun, NEW next \in {"CopyOpensteamFiles", "BLaunchedCorrectly"},
           \/ CreateSymlinkIfInvalid("LinkDatalink", "targetDatalinkDir", "OSDatalinkDir",
                                     "LinkInstall")
           \/ CreateSymlinkIfInvalid("LinkInstall", "targetInstallDir", "OSInstallDir", next)
    PROVE  BootInv'
<1> USE DEF Restoring, Marked, Linked, PastSplit
<1>1. CASE CreateSymlinkIfInvalid("LinkDatalink", "targetDatalinkDir", "OSDatalinkDir",
                                  "LinkInstall")
  <2> DEFINE t == "targetDatalinkDir"
  <2>1. proc.pc = "LinkDatalink"
    BY <1>1 DEF CreateSymlinkIfInvalid, At
  <2>2. fs[t] # "valve" /\ fs["targetInstallDir"] # "valve" /\ fs[t] \notin Directory
    BY <2>1 DEF BootInv, Progress, Done, dryRun, Layout, Directory, Theirs
  <2>3. /\ Unwritten /\ fs' \in [Path -> Entry] /\ \A q \in Path : q # t => fs'[q] = fs[q]
        /\ proc' \in Proc
        /\ proc'.option = proc.option /\ proc'.downloadFailed = proc.downloadFailed
        /\ \/ fs[t] \in Path /\ fs'[t] = "absent" /\ proc' = proc
           \/ /\ fs[t] \in {"OSDatalinkDir", "absent"} /\ fs'[t] = "OSDatalinkDir"
              /\ proc'.pc = "LinkInstall" /\ proc'.step = 1
           \/ fs' = fs /\ proc'.pc = "off" /\ proc'.step = 1
    BY <1>1, <2>2, Symlink, Paths DEF Target, PC
  <2>4. TypeOK' /\ UpdatesOwnInstall'
    BY <2>3, UnwrittenType DEF BootInv
  <2>5. Layout'
    BY <2>2, <2>3, Paths DEF BootInv, Layout, Theirs
  <2>6. Progress' /\ Downloaded'
    BY <2>1, <2>2, <2>3, Paths DEF BootInv, Progress, Done, dryRun, Downloaded
  <2>7. QED
    BY <2>4, <2>5, <2>6 DEF BootInv
<1>2. CASE CreateSymlinkIfInvalid("LinkInstall", "targetInstallDir", "OSInstallDir", next)
  <2> DEFINE t == "targetInstallDir"
  <2>1. proc.pc = "LinkInstall"
    BY <1>2 DEF CreateSymlinkIfInvalid, At
  <2>2. fs[t] # "valve" /\ fs["targetDatalinkDir"] = "OSDatalinkDir" /\ fs[t] \notin Directory
    BY <2>1 DEF BootInv, Progress, Done, dryRun, Layout, Directory, Theirs
  <2>3. /\ Unwritten /\ fs' \in [Path -> Entry] /\ \A q \in Path : q # t => fs'[q] = fs[q]
        /\ proc' \in Proc
        /\ proc'.option = proc.option /\ proc'.downloadFailed = proc.downloadFailed
        /\ \/ fs[t] \in Path /\ fs'[t] = "absent" /\ proc' = proc
           \/ /\ fs[t] \in {"OSInstallDir", "absent"} /\ fs'[t] = "OSInstallDir"
              /\ proc'.pc = next /\ proc'.step = 1
           \/ fs' = fs /\ proc'.pc = "off" /\ proc'.step = 1
    BY <1>2, <2>2, Symlink, Paths DEF Target, PC
  <2>4. TypeOK' /\ UpdatesOwnInstall'
    BY <2>3, UnwrittenType DEF BootInv
  <2>5. Layout'
    BY <2>2, <2>3, Paths DEF BootInv, Layout, Theirs
  <2>6. Progress' /\ Downloaded'
    BY <2>1, <2>2, <2>3, Paths DEF BootInv, Progress, Done, dryRun, Downloaded
  <2>7. QED
    BY <2>4, <2>5, <2>6 DEF BootInv
<1>3. QED
  BY <1>1, <1>2

LEMMA SetActiveKeeps == ASSUME BootInv, ~dryRun, SetOpenSteamAsActiveInstall PROVE BootInv'
<1>1. \/ \E t \in Target : \/ DryRunDelete("DeleteDatalink", t, "DeleteInstall")
                          \/ DryRunDelete("DeleteInstall", t, "LinkDatalink")
      \/ \E next \in {"CopyOpensteamFiles", "BLaunchedCorrectly"} :
            \/ CreateSymlinkIfInvalid("LinkDatalink", "targetDatalinkDir", "OSDatalinkDir",
                                      "LinkInstall")
            \/ CreateSymlinkIfInvalid("LinkInstall", "targetInstallDir", "OSInstallDir", next)
  <2>1. CASE proc.setup
    BY <2>1 DEF SetOpenSteamAsActiveInstall, Target
  <2>2. CASE ~proc.setup
    BY <2>2 DEF SetOpenSteamAsActiveInstall, Target
  <2>3. QED
    BY <2>1, <2>2
<1>2. QED
  BY <1>1, DeleteKeeps, LinkKeeps

-----------------------------------------------------------------------------
(* From the active install to the client *)

LEMMA CopyKeeps == ASSUME BootInv, ~dryRun, CopyOpensteamFiles PROVE BootInv'
<1> USE DEF Restoring, Marked, Linked, PastSplit
<1>1. /\ proc.pc = "CopyOpensteamFiles" /\ written' = written \cup {"copy"} \X Owner("targetInstallDir")
      /\ GoTo("Relaunch") /\ UNCHANGED <<fs, files, manifest, starts>>
  BY DEF CopyOpensteamFiles, At
<1>2. resolved("targetInstallDir") \in Ours
  BY <1>1, Paths DEF resolved, is_symlink, BootInv, Layout, Progress, Done, dryRun
<1>3. Owner("targetInstallDir") \subseteq {"opensteam"}
  BY <1>2 DEF Owner, Ours
<1>4. /\ proc' \in Proc /\ proc'.pc = "Relaunch" /\ proc'.option = proc.option
  BY <1>1, GoToFields DEF BootInv, PC
<1>5. written' \subseteq Writing /\ UpdatesOwnInstall'
  BY <1>1, <1>3 DEF BootInv, TypeOK, UpdatesOwnInstall, Writing
<1>6. /\ fs' \in [Path -> Entry] /\ files' \in [Package -> Installed]
      /\ starts' \in 0..MaxStarts
  BY <1>1 DEF BootInv, TypeOK
<1>7. manifest' \in BOOLEAN
  BY <1>1 DEF BootInv, TypeOK
<1>8. TypeOK'
  BY <1>4, <1>5, <1>6, <1>7, Zenon DEF TypeOK, Proc, PC
<1>9. Layout' /\ UpdatesOwnInstall'
  BY <1>1, <1>5 DEF BootInv, Layout, UpdatesOwnInstall
<1>10. Progress' /\ Downloaded'
  BY <1>4 DEF BootInv, Progress, Done, dryRun, Downloaded
<1>11. QED
  BY <1>8, <1>9, <1>10 DEF BootInv

LEMMA LaunchedKeeps == ASSUME BootInv, ~dryRun, BLaunchedCorrectly \/ Verify PROVE BootInv'
<1> USE DEF Restoring, Marked, Linked, PastSplit
<1>1. UNCHANGED fs /\ Unwritten
  BY DEF BLaunchedCorrectly, Verify
<1>2. CASE BLaunchedCorrectly
  <2>1. /\ proc.pc = "BLaunchedCorrectly"
        /\ \/ GoTo("SetupOpenSteam") \/ GoTo("off")
           \/ GoTo("Verify") /\ fs["OSInstallDir"] = "marked"
    BY <1>2 DEF BLaunchedCorrectly, At
  <2>2. /\ fs["targetDatalinkDir"] = "OSDatalinkDir" /\ fs["targetInstallDir"] = "OSInstallDir"
    BY <2>1 DEF BootInv, Progress, Done, dryRun
  <2>3. CASE GoTo("SetupOpenSteam")
    BY <1>1, <2>2, <2>3, LookKeeps DEF PC
  <2>4. CASE GoTo("off")
    BY <1>1, <2>4, LookKeeps DEF PC
  <2>5. CASE GoTo("Verify") /\ fs["OSInstallDir"] = "marked"
    BY <1>1, <2>2, <2>5, LookKeeps DEF PC
  <2>6. QED
    BY <2>1, <2>3, <2>4, <2>5
<1>3. CASE Verify
  <2>1. /\ proc.pc = "Verify"
        /\ \/ GoTo("Update")
           \/ GoTo("Load") /\ \A p \in Package : files[p] # "absent"
    BY <1>3 DEF Verify, At
  <2>2. /\ fs["targetDatalinkDir"] = "OSDatalinkDir" /\ fs["targetInstallDir"] = "OSInstallDir"
        /\ fs["OSInstallDir"] = "marked"
    BY <2>1 DEF BootInv, Progress, Done, dryRun
  <2>3. CASE GoTo("Update")
    BY <1>1, <2>2, <2>3, LookKeeps DEF PC
  <2>4. CASE GoTo("Load") /\ \A p \in Package : files[p] # "absent"
    BY <1>1, <2>2, <2>4, LookKeeps DEF PC
  <2>5. QED
    BY <2>1, <2>3, <2>4
<1>4. QED
  BY <1>2, <1>3

\* One package: it is there if its download did not fail, and those before stay.
LEMMA UpdateKeeps == ASSUME BootInv, ~dryRun, Update PROVE BootInv'
<1> USE DEF Restoring, Marked, Linked, PastSplit
<1> DEFINE package == filesToDownload[proc.step]
<1>1. /\ proc.pc = "Update" /\ written' = written \cup {"update"} \X Owner("targetInstallDir")
      /\ manifest' = TRUE
      /\ UNCHANGED <<fs, starts>>
  BY DEF Update, At
<1>2. PICK ok \in BOOLEAN :
        /\ files' \in IF ok THEN {[files EXCEPT ![package] = "intact"]} ELSE Extracted(package)
        /\ proc' = [proc EXCEPT !.downloadFailed = @ \/ ~ok,
                                !.pc = IF proc.step < Len(filesToDownload) THEN "Update"
                                       ELSE IF proc.force THEN "Relaunch" ELSE "Load",
                                !.step = IF @ < Len(filesToDownload) THEN @ + 1 ELSE 1,
                                !.ranOnce = @ \/ (proc.force /\ proc.step = Len(filesToDownload))]
  BY DEF Update
<1>3. proc \in Proc /\ proc.step \in 1..3 /\ Len(filesToDownload) = 3
  BY <1>1, ProcType DEF BootInv, Downloaded, filesToDownload
<1>4. proc' = [pc |-> IF proc.step < 3 THEN "Update" ELSE IF proc.force THEN "Relaunch" ELSE "Load",
               option |-> proc.option, ldPath |-> proc.ldPath,
               ranOnce |-> proc.ranOnce \/ (proc.force /\ proc.step = 3),
               setup |-> proc.setup, launched |-> proc.launched,
               step |-> IF proc.step < 3 THEN proc.step + 1 ELSE 1, force |-> proc.force,
               downloadFailed |-> proc.downloadFailed \/ ~ok]
  BY <1>2, <1>3 DEF Proc
<1>5. /\ proc'.pc = IF proc.step < 3 THEN "Update" ELSE IF proc.force THEN "Relaunch" ELSE "Load"
      /\ proc'.step = IF proc.step < 3 THEN proc.step + 1 ELSE 1
      /\ proc'.option = proc.option
      /\ ~proc'.downloadFailed => ok /\ ~proc.downloadFailed
  BY <1>4
<1>6. proc' \in Proc
  BY <1>3, <1>4 DEF Proc, PC
<1>7. /\ filesToDownload[1] = "bins" /\ filesToDownload[2] = "sdk" /\ filesToDownload[3] = "misc"
      /\ package \in Package
  BY <1>3 DEF filesToDownload, Package
<1>8. /\ files \in [Package -> Installed]
      /\ files' \in [Package -> Installed]
      /\ starts' \in 0..MaxStarts /\ fs' \in [Path -> Entry]
  BY <1>1, <1>2, <1>7 DEF BootInv, TypeOK, Extracted, Installed
<1>9. Owner("targetInstallDir") \subseteq {"opensteam"}
  <2>1. resolved("targetInstallDir") \in Ours
    BY <1>1, Paths DEF resolved, is_symlink, BootInv, Layout, Progress, Done, dryRun
  <2>2. QED
    BY <2>1 DEF Owner, Ours
<1>10. written' \subseteq Writing /\ UpdatesOwnInstall'
  BY <1>1, <1>9 DEF BootInv, TypeOK, UpdatesOwnInstall, Writing
<1>11. manifest' \in BOOLEAN
  BY <1>1
<1>12. TypeOK'
  BY <1>6, <1>8, <1>10, <1>11, Zenon DEF TypeOK, Proc, PC
<1>13. Layout' /\ UpdatesOwnInstall'
  BY <1>1, <1>10 DEF BootInv, Layout, UpdatesOwnInstall
<1>14. Progress'
  BY <1>1, <1>5 DEF BootInv, Progress, Done, dryRun
<1>15. Downloaded'
  <2>1. ASSUME ~proc'.downloadFailed
        PROVE  /\ files'[package] # "absent"
               /\ \A p \in Package : files[p] # "absent" => files'[p] # "absent"
    BY <1>2, <1>5, <1>7, <1>8, <2>1
  <2>2. ASSUME ~proc'.downloadFailed
        PROVE  /\ proc.step > 1 => files["bins"] # "absent"
               /\ proc.step > 2 => files["sdk"] # "absent"
    BY <1>1, <1>5, <2>2 DEF BootInv, Downloaded
  <2>3. ASSUME ~proc'.downloadFailed
        PROVE  /\ files'["bins"] # "absent"
               /\ proc.step > 1 => files'["sdk"] # "absent"
               /\ proc.step > 2 => files'["misc"] # "absent"
    BY <1>3, <1>7, <2>1, <2>2, <2>3 DEF Package
  <2>4. QED
    BY <1>3, <1>5, <2>3 DEF Downloaded, Package
<1>16. QED
  BY <1>12, <1>13, <1>14, <1>15 DEF BootInv

LEMMA LoadKeeps == ASSUME BootInv, ~dryRun, Load \/ Quit PROVE BootInv'
<1> USE DEF Restoring, Marked, Linked, PastSplit
<1>1. UNCHANGED fs /\ Unwritten /\ proc \in Proc
  BY ProcType DEF Load, Quit, BootInv
<1>2. CASE proc' = Stopped
  <2>1. proc' \in Proc /\ proc'.pc = "off" /\ proc'.option = "none"
    BY <1>2 DEF Stopped, Proc, PC
  <2>2. TypeOK' /\ UpdatesOwnInstall' /\ Layout'
    BY <1>1, <2>1, UnwrittenType DEF BootInv, TypeOK, Layout
  <2>3. Progress' /\ Downloaded'
    BY <2>1 DEF Progress, Done, dryRun, Downloaded
  <2>4. QED
    BY <2>2, <2>3 DEF BootInv
<1>3. ASSUME NEW pc \in PC, NEW option \in {"none", "restore"}, NEW force \in BOOLEAN,
             pc \in {"run", "off", "SingleInstanceChecks", "Update"},
             pc \in {"run", "Update"} => proc.pc = "Load",
             proc' = [pc |-> pc, option |-> option, ldPath |-> proc.ldPath,
                      ranOnce |-> proc.ranOnce, setup |-> proc.setup, launched |-> proc.launched,
                      step |-> proc.step, force |-> force, downloadFailed |-> proc.downloadFailed]
      PROVE  BootInv'
  <2>1. proc' \in Proc
    BY <1>1, <1>3 DEF Proc
  <2>2. /\ proc'.pc = pc /\ proc'.option = option /\ proc'.step = proc.step
        /\ proc'.downloadFailed = proc.downloadFailed
    BY <1>3
  <2>3. TypeOK' /\ UpdatesOwnInstall' /\ Layout'
    BY <1>1, <2>1, UnwrittenType DEF BootInv, TypeOK, Layout
  <2>4. Progress'
    BY <1>1, <1>3, <2>2 DEF BootInv, Progress, Done, dryRun
  <2>5. Downloaded'
    BY <1>1, <1>3, <2>2 DEF BootInv, Downloaded, Unwritten
  <2>6. QED
    BY <2>3, <2>4, <2>5 DEF BootInv
<1>4. CASE Load
  <2>1. /\ proc.pc = "Load" /\ proc.option \in {"none", "restore"} /\ proc.force \in BOOLEAN
    BY <1>1, <1>4 DEF Load, At, Proc, dryRun
  <2>2. CASE proc' = [proc EXCEPT !.pc = "run"]
    BY <1>1, <1>3, <2>1, <2>2 DEF Proc, PC
  <2>3. CASE proc' = [proc EXCEPT !.pc = "off"]
    BY <1>1, <1>3, <2>1, <2>3 DEF Proc, PC
  <2>4. CASE proc' = [proc EXCEPT !.pc = "Update", !.force = TRUE]
    BY <1>1, <1>3, <2>1, <2>4 DEF Proc, PC
  <2>5. QED
    BY <1>4, <2>2, <2>3, <2>4 DEF Load
<1>5. CASE Quit
  <2>1. CASE proc' = [proc EXCEPT !.pc = "SingleInstanceChecks", !.option = "restore"]
    <3>1. proc.force \in BOOLEAN
      BY <1>1 DEF Proc
    <3>2. QED
      BY <1>1, <1>3, <2>1, <3>1 DEF Proc, PC
  <2>2. QED
    BY <1>2, <1>5, <2>1 DEF Quit
<1>6. QED
  BY <1>4, <1>5

-----------------------------------------------------------------------------
(* What follows *)

\* steam.pid is written wherever ~/.steam leads.
LEMMA CheckKeeps == ASSUME BootInv, SingleInstanceChecks PROVE BootInv'
<1> USE DEF Restoring, Marked, Linked, PastSplit
<1>1. /\ proc.pc = "SingleInstanceChecks" /\ GoTo("RunBootstrapper")
      /\ written' = written \cup {"pid"} \X Owner("targetDatalinkDir")
      /\ UNCHANGED <<fs, files, manifest, starts>>
  BY DEF SingleInstanceChecks, At
<1>2. /\ proc' \in Proc /\ proc'.pc = "RunBootstrapper" /\ proc'.option = proc.option
  BY <1>1, GoToFields DEF BootInv, PC
<1>3. written' \subseteq Writing /\ UpdatesOwnInstall'
  BY <1>1 DEF BootInv, TypeOK, UpdatesOwnInstall, Writing, Owner
<1>4. /\ fs' \in [Path -> Entry] /\ files' \in [Package -> Installed]
      /\ starts' \in 0..MaxStarts /\ manifest' \in BOOLEAN
  BY <1>1 DEF BootInv, TypeOK
<1>5. TypeOK'
  BY <1>2, <1>3, <1>4, Zenon DEF TypeOK, Proc, PC
<1>6. Layout'
  BY <1>1 DEF BootInv, Layout
<1>7. Progress' /\ Downloaded'
  BY <1>2 DEF Progress, Done, Downloaded
<1>8. QED
  BY <1>3, <1>5, <1>6, <1>7 DEF BootInv

\* A step of a dry run removes a link at most, copies at most, and does not go
\* on to the Updater.
LEMMA DryRunStep ==
    ASSUME BootInv, dryRun, Step, ~SingleInstanceChecks
    PROVE  /\ UNCHANGED <<files, manifest, starts>>
           /\ \/ fs' = fs
              \/ \E t \in Target : fs[t] \in Path /\ fs' = [fs EXCEPT ![t] = "absent"]
           /\ \/ written' = written
              \/ written' = written \cup {"dryRunCopy"} \X Owner("targetInstallDir")
           /\ proc' \in Proc /\ proc'.pc \notin Marked \cup {"failed"}
           /\ proc'.option = proc.option
<1> DEFINE Quiet == /\ UNCHANGED <<files, manifest, starts>> /\ written' = written
           Moves == /\ proc' \in Proc /\ proc'.pc \notin Marked \cup {"failed"}
                    /\ proc'.option = proc.option
           Cut == \E t \in Target : fs[t] \in Path /\ fs' = [fs EXCEPT ![t] = "absent"]
<1> USE DEF Marked
<1>1. /\ proc \in Proc /\ TypeOK /\ proc.option = "dryRun"
      /\ proc.pc \notin {"Verify", "Update", "Load", "run", "failed"}
  BY ProcType DEF BootInv, Progress, dryRun
<1>2. ASSUME NEW to \in PC \ (Marked \cup {"failed"}), GoTo(to) PROVE Moves
  BY <1>1, <1>2, GoToFields
<1> HIDE DEF Moves
<1>3. ASSUME NEW pc, NEW t \in Target, NEW to, NEW next \in PC \ (Marked \cup {"failed"}),
             CreateSymlinkIfInvalid(pc, t, to, next)
      PROVE  Quiet /\ Moves /\ (fs' = fs \/ Cut)
  <2>1. CASE is_symlink(t) /\ fs' = [fs EXCEPT ![t] = "absent"] /\ UNCHANGED proc
    <3>1. Moves
      BY <1>1, <2>1 DEF Moves
    <3>2. QED
      BY <1>3, <2>1, <3>1 DEF CreateSymlinkIfInvalid, Unwritten, is_symlink
  <2>2. CASE GoTo(next) /\ UNCHANGED fs
    BY <1>2, <1>3, <2>2 DEF CreateSymlinkIfInvalid, Unwritten
  <2>3. QED
    BY <1>1, <1>3, <2>1, <2>2 DEF CreateSymlinkIfInvalid
<1>4. ASSUME NEW pc, NEW t, NEW next \in PC \ (Marked \cup {"failed"}),
             DryRunDelete(pc, t, next) \/ CreateSplitInstall(pc, t, next)
      PROVE  Quiet /\ Moves /\ fs' = fs
  <2>1. \/ GoTo(next) /\ UNCHANGED fs
        \/ GoTo("SetupOpenSteam") /\ UNCHANGED fs
    BY <1>4 DEF DryRunDelete, CreateSplitInstall
  <2>2. Moves
    BY <1>2, <2>1 DEF PC
  <2>3. QED
    BY <1>4, <2>1, <2>2 DEF DryRunDelete, CreateSplitInstall, Unwritten
<1>5. ASSUME SetupOpenSteam PROVE Quiet /\ Moves /\ fs' = fs
  <2>1. Quiet /\ fs' = fs
    BY <1>5 DEF SetupOpenSteam, Unwritten
  <2>2. \/ proc.step < 4 /\ proc' = [proc EXCEPT !.step = proc.step + 1]
        \/ proc' = [proc EXCEPT !.pc = "DeleteDatalink", !.step = 1, !.setup = TRUE]
    BY <1>1, <1>5 DEF SetupOpenSteam, Made, Proc
  <2>3. CASE proc.step < 4 /\ proc' = [proc EXCEPT !.step = proc.step + 1]
    <3>1. proc.step + 1 \in 1..4
      BY <1>1, <2>3 DEF Proc
    <3>2. proc' = [pc |-> proc.pc, option |-> proc.option, ldPath |-> proc.ldPath,
                   ranOnce |-> proc.ranOnce, setup |-> proc.setup, launched |-> proc.launched,
                   step |-> proc.step + 1, force |-> proc.force,
                   downloadFailed |-> proc.downloadFailed]
      BY <1>1, <2>3 DEF Proc
    <3>3. QED
      BY <1>1, <2>1, <3>1, <3>2 DEF Proc, Moves
  <2>4. CASE proc' = [proc EXCEPT !.pc = "DeleteDatalink", !.step = 1, !.setup = TRUE]
    <3>1. proc' = [pc |-> "DeleteDatalink", option |-> proc.option, ldPath |-> proc.ldPath,
                   ranOnce |-> proc.ranOnce, setup |-> TRUE, launched |-> proc.launched,
                   step |-> 1, force |-> proc.force, downloadFailed |-> proc.downloadFailed]
      BY <1>1, <2>4 DEF Proc
    <3>2. QED
      BY <1>1, <2>1, <3>1 DEF Proc, PC, Moves
  <2>5. QED
    BY <2>2, <2>3, <2>4
<1>6. ASSUME SetLdLibraryPath PROVE Quiet /\ Moves /\ fs' = fs
  <2>1. proc' = [pc |-> "Relaunch", option |-> proc.option, ldPath |-> TRUE,
                 ranOnce |-> proc.ranOnce, setup |-> proc.setup, launched |-> proc.launched,
                 step |-> proc.step, force |-> proc.force, downloadFailed |-> proc.downloadFailed]
    BY <1>1, <1>6 DEF SetLdLibraryPath, Proc
  <2>2. Moves
    BY <1>1, <2>1 DEF Proc, PC, Moves
  <2>3. QED
    BY <1>6, <2>2 DEF SetLdLibraryPath, Unwritten
<1>7. ASSUME RunBootstrap \/ Relaunch \/ BLaunchedCorrectly PROVE Quiet /\ Moves /\ fs' = fs
  <2>1. PICK to \in {"CreateSplitDatalink", "SetupOpenSteam", "BLaunchedCorrectly",
                     "DeleteDatalink", "off"} : GoTo(to) /\ UNCHANGED fs
    BY <1>7 DEF RunBootstrap, Relaunch, BLaunchedCorrectly
  <2>2. Moves
    BY <1>2, <2>1 DEF PC
  <2>3. QED
    BY <1>7, <2>1, <2>2 DEF RunBootstrap, Relaunch, BLaunchedCorrectly, Unwritten
<1>8. ASSUME CopyOpensteamFiles
      PROVE  /\ UNCHANGED <<fs, files, manifest, starts>> /\ Moves
             /\ written' = written \cup {"dryRunCopy"} \X Owner("targetInstallDir")
  <2>1. Moves
    BY <1>2, <1>8 DEF CopyOpensteamFiles, PC
  <2>2. QED
    BY <1>8, <2>1 DEF CopyOpensteamFiles
<1>9. ASSUME SetOpenSteamAsActiveInstall PROVE Quiet /\ Moves /\ (fs' = fs \/ Cut)
  <2>1. CASE proc.setup
    BY <1>3, <1>4, <1>9, <2>1 DEF SetOpenSteamAsActiveInstall, Target, PC
  <2>2. CASE ~proc.setup
    BY <1>3, <1>4, <1>9, <2>2 DEF SetOpenSteamAsActiveInstall, Target, PC
  <2>3. QED
    BY <2>1, <2>2
<1>10. ASSUME SplitInstalls PROVE Quiet /\ Moves /\ fs' = fs
  BY <1>4, <1>10 DEF SplitInstalls, PC
<1>11. ASSUME SetValveSteamAsActiveInstall PROVE Quiet /\ Moves /\ (fs' = fs \/ Cut)
  BY <1>3, <1>11 DEF SetValveSteamAsActiveInstall, Target, PC
<1>12. ~(RestoreValveSteam \/ Verify \/ Update \/ Load)
  BY <1>1 DEF RestoreValveSteam, Verify, Update, Load, At
<1>13. \/ Quiet /\ Moves /\ (fs' = fs \/ Cut)
       \/ /\ UNCHANGED <<fs, files, manifest, starts>> /\ Moves
          /\ written' = written \cup {"dryRunCopy"} \X Owner("targetInstallDir")
  BY <1>5, <1>6, <1>7, <1>8, <1>9, <1>10, <1>11, <1>12 DEF Step
<1>14. QED
  BY <1>13 DEF Moves

LEMMA DryRunKeeps == ASSUME BootInv, dryRun, Step, ~SingleInstanceChecks PROVE BootInv'
<1>1. /\ UNCHANGED <<files, manifest, starts>>
      /\ proc' \in Proc /\ proc'.pc \notin Marked \cup {"failed"} /\ proc'.option = "dryRun"
  BY DryRunStep DEF dryRun
<1>2. /\ TypeOK /\ fs \in [Path -> Entry]
      /\ files' \in [Package -> Installed] /\ manifest' \in BOOLEAN /\ starts' \in 0..MaxStarts
  BY <1>1 DEF BootInv, TypeOK
<1>3. /\ fs' \in [Path -> Entry]
      /\ \A p \in Path : fs'[p] = fs[p] \/ (p \in Target /\ fs[p] \in Path /\ fs'[p] = "absent")
  <2>1. CASE fs' = fs
    BY <1>2, <2>1
  <2>2. ASSUME NEW t \in Target, fs[t] \in Path, fs' = [fs EXCEPT ![t] = "absent"]
        PROVE  /\ fs' \in [Path -> Entry]
               /\ \A p \in Path : fs'[p] = fs[p] \/ (p \in Target /\ fs[p] \in Path /\ fs'[p] = "absent")
    BY <1>2, <2>2 DEF Entry, Path
  <2>3. QED
    BY <2>1, <2>2, DryRunStep
<1>4. written' \subseteq Writing /\ UpdatesOwnInstall'
  BY DryRunStep DEF BootInv, TypeOK, UpdatesOwnInstall, Writing, Owner
<1>5. TypeOK'
  BY <1>1, <1>2, <1>3, <1>4, Zenon DEF TypeOK, Proc, PC
<1>6. Layout'
  BY <1>3, Paths DEF BootInv, Layout, Target, Theirs
<1>7. Progress' /\ Downloaded'
  BY <1>1 DEF Progress, dryRun, Downloaded, Marked
<1>8. QED
  BY <1>4, <1>5, <1>6, <1>7 DEF BootInv

LEMMA BootNext == BootInv /\ [Next]_vars => BootInv'
<1> SUFFICES ASSUME BootInv, [Next]_vars PROVE BootInv'
  OBVIOUS
<1>1. CASE Next
  <2>1. CASE Start \/ Crash \/ SingleInstanceChecks
    BY <2>1, StartKeeps, CrashKeeps, CheckKeeps
  <2>2. CASE Step /\ ~SingleInstanceChecks /\ dryRun
    BY <2>2, DryRunKeeps
  <2>3. Quit => ~dryRun
    BY DEF Quit, At, BootInv, Progress, Marked
  <2>4. CASE (Step \/ Quit) /\ ~SingleInstanceChecks /\ ~dryRun
    BY <2>4, LoadKeeps, RelaunchKeeps, RestoreKeeps, RunBootstrapKeeps, SplitKeeps, SetupKeeps,
       SetActiveKeeps, CopyKeeps, LaunchedKeeps, UpdateKeeps DEF Step
  <2>5. QED
    BY <1>1, <2>1, <2>2, <2>3, <2>4 DEF Next
<1>2. CASE UNCHANGED vars
  <2>1. fs' = fs /\ written' = written /\ files' = files /\ manifest' = manifest
        /\ proc' = proc /\ starts' = starts
    BY <1>2 DEF vars
  <2>2. QED
    BY <2>1 DEF BootInv, TypeOK, Layout, Progress, Done, dryRun, Downloaded, UpdatesOwnInstall
<1>3. QED
  BY <1>1, <1>2

LEMMA BootAlways == Spec => []BootInv
BY BootInit, BootNext, PTL DEF Spec

\* The types of Bootstrap's variables.
THEOREM BootstrapTypeCorrect == Spec => []TypeOK
<1>1. BootInv => TypeOK
  BY DEF BootInv
<1>2. QED
  BY <1>1, BootAlways, PTL

\* Whatever earlier starts, dry or killed, left behind, the Updater and, but for
\* a dry run, the copying write below ~/.local/share/Steam only where that leads
\* into OpenSteam's own directory (updater.cpp:21).
THEOREM UpdaterKeepsToItsOwn == Spec => []UpdatesOwnInstall
<1>1. BootInv => UpdatesOwnInstall
  BY DEF BootInv
<1>2. QED
  BY <1>1, BootAlways, PTL

\* The client runs only while OpenSteam is the active install
\* (Startup::RunBootstrapper).
THEOREM ActiveWhenRun == Spec => []RunsAsOpenSteam
<1>1. ASSUME BootInv, At("run") PROVE ActiveInstall = "OpenSteam"
  <2>1. /\ fs["targetDatalinkDir"] = "OSDatalinkDir" /\ fs["targetInstallDir"] = "OSInstallDir"
        /\ fs["OSInstallDir"] = "marked" /\ fs["OSDatalinkDir"] = "marked"
    BY <1>1 DEF At, BootInv, Layout, Progress, Done, dryRun, Marked, Linked
  <2>2. \A t \in Target : is_symlink(t) /\ resolved(t) = "marked"
    BY <2>1, Paths DEF is_symlink, resolved, Target
  <2>3. BIsSplitInstall
    BY <2>2 DEF BIsSplitInstall, exists, Directory, Target
  <2>4. QED
    BY <2>2, <2>3 DEF ActiveInstall
<1>2. BootInv => RunsAsOpenSteam
  BY <1>1 DEF RunsAsOpenSteam
<1>3. QED
  BY <1>2, BootAlways, PTL

\* No start meets an entry that stops it with an exception
\* (Bootstrapper::CreateSplitInstall, CreateSymlinkIfInvalid, DryRunDelete).
THEOREM NothingInTheWay == Spec => []NeverStopsHalfway
<1>1. BootInv => NeverStopsHalfway
  BY DEF BootInv, Progress, Done, dryRun, NeverStopsHalfway, At
<1>2. QED
  BY <1>1, BootAlways, PTL

\* The client runs with every package in place unless a download of this run
\* failed (Updater::Verify).
THEOREM CompleteWhenRun == Spec => []RunsComplete
<1>1. BootInv => RunsComplete
  BY DEF BootInv, Downloaded, RunsComplete, At
<1>2. QED
  BY <1>1, BootAlways, PTL

\* The entries a step may change: those of OpenSteam, a link or nothing in the
\* place of a target, and Valve's directory only together with its new place.
LEMMA FsSteps ==
    ASSUME BootInv, Next
    PROVE  \/ fs' = fs
           \/ \E p \in Path, e \in Entry :
                 /\ p \in {"OSInstallDir", "OSDatalinkDir"} \/ (p \in Target /\ fs[p] \notin Directory)
                 /\ fs' = [fs EXCEPT ![p] = e]
           \/ \E t \in Target : /\ fs[VS[t]] # "valve"
                               /\ fs' = [fs EXCEPT ![t] = "absent", ![VS[t]] = fs[t]]
<1> DEFINE Other == \E p \in Path, e \in Entry :
               /\ p \in {"OSInstallDir", "OSDatalinkDir"} \/ (p \in Target /\ fs[p] \notin Directory)
               /\ fs' = [fs EXCEPT ![p] = e]
           Aside == \E t \in Target : /\ fs[VS[t]] # "valve"
                                    /\ fs' = [fs EXCEPT ![t] = "absent", ![VS[t]] = fs[t]]
<1>1. ASSUME NEW pc, NEW next, NEW t \in Target, NEW to \in Path,
             CreateSymlinkIfInvalid(pc, t, to, next)
      PROVE  fs' = fs \/ Other
  <2>1. t \in Path /\ to \in Entry /\ "absent" \in Entry /\ ~("absent" \in Directory)
    BY DEF Path, Entry, Directory
  <2>2. Path \cap Directory = {}
    BY Paths DEF Directory
  <2>3. CASE is_symlink(t) /\ fs' = [fs EXCEPT ![t] = "absent"]
    BY <2>1, <2>2, <2>3 DEF is_symlink
  <2>4. CASE fs[t] = "absent" /\ fs' = [fs EXCEPT ![t] = to]
    BY <2>1, <2>4
  <2>5. CASE fs' = fs
    BY <2>5
  <2>6. QED
    BY <1>1, <2>3, <2>4, <2>5 DEF CreateSymlinkIfInvalid, Fail
<1>2. ASSUME SetValveSteamAsActiveInstall PROVE fs' = fs \/ Other
  BY <1>1, <1>2, Paths DEF SetValveSteamAsActiveInstall, Target
<1>3. ASSUME SetOpenSteamAsActiveInstall PROVE fs' = fs \/ Other
  <2>1. ASSUME NEW pc, NEW t, NEW next, DryRunDelete(pc, t, next) PROVE fs' = fs \/ Other
    <3>1. "targetDatalinkDir" \in Path /\ "targetDatalinkDir" \in Target /\ "absent" \in Entry
      BY Paths DEF Target, Entry
    <3>2. CASE /\ fs["targetDatalinkDir"] \notin Directory
               /\ fs' = [fs EXCEPT !["targetDatalinkDir"] = "absent"]
      BY <3>1, <3>2
    <3>3. QED
      BY <2>1, <3>2 DEF DryRunDelete, Fail
  <2>2. ASSUME NEW next, CreateSymlinkIfInvalid("LinkInstall", "targetInstallDir", "OSInstallDir", next)
        PROVE  fs' = fs \/ Other
    BY <1>1, <2>2, Paths DEF Target
  <2>3. CASE CreateSymlinkIfInvalid("LinkDatalink", "targetDatalinkDir", "OSDatalinkDir", "LinkInstall")
    BY <1>1, <2>3, Paths DEF Target
  <2>4. QED
    BY <1>3, <2>1, <2>2, <2>3 DEF SetOpenSteamAsActiveInstall
<1>4. ASSUME SplitInstalls PROVE fs' = fs \/ Aside
  <2>1. ASSUME NEW pc, NEW next, NEW t \in Target, CreateSplitInstall(pc, t, next)
        PROVE  fs' = fs \/ Aside
    <3>1. fs[VS[t]] = "valve" => exists(VS[t])
      BY Paths DEF exists, resolved, is_symlink, Directory, Target
    <3>2. QED
      BY <2>1, <3>1 DEF CreateSplitInstall, Fail
  <2>2. QED
    BY <1>4, <2>1 DEF SplitInstalls, Target
<1>5. ASSUME SetupOpenSteam PROVE fs' = fs \/ Other
  <2>1. proc.step \in 1..4 /\ {"unmarked", "marked"} \subseteq Entry
    BY ProcType DEF BootInv, Proc, Entry, Directory
  <2> DEFINE p == Made[proc.step][1]
             made == Made[proc.step][2]
  <2>2. p \in {"OSInstallDir", "OSDatalinkDir"} /\ made \in Entry
    BY <2>1 DEF Made
  <2>3. fs' = fs \/ fs' = [fs EXCEPT ![p] = made]
    BY <1>5 DEF SetupOpenSteam
  <2> HIDE DEF p, made
  <2>4. QED
    BY <2>2, <2>3, Paths
<1>6. ASSUME Relaunch PROVE fs' = fs \/ Other
  <2> DEFINE e == IF fs["OSInstallDir"] = "absent" THEN "unmarked" ELSE fs["OSInstallDir"]
  <2>1. "OSInstallDir" \in Path /\ e \in Entry
    BY Paths DEF BootInv, TypeOK, Entry, Directory
  <2>2. fs' = fs \/ fs' = [fs EXCEPT !["OSInstallDir"] = e]
    BY <1>6 DEF Relaunch
  <2> HIDE DEF e
  <2>3. QED
    BY <2>1, <2>2
<1>7. ASSUME Start \/ Crash \/ Quit \/ SingleInstanceChecks \/ RestoreValveSteam \/ SetLdLibraryPath \/ RunBootstrap
             \/ CopyOpensteamFiles \/ BLaunchedCorrectly \/ Verify \/ Update \/ Load
      PROVE  fs' = fs
  BY <1>7 DEF Start, Crash, Quit, SingleInstanceChecks, RestoreValveSteam, SetLdLibraryPath, RunBootstrap,
              CopyOpensteamFiles, BLaunchedCorrectly, Verify, Update, Load
<1>8. QED
  BY <1>2, <1>3, <1>4, <1>5, <1>6, <1>7 DEF Next, Step

\* No step of the program, killed and started again as often as may be, loses a
\* directory of Valve's (Bootstrapper::CreateSplitInstall).
THEOREM ValvesFilesAreKept == Spec => ValveFilesSurvive
<1>1. ASSUME BootInv, [Next]_vars, NEW t \in Target, ValveHas(t) PROVE ValveHas(t)'
  <2>1. /\ t \in {"targetDatalinkDir", "targetInstallDir"} /\ t \in Path /\ VS[t] \in Path
        /\ VS[t] \in {"VSDatalinkDir", "VSInstallDir"}
        /\ fs \in [Path -> Entry]
    <3>1. fs \in [Path -> Entry]
      BY <1>1 DEF BootInv, TypeOK
    <3>2. t \in {"targetDatalinkDir", "targetInstallDir"}
      BY DEF Target
    <3>3. QED
      BY <3>1, <3>2, Paths
  <2>2. CASE fs' = fs
    BY <1>1, <2>2 DEF ValveHas
  <2>3. ASSUME NEW p \in Path, NEW e \in Entry, fs' = [fs EXCEPT ![p] = e],
               p \in {"OSInstallDir", "OSDatalinkDir"} \/ (p \in Target /\ fs[p] \notin Directory)
        PROVE  ValveHas(t)'
    <3>1. fs[p] # "valve" \/ p \in {"OSInstallDir", "OSDatalinkDir"}
      BY <2>3 DEF Directory
    <3>2. (p # t \/ fs[t] # "valve") /\ p # VS[t]
      BY <2>1, <2>3, <3>1 DEF Target
    <3>3. CASE fs[t] = "valve"
      BY <2>1, <2>3, <3>2, <3>3 DEF ValveHas
    <3>4. CASE fs[VS[t]] = "valve"
      BY <2>1, <2>3, <3>2, <3>4 DEF ValveHas
    <3>5. QED
      BY <1>1, <3>3, <3>4 DEF ValveHas
  <2>4. ASSUME NEW u \in Target, fs' = [fs EXCEPT ![u] = "absent", ![VS[u]] = fs[u]],
               fs[VS[u]] # "valve"
        PROVE  ValveHas(t)'
    <3>1. CASE u = t
      BY <1>1, <2>1, <2>4, <3>1 DEF ValveHas
    <3>2. CASE u # t
      <4>1. u # VS[t] /\ VS[u] # t /\ VS[u] # VS[t]
        BY <3>2, Paths DEF Target
      <4>2. QED
        BY <1>1, <2>1, <2>4, <3>2, <4>1, Paths DEF ValveHas, Target
    <3>3. QED
      BY <3>1, <3>2
  <2>5. QED
    BY <1>1, <2>2, <2>3, <2>4, FsSteps DEF vars
<1>2. BootInv /\ [Next]_vars => (\A t \in Target : ValveHas(t) => ValveHas(t)')
  BY <1>1
<1>3. QED
  BY <1>2, BootAlways, PTL DEF Spec, ValveFilesSurvive
=============================================================================
