---------------------------- MODULE GameWindow ----------------------------
(***************************************************************************)
(* The pane of the selected game in the MainWindow                         *)
(* (gui/windows/mainwindow.cpp), its LaunchOptionsDialog, the              *)
(* InstallGameDialogs and a SettingsWindow's uninstall button.             *)
(*                                                                         *)
(* All of them ask an App (interop/app.cpp) to act, and an App reports     *)
(* whatever it did by ONE signal, AppLaunchOrUpdateError.  The listeners   *)
(* connect when they ask; Qt runs the slots in the order they connected,   *)
(* and each slot waits for its message box before it disconnects.          *)
(*                                                                         *)
(* Definitions whose comment begins with "Without" or "Wrong" are variants *)
(* with a plausible bug.                                                   *)
(***************************************************************************)
EXTENDS Naturals, Sequences, FiniteSets, SequencesExt, Subsequence

CONSTANTS Games,         \* the apps in the game list
          GameStates,    \* the sets of EAppState flags steamclient may report
          MaxGameStates, \* bound: times steamclient changes a game's state
          MaxInstalls,   \* bound: InstallGameDialogs opened
          MaxCalls       \* bound: Launch, Install and Uninstall calls

ASSUME GameWindowAssumption ==
    /\ IsFiniteSet(Games) /\ IsFiniteSet(GameStates)
    /\ MaxGameStates \in Nat /\ MaxInstalls \in Nat /\ MaxCalls \in Nat

VARIABLES appInstallState, \* what steamclient would say of each game
          stateChanges,    \* how often it has changed
          appState,        \* App::state: what it said at the last UpdateAppState
          selectedApp,     \* MainWindow::selectedApp
          playButton,      \* the play button's text
          listeners,       \* slots connected to each App's AppLaunchOrUpdateError
          launchDialog,    \* the game the LaunchOptionsDialog was opened for
          installDialogs,  \* the InstallGameDialogs, in the order they were made
          calls,           \* how many calls were made
          report           \* the last call and the boxes its error has shown

gameWindowVars == <<appInstallState, stateChanges, appState, selectedApp, playButton,
                    listeners, launchDialog, installDialogs, calls, report>>

NoGame == "no game"
MainSlot == 0                        \* MainWindow::launchFailed
InstallSlot == 1..MaxInstalls        \* InstallGameDialog::installFailed of that dialog
SettingsAsker == MaxInstalls + 1     \* a SettingsWindow, which connects nothing
Slot == {MainSlot} \cup InstallSlot

\* boxes: the slots that showed a box for this call's error; waiting: those still
\* to run.  The first of waiting shows its box now.
NoReport == [call |-> "none", game |-> NoGame, asker |-> MainSlot, err |-> FALSE,
             boxes |-> <<>>, waiting |-> <<>>]

GameWindowInit ==
    /\ appInstallState \in [Games -> GameStates]
    /\ stateChanges = 0
    /\ appState = appInstallState
    /\ selectedApp = NoGame
    /\ playButton = "none"
    /\ listeners = [g \in Games |-> <<>>]
    /\ launchDialog = NoGame
    /\ installDialogs = <<>>
    /\ calls = 0
    /\ report = NoReport

\* A message box is application modal; a LaunchOptionsDialog is window modal
\* and blocks the main window and that window's other dialogs.
NoBox == report.waiting = <<>>

\* Without the modality of the LaunchOptionsDialog.
UnblockedByDialog == NoBox

Unblocked == NoBox /\ launchDialog = NoGame

\* steamclient runs, updates and removes games by itself and when asked.
StateChanges(g, s) ==
    /\ stateChanges < MaxGameStates
    /\ appInstallState[g] # s
    /\ appInstallState' = [appInstallState EXCEPT ![g] = s]
    /\ stateChanges' = stateChanges + 1
    /\ UNCHANGED <<appState, selectedApp, playButton, listeners, launchDialog,
                   installDialogs, calls, report>>

-----------------------------------------------------------------------------
(* App: one call and its signal *)

\* The call's error err goes to the slots connected now; a slot returns at once
\* when there is none.  UpdateAppState runs behind the last slot.
EmitError(call, g, asker, slots, err) ==
    /\ calls < MaxCalls
    /\ calls' = calls + 1
    /\ report' = [call |-> call, game |-> g, asker |-> asker, err |-> err, boxes |-> <<>>,
                  waiting |-> IF err THEN slots ELSE <<>>]
    /\ appState' = IF err /\ slots # <<>> THEN appState
                   ELSE [appState EXCEPT ![g] = appInstallState[g]]
    /\ UNCHANGED <<appInstallState, stateChanges>>

\* Without disconnecting all: only the connection that ran goes.
CloseErrorBoxKeepingRest ==
    LET me == Head(report.waiting)
        g == report.game
    IN  /\ ~NoBox
        /\ report' = [report EXCEPT !.boxes = Append(@, me), !.waiting = Tail(@)]
        /\ listeners' = [listeners EXCEPT ![g] = Tail(@)]
        /\ installDialogs' = IF me = MainSlot THEN installDialogs
                             ELSE [installDialogs EXCEPT ![me].page = 0]
        /\ appState' = [appState EXCEPT ![g] = appInstallState[g]]
        /\ UNCHANGED <<appInstallState, stateChanges, selectedApp, playButton, launchDialog, calls>>

\* The box is closed and the slot disconnects its receiver from the signal: all
\* of the receiver's connections go, and those still to run are skipped.
CloseErrorBox ==
    LET me == Head(report.waiting)
        rest == Without(Tail(report.waiting), me)
        g == report.game
    IN  /\ ~NoBox
        /\ report' = [report EXCEPT !.boxes = Append(@, me), !.waiting = rest]
        /\ listeners' = [listeners EXCEPT ![g] = Without(@, me)]
        /\ installDialogs' = IF me = MainSlot THEN installDialogs
                             ELSE [installDialogs EXCEPT ![me].page = 0]
        /\ appState' = IF rest = <<>> THEN [appState EXCEPT ![g] = appInstallState[g]]
                                      ELSE appState
        /\ UNCHANGED <<appInstallState, stateChanges, selectedApp, playButton, launchDialog, calls>>

-----------------------------------------------------------------------------
(* MainWindow *)

\* UpdatePlayButton: the first flag that applies.  Each text connects the click
\* to its slot, in place of the slot before it.
ButtonText(flags) ==
    IF "AppRunning" \in flags THEN "Stop"
    ELSE IF "UpdateRunning" \in flags THEN "Updating"
    ELSE IF flags \cap {"UpdateRequired", "UpdatePaused"} # {} THEN "Update"
    ELSE IF "Uninstalled" \in flags THEN "Install"
    ELSE IF "FullyInstalled" \in flags THEN "Play"
    ELSE "AppState"

currentItemChanged(g) ==
    /\ Unblocked
    /\ selectedApp' = g
    /\ playButton' = ButtonText(appState[g])
    /\ UNCHANGED <<appInstallState, stateChanges, appState, listeners, launchDialog,
                   installDialogs, calls, report>>

\* ShutdownApp, and UpdateAppState: the button keeps its text.
stopClicked ==
    /\ Unblocked /\ playButton = "Stop"
    /\ appState' = [appState EXCEPT ![selectedApp] = appInstallState[selectedApp]]
    /\ UNCHANGED <<appInstallState, stateChanges, selectedApp, playButton, listeners,
                   launchDialog, installDialogs, calls, report>>

\* options: how many of the game's launch options are left after the filter.
\* The box that says there is none comes before the slot is connected all the same.
playClicked(options, err) ==
    LET heard == Append(listeners[selectedApp], MainSlot)
    IN  /\ Unblocked /\ playButton = "Play"
        /\ Len(listeners[selectedApp]) < MaxCalls
        /\ listeners' = [listeners EXCEPT ![selectedApp] = heard]
        /\ IF options = 1
           THEN /\ launchDialog' = launchDialog
                /\ EmitError("Launch", selectedApp, MainSlot, heard, err)
           ELSE /\ launchDialog' = IF options > 1 THEN selectedApp ELSE NoGame
                /\ UNCHANGED <<appInstallState, stateChanges, appState, calls, report>>
        /\ UNCHANGED <<selectedApp, playButton, installDialogs>>

\* The dialog's OnOptionSelected; its option is launched for selectedApp.
launchOptionsDialog_optionSelected(err) ==
    /\ NoBox /\ launchDialog # NoGame
    /\ launchDialog' = NoGame
    /\ EmitError("Launch", selectedApp, MainSlot, listeners[selectedApp], err)
    /\ UNCHANGED <<selectedApp, playButton, listeners, installDialogs>>

launchOptionsDialog_cancelled ==
    /\ NoBox /\ launchDialog # NoGame
    /\ launchDialog' = NoGame
    /\ UNCHANGED <<appInstallState, stateChanges, appState, selectedApp, playButton,
                   listeners, installDialogs, calls, report>>

-----------------------------------------------------------------------------
(* InstallGameDialog and SettingsWindow *)

\* The wizard: page 0 has the library folders, page 1 is the last.  It is not
\* modal, keeps its App, and is never deleted.
installClicked ==
    /\ Unblocked /\ playButton = "Install"
    /\ Len(installDialogs) < MaxInstalls
    /\ installDialogs' = Append(installDialogs, [app |-> selectedApp, page |-> 0, open |-> TRUE])
    /\ UNCHANGED <<appInstallState, stateChanges, appState, selectedApp, playButton,
                   listeners, launchDialog, calls, report>>

\* Next, with a library folder chosen (without one the wizard goes back to page
\* 0).  The last page has no Back: only an error leads to page 0 again.
currentIdChanged(d, err) ==
    LET g == installDialogs[d].app
        heard == Append(listeners[g], d)
    IN  /\ Unblocked
        /\ installDialogs[d].open /\ installDialogs[d].page = 0
        /\ installDialogs' = [installDialogs EXCEPT ![d].page = 1]
        /\ listeners' = [listeners EXCEPT ![g] = heard]
        /\ EmitError("Install", g, d, heard, err)
        /\ UNCHANGED <<selectedApp, playButton, launchDialog>>

\* Cancel on page 0 or Finish: the dialog is hidden, its connections stay.
closeInstallDialog(d) ==
    /\ Unblocked /\ installDialogs[d].open
    /\ installDialogs' = [installDialogs EXCEPT ![d].open = FALSE]
    /\ UNCHANGED <<appInstallState, stateChanges, appState, selectedApp, playButton,
                   listeners, launchDialog, calls, report>>

on_uninstallBtn_clicked(g, err) ==
    /\ Unblocked
    /\ EmitError("Uninstall", g, SettingsAsker, listeners[g], err)
    /\ UNCHANGED <<selectedApp, playButton, listeners, launchDialog, installDialogs>>

GameWindowNext ==
    \/ \E g \in Games, s \in GameStates : StateChanges(g, s)
    \/ CloseErrorBox
    \/ \E g \in Games : currentItemChanged(g)
    \/ stopClicked
    \/ \E options \in 0..2, err \in BOOLEAN : playClicked(options, err)
    \/ \E err \in BOOLEAN : launchOptionsDialog_optionSelected(err)
    \/ launchOptionsDialog_cancelled
    \/ installClicked
    \/ \E d \in DOMAIN installDialogs, err \in BOOLEAN : currentIdChanged(d, err)
    \/ \E d \in DOMAIN installDialogs : closeInstallDialog(d)
    \/ \E g \in Games, err \in BOOLEAN : on_uninstallBtn_clicked(g, err)

GameWindowSpec == GameWindowInit /\ [][GameWindowNext]_gameWindowVars

-----------------------------------------------------------------------------
(* Properties *)

GameWindowTypeOK ==
    /\ appInstallState \in [Games -> GameStates] /\ appState \in [Games -> GameStates]
    /\ stateChanges \in 0..MaxGameStates
    /\ selectedApp \in Games \cup {NoGame} /\ launchDialog \in Games \cup {NoGame}
    /\ playButton \in {"none", "Stop", "Updating", "Update", "Install", "Play", "AppState"}
    /\ listeners \in [Games -> Seq(Slot)]
    /\ installDialogs \in Seq([app : Games, page : 0..1, open : BOOLEAN])
    /\ Len(installDialogs) <= MaxInstalls
    /\ calls \in 0..MaxCalls
    /\ report \in [call : {"none", "Launch", "Install", "Uninstall"}, game : Games \cup {NoGame},
                   asker : Slot \cup {SettingsAsker}, err : BOOLEAN,
                   boxes : Seq(Slot), waiting : Seq(Slot)]

\* Connections pile up: every Play adds one and only an error takes them away.
\* Still, an error of Launch or Install is told exactly once by the one who
\* asked, whatever was played, installed and closed before, and an
\* InstallGameDialog is then back where a folder is chosen
\* (mainwindow.cpp:669, installgamedialog.cpp:108).
AskerTellsOnce ==
    report.err /\ NoBox /\ report.asker # SettingsAsker =>
        /\ Cardinality({i \in DOMAIN report.boxes : report.boxes[i] = report.asker}) = 1
        /\ report.call = "Install" => installDialogs[report.asker].page = 0

\* The option chosen in a LaunchOptionsDialog is one of the game that is
\* launched: nothing selects another game while the dialog is open
\* (launchOptionsDialog_optionSelected launches selectedApp).
LaunchesWhatWasChosen == launchDialog # NoGame => launchDialog = selectedApp
=============================================================================
