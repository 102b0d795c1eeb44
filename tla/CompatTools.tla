---------------------------- MODULE CompatTools ----------------------------
(***************************************************************************)
(* The tools that run Windows games: the default one, in the               *)
(* AppSettingsWindow (gui/windows/appsettingswindow.cpp), and a game's, in *)
(* its SettingsWindow (gui/windows/settingswindow.cpp).  Both windows fill *)
(* a combo box, and a combo box that gets its first item selects it and    *)
(* says so: in one window the slot hears that, in the other the signals    *)
(* are blocked.  The windows are not modal and each click on their button  *)
(* makes another one (gui/windows/mainwindow.cpp), of which the older do   *)
(* not hear of what the newer change.                                      *)
(*                                                                         *)
(* Definitions whose comment begins with "Without" or "Wrong" are variants *)
(* with a plausible bug.                                                   *)
(***************************************************************************)
EXTENDS Naturals, Sequences, FiniteSets, SequencesExt

CONSTANTS WindowsTools,     \* names of the tools that run Windows games on Linux
          MaxToolChanges,   \* bound: times a tool is chosen or a window is opened
          MaxToolWindows    \* bound: windows opened of each of the two kinds

ASSUME CompatToolsAssumption ==
    IsFiniteSet(WindowsTools) /\ MaxToolChanges \in Nat /\ MaxToolWindows \in Nat

VARIABLES compatLayer,    \* steamclient: the compatibility layer is enabled
          compatTools,    \* AppManager::compatTools, those that run Windows games
          defaultTool,    \* GetCompatToolName(0), NoTool when none was ever chosen
          gameTool,       \* GetCompatToolName of the game
          defaultBoxes,   \* the boxes of the AppSettingsWindows, in the order they opened
          gameBoxes,      \* the boxes of the game's SettingsWindows, in that order
          lastDefault,    \* the AppSettingsWindow that was opened or used last, 0 for none
          lastGame,       \* the SettingsWindow that was opened or used last, 0 for none
          toolChanges     \* counts towards MaxToolChanges

defaultVars == <<defaultTool, defaultBoxes, lastDefault>>
gameVars == <<gameTool, gameBoxes, lastGame>>
compatVars == <<compatLayer, compatTools, defaultVars, gameVars, toolChanges>>

NoTool == ""
\* An empty box has index 0 here (-1 in Qt): items[index] is what it shows.
EmptyBox == [items |-> <<>>, index |-> 0, visible |-> FALSE]
Shown(box) == box.items[box.index]

CompatInit ==
    /\ compatLayer \in BOOLEAN
    /\ compatTools \in SetToAllKPermutations(WindowsTools)
    /\ defaultTool \in WindowsTools \cup {NoTool}
    /\ gameTool \in WindowsTools \cup {NoTool}
    /\ defaultBoxes = <<>> /\ gameBoxes = <<>>
    /\ lastDefault = 0 /\ lastGame = 0
    /\ toolChanges = 0

Counts == toolChanges < MaxToolChanges /\ toolChanges' = toolChanges + 1

\* MainWindow::openSettings and on_settingsButton_clicked: one window more.
OpensDefault(box) ==
    /\ Len(defaultBoxes) < MaxToolWindows
    /\ defaultBoxes' = Append(defaultBoxes, box)
    /\ lastDefault' = Len(defaultBoxes) + 1

OpensGame(box) ==
    /\ Len(gameBoxes) < MaxToolWindows
    /\ gameBoxes' = Append(gameBoxes, box)
    /\ lastGame' = Len(gameBoxes) + 1

-----------------------------------------------------------------------------
(* AppSettingsWindow *)

FilledBox == [items |-> compatTools, index |-> 1, visible |-> TRUE]

\* With the signals blocked, and the tool chosen that is the default: its name
\* is looked for among texts that are the tools' human names, and is not found.
LoadCompatDataSilently ==
    /\ Counts
    /\ OpensDefault(IF compatLayer /\ compatTools # <<>> THEN FilledBox ELSE EmptyBox)
    /\ UNCHANGED <<compatLayer, compatTools, defaultTool, gameVars>>

\* A window opens.  The first item that comes into the box is selected, and
\* on_defaultWOLCompatTool_currentIndexChanged makes it the default tool; the
\* default that is asked for after that is this one.
LoadCompatData ==
    LET filled == compatLayer /\ compatTools # <<>>
    IN  /\ Counts
        /\ OpensDefault(IF filled THEN FilledBox ELSE EmptyBox)
        /\ defaultTool' = IF filled THEN compatTools[1] ELSE defaultTool
        /\ UNCHANGED <<compatLayer, compatTools, gameVars>>

on_defaultWOLCompatTool_currentIndexChanged(w, i) ==
    /\ Counts
    /\ i # defaultBoxes[w].index
    /\ defaultBoxes' = [defaultBoxes EXCEPT ![w].index = i]
    /\ lastDefault' = w
    /\ defaultTool' = defaultBoxes[w].items[i]
    /\ UNCHANGED <<compatLayer, compatTools, gameVars>>

\* The boxes stay as they are.
on_enableCompatToolsCheck_stateChanged(enable) ==
    /\ Counts
    /\ compatLayer' = enable
    /\ UNCHANGED <<compatTools, defaultVars, gameVars>>

-----------------------------------------------------------------------------
(* SettingsWindow *)

\* PopulateCompatTools, with the tools allowed for the game.  The game's tool is
\* shown when it is one of them, the first one otherwise.
PopulateCompatTools(allowed) ==
    [items |-> allowed, visible |-> TRUE,
     index |-> CASE gameTool \in ToSet(allowed) -> SelectInSeq(allowed, LAMBDA t : t = gameTool)
                 [] allowed = <<>> -> 0
                 [] OTHER -> 1]

\* A window opens: GetCompatEnabled says whether the game has a tool.
openGameSettings(allowed) ==
    /\ Counts
    /\ OpensGame(IF gameTool # NoTool THEN PopulateCompatTools(allowed) ELSE EmptyBox)
    /\ UNCHANGED <<compatLayer, compatTools, defaultVars, gameTool>>

\* The box appears and shows a tool, but only choosing another one sets a tool.
on_enableProtonBox_stateChanged(w, enable, allowed) ==
    /\ Counts
    /\ gameBoxes[w].visible # enable
    /\ gameBoxes' = [gameBoxes EXCEPT ![w] =
                       IF enable THEN PopulateCompatTools(allowed)
                                 ELSE [gameBoxes[w] EXCEPT !.visible = FALSE]]
    /\ lastGame' = w
    /\ gameTool' = IF enable THEN gameTool ELSE NoTool
    /\ UNCHANGED <<compatLayer, compatTools, defaultVars>>

on_compatToolBox_currentIndexChanged(w, i) ==
    /\ Counts
    /\ gameBoxes[w].visible /\ i # gameBoxes[w].index
    /\ gameBoxes' = [gameBoxes EXCEPT ![w].index = i]
    /\ lastGame' = w
    /\ gameTool' = gameBoxes[w].items[i]
    /\ UNCHANGED <<compatLayer, compatTools, defaultVars>>

CompatNext ==
    \/ LoadCompatData
    \/ \E w \in DOMAIN defaultBoxes : \E i \in DOMAIN defaultBoxes[w].items :
           on_defaultWOLCompatTool_currentIndexChanged(w, i)
    \/ \E enable \in BOOLEAN : on_enableCompatToolsCheck_stateChanged(enable)
    \/ \E allowed \in SetToAllKPermutations(WindowsTools) : openGameSettings(allowed)
    \/ \E w \in DOMAIN gameBoxes, enable \in BOOLEAN,
          allowed \in SetToAllKPermutations(WindowsTools) :
           on_enableProtonBox_stateChanged(w, enable, allowed)
    \/ \E w \in DOMAIN gameBoxes : \E i \in DOMAIN gameBoxes[w].items :
           on_compatToolBox_currentIndexChanged(w, i)

CompatSpec == CompatInit /\ [][CompatNext]_compatVars

-----------------------------------------------------------------------------
(* Properties *)

CompatTypeOK ==
    /\ compatLayer \in BOOLEAN
    /\ compatTools \in Seq(WindowsTools)
    /\ defaultTool \in WindowsTools \cup {NoTool} /\ gameTool \in WindowsTools \cup {NoTool}
    /\ {defaultBoxes, gameBoxes} \subseteq
           Seq([items : Seq(WindowsTools), index : Nat, visible : BOOLEAN])
    /\ lastDefault \in 0..Len(defaultBoxes) /\ lastGame \in 0..Len(gameBoxes)
    /\ toolChanges \in 0..MaxToolChanges

\* Of several windows that stand side by side, the one that was opened or used
\* last shows the tool that is used, whatever was chosen in the others before:
\* the default tool, which a window makes so by overwriting the default as it
\* opens (appsettingswindow.cpp:73), and a game's, once it has one that is
\* allowed for it (a game without one is shown the first; settingswindow.cpp:92).
\* The windows behind it may still show another.
LastUsedShowsTool ==
    /\ lastDefault # 0 /\ defaultBoxes[lastDefault].visible
           => Shown(defaultBoxes[lastDefault]) = defaultTool
    /\ lastGame # 0 /\ gameBoxes[lastGame].visible
                    /\ gameTool \in ToSet(gameBoxes[lastGame].items)
           => Shown(gameBoxes[lastGame]) = gameTool
=============================================================================
