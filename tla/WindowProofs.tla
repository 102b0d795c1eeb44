--------------------------- MODULE WindowProofs ---------------------------
(***************************************************************************)
(* Theorems about the windows: GameWindow, WebTabs, Folders and            *)
(* CompatTools, for any games, kinds of pages, folders and tools, and      *)
(* numbers of dialogs, tabs, calls and changes.                            *)
(***************************************************************************)
EXTENDS GameWindow, WebTabs, Folders, CompatTools, SubsequenceProofs

(***************************************************************************)
(* GameWindow. The slots that still wait to tell of an error and those     *)
(* that told it have none in common, and the one who asked is among the    *)
(* first or was told once (ErrorIsTold); an option that is chosen later    *)
(* finds the main window connected (DialogIsHeard).                        *)
(***************************************************************************)

Report == [call : {"none", "Launch", "Install", "Uninstall"}, game : Games \cup {NoGame},
           asker : Slot \cup {SettingsAsker}, err : BOOLEAN,
           boxes : Seq(Slot), waiting : Seq(Slot)]

Dialog == [app : Games, page : 0..1, open : BOOLEAN]

\* The slots that exist: the main window's and those of the dialogs made so far.
MadeSlots == {MainSlot} \cup 1..Len(installDialogs)

ButtonHasGame == playButton # "none" => selectedApp \in Games

\* While a LaunchOptionsDialog is open no box is, and the main window hears
\* what becomes of the option.
DialogIsHeard == launchDialog # NoGame => NoBox /\ MainSlot \in ToSet(listeners[launchDialog])

ListenersExist == \A g \in Games : ToSet(listeners[g]) \subseteq MadeSlots

OnceIn(boxes, slot) == \E i \in DOMAIN boxes : \A j \in DOMAIN boxes : boxes[j] = slot <=> j = i

\* What an error has shown and will show: one who asked is still to be told, or
\* was told once.
ErrorIsTold(r) ==
    /\ ToSet(r.boxes) \cap ToSet(r.waiting) = {}
    /\ r.err => r.asker = SettingsAsker \/ r.asker \in ToSet(r.waiting) \/ OnceIn(r.boxes, r.asker)

\* A dialog that asked and was told is on page 0.
ToldDialogIsBack(r, dialogs) ==
    r.call = "Install" =>
        /\ r.asker \in DOMAIN dialogs
        /\ r.err /\ r.asker \notin ToSet(r.waiting) => dialogs[r.asker].page = 0

PaneInv ==
    /\ GameWindowTypeOK /\ ButtonHasGame /\ LaunchesWhatWasChosen /\ DialogIsHeard
    /\ ListenersExist /\ ToSet(report.waiting) \subseteq MadeSlots
    /\ ErrorIsTold(report) /\ ToldDialogIsBack(report, installDialogs)

LEMMA PaneTypes ==
    ASSUME PaneInv
    PROVE  /\ appState \in [Games -> GameStates] /\ appInstallState \in [Games -> GameStates]
           /\ listeners \in [Games -> Seq(Slot)] /\ installDialogs \in Seq(Dialog)
           /\ DOMAIN installDialogs = 1..Len(installDialogs) /\ Len(installDialogs) \in Nat
           /\ Len(installDialogs) <= MaxInstalls
           /\ report \in Report /\ calls \in 0..MaxCalls
           /\ selectedApp \in Games \cup {NoGame} /\ launchDialog \in Games \cup {NoGame}
BY DEF PaneInv, GameWindowTypeOK, Dialog, Report

LEMMA MadeSlotsAreSlots == ASSUME PaneInv PROVE MadeSlots \subseteq Slot
BY PaneTypes, GameWindowAssumption DEF MadeSlots, Slot, InstallSlot, MainSlot

LEMMA PaneInit == GameWindowInit => PaneInv
<1> SUFFICES ASSUME GameWindowInit PROVE PaneInv
  OBVIOUS
<1> USE DEF GameWindowInit
<1>1. report \in Report /\ installDialogs \in Seq(Dialog) /\ Len(installDialogs) = 0
  BY DEF NoReport, Report, Slot
<1>2. /\ 0 <= MaxInstalls /\ calls \in 0..MaxCalls /\ stateChanges \in 0..MaxGameStates
      /\ listeners \in [Games -> Seq(Slot)]
  BY GameWindowAssumption
<1>3. GameWindowTypeOK
  BY <1>1, <1>2 DEF GameWindowTypeOK, Report, Dialog
<1>4. ToSet(report.waiting) = {} /\ ToSet(report.boxes) = {} /\ \A g \in Games : ToSet(listeners[g]) = {}
  BY DEF NoReport, ToSet
<1>5. report.err = FALSE /\ report.call = "none"
  BY DEF NoReport
<1>6. ButtonHasGame /\ LaunchesWhatWasChosen /\ DialogIsHeard
  BY DEF ButtonHasGame, LaunchesWhatWasChosen, DialogIsHeard
<1>7. QED
  BY <1>3, <1>4, <1>5, <1>6 DEF PaneInv, ListenersExist, ErrorIsTold, ToldDialogIsBack

Emitted(call, asker, slots, err) ==
    /\ appState' \in [Games -> GameStates] /\ calls' \in 0..MaxCalls /\ report' \in Report
    /\ report'.call = call /\ report'.asker = asker /\ report'.err = err
    /\ ToSet(report'.waiting) \subseteq ToSet(slots) /\ (err => report'.waiting = slots)
    /\ ErrorIsTold(report')
    /\ UNCHANGED <<appInstallState, stateChanges>>

\* A call whose error goes to one who hears it is told of rightly.
LEMMA EmitIs ==
    ASSUME PaneInv, NEW call \in {"Launch", "Install", "Uninstall"}, NEW g \in Games,
           NEW asker \in Slot \cup {SettingsAsker}, NEW slots \in Seq(Slot), NEW err \in BOOLEAN,
           asker = SettingsAsker \/ asker \in ToSet(slots),
           EmitError(call, g, asker, slots, err)
    PROVE  Emitted(call, asker, slots, err)
<1> DEFINE waiting == IF err THEN slots ELSE <<>>
<1>1. /\ calls < MaxCalls /\ calls' = calls + 1
      /\ report' = [call |-> call, game |-> g, asker |-> asker, err |-> err, boxes |-> <<>>,
                    waiting |-> waiting]
      /\ UNCHANGED <<appInstallState, stateChanges>>
  BY DEF EmitError
<1>2. appState' \in [Games -> GameStates]
  <2>1. appState' = appState \/ appState' = [appState EXCEPT ![g] = appInstallState[g]]
    BY DEF EmitError
  <2>2. QED
    BY <2>1, PaneTypes
<1>3. calls' \in 0..MaxCalls
  BY <1>1, PaneTypes, GameWindowAssumption
<1>4. waiting \in Seq(Slot)
  OBVIOUS
<1>5. ToSet(<<>>) = {}
  BY DEF ToSet
<1>6. ToSet(waiting) \subseteq ToSet(slots) /\ (err => waiting = slots)
  BY <1>5
<1> HIDE DEF waiting
<1>7. report' \in Report
  BY <1>1, <1>4 DEF Report
<1>8. ErrorIsTold(report')
  <2>1. ToSet(report'.boxes) = {} /\ report'.waiting = waiting /\ report'.asker = asker
    BY <1>1, <1>5
  <2>2. report'.err = err
    BY <1>1
  <2>3. QED
    BY <1>6, <2>1, <2>2 DEF ErrorIsTold
<1>9. report'.err = err
  BY <1>1
<1>10. report'.call = call /\ report'.asker = asker /\ report'.waiting = waiting
  BY <1>1
<1>11. QED
  BY <1>1, <1>2, <1>3, <1>6, <1>7, <1>8, <1>9, <1>10 DEF Emitted

LEMMA StateKeeps ==
    ASSUME PaneInv, NEW g \in Games, NEW s \in GameStates, StateChanges(g, s) PROVE PaneInv'
<1>1. /\ appInstallState' \in [Games -> GameStates] /\ stateChanges' \in 0..MaxGameStates
      /\ UNCHANGED <<appState, selectedApp, playButton, listeners, launchDialog,
                     installDialogs, calls, report>>
  BY GameWindowAssumption DEF StateChanges, PaneInv, GameWindowTypeOK
<1>2. QED
  BY <1>1 DEF PaneInv, GameWindowTypeOK, ButtonHasGame, LaunchesWhatWasChosen, DialogIsHeard,
              ListenersExist, MadeSlots, NoBox

\* One box more, and its receiver's slots are gone from those that wait.
BoxShown(r, new, me) ==
    /\ new \in Report /\ new.boxes = Append(r.boxes, me) /\ new.waiting \in Seq(Slot)
    /\ ToSet(new.waiting) = ToSet(r.waiting) \ {me}
    /\ new.call = r.call /\ new.asker = r.asker /\ new.err = r.err

LEMMA CloseBoxIs ==
    ASSUME NEW r \in Report, r.waiting # <<>>
    PROVE  LET me == Head(r.waiting)
               new == [r EXCEPT !.boxes = Append(@, me), !.waiting = Without(Tail(r.waiting), me)]
           IN  me \in Slot /\ me \in ToSet(r.waiting) /\ BoxShown(r, new, me)
<1> DEFINE me == Head(r.waiting)
           rest == Without(Tail(r.waiting), me)
           boxes == Append(r.boxes, me)
           new == [r EXCEPT !.boxes = boxes, !.waiting = rest]
<1>1. r.waiting \in Seq(Slot) /\ r.boxes \in Seq(Slot)
  BY DEF Report
<1>2. me \in Slot /\ Tail(r.waiting) \in Seq(Slot) /\ boxes \in Seq(Slot)
  BY <1>1
<1>3. rest \in Seq(Slot) /\ ToSet(rest) = ToSet(Tail(r.waiting)) \ {me}
  BY <1>2, WithoutIs
<1>4. ToSet(r.waiting) = {me} \cup ToSet(Tail(r.waiting))
  BY <1>1, <1>2, ToSetOfParts
<1> HIDE DEF rest, boxes
<1>5. new \in Report /\ new.boxes = boxes /\ new.waiting = rest /\ new.call = r.call
      /\ new.asker = r.asker
  BY <1>2, <1>3 DEF Report
<1>6. new.err = r.err
  BY DEF Report
<1>7. BoxShown(r, new, me)
  BY <1>3, <1>4, <1>5, <1>6 DEF BoxShown, boxes
<1>8. QED
  BY <1>2, <1>4, <1>7 DEF rest, boxes

\* A slot's box is a box more, and the only one of that slot.
LEMMA OnceMore ==
    ASSUME NEW boxes \in Seq(Slot), NEW me, NEW slot
    PROVE  /\ ToSet(Append(boxes, me)) = ToSet(boxes) \cup {me}
           /\ slot # me /\ OnceIn(boxes, slot) => OnceIn(Append(boxes, me), slot)
           /\ slot = me /\ slot \notin ToSet(boxes) => OnceIn(Append(boxes, me), slot)
<1> DEFINE more == Append(boxes, me)
           n == Len(boxes) + 1
<1>1. /\ DOMAIN boxes = 1..Len(boxes) /\ Len(boxes) \in Nat /\ DOMAIN more = 1..n
      /\ more[n] = me /\ \A i \in 1..Len(boxes) : more[i] = boxes[i]
  OBVIOUS
<1>2. \A i \in 1..n : i \in 1..Len(boxes) \/ i = n
  BY <1>1
<1>3. n \in 1..n /\ 1..Len(boxes) \subseteq 1..n /\ n \notin 1..Len(boxes)
  BY <1>1
<1> HIDE DEF more, n
<1>4. ToSet(more) = ToSet(boxes) \cup {me}
  BY <1>1, <1>2, <1>3, Zenon DEF ToSet
<1>5. ASSUME slot # me, OnceIn(boxes, slot) PROVE OnceIn(more, slot)
  BY <1>1, <1>2, <1>3, <1>5 DEF OnceIn
<1>6. ASSUME slot = me, slot \notin ToSet(boxes) PROVE OnceIn(more, slot)
  BY <1>1, <1>2, <1>3, <1>6 DEF OnceIn, ToSet
<1>7. QED
  BY <1>4, <1>5, <1>6 DEF more

LEMMA BoxKeepsTold ==
    ASSUME NEW r \in Report, NEW new, NEW me \in Slot, me \in ToSet(r.waiting),
           BoxShown(r, new, me), ErrorIsTold(r)
    PROVE  ErrorIsTold(new)
<1>1. r.boxes \in Seq(Slot)
  BY DEF Report
<1>2. ToSet(new.boxes) = ToSet(r.boxes) \cup {me}
  BY <1>1, OnceMore DEF BoxShown
<1>3. me \notin ToSet(r.boxes)
  BY DEF ErrorIsTold
<1>4. CASE r.asker = me
  <2>1. OnceIn(new.boxes, r.asker)
    BY <1>1, <1>3, <1>4, OnceMore DEF BoxShown
  <2>2. QED
    BY <1>2, <2>1 DEF ErrorIsTold, BoxShown
<1>5. CASE r.asker # me
  <2>1. OnceIn(r.boxes, r.asker) => OnceIn(new.boxes, r.asker)
    BY <1>1, <1>5, OnceMore DEF BoxShown
  <2>2. QED
    BY <1>2, <1>5, <2>1 DEF ErrorIsTold, BoxShown
<1>6. QED
  BY <1>4, <1>5

LEMMA CloseKeeps == ASSUME PaneInv, CloseErrorBox PROVE PaneInv'
<1> DEFINE me == Head(report.waiting)
           rest == Without(Tail(report.waiting), me)
           g == report.game
<1>1. /\ ~NoBox /\ report.waiting # <<>>
      /\ report' = [report EXCEPT !.boxes = Append(@, me), !.waiting = rest]
      /\ listeners' = [listeners EXCEPT ![g] = Without(@, me)]
      /\ installDialogs' = IF me = MainSlot THEN installDialogs
                           ELSE [installDialogs EXCEPT ![me].page = 0]
      /\ appState' = IF rest = <<>> THEN [appState EXCEPT ![g] = appInstallState[g]]
                                    ELSE appState
      /\ UNCHANGED <<appInstallState, stateChanges, selectedApp, playButton, launchDialog, calls>>
  BY DEF CloseErrorBox, NoBox
<1>2. me \in Slot /\ me \in ToSet(report.waiting) /\ BoxShown(report, report', me)
  BY <1>1, PaneTypes, CloseBoxIs
<1> HIDE DEF me, rest
<1>3. launchDialog = NoGame
  BY <1>1 DEF PaneInv, DialogIsHeard
<1>4. me \in MadeSlots
  BY <1>2 DEF PaneInv
<1>5. me # MainSlot => me \in 1..Len(installDialogs)
  BY <1>4 DEF MadeSlots
<1>6. /\ installDialogs' \in Seq(Dialog) /\ Len(installDialogs') = Len(installDialogs)
      /\ DOMAIN installDialogs' = 1..Len(installDialogs)
      /\ \A d \in 1..Len(installDialogs) :
            installDialogs'[d].page = IF d = me /\ me # MainSlot THEN 0 ELSE installDialogs[d].page
  <2>1. CASE me = MainSlot
    BY <1>1, <2>1, PaneTypes
  <2>2. CASE me # MainSlot
    <3>1. installDialogs' = [installDialogs EXCEPT ![me] = [installDialogs[me] EXCEPT !.page = 0]]
      BY <1>1, <2>2
    <3>2. installDialogs[me] \in Dialog
      BY <1>5, <2>2, PaneTypes
    <3>3. [installDialogs[me] EXCEPT !.page = 0] \in Dialog
          /\ [installDialogs[me] EXCEPT !.page = 0].page = 0
      BY <3>2 DEF Dialog
    <3>4. QED
      BY <1>5, <2>2, <3>1, <3>3, PaneTypes
  <2>3. QED
    BY <2>1, <2>2
<1>7. /\ listeners' \in [Games -> Seq(Slot)]
      /\ \A h \in Games : ToSet(listeners'[h]) \subseteq ToSet(listeners[h])
  <2>1. \A h \in Games : Without(listeners[h], me) \in Seq(Slot)
                         /\ ToSet(Without(listeners[h], me)) \subseteq ToSet(listeners[h])
    BY PaneTypes, WithoutIs
  <2>2. \A h \in Games : listeners'[h] = IF h = g THEN Without(listeners[h], me) ELSE listeners[h]
    BY <1>1, PaneTypes
  <2>3. QED
    BY <1>1, <2>1, <2>2, PaneTypes
<1>8. appState' \in [Games -> GameStates]
  BY <1>1, PaneTypes
<1>9. report' \in Report
  BY <1>2 DEF BoxShown
<1>10. GameWindowTypeOK'
  BY <1>1, <1>6, <1>7, <1>8, <1>9 DEF PaneInv, GameWindowTypeOK, Report, Dialog
<1>11. ButtonHasGame' /\ LaunchesWhatWasChosen' /\ DialogIsHeard'
  BY <1>1, <1>3 DEF PaneInv, ButtonHasGame, LaunchesWhatWasChosen, DialogIsHeard
<1>12. ListenersExist' /\ ToSet(report'.waiting) \subseteq MadeSlots'
  BY <1>2, <1>6, <1>7 DEF PaneInv, ListenersExist, MadeSlots, BoxShown
<1>13. ErrorIsTold(report')
  BY <1>2, PaneTypes, BoxKeepsTold DEF PaneInv
<1>14. ToldDialogIsBack(report', installDialogs')
  <2> SUFFICES ASSUME report.call = "Install"
               PROVE /\ report.asker \in DOMAIN installDialogs'
                     /\ report.err /\ report.asker \notin ToSet(report'.waiting)
                        => installDialogs'[report.asker].page = 0
    BY <1>2 DEF ToldDialogIsBack, BoxShown
  <2>1. /\ report.asker \in 1..Len(installDialogs)
        /\ report.err /\ report.asker \notin ToSet(report.waiting)
           => installDialogs[report.asker].page = 0
    BY PaneTypes DEF PaneInv, ToldDialogIsBack
  <2>2. report.asker # MainSlot
    BY <2>1 DEF MainSlot
  <2>3. CASE report.asker = me
    BY <1>6, <2>1, <2>2, <2>3
  <2>4. CASE report.asker # me
    BY <1>2, <1>6, <2>1, <2>4 DEF BoxShown
  <2>5. QED
    BY <2>3, <2>4
<1>15. QED
  BY <1>10, <1>11, <1>12, <1>13, <1>14 DEF PaneInv

LEMMA ButtonTextIs ==
    ASSUME NEW flags PROVE ButtonText(flags) \in {"Stop", "Updating", "Update", "Install", "Play",
                                                  "AppState"}
BY DEF ButtonText

LEMMA SelectKeeps ==
    ASSUME PaneInv, NEW g \in Games, currentItemChanged(g) PROVE PaneInv'
<1>1. /\ launchDialog = NoGame /\ selectedApp' = g
      /\ playButton' \in {"Stop", "Updating", "Update", "Install", "Play", "AppState"}
      /\ UNCHANGED <<appInstallState, stateChanges, appState, listeners, launchDialog,
                     installDialogs, calls, report>>
  BY ButtonTextIs DEF currentItemChanged, Unblocked
<1>2. GameWindowTypeOK'
  BY <1>1 DEF PaneInv, GameWindowTypeOK
<1>3. QED
  BY <1>1, <1>2 DEF PaneInv, ButtonHasGame, LaunchesWhatWasChosen, DialogIsHeard,
              ListenersExist, MadeSlots

LEMMA StopKeeps == ASSUME PaneInv, stopClicked PROVE PaneInv'
<1>1. /\ appState' = [appState EXCEPT ![selectedApp] = appInstallState[selectedApp]]
      /\ UNCHANGED <<appInstallState, stateChanges, selectedApp, playButton, listeners,
                     launchDialog, installDialogs, calls, report>>
  BY DEF stopClicked
<1>2. appState' \in [Games -> GameStates]
  BY <1>1, PaneTypes
<1>3. QED
  BY <1>1, <1>2 DEF PaneInv, GameWindowTypeOK, ButtonHasGame, LaunchesWhatWasChosen, DialogIsHeard,
                    ListenersExist, MadeSlots, NoBox

\* Another slot hears a game's errors, too.
LEMMA ConnectIs ==
    ASSUME PaneInv, NEW g \in Games, NEW slot \in Slot, slot \in MadeSlots
    PROVE  LET heard == Append(listeners[g], slot)
               new == [listeners EXCEPT ![g] = heard]
           IN  /\ heard \in Seq(Slot) /\ slot \in ToSet(heard) /\ ToSet(heard) \subseteq MadeSlots
               /\ new \in [Games -> Seq(Slot)] /\ new[g] = heard
               /\ \A h \in Games : ToSet(new[h]) \subseteq MadeSlots
<1>1. listeners[g] \in Seq(Slot)
  BY PaneTypes
<1>2. ToSet(Append(listeners[g], slot)) = ToSet(listeners[g]) \cup {slot}
  BY <1>1, ToSetOfParts
<1>3. \A h \in Games : ToSet(listeners[h]) \subseteq MadeSlots
  BY DEF PaneInv, ListenersExist
<1>4. QED
  BY <1>1, <1>2, <1>3, PaneTypes

LEMMA PlayKeeps ==
    ASSUME PaneInv, NEW options \in 0..2, NEW err \in BOOLEAN, playClicked(options, err) PROVE PaneInv'
<1> DEFINE heard == Append(listeners[selectedApp], MainSlot)
<1>1. /\ NoBox /\ launchDialog = NoGame /\ playButton = "Play"
      /\ listeners' = [listeners EXCEPT ![selectedApp] = heard]
      /\ UNCHANGED <<selectedApp, playButton, installDialogs>>
  BY DEF playClicked, Unblocked
<1>2. selectedApp \in Games /\ MainSlot \in MadeSlots /\ MainSlot \in Slot
  BY <1>1 DEF PaneInv, ButtonHasGame, MadeSlots, Slot
<1>3. /\ heard \in Seq(Slot) /\ MainSlot \in ToSet(heard) /\ ToSet(heard) \subseteq MadeSlots
      /\ listeners' \in [Games -> Seq(Slot)] /\ listeners'[selectedApp] = heard
      /\ \A h \in Games : ToSet(listeners'[h]) \subseteq MadeSlots
  BY <1>1, <1>2, ConnectIs
<1>4. MadeSlots' = MadeSlots
  BY <1>1 DEF MadeSlots
<1>5. CASE options = 1
  <2>1. launchDialog' = launchDialog /\ EmitError("Launch", selectedApp, MainSlot, heard, err)
    BY <1>5 DEF playClicked
  <2> HIDE DEF heard
  <2>2. Emitted("Launch", MainSlot, heard, err)
    BY <1>2, <1>3, <2>1, EmitIs
  <2>3. GameWindowTypeOK'
    BY <1>1, <1>3, <2>1, <2>2 DEF PaneInv, GameWindowTypeOK, Emitted, Report
  <2>4. ButtonHasGame' /\ LaunchesWhatWasChosen' /\ DialogIsHeard'
    BY <1>1, <2>1 DEF PaneInv, ButtonHasGame, LaunchesWhatWasChosen, DialogIsHeard
  <2>5. ListenersExist' /\ ToSet(report'.waiting) \subseteq MadeSlots'
    BY <1>3, <1>4, <2>2 DEF ListenersExist, Emitted
  <2>6. ErrorIsTold(report') /\ ToldDialogIsBack(report', installDialogs')
    BY <2>2 DEF Emitted, ToldDialogIsBack
  <2>7. QED
    BY <2>3, <2>4, <2>5, <2>6 DEF PaneInv
<1>6. CASE options # 1
  <2>1. /\ launchDialog' = IF options > 1 THEN selectedApp ELSE NoGame
        /\ UNCHANGED <<appInstallState, stateChanges, appState, calls, report>>
    BY <1>6 DEF playClicked
  <2> HIDE DEF heard
  <2>2. GameWindowTypeOK'
    BY <1>1, <1>2, <1>3, <2>1 DEF PaneInv, GameWindowTypeOK
  <2>3. ButtonHasGame' /\ LaunchesWhatWasChosen' /\ DialogIsHeard'
    BY <1>1, <1>3, <2>1 DEF PaneInv, ButtonHasGame, LaunchesWhatWasChosen, DialogIsHeard, NoBox
  <2>4. QED
    BY <1>1, <1>3, <1>4, <2>1, <2>2, <2>3 DEF PaneInv, ListenersExist
<1>7. QED
  BY <1>5, <1>6

LEMMA OptionKeeps ==
    ASSUME PaneInv, NEW err \in BOOLEAN, launchOptionsDialog_optionSelected(err) PROVE PaneInv'
<1> DEFINE slots == listeners[selectedApp]
<1>1. /\ launchDialog # NoGame /\ launchDialog' = NoGame
      /\ EmitError("Launch", selectedApp, MainSlot, slots, err)
      /\ UNCHANGED <<selectedApp, playButton, listeners, installDialogs>>
  BY DEF launchOptionsDialog_optionSelected
<1>2. selectedApp \in Games /\ MainSlot \in ToSet(slots) /\ slots \in Seq(Slot)
      /\ ToSet(slots) \subseteq MadeSlots /\ MainSlot \in Slot
  <2>1. selectedApp = launchDialog /\ launchDialog \in Games
    BY <1>1, PaneTypes DEF PaneInv, LaunchesWhatWasChosen
  <2>2. QED
    BY <1>1, <2>1, PaneTypes DEF PaneInv, DialogIsHeard, ListenersExist, Slot
<1> HIDE DEF slots
<1>3. Emitted("Launch", MainSlot, slots, err)
  BY <1>1, <1>2, EmitIs
<1>4. GameWindowTypeOK'
  BY <1>1, <1>3 DEF PaneInv, GameWindowTypeOK, Emitted, Report
<1>5. ButtonHasGame' /\ LaunchesWhatWasChosen' /\ DialogIsHeard'
  BY <1>1 DEF PaneInv, ButtonHasGame, LaunchesWhatWasChosen, DialogIsHeard
<1>6. ListenersExist' /\ ToSet(report'.waiting) \subseteq MadeSlots'
  BY <1>1, <1>2, <1>3 DEF PaneInv, ListenersExist, MadeSlots, Emitted
<1>7. ErrorIsTold(report') /\ ToldDialogIsBack(report', installDialogs')
  BY <1>3 DEF Emitted, ToldDialogIsBack
<1>8. QED
  BY <1>4, <1>5, <1>6, <1>7 DEF PaneInv

LEMMA CancelKeeps == ASSUME PaneInv, launchOptionsDialog_cancelled PROVE PaneInv'
<1>1. /\ launchDialog' = NoGame
      /\ UNCHANGED <<appInstallState, stateChanges, appState, selectedApp, playButton,
                     listeners, installDialogs, calls, report>>
  BY DEF launchOptionsDialog_cancelled
<1>2. QED
  BY <1>1 DEF PaneInv, GameWindowTypeOK, ButtonHasGame, LaunchesWhatWasChosen, DialogIsHeard,
              ListenersExist, MadeSlots

LEMMA InstallKeeps == ASSUME PaneInv, installClicked PROVE PaneInv'
<1> DEFINE new == [app |-> selectedApp, page |-> 0, open |-> TRUE]
<1>1. /\ playButton = "Install" /\ Len(installDialogs) < MaxInstalls
      /\ installDialogs' = Append(installDialogs, new)
      /\ UNCHANGED <<appInstallState, stateChanges, appState, selectedApp, playButton,
                     listeners, launchDialog, calls, report>>
  BY DEF installClicked
<1>2. selectedApp \in Games
  BY <1>1 DEF PaneInv, ButtonHasGame
<1>3. new \in Dialog
  BY <1>2 DEF Dialog
<1> HIDE DEF new
<1>4. /\ installDialogs' \in Seq(Dialog) /\ Len(installDialogs') = Len(installDialogs) + 1
      /\ DOMAIN installDialogs' = 1..(Len(installDialogs) + 1)
      /\ \A d \in 1..Len(installDialogs) : installDialogs'[d] = installDialogs[d]
  BY <1>1, <1>3, PaneTypes
<1>5. GameWindowTypeOK'
  BY <1>1, <1>4, PaneTypes, GameWindowAssumption DEF PaneInv, GameWindowTypeOK, Dialog
<1>6. MadeSlots \subseteq MadeSlots'
  BY <1>4, PaneTypes DEF MadeSlots
<1>7. ListenersExist' /\ ToSet(report'.waiting) \subseteq MadeSlots'
  BY <1>1, <1>6 DEF PaneInv, ListenersExist
<1>8. ToldDialogIsBack(report', installDialogs')
  <2>1. DOMAIN installDialogs \subseteq DOMAIN installDialogs'
    BY <1>4, PaneTypes
  <2>2. QED
    BY <1>1, <1>4, <2>1, PaneTypes DEF PaneInv, ToldDialogIsBack
<1>9. QED
  BY <1>1, <1>5, <1>7, <1>8 DEF PaneInv, ButtonHasGame, LaunchesWhatWasChosen, DialogIsHeard, NoBox

LEMMA NextPageKeeps ==
    ASSUME PaneInv, NEW d \in DOMAIN installDialogs, NEW err \in BOOLEAN, currentIdChanged(d, err)
    PROVE  PaneInv'
<1> DEFINE g == installDialogs[d].app
           heard == Append(listeners[g], d)
<1>1. /\ launchDialog = NoGame
      /\ installDialogs' = [installDialogs EXCEPT ![d].page = 1]
      /\ listeners' = [listeners EXCEPT ![g] = heard]
      /\ EmitError("Install", g, d, heard, err)
      /\ UNCHANGED <<selectedApp, playButton, launchDialog>>
  BY DEF currentIdChanged, Unblocked
<1>2. installDialogs[d] \in Dialog /\ d \in MadeSlots /\ d \in Slot
  BY PaneTypes, MadeSlotsAreSlots DEF MadeSlots
<1>3. g \in Games
  BY <1>2 DEF Dialog
<1> HIDE DEF g
<1>4. /\ heard \in Seq(Slot) /\ d \in ToSet(heard) /\ ToSet(heard) \subseteq MadeSlots
      /\ listeners' \in [Games -> Seq(Slot)]
      /\ \A h \in Games : ToSet(listeners'[h]) \subseteq MadeSlots
  BY <1>1, <1>2, <1>3, ConnectIs
<1> HIDE DEF heard
<1>5. Emitted("Install", d, heard, err)
  BY <1>1, <1>2, <1>3, <1>4, EmitIs
<1>6. installDialogs' \in Seq(Dialog) /\ Len(installDialogs') = Len(installDialogs)
      /\ DOMAIN installDialogs' = DOMAIN installDialogs
  <2>1. [installDialogs[d] EXCEPT !.page = 1] \in Dialog
    BY <1>2 DEF Dialog
  <2>2. QED
    BY <1>1, <2>1, PaneTypes
<1>7. MadeSlots' = MadeSlots
  BY <1>6 DEF MadeSlots
<1>8. GameWindowTypeOK'
  BY <1>1, <1>4, <1>5, <1>6 DEF PaneInv, GameWindowTypeOK, Emitted, Report, Dialog
<1>9. ButtonHasGame' /\ LaunchesWhatWasChosen' /\ DialogIsHeard'
  BY <1>1 DEF PaneInv, ButtonHasGame, LaunchesWhatWasChosen, DialogIsHeard
<1>10. ListenersExist' /\ ToSet(report'.waiting) \subseteq MadeSlots'
  BY <1>4, <1>5, <1>7 DEF ListenersExist, Emitted
<1>11. ErrorIsTold(report') /\ ToldDialogIsBack(report', installDialogs')
  BY <1>4, <1>5, <1>6 DEF Emitted, ToldDialogIsBack
<1>12. QED
  BY <1>8, <1>9, <1>10, <1>11 DEF PaneInv

LEMMA HideKeeps ==
    ASSUME PaneInv, NEW d \in DOMAIN installDialogs, closeInstallDialog(d) PROVE PaneInv'
<1>1. /\ installDialogs' = [installDialogs EXCEPT ![d].open = FALSE]
      /\ UNCHANGED <<appInstallState, stateChanges, appState, selectedApp, playButton,
                     listeners, launchDialog, calls, report>>
  BY DEF closeInstallDialog
<1>2. /\ installDialogs' \in Seq(Dialog) /\ Len(installDialogs') = Len(installDialogs)
      /\ DOMAIN installDialogs' = DOMAIN installDialogs
      /\ \A e \in DOMAIN installDialogs : installDialogs'[e].page = installDialogs[e].page
  <2>1. installDialogs[d] \in Dialog
    BY PaneTypes
  <2>2. [installDialogs[d] EXCEPT !.open = FALSE] \in Dialog
        /\ [installDialogs[d] EXCEPT !.open = FALSE].page = installDialogs[d].page
    BY <2>1 DEF Dialog
  <2>3. QED
    BY <1>1, <2>2, PaneTypes
<1>3. GameWindowTypeOK'
  BY <1>1, <1>2 DEF PaneInv, GameWindowTypeOK, Dialog
<1>4. ListenersExist' /\ ToSet(report'.waiting) \subseteq MadeSlots'
  BY <1>1, <1>2 DEF PaneInv, ListenersExist, MadeSlots
<1>5. ToldDialogIsBack(report', installDialogs')
  BY <1>1, <1>2 DEF PaneInv, ToldDialogIsBack
<1>6. QED
  BY <1>1, <1>3, <1>4, <1>5 DEF PaneInv, ButtonHasGame, LaunchesWhatWasChosen, DialogIsHeard, NoBox

LEMMA UninstallKeeps ==
    ASSUME PaneInv, NEW g \in Games, NEW err \in BOOLEAN, on_uninstallBtn_clicked(g, err) PROVE PaneInv'
<1> DEFINE slots == listeners[g]
<1>1. /\ launchDialog = NoGame
      /\ EmitError("Uninstall", g, SettingsAsker, slots, err)
      /\ UNCHANGED <<selectedApp, playButton, listeners, launchDialog, installDialogs>>
  BY DEF on_uninstallBtn_clicked, Unblocked
<1>2. slots \in Seq(Slot) /\ ToSet(slots) \subseteq MadeSlots
  BY PaneTypes DEF PaneInv, ListenersExist
<1> HIDE DEF slots
<1>3. Emitted("Uninstall", SettingsAsker, slots, err)
  BY <1>1, <1>2, EmitIs
<1>4. GameWindowTypeOK'
  BY <1>1, <1>3 DEF PaneInv, GameWindowTypeOK, Emitted, Report
<1>5. ButtonHasGame' /\ LaunchesWhatWasChosen' /\ DialogIsHeard'
  BY <1>1 DEF PaneInv, ButtonHasGame, LaunchesWhatWasChosen, DialogIsHeard
<1>6. ListenersExist' /\ ToSet(report'.waiting) \subseteq MadeSlots'
  BY <1>1, <1>2, <1>3 DEF PaneInv, ListenersExist, MadeSlots, Emitted
<1>7. ErrorIsTold(report') /\ ToldDialogIsBack(report', installDialogs')
  BY <1>3 DEF Emitted, ToldDialogIsBack
<1>8. QED
  BY <1>4, <1>5, <1>6, <1>7 DEF PaneInv

LEMMA PaneNext == PaneInv /\ [GameWindowNext]_gameWindowVars => PaneInv'
<1> SUFFICES ASSUME PaneInv, [GameWindowNext]_gameWindowVars PROVE PaneInv'
  OBVIOUS
<1>1. ASSUME NEW g \in Games, NEW s \in GameStates, StateChanges(g, s) PROVE PaneInv'
  BY <1>1, StateKeeps
<1>2. CASE CloseErrorBox
  BY <1>2, CloseKeeps
<1>3. ASSUME NEW g \in Games, currentItemChanged(g) PROVE PaneInv'
  BY <1>3, SelectKeeps
<1>4. CASE stopClicked
  BY <1>4, StopKeeps
<1>5. ASSUME NEW options \in 0..2, NEW err \in BOOLEAN, playClicked(options, err) PROVE PaneInv'
  BY <1>5, PlayKeeps
<1>6. ASSUME NEW err \in BOOLEAN, launchOptionsDialog_optionSelected(err) PROVE PaneInv'
  BY <1>6, OptionKeeps
<1>7. CASE launchOptionsDialog_cancelled
  BY <1>7, CancelKeeps
<1>8. CASE installClicked
  BY <1>8, InstallKeeps
<1>9. ASSUME NEW d \in DOMAIN installDialogs, NEW err \in BOOLEAN, currentIdChanged(d, err)
      PROVE  PaneInv'
  BY <1>9, NextPageKeeps
<1>10. ASSUME NEW d \in DOMAIN installDialogs, closeInstallDialog(d) PROVE PaneInv'
  BY <1>10, HideKeeps
<1>11. ASSUME NEW g \in Games, NEW err \in BOOLEAN, on_uninstallBtn_clicked(g, err) PROVE PaneInv'
  BY <1>11, UninstallKeeps
<1>12. CASE UNCHANGED gameWindowVars
  BY <1>12 DEF gameWindowVars, PaneInv, GameWindowTypeOK, ButtonHasGame, LaunchesWhatWasChosen,
               DialogIsHeard, ListenersExist, MadeSlots, NoBox
<1>13. QED
  BY <1>1, <1>2, <1>3, <1>4, <1>5, <1>6, <1>7, <1>8, <1>9, <1>10, <1>11, <1>12 DEF GameWindowNext

LEMMA PaneAlways == GameWindowSpec => []PaneInv
BY PaneInit, PaneNext, PTL DEF GameWindowSpec

\* The pane, its dialogs and the slots that hear of errors are well formed,
\* whatever is clicked and closed (mainwindow.cpp, installgamedialog.cpp).
THEOREM GameWindowTypes == GameWindowSpec => []GameWindowTypeOK
BY PaneAlways, PTL DEF PaneInv

\* The option chosen in a LaunchOptionsDialog is launched for the game that the
\* dialog was opened for (MainWindow::launchOptionsDialog_optionSelected).
THEOREM DialogBlocksSelection == GameWindowSpec => []LaunchesWhatWasChosen
BY PaneAlways, PTL DEF PaneInv

\* However the connections piled up, an error of Launch or Install is told once
\* by the one who asked, and an InstallGameDialog is back on the page of the
\* library folders (MainWindow::CommonAppUpdateErrorHandler,
\* InstallGameDialog::installFailed).
THEOREM ErrorIsToldOnce == GameWindowSpec => []AskerTellsOnce
<1>1. PaneInv => AskerTellsOnce
  <2> SUFFICES ASSUME PaneInv, report.err, NoBox, report.asker # SettingsAsker
               PROVE  /\ Cardinality({i \in DOMAIN report.boxes : report.boxes[i] = report.asker}) = 1
                      /\ report.call = "Install" => installDialogs[report.asker].page = 0
    BY DEF AskerTellsOnce
  <2>1. ToSet(report.waiting) = {}
    BY DEF NoBox, ToSet
  <2>2. OnceIn(report.boxes, report.asker)
    BY <2>1 DEF PaneInv, ErrorIsTold
  <2>3. PICK i \in DOMAIN report.boxes : \A j \in DOMAIN report.boxes :
                                            report.boxes[j] = report.asker <=> j = i
    BY <2>2 DEF OnceIn
  <2>4. {j \in DOMAIN report.boxes : report.boxes[j] = report.asker} = {i}
    BY <2>3
  <2>5. Cardinality({i}) = 1
    BY FS_Singleton
  <2>6. QED
    BY <2>1, <2>4, <2>5 DEF PaneInv, ToldDialogIsBack
<1>2. QED
  BY <1>1, PaneAlways, PTL

-----------------------------------------------------------------------------
(***************************************************************************)
(* WebTabs. A page that is not signed in got there by LoadURL, which asks  *)
(* for a token and then connects; between the two an answer is still to    *)
(* come or has come (Asked). The button in bold is decided when a tab is *)
(* shown, and stays right because a tab is entered into webviewPages once, *)
(* when it is made, and for one kind of pages only (OneTabEach).           *)
(***************************************************************************)

Tab == [type : WebTypes, loaded : BOOLEAN, page : {"none", "anonymous", "signedIn"},
        waiting : Nat, reloads : Nat, refused : BOOLEAN]

\* c: the tab's widget is connecting; n: an answer is to come, or it missed one.
Remembered(tab, c, n) ==
    tab.page = "anonymous" =>
        c \/ (tab.waiting > 0 /\ n) \/ tab.reloads > 0 \/ tab.refused

AllRemembered(pages, c, n, m) ==
    \A j \in 1 .. Len(pages) : Remembered(pages[j], c = j, n > 0 \/ m = j)

OneTabEach ==
    \A t, u \in WebTypes : webviewPages[t] = webviewPages[u] /\ webviewPages[t] # 0 => t = u

Counted == tokenRequests <= tokensUsed

Asked == connecting # 0 => tokenRequests > 0 \/ missed = connecting

TabsInv == WebTabsTypeOK /\ Counted /\ Asked /\ NoPageForgotten /\ BoldIsShown /\ OneTabEach

\* Loading a page leaves a tab that is remembered if it connects without a token.
LEMMA LoadRemembers ==
    ASSUME tokenCached \in BOOLEAN, NEW tab \in Tab, NEW c, NEW n, ~tokenCached => c
    PROVE  LoadURL(tab) \in Tab /\ Remembered(LoadURL(tab), c, n)
<1>1. CASE tokenCached
  BY <1>1 DEF LoadURL, Tab, Remembered
<1>2. CASE ~tokenCached
  <2>1. LoadURL(tab) = [type |-> tab.type, loaded |-> tab.loaded, page |-> "anonymous",
                        waiting |-> tab.waiting, reloads |-> tab.reloads, refused |-> FALSE]
    BY <1>2 DEF LoadURL, Tab
  <2>2. QED
    BY <1>2, <2>1 DEF Tab, Remembered
<1>3. QED
  BY <1>1, <1>2

LEMMA TabsInit == WebTabsInit => TabsInv
<1> SUFFICES ASSUME WebTabsInit PROVE TabsInv
  OBVIOUS
<1>1. WebTabsTypeOK
  <2>1. webviewPages \in [WebTypes -> 0 .. Len(tabs)] /\ currentTab \in FixedTab
        /\ connecting \in 0 .. Len(tabs) /\ missed \in 0 .. Len(tabs)
    BY DEF WebTabsInit, FixedTab
  <2>2. tokenRequests \in 0..MaxTokens /\ tokensUsed \in 0..MaxTokens
    BY WebTabsAssumption DEF WebTabsInit
  <2>3. tabs \in Seq(Tab)
    BY DEF WebTabsInit
  <2>4. libraryLoaded \in BOOLEAN /\ browserAllowed \in BOOLEAN /\ tokenCached \in BOOLEAN
        /\ boldButton = NoButton
    BY DEF WebTabsInit
  <2>5. QED
    BY <2>1, <2>2, <2>3, <2>4 DEF WebTabsTypeOK, Tab
<1>2. NoPageForgotten /\ OneTabEach /\ Counted /\ Asked
  BY DEF WebTabsInit, NoPageForgotten, OneTabEach, Counted, Asked
<1>3. BoldIsShown
  BY DEF WebTabsInit, BoldIsShown, FixedTab, FixedButton, WebTab
<1>4. QED
  BY <1>1, <1>2, <1>3 DEF TabsInv

LEMMA TabsTypes ==
    ASSUME TabsInv
    PROVE  /\ tabs \in Seq(Tab) /\ DOMAIN tabs = 1 .. Len(tabs) /\ Len(tabs) \in Nat
           /\ \A i \in 1 .. Len(tabs) : tabs[i] \in Tab
           /\ AllRemembered(tabs, connecting, tokenRequests, missed)
           /\ tokenCached \in BOOLEAN /\ tokenRequests \in Nat /\ tokensUsed \in Nat
           /\ connecting \in 0 .. Len(tabs) /\ missed \in 0 .. Len(tabs)
<1>1. /\ tabs \in Seq(Tab) /\ tokenCached \in BOOLEAN /\ tokenRequests \in Nat
      /\ tokensUsed \in Nat /\ connecting \in 0 .. Len(tabs) /\ missed \in 0 .. Len(tabs)
  BY WebTabsAssumption DEF TabsInv, WebTabsTypeOK, Tab
<1>2. QED
  BY <1>1 DEF TabsInv, NoPageForgotten, Remembered, AllRemembered

\* Asking for a token, while nobody connects, forgets no other page.
LEMMA AskKeeps ==
    ASSUME TabsInv, NEW i \in Nat \ {0}, NEW loads \in BOOLEAN, RequestWebAuthToken(i, loads),
           missed' = missed
    PROVE  /\ tokenRequests' \in 0..MaxTokens /\ tokensUsed' \in 0..MaxTokens
           /\ Counted' /\ connecting' \in {0, i}
           /\ (connecting' # 0 => tokenRequests' > 0)
           /\ (loads /\ ~tokenCached => connecting' = i)
           /\ \A j \in 1 .. Len(tabs) : Remembered(tabs[j], connecting' = j, tokenRequests' > 0 \/ missed' = j)
<1>1. /\ tokenRequests \in 0..MaxTokens /\ tokensUsed \in 0..MaxTokens
      /\ tokenRequests <= tokensUsed
  BY DEF TabsInv, WebTabsTypeOK, Counted
<1>2. connecting = 0 /\ AllRemembered(tabs, connecting, tokenRequests, missed)
  BY TabsTypes DEF RequestWebAuthToken
<1>3. CASE loads /\ ~tokenCached
  <2>1. /\ tokensUsed < MaxTokens /\ tokensUsed' = tokensUsed + 1
        /\ tokenRequests' = tokenRequests + 1 /\ connecting' = i
    BY <1>3 DEF RequestWebAuthToken
  <2>2. tokenRequests' \in 0..MaxTokens /\ tokensUsed' \in 0..MaxTokens
        /\ tokenRequests' <= tokensUsed' /\ tokenRequests' > 0
    BY <1>1, <2>1, WebTabsAssumption
  <2>3. \A j \in 1 .. Len(tabs) : Remembered(tabs[j], connecting' = j, tokenRequests' > 0 \/ missed' = j)
    BY <1>2, <2>2 DEF AllRemembered, Remembered
  <2>4. QED
    BY <2>1, <2>2, <2>3 DEF Counted
<1>4. CASE ~(loads /\ ~tokenCached)
  <2>1. UNCHANGED <<tokenRequests, connecting, tokensUsed>>
    BY <1>4 DEF RequestWebAuthToken
  <2>2. QED
    BY <1>1, <1>2, <1>4, <2>1 DEF Counted, AllRemembered
<1>5. QED
  BY <1>3, <1>4

\* Tabs whose pages change keep all but what is in them.
LEMMA PagesKeep ==
    ASSUME TabsInv, NEW new \in Seq(Tab), tabs' = new, Len(new) = Len(tabs),
           AllRemembered(new, connecting', tokenRequests', missed'),
           tokenRequests' \in 0..MaxTokens, tokensUsed' \in 0..MaxTokens, Counted', Asked',
           tokenCached' \in BOOLEAN, connecting' \in 0 .. Len(tabs), missed' \in 0 .. Len(tabs),
           UNCHANGED <<browserAllowed, libraryLoaded, webviewPages, currentTab, boldButton>>
    PROVE  TabsInv'
<1>1. DOMAIN tabs' = DOMAIN tabs /\ DOMAIN tabs = 1 .. Len(tabs)
  BY DEF TabsInv, WebTabsTypeOK, Tab
<1>2. WebTabsTypeOK'
  BY <1>1 DEF TabsInv, WebTabsTypeOK, Tab
<1>3. NoPageForgotten'
  BY <1>1 DEF NoPageForgotten, Remembered, AllRemembered
<1>4. BoldIsShown' /\ OneTabEach'
  BY DEF TabsInv, BoldIsShown, OneTabEach
<1>5. QED
  BY <1>2, <1>3, <1>4 DEF TabsInv

LEMMA ConnectKeeps == ASSUME TabsInv, Connect PROVE TabsInv'
<1> DEFINE tab == [tabs[connecting] EXCEPT !.waiting = tabs[connecting].waiting + 1]
<1>1. /\ connecting # 0 /\ tabs' = [tabs EXCEPT ![connecting] = tab] /\ connecting' = 0
      /\ UNCHANGED <<browserAllowed, libraryLoaded, webviewPages, currentTab, boldButton,
                     tokenCached, tokenRequests, missed, tokensUsed>>
  BY DEF Connect
<1>2. connecting \in 1 .. Len(tabs) /\ tabs[connecting] \in Tab
  BY <1>1, TabsTypes
<1>3. tab \in Tab /\ tab.waiting > 0
  BY <1>2 DEF Tab
<1> HIDE DEF tab
<1>4. Remembered(tab, FALSE, tokenRequests > 0 \/ missed = connecting)
  BY <1>1, <1>3 DEF TabsInv, Asked, Remembered
<1>5. tabs' \in Seq(Tab) /\ Len(tabs') = Len(tabs)
  BY <1>1, <1>2, <1>3, TabsTypes
<1>6. AllRemembered(tabs', connecting', tokenRequests', missed')
  <2>1. SUFFICES ASSUME NEW j \in 1 .. Len(tabs)
                 PROVE  Remembered(tabs'[j], connecting' = j, tokenRequests' > 0 \/ missed' = j)
    BY <1>5 DEF AllRemembered
  <2>2. connecting' # j /\ tokenRequests' = tokenRequests /\ missed' = missed
    BY <1>1
  <2>3. CASE j = connecting
    BY <1>1, <1>2, <1>4, <2>2, <2>3, TabsTypes DEF Remembered
  <2>4. CASE j # connecting
    BY <1>1, <1>2, <2>2, <2>4, TabsTypes DEF AllRemembered, Remembered
  <2>5. QED
    BY <2>3, <2>4
<1>7. Asked' /\ Counted' /\ tokenRequests' \in 0..MaxTokens /\ tokensUsed' \in 0..MaxTokens
  BY <1>1 DEF TabsInv, WebTabsTypeOK, Asked, Counted
<1>8. connecting' \in 0 .. Len(tabs) /\ missed' \in 0 .. Len(tabs) /\ tokenCached' \in BOOLEAN
  BY <1>1, TabsTypes
<1>9. QED
  BY <1>1, <1>5, <1>6, <1>7, <1>8, PagesKeep

\* An answer leaves a tab that is remembered, too.
LEMMA AnswerRemembers ==
    ASSUME NEW tab \in Tab, NEW r \in Nat, NEW f \in BOOLEAN, NEW c, NEW n,
           tab.page = "anonymous" => c \/ r > 0 \/ f
    PROVE  LET new == [tab EXCEPT !.reloads = r, !.refused = f, !.waiting = 0]
           IN  new \in Tab /\ Remembered(new, c, n)
<1> DEFINE new == [tab EXCEPT !.reloads = r, !.refused = f, !.waiting = 0]
<1>1. [tab EXCEPT !.reloads = r] \in Tab
  BY DEF Tab
<1>2. ASSUME NEW other \in Tab PROVE [other EXCEPT !.refused = f] \in Tab
  BY DEF Tab
<1>3. ASSUME NEW other \in Tab PROVE [other EXCEPT !.waiting = 0] \in Tab
  BY DEF Tab
<1>4. new = [[[tab EXCEPT !.reloads = r] EXCEPT !.refused = f] EXCEPT !.waiting = 0]
  OBVIOUS
<1>5. new \in Tab
  BY <1>1, <1>2, <1>3, <1>4
<1>6. new.page = tab.page /\ new.reloads = r
  BY DEF Tab
<1>7. new.refused = f
  BY DEF Tab
<1>8. Remembered(new, c, n)
  BY <1>6, <1>7 DEF Remembered
<1>9. QED
  BY <1>5, <1>8

LEMMA AnswerKeeps ==
    ASSUME TabsInv, NEW ok \in BOOLEAN, WebAuthRequestCallback(ok) PROVE TabsInv'
<1> DEFINE reloads(i) == IF ok THEN tabs[i].reloads + tabs[i].waiting ELSE tabs[i].reloads
           refused(i) == tabs[i].refused \/ (~ok /\ tabs[i].waiting > 0)
           answered(i) == [tabs[i] EXCEPT !.reloads = reloads(i), !.refused = refused(i),
                                          !.waiting = 0]
<1>1. /\ tabs' = [i \in DOMAIN tabs |-> answered(i)]
      /\ tokenRequests > 0 /\ tokenRequests' = tokenRequests - 1 /\ tokensUsed' = tokensUsed
      /\ tokenCached' = (tokenCached \/ ok) /\ missed' = connecting
      /\ UNCHANGED <<browserAllowed, libraryLoaded, webviewPages, currentTab, boldButton,
                     connecting>>
  BY DEF WebAuthRequestCallback
<1>2. ASSUME NEW i \in 1 .. Len(tabs)
      PROVE  /\ answered(i) \in Tab
             /\ Remembered(answered(i), connecting' = i, tokenRequests' > 0 \/ missed' = i)
  <2>1. tabs[i] \in Tab /\ Remembered(tabs[i], connecting = i, tokenRequests > 0 \/ missed = i)
    BY TabsTypes DEF AllRemembered
  <2>2. reloads(i) \in Nat /\ refused(i) \in BOOLEAN
    BY <2>1 DEF Tab
  <2>3. tabs[i].page = "anonymous" => i = connecting \/ reloads(i) > 0 \/ refused(i)
    <3>1. CASE ok
      BY <2>1, <3>1 DEF Tab, Remembered
    <3>2. CASE ~ok
      BY <2>1, <3>2 DEF Tab, Remembered
    <3>3. QED
      BY <3>1, <3>2
  <2> HIDE DEF reloads, refused
  <2>4. ASSUME NEW n PROVE answered(i) \in Tab /\ Remembered(answered(i), i = connecting, n)
    BY <2>1, <2>2, <2>3, AnswerRemembers
  <2> HIDE DEF answered
  <2>5. QED
    BY <1>1, <2>4 DEF Remembered
<1> HIDE DEF answered
<1>3. tabs' \in Seq(Tab) /\ Len(tabs') = Len(tabs) /\ DOMAIN tabs = 1 .. Len(tabs)
  BY <1>1, <1>2, TabsTypes
<1>4. AllRemembered(tabs', connecting', tokenRequests', missed')
  BY <1>1, <1>2, <1>3 DEF AllRemembered
<1>5. Asked'
  BY <1>1 DEF Asked
<1>6. /\ tokenRequests' \in 0..MaxTokens /\ tokensUsed' \in 0..MaxTokens
      /\ tokenRequests' <= tokensUsed' /\ tokenCached' \in BOOLEAN
  BY <1>1, WebTabsAssumption DEF TabsInv, WebTabsTypeOK, Counted
<1>7. connecting' \in 0 .. Len(tabs) /\ missed' \in 0 .. Len(tabs)
  BY <1>1, TabsTypes
<1>8. QED
  BY <1>1, <1>3, <1>4, <1>5, <1>6, <1>7, PagesKeep DEF Counted

\* A tab that is loaded into, with the token asked for, among the others.
LEMMA LoadInto ==
    ASSUME TabsInv, NEW i \in 1 .. Len(tabs), NEW tab \in Tab, RequestWebAuthToken(i, TRUE),
           missed' = missed, tabs' = [tabs EXCEPT ![i] = LoadURL(tab)]
    PROVE  /\ tabs' \in Seq(Tab) /\ Len(tabs') = Len(tabs)
           /\ AllRemembered(tabs', connecting', tokenRequests', missed')
<1>0. i \in Nat \ {0}
  BY TabsTypes
<1>1. ~tokenCached => connecting' = i
  BY <1>0, AskKeeps
<1>2. LoadURL(tab) \in Tab /\ Remembered(LoadURL(tab), connecting' = i, tokenRequests' > 0 \/ missed' = i)
  BY <1>1, LoadRemembers, TabsTypes
<1>3. tabs' \in Seq(Tab) /\ Len(tabs') = Len(tabs)
  BY <1>2, TabsTypes
<1>4. \A j \in 1 .. Len(tabs) : tabs'[j] = IF j = i THEN LoadURL(tab) ELSE tabs[j]
  BY TabsTypes
<1>5. \A j \in 1 .. Len(tabs) : Remembered(tabs'[j], connecting' = j, tokenRequests' > 0 \/ missed' = j)
  BY <1>0, <1>2, <1>4, AskKeeps
<1>6. QED
  BY <1>3, <1>5 DEF AllRemembered

LEMMA ReloadKeeps ==
    ASSUME TabsInv, NEW i \in DOMAIN tabs, Reload(i) PROVE TabsInv'
<1> DEFINE tab == [tabs[i] EXCEPT !.reloads = tabs[i].reloads - 1]
<1>1. /\ tabs[i].reloads > 0 /\ tabs' = [tabs EXCEPT ![i] = LoadURL(tab)]
      /\ RequestWebAuthToken(i, TRUE)
      /\ UNCHANGED <<browserAllowed, libraryLoaded, webviewPages, currentTab, boldButton,
                     tokenCached, missed>>
  BY DEF Reload
<1>2. i \in 1 .. Len(tabs) /\ tabs[i] \in Tab /\ i \in Nat \ {0}
  BY TabsTypes
<1>3. tab \in Tab
  BY <1>1, <1>2 DEF Tab
<1> HIDE DEF tab
<1>4. /\ tabs' \in Seq(Tab) /\ Len(tabs') = Len(tabs)
      /\ AllRemembered(tabs', connecting', tokenRequests', missed')
  BY <1>1, <1>2, <1>3, LoadInto
<1>5. /\ tokenRequests' \in 0..MaxTokens /\ tokensUsed' \in 0..MaxTokens /\ Counted'
      /\ connecting' \in {0, i} /\ (connecting' # 0 => tokenRequests' > 0)
  BY <1>1, <1>2, AskKeeps
<1>6. Asked' /\ connecting' \in 0 .. Len(tabs) /\ missed' \in 0 .. Len(tabs)
  BY <1>1, <1>2, <1>5, TabsTypes DEF Asked
<1>7. QED
  BY <1>1, <1>4, <1>5, <1>6, PagesKeep, TabsTypes

\* Which tab is shown, and the button in bold, when the tab types are pages.
LEMMA ShowKeepsBold ==
    ASSUME TabsInv, NEW tab, NEW pages \in [WebTypes -> Nat], ShowTab(tab, pages),
           webviewPages' = pages,
           \A t, u \in WebTypes : pages[t] = pages[u] /\ pages[t] # 0 => t = u,
           tab \in FixedTab \/ \E i \in Nat \ {0} : tab = WebTab(i),
           tab = currentTab => pages = webviewPages
    PROVE  BoldIsShown' /\ boldButton' \in {"games", "console", NoButton} \cup WebTypes
<1> DEFINE types == {t \in WebTypes : WebTab(pages[t]) = tab}
<1>1. currentTab' = tab
  BY DEF ShowTab
<1>2. CASE currentTab = tab
  <2>1. boldButton' = boldButton /\ currentTab' = currentTab /\ webviewPages' = webviewPages
    BY <1>1, <1>2 DEF ShowTab
  <2>2. QED
    BY <2>1 DEF TabsInv, BoldIsShown, WebTabsTypeOK
<1>3. CASE currentTab # tab /\ tab \in FixedTab
  <2>1. boldButton' = FixedButton(tab)
    BY <1>3 DEF ShowTab
  <2>2. tab[1] \in {"games", "console", "downloads"} /\ \A i : WebTab(i) # tab
    BY <1>3 DEF FixedTab, WebTab
  <2>3. boldButton' \in {"games", "console", NoButton}
    BY <2>1, <2>2 DEF FixedButton
  <2>4. QED
    BY <1>1, <2>1, <2>2, <2>3 DEF BoldIsShown
<1>4. CASE currentTab # tab /\ tab \notin FixedTab
  <2>1. boldButton' = IF types # {} THEN CHOOSE t \in types : TRUE ELSE boldButton
    BY <1>4 DEF ShowTab
  <2>2. PICK i \in Nat \ {0} : tab = WebTab(i)
    BY <1>4
  <2>3. \A t, u \in types : t = u
    BY <2>2 DEF WebTab
  <2>4. boldButton' \in WebTypes \cup {boldButton}
    BY <2>1
  <2>5. \A t \in WebTypes : currentTab' = WebTab(webviewPages'[t]) => boldButton' = t
    BY <1>1, <2>1, <2>3
  <2>6. QED
    BY <1>1, <1>4, <2>4, <2>5 DEF TabsInv, WebTabsTypeOK, BoldIsShown
<1>5. QED
  BY <1>2, <1>3, <1>4

LEMMA ButtonKeeps ==
    ASSUME TabsInv, NEW tab \in FixedTab, on_fixedButton_clicked(tab) PROVE TabsInv'
<1>1. ShowTab(tab, webviewPages)
      /\ UNCHANGED <<browserAllowed, libraryLoaded, tabs, webviewPages, tokenCached,
                     tokenRequests, connecting, missed, tokensUsed>>
  BY DEF on_fixedButton_clicked
<1>2. webviewPages \in [WebTypes -> Nat]
  BY TabsTypes DEF TabsInv, WebTabsTypeOK
<1>3. BoldIsShown' /\ boldButton' \in {"games", "console", NoButton} \cup WebTypes
  BY <1>1, <1>2, ShowKeepsBold DEF TabsInv, OneTabEach
<1>4. currentTab' = tab
  BY <1>1 DEF ShowTab
<1>5. WebTabsTypeOK'
  BY <1>1, <1>3, <1>4 DEF TabsInv, WebTabsTypeOK
<1>6. NoPageForgotten' /\ OneTabEach' /\ Counted' /\ Asked'
  BY <1>1 DEF TabsInv, NoPageForgotten, OneTabEach, Counted, Asked
<1>7. QED
  BY <1>3, <1>5, <1>6 DEF TabsInv

LEMMA LoadedKeeps ==
    ASSUME TabsInv, NEW t \in WebTypes, NEW url \in BOOLEAN, GotoLoadedTab(t, url)
    PROVE  TabsInv'
<1> DEFINE at == webviewPages[t]
<1>1. /\ at # 0
      /\ tabs' = IF url THEN [tabs EXCEPT ![at] = LoadURL(tabs[at])] ELSE tabs
      /\ RequestWebAuthToken(at, url) /\ ShowTab(WebTab(at), webviewPages)
      /\ UNCHANGED <<browserAllowed, libraryLoaded, webviewPages, tokenCached, missed>>
  BY DEF GotoLoadedTab
<1>2. webviewPages \in [WebTypes -> Nat] /\ at \in 1 .. Len(tabs) /\ at \in Nat \ {0}
  BY <1>1, TabsTypes DEF TabsInv, WebTabsTypeOK
<1>3. /\ tabs' \in Seq(Tab) /\ Len(tabs') = Len(tabs)
      /\ AllRemembered(tabs', connecting', tokenRequests', missed')
  <2>1. tabs[at] \in Tab
    BY <1>2, TabsTypes
  <2>2. CASE url
    <3>1. /\ RequestWebAuthToken(at, TRUE) /\ missed' = missed
          /\ tabs' = [tabs EXCEPT ![at] = LoadURL(tabs[at])]
      BY <1>1, <2>2
    <3> HIDE DEF at
    <3>2. QED
      BY <1>2, <2>1, <3>1, LoadInto
  <2>3. CASE ~url
    <3>1. \A j \in 1 .. Len(tabs) : Remembered(tabs[j], connecting' = j, tokenRequests' > 0 \/ missed' = j)
      BY <1>1, <1>2, AskKeeps
    <3>2. QED
      BY <1>1, <2>3, <3>1, TabsTypes DEF AllRemembered
  <2>4. QED
    BY <2>2, <2>3
<1>4. /\ tokenRequests' \in 0..MaxTokens /\ tokensUsed' \in 0..MaxTokens /\ Counted'
      /\ connecting' \in {0, at} /\ (connecting' # 0 => tokenRequests' > 0)
  BY <1>1, <1>2, AskKeeps
<1>5. BoldIsShown' /\ boldButton' \in {"games", "console", NoButton} \cup WebTypes
  BY <1>1, <1>2, ShowKeepsBold DEF TabsInv, OneTabEach
<1>6. currentTab' = WebTab(at) /\ at \in DOMAIN tabs' /\ connecting' \in 0 .. Len(tabs')
      /\ missed' \in 0 .. Len(tabs')
  BY <1>1, <1>2, <1>3, <1>4, TabsTypes DEF ShowTab
<1>7. WebTabsTypeOK'
  BY <1>1, <1>3, <1>4, <1>5, <1>6 DEF TabsInv, WebTabsTypeOK, Tab
<1>8. NoPageForgotten' /\ OneTabEach' /\ Asked'
  BY <1>1, <1>3, <1>4 DEF TabsInv, NoPageForgotten, OneTabEach, Asked, Remembered, AllRemembered
<1>9. QED
  BY <1>4, <1>5, <1>7, <1>8 DEF TabsInv

LEMMA LoadedType == ASSUME NEW tab \in Tab PROVE [tab EXCEPT !.loaded = TRUE] \in Tab
BY DEF Tab

LEMMA NewTabKeeps ==
    ASSUME TabsInv, NEW t \in WebTypes, NEW gets \in BOOLEAN, GotoNewTab(t, gets)
    PROVE  TabsInv'
<1> DEFINE at == webviewPages[t]
           new == Len(tabs) + 1
           made == [NewTab(t) EXCEPT !.loaded = TRUE]
           tab == IF gets THEN LoadURL(made) ELSE NewTab(t)
           pages == IF at = 0 THEN [webviewPages EXCEPT ![t] = new] ELSE webviewPages
<1>1. /\ libraryLoaded' \in BOOLEAN /\ tabs' = Append(tabs, tab)
      /\ RequestWebAuthToken(new, gets) /\ webviewPages' = pages
      /\ ShowTab(WebTab(new), pages)
      /\ UNCHANGED <<browserAllowed, tokenCached, missed>>
  BY DEF GotoNewTab
<1>8. /\ tokenRequests' \in 0..MaxTokens /\ tokensUsed' \in 0..MaxTokens /\ Counted'
      /\ connecting' \in {0, new} /\ (connecting' # 0 => tokenRequests' > 0)
      /\ (gets /\ ~tokenCached => connecting' = new)
      /\ \A j \in 1 .. Len(tabs) : Remembered(tabs[j], connecting' = j, tokenRequests' > 0 \/ missed' = j)
  <2>1. new \in Nat \ {0} /\ RequestWebAuthToken(new, gets) /\ missed' = missed
    BY <1>1, TabsTypes
  <2> HIDE DEF new
  <2>2. QED
    BY <2>1, AskKeeps
<1>2. tab \in Tab /\ Remembered(tab, connecting' = new, tokenRequests' > 0 \/ missed' = new)
  <2>1. NewTab(t) \in Tab /\ NewTab(t).page = "none"
    BY DEF NewTab, Tab
  <2>2. made \in Tab
    BY <2>1, LoadedType
  <2> HIDE DEF made, new
  <2>3. CASE gets
    BY <1>8, <2>2, <2>3, LoadRemembers, TabsTypes
  <2>4. CASE ~gets
    BY <2>1, <2>4 DEF Remembered
  <2>5. QED
    BY <2>3, <2>4
<1> HIDE DEF tab
<1>3. /\ tabs' \in Seq(Tab) /\ Len(tabs') = new /\ new \in DOMAIN tabs'
      /\ \A j \in 1 .. new : Remembered(tabs'[j], connecting' = j, tokenRequests' > 0 \/ missed' = j)
  <2>1. tabs' \in Seq(Tab) /\ Len(tabs') = new /\ new \in DOMAIN tabs'
    BY <1>1, <1>2, TabsTypes
  <2>2. \A j \in 1 .. new : tabs'[j] = IF j = new THEN tab ELSE tabs[j]
    BY <1>1, TabsTypes
  <2>3. \A j \in 1 .. new : j # new => j \in 1 .. Len(tabs)
    BY TabsTypes
  <2> HIDE DEF new
  <2>4. QED
    BY <1>2, <1>8, <2>1, <2>2, <2>3
<1>4. webviewPages \in [WebTypes -> 0 .. Len(tabs)] /\ Len(tabs) \in Nat
  BY TabsTypes DEF TabsInv, WebTabsTypeOK
<1>5. /\ pages \in [WebTypes -> 0 .. new] /\ pages \in [WebTypes -> Nat]
      /\ \A u, v \in WebTypes : pages[u] = pages[v] /\ pages[u] # 0 => u = v
  <2>1. CASE at = 0
    <3>1. pages = [webviewPages EXCEPT ![t] = new]
      BY <2>1
    <3>2. \A u \in WebTypes : pages[u] = IF u = t THEN new ELSE webviewPages[u]
      BY <1>4, <3>1
    <3>3. QED
      BY <1>4, <3>1, <3>2 DEF TabsInv, OneTabEach
  <2>2. CASE at # 0
    BY <1>4, <2>2 DEF TabsInv, OneTabEach
  <2>3. QED
    BY <2>1, <2>2
<1> HIDE DEF pages
<1>6. WebTab(new) # currentTab /\ new \in Nat \ {0}
  <2>1. currentTab \in FixedTab \cup {WebTab(i) : i \in 1 .. Len(tabs)}
    BY TabsTypes DEF TabsInv, WebTabsTypeOK
  <2>2. \A i \in 1 .. Len(tabs) : WebTab(new) # WebTab(i)
    BY <1>4 DEF WebTab
  <2>3. WebTab(new) \notin FixedTab
    BY DEF WebTab, FixedTab
  <2>4. QED
    BY <1>4, <2>1, <2>2, <2>3
<1> HIDE DEF new
<1>7. BoldIsShown' /\ boldButton' \in {"games", "console", NoButton} \cup WebTypes
  BY <1>1, <1>5, <1>6, ShowKeepsBold
<1>9. currentTab' = WebTab(new) /\ connecting' \in 0 .. Len(tabs') /\ missed' \in 0 .. Len(tabs')
  <2>1. missed \in 0 .. Len(tabs) /\ Len(tabs) < Len(tabs')
    BY <1>3, TabsTypes DEF new
  <2>2. QED
    BY <1>1, <1>3, <1>6, <1>8, <2>1 DEF ShowTab
<1>10. WebTabsTypeOK'
  BY <1>1, <1>3, <1>5, <1>7, <1>8, <1>9 DEF TabsInv, WebTabsTypeOK, Tab
<1>11. NoPageForgotten' /\ OneTabEach' /\ Asked'
  BY <1>1, <1>3, <1>5, <1>8 DEF NoPageForgotten, OneTabEach, Asked, Remembered
<1>12. QED
  BY <1>7, <1>8, <1>10, <1>11 DEF TabsInv

LEMMA ExpiryKeeps == ASSUME TabsInv, TokenExpires PROVE TabsInv'
<1>1. /\ tabs' = tabs /\ tokenRequests' = tokenRequests /\ tokensUsed' = tokensUsed + 1
      /\ tokenCached' = FALSE /\ tokensUsed < MaxTokens
      /\ UNCHANGED <<browserAllowed, libraryLoaded, webviewPages, currentTab, boldButton, connecting,
                     missed>>
  BY DEF TokenExpires
<1>2. /\ tokenRequests' \in 0..MaxTokens /\ tokensUsed' \in 0..MaxTokens
      /\ tokenRequests' <= tokensUsed'
  BY <1>1, WebTabsAssumption DEF TabsInv, WebTabsTypeOK, Counted
<1>3. Asked' /\ AllRemembered(tabs', connecting', tokenRequests', missed')
  BY <1>1, TabsTypes DEF TabsInv, Asked
<1>4. QED
  BY <1>1, <1>2, <1>3, PagesKeep, TabsTypes DEF Counted

LEMMA TabsStep == TabsInv /\ [WebTabsNext]_webTabsVars => TabsInv'
<1> SUFFICES ASSUME TabsInv, [WebTabsNext]_webTabsVars PROVE TabsInv'
  OBVIOUS
<1>1. ASSUME NEW ok \in BOOLEAN, WebAuthRequestCallback(ok) PROVE TabsInv'
  BY <1>1, AnswerKeeps
<1>2. ASSUME NEW i \in DOMAIN tabs, Reload(i) PROVE TabsInv'
  BY <1>2, ReloadKeeps
<1>3. CASE TokenExpires \/ Connect
  BY <1>3, ExpiryKeeps, ConnectKeeps
<1>4. ASSUME NEW tab \in FixedTab, on_fixedButton_clicked(tab) PROVE TabsInv'
  BY <1>4, ButtonKeeps
<1>5. ASSUME NEW t \in WebTypes, NEW url \in BOOLEAN, GotoLoadedTab(t, url) PROVE TabsInv'
  BY <1>5, LoadedKeeps
<1>6. ASSUME NEW t \in WebTypes, NEW gets \in BOOLEAN, GotoNewTab(t, gets) PROVE TabsInv'
  BY <1>6, NewTabKeeps
<1>7. CASE UNCHANGED webTabsVars
  BY <1>7 DEF webTabsVars, TabsInv, WebTabsTypeOK, NoPageForgotten, BoldIsShown, OneTabEach,
              Counted, Asked
<1>8. QED
  BY <1>1, <1>2, <1>3, <1>4, <1>5, <1>6, <1>7 DEF WebTabsNext

LEMMA TabsAlways == WebTabsSpec => []TabsInv
BY TabsInit, TabsStep, PTL DEF WebTabsSpec

\* The tabs, what they show and the tokens asked for are well formed, however
\* the answers interleave with what the user opens (MainWindow::GotoWebviewTab).
THEOREM WebTabsTypeCorrect == WebTabsSpec => []WebTabsTypeOK
BY TabsAlways, PTL DEF TabsInv

\* A page loaded without a token waits for an answer still to come, is about to
\* be loaded again or was refused, unless an answer came between its request and
\* its connection (DynamicWebViewWidget::LoadURL and OnWebAuthRequestCallback).
THEOREM EveryPageIsRemembered == WebTabsSpec => []NoPageForgotten
BY TabsAlways, PTL DEF TabsInv

\* The header button in bold is that of the page shown
\* (MainWindow::on_tabWidget_currentChanged).
THEOREM BoldButtonIsRight == WebTabsSpec => []BoldIsShown
BY TabsAlways, PTL DEF TabsInv

-----------------------------------------------------------------------------
(***************************************************************************)
(* Folders.  Every change of the list is made by a window that loads the   *)
(* list again, so the window that did so last shows steamclient's list;    *)
(* and the map of the install dialogs is the box of the newest one.        *)
(***************************************************************************)
ChosenTypes ==
    /\ chosen \in Seq(Nat) /\ Len(chosen) = Len(installBoxes)
    /\ \A d \in 1 .. Len(chosen) : chosen[d] \in 0 .. Len(installBoxes[d])

FoldersTypes ==
    /\ folders \in Seq(Paths)
    /\ folderChanges \in 0..MaxFolderChanges
    /\ folderLists \in Seq(Seq(Paths)) /\ Len(folderLists) <= MaxSettingsWindows
    /\ loadedLast \in 0..Len(folderLists)
    /\ installBoxes \in Seq(Seq(Paths)) /\ Len(installBoxes) <= MaxInstallDialogs
    /\ ChosenTypes
    /\ installed \in [shown : Path, used : Path] /\ ended \in BOOLEAN

FoldersOf(box) == [i \in 1..Len(box) |-> [folderIndex |-> i, path |-> box[i]]]

FoldersInv ==
    /\ FoldersTypes
    /\ IsInjective(folders)
    /\ loadedLast # 0 => folderLists[loadedLast] = folders
    /\ libraryFolders = IF installBoxes = <<>> THEN <<>>
                        ELSE FoldersOf(installBoxes[Len(installBoxes)])

LEMMA FoldersInitInv == FoldersInit => FoldersInv
<1> SUFFICES ASSUME FoldersInit PROVE FoldersInv
  OBVIOUS
<1>1. folders \in Seq(Paths) /\ Len(folders) = 1
  <2>1. PICK p \in Paths : folders = <<p>>
    BY DEF FoldersInit
  <2>2. QED
    BY <2>1
<1>2. installed \in [shown : Path, used : Path]
  BY DEF FoldersInit, NotInstalled, Path
<1>3. ChosenTypes
  BY DEF FoldersInit, ChosenTypes
<1>4. FoldersTypes
  <2>1. /\ folderLists \in Seq(Seq(Paths)) /\ Len(folderLists) = 0
        /\ installBoxes \in Seq(Seq(Paths)) /\ Len(installBoxes) = 0
    BY DEF FoldersInit
  <2>2. loadedLast = 0 /\ folderChanges = 0 /\ ended \in BOOLEAN
    BY DEF FoldersInit
  <2>3. QED
    BY <1>1, <1>2, <1>3, <2>1, <2>2, FoldersAssumption DEF FoldersTypes
<1>5. QED
  BY <1>1, <1>4 DEF FoldersInit, FoldersInv, IsInjective

\* A window loads the list fs.
LEMMA LoadLibraryFoldersIs ==
    ASSUME FoldersTypes, NEW w \in 1..(Len(folderLists) + 1), NEW fs \in Seq(Paths),
           LoadLibraryFolders(w, fs)
    PROVE  /\ folderLists' \in Seq(Seq(Paths))
           /\ Len(folderLists') = IF w \in DOMAIN folderLists THEN Len(folderLists)
                                                              ELSE Len(folderLists) + 1
           /\ loadedLast' = w /\ w <= Len(folderLists') /\ folderLists'[w] = fs
<1> DEFINE n == IF w \in DOMAIN folderLists THEN Len(folderLists) ELSE Len(folderLists) + 1
<1>1. folderLists \in Seq(Seq(Paths)) /\ Len(folderLists) \in Nat /\ DOMAIN folderLists = 1..Len(folderLists)
  BY DEF FoldersTypes
<1>2. DOMAIN folderLists \cup {w} = 1..n /\ n \in Nat /\ w \in 1..n
  BY <1>1
<1>3. folderLists' = [i \in 1..n |-> IF i = w THEN fs ELSE folderLists[i]]
  BY <1>2 DEF LoadLibraryFolders
<1>4. \A i \in 1..n : i # w => folderLists[i] \in Seq(Paths)
  BY <1>1, <1>2
<1> HIDE DEF n
<1>5. folderLists' \in [1..n -> Seq(Paths)]
  BY <1>3, <1>4
<1>6. folderLists' \in Seq(Seq(Paths)) /\ Len(folderLists') = n
  BY <1>2, <1>3, <1>5
<1>7. QED
  BY <1>2, <1>3, <1>6 DEF LoadLibraryFolders, n

\* What is left when the folder at row is removed.
LEMMA RemovedIs ==
    ASSUME NEW S, NEW s \in Seq(S), NEW row \in 1..Len(s),
           IsInjective(s)
    PROVE  LET t == RemoveAt(s, row)
           IN  /\ t \in Seq(S) /\ ToSet(t) = ToSet(s) \ {s[row]}
               /\ IsInjective(t)
<1> DEFINE t == RemoveAt(s, row)
<1>1. /\ t \in Seq(S) /\ Len(t) = Len(s) - 1
      /\ \A i \in 1 .. Len(s) - 1 : t[i] = IF i < row THEN s[i] ELSE s[i + 1]
  <2> DEFINE u == SubSeq(s, 1, row - 1)
             v == SubSeq(s, row + 1, Len(s))
  <2>1. u \in Seq(S) /\ Len(u) = row - 1 /\ \A i \in 1 .. row - 1 : u[i] = s[i]
    OBVIOUS
  <2>2. v \in Seq(S) /\ Len(v) = Len(s) - row /\ \A i \in 1 .. Len(s) - row : v[i] = s[row + i]
    OBVIOUS
  <2>3. t = u \o v
    BY DEF RemoveAt
  <2> HIDE DEF t, u, v
  <2>4. t \in Seq(S) /\ Len(t) = Len(s) - 1
    BY <2>1, <2>2, <2>3
  <2>5. \A i \in 1 .. row - 1 : t[i] = s[i]
    BY <2>1, <2>2, <2>3
  <2>6. \A i \in row .. Len(s) - 1 : t[i] = s[i + 1]
    <3> SUFFICES ASSUME NEW i \in row .. Len(s) - 1 PROVE t[i] = s[i + 1]
      OBVIOUS
    <3>1. i - (row - 1) \in 1 .. Len(s) - row /\ row + (i - (row - 1)) = i + 1
      OBVIOUS
    <3>2. t[i] = v[i - (row - 1)]
      BY <2>1, <2>2, <2>3
    <3>3. QED
      BY <2>2, <3>1, <3>2
  <2>7. QED
    BY <2>4, <2>5, <2>6
<1> HIDE DEF t
<1>2. DOMAIN t = 1 .. Len(s) - 1 /\ DOMAIN s = 1..Len(s)
  BY <1>1
<1>3. ASSUME NEW i \in DOMAIN t, NEW j \in DOMAIN t, t[i] = t[j] PROVE i = j
  BY <1>1, <1>2, <1>3 DEF IsInjective
<1>4. ASSUME NEW i \in DOMAIN t PROVE t[i] \in ToSet(s) \ {s[row]}
  <2>1. PICK j \in DOMAIN s : j # row /\ t[i] = s[j]
    BY <1>1, <1>2
  <2>2. s[j] # s[row]
    BY <1>2, <2>1 DEF IsInjective
  <2>3. QED
    BY <2>1, <2>2 DEF ToSet
<1>5. ASSUME NEW i \in DOMAIN s, i # row PROVE s[i] \in ToSet(t)
  <2>1. CASE i < row
    <3>1. i \in DOMAIN t /\ t[i] = s[i]
      BY <1>1, <1>2, <2>1
    <3>2. QED
      BY <3>1 DEF ToSet
  <2>2. CASE i > row
    <3>1. i - 1 \in DOMAIN t /\ t[i - 1] = s[i]
      BY <1>1, <1>2, <2>2
    <3>2. QED
      BY <3>1 DEF ToSet
  <2>3. QED
    BY <1>2, <1>5, <2>1, <2>2
<1>6. ToSet(t) = ToSet(s) \ {s[row]}
  <2>1. ToSet(t) \subseteq ToSet(s) \ {s[row]}
    BY <1>4 DEF ToSet
  <2>2. ToSet(s) \ {s[row]} \subseteq ToSet(t)
    BY <1>5 DEF ToSet
  <2>3. QED
    BY <2>1, <2>2
<1>7. QED
  BY <1>1, <1>3, <1>6 DEF t, IsInjective

\* A window changes steamclient's list and loads the result.
LEMMA ChangeIsShown ==
    ASSUME FoldersInv, NEW w \in 1..Len(folderLists), folders' \in Seq(Paths), IsInjective(folders'),
           folderChanges < MaxFolderChanges, folderChanges' = folderChanges + 1,
           LoadLibraryFolders(w, folders'),
           UNCHANGED <<installBoxes, chosen, libraryFolders, installed, ended>>
    PROVE  FoldersInv'
<1>1. folderChanges' \in 0..MaxFolderChanges /\ Len(folderLists) \in Nat
  BY FoldersAssumption DEF FoldersInv, FoldersTypes
<1>2. w \in DOMAIN folderLists /\ w \in 1..(Len(folderLists) + 1)
  BY <1>1 DEF FoldersInv, FoldersTypes
<1>3. /\ folderLists' \in Seq(Seq(Paths)) /\ Len(folderLists') = Len(folderLists)
      /\ loadedLast' = w /\ w <= Len(folderLists') /\ folderLists'[w] = folders'
  BY <1>2, LoadLibraryFoldersIs DEF FoldersInv
<1>4. ChosenTypes'
  BY DEF FoldersInv, FoldersTypes, ChosenTypes
<1>5. QED
  BY <1>1, <1>3, <1>4 DEF FoldersInv, FoldersTypes

LEMMA openSettingsKeeps == ASSUME FoldersInv, openSettings PROVE FoldersInv'
<1>1. folders \in Seq(Paths) /\ Len(folderLists) \in Nat /\ Len(folderLists) + 1 \notin DOMAIN folderLists
  BY DEF FoldersInv, FoldersTypes
<1>2. /\ folderLists' \in Seq(Seq(Paths)) /\ Len(folderLists') = Len(folderLists) + 1
      /\ loadedLast' = Len(folderLists) + 1 /\ folderLists'[loadedLast'] = folders
  BY <1>1, LoadLibraryFoldersIs DEF FoldersInv, openSettings
<1>3. ChosenTypes'
  BY DEF FoldersInv, FoldersTypes, ChosenTypes, openSettings
<1>4. QED
  BY <1>1, <1>2, <1>3, FoldersAssumption DEF FoldersInv, FoldersTypes, openSettings

LEMMA ChangesKeep ==
    ASSUME FoldersInv, NEW w \in DOMAIN folderLists, NEW fs \in Seq(Paths), IsInjective(fs),
           Changes(w, fs)
    PROVE  FoldersInv'
<1>1. w \in 1..Len(folderLists) /\ folders \in Seq(Paths) /\ IsInjective(folders)
  BY DEF FoldersInv, FoldersTypes
<1>2. folders' \in Seq(Paths) /\ IsInjective(folders')
  BY <1>1 DEF Changes
<1>3. QED
  BY <1>1, <1>2, ChangeIsShown DEF Changes

LEMMA addFolderKeeps ==
    ASSUME FoldersInv, NEW w \in DOMAIN folderLists, NEW p \in Paths, on_addFolderButton_clicked(w, p)
    PROVE  FoldersInv'
<1> DEFINE fs == Append(folders, p)
<1>1. folders \in Seq(Paths) /\ p \notin ToSet(folders) /\ IsInjective(folders)
  BY DEF FoldersInv, FoldersTypes, on_addFolderButton_clicked
<1>2. fs \in Seq(Paths)
  BY <1>1
<1>3. IsInjective(fs)
  <2>1. \A i \in DOMAIN folders : folders[i] # p
    BY <1>1 DEF ToSet
  <2>2. QED
    BY <1>1, <2>1 DEF IsInjective
<1> HIDE DEF fs
<1>4. Changes(w, fs)
  BY DEF on_addFolderButton_clicked, fs
<1>5. QED
  BY <1>2, <1>3, <1>4, ChangesKeep

LEMMA deleteFolderKeeps ==
    ASSUME FoldersInv, NEW w \in DOMAIN folderLists, NEW row \in DOMAIN folderLists[w],
           on_deleteFolderButton_clicked(w, row)
    PROVE  FoldersInv'
<1> DEFINE fs == IF row <= Len(folders) THEN RemoveAt(folders, row) ELSE folders
<1>1. folders \in Seq(Paths) /\ IsInjective(folders) /\ row \in Nat \ {0}
  BY DEF FoldersInv, FoldersTypes
<1>2. fs \in Seq(Paths) /\ IsInjective(fs)
  BY <1>1, RemovedIs
<1> HIDE DEF fs
<1>3. Changes(w, fs)
  BY DEF on_deleteFolderButton_clicked, fs
<1>4. QED
  BY <1>2, <1>3, ChangesKeep

LEMMA AppendedIs ==
    ASSUME NEW S, NEW s \in Seq(S), NEW e \in S
    PROVE  /\ Append(s, e) \in Seq(S) /\ Len(Append(s, e)) = Len(s) + 1 /\ Len(s) \in Nat
           /\ Append(s, e) # <<>> /\ Append(s, e)[Len(Append(s, e))] = e
OBVIOUS

LEMMA openInstallDialogKeeps == ASSUME FoldersInv, openInstallDialog PROVE FoldersInv'
<1>1. /\ folders \in Seq(Paths) /\ installBoxes \in Seq(Seq(Paths))
      /\ Len(installBoxes) < MaxInstallDialogs /\ installBoxes' = Append(installBoxes, folders)
      /\ chosen' = Append(chosen, 0) /\ libraryFolders' = FoldersOf(folders)
      /\ UNCHANGED <<folders, folderChanges, folderLists, loadedLast, installed, ended>>
  BY DEF FoldersInv, FoldersTypes, openInstallDialog, PopulateLibraryFolders, FoldersOf
<1>2. /\ installBoxes' \in Seq(Seq(Paths)) /\ Len(installBoxes') = Len(installBoxes) + 1
      /\ installBoxes' # <<>> /\ installBoxes'[Len(installBoxes')] = folders
      /\ Len(installBoxes) \in Nat
  <2>1. folders \in Seq(Paths) /\ installBoxes' = Append(installBoxes, folders)
    BY <1>1
  <2>2. installBoxes \in Seq(Seq(Paths))
    BY <1>1
  <2>3. QED
    BY <2>1, <2>2, AppendedIs
<1>3. ChosenTypes'
  <2>1. chosen \in Seq(Nat) /\ Len(chosen) = Len(installBoxes)
    BY DEF FoldersInv, FoldersTypes, ChosenTypes
  <2>2. chosen' \in Seq(Nat) /\ Len(chosen') = Len(chosen) + 1
    BY <1>1, <2>1
  <2>3. ASSUME NEW d \in 1 .. Len(chosen') PROVE chosen'[d] \in 0 .. Len(installBoxes'[d])
    <3>1. CASE d = Len(chosen')
      BY <1>1, <1>2, <2>1, <2>2, <3>1
    <3>2. CASE d # Len(chosen')
      <4>1. d \in 1 .. Len(chosen)
        BY <1>2, <2>1, <2>2, <3>2
      <4>2. chosen'[d] = chosen[d] /\ installBoxes'[d] = installBoxes[d]
        BY <1>1, <2>1, <4>1
      <4>3. QED
        BY <4>1, <4>2 DEF FoldersInv, FoldersTypes, ChosenTypes
    <3>3. QED
      BY <3>1, <3>2
  <2>4. QED
    BY <1>2, <2>1, <2>2, <2>3 DEF ChosenTypes
<1>4. FoldersTypes'
  BY <1>1, <1>2, <1>3, FoldersAssumption DEF FoldersInv, FoldersTypes
<1>5. QED
  BY <1>1, <1>2, <1>4 DEF FoldersInv

\* The newest dialog finds all its items in the map.
LEMMA NewestIsInMap ==
    ASSUME FoldersInv, NEW i \in Nat \ {0}, installBoxes # <<>>,
           i <= Len(installBoxes[Len(installBoxes)])
    PROVE  i \in DOMAIN libraryFolders
<1> DEFINE newest == installBoxes[Len(installBoxes)]
<1>1. newest \in Seq(Paths) /\ libraryFolders = FoldersOf(newest)
  BY DEF FoldersInv, FoldersTypes
<1> HIDE DEF newest
<1>2. i <= Len(newest)
  BY DEF newest
<1>3. QED
  BY <1>1, <1>2 DEF FoldersOf

LEMMA activatedIs ==
    ASSUME FoldersInv, NEW d \in DOMAIN installBoxes, NEW i \in 0 .. Len(installBoxes[d]),
           on_installLocationBox_activated(d, i)
    PROVE  FoldersInv' /\ (d = Len(installBoxes) => ~ended')
<1>1. /\ chosen' = [chosen EXCEPT ![d] = i] /\ ended' = (i \notin {0} \cup DOMAIN libraryFolders)
      /\ UNCHANGED <<folders, folderChanges, folderLists, loadedLast, installBoxes,
                     libraryFolders, installed>>
  BY DEF on_installLocationBox_activated
<1>2. /\ d \in 1 .. Len(installBoxes) /\ installBoxes # <<>> /\ i \in Nat
      /\ chosen \in Seq(Nat) /\ Len(chosen) = Len(installBoxes)
  BY DEF FoldersInv, FoldersTypes, ChosenTypes
<1>3. /\ chosen' \in Seq(Nat) /\ Len(chosen') = Len(installBoxes)
      /\ \A e \in 1 .. Len(chosen) : chosen'[e] = IF e = d THEN i ELSE chosen[e]
  BY <1>1, <1>2
<1>4. ChosenTypes'
  BY <1>1, <1>2, <1>3 DEF FoldersInv, FoldersTypes, ChosenTypes
<1>5. FoldersInv'
  BY <1>1, <1>4 DEF FoldersInv, FoldersTypes
<1>6. ASSUME d = Len(installBoxes) PROVE ~ended'
  <2>1. CASE i = 0
    BY <1>1, <2>1
  <2>2. CASE i # 0
    <3>1. installBoxes[d] \in Seq(Paths)
      BY <1>2 DEF FoldersInv, FoldersTypes
    <3>2. i <= Len(installBoxes[Len(installBoxes)])
      BY <1>6, <3>1
    <3>3. QED
      BY <1>1, <1>2, <2>2, <3>2, NewestIsInMap
  <2>3. QED
    BY <2>1, <2>2
<1>7. QED
  BY <1>5, <1>6

\* What Next does in a dialog: the newest one finds its own folders in the map.
LEMMA installIntoIs ==
    ASSUME FoldersInv, NEW d \in DOMAIN installBoxes, installInto(d)
    PROVE  /\ installed' \in [shown : Path, used : Path] /\ ended' \in BOOLEAN
           /\ d = Len(installBoxes) => ~ended'
           /\ folders = installBoxes[d] /\ ~ended' => installed'.used = installBoxes[d][chosen[d]]
<1> DEFINE newest == installBoxes[Len(installBoxes)]
           i == chosen[d]
<1>1. /\ installBoxes \in Seq(Seq(Paths)) /\ folders \in Seq(Paths)
      /\ d \in 1..Len(installBoxes) /\ installBoxes # <<>> /\ installBoxes[d] \in Seq(Paths)
      /\ i \in 0 .. Len(installBoxes[d]) /\ i # 0
  BY DEF FoldersInv, FoldersTypes, ChosenTypes, installInto
<1>2. newest \in Seq(Paths) /\ libraryFolders = FoldersOf(newest)
  BY <1>1 DEF FoldersInv
<1> HIDE DEF newest
<1>3. /\ installBoxes[d][i] \in Path /\ i \in Nat \ {0}
      /\ i \in DOMAIN installBoxes[d]
  BY <1>1 DEF Path
<1>4. CASE i \notin DOMAIN libraryFolders
  <2>1. installed' = NotInstalled /\ ended' = TRUE
    BY <1>4 DEF installInto
  <2>2. d # Len(installBoxes)
    BY <1>1, <1>3, <1>4, NewestIsInMap
  <2>3. QED
    BY <2>1, <2>2 DEF NotInstalled, Path
<1>5. CASE i \in DOMAIN libraryFolders
  <2>1. libraryFolders[i].folderIndex = i
    BY <1>2, <1>5 DEF FoldersOf
  <2>2. /\ ended' = FALSE
        /\ installed' = [shown |-> installBoxes[d][i],
                         used |-> IF i <= Len(folders) THEN folders[i] ELSE Nowhere]
    BY <1>5, <2>1 DEF installInto
  <2>3. (IF i <= Len(folders) THEN folders[i] ELSE Nowhere) \in Path
    BY <1>1, <1>3 DEF Path
  <2>4. folders = installBoxes[d] => i <= Len(folders)
    BY <1>1, <1>3
  <2>5. QED
    BY <1>1, <1>3, <2>2, <2>3, <2>4
<1>6. QED
  BY <1>4, <1>5

LEMMA FoldersNextInv == FoldersInv /\ [FoldersNext]_foldersVars => FoldersInv'
<1> SUFFICES ASSUME FoldersInv, [FoldersNext]_foldersVars PROVE FoldersInv'
  OBVIOUS
<1>1. CASE UNCHANGED foldersVars
  BY <1>1 DEF foldersVars, FoldersInv, FoldersTypes, ChosenTypes
<1>2. ASSUME NEW d \in DOMAIN installBoxes, installInto(d) PROVE FoldersInv'
  <2>1. UNCHANGED <<folders, folderChanges, folderLists, loadedLast, installBoxes, chosen,
                    libraryFolders>>
    BY <1>2 DEF installInto
  <2>2. installed' \in [shown : Path, used : Path] /\ ended' \in BOOLEAN
    BY <1>2, installIntoIs
  <2>3. QED
    BY <2>1, <2>2 DEF FoldersInv, FoldersTypes, ChosenTypes
<1>3. CASE openInstallDialogThrows
  BY <1>3 DEF openInstallDialogThrows, FoldersInv, FoldersTypes, ChosenTypes
<1>4. QED
  BY <1>1, <1>2, <1>3, openSettingsKeeps, addFolderKeeps, deleteFolderKeeps, openInstallDialogKeeps,
     activatedIs
  DEF FoldersNext

LEMMA FoldersAlways == FoldersSpec => []FoldersInv
BY FoldersInitInv, FoldersNextInv, PTL DEF FoldersSpec

\* The types of Folders' variables.
THEOREM FoldersTypeCorrect == FoldersSpec => []FoldersTypeOK
<1>1. FoldersInv => FoldersTypeOK
  <2> SUFFICES ASSUME FoldersInv PROVE FoldersTypeOK
    OBVIOUS
  <2>1. \A i \in DOMAIN libraryFolders :
            i \in Nat /\ libraryFolders[i] \in [folderIndex : Nat, path : Paths]
    <3>1. CASE installBoxes = <<>>
      BY <3>1 DEF FoldersInv
    <3>2. CASE installBoxes # <<>>
      <4>1. installBoxes[Len(installBoxes)] \in Seq(Paths)
        BY <3>2 DEF FoldersInv, FoldersTypes
      <4>2. QED
        BY <3>2, <4>1 DEF FoldersInv, FoldersOf
    <3>3. QED
      BY <3>1, <3>2
  <2>2. loadedLast \in 0..MaxSettingsWindows
    BY FoldersAssumption DEF FoldersInv, FoldersTypes
  <2>3. /\ Len(chosen) = Len(installBoxes)
        /\ \A d \in DOMAIN chosen : chosen[d] \in 0 .. Len(installBoxes[d])
    BY DEF FoldersInv, FoldersTypes, ChosenTypes
  <2>4. QED
    BY <2>1, <2>2, <2>3 DEF FoldersInv, FoldersTypes, FoldersTypeOK
<1>2. QED
  BY <1>1, FoldersAlways, PTL

\* The AppSettingsWindow that was used last deletes no folder but the one it shows
\* (AppSettingsWindow::on_deleteFolderButton_clicked).
THEOREM LastWindowDeletesNoOther == FoldersSpec => DeletesNoOther
<1>1. ASSUME FoldersInv, NEW w \in DOMAIN folderLists, NEW row \in DOMAIN folderLists[w],
             w = loadedLast, on_deleteFolderButton_clicked(w, row)
      PROVE  ToSet(folders) \ {folderLists[w][row]} \subseteq ToSet(folders')
  <2>1. w # 0 /\ folderLists[w] = folders /\ folders \in Seq(Paths) /\ IsInjective(folders)
    BY <1>1 DEF FoldersInv, FoldersTypes
  <2>2. row \in 1..Len(folders) /\ folders' \in {folders, RemoveAt(folders, row)}
    BY <1>1, <2>1 DEF on_deleteFolderButton_clicked, Changes
  <2>3. QED
    BY <2>1, <2>2, RemovedIs
<1>2. FoldersInv /\ [FoldersNext]_foldersVars =>
          \A w \in DOMAIN folderLists : \A row \in DOMAIN folderLists[w] :
              w = loadedLast /\ on_deleteFolderButton_clicked(w, row)
                  => ToSet(folders) \ {folderLists[w][row]} \subseteq ToSet(folders')
  BY <1>1
<1>3. QED
  BY <1>2, FoldersAlways, PTL DEF FoldersSpec, DeletesNoOther

\* A dialog whose folders are still steamclient's installs where it says, and the
\* newest dialog finds all its items (InstallGameDialog::on_installLocationBox_activated
\* and on_InstallGameDialog_currentIdChanged).
THEOREM DialogInstallsWhereItSays == FoldersSpec => InstallsWhereItSays
<1>1. FoldersInv /\ [FoldersNext]_foldersVars =>
          \A d \in DOMAIN installBoxes :
              /\ d = Len(installBoxes) =>
                     /\ installInto(d) => ~ended'
                     /\ \A i \in 0 .. Len(installBoxes[d]) :
                            on_installLocationBox_activated(d, i) => ~ended'
              /\ installInto(d) /\ folders = installBoxes[d] /\ ~ended'
                     => installed'.used = installBoxes[d][chosen[d]]
  BY installIntoIs, activatedIs
<1>2. QED
  BY <1>1, FoldersAlways, PTL DEF FoldersSpec, InstallsWhereItSays

-----------------------------------------------------------------------------
(***************************************************************************)
(* CompatTools.  The box of the window that was opened or used last shows  *)
(* the tool that is used from the moment it is filled, and each of its     *)
(* changes is followed by one of the tool.                                 *)
(***************************************************************************)
Box == [items : Seq(WindowsTools), index : Nat, visible : BOOLEAN]

\* The box shows the tool; ShowsAllowed, if the tool is one of its items.
Shows(box, tool) == box.index \in DOMAIN box.items /\ box.items[box.index] = tool
ShowsDefault(box, tool) == box.visible => Shows(box, tool)
ShowsAllowed(box, tool) == box.visible /\ tool \in ToSet(box.items) => Shows(box, tool)

DefaultsInv ==
    /\ compatLayer \in BOOLEAN /\ defaultTool \in WindowsTools \cup {NoTool}
    /\ defaultBoxes \in Seq(Box) /\ lastDefault \in 0..Len(defaultBoxes)
    /\ lastDefault # 0 => ShowsDefault(defaultBoxes[lastDefault], defaultTool)

GamesInv ==
    /\ gameTool \in WindowsTools \cup {NoTool}
    /\ gameBoxes \in Seq(Box) /\ lastGame \in 0..Len(gameBoxes)
    /\ lastGame # 0 => ShowsAllowed(gameBoxes[lastGame], gameTool)

CompatInv ==
    /\ compatTools \in Seq(WindowsTools) /\ toolChanges \in 0..MaxToolChanges
    /\ DefaultsInv /\ GamesInv

LEMMA CompatInitInv == CompatInit => CompatInv
<1> SUFFICES ASSUME CompatInit PROVE CompatInv
  OBVIOUS
<1>1. compatTools \in Seq(WindowsTools)
  BY CompatToolsAssumption, PermutationIs DEF CompatInit, SetToAllKPermutations
<1>2. DefaultsInv
  BY DEF CompatInit, DefaultsInv
<1>3. GamesInv
  BY DEF CompatInit, GamesInv
<1>4. QED
  BY <1>1, <1>2, <1>3, CompatToolsAssumption DEF CompatInit, CompatInv

\* A window more.
LEMMA OneBoxMore ==
    ASSUME NEW boxes \in Seq(Box), NEW box \in Box
    PROVE  LET new == Append(boxes, box)
           IN  new \in Seq(Box) /\ Len(boxes) + 1 \in 1..Len(new) /\ new[Len(boxes) + 1] = box
OBVIOUS

\* Another box in a window.
LEMMA OneBoxChanged ==
    ASSUME NEW boxes \in Seq(Box), NEW w \in DOMAIN boxes, NEW box \in Box
    PROVE  LET new == [boxes EXCEPT ![w] = box]
           IN  new \in Seq(Box) /\ w \in 1..Len(new) /\ new[w] = box
OBVIOUS

LEMMA EmptyIsABox == EmptyBox \in Box /\ ~EmptyBox.visible
BY DEF EmptyBox, Box

\* The tool that is looked for is found, when it is there.
LEMMA PopulateCompatToolsIs ==
    ASSUME gameTool \in WindowsTools \cup {NoTool}, NEW allowed \in Seq(WindowsTools)
    PROVE  LET box == PopulateCompatTools(allowed)
           IN  /\ box \in Box /\ box.items = allowed
               /\ gameTool \in ToSet(allowed) =>
                     box.index \in DOMAIN allowed /\ allowed[box.index] = gameTool
<1> DEFINE box == PopulateCompatTools(allowed)
           I == {i \in 1..Len(allowed) : allowed[i] = gameTool}
<1>1. CASE gameTool \in ToSet(allowed)
  <2>1. I # {} /\ I \subseteq Nat
    BY <1>1 DEF ToSet
  <2>2. SelectInSeq(allowed, LAMBDA t : t = gameTool) = Min(I)
    BY <2>1 DEF SelectInSeq
  <2>3. Min(I) \in I
    <3>1. \E x \in I : \A y \in I : x <= y
      <4> HIDE DEF I
      <4> QED BY <2>1, LeastNumber
    <3>2. QED
      BY <3>1 DEF Min
  <2>4. box = [items |-> allowed, visible |-> TRUE, index |-> Min(I)]
    <3>1. allowed # <<>>
      BY <1>1 DEF ToSet
    <3> HIDE DEF I
    <3>2. QED
      BY <1>1, <2>2, <3>1 DEF PopulateCompatTools
  <2>5. QED
    BY <2>3, <2>4 DEF Box
<1>2. CASE gameTool \notin ToSet(allowed)
  <2>1. PICK n \in {0, 1} : box = [items |-> allowed, visible |-> TRUE, index |-> n]
    BY <1>2 DEF PopulateCompatTools
  <2>2. QED
    BY <1>2, <2>1 DEF Box
<1>3. QED
  BY <1>1, <1>2

\* A tool is chosen in a box: the box shows it.
LEMMA ChosenIs ==
    ASSUME NEW box \in Box, NEW i \in DOMAIN box.items
    PROVE  LET new == [box EXCEPT !.index = i]
           IN  /\ new \in Box /\ new.items = box.items /\ new.index = i
               /\ box.items[i] \in WindowsTools /\ (new.visible <=> box.visible)
<1>1. box.items \in Seq(WindowsTools) /\ i \in Nat /\ box.items[i] \in WindowsTools
  BY DEF Box
<1>2. [box EXCEPT !.index = i] \in Box
  BY <1>1 DEF Box
<1>3. [box EXCEPT !.index = i].items = box.items /\ [box EXCEPT !.index = i].index = i
  BY DEF Box
<1>4. [box EXCEPT !.index = i].visible = box.visible
  BY Zenon DEF Box
<1>5. QED
  BY <1>1, <1>2, <1>3, <1>4

\* The default's windows.
LEMMA DefaultKeeps ==
    ASSUME CompatInv,
           \/ LoadCompatData
           \/ \E w \in DOMAIN defaultBoxes : \E i \in DOMAIN defaultBoxes[w].items :
                  on_defaultWOLCompatTool_currentIndexChanged(w, i)
           \/ \E enable \in BOOLEAN : on_enableCompatToolsCheck_stateChanged(enable)
    PROVE  CompatInv'
<1>1. toolChanges' \in 0..MaxToolChanges /\ UNCHANGED <<compatTools, gameTool, gameBoxes, lastGame>>
  BY CompatToolsAssumption DEF CompatInv, LoadCompatData, Counts, gameVars,
     on_defaultWOLCompatTool_currentIndexChanged, on_enableCompatToolsCheck_stateChanged
<1>2. /\ defaultBoxes \in Seq(Box) /\ compatTools \in Seq(WindowsTools)
      /\ defaultTool \in WindowsTools \cup {NoTool}
  BY DEF CompatInv, DefaultsInv
<1>3. CASE LoadCompatData
  <2> DEFINE filled == compatLayer /\ compatTools # <<>>
             box == IF filled THEN FilledBox ELSE EmptyBox
  <2>1. compatLayer' \in BOOLEAN
    BY <1>3 DEF LoadCompatData, CompatInv, DefaultsInv
  <2>2. /\ defaultBoxes' = Append(defaultBoxes, box) /\ lastDefault' = Len(defaultBoxes) + 1
        /\ defaultTool' = IF filled THEN compatTools[1] ELSE defaultTool
    BY <1>3 DEF LoadCompatData, OpensDefault
  <2>3. box \in Box /\ defaultTool' \in WindowsTools \cup {NoTool} /\ ShowsDefault(box, defaultTool')
    <3>1. CASE filled
      <4>1. 1 \in DOMAIN compatTools
        BY <1>2, <3>1
      <4>2. QED
        BY <1>2, <2>2, <3>1, <4>1 DEF FilledBox, Box, ShowsDefault, Shows
    <3>2. CASE ~filled
      BY <1>2, <2>2, <3>2, EmptyIsABox DEF ShowsDefault
    <3>3. QED
      BY <3>1, <3>2
  <2> HIDE DEF box
  <2>4. DefaultsInv'
    BY <1>2, <2>1, <2>2, <2>3, OneBoxMore DEF DefaultsInv
  <2>5. QED
    BY <1>1, <2>4 DEF CompatInv, GamesInv
<1>4. ASSUME NEW w \in DOMAIN defaultBoxes, NEW i \in DOMAIN defaultBoxes[w].items,
             on_defaultWOLCompatTool_currentIndexChanged(w, i)
      PROVE  CompatInv'
  <2> DEFINE box == [defaultBoxes[w] EXCEPT !.index = i]
  <2>1. /\ defaultBoxes' = [defaultBoxes EXCEPT ![w] = box] /\ lastDefault' = w
        /\ defaultTool' = defaultBoxes[w].items[i] /\ compatLayer' = compatLayer
    BY <1>4 DEF on_defaultWOLCompatTool_currentIndexChanged
  <2>2. defaultBoxes[w] \in Box
    BY <1>2
  <2>3. box \in Box /\ defaultTool' \in WindowsTools /\ Shows(box, defaultTool')
    BY <2>1, <2>2, ChosenIs DEF Shows
  <2> HIDE DEF box
  <2>4. DefaultsInv'
    BY <1>2, <2>1, <2>3, OneBoxChanged DEF DefaultsInv, ShowsDefault, CompatInv
  <2>5. QED
    BY <1>1, <2>4 DEF CompatInv, GamesInv
<1>5. ASSUME NEW enable \in BOOLEAN, on_enableCompatToolsCheck_stateChanged(enable)
      PROVE  CompatInv'
  BY <1>1, <1>5 DEF on_enableCompatToolsCheck_stateChanged, CompatInv, defaultVars, DefaultsInv,
     GamesInv
<1>6. QED
  BY <1>3, <1>4, <1>5

\* The game's windows.
LEMMA GameKeeps ==
    ASSUME CompatInv,
           \/ \E allowed \in SetToAllKPermutations(WindowsTools) : openGameSettings(allowed)
           \/ \E w \in DOMAIN gameBoxes, enable \in BOOLEAN,
                 allowed \in SetToAllKPermutations(WindowsTools) :
                  on_enableProtonBox_stateChanged(w, enable, allowed)
           \/ \E w \in DOMAIN gameBoxes : \E i \in DOMAIN gameBoxes[w].items :
                  on_compatToolBox_currentIndexChanged(w, i)
    PROVE  CompatInv'
<1>1. /\ toolChanges' \in 0..MaxToolChanges
      /\ UNCHANGED <<compatLayer, compatTools, defaultTool, defaultBoxes, lastDefault>>
  BY CompatToolsAssumption DEF CompatInv, openGameSettings, Counts, defaultVars,
     on_enableProtonBox_stateChanged, on_compatToolBox_currentIndexChanged
<1>2. gameBoxes \in Seq(Box) /\ gameTool \in WindowsTools \cup {NoTool}
  BY DEF CompatInv, GamesInv
<1>3. ASSUME GamesInv' PROVE CompatInv'
  BY <1>1, <1>3 DEF CompatInv, DefaultsInv
<1>4. ASSUME NEW allowed \in SetToAllKPermutations(WindowsTools)
      PROVE  /\ PopulateCompatTools(allowed) \in Box
             /\ ShowsAllowed(PopulateCompatTools(allowed), gameTool)
  <2>1. allowed \in Seq(WindowsTools)
    BY CompatToolsAssumption, PermutationIs DEF SetToAllKPermutations
  <2>2. QED
    BY <1>2, <2>1, PopulateCompatToolsIs DEF ShowsAllowed, Shows
<1>5. ASSUME NEW allowed \in SetToAllKPermutations(WindowsTools), openGameSettings(allowed)
      PROVE  CompatInv'
  <2> DEFINE box == IF gameTool # NoTool THEN PopulateCompatTools(allowed) ELSE EmptyBox
  <2>1. /\ gameBoxes' = Append(gameBoxes, box) /\ lastGame' = Len(gameBoxes) + 1
        /\ gameTool' = gameTool
    BY <1>5 DEF openGameSettings, OpensGame
  <2>2. box \in Box /\ ShowsAllowed(box, gameTool)
    BY <1>4, EmptyIsABox DEF ShowsAllowed
  <2> HIDE DEF box
  <2>3. QED
    BY <1>2, <1>3, <2>1, <2>2, OneBoxMore DEF GamesInv
<1>6. ASSUME NEW w \in DOMAIN gameBoxes, NEW enable \in BOOLEAN,
             NEW allowed \in SetToAllKPermutations(WindowsTools),
             on_enableProtonBox_stateChanged(w, enable, allowed)
      PROVE  CompatInv'
  <2> DEFINE off == [gameBoxes[w] EXCEPT !.visible = FALSE]
             box == IF enable THEN PopulateCompatTools(allowed) ELSE off
  <2>1. gameBoxes[w] \in Box
    BY <1>2
  <2>2. off \in Box /\ off.visible = FALSE
    BY <2>1 DEF Box
  <2>3. /\ gameBoxes' = [gameBoxes EXCEPT ![w] = box] /\ lastGame' = w
        /\ gameTool' = IF enable THEN gameTool ELSE NoTool
    BY <1>6 DEF on_enableProtonBox_stateChanged
  <2> HIDE DEF off
  <2>4. box \in Box /\ ShowsAllowed(box, gameTool')
    BY <1>4, <2>2, <2>3 DEF ShowsAllowed
  <2> HIDE DEF box
  <2>5. QED
    BY <1>2, <1>3, <2>3, <2>4, OneBoxChanged DEF GamesInv
<1>7. ASSUME NEW w \in DOMAIN gameBoxes, NEW i \in DOMAIN gameBoxes[w].items,
             on_compatToolBox_currentIndexChanged(w, i)
      PROVE  CompatInv'
  <2> DEFINE box == [gameBoxes[w] EXCEPT !.index = i]
  <2>1. /\ gameBoxes' = [gameBoxes EXCEPT ![w] = box] /\ lastGame' = w
        /\ gameTool' = gameBoxes[w].items[i]
    BY <1>7 DEF on_compatToolBox_currentIndexChanged
  <2>2. gameBoxes[w] \in Box
    BY <1>2
  <2>3. box \in Box /\ gameTool' \in WindowsTools /\ Shows(box, gameTool')
    BY <2>1, <2>2, ChosenIs DEF Shows
  <2> HIDE DEF box
  <2>4. QED
    BY <1>2, <1>3, <2>1, <2>3, OneBoxChanged DEF GamesInv, ShowsAllowed
<1>8. QED
  BY <1>5, <1>6, <1>7

LEMMA CompatNextInv == CompatInv /\ [CompatNext]_compatVars => CompatInv'
<1> SUFFICES ASSUME CompatInv, [CompatNext]_compatVars PROVE CompatInv'
  OBVIOUS
<1>1. CASE UNCHANGED compatVars
  BY <1>1 DEF compatVars, defaultVars, gameVars, CompatInv, DefaultsInv, GamesInv
<1>2. QED
  BY <1>1, DefaultKeeps, GameKeeps DEF CompatNext

LEMMA CompatAlways == CompatSpec => []CompatInv
BY CompatInitInv, CompatNextInv, PTL DEF CompatSpec

\* The types of CompatTools' variables.
THEOREM CompatTypes == CompatSpec => []CompatTypeOK
<1>1. CompatInv => CompatTypeOK
  BY DEF CompatInv, DefaultsInv, GamesInv, CompatTypeOK, Box
<1>2. QED
  BY <1>1, CompatAlways, PTL

\* The window that was opened or used last shows the tool that is used, whatever
\* was chosen, enabled and disabled in the other windows before
\* (AppSettingsWindow::LoadCompatData, SettingsWindow::PopulateCompatTools).
THEOREM LastWindowShowsTheTool == CompatSpec => []LastUsedShowsTool
<1>1. CompatInv => LastUsedShowsTool
  BY DEF CompatInv, DefaultsInv, GamesInv, LastUsedShowsTool, ShowsDefault, ShowsAllowed, Shows, Shown
<1>2. QED
  BY <1>1, CompatAlways, PTL
=============================================================================
