------------------------------ MODULE Folders ------------------------------
(***************************************************************************)
(* Library folders: steamclient keeps a list of them and names a folder by *)
(* its place in that list.  AppSettingsWindows                             *)
(* (gui/windows/appsettingswindow.cpp) and InstallGameDialogs              *)
(* (gui/dialogs/installgamedialog.cpp) show copies of the list and send    *)
(* places; several windows of both kinds may be open, and all dialogs      *)
(* share one global map, libraryFolders.                                   *)
(*                                                                         *)
(* Definitions whose comment begins with "Without" or "Wrong" are variants *)
(* with a plausible bug.                                                   *)
(***************************************************************************)
EXTENDS Naturals, Sequences, FiniteSets, SequencesExt

CONSTANTS Paths,              \* directories a user may add as library folders
          MaxSettingsWindows, \* bound: AppSettingsWindows opened
          MaxInstallDialogs,  \* bound: InstallGameDialogs opened
          MaxFolderChanges    \* bound: attempts to add or delete a folder

ASSUME FoldersAssumption ==
    /\ IsFiniteSet(Paths)
    /\ MaxSettingsWindows \in Nat /\ MaxInstallDialogs \in Nat /\ MaxFolderChanges \in Nat

VARIABLES folders,         \* steamclient's library folders
          folderChanges,   \* how often somebody tried to change them
          folderLists,     \* what each AppSettingsWindow shows
          loadedLast,      \* the AppSettingsWindow that loaded its list last, 0: none
          installBoxes,    \* the folders each InstallGameDialog's box shows
          chosen,          \* the item each box has chosen; 0: no folder selected
          libraryFolders,  \* the global map from a box's index to a LibraryFolder
          installed,       \* the last Install: the path shown and the path used
          ended            \* an exception, caught nowhere, has ended the client

foldersVars == <<folders, folderChanges, folderLists, loadedLast, installBoxes, chosen,
                 libraryFolders, installed, ended>>

Nowhere == "nowhere"
Path == Paths \cup {Nowhere}
NotInstalled == [shown |-> Nowhere, used |-> Nowhere]

FoldersInit ==
    /\ folders \in {<<p>> : p \in Paths}
    /\ folderChanges = 0
    /\ folderLists = <<>>
    /\ loadedLast = 0
    /\ installBoxes = <<>> /\ chosen = <<>>
    /\ libraryFolders = <<>>
    /\ installed = NotInstalled
    /\ ended = FALSE

-----------------------------------------------------------------------------
(* AppSettingsWindow *)

\* LoadLibraryFolders of window w, with steamclient's folders fs.
LoadLibraryFolders(w, fs) ==
    /\ folderLists' = [i \in DOMAIN folderLists \cup {w} |-> IF i = w THEN fs ELSE folderLists[i]]
    /\ loadedLast' = w

openSettings ==
    /\ ~ended
    /\ Len(folderLists) < MaxSettingsWindows
    /\ LoadLibraryFolders(Len(folderLists) + 1, folders)
    /\ UNCHANGED <<folders, folderChanges, installBoxes, chosen, libraryFolders, installed, ended>>

\* The window asks steamclient for the list fs, whatever becomes of that, and
\* loads the list it has then.
Changes(w, fs) ==
    /\ ~ended
    /\ folderChanges < MaxFolderChanges
    /\ folders' \in {folders, fs}
    /\ folderChanges' = folderChanges + 1
    /\ LoadLibraryFolders(w, folders')
    /\ UNCHANGED <<installBoxes, chosen, libraryFolders, installed, ended>>

on_addFolderButton_clicked(w, p) == p \notin ToSet(folders) /\ Changes(w, Append(folders, p))

\* Without loading the list again.
DeleteFolderKeepingList(w, row) ==
    /\ ~ended
    /\ folderChanges < MaxFolderChanges
    /\ row <= Len(folders)
    /\ folders' = RemoveAt(folders, row)
    /\ folderChanges' = folderChanges + 1
    /\ loadedLast' = w
    /\ UNCHANGED <<folderLists, installBoxes, chosen, libraryFolders, installed, ended>>

\* The item's data is the place the folder had when the list was loaded.
\* steamclient keeps its list when there is no such place.
on_deleteFolderButton_clicked(w, row) ==
    Changes(w, IF row <= Len(folders) THEN RemoveAt(folders, row) ELSE folders)

-----------------------------------------------------------------------------
(* InstallGameDialog *)

\* Wrong key: the count of the box's items, not the index of its last item.
PopulateWithCount ==
    [i \in 2 .. Len(folders) + 1 |-> [folderIndex |-> i - 1, path |-> folders[i - 1]]]

\* Item 0 says that none is selected, item i is the folder with index i - 1 in
\* steamclient's list (here at place i of folders).
PopulateLibraryFolders ==
    [i \in 1 .. Len(folders) |-> [folderIndex |-> i, path |-> folders[i]]]

openInstallDialog ==
    /\ ~ended
    /\ Len(installBoxes) < MaxInstallDialogs
    /\ libraryFolders' = PopulateLibraryFolders
    /\ installBoxes' = Append(installBoxes, folders)
    /\ chosen' = Append(chosen, 0)
    /\ UNCHANGED <<folders, folderChanges, folderLists, loadedLast, installed, ended>>

\* fs::space throws for a folder that cannot be reached, in the constructor.
openInstallDialogThrows ==
    /\ ~ended
    /\ Len(installBoxes) < MaxInstallDialogs /\ folders # <<>>
    /\ ended' = TRUE
    /\ UNCHANGED <<folders, folderChanges, folderLists, loadedLast, installBoxes, chosen,
                   libraryFolders, installed>>

\* Item i is chosen in dialog d: libraryFolders.at(i), for the space it shows.
on_installLocationBox_activated(d, i) ==
    /\ ~ended
    /\ chosen' = [chosen EXCEPT ![d] = i]
    /\ ended' = (i \notin {0} \cup DOMAIN libraryFolders)
    /\ UNCHANGED <<folders, folderChanges, folderLists, loadedLast, installBoxes,
                   libraryFolders, installed>>

\* Next: libraryFolders.at the item chosen, and App::Install with the folderIndex
\* found.
installInto(d) ==
    LET i == chosen[d]
    IN  /\ ~ended /\ i # 0
        /\ ended' = (i \notin DOMAIN libraryFolders)
        /\ installed' =
             IF ended' THEN NotInstalled
             ELSE LET at == libraryFolders[i].folderIndex
                  IN  [shown |-> installBoxes[d][i],
                       used |-> IF at <= Len(folders) THEN folders[at] ELSE Nowhere]
        /\ UNCHANGED <<folders, folderChanges, folderLists, loadedLast, installBoxes, chosen,
                       libraryFolders>>

FoldersNext ==
    \/ openSettings
    \/ \E w \in DOMAIN folderLists, p \in Paths : on_addFolderButton_clicked(w, p)
    \/ \E w \in DOMAIN folderLists : \E row \in DOMAIN folderLists[w] :
           on_deleteFolderButton_clicked(w, row)
    \/ openInstallDialog \/ openInstallDialogThrows
    \/ \E d \in DOMAIN installBoxes : \E i \in 0 .. Len(installBoxes[d]) :
           on_installLocationBox_activated(d, i)
    \/ \E d \in DOMAIN installBoxes : installInto(d)

FoldersSpec == FoldersInit /\ [][FoldersNext]_foldersVars

-----------------------------------------------------------------------------
(* Properties *)

FoldersTypeOK ==
    /\ folders \in Seq(Paths)
    /\ folderChanges \in 0..MaxFolderChanges
    /\ folderLists \in Seq(Seq(Paths)) /\ Len(folderLists) <= MaxSettingsWindows
    /\ loadedLast \in 0..MaxSettingsWindows
    /\ installBoxes \in Seq(Seq(Paths)) /\ Len(installBoxes) <= MaxInstallDialogs
    /\ \A i \in DOMAIN libraryFolders :
           i \in Nat /\ libraryFolders[i] \in [folderIndex : Nat, path : Paths]
    /\ Len(chosen) = Len(installBoxes)
    /\ \A d \in DOMAIN chosen : chosen[d] \in 0 .. Len(installBoxes[d])
    /\ installed \in [shown : Path, used : Path] /\ ended \in BOOLEAN

\* Deleting in the AppSettingsWindow that was used last takes no other folder
\* than the one it shows, whether steamclient deletes or not (another window's
\* rows may be out of date: it asks for whatever has the place by then;
\* appsettingswindow.cpp:122).
DeletesNoOther ==
    [][\A w \in DOMAIN folderLists : \A row \in DOMAIN folderLists[w] :
          w = loadedLast /\ on_deleteFolderButton_clicked(w, row)
              => ToSet(folders) \ {folderLists[w][row]} \subseteq ToSet(folders')]_foldersVars

\* A game is installed where its dialog says when the folders are still those
\* that dialog shows, even though the map it looks into is all dialogs' and the
\* newest one filled it; and that one finds an entry for each of its items
\* (installgamedialog.cpp:74 and 98).
InstallsWhereItSays ==
    [][\A d \in DOMAIN installBoxes :
          /\ d = Len(installBoxes) =>
                 /\ installInto(d) => ~ended'
                 /\ \A i \in 0 .. Len(installBoxes[d]) :
                        on_installLocationBox_activated(d, i) => ~ended'
          /\ installInto(d) /\ folders = installBoxes[d] /\ ~ended'
                 => installed'.used = installBoxes[d][chosen[d]]]_foldersVars
=============================================================================
