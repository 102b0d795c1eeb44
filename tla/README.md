# OpenSteamClient in TLA+

OpenSteamClient is a Qt front end for Valve's closed `steamclient.so`: it installs
Valve's binaries next to (and instead of) Valve's own client, signs in, pumps the
callbacks of the library and shows games and downloads.  This directory holds TLA+
modules of the parts that have logic of their own, the TLC configurations that check
them on small instances, and theorems with proofs that TLAPS checks.  All paths below
are relative to the repository (`client/` is short for `src/client/`).

| module | what it is | checked by |
|---|---|---|
| `Login` | LoginThread, the two JobLoginPolling jobs, and the windows, Application and steamclient around them | `MCLogin*.cfg` |
| `Threads` | ThreadController, Thread and the three workers, from InitApplication to Shutdown | `MCThreads*.cfg` |
| `Bootstrap` | Startup, Bootstrapper and Updater on one home directory | `MCBootstrap*.cfg` |
| `Library` | AppManager: apps, icons, replies, the cache on disk | `MCClient.cfg` |
| `Downloads` | DownloadManager: items and the maps that point to them | `MCClient.cfg` |
| `GameList` | AppModel, TreeItem, FiltersPopup: the tree of games and its filters | `MCClient.cfg` |
| `GameWindow` | the pane of a game, App's calls and errors, install and launch dialogs | `MCClient.cfg` |
| `Folders` | library folders in AppSettingsWindows and InstallGameDialogs | `MCClient.cfg` |
| `CompatTools` | the default compatibility tool and a game's | `MCClient.cfg` |
| `LaunchOptions` | BinaryKV, App::GetLaunchOptions and the filter | `MCClient.cfg` |
| `Messages` | ProtoMsg and BufferHelpers | `MCClient.cfg` |
| `WebTabs` | the main window's web pages and their tokens | `MCClient.cfg` |
| `SingleInstance` | several processes around `~/.steam/steam.pid` | `MCClient.cfg` |
| `Reaper`, `GameLife` | reaper with a game's processes, and what it promises | `MCClient.cfg` |
| `Subsequence` | taking elements out of a list, for the modules that are proved about | with those that use it |
| `LoginProofs`, `ThreadsProofs`, `BootstrapProofs` | theorems for every value of the constants | `tlapm` |
| `LibraryProofs` | the same of `Library`, `Downloads`, `LaunchOptions` | `tlapm` |
| `WindowProofs` | the same of `GameWindow`, `WebTabs`, `Folders`, `CompatTools` | `tlapm` |
| `GameListProofs` | the same of `GameList` | `tlapm` |
| `ClientProofs` | the same of `SingleInstance`, `Reaper`, `Messages`, and of `MCClient` | `tlapm` |
| `SubsequenceProofs` | lemmas on `Subsequence` | `tlapm` |

`MCLogin`, `MCThreads` and `MCBootstrap` only extend their module; `MCClient` composes
eleven and defines values of their constants.  Every cfg gives the constants their
values.
`PROJECT.json` lists components, runs, findings, hazards, theorems, the source lines of
every definition, and for every property a mutation of the code that breaks it.  The
mutations are ordinary definitions next to the one they vary, marked "Without ..." or
"Wrong ..." in their comment; no action uses them.

## 1. The system

### Threads and how they talk

The main thread runs the Qt event loop: every window, `Application`, and the slots of
the `Thread` wrappers.  `LoginThread` has an event loop of its own.  Each
`JobLoginPolling` has a thread that runs its `JobMain`.  `CallbackThread`,
`ComputerInUseThread` and `DownloadInfoThread` are loops that call into steamclient and
sleep.  Threads communicate by queued signals (an unbounded FIFO per receiving thread,
one delivery per `connect()`) and by unprotected fields.  Nothing takes a lock except
`CallbackThread`'s pause.

### Components

| component | state | operations | what has to be right |
|---|---|---|---|
| Signing in (`client/login`, LoginWindow, TwoFactorDialog) | `bIsLogonStarted`, `isCachedCredentialLogin`, the fields of two pollers, the form | QR codes, credentials, cached credentials, tokens, poll errors, cancel | attempts do not mix; no answer is lost; the form becomes usable again |
| Application (`client/gui/application.cpp`) | `hasLogonCompleted`, windows, interfaces | start, logon completed, sign out, shutdown | one main window; order of creation and release |
| Workers (`client/threading`, `client/interop/*thread.cpp`) | `threads`, `shouldStop`, the backing QThread | init, start, stop, loop | nothing is used before creation or after release; shutdown ends |
| Bootstrapper (`client/startup/bootstrapper.cpp`) | two shared paths of the home directory, the directories of two clients, a marker, environment variables | split, set up, switch, restore, relaunch | Valve's files survive; a start always gets through |
| Updater (`client/startup/updater.cpp`) | packages, `installed_manifest` | verify, update, copy own files | the client that runs is complete; restarts end |
| Messages (`client/messaging/protomsg.hpp`, `client/utils/jslikebuffer.cpp`) | a cursor, header, body, a verdict | build, parse | nothing past the end is read; the verdict agrees with what was read |
| Library (`client/interop/appmanager.cpp`) | `apps`, `pendingReplyToAppMap`, `pendingHashToTypeMap`, the cache directory | load apps, ask for icons, replies, errors | the icon shown, the file and the app belong together; every reply is forgotten in the end |
| Downloads (`client/interop/downloads.cpp`) | items and four maps to them | schedule callback, reload | the queue is steamclient's |
| Games (`client/interop/app.cpp`, `appstate.cpp`, MainWindow, InstallGameDialog, SettingsWindow) | state bits, connections, dialogs | play, stop, install, uninstall, errors | whoever asked tells the error, once; the chosen option is launched |
| Library folders (AppSettingsWindow, InstallGameDialog) | places in steamclient's list, one global map | add, delete, install into | what a window shows is what is asked to be deleted, or used |
| Compatibility tools (AppSettingsWindow, SettingsWindow) | a combo box per window, steamclient's tools | open, choose, switch on and off | the window used last shows the tool used |
| Game list (`client/gui/gamelistview`, FiltersPopup) | tree of items, filters | load, filter | only matches are listed, none is lost |
| Key values (`client/utils/binarykv.cpp`) | none | parse binary KeyValues | arrays and maps told apart |
| Single instance (`client/misc_logic/singleinstance.cpp`) | a pid file below `~/.steam`, which the bootstrapper links anew | check, take over, restart | one process |
| Reaper, launch wrapper (`src/utils`) | child processes | fork, adopt, wait | reaper lives as long as the game |
| Web views (MainWindow, DynamicWebViewWidget, DynamicWebViewLibraryMgr) | tabs, a library, tokens | open, load, answer of a token | no page stays signed out; the bold button |
| Service, fake service (`src/service`) | a child process | fork, kill, constants | no state of its own |
| Other windows | widgets | layout | no logic to check |
| steamclient, protobuf | not ours | | environment of the modules |

### What is hard here

* Slots of one thread and jobs of others interleave on fields without a lock
  (`StartPolling` starts the job before it assigns what the job uses).
* Signals arrive late: a token after a cancel, a callback after a sign out.
* Signals arrive several times: handlers are connected at each attempt, never
  disconnected.
* Early returns leave flags set or tell nobody.
* The end of a thread, of the process, or of power may fall between any two steps of
  the bootstrapper, which runs again from whatever it finds.
* Shutdown blocks the thread that would have to handle "I have stopped".
* A callback or a reply carries the facts of its time and is handled with those of a
  later one: queue indices, icon hashes, tokens, places in a folder list.
* Two windows, dialogs or processes hold copies of one list, map or file.
* Filling a combo box or adding a tab fires slots that nobody clicked for.

`PROJECT.json` lists each hazard with its line and the properties aimed at it.

## 2. The modules

### Login

`loginQ` and `mainQ` are the event queues of the LoginThread and the main thread; an
event is `<<slot, argument>>`.  `Take(slot)` and `Handle(slot)` start the slot at the
head of a queue, and a slot that blocks for a reply keeps `thread.pc` away from
`"idle"` until the reply's action.  A signal with `n` connections is queued `n` times
(`Emit`), and `connect()` counts (`Connected`).

| code | actions |
|---|---|
| `StartGeneratingQRCodes` | `StartGeneratingQRCodes`, `QRSessionBegun`, `SetInterval`, `SetSession` |
| `StartLogonWithCredentials` | `RefuseLogon`, `StartLogonWithCredentials`, then one of `LogOnWithCachedCredentials`, `PublicKeyFailed`, `CredentialsRejected`, `CredentialsReplyLost`, `CredentialsSessionBegun` (and `SetInterval`, `SetSession`) |
| the other slots of LoginThread | the action of the same name |
| `JobLoginPolling::JobMain` | `PollerStarted`, `PollerBegins`, `PollPending`, `NewClientIdTooLate`, `PollToken`, `PollFailed`, `PollerEnded` |
| slots of LoginWindow, Thread and Application | `startThread`, `secondFactorNeeded`, `loginFailed`, `loginSucceeded`, `appLoginFailed`, `postLogonState` |
| the user | `StartLogin`, `CancelDialog`, `Escape`, `RegenerateQR`, `LogOut` |
| steamclient and CallbackThread | `LogOnSucceeds`, `LogOnFails`, `Reconnected`, `ConnectionFailed`, `CallbackThreadReturns`, `PostLogonState` |

Decisions:

* `StartLogonWithCredentials` touches no shared state between its blocking calls, so
  its wait is one state with five outcomes.
* `StartPolling` is three steps, because it starts the job before it assigns the
  interval, and the interval before the ids.
* The ids are abstracted to whether the server knows them (`session`), and `polled`
  says whether the poll under way used them, older ones or none.  An unlocked
  `std::string` may be read torn; such a poll is one the server refuses, which is among
  the outcomes of every poll (`PollFailed`).
* A sign out cancels an unanswered LogOn (`"dropped"`); steamclient then says nothing.
* A job that is still running when `StartPolling` starts it again goes on with the new
  interval; what its poll of that moment brings is an outcome like any other.  No
  property says that an accepted session is polled, as nothing in the code promises it.
* The progress dialog is shown by `StartApplication` and `loginSucceeded`, and hidden by
  `loginFailed` (unless a QR code expired), `Application::loginFailed` and the first
  `postLogonState`.  It and the login window are modal to the application, a
  TwoFactorDialog to the login window; the user acts only where that lets him
  (`FormUsable`), and Escape closes a dialog without calling any slot.
* The failure of a connection is passed on with steamclient's EResult; it is taken to be
  neither of the two that belong to an expired QR code.
* Left out: `AddSteamGuardCode` (it sends a message and looks at nothing), the
  remembered accounts in the settings, the encryption of the password, what the nested
  event loops of message boxes reorder, and the end of the program when its last window
  is closed.

### Threads

The `Thread` objects live on the main thread: `posted` is their queued `startThread`,
`threads` the controller's list, `backing` what the thread behind each object does.
Startup is `startThreads` and `CreateInterfaces`, in the order of `InitApplication`;
each main window appends and starts the download thread once more
(`CreateMainWindow`).  `Shutdown`, `StopThread` (one per element of the copied list),
`ReleaseInterfaces` and `Exit` are `Application::Shutdown`.  `Calls` and `LoopTest` are
the loops of the workers, `CallbackEmitted` and `NoConnection` what the CallbackThread
does with a callback.  `link` is steamclient's connection with the callbacks it has
ready.  LoginThread and the jobs are never registered with the controller and belong to
`Login`; `killThread` has no caller.

### Bootstrap

`fs` maps the paths that the two clients contend for to an entry: absent, a directory
(Valve's, or OpenSteam's with or without `opensteam_marker`), or a link.  The targets
are `~/.steam` and `~/.local/share/Steam`; `OS[t]` and `VS[t]` are the directories of
the clients behind them.  An action changes one entry, and `Crash` may come between any
two, so that a later `Start` finds every intermediate state.  `proc` holds the place in
the code, the command line, the environment variables that survive `exec`
(`ldPath`, `launched`, `ranOnce`) and the locals that matter.  The steps are
`RunBootstrap`, `SplitInstalls`, `SetupOpenSteam`, `SetOpenSteamAsActiveInstall`,
`CopyOpensteamFiles`, `Relaunch`, `BLaunchedCorrectly`, `Verify`, `Update`, `Load`, and
`RestoreValveSteam`, `SetValveSteamAsActiveInstall` on the way back.  `main` makes the
single instance check before all of these, so `SingleInstanceChecks` writes `steam.pid`
wherever `~/.steam` leads, which may be Valve's directory.  `written` is history: what
was written into whose directory.  A home before the first start has a directory of
Valve's or nothing in either place; links made by hand are left out, and so are the
links inside `~/.opensteam`, the gdb and `DEV_BUILD` branches, two processes at once
(see `SingleInstance`), Valve's client running (and updating itself) between two starts,
and a dry run of the restore.  A package of the Updater is `absent` while one of its
files is missing, `broken` while one is incomplete: a download that fails half is
unpacked all the same, as far as it goes, and so is one that a crash interrupts.

### Library

`apps`, `pendingHash`, `pendingReply` and `libraryCache` are `AppManager::apps`, the keys
of the two pending maps, and the files `<app>_<hash>.png`.  An icon's hash names the
image it is the hash of, so images are hashes too, and a file is `[app, name, image]`.
`LoadApps` is the load and the requests of a main window; `replyReceived`,
`replyUnreadable` and `replyDropped` are the paths through the slot `replyReceived`, and
`replyErrored` is the error with the `finished` that follows and returns early.
`Restart` and `CrashInSave` end the process, the second with a file cut short.
`sent` and `arrived` are history.  Left out: the signal `libraryAssetsLoaded` (nothing
is connected to it), and which picture of an `.ico` is best, also one that has none that
is large enough.

### Downloads

An item is `<<app, generation>>`: the object the manager made for the app since its last
reload.  `QueueChanges` is steamclient, `NewDownloadManager` and `DebugReload` are
`ReloadDownloadInfo` by a new main window and by the debug window of a `DEV_BUILD`;
`DownloadScheduleChanged` and one `ReadIndex` per app are the callback's handler, which
asks for each index when it gets there.  A reload deletes the items and leaves the
entries of `appItems`, as in the code.  The download's progress and the pause switch are
left out.

### GameList

Texts are numbers in the order of `std::string`, a search text is the set of names that
contain it.  `addApp`, `AddChild` and `filter` are the functions of the code: `AddChild`
sorts through a map by text in which equal texts collapse, and the child being added has
no text yet.  The state filter compares its state, which nothing sets, so its check
boxes never filter: the module says so by keeping `Invalid`.

The loops (`addApp`, `AddedInTurn`, `TreeOf`) are recursive functions over their passes,
and the map's order (`ByText`) says of each item how many texts are below its own: the
folds and sorts of the community modules take an operator, which the provers cannot
reason about.

### GameWindow

A `Play` connects `launchFailed` once more, an install dialog connects itself;
`EmitError` is one call with its signal, `report.waiting` the slots that still have to
run, each of which shows a box first (`CloseErrorBox`).  Modality decides what the user
can reach (`Unblocked`).  The last page of the install wizard has no way back, only an
error leads to page 0.  A folder that is too small leads back to the first page and
changes nothing, so it is left out.

### Folders

`folders` is steamclient's list; places in it are what windows send.  Each
AppSettingsWindow has a copy (`folderLists`), each InstallGameDialog its box
(`installBoxes`), and all dialogs one global map (`libraryFolders`) that the newest has
filled.  RemoveLibraryFolder may fail, and its result is ignored.  An entry that
`libraryFolders.at` does not find, in the slot of the box or in that of the page, and a
folder whose space cannot be told end the client (`ended`).

### CompatTools

A combo box selects its first item and says so: `LoadCompatData` therefore sets the
default tool as it opens, while SettingsWindow blocks the signals.  Both windows are not
modal and made anew at each click, so there is a sequence of boxes of either kind
(`defaultBoxes`, `gameBoxes`), and `lastDefault` and `lastGame` are history: the box that
was opened or used last.

### LaunchOptions

The data is a sequence of fields, chosen as they are read: a section opens
(`ReadSection`), an option ends (`ReadOption`), the launch section ends (`ReadEnd`), or
the data has no end (`DataRunsOut`).  `SectionJSON` is the array detection,
`GetLaunchOptions` the numbering, `GetFilteredLaunchOptions` the filter.  `KeyOrder`
lists the keys in the order of `std::string`, as a `std::map` iterates over them;
`OneDigitKeys` of the assumption is the fact of that order which the numbering relies
on: keys of one digit come in the order of their numbers.

### Subsequence

`Picked(s, places)` are the elements of `s` at `places`, `Without(s, e)` those that are
not `e`: `removeAll` of the thread controller's list and of the slots that wait, the
keys of a JSON object.  `SelectSeq` would say the same, but takes an operator as a
parameter, about which the provers can conclude nothing.

### Messages

Bytes are counted, not kept; header and body are sizes and whether protobuf parses
them.  Each read of `FromBinary` is an action.  A message may be the one that was
serialized or of any length with any header size (`AnswersOddly`).  A header that could
not be read becomes a string from a null pointer (`HeaderThrows`); `ReadUint32` tells of
an error by the value 0xFFFFFFFF (`Minus1`), which an EMsg may also be; a `ProtoMsg` returned
as `NULL` has an `uninitialized` verdict.

### WebTabs

The window starts on the downloads tab, as its `.ui` file says, with no button in bold.
A tab keeps its type, whether it has a web view, its page, the single-shot connections
that wait for a token, and the slots of theirs still to run.  A page without a token asks
for one (`RequestWebAuthToken`) and only then connects (`Connect`); steamclient's answer
(`WebAuthRequestCallback`), which fires every connection there is, may come in between,
and `missed` keeps whose page that was.  `Reload` is one slot.  `GotoLoadedTab` and
`GotoNewTab` are the two paths through `GotoWebviewTab`, `ShowTab` the `currentChanged`
they cause.

### SingleInstance

Reading the file, `kill`, reading the other's executable, truncating and writing are
actions of their own, for any number of processes.  The file is `~/.steam/steam.pid`, and
the bootstrapper, which runs after the check, links `~/.steam` anew: `datalink` is where
it leads, `pidFile` what each directory's file holds, `registered` where a process wrote.
`SetLdLibraryPath`, `SwitchesToOpenSteam`, `SetsUpOpenSteam`, `LinksToOpenSteam`, `Boots`,
`RestoresValveSteam` and `LinksToValves` are what the bootstrapper does to that link and
its restarts, `Launch`, `QuitAndRestore` and `Ends` the user.  `alone` is history.  Where
`~/.steam` leads nowhere the write fails and nobody is told.  Only an executable called
`steam` is recognised, as in the code.  The way the arguments travel is left out.

### Reaper and GameLife

`Reaper` is `main` of reaper with the kernel's rules for orphans (a subreaper adopts
them).  `GameLife` says what steamclient may rely on: a set of processes that begins
with one, grows and shrinks, and a reaper that ends when, and only when, it is empty.
The refinement maps `status` to `reaper` and `living` to the processes alive
(`Life == INSTANCE GameLife WITH ...`).  A reaper killed by a signal is outside.

### MCClient

The eleven modules above share no state, so a behaviour of all of them shows nothing the
behaviours of each do not.  `part` names the one that acts, chosen in the first state;
the others rest in one of their initial states.  One run then visits the sum of their
states, not the product.  Where parts of the code do interact the interaction is inside
a module: GameWindow has App, the windows and steamclient, Folders both kinds of windows.

## 3. The runs

| run | states | shows |
|---|---|---|
| LoginAttempts | 8.0 million | two attempts, lost and failed replies, cancels, both pollers: while no logon is started the credentials poller has been told to stop (`NotStartedNotPolling`), every LogOn is heard, the cached-credential flag is set only while an answer is due |
| LoginSessions | 0.4 million | sessions begun at startup and by QR code, over sign outs and renewed codes, reports of the connection at any time, a callback thread that may return: at most one main window |
| LoginLiveness | 0.2 million | slots connected twice: a cancel, and an answer, end with an enabled form |
| LoginInput | violation | a failed poll leaves `bIsLogonStarted` set |
| LoginCancel | violation | the token of a poll in flight at the cancel logs on |
| LoginWaiting | violation | the progress dialog is shown after the logon it waits for has completed |
| Threads | 5 thousand | no early call into steamclient, everyone is asked to stop, shutdown ends |
| ThreadsStop | violation | workers still run when the interfaces are released |
| ThreadsReconnect | violation | no callback is read after a lost connection |
| Bootstrap | 0.4 million | four starts, dry runs included, from a home with Valve's directories, one of them or none, killed anywhere, switching clients: see below |
| BootstrapDryRun | violation | a dry run copies into Valve's installation |
| Client | 0.7 million | the eleven parts around the signed-in client: see below |

`Bootstrap` checks that no step loses a directory of Valve's (`ValveFilesSurvive`),
the Updater installs nothing there (`UpdatesOwnInstall`: neither an update nor, but for a
dry run, the copies; `steam.pid` is not the Updater's), the client runs only
as the active install (`RunsAsOpenSteam`) and with all files present unless a download
of that run failed (`RunsComplete`: present, not intact, is all the code looks for), no
start meets an entry that throws (`NeverStopsHalfway`), and restarts end (`BootEnds`).

`Client` checks, part by part:

| part | property | says |
|---|---|---|
| Library | `IconIsInCache` | the icon shown is the image of the file it is named after, whatever loads and replies overtake each other |
| | `LoneReplyGivesIcon` | only sharing an app or a hash loses an icon |
| | `FilesOfOwnApp` | no app's cache gets another app's image |
| | `RepliesDrain` | the pending replies become none again and again |
| Downloads | `QueueIsCurrent` | when all callbacks are handled the queue is steamclient's, although each mixes two moments |
| GameList | `OnlyMatchesShown`, `NoMatchLost`, `SortedButLast` | the list is exactly the matches, unless names collide, and in order but for the category added last |
| GameWindow | `AskerTellsOnce` | an error is told exactly once by whoever asked, however many connections piled up |
| | `LaunchesWhatWasChosen` | the option is launched for the game the dialog was opened for |
| Folders | `DeletesNoOther`, `InstallsWhereItSays` | the window that loaded its list last deletes no folder but the one it shows; a dialog installs where it says while the folders are those it shows, and the newest one finds an entry for every item |
| CompatTools | `LastUsedShowsTool` | of several windows the one opened or used last shows the tool in use |
| LaunchOptions | `LaunchesByItsNumber` | the number launched is the number in the data, for arrays without gaps and for objects |
| Messages | `ReadsJustTheMessage` | no read past the end; a good message was read to its end |
| WebTabs | `NoPageForgotten`, `BoldIsShown` | a page without a token waits for an answer still to come, reloads or was refused, unless the answer came before it was connected; the bold button is that of the page shown |
| SingleInstance | `RegisteredRunsAlone` | two clients called steam run side by side only if starts overlapped or one of them has its pid elsewhere than in OpenSteam's directory |
| Reaper | `ReaperOutlivesTheGame`, `IsAGamesLife` | reaper ends after all of the game's processes, and does end: it implements `GameLife` |

**Bounds.** `MaxAttempts` and `MaxQR` bound only what the user does, never the handling
of an event. Two attempts are enough for anything an attempt can leave to another, three
QR codes for two sign outs, or a renewed code and a sign out. LoginSessions has no
attempt with credentials; how these meet a sign out is part of LoginAttempts.  `MaxConns
= 2` is the first value at which slots run several times for one signal; the counter
saturates, a third delivery repeating what the second does.  `MaxReports` (of a
connection that is there again, or has failed) and `MaxLosses` are enough for a callback
in the middle of everything else.  `MaxWindows = 2` registers the download thread twice.
Four starts allow three interrupted ones and a last that has to cope, or OpenSteam, back
to Valve's client, and OpenSteam again with a crash in between.  `Faults` names the
replies that may not arrive intact; a run that leaves one out says so.

In `Client`: two apps and two hashes are enough for two apps with one icon and for an app
whose icon changes, two loads for a reply that outlives its request; three icon changes
let one app go to a hash and back while the other moves.  Two changes of the queue put
one callback behind the other, two reloads make a stale item.  Three apps, five choices
of names and four lists of tags cover equal names, no name, a name equal to a category,
and a tag named twice.  Two games, two install dialogs and three calls let connections
that piled up meet an error of any of the three calls.  Three folders, two windows and
two dialogs make every copy stale once.  Two settings windows of either kind put one behind
the other.  Two processes read between each other's writes, and one restart each meets the
file a process wrote itself; a third that comes and goes in between is left to the theorem
(`RegisteredMeansAlone`).  Four processes of a game give an orphan with a child of its own
beside a living sibling.
Three tabs of two types give a second tab of a type beside one that could not load;
three tokens an answer for two pages and one that expires.  Headers and bodies of up to
three bytes, and lengths from 0 on, meet every comparison of a length from both sides.
Keys `0`, `1`, `2`, `10` and a name give gaps, the order of bytes, and objects; seven
fields are three options and the end.

**Deadlock.**  `Login` may rest while the user does nothing, `Threads` ends with the
process, `Bootstrap` with the last start, and every part of `Client` at its bounds, so the
deadlock check is off; what must not get stuck is a liveness property (`CancelReenablesInput`, `AnswerReenablesInput`,
`ShutdownEnds`, `BootEnds`, `RepliesDrain`, `IsAGamesLife`).

**Fairness.**  Weak fairness for each thread: an event loop takes the next event, a loop
with a sleep goes on, steamclient answers a LogOn.  Strong fairness only for
`PollAnswered`: a poll may stay without a token many times, but the server expires the
session and then answers with an error.  The user, crashes, faults and connection
losses owe nothing.  In `Client`, `LibraryFairness` says that QNetworkAccessManager ends
every reply with an answer or an error, as it promises, and `ReaperFairness` that `wait`
returns when a child has ended or none is left; the game itself owes nothing.  `CredentialsReplyLost` tells nobody, so LoginLiveness excludes the
fault `beginAuth` by name; with it the form would stay disabled.  It excludes
`noConnection`, too: an answer of that kind ends the callback thread
(`ThreadsReconnect`), and answers after it are not read.

## 4. Where the code and its comments disagree

1. `LoginWindow` counts on LoginThread to "allow it after fail"
   (`client/gui/windows/loginwindow.cpp:81`); `PollingError`
   (`client/login/loginthread.cpp:397`) leaves `bIsLogonStarted` set.
2. "User wants to cancel the login" (`client/gui/dialogs/twofactordialog.cpp:67`): the
   reply to a poll in flight still logs on (`loginthread.cpp:418`).
3. "Blocks until the threads have stopped"
   (`client/threading/threadcontroller.cpp:64`): it waits only for an empty list, and
   asking a thread to stop removes it (`threadcontroller.cpp:76`).
4. SteamServersConnected comes "when the connection has been re-estabilished"
   (`client/interop/callbackthread.h:31`): the thread returned at the loss
   (`callbackthread.cpp:38`).
5. "When dryRun is true, no files will be altered"
   (`client/startup/bootstrapper.cpp:331`): `CopyOpensteamFiles`
   (`client/startup/updater.cpp:178`) and `CreateSymlinkIfInvalid` do not look at it.
6. "Waiting for steamclient..." (`client/gui/windows/loginwindow.cpp:183`): the report
   of a success goes over the LoginThread, the end of the logon straight to
   `Application`; when the second is handled first, the application-modal dialog is
   shown after the logon has completed, and no code hides it.

Also seen while modelling; the properties are worded around them:

* The booleans of the state filter are never looked at (`k_EAppStateInvalid` stays the
  filter's state); two games of one name in a category are listed once.
* reaper takes the last `--` of its command line, so a wrapper given behind an earlier
  one is skipped.
* `GotoWebviewTab` makes another tab each time a page is opened that could not load, also
  with `--no-browser`.
* A restarted process finds its own pid in the file; an executable called `opensteam` is
  never recognised as an instance.
* The pid of a client that starts while `~/.steam` is Valve's is written into Valve's
  directory (`client/main.cpp:15`), also in a dry run; the bootstrapper then links
  `~/.steam` to OpenSteam's (`client/startup/bootstrapper.cpp:360`), the next client finds
  no pid there and runs beside the first.
* An answer that comes between a page's request for a token and its connection
  (`client/gui/widgets/dynamicwebviewwidget.cpp:145`) is not heard by that page, which
  stays without a sign-in although there is a token.
* A LogOn that takes the place of one with cached credentials before its answer inherits
  `isCachedCredentialLogin` (`client/login/loginthread.cpp:217`): its account is not added
  to the remembered ones.
* `StartPolling` may find its job still running (`client/login/loginpolljob.cpp:83`): the
  old job then goes on for the new session, or ends it.
* A debug reload leaves entries of `appItems` that point to deleted items
  (`client/interop/downloads.cpp:106`), and the next callback puts one into the queue:
  after it `items` no longer holds "All items" (`client/interop/downloads.h:38`).
* Opening the AppSettingsWindow overwrites the default compatibility tool; a settings
  window that stands behind another may show a tool that is no longer used.
* Keys with a gap, or eleven options and more, launch another option than the data
  numbers.
* An InstallGameDialog that is not the newest may look for a folder that the shared map
  lacks, which ends the client; so does a library folder that no longer exists.

## 5. What is proved

Each theorem holds for every value of the constants.  The assumptions are those named
`...Assumption` in the modules, which TLC evaluates in every run that uses them.

| module | theorem | property | argument |
|---|---|---|---|
| `LoginProofs` | `TypeCorrect` | `TypeOK` | inductive as it stands, one lemma per thread |
| | `StoppedWithTheLogon` | `NotStartedNotPolling` | strengthened (`CredentialsPolling`): also inside a slot an interval implies a started logon, and the poller is still stopped while `StartLogonWithCredentials` waits |
| | `EveryLogOnIsHeard` | `LogOnIsHeard` | strengthened (`Heard`): while Application's own LogOn is unanswered no account is logged on whose connection could fail, and no failure is queued on which Application would disconnect; a cached-credential flag implies a connection |
| | `FlagAwaitsAnswer` | `CachedFlagAwaitsAnswer` | from `Heard`, since an answer is queued only if somebody is connected; lemmas on what `Append`, `Tail` and `Emit` do to `Queued` |
| | `AtMostOneMainWindow` | `OneMainWindow` | strengthened (`WindowAfterLogon`): a main window exists only while `hasLogonCompleted` is set |
| `ThreadsProofs` | `StartedThreadsFindInterfaces` | `UsedOnceCreated` | `NotBefore`: no worker leaves `off` before the event loop, and the loop begins with the interfaces |
| | `ThreadsTypes` | `TypeOK` | inductive as it stands, with `Without` of a list staying a list |
| | `StopThreadsBlockingAsksAll` | `EveryWorkerAsked` | strengthened (`Registered`): a worker that runs, or whose start is posted, is in the controller's list until the walk begins; from then on one that runs was asked to stop or is still ahead in the copy |
| `BootstrapProofs` | `BootstrapTypeCorrect`, `UpdaterKeepsToItsOwn`, `ActiveWhenRun`, `NothingInTheWay`, `CompleteWhenRun` | `TypeOK`, `UpdatesOwnInstall`, `RunsAsOpenSteam`, `NeverStopsHalfway`, `RunsComplete` | one invariant, `BootInv`: `Layout` holds of the directories whoever was interrupted where, `Progress` says what is known at each place in the code, `Downloaded` which files are there |
| | `ValvesFilesAreKept` | `ValveFilesSurvive` | an action property from `BootInv`: each step moves or replaces only what `Layout` says it may |
| `LibraryProofs` | `LibraryTypeCorrect`, `ShownIconIsCached`, `CacheOfOwnApp` | (`LibraryTypeOK`), `IconIsInCache`, `FilesOfOwnApp` | strengthened (`Known`): a reply under way was sent for an app in memory, and an app's hash was asked for at some time |
| | `LoneReplyGivesItsIcon` | `LoneReplyGivesIcon` | strengthened (`LoneInv`): a reply comes once (`InTurn`); while a lone one is under way its app and hash are pending and the app waits for that hash, and once it has arrived file and icon are its image |
| | `DownloadsTypes` | (`DownloadsTypeOK`) | `ManagerOK`: an app's entry points to an item of that app |
| | `QueueCatchesUp` | `QueueIsCurrent` | `LastListsQueue`: the callback posted last lists all of steamclient's queue; `QueueSoFar`: in its loop the queue no longer changes, so every place read is right, and an app without a place is still to be read |
| | `LaunchTypes`, `OptionKeepsItsNumber` | (`LaunchTypeOK`), `LaunchesByItsNumber` | `PlaceIsNumber`: in a section that is an array without gaps an option's place is its key's number, by the order of keys of one digit; `SectionKeepsNumbers` for objects |
| `GameListProofs` | `GameListTypes`, `ListsOnlyMatches` | (`GameListTypeOK`), `OnlyMatchesShown` | `GameListInv`: the tree is what the library makes it and the list is what the filters leave of the tree, whatever came first. `IsTree`: the tree's rows are those of the apps' categories, by the loops of `addApp` and `LoadApps`; `ComeFrom`: each child that is shown is of a row of its own |
| | `NamesakesAloneAreLost` | `NoMatchLost` | `AllThere`: where names tell apps apart no child is ever taken for another in the map, so each picked row keeps its child; the rows of an app below a category are counted by an injection into its tags (`RowsOfApp`) |
| | `CategoriesInOrder` | `SortedButLast` | `OrderedButOne`: a pass sorts all children but the one it adds, which has no text and so comes first behind FAVORITES |
| `ClientProofs` | `MessagesTypeCorrect`, `NothingElseIsRead` | (`MessagesTypeOK`), `ReadsJustTheMessage` | `Cursor`: after each read it is the sum of what was read |
| | `SingleInstanceTypeCorrect`, `RegisteredMeansAlone` | (`SingleInstanceTypeOK`), `RegisteredRunsAlone` | `Undisturbed` (nobody else is starting beside one that is alone), `Opened` (whoever registers in OpenSteam's directory alone no longer switches) and `Holds` (from then on `~/.steam` leads there, the file keeps its pid, and whoever has read it since has found it) |
| | `ReaperTypeCorrect`, `EndsAfterTheGame` | (`ReaperTypeOK`), `ReaperOutlivesTheGame` | `HasParent` and `Rooted`: every process not waited for has reaper or a living process as parent, and no set of them are only each other's parents |
| | `ImplementsGameLife` | the safety of `IsAGamesLife` | the initial states map to initial states, every step to a step or a stutter |
| | `EachAsAlone`, `ClientTypes` | `ClientTypeOK` | a step of the composition is, to each part, a step of its own or none; so each part's specification holds, and with it all that is proved of the part |
| `WindowProofs` | `GameWindowTypes`, `DialogBlocksSelection` | (`GameWindowTypeOK`), `LaunchesWhatWasChosen` | conjuncts of `PaneInv`: no game is selected below an open dialog |
| | `ErrorIsToldOnce` | `AskerTellsOnce` | `PaneInv`: slots are connected only of windows that exist (`ListenersExist`), the main window's before an option can be chosen (`DialogIsHeard`), whoever asked is among the slots still to run for an error or was told it once (`ErrorIsTold`), and a dialog that was told is back at its first page (`ToldDialogIsBack`) |
| | `WebTabsTypeCorrect`, `EveryPageIsRemembered`, `BoldButtonIsRight` | (`WebTabsTypeOK`), `NoPageForgotten`, `BoldIsShown` | `TabsInv`: also a tab belongs to one type of pages (`OneTabEach`), no more tokens are outstanding than were asked for (`Counted`), and while a page is about to connect its request is out or was answered without it (`Asked`) |
| | `FoldersTypeCorrect`, `LastWindowDeletesNoOther`, `DialogInstallsWhereItSays` | (`FoldersTypeOK`), `DeletesNoOther`, `InstallsWhereItSays` | `FoldersInv`: the copy of the window that loaded last is steamclient's list, which names no folder twice, and the shared map is the box of the newest dialog |
| | `CompatTypes`, `LastWindowShowsTheTool` | (`CompatTypeOK`), `LastUsedShowsTool` | `CompatInv`: the property, where the box used last also stands at one of its items (`DefaultsInv`, `GamesInv`) |
| `SubsequenceProofs` | lemmas `PickedIsInOrder`, `WithoutIs` | | the picked elements are those of an injective, increasing map of places; the proof is by the least length at which it would fail, as the provers lack induction over an operator |

Type invariants in parentheses are conjuncts of `ClientTypeOK`, the one the run checks.

All invariants of the runs that pass are proved.  What the loops of `GameList` compute is
induction over their passes, and no induction theorem of the library can be used, since
each takes an operator: `Upward` takes a set of numbers instead, those after whose pass
the fact holds, and would otherwise find a least one outside it.

Only model-checked: all liveness (`RepliesDrain`, `PollAnswered` and the others of
section 3, and that reaper ends), as fairness and ENABLED are outside the prover's reach.

## 6. Not modelled

* The containers of `include/opensteamworks/steamutl`, the interface headers of Valve's
  library in `include/opensteamworks`, generated message tables and protobuf.  They are
  the greater part of the repository's lines: declarations, and vendored code that this
  program does not change.  That is why the map covers a small share of all lines.
* Betas, moving and verifying a game, the launch command line, the wrapper's environment
  files, the URL protocol's commands, the way of the arguments from one instance to the
  other: each hands something on and keeps nothing.
* The settings file, and with it the remembered accounts: two threads may lose one
  account name, which no doc or test promises to keep.
* steamservice and the fake service: a fork, a kill, and functions that return constants.
* Layout, drawing and texts of windows and widgets.

The hazards that no property covers are in `PROJECT.json`, each with its reason.

## 7. Plan

Done, in this order: `Login`, `Threads`, `Bootstrap`; `Library`, `Downloads`;
`GameList`, `GameWindow`, `Folders`, `CompatTools`, `LaunchOptions`, `Messages`,
`WebTabs`, `SingleInstance`, `Reaper` with its refinement of `GameLife`; the proofs of
section 5.

Left: an abstract login session (idle, started, cancelled, logged on) for `Login` to
implement, which has to allow what findings 1, 2 and 6 show; `RememberedAccounts` as two
threads and one settings entry; two processes in the bootstrapper at once.
