----------------------------- MODULE Downloads -----------------------------
(***************************************************************************)
(* The download queue: DownloadManager (interop/downloads.cpp) keeps items *)
(* for steamclient's queue of downloads.  steamclient changes its queue    *)
(* whenever it likes and posts DownloadScheduleChanged with the apps it    *)
(* schedules; the handler asks for each app's index only when it runs, one *)
(* call after the other.                                                   *)
(*                                                                         *)
(* An item is an object of its own: <<app, generation>> names the item the *)
(* manager made for the app since its last reload.  Definitions whose      *)
(* comment begins with "Without" or "Wrong" are variants with a plausible  *)
(* bug.                                                                    *)
(***************************************************************************)
EXTENDS Integers, Sequences, FiniteSets, SequencesExt

CONSTANTS Titles,       \* the apps steamclient can download: numbers, their ids
          SameName,     \* apps that bear one name
          MaxChanges,   \* bound: changes of steamclient's queue
          MaxReloads    \* bound: main windows, and reloads in the debug window

ASSUME DownloadsAssumption ==
    /\ Titles \subseteq Nat /\ IsFiniteSet(Titles) /\ SameName \subseteq Titles
    /\ MaxChanges \in Nat /\ MaxReloads \in Nat

VARIABLES steamQueue,   \* steamclient's queue, a sequence of apps
          changes,      \* how often it has changed
          schedule,     \* DownloadScheduleChanged callbacks posted to the main thread
          known,        \* the keys of AppManager::apps
          manager,      \* the DownloadManager, "none" before the first main window
          reading       \* the rest of the schedule the handler is at, <<>> when idle

downloadsVars == <<steamQueue, changes, schedule, known, manager, reading>>

Item == Titles \X (1..MaxReloads)
Index == -1 .. Cardinality(Titles) - 1
StartTime == 0..1                      \* 0: no delayed start

NoManager == [items |-> {}, appItems |-> <<>>, queue |-> <<>>, scheduled |-> <<>>,
              unscheduled |-> <<>>, updateCount |-> 0, generation |-> 0, heard |-> FALSE]

\* A std::map from the key of each item to the first item with that key; items
\* are inserted in the order of the apps' ids.
FirstWith(items, key) ==
    [k \in {key[i] : i \in items} |->
        CHOOSE i \in items : key[i] = k /\ \A j \in items : key[j] = k => i[1] <= j[1]]

Inserted(map, k, item) == IF k \in DOMAIN map THEN map
                          ELSE [x \in DOMAIN map \cup {k} |-> IF x = k THEN item ELSE map[x]]

DownloadsInit ==
    /\ steamQueue = <<>> /\ changes = 0 /\ schedule = <<>>
    /\ known = {}
    /\ manager = NoManager
    /\ reading = <<>>

-----------------------------------------------------------------------------
(* steamclient *)

GetAppDownloadQueueIndex(a) ==
    IF a \in ToSet(steamQueue) THEN (CHOOSE i \in DOMAIN steamQueue : steamQueue[i] = a) - 1
                               ELSE -1

\* The queue becomes q; the callback lists it, and apps scheduled for later.
QueueChanges(q, later) ==
    /\ changes < MaxChanges
    /\ q # steamQueue
    /\ steamQueue' = q
    /\ changes' = changes + 1
    /\ schedule' = Append(schedule, q \o later)
    /\ UNCHANGED <<known, manager, reading>>

-----------------------------------------------------------------------------
(* ReloadDownloadInfo *)

\* All items are deleted and made again for the apps that require an update,
\* and sorted by start time, by name and by index.  appItems is not cleared,
\* and insert does not replace what is in it.
ReloadDownloadInfo(m, needUpdate, start) ==
    LET gen == m.generation + 1
        items == {<<a, gen>> : a \in needUpdate}
        startOf == [i \in items |-> start[i[1]]]
        nameOf == [i \in items |-> IF i[1] \in SameName THEN SameName ELSE {i[1]}]
        indexOf == [i \in items |-> GetAppDownloadQueueIndex(i[1])]
    IN  [items |-> items,
         appItems |-> [a \in DOMAIN m.appItems \cup needUpdate |->
                          IF a \in DOMAIN m.appItems THEN m.appItems[a] ELSE <<a, gen>>],
         queue |-> FirstWith({i \in items : indexOf[i] # -1}, indexOf),
         scheduled |-> FirstWith({i \in items : startOf[i] # 0}, startOf),
         unscheduled |-> FirstWith({i \in items : startOf[i] = 0}, nameOf),
         updateCount |-> Cardinality(needUpdate),
         generation |-> gen,
         heard |-> FALSE]

\* AppManager::LoadApps makes a DownloadManager with empty maps for each main
\* window; nobody looks at the one before.
NewDownloadManager(owned, needUpdate, start) ==
    /\ reading = <<>>
    /\ manager.generation < MaxReloads
    /\ known' = known \cup owned
    /\ needUpdate \subseteq known'
    /\ manager' = ReloadDownloadInfo([NoManager EXCEPT !.generation = manager.generation],
                                     needUpdate, start)
    /\ UNCHANGED <<steamQueue, changes, schedule, reading>>

\* DownloadDebugGui::on_pushButton_clicked, in a DEV_BUILD.
DebugReload(needUpdate, start) ==
    /\ reading = <<>>
    /\ manager.generation \in 1 .. MaxReloads - 1
    /\ needUpdate \subseteq known
    /\ manager' = ReloadDownloadInfo(manager, needUpdate, start)
    /\ UNCHANGED <<steamQueue, changes, schedule, known, reading>>

-----------------------------------------------------------------------------
(* CallbackManager_DownloadScheduleChanged *)

\* Without the clearing of the queue.
ScheduleChangedKeepingQueue ==
    /\ manager.generation > 0 /\ reading = <<>> /\ schedule # <<>>
    /\ schedule' = Tail(schedule)
    /\ reading' = Head(schedule)
    /\ manager' = [manager EXCEPT !.heard = TRUE]
    /\ UNCHANGED <<steamQueue, changes, known>>

\* The handler takes the lock and clears the queue.
DownloadScheduleChanged ==
    /\ manager.generation > 0 /\ reading = <<>> /\ schedule # <<>>
    /\ schedule' = Tail(schedule)
    /\ reading' = Head(schedule)
    /\ manager' = [manager EXCEPT !.queue = <<>>, !.heard = TRUE]
    /\ UNCHANGED <<steamQueue, changes, known>>

\* ConstructDownloadItem for an app that has no item: an unknown app gets none.
ConstructDownloadItem(m, a) ==
    IF a \in DOMAIN m.appItems \/ a \notin known THEN m
    ELSE [m EXCEPT !.items = @ \cup {<<a, m.generation>>},
                   !.appItems = Inserted(@, a, <<a, m.generation>>)]

\* One turn of the loop: the index is what steamclient says now.
ReadIndex ==
    LET a == Head(reading)
        m == ConstructDownloadItem(manager, a)
    IN  /\ reading # <<>>
        /\ reading' = Tail(reading)
        /\ manager' = IF a \notin DOMAIN m.appItems THEN m
                      ELSE [m EXCEPT !.queue =
                                Inserted(@, GetAppDownloadQueueIndex(a), m.appItems[a])]
        /\ UNCHANGED <<steamQueue, changes, schedule, known>>

Arrangement(apps) == UNION {SetToSeqs(s) : s \in SUBSET apps}

DownloadsNext ==
    \/ \E q \in Arrangement(Titles) :
          \E later \in Arrangement(Titles \ ToSet(q)) : QueueChanges(q, later)
    \/ \E owned, needUpdate \in SUBSET Titles, start \in [Titles -> StartTime] :
          \/ NewDownloadManager(owned, needUpdate, start)
          \/ DebugReload(needUpdate, start)
    \/ DownloadScheduleChanged
    \/ ReadIndex

DownloadsSpec == DownloadsInit /\ [][DownloadsNext]_downloadsVars

-----------------------------------------------------------------------------
(* Properties *)

\* The values of the variables.
DownloadsTypeOK ==
    /\ steamQueue \in Seq(Titles) /\ reading \in Seq(Titles)
    /\ changes \in 0..MaxChanges
    /\ schedule \in Seq(Seq(Titles))
    /\ known \subseteq Titles
    /\ manager.items \subseteq Item
    /\ DOMAIN manager.appItems \subseteq known
    /\ DOMAIN manager.queue \subseteq Index
    /\ manager.generation \in 0..MaxReloads

\* When every callback has been handled, the queue is steamclient's queue of the
\* known apps, although each callback mixes the apps of its time with indices
\* of a later one, and apps that are not queued share the index -1.
QueueIsCurrent ==
    (manager.heard /\ schedule = <<>> /\ reading = <<>>) =>
        /\ \A i \in DOMAIN steamQueue :
              IF steamQueue[i] \in known
              THEN /\ i - 1 \in DOMAIN manager.queue
                   /\ manager.queue[i - 1][1] = steamQueue[i]
              ELSE i - 1 \notin DOMAIN manager.queue
        /\ DOMAIN manager.queue \subseteq -1 .. Len(steamQueue) - 1
=============================================================================
