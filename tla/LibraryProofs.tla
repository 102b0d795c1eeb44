--------------------------- MODULE LibraryProofs --------------------------
(***************************************************************************)
(* Theorems about what the main window lists and launches: Library,        *)
(* Downloads and LaunchOptions, for any apps, hashes, titles, keys and     *)
(* numbers of changes.                                                     *)
(***************************************************************************)
EXTENDS Library, Downloads, LaunchOptions, SubsequenceProofs

(***************************************************************************)
(* Library. What a reply does depends on the app in memory and on the      *)
(* cache, both of which may have moved on since the request. Two facts tie *)
(* the three together (Known): a reply under way is one that was sent for  *)
(* an app in memory, and an app's hash is one that it was asked for at     *)
(* some time.                                                              *)
(***************************************************************************)

AskedFor(a, h) == \E r \in sent : r.app = a /\ r.url = h

Known ==
    /\ network \subseteq sent
    /\ \A r \in network : r.app \in DOMAIN apps
    /\ \A a \in DOMAIN apps : apps[a].iconHash # NoHash => AskedFor(a, apps[a].iconHash)

AppState == [iconHash : Hash \cup {NoHash}, icon : Icon \cup {NoIcon}]

LibraryInv == LibraryTypeOK /\ Known /\ FilesOfOwnApp /\ IconIsInCache

-----------------------------------------------------------------------------
(* Facts about the operators *)

LEMMA FileType ==
    ASSUME NEW a \in App, NEW h \in Hash, NEW i \in Hash \cup {NoHash}
    PROVE  /\ [app |-> a, name |-> h, image |-> i] \in File
           /\ [name |-> h, image |-> i] \in Icon
BY DEF File, Icon

\* A cached icon is the one in its file; otherwise the app keeps its icon.
LEMMA RequestIcon ==
    ASSUME libraryCache \subseteq File, NEW a \in App, NEW app \in AppState,
           NEW h \in Hash \cup {NoHash}
    PROVE  LET new == RequestLibraryAsset(a, app, h)
           IN  /\ new \in AppState
               /\ \/ new.icon = app.icon
                  \/ [app |-> a, name |-> new.icon.name, image |-> new.icon.image] \in libraryCache
               /\ \/ new.iconHash = app.iconHash
                  \/ new.iconHash = h /\ (IsCached(a, h) \/ h \notin {NoHash})
<1>1. CASE h = NoHash
  BY <1>1 DEF RequestLibraryAsset
<1>2. CASE h # NoHash /\ ~IsCached(a, h)
  BY <1>2 DEF RequestLibraryAsset, AppState
<1>3. CASE h # NoHash /\ IsCached(a, h)
  <2> DEFINE file == CHOOSE f \in libraryCache : f.app = a /\ f.name = h
  <2>1. file \in libraryCache /\ file.app = a /\ file.name = h
    BY <1>3 DEF IsCached
  <2>2. file = [app |-> a, name |-> h, image |-> file.image] /\ file.image \in Hash \cup {NoHash}
    BY <2>1 DEF File
  <2>3. RequestLibraryAsset(a, app, h) = [iconHash |-> h, icon |-> [name |-> h, image |-> file.image]]
    BY <1>3 DEF RequestLibraryAsset
  <2> HIDE DEF file
  <2>4. QED
    BY <1>3, <2>1, <2>2, <2>3 DEF AppState, Icon
<1>4. QED
  BY <1>1, <1>2, <1>3

LEMMA LibraryInitInv == LibraryInit => LibraryInv
<1> SUFFICES ASSUME LibraryInit PROVE LibraryInv
  OBVIOUS
<1>1. LibraryTypeOK
  BY LibraryAssumption DEF LibraryInit, LibraryTypeOK
<1>2. Known /\ FilesOfOwnApp /\ IconIsInCache
  BY DEF LibraryInit, Known, FilesOfOwnApp, IconIsInCache
<1>3. QED
  BY <1>1, <1>2 DEF LibraryInv

-----------------------------------------------------------------------------
(* The steps *)

LEMMA LoadAppsKeeps ==
    ASSUME LibraryInv, NEW owned \in SUBSET App, LoadApps(owned) PROVE LibraryInv'
<1> USE DEF LibraryInv
<1> DEFINE all == DOMAIN apps \cup owned
           old(a) == IF a \in DOMAIN apps THEN apps[a] ELSE NewApp
           requests == {[app |-> a, url |-> clientIcon[a], load |-> counts.loads + 1] :
                            a \in WithoutFile(all)}
<1>1. /\ counts.loads < MaxLoads
      /\ counts' = [counts EXCEPT !.loads = @ + 1]
      /\ apps' = [a \in all |-> RequestLibraryAsset(a, old(a), clientIcon[a])]
      /\ pendingHash' = pendingHash \cup {r.url : r \in requests}
      /\ pendingReply' = pendingReply \cup requests
      /\ network' = network \cup requests
      /\ sent' = sent \cup requests
      /\ UNCHANGED <<clientIcon, libraryCache, arrived>>
  BY DEF LoadApps
<1>2. all \subseteq App /\ \A a \in all : old(a) \in AppState
  BY DEF LibraryTypeOK, NewApp, AppState
<1>3. requests \subseteq Reply /\ \A r \in requests : r.app \in all /\ r.url \in Hash
  BY <1>1, <1>2, LibraryAssumption DEF WithoutFile, Reply, LibraryTypeOK
<1>4. DOMAIN apps' = all /\ \A a \in all : apps'[a] = RequestLibraryAsset(a, old(a), clientIcon[a])
  BY <1>1
<1>5. \A a \in all : clientIcon[a] \in Hash \cup {NoHash}
  BY <1>2 DEF LibraryTypeOK
<1>6. \A a \in all :
          /\ apps'[a] \in AppState
          /\ \/ apps'[a].icon = old(a).icon
             \/ [app |-> a, name |-> apps'[a].icon.name, image |-> apps'[a].icon.image] \in libraryCache
          /\ \/ apps'[a].iconHash = old(a).iconHash
             \/ apps'[a].iconHash = clientIcon[a]
  BY <1>2, <1>4, <1>5, RequestIcon DEF LibraryTypeOK
<1>7. LibraryTypeOK'
  <2>1. apps' \in [DOMAIN apps' -> AppState] /\ DOMAIN apps' \subseteq App
    BY <1>1, <1>2, <1>4, <1>6
  <2>2. counts' \in [loads : 0..MaxLoads, changes : 0..MaxIconChanges]
    BY <1>1, LibraryAssumption DEF LibraryTypeOK
  <2>3. pendingHash' \subseteq Hash /\ pendingReply' \subseteq Reply /\ network' \subseteq Reply
    BY <1>1, <1>3 DEF LibraryTypeOK
  <2>4. sent' \subseteq Reply /\ arrived' \subseteq sent'
    BY <1>1, <1>3 DEF LibraryTypeOK
  <2>5. clientIcon' \in [App -> Hash \cup {NoHash}] /\ libraryCache' \subseteq File
    BY <1>1 DEF LibraryTypeOK
  <2>6. QED
    BY <2>1, <2>2, <2>3, <2>4, <2>5 DEF LibraryTypeOK, AppState
<1>8. FilesOfOwnApp'
  BY <1>1 DEF FilesOfOwnApp
<1>9. Known'
  <2>1. network' \subseteq sent' /\ \A r \in network' : r.app \in DOMAIN apps'
    BY <1>1, <1>3, <1>4 DEF Known
  <2>2. ASSUME NEW a \in DOMAIN apps', apps'[a].iconHash # NoHash
        PROVE  \E r \in sent' : r.app = a /\ r.url = apps'[a].iconHash
    <3>1. a \in all
      BY <1>4
    <3>2. CASE apps'[a].iconHash = old(a).iconHash
      <4>1. a \in DOMAIN apps /\ old(a) = apps[a]
        BY <2>2, <3>2 DEF NewApp
      <4>2. AskedFor(a, apps[a].iconHash)
        BY <2>2, <3>2, <4>1 DEF Known
      <4>3. QED
        BY <1>1, <3>2, <4>1, <4>2 DEF AskedFor
    <3>3. CASE apps'[a].iconHash = clientIcon[a]
      <4>1. CASE IsCached(a, clientIcon[a])
        BY <1>1, <3>3, <4>1 DEF IsCached, FilesOfOwnApp
      <4>2. CASE ~IsCached(a, clientIcon[a])
        <5>1. a \in WithoutFile(all)
          BY <2>2, <3>1, <3>3, <4>2 DEF WithoutFile
        <5>2. [app |-> a, url |-> clientIcon[a], load |-> counts.loads + 1] \in sent'
          BY <1>1, <5>1
        <5>3. QED
          BY <3>3, <5>2
      <4>3. QED
        BY <4>1, <4>2
    <3>4. QED
      BY <1>6, <3>1, <3>2, <3>3
  <2>3. QED
    BY <2>1, <2>2 DEF Known, AskedFor
<1>10. IconIsInCache'
  <2> SUFFICES ASSUME NEW a \in all, apps'[a].icon # NoIcon
               PROVE  [app |-> a, name |-> apps'[a].icon.name, image |-> apps'[a].icon.image]
                          \in libraryCache
    BY <1>1, <1>4 DEF IconIsInCache
  <2>1. CASE apps'[a].icon = old(a).icon
    BY <2>1 DEF IconIsInCache, NewApp
  <2>2. QED
    BY <1>6, <2>1
<1>11. QED
  BY <1>7, <1>8, <1>9, <1>10

LEMMA IconChangesKeeps ==
    ASSUME LibraryInv, NEW a \in App, NEW h \in Hash \cup {NoHash}, IconChanges(a, h)
    PROVE  LibraryInv'
<1> USE DEF LibraryInv, IconChanges
<1>1. clientIcon' \in [App -> Hash \cup {NoHash}]
  BY DEF LibraryTypeOK
<1>2. counts' \in [loads : 0..MaxLoads, changes : 0..MaxIconChanges]
  BY LibraryAssumption DEF LibraryTypeOK
<1>3. LibraryTypeOK'
  BY <1>1, <1>2 DEF LibraryTypeOK
<1>4. Known' /\ FilesOfOwnApp' /\ IconIsInCache'
  BY DEF Known, AskedFor, FilesOfOwnApp, IconIsInCache
<1>5. QED
  BY <1>3, <1>4

\* Stopping empties all that is in memory.
LEMMA StoppedKeeps ==
    ASSUME LibraryInv, Stopped, UNCHANGED <<clientIcon, sent, arrived, counts>>,
           libraryCache' \subseteq File, FilesOfOwnApp'
    PROVE  LibraryInv'
<1>1. DOMAIN apps' = {} /\ network' = {} /\ pendingHash' = {} /\ pendingReply' = {}
  BY DEF Stopped
<1>2. apps' \in [DOMAIN apps' -> AppState]
  BY DEF Stopped
<1>3. LibraryTypeOK'
  BY <1>1, <1>2 DEF LibraryInv, LibraryTypeOK, AppState
<1>4. Known' /\ IconIsInCache'
  BY <1>1 DEF Known, IconIsInCache
<1>5. QED
  BY <1>3, <1>4 DEF LibraryInv

\* A file that is written for a reply belongs to an app that asked for its name
\* and for what it holds.
LEMMA WrittenFile ==
    ASSUME LibraryInv, NEW r \in network, apps[r.app].iconHash \in pendingHash,
           NEW image \in {r.url, NoHash},
           libraryCache' = {f \in libraryCache : f.app # r.app \/ f.name # apps[r.app].iconHash}
                           \cup {[app |-> r.app, name |-> apps[r.app].iconHash, image |-> image]},
           sent' = sent
    PROVE  libraryCache' \subseteq File /\ FilesOfOwnApp'
<1> USE DEF LibraryInv
<1>1. r \in Reply /\ r \in sent /\ r.app \in DOMAIN apps /\ r.app \in App /\ r.url \in Hash
  BY DEF LibraryTypeOK, Known, Reply
<1>2. apps[r.app].iconHash \in Hash /\ apps[r.app].iconHash # NoHash
  BY LibraryAssumption DEF LibraryTypeOK
<1>3. AskedFor(r.app, apps[r.app].iconHash) /\ AskedFor(r.app, r.url)
  BY <1>1, <1>2 DEF Known, AskedFor
<1>4. [app |-> r.app, name |-> apps[r.app].iconHash, image |-> image] \in File
  BY <1>1, <1>2, FileType
<1>5. libraryCache' \subseteq File
  BY <1>4 DEF LibraryTypeOK
<1>6. FilesOfOwnApp'
  BY <1>3 DEF FilesOfOwnApp, AskedFor
<1>7. QED
  BY <1>5, <1>6

LEMMA replyReceivedKeeps ==
    ASSUME LibraryInv, NEW r \in network, replyReceived(r) PROVE LibraryInv'
<1> USE DEF LibraryInv
<1> DEFINE h == apps[r.app].iconHash
           file == [app |-> r.app, name |-> h, image |-> r.url]
<1>1. /\ h \in pendingHash
      /\ network' = network \ {r} /\ pendingReply' = pendingReply \ {r}
      /\ pendingHash' = pendingHash \ {h} /\ arrived' = arrived \cup {r}
      /\ libraryCache' = {f \in libraryCache : f.app # r.app \/ f.name # h} \cup {file}
      /\ apps' = [apps EXCEPT ![r.app].icon = [name |-> h, image |-> r.url]]
      /\ UNCHANGED <<clientIcon, sent, counts>>
  BY DEF replyReceived, Store
<1>2. libraryCache' \subseteq File /\ FilesOfOwnApp'
  BY <1>1, WrittenFile
<1>3. r \in sent /\ r.app \in DOMAIN apps /\ r.app \in App /\ r.url \in Hash /\ h \in Hash
  BY <1>1 DEF LibraryTypeOK, Known, Reply
<1>4. apps' \in [DOMAIN apps -> AppState] /\ DOMAIN apps' = DOMAIN apps
  BY <1>1, <1>3, FileType DEF LibraryTypeOK, AppState
<1>5. \A a \in DOMAIN apps : apps'[a].iconHash = apps[a].iconHash /\ (a # r.app => apps'[a] = apps[a])
  BY <1>1, <1>3 DEF LibraryTypeOK, AppState
<1>6. apps'[r.app].icon = [name |-> h, image |-> r.url]
  BY <1>1, <1>3 DEF LibraryTypeOK, AppState
<1> HIDE DEF h
<1>7. LibraryTypeOK'
  BY <1>1, <1>2, <1>3, <1>4 DEF LibraryTypeOK, AppState
<1>8. Known'
  BY <1>1, <1>4, <1>5 DEF Known, AskedFor
<1>9. IconIsInCache'
  BY <1>1, <1>4, <1>5, <1>6 DEF IconIsInCache
<1>10. QED
  BY <1>2, <1>7, <1>8, <1>9

LEMMA replyUnreadableKeeps ==
    ASSUME LibraryInv, NEW r \in network, replyUnreadable(r) PROVE LibraryInv'
<1> USE DEF LibraryInv
<1> DEFINE h == apps[r.app].iconHash
           files == {f \in libraryCache : f.app = r.app /\ f.name = h}
           icon == IF files = {} THEN NoIcon
                   ELSE [name |-> h, image |-> (CHOOSE f \in files : TRUE).image]
<1>1. /\ h \in pendingHash
      /\ network' = network \ {r} /\ pendingReply' = pendingReply \ {r}
      /\ pendingHash' = pendingHash \ {h}
      /\ apps' = [apps EXCEPT ![r.app].icon = icon]
      /\ UNCHANGED <<clientIcon, libraryCache, sent, arrived, counts>>
  BY DEF replyUnreadable
<1>2. r.app \in DOMAIN apps /\ r.app \in App /\ h \in Hash
  BY <1>1 DEF LibraryTypeOK, Known
<1>3. icon \in Icon \cup {NoIcon}
      /\ (icon # NoIcon => [app |-> r.app, name |-> icon.name, image |-> icon.image] \in libraryCache)
  <2>1. CASE files = {}
    BY <2>1
  <2>2. CASE files # {}
    <3> DEFINE file == CHOOSE f \in files : TRUE
    <3>1. file \in libraryCache /\ file.app = r.app /\ file.name = h
      BY <2>2
    <3>2. file = [app |-> r.app, name |-> h, image |-> file.image] /\ file.image \in Hash \cup {NoHash}
      BY <3>1 DEF File, LibraryTypeOK
    <3>3. icon = [name |-> h, image |-> file.image]
      BY <2>2
    <3> HIDE DEF file
    <3>4. QED
      BY <1>2, <3>1, <3>2, <3>3 DEF Icon
  <2>3. QED
    BY <2>1, <2>2
<1> HIDE DEF icon, h
<1>4. apps' \in [DOMAIN apps -> AppState] /\ DOMAIN apps' = DOMAIN apps
  BY <1>1, <1>2, <1>3 DEF LibraryTypeOK, AppState
<1>5. \A a \in DOMAIN apps : apps'[a].iconHash = apps[a].iconHash /\ (a # r.app => apps'[a] = apps[a])
  BY <1>1, <1>2 DEF LibraryTypeOK, AppState
<1>6. apps'[r.app].icon = icon
  BY <1>1, <1>2 DEF LibraryTypeOK, AppState
<1>7. LibraryTypeOK'
  BY <1>1, <1>4 DEF LibraryTypeOK, AppState
<1>8. Known' /\ FilesOfOwnApp'
  BY <1>1, <1>4, <1>5 DEF Known, AskedFor, FilesOfOwnApp
<1>9. IconIsInCache'
  BY <1>1, <1>3, <1>4, <1>5, <1>6 DEF IconIsInCache
<1>10. QED
  BY <1>7, <1>8, <1>9

LEMMA replyForgottenKeeps ==
    ASSUME LibraryInv, NEW r \in network, replyDropped(r) \/ replyErrored(r) PROVE LibraryInv'
<1>1. /\ network' = network \ {r} /\ pendingReply' = pendingReply \ {r}
      /\ arrived' \subseteq arrived \cup {r}
      /\ UNCHANGED <<clientIcon, apps, libraryCache, pendingHash, sent, counts>>
  BY DEF replyDropped, replyErrored
<1>2. LibraryTypeOK'
  BY <1>1 DEF LibraryInv, LibraryTypeOK, Known
<1>3. Known' /\ FilesOfOwnApp' /\ IconIsInCache'
  BY <1>1 DEF LibraryInv, Known, AskedFor, FilesOfOwnApp, IconIsInCache
<1>4. QED
  BY <1>2, <1>3 DEF LibraryInv

LEMMA CrashInSaveKeeps ==
    ASSUME LibraryInv, NEW r \in network, CrashInSave(r) PROVE LibraryInv'
<1>1. libraryCache' \subseteq File /\ FilesOfOwnApp'
  BY WrittenFile DEF CrashInSave
<1>2. QED
  BY <1>1, StoppedKeeps DEF CrashInSave

LEMMA LibraryNextInv == LibraryInv /\ [LibraryNext]_libraryVars => LibraryInv'
<1> SUFFICES ASSUME LibraryInv, [LibraryNext]_libraryVars PROVE LibraryInv'
  OBVIOUS
<1>1. ASSUME NEW owned \in SUBSET App, LoadApps(owned) PROVE LibraryInv'
  BY <1>1, LoadAppsKeeps
<1>2. ASSUME NEW a \in App, NEW h \in Hash \cup {NoHash}, IconChanges(a, h) PROVE LibraryInv'
  BY <1>2, IconChangesKeeps
<1>3. ASSUME NEW r \in network, ReplyEvent(r) PROVE LibraryInv'
  BY <1>3, replyReceivedKeeps, replyUnreadableKeeps, replyForgottenKeeps DEF ReplyEvent
<1>4. ASSUME NEW r \in network, CrashInSave(r) PROVE LibraryInv'
  BY <1>4, CrashInSaveKeeps
<1>5. CASE Restart
  <2>1. libraryCache' \subseteq File /\ FilesOfOwnApp'
    BY <1>5 DEF Restart, LibraryInv, LibraryTypeOK, FilesOfOwnApp
  <2>2. QED
    BY <1>5, <2>1, StoppedKeeps DEF Restart
<1>6. CASE UNCHANGED libraryVars
  BY <1>6 DEF libraryVars, LibraryInv, LibraryTypeOK, Known, AskedFor, FilesOfOwnApp, IconIsInCache
<1>7. QED
  BY <1>1, <1>2, <1>3, <1>4, <1>5, <1>6 DEF LibraryNext

-----------------------------------------------------------------------------
(* A request that shares neither its app nor its hash: from its reply on, the *)
(* file and the icon of its app are its image.                               *)

Lone(r) == \A q \in sent \ {r} : q.app # r.app /\ q.url # r.url

IsAwaited(r) ==
    r \in pendingReply /\ r.url \in pendingHash /\ apps[r.app].iconHash = r.url

IsShown(r) ==
    /\ \A f \in libraryCache : f.app = r.app /\ f.name = r.url => f.image = r.url
    /\ r.app \in DOMAIN apps /\ apps[r.app].iconHash = r.url => apps[r.app].icon.image = r.url

GivesIcon(r) == (r \in network => IsAwaited(r)) /\ (r \in arrived => IsShown(r))

\* No request is one of an earlier load, and a reply comes once.
InTurn ==
    /\ \A r \in sent : r.load <= counts.loads
    /\ arrived \cap network = {}

LoneInv == InTurn /\ \A r \in sent : Lone(r) => GivesIcon(r)

LEMMA LoneInitInv == LibraryInit => LoneInv
BY DEF LibraryInit, LoneInv, InTurn

\* Of what is in memory and in the cache, a lone request's hash belongs to its
\* app alone, and its app to its hash.
LEMMA LoneIsAlone ==
    ASSUME LibraryInv, NEW r \in sent, Lone(r)
    PROVE  /\ r.app \in App /\ r.url \in Hash /\ r.url # NoHash /\ r.load \in Nat
           /\ \A a \in DOMAIN apps : apps[a].iconHash = r.url => a = r.app
           /\ r.app \in DOMAIN apps => apps[r.app].iconHash \in {NoHash, r.url}
           /\ \A f \in libraryCache : f.app = r.app <=> f.name = r.url
<1>1. r.app \in App /\ r.url \in Hash /\ r.url # NoHash /\ r.load \in Nat
  BY LibraryAssumption DEF LibraryInv, LibraryTypeOK, Reply
<1>2. ASSUME NEW a, NEW h, AskedFor(a, h) PROVE a = r.app <=> h = r.url
  BY <1>2 DEF AskedFor, Lone
<1>3. \A a \in DOMAIN apps : apps[a].iconHash # NoHash => AskedFor(a, apps[a].iconHash)
  BY DEF LibraryInv, Known
<1>4. \A f \in libraryCache : AskedFor(f.app, f.name)
  BY DEF LibraryInv, FilesOfOwnApp, AskedFor
<1>5. QED
  BY <1>1, <1>2, <1>3, <1>4

LEMMA LoadAppsGivesIcons ==
    ASSUME LibraryInv, LoneInv, NEW owned \in SUBSET App, LoadApps(owned) PROVE LoneInv'
<1> DEFINE all == DOMAIN apps \cup owned
           old(a) == IF a \in DOMAIN apps THEN apps[a] ELSE NewApp
           request(a) == [app |-> a, url |-> clientIcon[a], load |-> counts.loads + 1]
           requests == {request(a) : a \in WithoutFile(all)}
<1>1. /\ apps' = [a \in all |-> RequestLibraryAsset(a, old(a), clientIcon[a])]
      /\ pendingHash' = pendingHash \cup {r.url : r \in requests}
      /\ pendingReply' = pendingReply \cup requests
      /\ network' = network \cup requests
      /\ sent' = sent \cup requests
      /\ UNCHANGED <<clientIcon, libraryCache, arrived>>
  BY DEF LoadApps
<1>2. counts'.loads = counts.loads + 1 /\ counts.loads \in Nat
  BY LibraryAssumption DEF LoadApps, LibraryInv, LibraryTypeOK
<1>3. \A r \in requests : r.load = counts.loads + 1 /\ r \notin sent
  BY <1>2 DEF LoneInv, InTurn
<1>4. InTurn'
  <2>1. \A r \in sent : r.load \in Nat /\ r.load <= counts.loads
    BY DEF LoneInv, InTurn, LibraryInv, LibraryTypeOK, Reply
  <2>2. \A r \in sent' : r.load <= counts'.loads
    BY <1>1, <1>2, <1>3, <2>1
  <2>3. arrived \subseteq sent /\ arrived \cap network = {}
    BY DEF LoneInv, InTurn, LibraryInv, LibraryTypeOK
  <2>4. arrived' \cap network' = {}
    BY <1>1, <1>3, <2>3
  <2>5. QED
    BY <2>2, <2>4 DEF InTurn
<1>5. ASSUME NEW r \in sent', Lone(r)' PROVE GivesIcon(r)'
  <2>1. \A q \in sent' : q = r \/ (q.app # r.app /\ q.url # r.url)
    BY <1>5 DEF Lone
  <2>2. CASE r \in requests
    <3>1. PICK a \in WithoutFile(all) : r = request(a)
      BY <2>2
    <3>2. a \in all /\ clientIcon[a] # NoHash /\ ~IsCached(a, clientIcon[a])
      BY <3>1 DEF WithoutFile
    <3>3. r.app = a /\ r.url = clientIcon[a]
      BY <3>1
    <3>4. old(a) \in AppState
      BY <3>2 DEF LibraryInv, LibraryTypeOK, NewApp, AppState
    <3>5. apps'[a] = [old(a) EXCEPT !.iconHash = clientIcon[a]]
      BY <1>1, <3>2 DEF RequestLibraryAsset
    <3>6. apps'[a].iconHash = r.url
      BY <3>3, <3>4, <3>5 DEF AppState
    <3>7. r \in pendingReply' /\ r.url \in pendingHash'
      BY <1>1, <2>2
    <3>8. r \notin arrived'
      BY <1>1, <1>3, <2>2 DEF LibraryInv, LibraryTypeOK
    <3>9. QED
      BY <3>3, <3>6, <3>7, <3>8 DEF GivesIcon, IsAwaited, IsShown
  <2>3. CASE r \notin requests
    <3>1. r \in sent /\ Lone(r) /\ GivesIcon(r)
      BY <1>1, <1>5, <2>1, <2>3 DEF Lone, LoneInv
    <3>2. r.app \notin WithoutFile(all)
      <4>1. \A a \in WithoutFile(all) : request(a) \in sent' /\ request(a).app = a
        BY <1>1
      <4>2. QED
        BY <1>1, <2>1, <2>3, <4>1
    <3>3. /\ r.url # NoHash /\ r.app \in App
          /\ r.app \in DOMAIN apps => apps[r.app].iconHash \in {NoHash, r.url}
          /\ \A f \in libraryCache : f.app = r.app <=> f.name = r.url
      BY <3>1, LoneIsAlone
    <3>4. ASSUME r.app \in all
          PROVE  \/ apps'[r.app] = old(r.app)
                 \/ /\ apps'[r.app].iconHash = r.url
                    /\ \E f \in libraryCache : f.app = r.app /\ f.name = r.url
                                               /\ apps'[r.app].icon.image = f.image
      <4>1. apps'[r.app] = RequestLibraryAsset(r.app, old(r.app), clientIcon[r.app])
        BY <1>1, <3>4
      <4>2. clientIcon[r.app] = NoHash \/ IsCached(r.app, clientIcon[r.app])
        BY <3>2, <3>4 DEF WithoutFile
      <4>3. CASE clientIcon[r.app] = NoHash
        BY <4>1, <4>3 DEF RequestLibraryAsset
      <4>4. CASE clientIcon[r.app] # NoHash /\ IsCached(r.app, clientIcon[r.app])
        <5> DEFINE file == CHOOSE f \in libraryCache : f.app = r.app /\ f.name = clientIcon[r.app]
        <5>1. file \in libraryCache /\ file.app = r.app /\ file.name = clientIcon[r.app]
          BY <4>4 DEF IsCached
        <5>2. apps'[r.app] = [iconHash |-> clientIcon[r.app],
                              icon |-> [name |-> clientIcon[r.app], image |-> file.image]]
          BY <4>1, <4>4 DEF RequestLibraryAsset
        <5> HIDE DEF file
        <5>3. clientIcon[r.app] = r.url
          BY <3>3, <5>1
        <5>4. QED
          BY <5>1, <5>2, <5>3
      <4>5. QED
        BY <4>2, <4>3, <4>4
    <3>5. DOMAIN apps' = all
      BY <1>1
    <3>6. r \in network' => IsAwaited(r)'
      <4> SUFFICES ASSUME r \in network' PROVE IsAwaited(r)'
        OBVIOUS
      <4>1. r \in network /\ r.app \in DOMAIN apps
        BY <1>1, <2>3 DEF LibraryInv, Known
      <4>2. r \in pendingReply /\ r.url \in pendingHash /\ apps[r.app].iconHash = r.url
        BY <3>1, <4>1 DEF GivesIcon, IsAwaited, IsShown
      <4>3. QED
        BY <1>1, <3>4, <4>1, <4>2 DEF IsAwaited
    <3>7. r \in arrived' => IsShown(r)'
      <4> SUFFICES ASSUME r \in arrived' PROVE IsShown(r)'
        OBVIOUS
      <4>1. /\ \A f \in libraryCache : f.app = r.app /\ f.name = r.url => f.image = r.url
            /\ r.app \in DOMAIN apps /\ apps[r.app].iconHash = r.url =>
                   apps[r.app].icon.image = r.url
        BY <1>1, <3>1 DEF GivesIcon, IsAwaited, IsShown
      <4>2. ASSUME r.app \in DOMAIN apps', apps'[r.app].iconHash = r.url
            PROVE  apps'[r.app].icon.image = r.url
        BY <3>3, <3>4, <3>5, <4>1, <4>2 DEF NewApp
      <4>3. QED
        BY <1>1, <4>1, <4>2 DEF IsShown
    <3>8. QED
      BY <3>6, <3>7 DEF GivesIcon, IsAwaited, IsShown
  <2>4. QED
    BY <2>2, <2>3
<1>6. QED
  BY <1>4, <1>5 DEF LoneInv

\* A reply touches the icon, the files and the hash of its own app only.
LEMMA OtherRepliesKeep ==
    ASSUME LibraryInv, LoneInv, NEW q \in network,
           network' = network \ {q}, pendingReply' = pendingReply \ {q},
           arrived' \subseteq arrived \cup {q}, UNCHANGED <<sent, counts>>,
           pendingHash \ {apps[q.app].iconHash} \subseteq pendingHash',
           DOMAIN apps' = DOMAIN apps,
           \A a \in DOMAIN apps : a # q.app => apps'[a] = apps[a],
           \A f \in libraryCache' : f.app # q.app => f \in libraryCache,
           Lone(q) => GivesIcon(q)'
    PROVE  LoneInv'
<1>1. InTurn'
  BY DEF LoneInv, InTurn
<1>2. q \in sent /\ q.app \in DOMAIN apps
  BY DEF LibraryInv, Known
<1>3. ASSUME NEW r \in sent, Lone(r), r # q PROVE GivesIcon(r)'
  <2>1. GivesIcon(r) /\ r.app # q.app
    BY <1>2, <1>3 DEF LoneInv, Lone
  <2>2. r \in network => r.app \in DOMAIN apps
    BY DEF LibraryInv, Known
  <2>3. apps[q.app].iconHash # r.url
    BY <1>2, <1>3, <2>1, LoneIsAlone
  <2>4. r \in network' => IsAwaited(r)'
    BY <1>2, <1>3, <2>1, <2>2, <2>3 DEF GivesIcon, IsAwaited, IsShown
  <2>5. r \in arrived' => IsShown(r)'
    BY <1>2, <1>3, <2>1 DEF GivesIcon, IsAwaited, IsShown
  <2>6. QED
    BY <2>4, <2>5 DEF GivesIcon, IsAwaited, IsShown
<1>4. QED
  BY <1>1, <1>3 DEF LoneInv, Lone

LEMMA replyReceivedGivesIcon ==
    ASSUME LibraryInv, LoneInv, NEW q \in network, replyReceived(q) PROVE LoneInv'
<1> DEFINE h == apps[q.app].iconHash
<1>1. /\ h \in pendingHash
      /\ network' = network \ {q} /\ pendingReply' = pendingReply \ {q}
      /\ pendingHash' = pendingHash \ {h} /\ arrived' = arrived \cup {q}
      /\ libraryCache' = {f \in libraryCache : f.app # q.app \/ f.name # h}
                         \cup {[app |-> q.app, name |-> h, image |-> q.url]}
      /\ apps' = [apps EXCEPT ![q.app].icon = [name |-> h, image |-> q.url]]
      /\ UNCHANGED <<sent, counts>>
  BY DEF replyReceived, Store
<1>2. q \in sent /\ q.app \in DOMAIN apps
  BY DEF LibraryInv, Known
<1>3. DOMAIN apps' = DOMAIN apps /\ \A a \in DOMAIN apps : a # q.app => apps'[a] = apps[a]
  BY <1>1
<1>4. apps'[q.app].icon.image = q.url
  BY <1>1, <1>2 DEF LibraryInv, LibraryTypeOK
<1>5. Lone(q) => GivesIcon(q)'
  <2> SUFFICES ASSUME Lone(q) PROVE GivesIcon(q)'
    OBVIOUS
  <2>1. h = q.url
    BY <1>2 DEF LoneInv, GivesIcon, IsAwaited, IsShown
  <2>2. \A f \in libraryCache' : f.app = q.app /\ f.name = q.url => f.image = q.url
    BY <1>1, <2>1
  <2>3. q \notin network'
    BY <1>1
  <2>4. QED
    BY <1>4, <2>2, <2>3 DEF GivesIcon, IsAwaited, IsShown
<1>6. \A f \in libraryCache' : f.app # q.app => f \in libraryCache
  BY <1>1
<1> HIDE DEF h
<1>7. QED
  BY <1>1, <1>3, <1>5, <1>6, OtherRepliesKeep DEF h

\* A lone reply is never dropped: its hash is waited for.
LEMMA replyForgottenGivesNone ==
    ASSUME LibraryInv, LoneInv, NEW q \in network,
           replyUnreadable(q) \/ replyDropped(q) \/ replyErrored(q)
    PROVE  LoneInv'
<1>1. /\ network' = network \ {q} /\ pendingReply' = pendingReply \ {q}
      /\ arrived' \subseteq arrived \cup {q}
      /\ pendingHash \ {apps[q.app].iconHash} \subseteq pendingHash'
      /\ UNCHANGED <<sent, counts, libraryCache>>
  BY DEF replyUnreadable, replyDropped, replyErrored
<1>2. q \in sent
  BY DEF LibraryInv, Known
<1>3. DOMAIN apps' = DOMAIN apps /\ \A a \in DOMAIN apps : a # q.app => apps'[a] = apps[a]
  BY DEF replyUnreadable, replyDropped, replyErrored
<1>4. Lone(q) => q \notin arrived'
  <2>1. q \notin arrived
    BY DEF LoneInv, InTurn
  <2>2. replyDropped(q) => apps[q.app].iconHash \notin pendingHash
    BY DEF replyDropped
  <2>3. Lone(q) => q.url \in pendingHash /\ apps[q.app].iconHash = q.url
    BY <1>2 DEF LoneInv, GivesIcon, IsAwaited, IsShown
  <2>4. ~replyDropped(q) => arrived' = arrived
    BY DEF replyUnreadable, replyErrored
  <2>5. QED
    BY <2>1, <2>2, <2>3, <2>4
<1>5. Lone(q) => GivesIcon(q)'
  BY <1>1, <1>4 DEF GivesIcon, IsAwaited, IsShown
<1>6. QED
  BY <1>1, <1>3, <1>5, OtherRepliesKeep

\* Whatever stops the process: what arrived before keeps its files.
LEMMA StoppedKeepsFiles ==
    ASSUME LibraryInv, LoneInv, Restart \/ \E q \in network : CrashInSave(q) PROVE LoneInv'
<1>1. DOMAIN apps' = {} /\ network' = {} /\ UNCHANGED <<sent, arrived, counts>>
  BY DEF Restart, CrashInSave, Stopped
<1>2. InTurn'
  BY <1>1 DEF LoneInv, InTurn
<1>3. ASSUME NEW r \in sent, Lone(r), r \in arrived, NEW f \in libraryCache',
             f.app = r.app, f.name = r.url
      PROVE  f.image = r.url
  <2>1. CASE f \in libraryCache
    BY <1>3, <2>1 DEF LoneInv, GivesIcon, IsAwaited, IsShown
  <2>2. CASE f \notin libraryCache
    <3>1. PICK q \in network : CrashInSave(q) /\ f.app = q.app
      BY <2>2 DEF Restart, CrashInSave
    <3>2. q \in sent /\ q # r
      BY <1>3 DEF LibraryInv, Known, LoneInv, InTurn
    <3>3. QED
      BY <1>3, <3>1, <3>2 DEF Lone
  <2>3. QED
    BY <2>1, <2>2
<1>4. ASSUME NEW r \in sent, Lone(r) PROVE GivesIcon(r)'
  BY <1>1, <1>3, <1>4 DEF GivesIcon, IsAwaited, IsShown
<1>5. QED
  BY <1>1, <1>2, <1>4 DEF LoneInv, Lone

LEMMA LoneNextInv == LibraryInv /\ LoneInv /\ [LibraryNext]_libraryVars => LoneInv'
<1> SUFFICES ASSUME LibraryInv, LoneInv, [LibraryNext]_libraryVars PROVE LoneInv'
  OBVIOUS
<1>1. ASSUME NEW owned \in SUBSET App, LoadApps(owned) PROVE LoneInv'
  BY <1>1, LoadAppsGivesIcons
<1>2. ASSUME NEW a \in App, NEW h \in Hash \cup {NoHash}, IconChanges(a, h) PROVE LoneInv'
  <2>1. UNCHANGED <<apps, libraryCache, pendingHash, pendingReply, network, sent, arrived>>
        /\ counts'.loads = counts.loads
    BY <1>2 DEF IconChanges, LibraryInv, LibraryTypeOK
  <2>2. QED
    BY <2>1 DEF LoneInv, InTurn, Lone, GivesIcon, IsAwaited, IsShown
<1>3. ASSUME NEW q \in network, ReplyEvent(q) PROVE LoneInv'
  BY <1>3, replyReceivedGivesIcon, replyForgottenGivesNone DEF ReplyEvent
<1>4. CASE Restart \/ \E q \in network : CrashInSave(q)
  BY <1>4, StoppedKeepsFiles
<1>5. CASE UNCHANGED libraryVars
  BY <1>5 DEF libraryVars, LoneInv, InTurn, Lone, GivesIcon, IsAwaited, IsShown
<1>6. QED
  BY <1>1, <1>2, <1>3, <1>4, <1>5 DEF LibraryNext

-----------------------------------------------------------------------------
(* What follows *)

LEMMA LibraryAlways == LibrarySpec => []LibraryInv
<1>1. QED
  BY LibraryInitInv, LibraryNextInv, PTL DEF LibrarySpec

\* The types of Library's variables.
THEOREM LibraryTypeCorrect == LibrarySpec => []LibraryTypeOK
BY LibraryAlways, PTL DEF LibraryInv

\* In whatever order replies, loads, new icons and crashes come, an icon in memory
\* is the content of the file it was loaded from (AppManager::replyReceived).
THEOREM ShownIconIsCached == LibrarySpec => []IconIsInCache
BY LibraryAlways, PTL DEF LibraryInv

\* No file gets another app's icon or name, only an older or newer one of its own
\* app (appmanager.cpp:298).
THEOREM CacheOfOwnApp == LibrarySpec => []FilesOfOwnApp
BY LibraryAlways, PTL DEF LibraryInv

\* A reply whose app and hash no other request shares gives its app the icon,
\* and every later start of the client shows it: only sharing loses icons
\* (appmanager.cpp:237).
THEOREM LoneReplyGivesItsIcon == LibrarySpec => []LoneReplyGivesIcon
<1>1. LibraryInv /\ LoneInv => LoneReplyGivesIcon
  <2> SUFFICES ASSUME LibraryInv, LoneInv PROVE LoneReplyGivesIcon
    OBVIOUS
  <2>1. arrived \subseteq sent
    BY DEF LibraryInv, LibraryTypeOK
  <2>2. QED
    BY <2>1 DEF LoneInv, LoneReplyGivesIcon, Lone, GivesIcon, IsAwaited, IsShown
<1>2. QED
  BY <1>1, LibraryAlways, LoneInitInv, LoneNextInv, PTL DEF LibrarySpec

-----------------------------------------------------------------------------
(***************************************************************************)
(* Downloads.  A callback is handled in many steps, and each reads         *)
(* steamclient's queue anew.  When the last callback is being handled the  *)
(* queue no longer changes, so each index read from then on is right, and  *)
(* the apps still to be read include all whose place is not filled         *)
(* (QueueSoFar).                                                           *)
(***************************************************************************)
Map(K) == UNION {[S -> Item] : S \in SUBSET K}

Manager == [items : SUBSET Item, appItems : Map(Titles), queue : Map(Index),
            scheduled : Map(StartTime), unscheduled : Map(SUBSET Titles),
            updateCount : Nat, generation : 0..MaxReloads, heard : BOOLEAN]

ManagerOK ==
    /\ manager \in Manager
    /\ reading # <<>> => manager.generation > 0
    /\ DOMAIN manager.appItems \subseteq known
    /\ \A a \in DOMAIN manager.appItems : manager.appItems[a][1] = a

SteamQueueOK ==
    /\ steamQueue \in Seq(Titles) /\ reading \in Seq(Titles) /\ schedule \in Seq(Seq(Titles))
    /\ changes \in 0..MaxChanges /\ known \subseteq Titles
    /\ IsInjective(steamQueue)
    /\ Len(steamQueue) <= Cardinality(Titles)

\* The last callback that is posted lists the whole queue.
LastListsQueue ==
    schedule # <<>> => ToSet(steamQueue) \subseteq ToSet(schedule[Len(schedule)])

PlacesSoFar ==
    /\ \A k \in DOMAIN manager.queue :
          /\ k \in -1 .. Len(steamQueue) - 1
          /\ k # -1 => manager.queue[k][1] = steamQueue[k + 1] /\ steamQueue[k + 1] \in known
    /\ \A i \in DOMAIN steamQueue :
          steamQueue[i] \in known =>
              i - 1 \in DOMAIN manager.queue \/ steamQueue[i] \in ToSet(reading)

QueueSoFar == (manager.heard /\ schedule = <<>>) => PlacesSoFar

DownloadsInv == ManagerOK /\ SteamQueueOK /\ LastListsQueue /\ QueueSoFar

-----------------------------------------------------------------------------
(* The operators *)

LEMMA EmptyMap == ASSUME NEW K PROVE <<>> \in Map(K) /\ DOMAIN <<>> = {}
<1>1. <<>> \in [{} -> Item]
  OBVIOUS
<1>2. QED
  BY <1>1 DEF Map

LEMMA MapIs ==
    ASSUME NEW K, NEW f PROVE f \in Map(K) <=> DOMAIN f \subseteq K /\ f \in [DOMAIN f -> Item]
BY DEF Map

\* A multi-key map of items: an item for every key some item has.
LEMMA FirstWithIs ==
    ASSUME NEW items \in SUBSET Item, NEW K, NEW key, \A i \in items : key[i] \in K
    PROVE  /\ FirstWith(items, key) \in Map(K)
           /\ DOMAIN FirstWith(items, key) = {key[i] : i \in items}
           /\ \A k \in DOMAIN FirstWith(items, key) :
                 FirstWith(items, key)[k] \in items /\ key[FirstWith(items, key)[k]] = k
<1> DEFINE f == FirstWith(items, key)
           First(i, k) == key[i] = k /\ \A j \in items : key[j] = k => i[1] <= j[1]
<1>1. DOMAIN f = {key[i] : i \in items}
  BY DEF FirstWith
<1>2. ASSUME NEW k \in DOMAIN f PROVE f[k] \in items /\ key[f[k]] = k
  <2>1. f[k] = CHOOSE i \in items : First(i, k)
    BY <1>1, <1>2 DEF FirstWith
  <2>2. \E i \in items : First(i, k)
    <3> DEFINE T == {i[1] : i \in {j \in items : key[j] = k}}
    <3>1. T # {} /\ T \subseteq Nat
      BY <1>1, <1>2, DownloadsAssumption DEF Item
    <3>2. PICK n \in T : \A m \in T : n <= m
      <4> HIDE DEF T
      <4> QED BY <3>1, LeastNumber
    <3>3. PICK i \in items : key[i] = k /\ i[1] = n
      BY <3>2
    <3>4. First(i, k)
      BY <3>2, <3>3
    <3>5. QED
      BY <3>4
  <2>3. QED
    BY <2>1, <2>2
<1> HIDE DEF f
<1>3. DOMAIN f \subseteq K
  BY <1>1
<1>4. f \in [DOMAIN f -> Item]
  <2>1. f = [k \in DOMAIN f |-> f[k]]
    BY DEF f, FirstWith
  <2>2. \A k \in DOMAIN f : f[k] \in Item
    BY <1>2
  <2>3. QED
    BY <2>1, <2>2
<1>5. QED
  BY <1>1, <1>2, <1>3, <1>4, MapIs DEF f

IsInserted(K, map, k, item, new) ==
    /\ new \in Map(K)
    /\ DOMAIN new = DOMAIN map \cup {k}
    /\ \A x \in DOMAIN map : new[x] = map[x]
    /\ k \notin DOMAIN map => new[k] = item

LEMMA InsertedIs ==
    ASSUME NEW K, NEW map \in Map(K), NEW k \in K, NEW item \in Item
    PROVE  IsInserted(K, map, k, item, Inserted(map, k, item))
<1> USE DEF IsInserted
<1>1. DOMAIN map \subseteq K /\ map \in [DOMAIN map -> Item]
  BY MapIs
<1>2. CASE k \in DOMAIN map
  BY <1>1, <1>2, MapIs DEF Inserted
<1>3. CASE k \notin DOMAIN map
  <2> DEFINE f == [x \in DOMAIN map \cup {k} |-> IF x = k THEN item ELSE map[x]]
  <2>1. f \in [DOMAIN map \cup {k} -> Item] /\ DOMAIN f = DOMAIN map \cup {k}
    BY <1>1
  <2>2. f \in Map(K)
    <3> HIDE DEF f
    <3> QED BY <1>1, <2>1, MapIs
  <2>3. Inserted(map, k, item) = f
    BY <1>3 DEF Inserted
  <2>4. QED
    BY <2>1, <2>2, <2>3, <1>3
<1>4. QED
  BY <1>2, <1>3

\* steamclient's index of an app is its place in the queue, counted from 0.
LEMMA IndexIs ==
    ASSUME SteamQueueOK, NEW a \in Titles
    PROVE  LET k == GetAppDownloadQueueIndex(a)
           IN  /\ k \in Index /\ k \in -1 .. Len(steamQueue) - 1
               /\ k # -1 => steamQueue[k + 1] = a
               /\ \A i \in DOMAIN steamQueue : steamQueue[i] = a => k = i - 1
<1>1. Cardinality(Titles) \in Nat
  BY DownloadsAssumption, FS_CardinalityType
<1>2. DOMAIN steamQueue = 1..Len(steamQueue) /\ Len(steamQueue) \in Nat
  BY DEF SteamQueueOK
<1>3. CASE a \in ToSet(steamQueue)
  <2> DEFINE i == CHOOSE i \in DOMAIN steamQueue : steamQueue[i] = a
  <2>1. i \in DOMAIN steamQueue /\ steamQueue[i] = a
    BY <1>3 DEF ToSet
  <2>2. GetAppDownloadQueueIndex(a) = i - 1
    BY <1>3 DEF GetAppDownloadQueueIndex
  <2> HIDE DEF i
  <2>3. QED
    BY <1>1, <1>2, <2>1, <2>2 DEF SteamQueueOK, Index, IsInjective
<1>4. CASE a \notin ToSet(steamQueue)
  <2>1. GetAppDownloadQueueIndex(a) = -1
    BY <1>4 DEF GetAppDownloadQueueIndex
  <2>2. \A i \in DOMAIN steamQueue : steamQueue[i] # a
    BY <1>4 DEF ToSet
  <2>3. QED
    BY <1>1, <1>2, <2>1, <2>2 DEF Index
<1>5. QED
  BY <1>3, <1>4

-----------------------------------------------------------------------------
(* The steps *)

LEMMA NoManagerIs ==
    /\ NoManager \in Manager /\ DOMAIN NoManager.appItems = {}
<1>1. <<>> \in Map(Titles) /\ <<>> \in Map(Index) /\ <<>> \in Map(StartTime) /\ <<>> \in Map(SUBSET Titles)
  BY EmptyMap
<1>2. QED
  BY <1>1, DownloadsAssumption DEF Manager, NoManager

LEMMA DownloadsInitInv == DownloadsInit => DownloadsInv
<1> SUFFICES ASSUME DownloadsInit PROVE DownloadsInv
  OBVIOUS
<1>1. NoManager \in Manager
  BY NoManagerIs
<1>2. manager = NoManager
  BY DEF DownloadsInit
<1>3. /\ manager.generation = 0 /\ manager.heard = FALSE
      /\ DOMAIN manager.appItems = {} /\ DOMAIN manager.queue = {}
      /\ DOMAIN manager.scheduled = {} /\ DOMAIN manager.unscheduled = {}
  BY <1>2, EmptyMap DEF NoManager
<1>4. Cardinality(Titles) \in Nat
  BY DownloadsAssumption, FS_CardinalityType
<1>5. ManagerOK
  BY <1>1, <1>2, <1>3 DEF ManagerOK, DownloadsInit
<1>6. SteamQueueOK
  BY <1>4, DownloadsAssumption DEF SteamQueueOK, DownloadsInit, IsInjective
<1>8. LastListsQueue /\ QueueSoFar
  BY <1>3 DEF LastListsQueue, QueueSoFar, DownloadsInit
<1>9. QED
  BY <1>5, <1>6, <1>8 DEF DownloadsInv

LEMMA QueueChangesKeeps ==
    ASSUME DownloadsInv, NEW q \in Arrangement(Titles), NEW later \in Arrangement(Titles \ ToSet(q)),
           QueueChanges(q, later)
    PROVE  DownloadsInv'
<1>1. ASSUME NEW S \in SUBSET Titles, NEW s \in Arrangement(S)
      PROVE  /\ s \in Seq(S) /\ Len(s) <= Cardinality(Titles)
             /\ IsInjective(s)
  <2>1. s \in Seq(S)
    BY DownloadsAssumption, FS_Subset, PermutationIs DEF Arrangement
  <2>2. s \in UNION {SetToSeqs(T) : T \in SUBSET Titles}
    BY DEF Arrangement
  <2>3. QED
    BY <2>1, <2>2, DownloadsAssumption, PermutationIs
<1>2. q \in Seq(Titles) /\ later \in Seq(Titles)
  <2>1. later \in Seq(Titles \ ToSet(q))
    BY <1>1
  <2>2. QED
    BY <1>1, <2>1
<1>3. q \o later \in Seq(Titles) /\ schedule' = Append(schedule, q \o later)
  BY <1>2 DEF QueueChanges
<1>4. SteamQueueOK'
  <2>1. changes' \in 0..MaxChanges
    BY DownloadsAssumption DEF QueueChanges, DownloadsInv, SteamQueueOK
  <2>2. schedule' \in Seq(Seq(Titles))
    BY <1>3 DEF DownloadsInv, SteamQueueOK
  <2>3. QED
    BY <1>1, <1>2, <2>1, <2>2 DEF QueueChanges, DownloadsInv, SteamQueueOK
<1>5. LastListsQueue'
  <2>1. schedule'[Len(schedule')] = q \o later
    BY <1>3 DEF DownloadsInv, SteamQueueOK
  <2>2. ToSet(q) \subseteq ToSet(q \o later)
    BY <1>2 DEF ToSet
  <2>3. steamQueue' = q
    BY DEF QueueChanges
  <2>4. QED
    BY <2>1, <2>2, <2>3 DEF LastListsQueue
<1>6. schedule' # <<>>
  <2>1. schedule \in Seq(Seq(Titles))
    BY DEF DownloadsInv, SteamQueueOK
  <2>2. Len(schedule') = Len(schedule) + 1 /\ Len(schedule) \in Nat
    BY <1>3, <2>1
  <2>3. QED
    BY <2>2
<1>7. ManagerOK'
  BY DEF DownloadsInv, ManagerOK, QueueChanges
<1>8. QED
  BY <1>4, <1>5, <1>6, <1>7 DEF DownloadsInv, QueueSoFar

\* The maps a reload builds, for a manager whose appItems are those of known apps.
Reloaded(m, needUpdate, new) ==
    /\ new \in Manager /\ new.heard = FALSE
    /\ new.generation = m.generation + 1
    /\ DOMAIN new.appItems = DOMAIN m.appItems \cup needUpdate
    /\ \A a \in DOMAIN new.appItems : new.appItems[a][1] = a
    /\ \A a \in DOMAIN new.appItems : a \notin DOMAIN m.appItems => new.appItems[a] \in new.items
    /\ \A k \in DOMAIN new.queue : new.queue[k] \in new.items
    /\ \A k \in DOMAIN new.scheduled : new.scheduled[k] \in new.items
    /\ \A k \in DOMAIN new.unscheduled : new.unscheduled[k] \in new.items

LEMMA ReloadIs ==
    ASSUME SteamQueueOK, NEW m \in Manager, m.generation < MaxReloads,
           \A a \in DOMAIN m.appItems : m.appItems[a][1] = a,
           NEW needUpdate \in SUBSET Titles, NEW start \in [Titles -> StartTime]
    PROVE  Reloaded(m, needUpdate, ReloadDownloadInfo(m, needUpdate, start))
<1> DEFINE gen == m.generation + 1
           items == {<<a, gen>> : a \in needUpdate}
           startOf == [i \in items |-> start[i[1]]]
           nameOf == [i \in items |-> IF i[1] \in SameName THEN SameName ELSE {i[1]}]
           indexOf == [i \in items |-> GetAppDownloadQueueIndex(i[1])]
           queued == {i \in items : indexOf[i] # -1}
           delayed == {i \in items : startOf[i] # 0}
           others == {i \in items : startOf[i] = 0}
           appItems == [a \in DOMAIN m.appItems \cup needUpdate |->
                           IF a \in DOMAIN m.appItems THEN m.appItems[a] ELSE <<a, gen>>]
           new == ReloadDownloadInfo(m, needUpdate, start)
<1>1. new = [items |-> items, appItems |-> appItems, queue |-> FirstWith(queued, indexOf),
             scheduled |-> FirstWith(delayed, startOf), unscheduled |-> FirstWith(others, nameOf),
             updateCount |-> Cardinality(needUpdate), generation |-> gen,
             heard |-> FALSE]
  BY DEF ReloadDownloadInfo
<1>2. gen \in 1..MaxReloads
  BY DownloadsAssumption DEF Manager
<1>3. items \in SUBSET Item /\ \A i \in items : i[1] \in needUpdate
  BY <1>2 DEF Item
<1>4. /\ \A i \in items : startOf[i] \in StartTime
      /\ \A i \in items : nameOf[i] \in SUBSET Titles
      /\ \A i \in items : indexOf[i] \in Index
  BY <1>3, IndexIs, DownloadsAssumption
<1>5. /\ queued \in SUBSET Item /\ \A i \in queued : indexOf[i] \in Index
      /\ delayed \in SUBSET Item /\ \A i \in delayed : startOf[i] \in StartTime
      /\ others \in SUBSET Item /\ \A i \in others : nameOf[i] \in SUBSET Titles
  BY <1>3, <1>4
<1>6. /\ FirstWith(queued, indexOf) \in Map(Index)
      /\ \A k \in DOMAIN FirstWith(queued, indexOf) : FirstWith(queued, indexOf)[k] \in queued
      /\ FirstWith(delayed, startOf) \in Map(StartTime)
      /\ \A k \in DOMAIN FirstWith(delayed, startOf) : FirstWith(delayed, startOf)[k] \in delayed
      /\ FirstWith(others, nameOf) \in Map(SUBSET Titles)
      /\ \A k \in DOMAIN FirstWith(others, nameOf) : FirstWith(others, nameOf)[k] \in others
  <2> HIDE DEF queued, delayed, others, indexOf, startOf, nameOf
  <2>1. QED
    BY <1>5, FirstWithIs
<1>7. /\ appItems \in Map(Titles) /\ DOMAIN appItems = DOMAIN m.appItems \cup needUpdate
      /\ \A a \in DOMAIN appItems : appItems[a][1] = a
      /\ \A a \in DOMAIN appItems : a \notin DOMAIN m.appItems => appItems[a] \in items
  <2>1. DOMAIN m.appItems \subseteq Titles /\ m.appItems \in [DOMAIN m.appItems -> Item]
    BY MapIs DEF Manager
  <2>2. DOMAIN appItems = DOMAIN m.appItems \cup needUpdate
    OBVIOUS
  <2>3. \A a \in DOMAIN appItems : appItems[a] \in Item
    BY <1>2, <2>1 DEF Item
  <2>4. appItems \in [DOMAIN appItems -> Item] /\ DOMAIN appItems \subseteq Titles
    BY <2>1, <2>3
  <2>5. appItems \in Map(Titles)
    <3> HIDE DEF appItems
    <3> QED BY <2>4, MapIs
  <2>6. QED
    BY <2>2, <2>5
<1>8. Cardinality(needUpdate) \in Nat
  BY DownloadsAssumption, FS_Subset, FS_CardinalityType
<1> HIDE DEF appItems, items, new
<1>9. new \in Manager
  <2> DEFINE Q == FirstWith(queued, indexOf)
             S == FirstWith(delayed, startOf)
             U == FirstWith(others, nameOf)
  <2>1. Q \in Map(Index) /\ S \in Map(StartTime) /\ U \in Map(SUBSET Titles)
    BY <1>6
  <2>2. new = [items |-> items, appItems |-> appItems, queue |-> Q, scheduled |-> S,
               unscheduled |-> U, updateCount |-> Cardinality(needUpdate), generation |-> gen,
               heard |-> FALSE]
    BY <1>1
  <2> HIDE DEF Q, S, U, gen
  <2>3. gen \in 0..MaxReloads
    BY <1>2
  <2>4. QED
    BY <1>3, <1>7, <1>8, <2>1, <2>2, <2>3 DEF Manager
<1>10. /\ \A k \in DOMAIN new.queue : new.queue[k] \in new.items
       /\ \A k \in DOMAIN new.scheduled : new.scheduled[k] \in new.items
       /\ \A k \in DOMAIN new.unscheduled : new.unscheduled[k] \in new.items
  BY <1>1, <1>6
<1>11. new.heard = FALSE /\ new.generation = gen /\ new.items = items
       /\ new.appItems = appItems
  BY <1>1
<1>12. QED
  BY <1>7, <1>9, <1>10, <1>11 DEF new, Reloaded

LEMMA NewDownloadManagerKeeps ==
    ASSUME DownloadsInv, NEW owned \in SUBSET Titles, NEW needUpdate \in SUBSET Titles,
           NEW start \in [Titles -> StartTime], NewDownloadManager(owned, needUpdate, start)
    PROVE  DownloadsInv'
<1> DEFINE m == [NoManager EXCEPT !.generation = manager.generation]
<1>1. /\ reading = <<>> /\ manager.generation < MaxReloads
      /\ known' = known \cup owned /\ needUpdate \subseteq known'
      /\ manager' = ReloadDownloadInfo(m, needUpdate, start)
      /\ UNCHANGED <<steamQueue, changes, schedule, reading>>
  BY DEF NewDownloadManager
<1>2. manager.generation \in 0..MaxReloads /\ manager.generation + 1 \in 0..MaxReloads
  BY <1>1, DownloadsAssumption DEF DownloadsInv, ManagerOK, Manager
<1>3. /\ m \in Manager /\ m.generation = manager.generation
      /\ DOMAIN m.appItems = {}
  BY <1>2, NoManagerIs DEF Manager
<1> HIDE DEF m
<1>4. Reloaded(m, needUpdate, manager')
  BY <1>1, <1>3, ReloadIs DEF DownloadsInv
<1>6. /\ manager' \in Manager /\ manager'.heard = FALSE
      /\ manager'.generation = manager.generation + 1
      /\ DOMAIN manager'.appItems = needUpdate
      /\ \A a \in DOMAIN manager'.appItems : manager'.appItems[a][1] = a
  BY <1>3, <1>4 DEF Reloaded
<1>7. ManagerOK'
  BY <1>1, <1>2, <1>6 DEF ManagerOK
<1>9. SteamQueueOK' /\ LastListsQueue' /\ QueueSoFar'
  BY <1>1, <1>6 DEF DownloadsInv, SteamQueueOK, LastListsQueue, QueueSoFar, PlacesSoFar
<1>10. QED
  BY <1>7, <1>9 DEF DownloadsInv

LEMMA DebugReloadKeeps ==
    ASSUME DownloadsInv, NEW needUpdate \in SUBSET Titles, NEW start \in [Titles -> StartTime],
           DebugReload(needUpdate, start)
    PROVE  DownloadsInv'
<1>1. /\ reading = <<>> /\ manager.generation \in 1 .. MaxReloads - 1
      /\ needUpdate \subseteq known
      /\ manager' = ReloadDownloadInfo(manager, needUpdate, start)
      /\ UNCHANGED <<steamQueue, changes, schedule, known, reading>>
  BY DEF DebugReload
<1>2. /\ manager \in Manager /\ manager.generation \in 0..MaxReloads
      /\ manager.generation < MaxReloads
      /\ \A a \in DOMAIN manager.appItems : manager.appItems[a][1] = a
      /\ DOMAIN manager.appItems \subseteq known
  BY <1>1, DownloadsAssumption DEF DownloadsInv, ManagerOK, Manager
<1>3. /\ manager' \in Manager /\ manager'.heard = FALSE
      /\ manager'.generation = manager.generation + 1
      /\ DOMAIN manager'.appItems = DOMAIN manager.appItems \cup needUpdate
      /\ \A a \in DOMAIN manager'.appItems : manager'.appItems[a][1] = a
  <2>1. Reloaded(manager, needUpdate, manager')
    BY <1>1, <1>2, ReloadIs DEF DownloadsInv
  <2>2. QED
    BY <2>1 DEF Reloaded
<1>5. ManagerOK'
  BY <1>1, <1>2, <1>3 DEF ManagerOK
<1>6. SteamQueueOK' /\ LastListsQueue' /\ QueueSoFar'
  BY <1>1, <1>3 DEF DownloadsInv, SteamQueueOK, LastListsQueue, QueueSoFar, PlacesSoFar
<1>7. QED
  BY <1>5, <1>6 DEF DownloadsInv

LEMMA DownloadScheduleChangedKeeps ==
    ASSUME DownloadsInv, DownloadScheduleChanged PROVE DownloadsInv'
<1>1. /\ manager.generation > 0 /\ reading = <<>> /\ schedule # <<>>
      /\ schedule' = Tail(schedule) /\ reading' = Head(schedule)
      /\ manager' = [manager EXCEPT !.queue = <<>>, !.heard = TRUE]
      /\ UNCHANGED <<steamQueue, changes, known>>
  BY DEF DownloadScheduleChanged
<1>2. manager \in Manager /\ schedule \in Seq(Seq(Titles))
  BY DEF DownloadsInv, ManagerOK, SteamQueueOK
<1>3. Head(schedule) \in Seq(Titles) /\ Tail(schedule) \in Seq(Seq(Titles))
      /\ Len(schedule) \in Nat \ {0} /\ Len(Tail(schedule)) = Len(schedule) - 1
  BY <1>1, <1>2
<1>4. manager' \in Manager
  <2>1. <<>> \in Map(Index)
    BY EmptyMap
  <2>2. QED
    BY <1>1, <1>2, <2>1 DEF Manager
<1>5. /\ manager'.queue = <<>> /\ manager'.items = manager.items
      /\ manager'.appItems = manager.appItems /\ manager'.scheduled = manager.scheduled
      /\ manager'.unscheduled = manager.unscheduled /\ manager'.generation = manager.generation
  BY <1>1, <1>2 DEF Manager
<1>6. DOMAIN manager'.queue = {}
  BY <1>5, EmptyMap
<1>7. ManagerOK'
  BY <1>1, <1>4, <1>5, <1>6 DEF DownloadsInv, ManagerOK
<1>8. SteamQueueOK'
  BY <1>1, <1>3 DEF DownloadsInv, SteamQueueOK
<1>9. LastListsQueue'
  <2> SUFFICES ASSUME schedule' # <<>>
               PROVE  ToSet(steamQueue) \subseteq ToSet(schedule'[Len(schedule')])
    BY <1>1 DEF LastListsQueue
  <2>1. Len(schedule') \in 1 .. Len(schedule) - 1
    <3>1. Len(schedule') # 0
      BY <1>1, <1>3, EmptySequence
    <3>2. QED
      BY <1>1, <1>3, <3>1
  <2>2. schedule'[Len(schedule')] = schedule[Len(schedule)]
    BY <1>1, <1>2, <1>3, <2>1
  <2>3. QED
    BY <1>1, <2>2 DEF DownloadsInv, LastListsQueue
<1>10. QueueSoFar'
  <2> SUFFICES ASSUME schedule' = <<>>
               PROVE  \A i \in DOMAIN steamQueue : steamQueue[i] \in ToSet(reading')
    BY <1>1, <1>6 DEF QueueSoFar, PlacesSoFar
  <2>1. Len(schedule) = 1
    <3>1. Len(Tail(schedule)) = 0
      BY <1>1, <1>3, EmptySequence
    <3> DEFINE n == Len(schedule)
               t == Len(Tail(schedule))
    <3>2. n \in Nat \ {0} /\ t = n - 1 /\ t = 0
      BY <1>3, <3>1
    <3> HIDE DEF n, t
    <3>3. n = 1
      BY <3>2
    <3>4. QED
      BY <3>3 DEF n
  <2>2. reading' = schedule[Len(schedule)]
    BY <1>1, <1>2, <2>1
  <2>3. \A i \in DOMAIN steamQueue : steamQueue[i] \in ToSet(steamQueue)
    BY DEF ToSet
  <2>4. QED
    BY <1>1, <2>2, <2>3 DEF DownloadsInv, LastListsQueue
<1>11. QED
  BY <1>7, <1>8, <1>9, <1>10 DEF DownloadsInv

\* An app without an item gets one, in items and in appItems.
LEMMA ConstructDownloadItemIs ==
    ASSUME DownloadsInv, NEW a \in Titles, manager.generation > 0
    PROVE  LET m == ConstructDownloadItem(manager, a)
           IN  /\ m \in Manager
               /\ m.generation = manager.generation /\ m.queue = manager.queue
               /\ m.scheduled = manager.scheduled /\ m.unscheduled = manager.unscheduled
               /\ m.heard = manager.heard
               /\ manager.items \subseteq m.items
               /\ DOMAIN m.appItems \subseteq known
               /\ \A b \in DOMAIN m.appItems : m.appItems[b][1] = b
               /\ a \in DOMAIN m.appItems <=> a \in known
<1> DEFINE m == ConstructDownloadItem(manager, a)
           item == <<a, manager.generation>>
<1>1. /\ manager \in Manager /\ DOMAIN manager.appItems \subseteq known
      /\ \A b \in DOMAIN manager.appItems : manager.appItems[b][1] = b
      /\ manager.appItems \in Map(Titles)
  BY DEF DownloadsInv, ManagerOK, Manager
<1>2. CASE a \in DOMAIN manager.appItems \/ a \notin known
  <2>1. m = manager
    BY <1>2 DEF ConstructDownloadItem
  <2>2. QED
    BY <1>1, <1>2, <2>1
<1>3. CASE a \notin DOMAIN manager.appItems /\ a \in known
  <2> DEFINE A == Inserted(manager.appItems, a, item)
             I == manager.items \cup {item}
  <2>1. m = [manager EXCEPT !.items = I, !.appItems = A]
    BY <1>3 DEF ConstructDownloadItem
  <2>2. item \in Item /\ item[1] = a
    BY DEF Item, DownloadsInv, ManagerOK, Manager
  <2>3. /\ A \in Map(Titles) /\ DOMAIN A = DOMAIN manager.appItems \cup {a}
        /\ \A b \in DOMAIN manager.appItems : A[b] = manager.appItems[b]
        /\ A[a] = item
    <3>1. manager.appItems \in Map(Titles)
      BY <1>1
    <3> HIDE DEF item
    <3>2. IsInserted(Titles, manager.appItems, a, item, A)
      BY <2>2, <3>1, InsertedIs
    <3> HIDE DEF A
    <3>3. QED
      BY <1>3, <3>2 DEF IsInserted
  <2>4. I \in SUBSET Item
    BY <1>1, <2>2 DEF Manager
  <2>5. item \in I /\ manager.items \subseteq I
    OBVIOUS
  <2> HIDE DEF A, I, m, item
  <2>6. m \in Manager
    BY <1>1, <2>1, <2>3, <2>4 DEF Manager
  <2>7. /\ m.items = I /\ m.appItems = A
        /\ m.generation = manager.generation /\ m.queue = manager.queue
        /\ m.scheduled = manager.scheduled /\ m.unscheduled = manager.unscheduled
    BY <1>1, <2>1 DEF Manager
  <2>8. m.heard = manager.heard
    BY <1>1, <2>1, Zenon DEF Manager
  <2>9. \A b \in DOMAIN A : A[b][1] = b
    BY <1>1, <2>2, <2>3
  <2>11. QED
    BY <1>1, <1>3, <2>3, <2>5, <2>6, <2>7, <2>8, <2>9 DEF m
<1>4. QED
  BY <1>2, <1>3

\* One turn of the loop of the handler.
LEMMA ReadIndexKeeps == ASSUME DownloadsInv, ReadIndex PROVE DownloadsInv'
<1> DEFINE a == Head(reading)
           m == ConstructDownloadItem(manager, a)
           k == GetAppDownloadQueueIndex(a)
           Q == IF a \in known THEN Inserted(manager.queue, k, m.appItems[a]) ELSE manager.queue
<1>1. /\ reading # <<>> /\ reading' = Tail(reading)
      /\ manager' = IF a \notin DOMAIN m.appItems THEN m
                    ELSE [m EXCEPT !.queue = Inserted(@, k, m.appItems[a])]
      /\ UNCHANGED <<steamQueue, changes, schedule, known>>
  BY DEF ReadIndex
<1>2. /\ reading \in Seq(Titles) /\ a \in Titles /\ reading' \in Seq(Titles)
      /\ ToSet(reading) = {a} \cup ToSet(reading')
  <2>1. reading \in Seq(Titles)
    BY DEF DownloadsInv, SteamQueueOK
  <2>2. a \in Titles /\ reading' \in Seq(Titles)
    BY <1>1, <2>1
  <2>3. QED
    BY <1>1, <2>1, <2>2, ToSetOfParts
<1>3. manager.generation > 0 /\ manager \in Manager /\ manager.queue \in Map(Index)
  BY <1>1 DEF DownloadsInv, ManagerOK, Manager
<1>4. /\ k \in Index /\ k \in -1 .. Len(steamQueue) - 1
      /\ k # -1 => steamQueue[k + 1] = a
      /\ \A i \in DOMAIN steamQueue : steamQueue[i] = a => k = i - 1
  BY <1>2, IndexIs DEF DownloadsInv
<1>5. /\ m \in Manager /\ m.appItems \in Map(Titles)
      /\ m.generation = manager.generation /\ m.queue = manager.queue
      /\ m.scheduled = manager.scheduled /\ m.unscheduled = manager.unscheduled
      /\ manager.items \subseteq m.items
      /\ DOMAIN m.appItems \subseteq known
      /\ \A b \in DOMAIN m.appItems : m.appItems[b][1] = b
      /\ a \in DOMAIN m.appItems <=> a \in known
  BY <1>2, <1>3, ConstructDownloadItemIs DEF Manager
<1>6. m.heard = manager.heard
  BY <1>2, <1>3, ConstructDownloadItemIs
<1>7. a \in known => IsInserted(Index, manager.queue, k, m.appItems[a], Q)
  <2> SUFFICES ASSUME a \in known PROVE IsInserted(Index, manager.queue, k, m.appItems[a], Q)
    OBVIOUS
  <2>1. m.appItems[a] \in Item
    BY <1>5, MapIs
  <2> HIDE DEF m, k
  <2>2. QED
    BY <1>3, <1>4, <2>1, InsertedIs
<1> HIDE DEF m, k
<1>8. Q \in Map(Index) /\ (a \notin known => Q = manager.queue)
  BY <1>3, <1>7 DEF IsInserted
<1>9. manager' = [m EXCEPT !.queue = Q] \/ (manager' = m /\ Q = m.queue)
  BY <1>1, <1>5
<1> HIDE DEF Q, a
<1>10. /\ manager' \in Manager /\ manager'.queue = Q
       /\ manager'.items = m.items /\ manager'.appItems = m.appItems
       /\ manager'.generation = m.generation
       /\ manager'.scheduled = m.scheduled /\ manager'.unscheduled = m.unscheduled
  BY <1>5, <1>8, <1>9 DEF Manager
<1>11. manager'.heard = manager.heard
  BY <1>5, <1>6, <1>9, Zenon DEF Manager
<1>12. ManagerOK'
  BY <1>1, <1>3, <1>5, <1>10 DEF DownloadsInv, ManagerOK
<1>13. SteamQueueOK' /\ LastListsQueue'
  BY <1>1, <1>2 DEF DownloadsInv, SteamQueueOK, LastListsQueue
<1>15. QueueSoFar'
  <2> SUFFICES ASSUME manager.heard, schedule = <<>> PROVE PlacesSoFar'
    BY <1>1, <1>11 DEF QueueSoFar
  <2>1. PlacesSoFar
    BY DEF DownloadsInv, QueueSoFar
  <2>2. ASSUME NEW x \in DOMAIN Q
        PROVE  /\ x \in -1 .. Len(steamQueue) - 1
               /\ x # -1 => Q[x][1] = steamQueue[x + 1] /\ steamQueue[x + 1] \in known
    <3>1. CASE x \in DOMAIN manager.queue
      BY <1>7, <1>8, <2>1, <3>1 DEF IsInserted, PlacesSoFar
    <3>2. CASE x \notin DOMAIN manager.queue
      <4>1. a \in known /\ x = k /\ Q[x] = m.appItems[a]
        BY <1>7, <1>8, <3>2 DEF IsInserted
      <4>2. Q[x][1] = a
        BY <1>5, <4>1
      <4>3. QED
        BY <1>4, <4>1, <4>2
    <3>3. QED
      BY <3>1, <3>2
  <2>3. ASSUME NEW i \in DOMAIN steamQueue, steamQueue[i] \in known
        PROVE  i - 1 \in DOMAIN Q \/ steamQueue[i] \in ToSet(reading')
    BY <1>2, <1>4, <1>7, <1>8, <2>1, <2>3 DEF IsInserted, PlacesSoFar
  <2>4. QED
    BY <1>1, <1>10, <2>2, <2>3 DEF PlacesSoFar
<1>16. QED
  BY <1>12, <1>13, <1>15 DEF DownloadsInv

LEMMA DownloadsNextInv == DownloadsInv /\ [DownloadsNext]_downloadsVars => DownloadsInv'
<1> SUFFICES ASSUME DownloadsInv, [DownloadsNext]_downloadsVars PROVE DownloadsInv'
  OBVIOUS
<1>1. CASE UNCHANGED downloadsVars
  BY <1>1 DEF downloadsVars, DownloadsInv, ManagerOK, SteamQueueOK,
              LastListsQueue, QueueSoFar, PlacesSoFar
<1>2. ASSUME NEW q \in Arrangement(Titles), NEW later \in Arrangement(Titles \ ToSet(q)),
             QueueChanges(q, later)
      PROVE  DownloadsInv'
  BY <1>2, QueueChangesKeeps
<1>3. ASSUME NEW owned \in SUBSET Titles, NEW needUpdate \in SUBSET Titles,
             NEW start \in [Titles -> StartTime],
             NewDownloadManager(owned, needUpdate, start) \/ DebugReload(needUpdate, start)
      PROVE  DownloadsInv'
  BY <1>3, NewDownloadManagerKeeps, DebugReloadKeeps
<1>4. QED
  BY <1>1, <1>2, <1>3, DownloadScheduleChangedKeeps, ReadIndexKeeps DEF DownloadsNext

LEMMA DownloadsAlways == DownloadsSpec => []DownloadsInv
BY DownloadsInitInv, DownloadsNextInv, PTL DEF DownloadsSpec

-----------------------------------------------------------------------------
\* The types of Downloads' variables.
THEOREM DownloadsTypes == DownloadsSpec => []DownloadsTypeOK
<1>1. DownloadsInv => DownloadsTypeOK
  <2> SUFFICES ASSUME DownloadsInv PROVE DownloadsTypeOK
    OBVIOUS
  <2>1. DOMAIN manager.queue \subseteq Index
    BY MapIs DEF DownloadsInv, ManagerOK, Manager
  <2>2. QED
    BY <2>1 DEF DownloadsInv, ManagerOK, Manager, SteamQueueOK, DownloadsTypeOK
<1>2. QED
  BY <1>1, DownloadsAlways, PTL

\* Once the callbacks have been handled, the queue that is shown is steamclient's,
\* whatever it did while they were being handled
\* (DownloadManager::CallbackManager_DownloadScheduleChanged).
THEOREM QueueCatchesUp == DownloadsSpec => []QueueIsCurrent
<1>1. DownloadsInv => QueueIsCurrent
  <2> SUFFICES ASSUME DownloadsInv, manager.heard, schedule = <<>>, reading = <<>>
               PROVE  QueueIsCurrent
    BY DEF QueueIsCurrent
  <2>1. PlacesSoFar
    BY DEF DownloadsInv, QueueSoFar
  <2>2. \A i \in DOMAIN steamQueue : i \in 1..Len(steamQueue) /\ i - 1 # -1 /\ (i - 1) + 1 = i
    BY DEF DownloadsInv, SteamQueueOK
  <2>3. ToSet(reading) = {}
    BY DEF ToSet
  <2>4. ASSUME NEW i \in DOMAIN steamQueue
        PROVE  IF steamQueue[i] \in known
               THEN i - 1 \in DOMAIN manager.queue /\ manager.queue[i - 1][1] = steamQueue[i]
               ELSE i - 1 \notin DOMAIN manager.queue
    <3>1. i - 1 \in DOMAIN manager.queue =>
              manager.queue[i - 1][1] = steamQueue[i] /\ steamQueue[i] \in known
      BY <2>1, <2>2 DEF PlacesSoFar
    <3>2. QED
      BY <2>1, <2>3, <3>1 DEF PlacesSoFar
  <2>5. QED
    BY <2>1, <2>4 DEF QueueIsCurrent, PlacesSoFar
<1>2. QED
  BY <1>1, DownloadsAlways, PTL

-----------------------------------------------------------------------------
(***************************************************************************)
(* LaunchOptions. A section is listed by the bytes of its keys, so an      *)
(* array's places are the numbers of its keys when these are 0, 1, ... in  *)
(* a growing order (PlaceIsNumber); all else stays an object.              *)
(***************************************************************************)

\* A section as it is read: options by their keys.
IsSection(object) == DOMAIN object \subseteq Keys /\ \A k \in DOMAIN object : object[k] \in OptionKinds

IsRead == parsing \in {"parsed", "filtered"} => launchJSON = SectionJSON(launch)

IsFiltered ==
    parsing = "filtered" => working = {o \in GetLaunchOptions(launchJSON) : CanRun(o.kind)}

NothingYet == parsing \in {"reading", "overrun", "parsed"} => working = {}

LaunchInv == LaunchTypeOK /\ IsRead /\ IsFiltered /\ NothingYet

\* The options of a section, with the numbers their keys stand for.
Numbered(object) == {[index |-> IF Number[k] = NotANumber THEN 0 ELSE Number[k], kind |-> object[k]] :
                        k \in DOMAIN object}

LEMMA FieldBound == MaxFields \in Nat
BY Zenon, LaunchOptionsAssumption

LEMMA AnotherField ==
    ASSUME LaunchTypeOK, fields < MaxFields, fields' = fields + 1 PROVE fields' \in 0..MaxFields
<1>1. fields \in 0..MaxFields
  BY Zenon DEF LaunchTypeOK
<1>2. QED
  BY <1>1, FieldBound

LEMMA KeyNumbers ==
    /\ KeyOrder \in Seq(STRING) /\ DOMAIN KeyOrder = 1..Len(KeyOrder) /\ Len(KeyOrder) \in Nat
    /\ \A i \in DOMAIN KeyOrder : KeyOrder[i] \in Keys
    /\ \A k \in Keys : Number[k] \in Nat \cup {NotANumber} /\ \E i \in DOMAIN KeyOrder : KeyOrder[i] = k
    /\ Number \in [Keys -> Nat \cup {NotANumber}]
BY LaunchOptionsAssumption DEF Keys, ToSet

\* items() lists every key of the section once, in the order of the bytes.
ListsKeys(object, order) ==
    /\ order \in Seq(STRING) /\ Len(order) \in Nat /\ DOMAIN order = 1..Len(order)
    /\ \A i \in DOMAIN order : order[i] \in DOMAIN object
    /\ \A k \in DOMAIN object : \E i \in DOMAIN order : order[i] = k
    /\ \A i, j \in DOMAIN order :
          /\ Number[order[i]] \in 0..9 /\ Number[order[j]] \in 0..9
          /\ i < j
          => Number[order[i]] < Number[order[j]]

LEMMA KeysInOrderLists ==
    ASSUME NEW object, IsSection(object) PROVE ListsKeys(object, KeysInOrder(object))
<1> DEFINE places == {i \in DOMAIN KeyOrder : KeyOrder[i] \in DOMAIN object}
           order == Picked(KeyOrder, places)
<1>1. order \in Seq(STRING) /\ KeysInOrder(object) = order
  BY KeyNumbers, PickedIsInOrder DEF KeysInOrder
<1>2. PICK at : InOrder(KeyOrder, places, Len(KeyOrder), order, at)
  BY KeyNumbers, PickedIsInOrder
<1>3. Len(order) \in Nat /\ DOMAIN order = 1..Len(order)
  BY <1>1
<1> HIDE DEF order
<1>4. ASSUME NEW i \in DOMAIN order
      PROVE  at[i] \in places /\ order[i] = KeyOrder[at[i]] /\ order[i] \in DOMAIN object
  BY <1>2, <1>3 DEF InOrder
<1>5. ASSUME NEW k \in DOMAIN object PROVE \E i \in DOMAIN order : order[i] = k
  <2>1. PICK p \in DOMAIN KeyOrder : KeyOrder[p] = k
    BY KeyNumbers DEF IsSection
  <2>2. p \in places \cap (1..Len(KeyOrder))
    BY <2>1, KeyNumbers
  <2>3. PICK i \in DOMAIN order : at[i] = p
    BY <1>2, <1>3, <2>2 DEF InOrder
  <2>4. QED
    BY <1>4, <2>1, <2>3
<1>6. ASSUME NEW i \in DOMAIN order, NEW j \in DOMAIN order, i < j,
             Number[order[i]] \in 0..9, Number[order[j]] \in 0..9
      PROVE  Number[order[i]] < Number[order[j]]
  <2>1. at[i] < at[j]
    BY <1>2, <1>3, <1>6 DEF InOrder
  <2>2. QED
    BY <1>4, <1>6, <2>1, LaunchOptionsAssumption DEF OneDigitKeys
<1>7. QED
  BY <1>1, <1>3, <1>4, <1>5, <1>6 DEF ListsKeys

LEMMA SectionIsFinite ==
    ASSUME NEW object, IsSection(object) PROVE Cardinality(DOMAIN object) \in Nat
<1>1. IsFiniteSet(DOMAIN KeyOrder)
  BY KeyNumbers, FS_Interval
<1>2. KeyOrder \in Surjection(DOMAIN KeyOrder, Keys)
  BY KeyNumbers DEF Surjection
<1>3. IsFiniteSet(Keys)
  BY <1>1, <1>2, FS_Surjection
<1>4. QED
  BY <1>3, FS_Subset, FS_CardinalityType DEF IsSection

\* Numbers 0, 1, ... in a growing order are one less than their places.
LEMMA PlaceIsNumber ==
    ASSUME NEW m \in Nat, NEW number \in [1..m -> Nat], NEW n \in Nat,
           \A i, j \in 1..m : i < j => number[i] < number[j],
           \A i \in 1..m : number[i] < n,
           \A x \in 0..(n - 1) : \E i \in 1..m : number[i] = x
    PROVE  \A i \in 1..m : number[i] = i - 1
<1> DEFINE Bad == {i \in 1..m : number[i] # i - 1}
<1> SUFFICES ASSUME Bad # {} PROVE FALSE
  OBVIOUS
<1>1. PICK i \in Bad : \A j \in Bad : i <= j
  <2>1. Bad \subseteq Nat
    OBVIOUS
  <2> HIDE DEF Bad
  <2>2. QED
    BY <2>1, LeastNumber
<1>2. i \in 1..m /\ number[i] # i - 1 /\ number[i] \in Nat
  BY <1>1
<1>3. \A j \in 1..m : j < i => number[j] = j - 1
  <2> SUFFICES ASSUME NEW j \in 1..m, j < i PROVE number[j] = j - 1
    OBVIOUS
  <2>1. ~(i <= j)
    BY <1>2
  <2>2. j \notin Bad
    BY <1>1, <2>1
  <2>3. QED
    BY <2>2
<1>4. number[i] > i - 1
  <2>1. CASE i = 1
    BY <1>2, <2>1
  <2>2. CASE i # 1
    <3>1. i - 1 \in 1..m /\ i - 1 < i
      BY <1>2, <2>2
    <3>2. number[i - 1] = i - 2 /\ number[i - 1] < number[i]
      BY <1>2, <1>3, <3>1
    <3>3. QED
      BY <1>2, <3>2
  <2>3. QED
    BY <2>1, <2>2
<1>5. i - 1 \in 0..(n - 1)
  BY <1>2, <1>4
<1>6. PICK j \in 1..m : number[j] = i - 1
  BY <1>5
<1>7. j < i \/ j = i \/ j > i
  BY <1>2
<1>8. CASE j < i
  BY <1>2, <1>3, <1>6, <1>8
<1>9. CASE j = i
  BY <1>2, <1>6, <1>9
<1>10. CASE j > i
  <2>1. number[i] < number[j] /\ number[i] \in Nat /\ number[j] \in Nat
    BY <1>2, <1>10
  <2>2. QED
    BY <1>2, <1>4, <1>6, <2>1
<1>11. QED
  BY <1>7, <1>8, <1>9, <1>10

\* An array's places are the numbers of its keys when these are numbered in
\* order; otherwise the section is an object, or is empty.
LEMMA SectionKeepsNumbers ==
    ASSUME NEW object, IsSection(object), NumberedInOrder(object) \/ KeptAsObject(object)
    PROVE  GetLaunchOptions(SectionJSON(object)) = Numbered(object)
<1> DEFINE order == KeysInOrder(object)
           named == \/ \E k \in DOMAIN object : Number[k] = NotANumber
                    \/ order # <<>> /\ Number[order[1]] # 0
           array == [kind |-> "array", members |-> [i \in DOMAIN order |-> object[order[i]]]]
<1>1. SectionJSON(object) = IF named THEN [kind |-> "object", members |-> object] ELSE array
  BY DEF SectionJSON
<1>2. ListsKeys(object, order)
  BY KeysInOrderLists
<1>3. \A k \in DOMAIN object : Number[k] \in Nat \cup {NotANumber}
  BY KeyNumbers DEF IsSection
<1> HIDE DEF order
<1>4. CASE named
  <2> DEFINE plain == [kind |-> "object", members |-> object]
  <2>1. SectionJSON(object) = plain
    BY <1>1, <1>4
  <2>2. GetLaunchOptions(plain) = Numbered(object)
    BY DEF GetLaunchOptions, Numbered
  <2>3. QED
    BY <2>1, <2>2
<1>5. CASE ~named
  <2>1. GetLaunchOptions(SectionJSON(object))
           = {[index |-> i - 1, kind |-> object[order[i]]] : i \in DOMAIN order}
    <3>1. SectionJSON(object) = array
      BY <1>1, <1>5
    <3>2. array.kind = "array" /\ DOMAIN array.members = DOMAIN order
          /\ \A i \in DOMAIN order : array.members[i] = object[order[i]]
      OBVIOUS
    <3> HIDE DEF array
    <3>3. QED
      BY <3>1, <3>2 DEF GetLaunchOptions
  <2>2. \A k \in DOMAIN object : Number[k] \in Nat /\ Number[k] # NotANumber
    BY <1>3, <1>5
  <2>3. \A i \in DOMAIN order : Number[order[i]] = i - 1
    <3>1. CASE NumberedInOrder(object)
      <4> DEFINE n == Cardinality(DOMAIN object)
                 number == [i \in 1..Len(order) |-> Number[order[i]]]
      <4>1. n \in Nat /\ n <= 10 /\ {Number[k] : k \in DOMAIN object} = 0..(n - 1)
        BY <3>1, SectionIsFinite DEF NumberedInOrder
      <4> HIDE DEF n
      <4>2. Len(order) \in Nat /\ DOMAIN order = 1..Len(order)
        BY <1>2 DEF ListsKeys
      <4>3. \A i \in 1..Len(order) : Number[order[i]] \in 0..(n - 1) /\ Number[order[i]] \in 0..9
        <5>1. \A i \in 1..Len(order) : order[i] \in DOMAIN object
          BY <1>2, <4>2 DEF ListsKeys
        <5>2. \A k \in DOMAIN object : Number[k] \in 0..(n - 1)
          BY <4>1
        <5>3. 0..(n - 1) \subseteq 0..9
          BY <4>1
        <5>4. QED
          BY <5>1, <5>2, <5>3
      <4>4. number \in [1..Len(order) -> Nat]
        BY <4>1, <4>3
      <4>5. \A i, j \in 1..Len(order) : i < j => number[i] < number[j]
        BY <1>2, <4>2, <4>3 DEF ListsKeys
      <4>6. \A i \in 1..Len(order) : number[i] < n
        BY <4>1, <4>3
      <4>7. \A x \in 0..(n - 1) : \E i \in 1..Len(order) : number[i] = x
        <5> SUFFICES ASSUME NEW x \in 0..(n - 1) PROVE \E i \in 1..Len(order) : number[i] = x
          OBVIOUS
        <5>1. PICK k \in DOMAIN object : Number[k] = x
          BY <4>1
        <5>2. QED
          BY <1>2, <4>2, <5>1 DEF ListsKeys
      <4>8. \A i \in 1..Len(order) : number[i] = i - 1
        <5> HIDE DEF number
        <5>1. QED
          BY <4>1, <4>2, <4>4, <4>5, <4>6, <4>7, PlaceIsNumber
      <4>9. QED
        BY <4>2, <4>8
    <3>2. CASE KeptAsObject(object)
      <4>1. \A k \in DOMAIN object : Number[k] # 0
        BY <1>5, <3>2 DEF KeptAsObject
      <4>2. order = <<>>
        <5>1. CASE order # <<>>
          <6>1. Number[order[1]] = 0
            BY <1>5, <5>1
          <6>2. 1 \in DOMAIN order
            BY <1>2, <5>1 DEF ListsKeys
          <6>3. QED
            BY <1>2, <4>1, <6>1, <6>2 DEF ListsKeys
        <5>2. QED
          BY <5>1
      <4>3. QED
        BY <4>2
    <3>3. QED
      BY <3>1, <3>2
  <2>4. Numbered(object) = {[index |-> Number[k], kind |-> object[k]] : k \in DOMAIN object}
    BY <2>2 DEF Numbered
  <2>5. {[index |-> i - 1, kind |-> object[order[i]]] : i \in DOMAIN order}
           = {[index |-> Number[k], kind |-> object[k]] : k \in DOMAIN object}
    <3>1. \A i \in DOMAIN order : order[i] \in DOMAIN object
      BY <1>2 DEF ListsKeys
    <3>2. \A k \in DOMAIN object : \E i \in DOMAIN order : order[i] = k
      BY <1>2 DEF ListsKeys
    <3>3. {[index |-> i - 1, kind |-> object[order[i]]] : i \in DOMAIN order}
             = {[index |-> Number[order[i]], kind |-> object[order[i]]] : i \in DOMAIN order}
      BY <2>3
    <3>4. QED
      BY <3>1, <3>2, <3>3
  <2>6. QED
    BY <2>1, <2>4, <2>5
<1>6. QED
  BY <1>4, <1>5

\* Every option has a number and a kind.
LEMMA OptionsAreTyped ==
    ASSUME NEW object, IsSection(object)
    PROVE  /\ \A o \in GetLaunchOptions(SectionJSON(object)) : o.index \in Nat /\ o.kind \in OptionKinds
           /\ SectionJSON(object).kind \in {"array", "object"}
<1> DEFINE order == KeysInOrder(object)
           array == [kind |-> "array", members |-> [i \in DOMAIN order |-> object[order[i]]]]
           plain == [kind |-> "object", members |-> object]
<1>1. SectionJSON(object) \in {plain, array}
  BY DEF SectionJSON
<1>2. ListsKeys(object, order)
  BY KeysInOrderLists
<1> HIDE DEF order
<1>3. GetLaunchOptions(plain) = Numbered(object)
  BY DEF GetLaunchOptions, Numbered
<1>4. \A o \in Numbered(object) : o.index \in Nat /\ o.kind \in OptionKinds
  <2>1. \A k \in DOMAIN object : (IF Number[k] = NotANumber THEN 0 ELSE Number[k]) \in Nat
                                 /\ object[k] \in OptionKinds
    BY KeyNumbers DEF IsSection
  <2>2. QED
    BY <2>1 DEF Numbered
<1>5. GetLaunchOptions(array) = {[index |-> i - 1, kind |-> object[order[i]]] : i \in DOMAIN order}
  BY DEF GetLaunchOptions
<1>6. \A i \in DOMAIN order : i - 1 \in Nat /\ object[order[i]] \in OptionKinds
  BY <1>2 DEF ListsKeys, IsSection
<1>7. \A o \in GetLaunchOptions(array) : o.index \in Nat /\ o.kind \in OptionKinds
  BY <1>5, <1>6
<1>8. plain.kind = "object" /\ array.kind = "array"
  OBVIOUS
<1> HIDE DEF plain, array
<1>9. QED
  BY <1>1, <1>3, <1>4, <1>7, <1>8

LEMMA LaunchInitInv == LaunchInit => LaunchInv
<1> SUFFICES ASSUME LaunchInit PROVE LaunchInv
  OBVIOUS
<1>1. launchJSON.kind = "none"
  BY DEF LaunchInit, NoJSON
<1>2. DOMAIN launch = {}
  BY DEF LaunchInit, NoObject
<1>3. fields \in 0..MaxFields
  <2>1. fields = 0
    BY DEF LaunchInit
  <2>2. QED
    BY <2>1, FieldBound
<1>4. QED
  BY <1>1, <1>2, <1>3 DEF LaunchInit, LaunchInv, LaunchTypeOK, IsRead, IsFiltered, NothingYet

LEMMA ReadSectionKeeps == ASSUME LaunchInv, NEW k \in Keys, ReadSection(k) PROVE LaunchInv'
<1>1. /\ parsing = "reading" /\ fields < MaxFields /\ fields' = fields + 1 /\ option' = k
      /\ UNCHANGED <<protonTool, dlcInstalled, betaActive, parsing, launch, launchJSON, working>>
  BY DEF ReadSection, ReadsField
<1>2. fields' \in 0..MaxFields
  BY <1>1, AnotherField DEF LaunchInv
<1>3. QED
  BY <1>1, <1>2 DEF LaunchInv, LaunchTypeOK, IsRead, IsFiltered, NothingYet

LEMMA ReadOptionKeeps == ASSUME LaunchInv, NEW kind \in OptionKinds, ReadOption(kind) PROVE LaunchInv'
<1>1. /\ parsing = "reading" /\ fields < MaxFields /\ fields' = fields + 1 /\ option # ""
      /\ launch' = [k \in DOMAIN launch \cup {option} |-> IF k = option THEN kind ELSE launch[k]]
      /\ option' = ""
      /\ UNCHANGED <<protonTool, dlcInstalled, betaActive, parsing, launchJSON, working>>
  BY DEF ReadOption, ReadsField
<1>2. DOMAIN launch' \subseteq Keys /\ \A k \in DOMAIN launch' : launch'[k] \in OptionKinds
  BY <1>1 DEF LaunchInv, LaunchTypeOK
<1>3. fields' \in 0..MaxFields
  BY <1>1, AnotherField DEF LaunchInv
<1>4. QED
  BY <1>1, <1>2, <1>3 DEF LaunchInv, LaunchTypeOK, IsRead, IsFiltered, NothingYet

LEMMA ReadEndKeeps == ASSUME LaunchInv, ReadEnd PROVE LaunchInv'
<1>1. /\ parsing = "reading" /\ fields < MaxFields /\ fields' = fields + 1
      /\ launchJSON' = SectionJSON(launch) /\ parsing' = "parsed"
      /\ UNCHANGED <<protonTool, dlcInstalled, betaActive, launch, option, working>>
  BY DEF ReadEnd, ReadsField
<1>2. launchJSON'.kind \in {"none", "array", "object"}
  BY <1>1, OptionsAreTyped DEF LaunchInv, LaunchTypeOK, IsSection
<1>3. fields' \in 0..MaxFields
  BY <1>1, AnotherField DEF LaunchInv
<1>4. QED
  BY <1>1, <1>2, <1>3 DEF LaunchInv, LaunchTypeOK, IsRead, IsFiltered, NothingYet

LEMMA FilterKeeps == ASSUME LaunchInv, GetFilteredLaunchOptions PROVE LaunchInv'
<1>1. /\ parsing = "parsed" /\ parsing' = "filtered"
      /\ working' = {o \in GetLaunchOptions(launchJSON) : CanRun(o.kind)}
      /\ UNCHANGED <<protonTool, dlcInstalled, betaActive, fields, launch, option, launchJSON>>
  BY DEF GetFilteredLaunchOptions
<1>2. launchJSON = SectionJSON(launch) /\ IsSection(launch)
  BY <1>1 DEF LaunchInv, LaunchTypeOK, IsRead, IsSection
<1>3. \A o \in working' : o.index \in Nat /\ o.kind \in OptionKinds
  BY <1>1, <1>2, OptionsAreTyped
<1>4. LaunchTypeOK'
  BY <1>1, <1>3 DEF LaunchInv, LaunchTypeOK
<1>5. IsRead' /\ NothingYet'
  BY <1>1, <1>2 DEF IsRead, NothingYet
<1>6. IsFiltered'
  BY <1>1 DEF IsFiltered, CanRun
<1>7. QED
  BY <1>4, <1>5, <1>6 DEF LaunchInv

LEMMA LaunchNextInv == LaunchInv /\ [LaunchNext]_launchVars => LaunchInv'
<1> SUFFICES ASSUME LaunchInv, [LaunchNext]_launchVars PROVE LaunchInv'
  OBVIOUS
<1>1. ASSUME NEW k \in Keys, ReadSection(k) PROVE LaunchInv'
  BY <1>1, ReadSectionKeeps
<1>2. ASSUME NEW kind \in OptionKinds, ReadOption(kind) PROVE LaunchInv'
  BY <1>2, ReadOptionKeeps
<1>3. CASE ReadEnd
  BY <1>3, ReadEndKeeps
<1>4. CASE DataRunsOut
  BY <1>4 DEF DataRunsOut, LaunchInv, LaunchTypeOK, IsRead, IsFiltered, NothingYet
<1>5. CASE GetFilteredLaunchOptions
  BY <1>5, FilterKeeps
<1>6. CASE UNCHANGED launchVars
  BY <1>6 DEF launchVars, LaunchInv, LaunchTypeOK, IsRead, IsFiltered, NothingYet, CanRun
<1>7. QED
  BY <1>1, <1>2, <1>3, <1>4, <1>5, <1>6 DEF LaunchNext

LEMMA LaunchAlways == LaunchSpec => []LaunchInv
BY LaunchInitInv, LaunchNextInv, PTL DEF LaunchSpec

\* The section, its JSON and the options taken from it are well formed, whatever
\* fields come and wherever they end (ParseBinary, App::GetLaunchOptions).
THEOREM LaunchTypes == LaunchSpec => []LaunchTypeOK
BY LaunchAlways, PTL DEF LaunchInv

\* An option is launched by the number it has in the data, for any keys, when
\* they are numbered in order or the section stays an object
\* (ParseBinary, App::GetLaunchOptions, App::GetFilteredLaunchOptions).
THEOREM OptionKeepsItsNumber == LaunchSpec => []LaunchesByItsNumber
<1>1. LaunchInv => LaunchesByItsNumber
  <2> SUFFICES ASSUME LaunchInv, parsing = "filtered", NumberedInOrder(launch) \/ KeptAsObject(launch)
               PROVE  working = {[index |-> IF Number[k] = NotANumber THEN 0 ELSE Number[k],
                                  kind |-> launch[k]] :
                                     k \in {j \in DOMAIN launch : CanRun(launch[j])}}
    BY DEF LaunchesByItsNumber
  <2>1. launchJSON = SectionJSON(launch) /\ IsSection(launch)
    BY DEF LaunchInv, LaunchTypeOK, IsRead, IsSection
  <2>2. working = {o \in Numbered(launch) : CanRun(o.kind)}
    BY <2>1, SectionKeepsNumbers DEF LaunchInv, IsFiltered
  <2>3. QED
    BY <2>2 DEF Numbered
<1>2. QED
  BY <1>1, LaunchAlways, PTL
=============================================================================
