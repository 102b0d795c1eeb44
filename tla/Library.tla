------------------------------ MODULE Library ------------------------------
(***************************************************************************)
(* The games of the user and their icons: AppManager                       *)
(* (interop/appmanager.cpp).  LoadApps runs once for each main window and  *)
(* asks for the icon of every app it knows; the replies come back to the   *)
(* main thread one by one, in any order, and steamclient may learn of a    *)
(* new icon at any time.                                                   *)
(*                                                                         *)
(* An icon's hash names the image it is the hash of, so images are hashes  *)
(* too.  A reply carries what its request was about.                       *)
(*                                                                         *)
(* As in Login, a definition whose comment begins with "Without" or        *)
(* "Wrong" is a variant of the next one with a plausible bug.              *)
(***************************************************************************)
EXTENDS Naturals, FiniteSets, Sequences

CONSTANTS App,             \* the apps of steamclient
          Hash,            \* icon hashes
          NoHash,          \* no icon: Music, no answer or an empty one
          MaxLoads,        \* bound: main windows, each of which loads the apps
          MaxIconChanges   \* bound: times steamclient learns of a new icon

ASSUME LibraryAssumption ==
    /\ NoHash \notin Hash
    /\ MaxLoads \in Nat /\ MaxIconChanges \in Nat

VARIABLES clientIcon,    \* steamclient's app info: common/clienticon of each app
          apps,          \* AppManager::apps: what is known of the apps in it
          libraryCache,  \* appcache/librarycache: the files <app>_<hash>.png
          pendingHash,   \* the keys of pendingHashToTypeMap
          pendingReply,  \* the keys of pendingReplyToAppMap
          network,       \* the replies QNetworkAccessManager still owes us
          sent,          \* history: every request
          arrived,       \* history: the replies that came with an image
          counts         \* loads and changed icons so far

libraryVars == <<clientIcon, apps, libraryCache, pendingHash, pendingReply,
                 network, sent, arrived, counts>>

Reply == [app : App, url : Hash, load : 1..MaxLoads]
File == [app : App, name : Hash, image : Hash \cup {NoHash}]   \* NoHash: cut short
Icon == [name : Hash, image : Hash \cup {NoHash}]
NoIcon == [name |-> NoHash, image |-> NoHash]

\* An App as the constructor leaves it: no icon asked for yet.
NewApp == [iconHash |-> NoHash, icon |-> NoIcon]

LibraryInit ==
    /\ clientIcon = [a \in App |-> NoHash]
    /\ apps = [a \in {} |-> NewApp]
    /\ libraryCache = {}
    /\ pendingHash = {} /\ pendingReply = {} /\ network = {}
    /\ sent = {} /\ arrived = {}
    /\ counts = [loads |-> 0, changes |-> 0]

-----------------------------------------------------------------------------
(* Loading the apps and asking for their icons *)

IsCached(a, h) == \E f \in libraryCache : f.app = a /\ f.name = h

\* RequestLibraryAsset up to the request: the app remembers the hash, and a
\* cached file is used at once.
RequestLibraryAsset(a, app, h) ==
    IF h = NoHash THEN app
    ELSE IF IsCached(a, h)
         THEN LET file == CHOOSE f \in libraryCache : f.app = a /\ f.name = h
              IN  [iconHash |-> h, icon |-> [name |-> h, image |-> file.image]]
         ELSE [app EXCEPT !.iconHash = h]

\* Without a look at whether there is an icon.
WithoutFileUnchecked(known) == {a \in known : ~IsCached(a, clientIcon[a])}

\* The apps whose icon has to be asked for.
WithoutFile(known) == {a \in known : clientIcon[a] # NoHash /\ ~IsCached(a, clientIcon[a])}

\* LoadApps and StartLoadingLibraryAssets for an account that owns the apps
\* of `owned`.  apps.insert keeps what is there already, so the apps of an
\* earlier account stay; every app in the map is asked about again.
LoadApps(owned) ==
    LET known == DOMAIN apps \cup owned
        old(a) == IF a \in DOMAIN apps THEN apps[a] ELSE NewApp
        requests == {[app |-> a, url |-> clientIcon[a], load |-> counts.loads + 1] :
                        a \in WithoutFile(known)}
    IN  /\ counts.loads < MaxLoads
        /\ counts' = [counts EXCEPT !.loads = @ + 1]
        /\ apps' = [a \in known |-> RequestLibraryAsset(a, old(a), clientIcon[a])]
        /\ pendingHash' = pendingHash \cup {r.url : r \in requests}
        /\ pendingReply' = pendingReply \cup requests
        /\ network' = network \cup requests
        /\ sent' = sent \cup requests
        /\ UNCHANGED <<clientIcon, libraryCache, arrived>>

\* steamclient gets new app info.
IconChanges(a, h) ==
    /\ counts.changes < MaxIconChanges
    /\ h # clientIcon[a]
    /\ counts' = [counts EXCEPT !.changes = @ + 1]
    /\ clientIcon' = [clientIcon EXCEPT ![a] = h]
    /\ UNCHANGED <<apps, libraryCache, pendingHash, pendingReply, network, sent, arrived>>

\* The process is gone, and its requests with it; files stay.
Stopped ==
    /\ apps' = [a \in {} |-> NewApp]
    /\ pendingHash' = {} /\ pendingReply' = {} /\ network' = {}

Restart ==
    /\ DOMAIN apps # {}
    /\ Stopped
    /\ UNCHANGED <<clientIcon, libraryCache, sent, arrived, counts>>

-----------------------------------------------------------------------------
(* The replies *)

\* Wrong: the file named after the request, but the icon left as it was.
StoreOnly(r) ==
    /\ libraryCache' = {f \in libraryCache : f.app # r.app \/ f.name # r.url}
                       \cup {[app |-> r.app, name |-> r.url, image |-> r.url]}
    /\ UNCHANGED apps

\* Wrong: the file named after any hash that is waited for.
StoreUnderAny(r) ==
    \E h \in pendingHash :
        /\ libraryCache' = {f \in libraryCache : f.app # r.app \/ f.name # h}
                           \cup {[app |-> r.app, name |-> h, image |-> r.url]}
        /\ apps' = [apps EXCEPT ![r.app].icon = [name |-> h, image |-> r.url]]

\* Wrong: the icon shown is the image of the reply, whatever the file holds.
StoreIfNew(r) ==
    LET name == apps[r.app].iconHash
    IN  /\ libraryCache' = libraryCache \cup
                {f \in {[app |-> r.app, name |-> name, image |-> r.url]} :
                    ~ \E g \in libraryCache : g.app = r.app}
        /\ apps' = [apps EXCEPT ![r.app].icon = [name |-> name, image |-> r.url]]

\* The image is saved under the hash the app has now, which need not be the
\* one that was asked for, and the icon is loaded from that file.
Store(r) ==
    LET name == apps[r.app].iconHash
    IN  /\ libraryCache' = {f \in libraryCache : f.app # r.app \/ f.name # name}
                           \cup {[app |-> r.app, name |-> name, image |-> r.url]}
        /\ apps' = [apps EXCEPT ![r.app].icon = [name |-> name, image |-> r.url]]

\* replyReceived of a reply without an error whose app waits for its hash.
replyReceived(r) ==
    /\ r \in network /\ r \in pendingReply
    /\ apps[r.app].iconHash \in pendingHash
    /\ network' = network \ {r}
    /\ pendingReply' = pendingReply \ {r}
    /\ pendingHash' = pendingHash \ {apps[r.app].iconHash}
    /\ arrived' = arrived \cup {r}
    /\ Store(r)
    /\ UNCHANGED <<clientIcon, sent, counts>>

\* The same for a reply whose bytes give no image: nothing is saved, and the
\* icon is read from a file that may not be there.
replyUnreadable(r) ==
    LET name == apps[r.app].iconHash
        files == {f \in libraryCache : f.app = r.app /\ f.name = name}
    IN  /\ r \in network /\ r \in pendingReply
        /\ name \in pendingHash
        /\ network' = network \ {r}
        /\ pendingReply' = pendingReply \ {r}
        /\ pendingHash' = pendingHash \ {name}
        /\ apps' = [apps EXCEPT ![r.app].icon =
                        IF files = {} THEN NoIcon
                        ELSE [name |-> name, image |-> (CHOOSE f \in files : TRUE).image]]
        /\ UNCHANGED <<clientIcon, libraryCache, sent, arrived, counts>>

\* Without the erasure of the reply.
replyDroppedKept(r) ==
    /\ r \in network /\ r \in pendingReply
    /\ apps[r.app].iconHash \notin pendingHash
    /\ network' = network \ {r}
    /\ arrived' = arrived \cup {r}
    /\ UNCHANGED <<clientIcon, apps, libraryCache, pendingHash, pendingReply, sent, counts>>

\* replyReceived when nobody waits for the hash any more: another reply with
\* the same hash was first.
replyDropped(r) ==
    /\ r \in network /\ r \in pendingReply
    /\ apps[r.app].iconHash \notin pendingHash
    /\ network' = network \ {r}
    /\ pendingReply' = pendingReply \ {r}
    /\ arrived' = arrived \cup {r}
    /\ UNCHANGED <<clientIcon, apps, libraryCache, pendingHash, sent, counts>>

\* errorOccurred, then finished: replyErrored forgets the reply, so
\* replyReceived returns early.  The hash stays in pendingHashToTypeMap.
replyErrored(r) ==
    /\ r \in network
    /\ network' = network \ {r}
    /\ pendingReply' = pendingReply \ {r}
    /\ UNCHANGED <<clientIcon, apps, libraryCache, pendingHash, sent, arrived, counts>>

\* A crash while the image is saved leaves a file without an image.
CrashInSave(r) ==
    LET name == apps[r.app].iconHash
    IN  /\ r \in network /\ r \in pendingReply
        /\ name \in pendingHash
        /\ libraryCache' = {f \in libraryCache : f.app # r.app \/ f.name # name}
                           \cup {[app |-> r.app, name |-> name, image |-> NoHash]}
        /\ Stopped
        /\ UNCHANGED <<clientIcon, sent, arrived, counts>>

ReplyEvent(r) == replyReceived(r) \/ replyUnreadable(r) \/ replyDropped(r) \/ replyErrored(r)

LibraryNext ==
    \/ \E owned \in SUBSET App : LoadApps(owned)
    \/ \E a \in App : \E h \in Hash \cup {NoHash} : IconChanges(a, h)
    \/ \E r \in network : ReplyEvent(r) \/ CrashInSave(r)
    \/ Restart

\* Every reply ends, with an answer or an error.
LibraryFairness == WF_libraryVars(\E r \in network : ReplyEvent(r))

LibrarySpec == LibraryInit /\ [][LibraryNext]_libraryVars /\ LibraryFairness

-----------------------------------------------------------------------------
(* Properties *)

\* The values of the variables.
LibraryTypeOK ==
    /\ clientIcon \in [App -> Hash \cup {NoHash}]
    /\ DOMAIN apps \subseteq App
    /\ apps \in [DOMAIN apps -> [iconHash : Hash \cup {NoHash}, icon : Icon \cup {NoIcon}]]
    /\ libraryCache \subseteq File
    /\ pendingHash \subseteq Hash
    /\ pendingReply \subseteq Reply /\ network \subseteq Reply
    /\ sent \subseteq Reply /\ arrived \subseteq sent
    /\ counts \in [loads : 0..MaxLoads, changes : 0..MaxIconChanges]

\* The icon that is shown is the one the next start will find in the cache:
\* whatever replies and loads have overtaken each other, the image in memory
\* is the image of the file it was loaded from.
IconIsInCache ==
    \A a \in DOMAIN apps :
        apps[a].icon # NoIcon =>
            [app |-> a, name |-> apps[a].icon.name, image |-> apps[a].icon.image]
                \in libraryCache

\* A reply whose app and whose hash no other request shares gives its app the
\* icon: only sharing loses icons (appmanager.cpp:237).
LoneReplyGivesIcon ==
    \A r \in arrived :
        /\ \A q \in sent \ {r} : q.app # r.app /\ q.url # r.url
        /\ r.app \in DOMAIN apps
        /\ apps[r.app].iconHash = r.url
        => apps[r.app].icon.image = r.url

\* What a cached file holds and what its name says were both asked for by the
\* app it belongs to: only an icon that changed while its reply was under way
\* gets a wrong file (appmanager.cpp:301), no other app's icon does.
FilesOfOwnApp ==
    \A f \in libraryCache :
        /\ \E r \in sent : r.app = f.app /\ r.url = f.name
        /\ f.image = NoHash \/ \E q \in sent : q.app = f.app /\ q.url = f.image

\* The map of pending replies becomes empty again and again, so that
\* libraryAssetsLoaded could be emitted; no order of replies leaves one in it.
RepliesDrain == []<>(pendingReply = {})
=============================================================================
