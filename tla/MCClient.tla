------------------------------ MODULE MCClient ------------------------------
(***************************************************************************)
(* The components around the signed-in client, for TLC.  They share no     *)
(* state, so that one behaviour of all of them shows nothing that the      *)
(* behaviours of each do not show: `part` names the one that acts, and the *)
(* others rest in one of their initial states.  TLC then visits the sum of *)
(* their states instead of the product.                                    *)
(***************************************************************************)
EXTENDS Library, Downloads, GameList, GameWindow, Folders, SingleInstance, Reaper,
        WebTabs, Messages, LaunchOptions, CompatTools

VARIABLE part

Part == {"library", "downloads", "gameList", "gameWindow", "folders", "singleInstance",
         "reaper", "webTabs", "messages", "launch", "compat"}

clientVars == <<part, libraryVars, downloadsVars, gameListVars, gameWindowVars, foldersVars,
                singleInstanceVars, reaperVars, webTabsVars, messagesVars, launchVars, compatVars>>

\* A part may begin in any of its initial states when it acts, in one otherwise.
ClientInit ==
    /\ part \in Part
    /\ LibraryInit /\ DownloadsInit /\ GameListInit
    /\ IF part = "gameWindow" THEN TRUE
       ELSE appInstallState = [g \in Games |-> CHOOSE s \in GameStates : TRUE]
    /\ GameWindowInit
    /\ IF part = "folders" THEN TRUE ELSE folders = <<CHOOSE p \in Paths : TRUE>>
    /\ FoldersInit
    /\ IF part = "singleInstance" THEN TRUE ELSE datalink = "nowhere"
    /\ SingleInstanceInit
    /\ IF part = "reaper" THEN TRUE ELSE argv = CHOOSE c \in CommandLines : TRUE
    /\ ReaperInit
    /\ IF part = "webTabs" THEN TRUE ELSE browserAllowed = FALSE /\ tokenCached = FALSE
    /\ WebTabsInit
    /\ IF part = "messages" THEN TRUE
       ELSE serialized = [header |-> 1, body |-> 0, headerParses |-> TRUE, bodyParses |-> TRUE]
    /\ MessagesInit
    /\ IF part = "launch" THEN TRUE
       ELSE protonTool = FALSE /\ dlcInstalled = FALSE /\ betaActive = FALSE
    /\ LaunchInit
    /\ IF part = "compat" THEN TRUE
       ELSE compatLayer = FALSE /\ compatTools = <<>> /\ defaultTool = NoTool /\ gameTool = NoTool
    /\ CompatInit

ClientNext ==
    /\ part' = part
    /\ IF part = "library" THEN LibraryNext ELSE UNCHANGED libraryVars
    /\ IF part = "downloads" THEN DownloadsNext ELSE UNCHANGED downloadsVars
    /\ IF part = "gameList" THEN GameListNext ELSE UNCHANGED gameListVars
    /\ IF part = "gameWindow" THEN GameWindowNext ELSE UNCHANGED gameWindowVars
    /\ IF part = "folders" THEN FoldersNext ELSE UNCHANGED foldersVars
    /\ IF part = "singleInstance" THEN SingleInstanceNext ELSE UNCHANGED singleInstanceVars
    /\ IF part = "reaper" THEN ReaperNext ELSE UNCHANGED reaperVars
    /\ IF part = "webTabs" THEN WebTabsNext ELSE UNCHANGED webTabsVars
    /\ IF part = "messages" THEN MessagesNext ELSE UNCHANGED messagesVars
    /\ IF part = "launch" THEN LaunchNext ELSE UNCHANGED launchVars
    /\ IF part = "compat" THEN CompatNext ELSE UNCHANGED compatVars

ClientSpec == ClientInit /\ [][ClientNext]_clientVars /\ LibraryFairness /\ ReaperFairness

\* The values of all variables: each part's own type invariant.
ClientTypeOK ==
    /\ part \in Part
    /\ LibraryTypeOK /\ DownloadsTypeOK /\ GameListTypeOK /\ GameWindowTypeOK /\ FoldersTypeOK
    /\ SingleInstanceTypeOK /\ ReaperTypeOK /\ WebTabsTypeOK /\ MessagesTypeOK
    /\ LaunchTypeOK /\ CompatTypeOK

-----------------------------------------------------------------------------
(* Values of the constants *)

\* Three launches of a game: as steamclient runs it, behind a launch wrapper,
\* and with nothing behind the dashes.
MCCommandLines == {<<"SteamLaunch", "AppId=730", "--", "game">>,
                   <<"--", "steam-launch-wrapper", "--", "game">>,
                   <<"SteamLaunch", "--">>}

\* Libraries of three apps: names that differ, collide, are missing or are the
\* categories' texts; games, music and DLC; with tags or without.
MCTagLists == {<<>>, <<"favorite">>, <<"rpg">>, <<"rpg", "favorite", "Favorites">>}
MCNames == {<<1,2,3>>, <<2,1,1>>, <<3,1,1>>, <<1,1,2>>, <<0,3,0>>}
MCTypes == {<<"Game", "Music", "Dlc">>, <<"Game", "Game", "Music">>}
MCLibraries == {[i \in 1..3 |-> [name |-> n[i], type |-> t[i], tags |-> g[i],
                                 state |-> IF i = 1 THEN {"FullyInstalled"} ELSE {}]] :
                   n \in MCNames, t \in MCTypes, g \in [1..3 -> MCTagLists]}
MCSearches == {{1}, {0, 2}}

MCGameStates == {{"Uninstalled"}, {"FullyInstalled"}, {"FullyInstalled", "AppRunning"}}

MCKeyOrder == <<"0", "1", "10", "2", "name">>
MCNumber == [k \in ToSet(MCKeyOrder) |->
                CASE k = "0" -> 0 [] k = "1" -> 1 [] k = "10" -> 10 [] k = "2" -> 2
                  [] OTHER -> NotANumber]
MCOptionKinds == {[linux |-> TRUE, realm |-> TRUE, dlc |-> FALSE, beta |-> FALSE],
                  [linux |-> FALSE, realm |-> TRUE, dlc |-> FALSE, beta |-> FALSE],
                  [linux |-> TRUE, realm |-> TRUE, dlc |-> TRUE, beta |-> TRUE]}
=============================================================================
