------------------------------ MODULE WebTabs ------------------------------
(***************************************************************************)
(* The main window's web pages: MainWindow::GotoWebviewTab and the header  *)
(* buttons (gui/windows/mainwindow.cpp), the DynamicWebViewWidget in each  *)
(* tab and the DynamicWebViewLibraryMgr that loads the library behind it.  *)
(* Every URL the window opens is on a site of Valve's: a page needs a web  *)
(* token, and is loaded again when one that was asked for comes.           *)
(*                                                                         *)
(* Definitions whose comment begins with "Without" or "Wrong" are variants *)
(* with a plausible bug.                                                   *)
(***************************************************************************)
EXTENDS Naturals, Sequences, FiniteSets

CONSTANTS WebTypes,    \* store, community and profile
          MaxTabs,     \* bound: tabs created
          MaxTokens    \* bound: requests for a token, and tokens that expire

ASSUME WebTabsAssumption == IsFiniteSet(WebTypes) /\ MaxTabs \in Nat /\ MaxTokens \in Nat

VARIABLES browserAllowed, \* no --no-browser: DynamicWebViewLibraryMgr::enabled
          libraryLoaded,  \* getterFunc is set
          tabs,           \* the tabs created, each with its DynamicWebViewWidget
          webviewPages,   \* MainWindow::webviewPages: the tab of each type, 0: none
          currentTab,     \* the tab that is shown
          boldButton,     \* the header button in bold
          tokenCached,    \* steamclient has a web token
          tokenRequests,  \* RequestWebAuthToken calls not answered yet
          connecting,     \* the main thread has asked for this tab's page, and has
                          \* not connected its widget yet; 0: for none
          missed,         \* the tab that was connecting when the last answer came
          tokensUsed      \* counts towards MaxTokens

webTabsVars == <<browserAllowed, libraryLoaded, tabs, webviewPages, currentTab, boldButton,
                 tokenCached, tokenRequests, connecting, missed, tokensUsed>>

\* Tabs are <<name, 0>> for those of the .ui file and <<"web", i>> for tabs[i].
FixedTab == {"games", "console", "downloads"} \X {0}
WebTab(i) == <<"web", i>>
NoButton == "none"

\* The header button of a fixed tab; the downloads have none.
FixedButton(tab) == IF tab[1] = "downloads" THEN NoButton ELSE tab[1]

\* page: none before a load, anonymous without a token, signedIn with one.
\* waiting: single-shot connections to WebAuthRequestCallback; reloads: slots of
\* theirs that are still to run; refused: an answer brought no token.
NewTab(t) == [type |-> t, loaded |-> FALSE, page |-> "none", waiting |-> 0, reloads |-> 0,
              refused |-> FALSE]

WebTabsInit ==
    /\ browserAllowed \in BOOLEAN
    /\ libraryLoaded = FALSE
    /\ tabs = <<>>
    /\ webviewPages = [t \in WebTypes |-> 0]
    /\ currentTab = <<"downloads", 0>> /\ boldButton = NoButton
    /\ tokenCached \in BOOLEAN
    /\ tokenRequests = 0 /\ connecting = 0 /\ missed = 0 /\ tokensUsed = 0

-----------------------------------------------------------------------------
(* DynamicWebViewWidget *)

\* The page, with a token or without.
LoadURL(tab) ==
    IF tokenCached THEN [tab EXCEPT !.page = "signedIn"]
    ELSE [tab EXCEPT !.page = "anonymous", !.refused = FALSE]

\* Without a token LoadURL asks for one.  What the main thread does after that,
\* but for the connection, is nothing that the callback thread looks at: it
\* belongs to the step that asks.
RequestWebAuthToken(i, loads) ==
    /\ connecting = 0
    /\ IF loads /\ ~tokenCached
       THEN /\ tokensUsed < MaxTokens
            /\ tokensUsed' = tokensUsed + 1
            /\ tokenRequests' = tokenRequests + 1
            /\ connecting' = i
       ELSE UNCHANGED <<tokenRequests, connecting, tokensUsed>>

\* Without a connection for a page that asks while another answer is due.
ConnectOnce ==
    /\ connecting # 0
    /\ tabs' = IF tokenRequests > 1 THEN tabs ELSE [tabs EXCEPT ![connecting].waiting = @ + 1]
    /\ connecting' = 0
    /\ UNCHANGED <<browserAllowed, libraryLoaded, webviewPages, currentTab, boldButton,
                   tokenCached, tokenRequests, missed, tokensUsed>>

\* Only then the widget waits for the next answer, whoever asked for that.
Connect ==
    /\ connecting # 0
    /\ tabs' = [tabs EXCEPT ![connecting].waiting = @ + 1]
    /\ connecting' = 0
    /\ UNCHANGED <<browserAllowed, libraryLoaded, webviewPages, currentTab, boldButton,
                   tokenCached, tokenRequests, missed, tokensUsed>>

\* steamclient answers, on the callback thread: every connection there is fires
\* once.  A slot without a token does nothing.
WebAuthRequestCallback(ok) ==
    /\ tokenRequests > 0
    /\ tokenRequests' = tokenRequests - 1
    /\ tokenCached' = (tokenCached \/ ok)
    /\ tabs' = [i \in DOMAIN tabs |->
                   [tabs[i] EXCEPT !.reloads = IF ok THEN @ + tabs[i].waiting ELSE @,
                                   !.refused = @ \/ (~ok /\ tabs[i].waiting > 0),
                                   !.waiting = 0]]
    /\ missed' = connecting
    /\ UNCHANGED <<browserAllowed, libraryLoaded, webviewPages, currentTab, boldButton,
                   connecting, tokensUsed>>

\* OnWebAuthRequestCallback loads the current URL again.
Reload(i) ==
    /\ tabs[i].reloads > 0
    /\ tabs' = [tabs EXCEPT ![i] = LoadURL([@ EXCEPT !.reloads = tabs[i].reloads - 1])]
    /\ RequestWebAuthToken(i, TRUE)
    /\ UNCHANGED <<browserAllowed, libraryLoaded, webviewPages, currentTab, boldButton,
                   tokenCached, missed>>

TokenExpires ==
    /\ tokenCached /\ tokensUsed < MaxTokens
    /\ tokenCached' = FALSE /\ tokensUsed' = tokensUsed + 1
    /\ UNCHANGED <<browserAllowed, libraryLoaded, tabs, webviewPages, currentTab, boldButton,
                   tokenRequests, connecting, missed>>

-----------------------------------------------------------------------------
(* MainWindow *)

\* on_tabWidget_currentChanged, when another tab is shown and webviewPages is
\* pages: no tab type, no change.
ShowTab(tab, pages) ==
    LET types == {t \in WebTypes : WebTab(pages[t]) = tab}
    IN  /\ currentTab' = tab
        /\ boldButton' = IF currentTab = tab THEN boldButton
                         ELSE IF tab \in FixedTab THEN FixedButton(tab)
                         ELSE IF types # {} THEN CHOOSE t \in types : TRUE
                         ELSE boldButton

on_fixedButton_clicked(tab) ==
    /\ connecting = 0
    /\ ShowTab(tab, webviewPages)
    /\ UNCHANGED <<browserAllowed, libraryLoaded, tabs, webviewPages, tokenCached, tokenRequests,
                   connecting, missed, tokensUsed>>

\* The type has a loaded page: it is shown, with the URL if there is one.
GotoLoadedTab(t, url) ==
    LET at == webviewPages[t]
    IN  /\ at # 0 /\ tabs[at].loaded
        /\ tabs' = IF url THEN [tabs EXCEPT ![at] = LoadURL(@)] ELSE tabs
        /\ RequestWebAuthToken(at, url)
        /\ ShowTab(WebTab(at), webviewPages)
        /\ UNCHANGED <<browserAllowed, libraryLoaded, webviewPages, tokenCached, missed>>

\* Wrong order: the tab is shown before it is entered into webviewPages.
GotoNewTabShownFirst(t, gets) ==
    LET at == webviewPages[t]
        new == Len(tabs) + 1
    IN  /\ ~(at # 0 /\ tabs[at].loaded)
        /\ Len(tabs) < MaxTabs
        /\ libraryLoaded' \in BOOLEAN
        /\ libraryLoaded \/ gets => libraryLoaded'
        /\ libraryLoaded' => browserAllowed
        /\ tabs' = Append(tabs, IF gets THEN LoadURL([NewTab(t) EXCEPT !.loaded = TRUE])
                                        ELSE NewTab(t))
        /\ RequestWebAuthToken(new, gets)
        /\ webviewPages' = IF at = 0 THEN [webviewPages EXCEPT ![t] = new] ELSE webviewPages
        /\ ShowTab(WebTab(new), webviewPages)
        /\ UNCHANGED <<browserAllowed, tokenCached, missed>>

\* Otherwise a new tab is made; gets says that GetInterface brings a web view.
\* It brings none without the library, and may bring none with it.  insert keeps
\* the tab that webviewPages has.
GotoNewTab(t, gets) ==
    LET at == webviewPages[t]
        new == Len(tabs) + 1
    IN  /\ ~(at # 0 /\ tabs[at].loaded)
        /\ Len(tabs) < MaxTabs
        /\ libraryLoaded' \in BOOLEAN
        /\ libraryLoaded \/ gets => libraryLoaded'
        /\ libraryLoaded' => browserAllowed
        /\ tabs' = Append(tabs, IF gets THEN LoadURL([NewTab(t) EXCEPT !.loaded = TRUE])
                                        ELSE NewTab(t))
        /\ RequestWebAuthToken(new, gets)
        /\ webviewPages' = IF at = 0 THEN [webviewPages EXCEPT ![t] = new] ELSE webviewPages
        /\ ShowTab(WebTab(new), webviewPages')
        /\ UNCHANGED <<browserAllowed, tokenCached, missed>>

WebTabsNext ==
    \/ \E ok \in BOOLEAN : WebAuthRequestCallback(ok)
    \/ Connect
    \/ \E i \in DOMAIN tabs : Reload(i)
    \/ TokenExpires
    \/ \E tab \in FixedTab : on_fixedButton_clicked(tab)
    \/ \E t \in WebTypes, url \in BOOLEAN : GotoLoadedTab(t, url)
    \/ \E t \in WebTypes, gets \in BOOLEAN : GotoNewTab(t, gets)

WebTabsSpec == WebTabsInit /\ [][WebTabsNext]_webTabsVars

-----------------------------------------------------------------------------
(* Properties *)

WebTabsTypeOK ==
    /\ browserAllowed \in BOOLEAN /\ libraryLoaded \in BOOLEAN /\ tokenCached \in BOOLEAN
    /\ tabs \in Seq([type : WebTypes, loaded : BOOLEAN, page : {"none", "anonymous", "signedIn"},
                     waiting : Nat, reloads : Nat, refused : BOOLEAN])
    /\ webviewPages \in [WebTypes -> 0 .. Len(tabs)]
    /\ currentTab \in FixedTab \cup {WebTab(i) : i \in DOMAIN tabs}
    /\ boldButton \in {"games", "console", NoButton} \cup WebTypes
    /\ tokenRequests \in 0..MaxTokens /\ tokensUsed \in 0..MaxTokens
    /\ connecting \in 0 .. Len(tabs) /\ missed \in 0 .. Len(tabs)

\* A page without a sign-in waits for an answer that is still to come, or is
\* about to be loaded again, or was refused, whichever page's answer came first;
\* unless an answer came between its own request and the connection
\* (dynamicwebviewwidget.cpp:145).
NoPageForgotten ==
    \A i \in DOMAIN tabs : tabs[i].page = "anonymous" =>
        \/ connecting = i
        \/ tabs[i].waiting > 0 /\ (tokenRequests > 0 \/ missed = i)
        \/ tabs[i].reloads > 0
        \/ tabs[i].refused

\* The header button in bold is that of the page shown, whichever was opened
\* before; a tab made beside one that could not load has no button
\* (mainwindow.cpp:758).
BoldIsShown ==
    /\ currentTab \in FixedTab => boldButton = FixedButton(currentTab)
    /\ \A t \in WebTypes : currentTab = WebTab(webviewPages[t]) => boldButton = t
=============================================================================
