------------------------------ MODULE GameList ------------------------------
(***************************************************************************)
(* The list of games at the side of the main window: AppModel and TreeItem *)
(* (gui/gamelistview/), filled by MainWindow::LoadApps and narrowed by the *)
(* search bar and the FiltersPopup.                                        *)
(*                                                                         *)
(* AppModel keeps a tree of all categories and apps and builds the tree it *)
(* shows anew whenever a filter changes.  Texts are numbers in the order   *)
(* of std::string, 0 is "".  A search text stands for the set of the names *)
(* that contain it.  Definitions whose comment begins with "Without" or    *)
(* "Wrong" are variants with a plausible bug.                              *)
(***************************************************************************)
EXTENDS Naturals, Sequences, FiniteSets, SequencesExt, Subsequence

CONSTANTS Names,      \* texts that may be names
          Libraries,  \* the libraries a user may have: sequences of apps
          Searches    \* the search texts: sets of names

\* The categories' texts, in their order.
FAVORITES == 1
RPG == 2
UNCATEGORIZED == 3
EMPTY == 0

AppType == {"Game", "Music", "Dlc"}
Flag == {"FullyInstalled", "UpdateRequired"}   \* of the check boxes of FiltersPopup

Tag == {"favorite", "Favorites", "rpg"}
Title == [name : Names, type : AppType, tags : Seq(Tag), state : SUBSET Flag]

ASSUME GameListAssumption ==
    /\ Names \subseteq Nat
    /\ Libraries \subseteq Seq(Title)
    /\ Searches \subseteq SUBSET Names

VARIABLES library,        \* the apps, by their order in AppManager::apps
          tree,           \* AppModel::tree: a category's text, or an app's row and category
          typeFilter,     \* AppModel::typeFilter
          nameFilter,     \* AppModel::nameContainsFilter, ANY for ""
          stateFilter,    \* AppModel::stateFilter: its state and its booleans
          shown           \* rootItemFiltered: the categories and the apps below them

gameListVars == <<library, tree, typeFilter, nameFilter, stateFilter, shown>>

ANY == Names
Row == [category : {FAVORITES, RPG, UNCATEGORIZED}, app : Nat]    \* app 0: the category
Child == [text : Nat, item : Nat]
Invalid == "k_EAppStateInvalid"

GameListInit ==
    /\ library = <<>>
    /\ tree = <<>>
    /\ typeFilter = {} /\ nameFilter = ANY
    /\ stateFilter = [state |-> Invalid, flags |-> {}]
    /\ shown = [root |-> <<>>, below |-> [c \in {FAVORITES, RPG, UNCATEGORIZED} |-> <<>>]]

-----------------------------------------------------------------------------
(* AppModel::addApp and TreeItem::AddChild *)

\* "favorite" becomes FAVORITES, the others their upper case.
CategoryOf(tag) == IF tag \in {"favorite", "Favorites"} THEN FAVORITES ELSE RPG

CategoriesOf(app) == IF app.tags = <<>> THEN <<UNCATEGORIZED>>
                     ELSE [i \in DOMAIN app.tags |-> CategoryOf(app.tags[i])]

HasCategory(t, c) == \E i \in DOMAIN t : t[i] = [category |-> c, app |-> 0]

\* Wrong: the row goes to the category that was used last.
WithRowInLast(t, c, a) ==
    (IF HasCategory(t, c) THEN t ELSE Append(t, [category |-> c, app |-> 0]))
    \o <<[category |-> IF HasCategory(t, c) THEN Last(t).category ELSE c, app |-> a]>>

\* A row for the app, after a new category where there is none.
WithRow(t, c, a) ==
    (IF HasCategory(t, c) THEN t ELSE Append(t, [category |-> c, app |-> 0]))
    \o <<[category |-> c, app |-> a]>>

\* A row for each tag of the app.
addApp(lib, t, a) ==
    LET categories == CategoriesOf(lib[a])
        upTo[n \in 0..Len(categories)] ==
            IF n = 0 THEN t ELSE WithRow(upTo[n - 1], categories[n], a)
    IN  upTo[Len(categories)]

\* Without the sorting by text.
AddChildUnsorted(children, item) == Append(children, [text |-> EMPTY, item |-> item])

\* Children of different texts, in the order of these.
ByText(items) ==
    [n \in 1..Cardinality(items) |->
        CHOOSE c \in items : Cardinality({d \in items : d.text < c.text}) = n - 1]

\* The children are put into a std::map by text, in which the first of equal
\* texts stays; FAVORITES is put before them.  The new child comes from the
\* constructor of TreeItem and has no text yet.
AddChild(children, item) ==
    LET favorites == {i \in DOMAIN children : children[i].text = FAVORITES}
        first == {i \in DOMAIN children \ favorites :
                    \A j \in 1 .. i-1 : children[j].text # children[i].text}
        items == {children[i] : i \in first}
                 \cup {c \in {[text |-> EMPTY, item |-> item]} :
                         \A i \in first : children[i].text # EMPTY}
    IN  (IF favorites = {} THEN <<>> ELSE <<children[Max(favorites)]>>) \o ByText(items)

\* A category is an item of its own, a row stands for its app.
ItemOf(r) == IF r.app = 0 THEN r.category ELSE r.app
TextOf(lib, r) == IF r.app = 0 THEN r.category ELSE lib[r.app].name

\* The item gets its text after it was added.
AddNamed(children, item, text) ==
    LET added == AddChild(children, item)
    IN  [i \in DOMAIN added |-> IF added[i].item = item THEN [text |-> text, item |-> item]
                                                        ELSE added[i]]

\* The children that the rows become.
AddedInTurn(lib, rows) ==
    LET upTo[n \in 0..Len(rows)] ==
            IF n = 0 THEN <<>> ELSE AddNamed(upTo[n - 1], ItemOf(rows[n]), TextOf(lib, rows[n]))
    IN  upTo[Len(rows)]

-----------------------------------------------------------------------------
(* AppModel::filter *)

\* Wrong: the type filter and the name filter widen each other.
PassesEither(app, types, names, states) ==
    \/ types # {} /\ app.type \in types
    \/ names # ANY /\ app.name \in names
    \/ types = {} /\ names = ANY

\* The filters that are set all have to let the app pass; the state filter
\* counts as set when its state, not one of its booleans, says so.
Passes(app, types, names, states) ==
    /\ types = {} \/ app.type \in types
    /\ names = ANY \/ app.name \in names
    /\ states.state = Invalid \/ states.flags \subseteq app.state

\* Every category is copied, then every app that passes is added to the copy of
\* its category.
filter(lib, t, types, names, states) ==
    LET Categories == {i \in DOMAIN t : t[i].app = 0}
        Passing(c) == {i \in DOMAIN t \ Categories :
                         t[i].category = c /\ Passes(lib[t[i].app], types, names, states)}
    IN  [root |-> AddedInTurn(lib, Picked(t, Categories)),
         below |-> [c \in {FAVORITES, RPG, UNCATEGORIZED} |->
                       AddedInTurn(lib, Picked(t, Passing(c)))]]

-----------------------------------------------------------------------------
(* The main window and the user *)

\* AppModel::tree of a library: DLC and the like are left out.
TreeOf(lib) ==
    LET upTo[n \in 0..Len(lib)] ==
            IF n = 0 THEN <<>>
            ELSE IF lib[n].type = "Dlc" THEN upTo[n - 1] ELSE addApp(lib, upTo[n - 1], n)
    IN  upTo[Len(lib)]

\* MainWindow::LoadApps for a library.
LoadLibrary(lib) ==
    /\ library = <<>> /\ lib # <<>>
    /\ library' = lib
    /\ tree' = TreeOf(lib)
    /\ shown' = filter(lib, tree', typeFilter, nameFilter, stateFilter)
    /\ UNCHANGED <<typeFilter, nameFilter, stateFilter>>

\* FiltersPopup::updateSelectedTypes and setTypeFilter.
setTypeFilter(types) ==
    /\ library # <<>> /\ types # typeFilter
    /\ typeFilter' = types
    /\ shown' = filter(library, tree, types, nameFilter, stateFilter)
    /\ UNCHANGED <<library, tree, nameFilter, stateFilter>>

\* MainWindow::on_gameSearchBar_textChanged and setNameContainsFilter.
setNameContainsFilter(names) ==
    /\ library # <<>> /\ names # nameFilter
    /\ nameFilter' = names
    /\ shown' = filter(library, tree, typeFilter, names, stateFilter)
    /\ UNCHANGED <<library, tree, typeFilter, stateFilter>>

\* FiltersPopup::on_appState_*_stateChanged: a boolean of a copy of the filter
\* changes, its state does not.
setStateFilter(flag) ==
    /\ library # <<>>
    /\ stateFilter' = [stateFilter EXCEPT !.flags =
                          IF flag \in @ THEN @ \ {flag} ELSE @ \cup {flag}]
    /\ shown' = filter(library, tree, typeFilter, nameFilter, stateFilter')
    /\ UNCHANGED <<library, tree, typeFilter, nameFilter>>

GameListNext ==
    \/ \E lib \in Libraries : LoadLibrary(lib)
    \/ \E types \in SUBSET {"Game", "Music"} : setTypeFilter(types)
    \/ \E names \in Searches \cup {ANY} : setNameContainsFilter(names)
    \/ \E flag \in Flag : setStateFilter(flag)

GameListSpec == GameListInit /\ [][GameListNext]_gameListVars

-----------------------------------------------------------------------------
(* Properties *)

\* The values of the variables.
GameListTypeOK ==
    /\ library \in Seq(Title) /\ tree \in Seq(Row)
    /\ typeFilter \subseteq AppType /\ nameFilter \subseteq Names
    /\ stateFilter.flags \subseteq Flag
    /\ shown.root \in Seq(Child)
    /\ \A c \in DOMAIN shown.below : shown.below[c] \in Seq(Child)

TypeAndNameMatch(a) ==
    /\ typeFilter = {} \/ library[a].type \in typeFilter
    /\ nameFilter = ANY \/ library[a].name \in nameFilter

RowsFor(c, a) == {i \in DOMAIN shown.below[c] : shown.below[c][i].item = a}

\* What the list shows matches the search and the types, is no DLC, and stands
\* below a category of the app, whatever names and tags collide.
OnlyMatchesShown ==
    \A c \in DOMAIN shown.below : \A i \in DOMAIN shown.below[c] :
        LET a == shown.below[c][i].item
        IN  /\ library[a].type # "Dlc"
            /\ TypeAndNameMatch(a)
            /\ c \in ToSet(CategoriesOf(library[a]))

\* When no two apps share a name and none is nameless, every app that matches is
\* listed once below each of its categories, or twice where two of its tags
\* name one category: the map by text loses only namesakes (treeitem.cpp:40).
NoMatchLost ==
    (/\ \A a, b \in DOMAIN library : library[a].name = library[b].name => a = b
     /\ \A a \in DOMAIN library : library[a].name # EMPTY) =>
        \A a \in DOMAIN library :
            library[a].type # "Dlc" /\ TypeAndNameMatch(a) =>
                LET cats == CategoriesOf(library[a])
                IN  \A c \in ToSet(cats) :
                        /\ RowsFor(c, a) # {}
                        /\ Cardinality(RowsFor(c, a)) <=
                               Cardinality({i \in DOMAIN cats : cats[i] = c})

\* FAVORITES comes first, and all categories but the one that was added last are
\* in order behind it: that one has no text when it is sorted in.
SortedButLast ==
    LET rest == Picked(shown.root, {i \in DOMAIN shown.root : shown.root[i].text # FAVORITES})
    IN  /\ \A i \in DOMAIN shown.root : shown.root[i].text = FAVORITES => i = 1
        /\ \A i, j \in 2 .. Len(rest) : i < j => rest[i].text < rest[j].text
=============================================================================
