--------------------------- MODULE FileNavigation ---------------------------
(***************************************************************************)
(* The file manager's window (filemanager/.../pages/Index.ets): the place   *)
(* it is at, the history of places, the highlighted node of the tree, and   *)
(* the listing of the directory, which arrives from an asynchronous         *)
(* fs.listFile while the user may already have gone elsewhere.              *)
(***************************************************************************)
EXTENDS Naturals, Sequences

CONSTANTS
  ThisPc,     \* the place of the start
  Top,        \* the tree's other top nodes, which have no way up
  Nodes,      \* the nodes under them: names without a path
  Names,      \* what the start page names besides, without a path either
  Dirs,       \* paths of directories
  Plain,      \* paths of something else
  Missing,    \* paths of nothing, none of which reads like a node
  Nothing,    \* no listing
  MaxHistory, \* bound on the history
  MaxLoads    \* bound on the listings of a directory under way

Tree    == {ThisPc} \cup Top \cup Nodes
Places  == Tree \cup Names \cup Dirs \cup Plain \cup Missing

ASSUME NavigationAssumption ==
  /\ Nothing \notin Places
  /\ MaxHistory \in Nat /\ MaxLoads \in Nat

VARIABLES
  history, index, \* pathHistory, historyIndex + 1
  here,           \* currentPath and currentRealPath
  nav,            \* selectedNavId
  listing,        \* the directory of which currentFiles are the files
  loads,          \* loads[d]: listings of d that are awaited
  raced           \* history: the last navigation found some listing awaited

vars == <<history, index, here, nav, listing, loads, raced>>

Awaited == {d \in Dirs : loads[d] > 0}

Init ==
  /\ history = <<ThisPc>> /\ index = 1 /\ here = ThisPc /\ nav = ThisPc
  /\ listing = Nothing /\ loads = [d \in Dirs |-> 0] /\ raced = FALSE

-----------------------------------------------------------------------------
(* loadFilesFromPath up to its await; a place without a path clears the files. *)

LoadFiles(p) ==
  /\ raced' = (Awaited # {})
  /\ \/ /\ p \in Tree \cup Names \cup Missing   \* statSync throws for what is missing
        /\ listing' = Nothing /\ UNCHANGED loads
     \/ p \in Plain /\ UNCHANGED <<listing, loads>>
     \/ /\ p \in Dirs /\ loads[p] < MaxLoads
        /\ loads' = [loads EXCEPT ![p] = @ + 1]
        /\ UNCHANGED listing

\* navigateTo, for the place p; highlight is navId, or the node selected so far.
NavigateKeepingAhead(p, highlight) ==  \* mutant: the history is not cut
  /\ p # here /\ Len(history) < MaxHistory
  /\ history' = Append(history, p) /\ index' = Len(history')
  /\ here' = p /\ nav' = highlight
  /\ LoadFiles(p)

NavigateIndexBehind(p, highlight) ==  \* mutant: the index is not moved on
  /\ p # here /\ index < MaxHistory
  /\ history' = Append(SubSeq(history, 1, index), p) /\ UNCHANGED index
  /\ here' = p /\ nav' = highlight
  /\ LoadFiles(p)

NavigateTo(p, highlight) ==
  /\ p # here /\ index < MaxHistory
  /\ history' = Append(SubSeq(history, 1, index), p) /\ index' = index + 1
  /\ here' = p /\ nav' = highlight
  /\ LoadFiles(p)

-----------------------------------------------------------------------------
(* The user. *)

ClickNode == \E p \in Tree : NavigateTo(p, p)

\* Drives and folders of the start page, and the folders of the listing.
ClickItem == \E p \in Nodes \cup Names \cup Dirs :
  /\ here = ThisPc \/ (listing # Nothing /\ p \in Dirs)
  /\ NavigateTo(p, nav)

EnterAddress ==
  \/ \E p \in {ThisPc} \cup Top : NavigateTo(p, p)
  \/ \E p \in Dirs \cup Plain \cup Missing : NavigateTo(p, nav)

GoUp == here \notin {ThisPc} \cup Top /\ NavigateTo(ThisPc, ThisPc)

\* goBack and goForward; syncNavIdByPath finds the nodes of the tree only.
MoveTo(i) ==
  /\ i \in DOMAIN history
  /\ index' = i /\ here' = history[i]
  /\ nav' = IF history[i] \in Tree THEN history[i] ELSE nav
  /\ LoadFiles(history[i])
  /\ UNCHANGED history

GoBack    == MoveTo(index - 1)
GoForward == MoveTo(index + 1)

-----------------------------------------------------------------------------
(* loadFilesFromPath after its await: listings end in any order, or fail. *)

ListingArrivesBelow(d) ==  \* mutant: the result is added to what is shown
  /\ loads[d] > 0
  /\ loads' = [loads EXCEPT ![d] = @ - 1]
  /\ listing' \in IF listing = Nothing THEN {d, Nothing} ELSE {listing}
  /\ UNCHANGED <<history, index, here, nav, raced>>

ListingArrives(d) ==
  /\ loads[d] > 0
  /\ loads' = [loads EXCEPT ![d] = @ - 1]
  /\ listing' \in {d, Nothing}
  /\ UNCHANGED <<history, index, here, nav, raced>>

-----------------------------------------------------------------------------
Next == \/ ClickNode \/ ClickItem \/ EnterAddress \/ GoUp \/ GoBack \/ GoForward
        \/ \E d \in Dirs : ListingArrives(d)

Spec == Init /\ [][Next]_vars
-----------------------------------------------------------------------------
(* Properties. *)

\* The window shows the place its index in the history points to, through every
\* cut of the history and whichever of the five ways there is taken; no two
\* neighbours in the history are the same, so that Back always leaves the place
\* (Index.ets:255-317).
HistoryIsHere ==
  /\ history[index] = here
  /\ \A i \in 1 .. Len(history) - 1 : history[i] # history[i + 1]

\* Back and Forward undo each other and a new visit forgets what was ahead.
Browser == INSTANCE BrowserHistory WITH
  Start <- ThisPc, at <- here,
  behind <- SubSeq(history, 1, index - 1),
  ahead <- SubSeq(history, index + 1, Len(history))
ImplementsBrowser == Browser!HistorySpec

\* A user who goes on only when nothing is awaited sees, at the end of each wait,
\* the listing of the place he is at, or none; except at a path that is no
\* directory, where the early return leaves the last one (Index.ets:214).
QuietListing ==
  ~raced /\ Awaited = {} /\ here \notin Plain =>
    listing \in IF here \in Dirs THEN {here, Nothing} ELSE {Nothing}
=============================================================================
