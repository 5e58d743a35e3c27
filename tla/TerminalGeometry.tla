--------------------------- MODULE TerminalGeometry ---------------------------
(***************************************************************************)
(* How the terminals of the page (TerminalApp) come to the size of their    *)
(* panes, and their ptys to that of the terminals: layoutTermForTab, and    *)
(* the events, timers and preferences that call it (terminal-app.js).       *)
(*                                                                          *)
(* A grid (columns and rows) stands for the pane's size and the font it was *)
(* computed from.  A pane that is not in front has no size (display: none). *)
(* The corrections by term._core.cell never happen: the xterm.js at hand    *)
(* has no such field.                                                       *)
(***************************************************************************)
EXTENDS TerminalApp

CONSTANTS Sizes,     \* sizes the page's window may have
          MaxTimers  \* bound on the layouts that wait for their timer

ASSUME GeometryAssumption == MaxTimers \in Nat

VARIABLES
  size,     \* of the window, and of the pane in front
  resized,  \* its resize event has not run yet
  timers,   \* timers of createTab and switchTab that will call layoutTerm
  debounce, \* __wtGeomDebounceTimer is set
  grid,     \* grid[k]: the columns and rows of the terminal of tab k
  told      \* told[k]: those its pty was told last

layoutVars == <<resized, timers, debounce, grid, told>>
geometryVars == <<size, layoutVars>>
geometryAll == <<appVars, geometryVars>>

Grid(s, font) == [size |-> s, font |-> font]
NoGrid == Grid("80x24", DefaultFont)

GeometryInit ==
  /\ AppInit
  /\ size \in Sizes /\ resized = FALSE /\ timers = 0 /\ debounce = FALSE
  /\ grid = [k \in Keys |-> NoGrid] /\ told = [k \in Keys |-> NoGrid]

HasSession(k) == \E i \in DOMAIN tabs : tabs[i].key = k /\ tabs[i].sid # NoSession

\* layoutTermForTab of these tabs: nothing for one without a terminal or behind
\* another.
LayoutTermForTabs(ks) ==
  LET laid == ks \cap ShellKeys \cap {active} IN
  /\ grid' = [k \in Keys |-> IF k \in laid THEN Grid(size, look'[k].size) ELSE grid[k]]
  /\ told' = [k \in Keys |-> IF k \in laid /\ HasSession(k) THEN grid'[k] ELSE told[k]]

LayoutTerm == LayoutTermForTabs({active})

-----------------------------------------------------------------------------
(* What TerminalApp does, and the timers it leaves. *)

\* switchTab lays out after a timer, whatever is in front then, if the tab it
\* goes to has a terminal; createTab does so once more.
SwitchWithoutTimer ==  \* mutant: a tab that comes back keeps the size it had
  UNCHANGED timers

SwitchTimers ==
  /\ timers' = timers + (IF \E i \in DOMAIN tabs' : tabs'[i].key = active'
                                                   /\ tabs'[i].kind = "shell"
                         THEN 1 ELSE 0)
  /\ timers' <= MaxTimers

GeometryNewTab ==
  /\ AppBootstrap \/ AppNewTab
  /\ timers' = timers + 2 /\ timers' <= MaxTimers
  /\ UNCHANGED <<size, resized, debounce, grid, told>>

GeometrySwitch ==
  /\ \/ AppOpenSettings
     \/ (ClickTab \/ CycleTab) /\ UNCHANGED <<prefsVars, look>>
  /\ SwitchTimers
  /\ UNCHANGED <<size, resized, debounce, grid, told>>

GeometryRemoveTab(i) ==
  /\ AppRemoveTab(i)
  /\ IF active = tabs[i].key THEN SwitchTimers ELSE UNCHANGED timers
  /\ grid' = [grid EXCEPT ![tabs[i].key] = NoGrid]
  /\ told' = [told EXCEPT ![tabs[i].key] = NoGrid]
  /\ UNCHANGED <<size, resized, debounce>>

\* applyTerminalPrefsToAllShellTabs: the font first, then the layout.
GeometryLook ==
  /\ EditLook \/ DiscardForm \/ ResetForm \/ Wheel
  /\ LayoutTermForTabs(Keys)
  /\ UNCHANGED <<size, resized, timers, debounce>>

GeometryRelaunch ==
  /\ AppRelaunch
  /\ resized' = FALSE /\ timers' = 0 /\ debounce' = FALSE
  /\ grid' = [k \in Keys |-> NoGrid] /\ told' = [k \in Keys |-> NoGrid]
  /\ UNCHANGED size

GeometryOther ==
  /\ \/ EditQuietly \/ SaveForm \/ StoreFlushed
     \/ /\ \/ WriteToTerminal \/ Disappear
           \/ \E s \in Ids : ShellPrints(s) \/ \E n \in 1 .. MaxChunks : PostOutput(s, n)
        /\ UNCHANGED <<prefsVars, look>>
  /\ UNCHANGED geometryVars

-----------------------------------------------------------------------------
(* Events and timers. *)

WindowResizes ==
  /\ page = "up"
  /\ size' \in Sizes \ {size} /\ resized' = TRUE
  /\ UNCHANGED <<appVars, timers, debounce, grid, told>>

\* The handlers of `resize' and of the observer of the panes' stack.
ResizeEvent ==
  /\ page = "up" /\ resized /\ resized' = FALSE
  /\ UNCHANGED <<appVars, size, timers>>
  /\ LayoutTerm /\ debounce' = TRUE

\* A blurred textarea, a scrolled viewport, a page that becomes visible: the
\* timer is set anew.
ViewportEvent ==
  /\ page = "up" /\ debounce' = TRUE
  /\ UNCHANGED <<appVars, size, resized, timers, grid, told>>

DebounceFires ==
  /\ page = "up" /\ debounce /\ debounce' = FALSE
  /\ UNCHANGED <<appVars, size, resized, timers>>
  /\ LayoutTerm

TimerFires ==
  /\ page = "up" /\ timers > 0 /\ timers' = timers - 1
  /\ UNCHANGED <<appVars, size, resized, debounce>>
  /\ LayoutTerm

GeometryNext ==
  \/ GeometryNewTab \/ GeometrySwitch
  \/ \E i \in DOMAIN tabs : GeometryRemoveTab(i)
  \/ GeometryLook \/ GeometryRelaunch \/ GeometryOther
  \/ WindowResizes \/ ResizeEvent \/ ViewportEvent \/ DebounceFires \/ TimerFires

GeometrySpec == GeometryInit /\ [][GeometryNext]_geometryAll
-----------------------------------------------------------------------------
(* Properties. *)

Quiet == ~resized /\ timers = 0 /\ ~debounce

\* Once no timer and no event is left, the terminal in front has the columns and
\* rows of its pane in its font, and its pty was told them, however the window
\* was resized, the font changed and the tabs switched while it was hidden
\* (terminal-app.js:2184-2222, 2273-2348).
FitsWhenQuiet ==
  page = "up" /\ Quiet /\ active \in ShellKeys =>
    /\ grid[active] = Grid(size, look[active].size)
    /\ HasSession(active) => told[active] = grid[active]
=============================================================================
