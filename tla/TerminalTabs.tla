---------------------------- MODULE TerminalTabs ----------------------------
(***************************************************************************)
(* The tabs of the terminal app: the page (rawfile/terminal-app.js) and its *)
(* ArkTS side (pages/Index.ets) above the sessions of the native module,    *)
(* of which only the promise PtyService is used.                            *)
(*                                                                          *)
(* The page calls the ArkTS side and waits for the answer; the ArkTS side   *)
(* posts the output to the page with runJavaScript, in order, and it runs   *)
(* there once the page is done with what it does: the outbox.               *)
(***************************************************************************)
EXTENDS PtyService, SequencesExt

CONSTANT MaxKey  \* bound on the tabs created

ASSUME TabsAssumption == MaxKey \in Nat

Keys == 1 .. MaxKey
NoSession == 0   \* sessionId < 0: a settings tab, or a tab with local echo

VARIABLES
  tabs,    \* the array: [key, kind, sid], in its order
  strip,   \* the keys of the tab elements in the strip, as displayed
  active,  \* activeTabKey, 0 for null
  nextKey, \* __nextTabKey + 1
  outbox,  \* posted calls of writeToTerminal, oldest first
  screen,  \* screen[k]: the chunk written last to the terminal of tab k
  page     \* "up" or, once the component disappears, "gone"

pageVars == <<tabs, strip, active, nextKey, outbox, screen, page>>
vars == <<serviceVars, pageVars>>

Blank == [sid |-> NoSession, n |-> 0]

Init ==
  /\ ServiceInit
  /\ tabs = <<>> /\ strip = <<>> /\ active = 0 /\ nextKey = 1
  /\ outbox = <<>> /\ screen = [k \in Keys |-> Blank] /\ page = "up"

TabKeys == {tabs[i].key : i \in DOMAIN tabs}
Index(seq, key) == SelectInSeq(seq, LAMBDA t : t.key = key)
SettingsTabs == {i \in DOMAIN tabs : tabs[i].kind = "settings"}

-----------------------------------------------------------------------------
(* Insertion: into the array and, separately, into the strip's elements. *)

\* The element goes before the next sibling of the active tab's element.
InsertAfterActiveOneOff(tab) ==  \* mutant: the element goes before the active one
  LET a == Index(tabs, active)  e == SelectInSeq(strip, LAMBDA k : k = active) IN
  /\ strip' = InsertAt(strip, IF a = 0 THEN Len(strip) + 1 ELSE e, tab.key)
  /\ tabs'  = InsertAt(tabs, IF a = 0 THEN Len(tabs) + 1 ELSE a + 1, tab)

InsertAfterActive(tab) ==
  LET a == Index(tabs, active)  e == SelectInSeq(strip, LAMBDA k : k = active) IN
  /\ strip' = InsertAt(strip, IF a = 0 THEN Len(strip) + 1 ELSE e + 1, tab.key)
  /\ tabs'  = InsertAt(tabs, IF a = 0 THEN Len(tabs) + 1 ELSE a + 1, tab)

InsertShellTab(tab, position) ==
  CASE position = "first" -> strip' = <<tab.key>> \o strip /\ tabs' = <<tab>> \o tabs
    [] position = "after_current" -> InsertAfterActive(tab)
    [] position = "last"  -> strip' = Append(strip, tab.key) /\ tabs' = Append(tabs, tab)

\* createTab: the tab is inserted and active before startSession is called; a
\* failed start leaves it with local echo.  The position is a preference.
CreateTab(position) ==
  /\ nextKey \in Keys
  /\ \/ /\ Started(nextId)
        /\ InsertShellTab([key |-> nextKey, kind |-> "shell", sid |-> nextId],
                          position)
     \/ /\ NotStarted
        /\ InsertShellTab([key |-> nextKey, kind |-> "shell", sid |-> NoSession],
                          position)
  /\ active' = nextKey /\ nextKey' = nextKey + 1
  /\ UNCHANGED <<outbox, screen, page>>

Positions == {"first", "after_current", "last"}

\* onPageEnd runs wtBootstrap, which opens the first tab.
Bootstrap ==
  /\ page = "up" /\ tabs = <<>>
  /\ \E position \in Positions : CreateTab(position)

\* The menu and Ctrl+Shift+1..3; the + button and Ctrl+Shift+T do the same, but
\* nothing in a settings tab.
NewTab ==
  /\ page = "up" /\ tabs # <<>>
  /\ \E position \in Positions : CreateTab(position)

CreateSettingsTab ==
  /\ nextKey \in Keys
  /\ tabs' = Append(tabs, [key |-> nextKey, kind |-> "settings", sid |-> NoSession])
  /\ strip' = Append(strip, nextKey)
  /\ active' = nextKey /\ nextKey' = nextKey + 1
  /\ UNCHANGED <<serviceVars, outbox, screen, page>>

SwitchTab(key) ==
  /\ active' = key
  /\ UNCHANGED <<serviceVars, tabs, strip, nextKey, outbox, screen, page>>


\* The menu and Ctrl+,: the settings tab there is, or a new one.
OpenSettings ==
  /\ page = "up" /\ tabs # <<>>
  /\ \/ \E i \in SettingsTabs : SwitchTab(tabs[i].key)
     \/ SettingsTabs = {} /\ CreateSettingsTab

ClickTab == page = "up" /\ \E k \in TabKeys : SwitchTab(k)

\* Ctrl+Tab and Ctrl+Shift+Tab.
CycleTab ==
  /\ page = "up" /\ Len(tabs) >= 2
  /\ LET i == Index(tabs, active) IN
     /\ i # 0
     /\ \/ SwitchTab(tabs[(i % Len(tabs)) + 1].key)
        \/ SwitchTab(tabs[((i + Len(tabs) - 2) % Len(tabs)) + 1].key)

-----------------------------------------------------------------------------
(* removeTab: the close button, or Ctrl+Shift+W for the active tab. *)

RemoveFallback(i) == tabs'[IF i > 1 THEN i - 1 ELSE 1].key

RemoveTabStoppingAll(i) ==  \* mutant: stopPty(-1) for a tab without a session
  /\ page = "up" /\ Len(tabs) > 1
  /\ tabs' = RemoveAt(tabs, i)
  /\ strip' = RemoveFirst(strip, tabs[i].key)
  /\ active' = IF active = tabs[i].key THEN RemoveFallback(i) ELSE active
  /\ screen' = [screen EXCEPT ![tabs[i].key] = Blank]
  /\ live' = IF tabs[i].sid = NoSession THEN {} ELSE live \ {tabs[i].sid}
  /\ UNCHANGED <<nextId, made, heard, nextKey, outbox, page>>

RemoveTabKeepingActive(i) ==  \* mutant: no fallback
  /\ page = "up" /\ Len(tabs) > 1
  /\ tabs' = RemoveAt(tabs, i)
  /\ strip' = RemoveFirst(strip, tabs[i].key)
  /\ IF tabs[i].sid = NoSession THEN UNCHANGED serviceVars ELSE Stop(tabs[i].sid)
  /\ screen' = [screen EXCEPT ![tabs[i].key] = Blank]
  /\ UNCHANGED <<active, nextKey, outbox, page>>

\* The last tab stays.  A shell's session is stopped, if it has one, and its
\* terminal disposed of.
RemoveTab(i) ==
  /\ page = "up" /\ Len(tabs) > 1
  /\ tabs' = RemoveAt(tabs, i)
  /\ strip' = RemoveFirst(strip, tabs[i].key)
  /\ active' = IF active = tabs[i].key THEN RemoveFallback(i) ELSE active
  /\ screen' = [screen EXCEPT ![tabs[i].key] = Blank]
  /\ IF tabs[i].sid = NoSession THEN UNCHANGED serviceVars ELSE Stop(tabs[i].sid)
  /\ UNCHANGED <<nextKey, outbox, page>>

-----------------------------------------------------------------------------
(* Output. *)

PostOutputAhead(s, n) ==  \* mutant: the chunk is numbered by the next one
  /\ page = "up"
  /\ Hear(s, n)
  /\ outbox' = Append(outbox, [sid |-> s, n |-> n + 1])
  /\ UNCHANGED <<tabs, strip, active, nextKey, screen, page>>

\* The callback of startSession posts writeToTerminal(s, chunk) to the page.
PostOutput(s, n) ==
  /\ page = "up"
  /\ Hear(s, n)
  /\ outbox' = Append(outbox, [sid |-> s, n |-> n])
  /\ UNCHANGED <<tabs, strip, active, nextKey, screen, page>>

WriteToActive ==  \* mutant: the output goes to the tab in front
  /\ page = "up" /\ outbox # <<>>
  /\ screen' = [screen EXCEPT ![active] = Head(outbox)]
  /\ outbox' = Tail(outbox)
  /\ UNCHANGED <<serviceVars, tabs, strip, active, nextKey, page>>

\* The first tab with that session has it; without one it is dropped.
WriteToTerminal ==
  /\ page = "up" /\ outbox # <<>>
  /\ LET i == SelectInSeq(tabs, LAMBDA t : t.sid = Head(outbox).sid) IN
     screen' = IF i = 0 THEN screen
               ELSE [screen EXCEPT ![tabs[i].key] = Head(outbox)]
  /\ outbox' = Tail(outbox)
  /\ UNCHANGED <<serviceVars, tabs, strip, active, nextKey, page>>

\* What a shell prints while startPty runs is printed just after it here: the
\* page hears of neither before.
ShellPrints(s) == page = "up" /\ s < nextId /\ Make(s) /\ UNCHANGED pageVars

\* aboutToDisappear: stopPty() stops every session, and the page goes; or the
\* process is killed, which hangs them up.
Disappear ==
  /\ page = "up" /\ page' = "gone"
  /\ live' = {}
  /\ UNCHANGED <<nextId, made, heard, tabs, strip, active, nextKey, outbox, screen>>

\* A new launch of the app.
Relaunch ==
  /\ page = "gone" /\ page' = "up"
  /\ nextId' = 1 /\ live' = {}
  /\ made' = [s \in Ids |-> 0] /\ heard' = [s \in Ids |-> 0]
  /\ tabs' = <<>> /\ strip' = <<>> /\ active' = 0 /\ nextKey' = 1
  /\ outbox' = <<>> /\ screen' = [k \in Keys |-> Blank]

-----------------------------------------------------------------------------
Next ==
  \/ Bootstrap \/ NewTab \/ OpenSettings \/ ClickTab \/ CycleTab
  \/ \E i \in DOMAIN tabs : RemoveTab(i)
  \/ \E s \in Ids : ShellPrints(s) \/ \E n \in 1 .. MaxChunks : PostOutput(s, n)
  \/ WriteToTerminal \/ Disappear \/ Relaunch

Spec == Init /\ [][Next]_vars
-----------------------------------------------------------------------------
(* Properties. *)

\* One of the tabs is in front, and there is one settings tab at most: the
\* user always sees a tab, and the one seen is the one the keys act upon
\* (terminal-app.js:2325-2388, 3720-3765).
FrontTab ==
  /\ Cardinality(SettingsTabs) <= 1
  /\ nextKey > 1 => active \in TabKeys
  /\ Cardinality(TabKeys) = Len(tabs)

\* The strip shows the tabs in the order of the array that Ctrl+Tab, the
\* fallback of a closed tab and `after_current' go by (2711-2746, 4056-4076).
StripMatchesTabs == strip = [i \in DOMAIN tabs |-> tabs[i].key]

\* Every session belongs to exactly one tab: closing tabs leaves no session
\* behind, and never stops another tab's (2376-2378, napi_init.cpp:544-546).
OneTabPerSession ==
  page = "up" =>
    /\ live = {tabs[i].sid : i \in DOMAIN tabs} \ {NoSession}
    /\ \A i, j \in DOMAIN tabs :
         tabs[i].sid = tabs[j].sid /\ tabs[i].sid # NoSession => i = j

\* What appears in a tab is its own session's output, in the order it was
\* printed, however tabs are opened, closed and moved while it is on its way.
OwnOutput ==
  [][\A k \in Keys : screen'[k] \notin {screen[k], Blank} =>
       /\ \E i \in DOMAIN tabs : tabs[i].key = k /\ tabs[i].sid = screen'[k].sid
       /\ screen'[k].n > screen[k].n]_vars
=============================================================================
