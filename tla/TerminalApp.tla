----------------------------- MODULE TerminalApp -----------------------------
(***************************************************************************)
(* The terminal page as a whole: the tabs (TerminalTabs) under the          *)
(* preferences (TerminalPrefs).  The preferences say where a new tab goes   *)
(* and how every terminal looks; the settings tab is one of the tabs, and   *)
(* closing it closes its form.                                              *)
(***************************************************************************)
EXTENDS TerminalTabs, TerminalPrefs

VARIABLE look  \* look[k]: the options of the terminal of tab k

appVars == <<vars, prefsVars, look>>

ShellKeys == {tabs[i].key : i \in {j \in DOMAIN tabs : tabs[j].kind = "shell"}}

\* buildTerminalOptions
Look(p) == [size |-> ClampFontSize(p.size), family |-> ComposeFontFamily(p.family)]

NoLook == Look(Factory)

AppInit == Init /\ PrefsInit /\ look = [k \in Keys |-> NoLook]

-----------------------------------------------------------------------------
(* Tabs. *)

\* The terminal of the new tab is built from the preferences as they are.
CreateShellTab ==
  /\ CreateTab(prefs'.pos)
  /\ look' = [look EXCEPT ![nextKey] = Look(prefs')]

\* onPageEnd: the preferences are read again before the first tab is made.
AppBootstrap == page = "up" /\ tabs = <<>> /\ PageEnd /\ CreateShellTab

AppNewTab == page = "up" /\ tabs # <<>> /\ UNCHANGED prefsVars /\ CreateShellTab

AppOpenSettings ==
  /\ OpenSettings
  /\ IF SettingsTabs = {} THEN OpenForm ELSE UNCHANGED prefsVars
  /\ UNCHANGED look

AppRemoveTab(i) ==
  /\ RemoveTab(i)
  /\ IF tabs[i].kind = "settings" THEN CloseForm ELSE UNCHANGED prefsVars
  /\ look' = [look EXCEPT ![tabs[i].key] = NoLook]

AppRelaunch == Relaunch /\ Relaunched /\ look' = [k \in Keys |-> NoLook]

OtherTabSteps ==
  /\ \/ ClickTab \/ CycleTab \/ WriteToTerminal \/ Disappear
     \/ \E s \in Ids : ShellPrints(s) \/ \E n \in 1 .. MaxChunks : PostOutput(s, n)
  /\ UNCHANGED <<prefsVars, look>>

-----------------------------------------------------------------------------
(* Preferences. *)

InFront(kind) == page = "up" /\ \E i \in DOMAIN tabs :
                                  tabs[i].key = active /\ tabs[i].kind = kind

ApplyToFront ==  \* mutant: the terminals of the other tabs keep their look
  look' = [k \in Keys |-> IF k \in ShellKeys \cap {active} THEN Look(prefs') ELSE look[k]]

\* applyTerminalPrefsToAllShellTabs
ApplyToShells ==
  look' = [k \in Keys |-> IF k \in ShellKeys THEN Look(prefs') ELSE look[k]]

EditLook ==
  /\ InFront("settings")
  /\ \/ \E f \in Families : SetFontFamily(f)
     \/ \E n \in MinFont - 1 .. MaxFont + 1 : SetFontSize(n)
  /\ ApplyToShells /\ UNCHANGED vars

EditQuietly ==
  /\ InFront("settings")
  /\ \/ \E v \in TabPositions : SetNewTabPosition(v)
     \/ \E v \in Formats : SetCopyFormat(v)
     \/ EditMenu
  /\ UNCHANGED <<vars, look>>

SaveForm == InFront("settings") /\ Save /\ UNCHANGED <<vars, look>>

DiscardForm == InFront("settings") /\ Discard /\ ApplyToShells /\ UNCHANGED vars

ResetForm == InFront("settings") /\ ResetToFactory /\ ApplyToShells /\ UNCHANGED vars

Wheel ==
  /\ InFront("shell")
  /\ \E d \in {-1, 1} : WheelFontSize(d)
  /\ ApplyToShells /\ UNCHANGED vars

StoreFlushed == Flushed /\ UNCHANGED <<vars, look>>

-----------------------------------------------------------------------------
AppNext ==
  \/ AppBootstrap \/ AppNewTab \/ AppOpenSettings
  \/ \E i \in DOMAIN tabs : AppRemoveTab(i)
  \/ AppRelaunch \/ OtherTabSteps
  \/ EditLook \/ EditQuietly \/ SaveForm \/ DiscardForm \/ ResetForm \/ Wheel
  \/ StoreFlushed

AppSpec == AppInit /\ [][AppNext]_appVars
-----------------------------------------------------------------------------
(* Properties. *)

\* Every terminal has the font of the preferences, in front or not, however
\* it was changed and whichever tab was open then (terminal-app.js:1721-1768).
LookIsPrefs == page = "up" => \A k \in ShellKeys : look[k] = Look(prefs)
=============================================================================
