---------------------------- MODULE MCTerminalApp ----------------------------
(* A finite instance of TerminalApp and of TerminalGeometry for TLC: one launch
   after the other with output and preferences, or one where only the font and
   the window's size change. *)
EXTENDS TerminalGeometry

\* What an older version and a later one may have saved.
MCLegacy == {
  [pos |-> "beside", copyFormat |-> "none", copyAsHtml |-> TRUE, size |-> MaxFont + 1,
   family |-> "", menu |-> <<"remaining", "group", "remaining">>]}

CONSTANTS MaxPrinted,  \* bound on the chunks all the shells print together
          MaxVersions, \* bound on the versions of the preferences at a time
          MaxLaidTabs  \* bound on the tabs created where sizes change

VARIABLE sizes  \* whether the window and the terminals have sizes

all == <<geometryAll, sizes>>

Printed == MapThenSumSet(LAMBDA s : made[s], Ids)

\* The preferences that differ from the factory's, an added menu entry each.
Changed(p) ==
  Cardinality({f \in DOMAIN p : p[f] # Factory[f]} \ {"copyAsHtml", "menu"})
  + Len(p.menu) - 1

\* The different contents of the stores, the form and the page.
Versions == {prefs, snapshot, local, native, disk, saved} \ {None}

\* Only the position of new tabs was changed, and nothing was ever saved.
OnlyPosition ==
  /\ dom /\ reach /\ {local, native, disk, saved} = {None}
  /\ \A p \in Versions : [p EXCEPT !.pos = "last"] = Factory

\* Output on its way and many tabs, wherever new tabs go, with several chunks only of
\* two tabs; or changed preferences in several versions with few tabs.
Few ==
  \/ OnlyPosition /\ Printed <= (IF Len(tabs) <= 2 THEN MaxPrinted ELSE 1)
  \/ /\ Printed = 0 /\ Len(tabs) <= 2 /\ nextKey < MaxKey
     /\ Cardinality(Versions) <= MaxVersions /\ Changed(prefs) <= 1

\* Nothing is printed or saved, and of the preferences only the size changes.
OnlySize ==
  /\ dom /\ reach /\ {local, native, disk, saved} = {None} /\ Printed = 0
  /\ \A p \in Versions : [p EXCEPT !.size = DefaultFont] = Factory
  /\ nextKey <= MaxLaidTabs + 1

Bounded == IF sizes THEN OnlySize ELSE Few

\* Without sizes a timer is left that never fires, and nothing is laid out.
MCInit ==
  /\ AppInit /\ sizes \in BOOLEAN
  /\ size = (CHOOSE s \in Sizes : TRUE)
  /\ resized = FALSE /\ timers = (IF sizes THEN 0 ELSE 1) /\ debounce = FALSE
  /\ grid = [k \in Keys |-> NoGrid] /\ told = [k \in Keys |-> NoGrid]

MCNext ==
  /\ UNCHANGED sizes
  /\ \/ sizes /\ GeometryNext
     \/ ~sizes /\ AppNext /\ UNCHANGED geometryVars

MCSpec == MCInit /\ [][MCNext]_all
=============================================================================
