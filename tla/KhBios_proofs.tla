---------------------------- MODULE KhBios_proofs ----------------------------
(***************************************************************************)
(* What holds of the BIOS for every feature mask of a board, with or        *)
(* without faults: of its setup menu, and of the hotkey window before it,   *)
(* for every delay and any number of keys.                                  *)
(***************************************************************************)
EXTENDS KhBiosEntry, FiniteSetTheorems, SequenceTheorems, TLAPS

\* The environment in RAM has to be the one on the disk for a menu to load what
\* is stored: neither half is inductive without the other.
MenuInv == EnvIsStored /\ CleanMenuIsStored

\* The first power-on has nothing edited and nothing loaded.
LEMMA MenuInvInit == Init => MenuInv
BY DEF Init, MenuInv, EnvIsStored, CleanMenuIsStored

\* A reset, of whatever cause, reads the disk again (kh_bios_boot.c:33-54).
LEMMA ResetKeepsMenuInv == ResetFrom(stored) => MenuInv'
BY DEF ResetFrom, MenuInv, EnvIsStored, CleanMenuIsStored

\* A menu loads the environment it was run with (kh_bios_ui.c:29-36).
LEMMA RunMenuKeepsMenuInv ==
  ASSUME NEW by, MenuInv, phase \in {"window", "cli"}, RunMenu(by)
  PROVE  MenuInv'
BY DEF RunMenu, MenuInv, EnvIsStored, CleanMenuIsStored

\* Moving about in the menu changes no setting (kh_bios_ui.c:70-279).
LEMMA NavigationKeepsMenuInv ==
  ASSUME MenuInv, Up \/ Down \/ OpenPage \/ ShowInfo \/ Back
  PROVE  MenuInv'
<1>1. phase' = phase /\ env' = env /\ stored' = stored /\ shown' = shown /\ dirty' = dirty
  BY DEF Up, Down, OpenPage, ShowInfo, Back, GoTo, vars, menuVars
<1> QED BY <1>1 DEF MenuInv, EnvIsStored, CleanMenuIsStored

\* Every step of the BIOS, of its user and of the power keeps the invariant.
LEMMA MenuInvStep == MenuInv /\ [Next]_vars => MenuInv'
<1> SUFFICES ASSUME MenuInv, [Next]_vars PROVE MenuInv'
  OBVIOUS
<1> USE DEF MenuInv, EnvIsStored, CleanMenuIsStored
<1>1. CASE UNCHANGED vars BY <1>1 DEF vars, menuVars
<1>2. CASE Hotkey BY <1>2, RunMenuKeepsMenuInv DEF Hotkey
<1>3. CASE WindowEnds BY <1>3 DEF WindowEnds, menuVars
<1>4. CASE Boot BY <1>4 DEF Boot, menuVars
<1>5. CASE RecoveryDone \/ Reboot \/ PowerCut \/ ExitSaved \/ ExitDiscarding
  BY <1>5, ResetKeepsMenuInv DEF RecoveryDone, Reboot, PowerCut, ExitSaved, ExitDiscarding
<1>6. CASE Up \/ Down \/ OpenPage \/ ShowInfo \/ Back
  BY <1>6, NavigationKeepsMenuInv
<1>7. CASE EditBoot BY <1>7 DEF EditBoot, menuVars
<1>8. CASE EditHardware BY <1>8 DEF EditHardware, menuVars
<1>9. CASE Download BY <1>9 DEF Download, Chosen, menuVars
<1>10. CASE EnterCli BY <1>10 DEF EnterCli, Chosen, menuVars
<1>11. CASE CliMenu BY <1>11, RunMenuKeepsMenuInv DEF CliMenu
<1>12. CASE Save BY <1>12 DEF Save
<1> QED BY <1>1, <1>2, <1>3, <1>4, <1>5, <1>6, <1>7, <1>8, <1>9, <1>10, <1>11, <1>12
        DEF Next

\* The invariant holds of every reachable state.
THEOREM MenuInvAlways == Spec => []MenuInv
BY MenuInvInit, MenuInvStep, PTL DEF Spec

\* Edits reach the environment in RAM by "Save" alone (kh_bios_ui.c:38-46).
THEOREM EnvironmentIsStored == Spec => []EnvIsStored
<1>1. MenuInv => EnvIsStored BY DEF MenuInv
<1> QED BY <1>1, MenuInvAlways, PTL

\* A menu without edits shows what the disk holds, also the second one that is run
\* with the same static bios_ctx (kh_bios_ui.c:27-36).
THEOREM MenuShowsStored == Spec => []CleanMenuIsStored
<1>1. MenuInv => CleanMenuIsStored BY DEF MenuInv
<1> QED BY <1>1, MenuInvAlways, PTL

\* The disk changes by "Save" alone and then to all that is shown
\* (kh_bios_ui.c:38-46, 111-114).
THEOREM SavesWhatIsShown == Spec => SavedAsShown
<1>1. ASSUME [Next]_vars
      PROVE  [stored' # stored => Chosen("save") /\ stored' = shown]_vars
  <2>1. CASE Save BY <2>1 DEF Save
  <2>2. CASE ~Save
    <3>1. stored' = stored
      BY <1>1, <2>2 DEF Next, vars, menuVars, Hotkey, WindowEnds, Boot, RecoveryDone,
         Reboot, PowerCut, Up, Down, OpenPage, ShowInfo, Back, EditBoot, EditHardware,
         Download, EnterCli, CliMenu, ExitSaved, ExitDiscarding, RunMenu, ResetFrom, GoTo
    <3> QED BY <3>1
  <2> QED BY <2>1, <2>2
<1> QED BY <1>1, PTL DEF Spec, SavedAsShown
-----------------------------------------------------------------------------
(* The selected line. *)

Pages == {"main", "boot", "hardware", "advanced", "security"}
PageInv == page \in Pages /\ sel \in Nat /\ SelectionOnPage

\* The information page and the command line need no feature: both tables have an
\* item for every board (kh_bios_menu.c:10-30).
LEMMA TablesHaveItems ==
  /\ Cardinality(Visible(MainTable)) \in Nat \ {0}
  /\ Cardinality(Visible(AdvTable)) \in Nat \ {0}
<1>1. DOMAIN MainTable = 1 .. 7 /\ DOMAIN AdvTable = 1 .. 3
  BY DEF MainTable, AdvTable
<1>2. IsFiniteSet(1 .. 7) /\ IsFiniteSet(1 .. 3)
  <2>1. 1 \in Int /\ 7 \in Int /\ 3 \in Int
    OBVIOUS
  <2> QED BY ONLY <2>1, FS_Interval, Zenon
<1>3. IsFiniteSet(Visible(MainTable)) /\ IsFiniteSet(Visible(AdvTable))
  BY <1>1, <1>2, FS_Subset DEF Visible
<1>4. MainTable[1].feat = {} /\ AdvTable[3].feat = {}
  BY DEF MainTable, AdvTable
<1>5. 1 \in Visible(MainTable) /\ 3 \in Visible(AdvTable)
  BY <1>1, <1>4 DEF Visible, FeatOk
<1> QED BY <1>3, <1>5, FS_CardinalityType, FS_EmptySet

\* Every page has a line.
LEMMA PagesHaveLines ==
  ASSUME page \in Pages
  PROVE  /\ Lines \in Nat \ {0}
         /\ page = "boot" => Lines = 3
BY TablesHaveItems DEF Pages, Lines

LEMMA PageInvStep == PageInv /\ [Next]_vars => PageInv'
<1> SUFFICES ASSUME PageInv, [Next]_vars PROVE PageInv'
  OBVIOUS
<1>1. (page \in Pages => Lines \in Nat \ {0} /\ (page = "boot" => Lines = 3))'
  BY TablesHaveItems DEF Pages, Lines
<1>2. page' = page => Lines' = Lines
  BY DEF Lines
<1>3. CASE page' = "main" /\ sel' = 0
  BY <1>1, <1>3 DEF PageInv, Pages, SelectionOnPage
<1>4. CASE UNCHANGED <<page, sel>> /\ phase' # "menu"
  BY <1>4 DEF PageInv, SelectionOnPage
<1>5. CASE UNCHANGED <<page, sel, phase>>
  BY <1>2, <1>5 DEF PageInv, SelectionOnPage
<1>6. CASE Up
  <2>1. sel' \in Nat /\ sel' < sel /\ page' = page
    BY <1>6 DEF Up, PageInv
  <2>2. phase = "menu" /\ sel < Lines /\ Lines \in Nat
    BY <1>6, PagesHaveLines DEF Up, PageInv, SelectionOnPage
  <2> QED BY <1>2, <2>1, <2>2 DEF PageInv, SelectionOnPage
<1>7. CASE Down
  <2>1. sel' \in Nat /\ sel' < Lines /\ page' = page
    BY <1>7, PagesHaveLines DEF Down, PageInv
  <2> QED BY <1>2, <2>1 DEF PageInv, SelectionOnPage
<1>8. CASE OpenPage
  <2>1. page' \in Pages /\ (sel' = 0 \/ (page' = "boot" /\ sel' = 1))
    BY <1>8 DEF OpenPage, GoTo, Pages
  <2> QED BY <1>1, <2>1 DEF PageInv, SelectionOnPage
<1> QED
  BY <1>3, <1>4, <1>5, <1>6, <1>7, <1>8
     DEF Next, vars, menuVars, Hotkey, WindowEnds, Boot, RecoveryDone, Reboot, PowerCut,
         ShowInfo, Back, EditBoot, EditHardware, Download, EnterCli, CliMenu, Save,
         ExitSaved, ExitDiscarding, RunMenu, ResetFrom, GoTo

\* Whatever features a board has, the selected line is one of its page's
\* (kh_bios_menu.c:62-75, 104-117, kh_bios_ui.c:70-279).
THEOREM SelectionStaysOnPage == Spec => []SelectionOnPage
<1>1. Init => PageInv
  <2>1. Init => page = "main" /\ sel = 0 /\ phase # "menu"
    BY DEF Init
  <2> QED BY <2>1 DEF PageInv, Pages, SelectionOnPage
<1>2. PageInv => SelectionOnPage BY DEF PageInv
<1> QED BY <1>1, <1>2, PageInvStep, PTL DEF Spec

-----------------------------------------------------------------------------
(* The board from power-on. *)

\* What holds of the menu holds of the board from power-on: the hotkey window ends
\* with one of the steps the menu's specification has for it (kh_bios.c:27-47).
THEOREM EntryLeadsToMenu == EntrySpec => Spec
<1>1. EntryInit => Init BY DEF EntryInit
<1>2. [EntryNext]_all => [Next]_vars
  BY DEF EntryNext, BootCheck, Next, all
<1> QED BY <1>1, <1>2, PTL DEF EntrySpec, Spec
-----------------------------------------------------------------------------
(* The hotkey window. *)

Chars == {"ESC", "[", "0", "1", "2", "9", "~", "B", "CR"}
KeyNames == {"F10", "B", "Down", "Enter", "Esc", "F8", "F9"}

\* The bytes the serial line still brings.
Line == uart \o wire

WindowTypeOK ==
  /\ at \in {"uart", "usb", "poll", "escape", "bracket", "tick",
             "entered", "cancelled", "expired"}
  /\ uart \in Seq(Chars) /\ usb \in Seq(Chars) /\ wire \in Seq(Chars)
  /\ match \in 0 .. 4 /\ enter \in BOOLEAN
  /\ pressed \in [Window!Ports -> Seq(KeyNames)]

\* While nothing but B is pressed no byte is anything else, and one that was read
\* is known to the drain, which is not over, or has opened the menu.
OnlyB(s) == \A i \in 1 .. Len(s) : s[i] = "B"
BInv ==
  Window!AllPressed \subseteq {"B"} =>
    /\ OnlyB(uart) /\ OnlyB(usb) /\ OnlyB(wire) /\ match = 0
    /\ at \notin {"escape", "bracket", "cancelled"}
    /\ enter => at \in {"uart", "usb", "entered"}
    /\ ~enter /\ at # "entered" =>
         /\ Len(usb) = Len(pressed["usb"])
         /\ Len(uart) + Len(wire) = Len(pressed["uart"])

\* In the keys that do not open the menu a 2 is followed by a 0 and a 1 by a 9.
Apart(s) == \A i \in 1 .. Len(s) :
  /\ s[i] # "B"
  /\ s[i] = "2" => i < Len(s) /\ s[i + 1] = "0"
  /\ s[i] = "1" => i < Len(s) /\ s[i + 1] = "9"

\* So once a 2 was matched one of the ports is at a 0, and once a 1 was the other
\* is at a 9: neither brings the last byte of F10 next.
Ahead(s, c) == Len(s) > 0 /\ s[1] = c
Follows(m, s, t) ==
  /\ m = 3 => Ahead(s, "0") \/ Ahead(t, "0")
  /\ m = 4 => \/ Ahead(s, "0") /\ Ahead(t, "9")
              \/ Ahead(s, "9") /\ Ahead(t, "0")

Openers == {"F10", "B", "Down"}
NoOpenerInv ==
  Window!AllPressed \cap Openers = {} =>
    /\ Apart(Line) /\ Apart(usb) /\ Follows(match, Line, usb)
    /\ at # "entered" /\ enter = FALSE
    /\ at \in {"escape", "bracket"} => match = 1

WindowInv == WindowTypeOK /\ BInv /\ NoOpenerInv

LEMMA BytesOfKeys ==
  ASSUME NEW k \in KeyNames
  PROVE  /\ Window!Bytes[k] \in Seq(Chars)
         /\ k = "B" => Window!Bytes[k] = <<"B">>
         /\ k \notin Openers => Apart(Window!Bytes[k])
<1>1. CASE k = "F10" BY <1>1 DEF Window!Bytes, Chars, Openers
<1>2. CASE k = "B" BY <1>2 DEF Window!Bytes, Chars, Openers
<1>3. CASE k = "Down" BY <1>3 DEF Window!Bytes, Chars, Openers
<1>4. CASE k = "Enter" BY <1>4 DEF Window!Bytes, Chars, Apart
<1>5. CASE k = "Esc" BY <1>5 DEF Window!Bytes, Chars, Apart
<1>6. CASE k = "F8"
  <2>1. Window!Bytes[k] = <<"ESC", "[", "1", "9", "~">>
    BY <1>6 DEF Window!Bytes
  <2> QED BY <1>6, <2>1 DEF Chars, Apart
<1>7. CASE k = "F9"
  <2>1. Window!Bytes[k] = <<"ESC", "[", "2", "0", "~">>
    BY <1>7 DEF Window!Bytes
  <2> QED BY <1>7, <2>1 DEF Chars, Apart
<1> QED BY <1>1, <1>2, <1>3, <1>4, <1>5, <1>6, <1>7 DEF KeyNames

\* What is pressed adds to what was.
LEMMA PressedGrows ==
  ASSUME WindowTypeOK, NEW p \in Window!Ports, NEW k \in KeyNames,
         pressed' = [pressed EXCEPT ![p] = Append(@, k)]
  PROVE  /\ pressed' \in [Window!Ports -> Seq(KeyNames)]
         /\ Window!AllPressed' = Window!AllPressed \cup {k}
         /\ Len(pressed'[p]) = Len(pressed[p]) + 1
         /\ \A q \in Window!Ports \ {p} : pressed'[q] = pressed[q]
<1>1. pressed[p] \in Seq(KeyNames)
  BY DEF WindowTypeOK
<1>2. /\ pressed' \in [Window!Ports -> Seq(KeyNames)] /\ pressed'[p] = Append(pressed[p], k)
      /\ \A q \in Window!Ports \ {p} : pressed'[q] = pressed[q]
  BY <1>1 DEF WindowTypeOK
<1>3. \A q \in Window!Ports \ {p} : Window!Pressed(q)' = Window!Pressed(q)
  BY <1>2 DEF Window!Pressed
<1>4. Window!Pressed(p)' = Window!Pressed(p) \cup {k}
  <2>1. /\ DOMAIN Append(pressed[p], k) = 1 .. Len(pressed[p]) + 1
        /\ DOMAIN pressed[p] = 1 .. Len(pressed[p]) /\ Len(pressed[p]) \in Nat
        /\ \A i \in 1 .. Len(pressed[p]) : Append(pressed[p], k)[i] = pressed[p][i]
        /\ Append(pressed[p], k)[Len(pressed[p]) + 1] = k
    BY <1>1
  <2> QED BY <1>2, <2>1 DEF Window!Pressed
<1>5. Window!AllPressed' = Window!AllPressed \cup {k}
  BY <1>3, <1>4 DEF Window!AllPressed, Window!Ports
<1> QED BY <1>1, <1>2, <1>5

\* Two keys one after the other are as far apart as each.
LEMMA ApartOf ==
  ASSUME NEW s \in Seq(Chars), NEW t \in Seq(Chars), Apart(s), Apart(t)
  PROVE  Apart(s \o t)
<1>1. Len(s) \in Nat /\ Len(t) \in Nat /\ Len(s \o t) = Len(s) + Len(t)
  OBVIOUS
<1>2. /\ \A i \in 1 .. Len(s) : (s \o t)[i] = s[i]
      /\ \A i \in Len(s) + 1 .. Len(s) + Len(t) : (s \o t)[i] = t[i - Len(s)]
  OBVIOUS
<1> SUFFICES ASSUME NEW i \in 1 .. Len(s) + Len(t)
             PROVE  /\ (s \o t)[i] # "B"
                    /\ (s \o t)[i] = "2" => i < Len(s) + Len(t) /\ (s \o t)[i + 1] = "0"
                    /\ (s \o t)[i] = "1" => i < Len(s) + Len(t) /\ (s \o t)[i + 1] = "9"
  BY <1>1 DEF Apart
<1>3. CASE i \in 1 .. Len(s)
  <2>1. (s \o t)[i] = s[i] /\ (i < Len(s) => (s \o t)[i + 1] = s[i + 1])
    BY <1>1, <1>2, <1>3
  <2> QED BY <1>1, <1>3, <2>1 DEF Apart
<1>4. CASE i \in Len(s) + 1 .. Len(s) + Len(t)
  <2>1. i - Len(s) \in 1 .. Len(t) /\ (s \o t)[i] = t[i - Len(s)]
    BY <1>1, <1>2, <1>4
  <2>2. i - Len(s) < Len(t) => (s \o t)[i + 1] = t[(i - Len(s)) + 1]
    <3> SUFFICES ASSUME i - Len(s) < Len(t) PROVE (s \o t)[i + 1] = t[(i - Len(s)) + 1]
      OBVIOUS
    <3>1. i + 1 \in Len(s) + 1 .. Len(s) + Len(t) /\ (i + 1) - Len(s) = (i - Len(s)) + 1
      BY <1>1, <1>4
    <3> QED BY <1>2, <3>1
  <2> QED BY <1>1, <2>1, <2>2 DEF Apart
<1> QED BY <1>1, <1>3, <1>4

LEMMA TailOf ==
  ASSUME NEW s \in Seq(Chars), s # <<>>
  PROVE  /\ Tail(s) \in Seq(Chars) /\ Len(Tail(s)) = Len(s) - 1 /\ Len(s) \in Nat \ {0}
         /\ Head(s) = s[1] /\ Head(s) \in Chars
         /\ \A i \in 1 .. Len(s) - 1 : Tail(s)[i] = s[i + 1]
OBVIOUS

LEMMA TailApart ==
  ASSUME NEW s \in Seq(Chars), s # <<>>, Apart(s)
  PROVE  Apart(Tail(s))
BY TailOf DEF Apart

LEMMA TailOnlyB ==
  ASSUME NEW s \in Seq(Chars), s # <<>>, OnlyB(s)
  PROVE  OnlyB(Tail(s)) /\ Head(s) = "B"
BY TailOf DEF OnlyB
\* A byte that esc_state_feed gets, from either port, while no opener was pressed.
LEMMA FeedFollows ==
  ASSUME NEW s \in Seq(Chars), NEW t \in Seq(Chars), s # <<>>, Apart(s),
         match \in 0 .. 4, Follows(match, s, t), Window!Feed(Head(s))
  PROVE  /\ ~Window!Completes(Head(s)) /\ match' \in 0 .. 4
         /\ Follows(match', Tail(s), t) /\ (Head(s) = "ESC" => match' = 1)
<1> USE DEF Window!F10Sequence, Window!Bytes
<1>1. /\ Len(s) \in Nat \ {0} /\ Head(s) = s[1] /\ Len(Tail(s)) = Len(s) - 1
      /\ s[1] = "2" => Ahead(Tail(s), "0")
      /\ s[1] = "1" => Ahead(Tail(s), "9")
  BY TailOf DEF Apart, Ahead
<1>2. Len(Window!F10Sequence) = 5
  OBVIOUS
<1>3. ~Window!Completes(s[1])
  <2> SUFFICES ASSUME Window!Completes(s[1]) PROVE FALSE
    OBVIOUS
  <2>1. match = 4 /\ s[1] = Window!F10Sequence[5]
    BY <1>2 DEF Window!Completes
  <2>2. s[1] = "~"
    BY <2>1
  <2> QED BY <2>1, <2>2 DEF Follows, Ahead
<1>4. match' = IF s[1] = Window!F10Sequence[match + 1] THEN match + 1
               ELSE IF s[1] = Window!F10Sequence[1] THEN 1 ELSE 0
  BY <1>1, <1>3 DEF Window!Feed
<1>5. CASE match = 0
  <2>1. match' = IF s[1] = "ESC" THEN 1 ELSE 0
    BY <1>4, <1>5
  <2> QED BY <1>1, <1>3, <2>1 DEF Follows
<1>6. CASE match = 1
  <2>1. match' = IF s[1] = "[" THEN 2 ELSE IF s[1] = "ESC" THEN 1 ELSE 0
    BY <1>4, <1>6
  <2> QED BY <1>1, <1>3, <2>1 DEF Follows
<1>7. CASE match = 2
  <2>1. match' = IF s[1] = "2" THEN 3 ELSE IF s[1] = "ESC" THEN 1 ELSE 0
    BY <1>4, <1>7
  <2> QED BY <1>1, <1>3, <2>1 DEF Follows
<1>8. CASE match = 3
  <2>1. match' = IF s[1] = "1" THEN 4 ELSE IF s[1] = "ESC" THEN 1 ELSE 0
    BY <1>4, <1>8
  <2>2. s[1] = "1" => Ahead(t, "0")
    BY <1>8 DEF Follows, Ahead
  <2> QED BY <1>1, <1>3, <2>1, <2>2 DEF Follows
<1>9. CASE match = 4
  <2>1. match' = IF s[1] = "~" THEN 5 ELSE IF s[1] = "ESC" THEN 1 ELSE 0
    BY <1>4, <1>9
  <2>2. s[1] # "~"
    BY <1>9 DEF Follows, Ahead
  <2> QED BY <1>1, <1>3, <2>1, <2>2 DEF Follows
<1> QED BY <1>5, <1>6, <1>7, <1>8, <1>9

\* The order of the ports does not matter.
LEMMA FollowsBoth ==
  ASSUME NEW n, NEW s, NEW t
  PROVE  Follows(n, s, t) <=> Follows(n, t, s)
BY DEF Follows

\* More bytes behind those that are there leave the next ones where they are.
LEMMA FollowsMore ==
  ASSUME NEW n, NEW s \in Seq(Chars), NEW t \in Seq(Chars), NEW b \in Seq(Chars),
         Follows(n, s, t)
  PROVE  Follows(n, s \o b, t)
<1>1. \A c : Ahead(s, c) => Ahead(s \o b, c)
  <2> SUFFICES ASSUME NEW c, Ahead(s, c) PROVE Ahead(s \o b, c)
    OBVIOUS
  <2>1. Len(s) \in Nat /\ Len(s) > 0 /\ s[1] = c /\ Len(b) \in Nat
    BY DEF Ahead
  <2>2. Len(s \o b) = Len(s) + Len(b) /\ (s \o b)[1] = s[1]
    BY <2>1
  <2> QED BY <2>1, <2>2 DEF Ahead
<1> QED BY <1>1 DEF Follows

\* B is no byte of F10's.
LEMMA FeedOfB ==
  ASSUME match = 0, NEW c, Window!Feed(c), c = "B"
  PROVE  match' = 0 /\ ~Window!Completes(c)
BY DEF Window!Feed, Window!Completes, Window!F10Sequence, Window!Bytes

\* Whatever the byte is, match stays within F10's.
LEMMA FeedType ==
  ASSUME match \in 0 .. 4, NEW c, Window!Feed(c)
  PROVE  match' \in 0 .. 4
<1>1. Len(Window!F10Sequence) = 5
  BY DEF Window!F10Sequence, Window!Bytes
<1>2. match + 1 = 5 /\ c = Window!F10Sequence[match + 1] => match' = 0
  BY <1>1 DEF Window!Feed, Window!Completes
<1>3. match' \in {0, 1, match + 1}
  BY DEF Window!Feed
<1>4. match' = match + 1 /\ match = 4 => FALSE
  BY <1>1 DEF Window!Feed, Window!Completes
<1> QED BY <1>3, <1>4

\* The serial line, seen from its reader.
LEMMA LineOf ==
  ASSUME WindowTypeOK
  PROVE  /\ Line \in Seq(Chars)
         /\ uart # <<>> => /\ Line # <<>> /\ Head(Line) = Head(uart)
                           /\ Tail(Line) = Tail(uart) \o wire
<1>1. uart \in Seq(Chars) /\ wire \in Seq(Chars)
  BY DEF WindowTypeOK
<1>2. Line \in Seq(Chars) /\ Len(Line) = Len(uart) + Len(wire)
  BY <1>1 DEF Line
<1>3. ASSUME uart # <<>>
      PROVE  Line # <<>> /\ Head(Line) = Head(uart) /\ Tail(Line) = Tail(uart) \o wire
  <2>1. /\ Len(uart) \in Nat \ {0} /\ Len(wire) \in Nat /\ Tail(uart) \in Seq(Chars)
        /\ Len(Tail(uart)) = Len(uart) - 1
    BY <1>1, <1>3
  <2>2. Len(Line) > 0 /\ Line[1] = uart[1]
    BY <1>1, <1>2, <2>1 DEF Line
  <2>3. Line # <<>> /\ Head(Line) = Head(uart)
    BY <1>1, <1>2, <1>3, <2>2
  <2>4. /\ Tail(Line) \in Seq(Chars) /\ Len(Tail(Line)) = Len(uart) + Len(wire) - 1
        /\ \A j \in 1 .. Len(uart) + Len(wire) - 1 : Tail(Line)[j] = Line[j + 1]
    BY <1>2, <2>1, <2>3
  <2>5. /\ Tail(uart) \o wire \in Seq(Chars)
        /\ Len(Tail(uart) \o wire) = Len(uart) + Len(wire) - 1
    BY <1>1, <2>1
  <2>6. ASSUME NEW j \in 1 .. Len(uart) + Len(wire) - 1
        PROVE  (Tail(uart) \o wire)[j] = Line[j + 1]
    <3>1. CASE j <= Len(uart) - 1
      <4>1. (Tail(uart) \o wire)[j] = Tail(uart)[j]
        BY <1>1, <2>1, <3>1
      <4>2. Tail(uart)[j] = uart[j + 1]
        BY <1>1, <2>1, <3>1
      <4>3. Line[j + 1] = uart[j + 1]
        BY <1>1, <2>1, <3>1 DEF Line
      <4> QED BY <4>1, <4>2, <4>3
    <3>2. CASE j > Len(uart) - 1
      <4>1. (Tail(uart) \o wire)[j] = wire[j - (Len(uart) - 1)]
        BY <1>1, <2>1, <3>2
      <4>2. Line[j + 1] = wire[(j + 1) - Len(uart)]
        BY <1>1, <2>1, <3>2 DEF Line
      <4>3. (j + 1) - Len(uart) = j - (Len(uart) - 1)
        BY <2>1
      <4> QED BY <4>1, <4>2, <4>3
    <3> QED BY <2>1, <3>1, <3>2
  <2>7. Tail(Line) = Tail(uart) \o wire
    BY <2>4, <2>5, <2>6, SeqEqual
  <2> QED BY <2>3, <2>7
<1> QED BY <1>2, <1>3
LEMMA PressKeeps ==
  ASSUME WindowInv, Window!PressUart \/ Window!PressUsb
  PROVE  WindowInv'
<1> USE DEF WindowInv
<1>1. ASSUME NEW k \in UartKeys \cup UsbKeys PROVE k \in KeyNames
  BY WindowAssumption DEF Window!Bytes, KeyNames
<1>2. CASE Window!PressUart
  <2>1. PICK k \in UartKeys :
          /\ wire = <<>> /\ wire' = Window!Bytes[k]
          /\ pressed' = [pressed EXCEPT !["uart"] = Append(@, k)]
          /\ UNCHANGED <<at, sec, uart, usb, match, enter>>
    BY <1>2 DEF Window!PressUart
  <2>2. k \in KeyNames /\ "uart" \in Window!Ports /\ "usb" \in Window!Ports \ {"uart"}
    BY <1>1 DEF Window!Ports
  <2>3. /\ pressed' \in [Window!Ports -> Seq(KeyNames)]
        /\ Window!AllPressed' = Window!AllPressed \cup {k}
        /\ Len(pressed'["uart"]) = Len(pressed["uart"]) + 1 /\ pressed'["usb"] = pressed["usb"]
    BY <2>1, <2>2, PressedGrows
  <2>4. WindowTypeOK'
    BY <2>1, <2>2, <2>3, BytesOfKeys DEF WindowTypeOK
  <2>5. BInv'
    <3> SUFFICES ASSUME Window!AllPressed' \subseteq {"B"}
                 PROVE  /\ OnlyB(wire') /\ Len(wire') = 1 /\ Len(wire) = 0
                        /\ Window!AllPressed \subseteq {"B"} /\ Len(uart) \in Nat
      <4>1. Len(uart) + Len(wire) = Len(pressed["uart"]) /\ Len(wire) = 0 /\ Len(wire') = 1
            /\ Len(uart) \in Nat => Len(uart') + Len(wire') = Len(pressed'["uart"])
        BY <2>1, <2>3
      <4> QED BY <2>1, <2>3, <4>1 DEF BInv
    <3>1. k = "B" /\ Window!AllPressed \subseteq {"B"}
      BY <2>3
    <3>2. wire' = <<"B">>
      BY <2>1, <2>2, <3>1, BytesOfKeys
    <3> QED BY <2>1, <3>1, <3>2 DEF OnlyB, WindowTypeOK
  <2>6. NoOpenerInv'
    <3> SUFFICES ASSUME Window!AllPressed' \cap Openers = {}
                 PROVE  /\ Apart(Line') /\ Follows(match, Line', usb)
                        /\ Window!AllPressed \cap Openers = {}
      BY <2>1 DEF NoOpenerInv
    <3>1. k \notin Openers /\ Window!AllPressed \cap Openers = {}
      BY <2>3
    <3>2. Window!Bytes[k] \in Seq(Chars) /\ Apart(Window!Bytes[k])
      BY <2>2, <3>1, BytesOfKeys
    <3>3. Line = uart /\ Line' = uart \o Window!Bytes[k] /\ uart \in Seq(Chars) /\ usb \in Seq(Chars)
      BY <2>1 DEF Line, WindowTypeOK
    <3>4. Apart(uart) /\ Follows(match, uart, usb)
      BY <3>1, <3>3 DEF NoOpenerInv
    <3> QED BY <3>1, <3>2, <3>3, <3>4, ApartOf, FollowsMore
  <2> QED BY <2>4, <2>5, <2>6
<1>3. CASE Window!PressUsb
  <2>1. PICK k \in UsbKeys :
          /\ usb' = usb \o Window!Bytes[k]
          /\ pressed' = [pressed EXCEPT !["usb"] = Append(@, k)]
          /\ UNCHANGED <<at, sec, uart, wire, match, enter>>
    BY <1>3 DEF Window!PressUsb
  <2>2. k \in KeyNames /\ "usb" \in Window!Ports /\ "uart" \in Window!Ports \ {"usb"}
    BY <1>1 DEF Window!Ports
  <2>3. /\ pressed' \in [Window!Ports -> Seq(KeyNames)]
        /\ Window!AllPressed' = Window!AllPressed \cup {k}
        /\ Len(pressed'["usb"]) = Len(pressed["usb"]) + 1 /\ pressed'["uart"] = pressed["uart"]
    BY <2>1, <2>2, PressedGrows
  <2>4. Window!Bytes[k] \in Seq(Chars) /\ usb \in Seq(Chars) /\ usb' \in Seq(Chars)
    BY <2>1, <2>2, BytesOfKeys DEF WindowTypeOK
  <2>5. WindowTypeOK'
    BY <2>1, <2>3, <2>4 DEF WindowTypeOK
  <2>6. BInv'
    <3> SUFFICES ASSUME Window!AllPressed' \subseteq {"B"}
                 PROVE  /\ OnlyB(usb') /\ Len(usb') = Len(usb) + 1
                        /\ Window!AllPressed \subseteq {"B"}
      BY <2>1, <2>3 DEF BInv, WindowTypeOK
    <3>1. k = "B" /\ Window!AllPressed \subseteq {"B"}
      BY <2>3
    <3>2. usb' = usb \o <<"B">> /\ OnlyB(usb)
      BY <2>1, <2>2, <3>1, BytesOfKeys DEF BInv
    <3> QED BY <2>4, <3>1, <3>2 DEF OnlyB
  <2>7. NoOpenerInv'
    <3> SUFFICES ASSUME Window!AllPressed' \cap Openers = {}
                 PROVE  /\ Apart(usb') /\ Follows(match, Line, usb')
                        /\ Window!AllPressed \cap Openers = {}
      BY <2>1 DEF NoOpenerInv, Line
    <3>1. k \notin Openers /\ Window!AllPressed \cap Openers = {}
      BY <2>3
    <3>2. Apart(Window!Bytes[k])
      BY <2>2, <3>1, BytesOfKeys
    <3>3. Apart(usb) /\ Follows(match, usb, Line) /\ Line \in Seq(Chars)
      BY <3>1, FollowsBoth, LineOf DEF NoOpenerInv
    <3>4. Follows(match, usb', Line)
      BY <2>1, <2>4, <3>3, FollowsMore
    <3> QED BY <2>1, <2>4, <3>1, <3>2, <3>3, <3>4, ApartOf, FollowsBoth
  <2> QED BY <2>5, <2>6, <2>7
<1> QED BY <1>2, <1>3

LEMMA TransmitKeeps ==
  ASSUME WindowInv, Window!Transmit
  PROVE  WindowInv'
<1> USE DEF WindowInv
<1>1. /\ wire # <<>> /\ uart' = Append(uart, Head(wire)) /\ wire' = Tail(wire)
      /\ UNCHANGED <<at, sec, usb, match, enter, pressed>>
  BY DEF Window!Transmit
<1>2. /\ uart \in Seq(Chars) /\ wire \in Seq(Chars) /\ Head(wire) \in Chars
      /\ Tail(wire) \in Seq(Chars) /\ Len(Tail(wire)) = Len(wire) - 1
      /\ uart' \in Seq(Chars) /\ Len(uart') = Len(uart) + 1
      /\ Len(uart) \in Nat /\ Len(wire) \in Nat
  BY <1>1, TailOf DEF WindowTypeOK
<1>3. WindowTypeOK'
  BY <1>1, <1>2 DEF WindowTypeOK
<1>4. Window!AllPressed' = Window!AllPressed
  BY <1>1 DEF Window!AllPressed, Window!Pressed
<1>5. Line' = Line
  <2>1. wire = <<Head(wire)>> \o Tail(wire)
    BY <1>1, <1>2
  <2>2. uart' = uart \o <<Head(wire)>>
    BY <1>1, <1>2
  <2>3. (uart \o <<Head(wire)>>) \o Tail(wire) = uart \o (<<Head(wire)>> \o Tail(wire))
    BY <1>2
  <2> QED BY <1>1, <2>1, <2>2, <2>3 DEF Line
<1>6. OnlyB(uart) /\ OnlyB(wire) => OnlyB(uart') /\ OnlyB(wire')
  <2> SUFFICES ASSUME OnlyB(uart), OnlyB(wire) PROVE OnlyB(uart')
    BY <1>1, <1>2, TailOnlyB
  <2>1. Head(wire) = "B"
    BY <1>1, <1>2, TailOnlyB
  <2> QED BY <1>1, <1>2, <2>1 DEF OnlyB
<1>7. BInv'
  <2>1. Len(uart') + Len(wire') = Len(uart) + Len(wire)
    BY <1>1, <1>2
  <2> QED BY <1>1, <1>4, <1>6, <2>1 DEF BInv
<1>8. NoOpenerInv'
  BY <1>1, <1>4, <1>5 DEF NoOpenerInv
<1> QED BY <1>3, <1>7, <1>8
\* A byte is taken off one of the ports.
TakesUart == uart # <<>> /\ uart' = Tail(uart) /\ UNCHANGED <<usb, wire, pressed>>
TakesUsb  == usb # <<>> /\ usb' = Tail(usb) /\ UNCHANGED <<uart, wire, pressed>>

LEMMA TakeKeeps ==
  ASSUME WindowInv, TakesUart \/ TakesUsb
  PROVE  /\ uart' \in Seq(Chars) /\ usb' \in Seq(Chars) /\ wire' \in Seq(Chars)
         /\ Window!AllPressed' = Window!AllPressed
         /\ Window!AllPressed \subseteq {"B"} => OnlyB(uart') /\ OnlyB(usb') /\ OnlyB(wire')
         /\ Window!AllPressed \cap Openers = {} => Apart(Line') /\ Apart(usb')
<1> USE DEF WindowInv
<1>1. uart \in Seq(Chars) /\ usb \in Seq(Chars) /\ wire \in Seq(Chars) /\ Line \in Seq(Chars)
  BY LineOf DEF WindowTypeOK
<1>2. Window!AllPressed' = Window!AllPressed
  BY DEF TakesUart, TakesUsb, Window!AllPressed, Window!Pressed
<1>3. CASE TakesUart
  <2>1. Tail(uart) \in Seq(Chars) /\ Line # <<>> /\ Line' = Tail(Line)
    BY <1>1, <1>3, TailOf, LineOf DEF TakesUart, Line
  <2>2. Window!AllPressed \subseteq {"B"} => OnlyB(Tail(uart)) /\ OnlyB(usb) /\ OnlyB(wire)
    BY <1>1, <1>3, TailOnlyB DEF BInv, TakesUart
  <2>3. Window!AllPressed \cap Openers = {} => Apart(Tail(Line)) /\ Apart(usb)
    BY <1>1, <2>1, TailApart DEF NoOpenerInv
  <2> QED BY <1>1, <1>2, <1>3, <2>1, <2>2, <2>3 DEF TakesUart
<1>4. CASE TakesUsb
  <2>1. Tail(usb) \in Seq(Chars) /\ Line' = Line
    BY <1>1, <1>4, TailOf DEF TakesUsb, Line
  <2>2. Window!AllPressed \subseteq {"B"} => OnlyB(uart) /\ OnlyB(Tail(usb)) /\ OnlyB(wire)
    BY <1>1, <1>4, TailOnlyB DEF BInv, TakesUsb
  <2>3. Window!AllPressed \cap Openers = {} => Apart(Line) /\ Apart(Tail(usb))
    BY <1>1, <1>4, TailApart DEF NoOpenerInv, TakesUsb
  <2> QED BY <1>1, <1>2, <1>4, <2>1, <2>2, <2>3 DEF TakesUsb
<1> QED BY <1>3, <1>4

\* And it is fed to the matcher.
LEMMA FeedKeeps ==
  ASSUME WindowInv, NEW c, Window!Feed(c),
         (TakesUart /\ c = Head(uart)) \/ (TakesUsb /\ c = Head(usb))
  PROVE  /\ match' \in 0 .. 4
         /\ Window!AllPressed \subseteq {"B"} =>
              c = "B" /\ match' = 0 /\ ~Window!Completes(c)
         /\ Window!AllPressed \cap Openers = {} =>
              /\ c # "B" /\ ~Window!Completes(c) /\ Follows(match', Line', usb')
              /\ c = "ESC" => match' = 1
<1> USE DEF WindowInv
<1>1. /\ uart \in Seq(Chars) /\ usb \in Seq(Chars) /\ wire \in Seq(Chars) /\ Line \in Seq(Chars)
      /\ match \in 0 .. 4
  BY LineOf DEF WindowTypeOK
<1>2. match' \in 0 .. 4
  BY <1>1, FeedType
<1>3. ASSUME Window!AllPressed \subseteq {"B"}
      PROVE  c = "B" /\ match' = 0 /\ ~Window!Completes(c)
  <2>1. c = "B"
    BY <1>1, <1>3, TailOnlyB DEF BInv, TakesUart, TakesUsb
  <2>2. match = 0
    BY <1>3 DEF BInv
  <2> QED BY <2>1, <2>2, FeedOfB
<1>4. ASSUME Window!AllPressed \cap Openers = {}, TakesUart, c = Head(uart)
      PROVE  /\ c # "B" /\ ~Window!Completes(c) /\ Follows(match', Line', usb')
             /\ c = "ESC" => match' = 1
  <2>1. Line # <<>> /\ Line' = Tail(Line) /\ c = Head(Line) /\ usb' = usb
    BY <1>4, LineOf DEF TakesUart, Line
  <2>2. Apart(Line) /\ Follows(match, Line, usb)
    BY <1>4 DEF NoOpenerInv
  <2>3. c # "B"
    BY <1>1, <2>1, <2>2, TailOf DEF Apart
  <2> QED BY <1>1, <2>1, <2>2, <2>3, FeedFollows
<1>5. ASSUME Window!AllPressed \cap Openers = {}, TakesUsb, c = Head(usb)
      PROVE  /\ c # "B" /\ ~Window!Completes(c) /\ Follows(match', Line', usb')
             /\ c = "ESC" => match' = 1
  <2>1. usb # <<>> /\ Line' = Line /\ usb' = Tail(usb)
    BY <1>5 DEF TakesUsb, Line
  <2>2. Apart(usb) /\ Follows(match, usb, Line)
    BY <1>5, FollowsBoth DEF NoOpenerInv
  <2>3. c # "B"
    BY <1>1, <1>5, <2>1, <2>2, TailOf DEF Apart
  <2>4. ~Window!Completes(c) /\ Follows(match', Tail(usb), Line) /\ (c = "ESC" => match' = 1)
    BY <1>1, <1>5, <2>1, <2>2, FeedFollows
  <2> QED BY <2>1, <2>3, <2>4, FollowsBoth
<1> QED BY <1>2, <1>3, <1>4, <1>5

LEMMA DrainKeeps ==
  ASSUME WindowInv, Window!DrainUart \/ Window!DrainUsb
  PROVE  WindowInv'
<1> USE DEF WindowInv
<1>1. ASSUME NEW c, Window!Feed(c), UNCHANGED <<at, sec>>, at \in {"uart", "usb"},
             (TakesUart /\ c = Head(uart)) \/ (TakesUsb /\ c = Head(usb)),
             enter' = (enter \/ c = "B" \/ Window!Completes(c))
      PROVE  WindowInv'
  <2>1. /\ match' \in 0 .. 4
        /\ Window!AllPressed \subseteq {"B"} =>
             c = "B" /\ match' = 0 /\ ~Window!Completes(c)
        /\ Window!AllPressed \cap Openers = {} =>
             c # "B" /\ ~Window!Completes(c) /\ Follows(match', Line', usb')
    BY <1>1, FeedKeeps
  <2>2. /\ uart' \in Seq(Chars) /\ usb' \in Seq(Chars) /\ wire' \in Seq(Chars)
        /\ Window!AllPressed' = Window!AllPressed
        /\ Window!AllPressed \subseteq {"B"} => OnlyB(uart') /\ OnlyB(usb') /\ OnlyB(wire')
        /\ Window!AllPressed \cap Openers = {} => Apart(Line') /\ Apart(usb')
    BY <1>1, TakeKeeps
  <2>3. pressed' = pressed /\ enter' \in BOOLEAN
    BY <1>1 DEF TakesUart, TakesUsb, WindowTypeOK, Window!Completes
  <2>4. WindowTypeOK'
    BY <1>1, <2>1, <2>2, <2>3 DEF WindowTypeOK
  <2>5. BInv'
    BY <1>1, <2>1, <2>2 DEF BInv
  <2>6. NoOpenerInv'
    BY <1>1, <2>1, <2>2 DEF NoOpenerInv
  <2> QED BY <2>4, <2>5, <2>6
<1>2. ASSUME at \in {"uart", "usb"}, UNCHANGED <<sec, uart, usb, wire, match, enter, pressed>>,
             at' = IF at = "uart" THEN "usb" ELSE IF enter THEN "entered" ELSE "poll"
      PROVE  WindowInv'
  <2>1. Window!AllPressed' = Window!AllPressed /\ Line' = Line
    BY <1>2 DEF Window!AllPressed, Window!Pressed, Line
  <2>2. WindowTypeOK'
    BY <1>2 DEF WindowTypeOK
  <2>3. BInv'
    BY <1>2, <2>1 DEF BInv
  <2>4. NoOpenerInv'
    BY <1>2, <2>1 DEF NoOpenerInv
  <2> QED BY <2>2, <2>3, <2>4
<1>3. CASE Window!DrainUart /\ uart # <<>>
  BY <1>1, <1>3 DEF Window!DrainUart, TakesUart
<1>4. CASE Window!DrainUsb /\ usb # <<>>
  BY <1>1, <1>4 DEF Window!DrainUsb, TakesUsb
<1>5. CASE (Window!DrainUart /\ uart = <<>>) \/ (Window!DrainUsb /\ usb = <<>>)
  BY <1>2, <1>5 DEF Window!DrainUart, Window!DrainUsb
<1> QED BY <1>3, <1>4, <1>5
LEMMA PollKeeps ==
  ASSUME WindowInv, Window!Poll
  PROVE  WindowInv'
<1> USE DEF WindowInv
<1>1. at = "poll" /\ enter' = enter /\ pressed' = pressed /\ enter \in BOOLEAN
  BY DEF Window!Poll, WindowTypeOK
<1>2. CASE Window!NoByte
  <2>1. at' = "tick" /\ UNCHANGED <<uart, usb, match, wire>>
    BY <1>2 DEF Window!Poll
  <2>2. Window!AllPressed' = Window!AllPressed /\ Line' = Line
    BY <1>1, <2>1 DEF Window!AllPressed, Window!Pressed, Line
  <2>3. WindowTypeOK'
    BY <1>1, <2>1 DEF WindowTypeOK
  <2>4. BInv'
    BY <1>1, <2>1, <2>2 DEF BInv
  <2>5. NoOpenerInv'
    BY <1>1, <2>1, <2>2 DEF NoOpenerInv
  <2> QED BY <2>3, <2>4, <2>5
<1>3. CASE ~Window!NoByte
  <2> DEFINE c == Window!NextByte
  <2>1. /\ Window!Feed(c)
        /\ (TakesUart /\ c = Head(uart)) \/ (TakesUsb /\ c = Head(usb))
    BY <1>3 DEF Window!Poll, Window!NoByte, Window!TakeByte, Window!NextByte, TakesUart, TakesUsb
  <2>2. at' = CASE Window!Completes(c) \/ c = "B" -> "entered"
                [] c = "ESC" -> "escape"
                [] c = "CR"  -> "cancelled"
                [] OTHER     -> "tick"
    BY <1>3 DEF Window!Poll
  <2> HIDE DEF c
  <2>3. /\ match' \in 0 .. 4
        /\ Window!AllPressed \subseteq {"B"} =>
             c = "B" /\ match' = 0 /\ ~Window!Completes(c)
        /\ Window!AllPressed \cap Openers = {} =>
             /\ c # "B" /\ ~Window!Completes(c) /\ Follows(match', Line', usb')
             /\ c = "ESC" => match' = 1
    BY <2>1, FeedKeeps
  <2>4. /\ uart' \in Seq(Chars) /\ usb' \in Seq(Chars) /\ wire' \in Seq(Chars)
        /\ Window!AllPressed' = Window!AllPressed
        /\ Window!AllPressed \subseteq {"B"} => OnlyB(uart') /\ OnlyB(usb') /\ OnlyB(wire')
        /\ Window!AllPressed \cap Openers = {} => Apart(Line') /\ Apart(usb')
    BY <2>1, TakeKeeps
  <2>5. at' \in {"entered", "escape", "cancelled", "tick"}
    BY <2>2
  <2>6. WindowTypeOK'
    BY <1>1, <2>3, <2>4, <2>5 DEF WindowTypeOK
  <2>7. BInv'
    BY <1>1, <2>2, <2>3, <2>4 DEF BInv
  <2>8. Window!AllPressed \cap Openers = {} => at' # "entered" /\ (at' = "escape" => c = "ESC")
    BY <2>2, <2>3
  <2>9. NoOpenerInv'
    BY <1>1, <2>3, <2>4, <2>5, <2>8 DEF NoOpenerInv
  <2> QED BY <2>6, <2>7, <2>9
<1> QED BY <1>2, <1>3

\* The bytes after an ESC do not go to the matcher: it waits for the second one.
LEMMA EscapeKeeps ==
  ASSUME WindowInv, Window!PollEscape \/ Window!PollBracket
  PROVE  WindowInv'
<1> USE DEF WindowInv
<1>1. /\ at \in {"escape", "bracket"} /\ UNCHANGED <<match, enter, pressed, wire>>
      /\ at' \in {"bracket", "cancelled", "tick"}
  BY DEF Window!PollEscape, Window!PollBracket
<1>2. /\ match \in 0 .. 4 /\ enter \in BOOLEAN
      /\ uart \in Seq(Chars) /\ usb \in Seq(Chars) /\ wire \in Seq(Chars)
  BY DEF WindowTypeOK
<1>3. ~(Window!AllPressed \subseteq {"B"})
  BY <1>1 DEF BInv
<1>4. Window!AllPressed \cap Openers = {} => match = 1 /\ enter = FALSE
  BY <1>1 DEF NoOpenerInv
<1>5. /\ uart' \in Seq(Chars) /\ usb' \in Seq(Chars) /\ wire' \in Seq(Chars)
      /\ Window!AllPressed' = Window!AllPressed
      /\ Window!AllPressed \cap Openers = {} => Apart(Line') /\ Apart(usb')
  <2>1. CASE Window!NoByte
    <3>1. UNCHANGED <<uart, usb>>
      BY <1>1, <2>1 DEF Window!PollEscape, Window!PollBracket
    <3> QED BY <1>1, <1>2, <3>1
            DEF Line, NoOpenerInv, Window!AllPressed, Window!Pressed
  <2>2. CASE ~Window!NoByte
    <3>1. TakesUart \/ TakesUsb
      BY <1>1, <2>2 DEF Window!PollEscape, Window!PollBracket, Window!NoByte, Window!TakeByte,
                        TakesUart, TakesUsb
    <3> QED BY <3>1, TakeKeeps
  <2> QED BY <2>1, <2>2
<1>6. WindowTypeOK'
  BY <1>1, <1>2, <1>5 DEF WindowTypeOK
<1>7. BInv'
  BY <1>3, <1>5 DEF BInv
<1>8. NoOpenerInv'
  BY <1>1, <1>4, <1>5 DEF NoOpenerInv, Follows
<1> QED BY <1>6, <1>7, <1>8

LEMMA TickKeeps ==
  ASSUME WindowInv, Window!Tick
  PROVE  WindowInv'
<1> USE DEF WindowInv
<1>1. /\ at = "tick" /\ at' \in {"uart", "expired"}
      /\ UNCHANGED <<uart, usb, wire, match, enter, pressed>>
  BY DEF Window!Tick
<1>2. Window!AllPressed' = Window!AllPressed /\ Line' = Line
  BY <1>1 DEF Window!AllPressed, Window!Pressed, Line
<1>3. WindowTypeOK'
  BY <1>1 DEF WindowTypeOK
<1>4. BInv'
  BY <1>1, <1>2 DEF BInv
<1>5. NoOpenerInv'
  BY <1>1, <1>2 DEF NoOpenerInv
<1> QED BY <1>3, <1>4, <1>5

LEMMA WindowInvInit == Window!Init => WindowInv
<1> SUFFICES ASSUME Window!Init PROVE WindowInv
  OBVIOUS
<1>1. /\ at = "uart" /\ uart = <<>> /\ usb = <<>> /\ wire = <<>>
      /\ match = 0 /\ enter = FALSE /\ pressed = [p \in Window!Ports |-> <<>>]
  BY DEF Window!Init
<1>2. <<>> \in Seq(Chars) /\ <<>> \in Seq(KeyNames) /\ Len(<<>>) = 0 /\ <<>> \o <<>> = <<>>
  OBVIOUS
<1>3. WindowTypeOK
  <2>1. pressed \in [Window!Ports -> Seq(KeyNames)]
    BY <1>1, <1>2
  <2>2. uart \in Seq(Chars) /\ usb \in Seq(Chars) /\ wire \in Seq(Chars)
    BY <1>1, <1>2
  <2>3. match = 0 /\ 0 \in 0 .. 4
    BY <1>1
  <2>4. enter \in BOOLEAN
    BY <1>1
  <2> QED BY <1>1, <2>1, <2>2, <2>3, <2>4 DEF WindowTypeOK
<1>4. Line = <<>> /\ pressed["usb"] = <<>> /\ pressed["uart"] = <<>>
  BY <1>1, <1>2 DEF Line, Window!Ports
<1>5. BInv
  BY <1>1, <1>2, <1>4 DEF BInv, OnlyB
<1>6. NoOpenerInv
  BY <1>1, <1>2, <1>4 DEF NoOpenerInv, Apart, Follows
<1> QED BY <1>3, <1>5, <1>6 DEF WindowInv

\* The invariant of the first window, which is all there is to it.
EntryInv == counting => phase = "window" /\ WindowInv

LEMMA EntryInvStep == EntryInv /\ [EntryNext]_all => EntryInv'
<1> SUFFICES ASSUME EntryInv, [EntryNext]_all PROVE EntryInv'
  OBVIOUS
<1>1. CASE counting /\ Window!Next /\ UNCHANGED <<phase, counting>>
  <2>1. WindowInv
    BY <1>1 DEF EntryInv
  <2>2. WindowInv'
    BY <1>1, <2>1, PressKeeps, TransmitKeeps, DrainKeeps, PollKeeps, EscapeKeeps, TickKeeps
       DEF Window!Next, Window!Reads
  <2> QED BY <1>1, <2>2 DEF EntryInv
<1>2. CASE counting' = FALSE
  BY <1>2 DEF EntryInv
<1>3. CASE UNCHANGED <<windowVars, counting>> /\ (~counting \/ UNCHANGED phase)
  BY <1>3 DEF EntryInv, WindowInv, WindowTypeOK, BInv, NoOpenerInv, Line, windowVars,
              Window!AllPressed, Window!Pressed
<1> QED BY <1>1, <1>2, <1>3 DEF EntryNext, BootCheck, Forget, all, vars

\* However many Bs are pressed, on whichever keyboard, none that was read is lost
\* and none turns the user away (kh_bios_hotkey.c:214-237, 346-347).
THEOREM BOpensTheMenu == EntrySpec => []BEnters
<1>1. EntryInit => EntryInv
  BY WindowInvInit DEF EntryInit, EntryInv, Init
<1>2. EntryInv => BEnters
  BY DEF EntryInv, WindowInv, BInv, BEnters, Window!BEnters
<1> QED BY <1>1, <1>2, EntryInvStep, PTL DEF EntrySpec

\* However many keys are pressed on the two ports, those that do not open the menu
\* never add up to one that does, although the readers share f10_match and take some
\* bytes past it (kh_bios.c:40, kh_bios_hotkey.c:142-154).
THEOREM OthersNeverOpenIt == EntrySpec => NoFalseHotkey
<1>1. EntryInit => EntryInv
  BY WindowInvInit DEF EntryInit, EntryInv, Init
<1>2. ASSUME EntryInv, [EntryNext]_all
      PROVE  [phase' = "menu" /\ counting
                => Window!AllPressed \cap {"F10", "B", "Down"} # {}]_all
  <2> SUFFICES ASSUME phase' = "menu", counting, EntryNext,
                      Window!AllPressed \cap Openers = {}
               PROVE  all' = all
    BY <1>2 DEF Openers
  <2>1. at # "entered"
    BY <1>2 DEF EntryInv, WindowInv, NoOpenerInv
  <2>2. CASE Window!Next /\ UNCHANGED <<vars, counting>>
    BY <1>2, <2>2 DEF EntryInv, vars
  <2>3. CASE BootCheck
    BY <2>1, <2>3 DEF BootCheck, WindowEnds
  <2> QED BY <2>2, <2>3 DEF EntryNext
<1> QED BY <1>1, <1>2, EntryInvStep, PTL DEF EntrySpec, NoFalseHotkey
=============================================================================
