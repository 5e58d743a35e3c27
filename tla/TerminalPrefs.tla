---------------------------- MODULE TerminalPrefs ----------------------------
(***************************************************************************)
(* The preferences of the terminal page (rawfile/terminal-app.js): the      *)
(* object window.__wtPrefs, the form of the settings tab that edits it, and *)
(* the two stores it is saved to, the localStorage of the page and, through *)
(* the ArkTS side (pages/Index.ets), the preferences of the app.            *)
(*                                                                          *)
(* Of the 60 preferences those are kept whose handling differs: one chosen  *)
(* from a list (the position of new tabs), the pair copyFormat/copyAsHtml,  *)
(* a number with bounds (the font size), a text with a default (the font)   *)
(* and the list of the new-tab menu.                                        *)
(***************************************************************************)
EXTENDS Integers, SequencesExt

CONSTANTS
  MinFont, MaxFont, DefaultFont,  \* 8, 36 and 22
  Entries,   \* the kinds of menu entry in use besides "remaining"
  MaxItems,  \* bound on the entries added to the menu's list
  None,      \* an empty store; no settings tab
  Legacy,    \* what other versions of the page may have left in a store
  Texts      \* the texts in a store, the ones the page knows and others

ASSUME FontAssumption ==
  /\ {MinFont, MaxFont, DefaultFont} \subseteq Int
  /\ MinFont <= DefaultFont /\ DefaultFont <= MaxFont
ASSUME MenuAssumption == MaxItems \in Nat \ {0} /\ "remaining" \notin Entries

TabPositions == {"first", "after_current", "last"}
Formats   == {"plain", "html"}
Families  == {"", "Cascadia Mono", "other"}
MenuKinds == Entries \union {"remaining"}

\* What any version of the page stores; the texts need not be ones this one knows.
Raws == [pos : Texts, copyFormat : Texts, copyAsHtml : BOOLEAN,
         size : Int, family : Texts, menu : Seq(Texts)]
ASSUME StoreAssumption ==
  /\ Legacy \subseteq Raws /\ None \notin Raws
  /\ TabPositions \union Formats \union Families \union MenuKinds \subseteq Texts

VARIABLES
  prefs,     \* window.__wtPrefs
  snapshot,  \* prefsSnapshot of the settings tab, None without one
  local,     \* localStorage's kh_terminal_prefs
  dom,       \* the page has a localStorage (Web() does not ask for one)
  native,    \* terminal_web_prefs_v1 as the app's store has it in memory
  disk,      \* the same in the store's file
  reach,     \* prefStore is not null
  saved      \* history: the preferences at the last save

storeVars == <<local, dom, native, disk, reach, saved>>
prefsVars == <<prefs, snapshot, storeVars>>

-----------------------------------------------------------------------------
(* Normalisation. *)

ClampFontSize(n) ==
  IF n < MinFont THEN MinFont ELSE IF n > MaxFont THEN MaxFont ELSE n

ComposeFontFamily(f) == IF f = "" THEN "Cascadia Mono" ELSE f

\* The loop over the entries: unknown ones are dropped, and so is a second `remaining',
\* which is added at the end when there is none.
NormalizeNewTabMenuItems(raw) ==
  LET out[i \in 0 .. Len(raw)] ==
        IF i = 0 THEN <<>>
        ELSE IF raw[i] \in Entries \/ (raw[i] = "remaining" /\ ~Contains(out[i - 1], "remaining"))
          THEN Append(out[i - 1], raw[i]) ELSE out[i - 1]
  IN IF Contains(out[Len(raw)], "remaining") THEN out[Len(raw)]
                                             ELSE Append(out[Len(raw)], "remaining")

Factory ==
  [pos |-> "last", copyFormat |-> "plain", copyAsHtml |-> FALSE,
   size |-> DefaultFont, family |-> "Cascadia Mono",
   menu |-> NormalizeNewTabMenuItems(<<>>)]

\* copyAsHtml of an older version counts only without a copyFormat.
NormalizePrefs(o) ==
  IF o = None THEN Factory
  ELSE LET format == CASE o.copyFormat \in Formats -> o.copyFormat
                       [] o.copyFormat \notin Formats /\ o.copyAsHtml -> "html"
                       [] OTHER -> Factory.copyFormat
       IN [pos        |-> IF o.pos \in {"first", "after_current"} THEN o.pos ELSE "last",
           copyFormat |-> format,
           copyAsHtml |-> format = "html",
           size       |-> ClampFontSize(o.size),
           family     |-> ComposeFontFamily(o.family),
           menu       |-> NormalizeNewTabMenuItems(o.menu)]

-----------------------------------------------------------------------------
(* The stores. *)

\* Of the app's store and the page's the first that is not empty.
Raw(n, l, r) == IF r /\ n # None THEN n ELSE l

LoadPrefs ==
  LET raw == Raw(native, local, reach') IN
  prefs' = IF raw = None THEN prefs ELSE NormalizePrefs(raw)

PrefsInit ==
  /\ dom \in BOOLEAN
  /\ local \in {None} \union (IF dom THEN Legacy ELSE {}) /\ disk \in {None} \union Legacy
  /\ native = disk /\ reach \in BOOLEAN
  /\ prefs = NormalizePrefs(Raw(native, local, reach))
  /\ snapshot = None /\ saved = None

\* A new process reads the store's file, if it can open it, and the page runs
\* __wtLoadPrefs over the defaults.
Relaunched ==
  /\ native' = disk /\ reach' \in BOOLEAN
  /\ prefs' = NormalizePrefs(Raw(disk, local, reach'))
  /\ snapshot' = None
  /\ UNCHANGED <<local, dom, disk, saved>>

\* onPageEnd tries once more to open the store, and hands its contents over.
PageEnd ==
  /\ reach' \in BOOLEAN /\ (reach => reach')
  /\ LoadPrefs
  /\ UNCHANGED <<snapshot, local, dom, native, disk, saved>>

SaveNativeOnly(p) ==  \* mutant: the page's own store is forgotten
  /\ local' = local
  /\ native' \in {native} \union (IF reach THEN {p} ELSE {})
  /\ saved' = p
  /\ UNCHANGED <<dom, disk, reach>>

\* Both stores, each on its own: the page may have none, the app's may be
\* closed, or putSync fail.
SavePrefs(p) ==
  /\ local' = IF dom THEN p ELSE local
  /\ native' \in {native} \union (IF reach THEN {p} ELSE {})
  /\ saved' = p
  /\ UNCHANGED <<dom, disk, reach>>

\* The flush that putSync's caller starts ends later, or never.
Flushed ==
  /\ disk # native /\ disk' = native
  /\ UNCHANGED <<prefs, snapshot, local, dom, native, reach, saved>>

-----------------------------------------------------------------------------
(* The settings form: every control writes into prefs at once. *)

Sets(field, value) ==
  /\ prefs' = [prefs EXCEPT ![field] = value]
  /\ UNCHANGED <<snapshot, storeVars>>

SetNewTabPosition(v) == Sets("pos", v)

SetCopyFormatAlone(v) == Sets("copyFormat", v)  \* mutant: copyAsHtml is forgotten

SetCopyFormat(v) ==
  /\ prefs' = [prefs EXCEPT !.copyFormat = v, !.copyAsHtml = (v = "html")]
  /\ UNCHANGED <<snapshot, storeVars>>

SetFontFamily(v) == Sets("family", v)

\* The list of sizes and the number field.
SetFontSize(n) == Sets("size", ClampFontSize(n))

\* Ctrl and the wheel, over a shell.
WheelFontSize(d) == Sets("size", ClampFontSize(ClampFontSize(prefs.size) + d))

Swapped(seq, i, j) == [seq EXCEPT ![i] = seq[j], ![j] = seq[i]]

MoveMenuItem(i) ==
  LET list == NormalizeNewTabMenuItems(prefs.menu) IN
  /\ i \in 1 .. Len(list) - 1
  /\ Sets("menu", Swapped(list, i, i + 1))

DeleteAnyMenuItem(i) ==  \* mutant: `remaining' can be deleted, and stays away
  LET list == NormalizeNewTabMenuItems(prefs.menu) IN
  /\ i \in DOMAIN list
  /\ Sets("menu", RemoveAt(list, i))

DeleteMenuItem(i) ==
  LET list == NormalizeNewTabMenuItems(prefs.menu) IN
  /\ i \in DOMAIN list /\ list[i] # "remaining"
  /\ Sets("menu", NormalizeNewTabMenuItems(RemoveAt(list, i)))

\* A new entry goes before `remaining'.
AddMenuItem(e) ==
  LET list == NormalizeNewTabMenuItems(prefs.menu) IN
  /\ Len(list) < MaxItems
  /\ Sets("menu", NormalizeNewTabMenuItems(
                    InsertAt(list, SelectInSeq(list, LAMBDA x : x = "remaining"), e)))

EditMenu ==
  \/ \E i \in 1 .. MaxItems : MoveMenuItem(i) \/ DeleteMenuItem(i)
  \/ \E e \in Entries : AddMenuItem(e)

Save ==
  /\ SavePrefs(prefs)
  /\ snapshot' = NormalizePrefs(prefs)
  /\ UNCHANGED prefs

Discard ==
  /\ prefs' = NormalizePrefs(snapshot)
  /\ UNCHANGED <<snapshot, storeVars>>

ResetToFactory ==
  /\ prefs' = NormalizePrefs(None)
  /\ SavePrefs(prefs')
  /\ snapshot' = NormalizePrefs(prefs')

\* The form of a settings tab that opens remembers what it found.
OpenForm == snapshot' = NormalizePrefs(prefs) /\ UNCHANGED <<prefs, storeVars>>

CloseForm == snapshot' = None /\ UNCHANGED <<prefs, storeVars>>

-----------------------------------------------------------------------------
(* Properties. *)

\* What is seen of preferences: an empty font is shown as the default one.
Shown(p) == [p EXCEPT !.family = ComposeFontFamily(@)]

\* Every control leaves preferences that mean the same once they were saved
\* and read back: copyAsHtml agrees with copyFormat, the menu has `remaining'
\* once, numbers are inside their bounds (terminal-app.js:1124-1268 reads what
\* 3121-3690 writes).
ReadBackAlike == NormalizePrefs(prefs) = Shown(prefs)

\* The next launch shows what was saved last, whichever stores there are,
\* except where the app's store is reached and its file, which wins over the
\* page's store, has missed that save (1652-1668, 1674-1685; Index.ets:51-66).
SavedComesBack ==
  saved # None => \A r \in BOOLEAN :
    \/ Shown(saved) = NormalizePrefs(Raw(disk, local, r))
    \/ r /\ disk \notin {None, saved}
    \/ ~dom /\ (r => disk = None)
=============================================================================
