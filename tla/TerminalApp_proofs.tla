-------------------------- MODULE TerminalApp_proofs --------------------------
(***************************************************************************)
(* What holds of the terminal page for any number of tabs, sessions and     *)
(* chunks: the tabs (TerminalTabs), their look (TerminalApp) and their      *)
(* layout (TerminalGeometry).                                               *)
(***************************************************************************)
EXTENDS TerminalGeometry, FiniteSetTheorems, FunctionTheorems, SequenceTheorems,
        WellFoundedInduction, TLAPS

-----------------------------------------------------------------------------
(* Sequences: one element more, one element less, and where an element is. *)

Inserted(seq, p, e) ==
  [i \in 1 .. Len(seq) + 1 |-> IF i < p THEN seq[i] ELSE IF i = p THEN e ELSE seq[i - 1]]

Removed(seq, p) == [i \in 1 .. Len(seq) - 1 |-> IF i < p THEN seq[i] ELSE seq[i + 1]]

\* insertShellTabInStrip inserts at the start, after some element or at the end.
LEMMA InsertIsInserted ==
  ASSUME NEW S, NEW seq \in Seq(S), NEW e \in S, NEW p \in 1 .. Len(seq) + 1
  PROVE  /\ InsertAt(seq, p, e) = Inserted(seq, p, e)
         /\ <<e>> \o seq = Inserted(seq, 1, e)
         /\ Append(seq, e) = Inserted(seq, Len(seq) + 1, e)
         /\ Inserted(seq, p, e) \in Seq(S) /\ Len(Inserted(seq, p, e)) = Len(seq) + 1
<1>1. /\ Len(seq) \in Nat /\ DOMAIN seq = 1 .. Len(seq)
      /\ \A i \in 1 .. Len(seq) : seq[i] \in S
  OBVIOUS
<1>2. InsertAt(seq, p, e) = Inserted(seq, p, e) /\ InsertAt(seq, p, e) \in Seq(S)
  <2> DEFINE a == SubSeq(seq, 1, p - 1)  b == SubSeq(seq, p, Len(seq))
  <2>1. /\ a \in Seq(S) /\ Len(a) = p - 1 /\ \A i \in 1 .. p - 1 : a[i] = seq[i]
        /\ b \in Seq(S) /\ Len(b) = Len(seq) + 1 - p
        /\ \A i \in 1 .. Len(seq) + 1 - p : b[i] = seq[p + i - 1]
    BY <1>1, SubSeqProperties
  <2>2. InsertAt(seq, p, e) = a \o <<e>> \o b BY DEF InsertAt
  <2> HIDE DEF a, b
  <2>3. /\ a \o <<e>> \in Seq(S) /\ Len(a \o <<e>>) = p
        /\ \A i \in 1 .. p : (a \o <<e>>)[i] = IF i < p THEN seq[i] ELSE e
    <3>1. <<e>> \in Seq(S) /\ Len(<<e>>) = 1 /\ <<e>>[1] = e OBVIOUS
    <3> QED BY <1>1, <2>1, <3>1, ConcatProperties
  <2> DEFINE c == a \o <<e>>  d == c \o b
  <2> HIDE DEF c
  <2>4. /\ d \in Seq(S) /\ Len(d) = Len(c) + Len(b)
        /\ \A i \in 1 .. Len(c) + Len(b) : d[i] = IF i <= Len(c) THEN c[i] ELSE b[i - Len(c)]
    BY <2>1, <2>3, ConcatProperties DEF c
  <2> HIDE DEF d
  <2>5. d \in Seq(S) /\ Len(d) = Len(seq) + 1
    <3>1. Len(c) = p /\ Len(b) = Len(seq) + 1 - p /\ p \in Int /\ Len(seq) \in Int
      BY <1>1, <2>1, <2>3 DEF c
    <3> QED BY <2>4, <3>1
  <2>6. ASSUME NEW i \in 1 .. Len(seq) + 1
        PROVE  d[i] = IF i < p THEN seq[i] ELSE IF i = p THEN e ELSE seq[i - 1]
    <3>1. i \in Int /\ p \in Int /\ Len(c) = p /\ i \in 1 .. Len(c) + Len(b)
      BY <1>1, <2>1, <2>3 DEF c
    <3>2. CASE i <= p BY <2>3, <2>4, <3>1, <3>2 DEF c
    <3>3. CASE ~(i <= p)
      <4>1. d[i] = b[i - p] BY <2>4, <3>1, <3>3
      <4>2. i - p \in 1 .. Len(seq) + 1 - p /\ p + (i - p) - 1 = i - 1 BY <1>1, <3>1, <3>3
      <4> QED BY <2>1, <3>1, <3>3, <4>1, <4>2
    <3> QED BY <3>2, <3>3
  <2>7. d = [i \in 1 .. Len(seq) + 1 |-> d[i]] BY <2>5
  <2> QED BY <2>2, <2>5, <2>6, <2>7 DEF Inserted, c, d
<1>3. <<e>> \o seq = Inserted(seq, 1, e) BY <1>1 DEF Inserted
<1>4. Append(seq, e) = Inserted(seq, Len(seq) + 1, e)
  <2> DEFINE a == Append(seq, e)
  <2>1. /\ a \in Seq(S) /\ Len(a) = Len(seq) + 1 /\ a[Len(seq) + 1] = e
        /\ \A i \in 1 .. Len(seq) : a[i] = seq[i]
    BY AppendProperties
  <2> HIDE DEF a
  <2>2. a = [i \in 1 .. Len(seq) + 1 |-> a[i]] BY <2>1
  <2>3. \A i \in 1 .. Len(seq) + 1 : a[i] = Inserted(seq, Len(seq) + 1, e)[i]
    BY <1>1, <2>1 DEF Inserted
  <2> QED BY <2>2, <2>3 DEF Inserted, a
<1>5. Len(Inserted(seq, p, e)) = Len(seq) + 1 BY <1>1 DEF Inserted
<1> QED BY <1>2, <1>3, <1>4, <1>5

\* tabs.splice(idx, 1), and the removal of an element from the strip.
LEMMA RemoveIsRemoved ==
  ASSUME NEW S, NEW seq \in Seq(S), NEW p \in 1 .. Len(seq)
  PROVE  /\ RemoveAt(seq, p) = Removed(seq, p)
         /\ Removed(seq, p) \in Seq(S) /\ Len(Removed(seq, p)) = Len(seq) - 1
<1>1. /\ Len(seq) \in Nat /\ DOMAIN seq = 1 .. Len(seq)
      /\ \A i \in 1 .. Len(seq) : seq[i] \in S
  OBVIOUS
<1> DEFINE a == SubSeq(seq, 1, p - 1)  b == SubSeq(seq, p + 1, Len(seq))
<1>2. /\ a \in Seq(S) /\ Len(a) = p - 1 /\ \A i \in 1 .. p - 1 : a[i] = seq[i]
      /\ b \in Seq(S) /\ Len(b) = Len(seq) - p
      /\ \A i \in 1 .. Len(seq) - p : b[i] = seq[p + i]
  <2>1. \A i \in 1 .. p - 1 : seq[i] \in S BY <1>1
  <2>2. \A i \in p + 1 .. Len(seq) : seq[i] \in S BY <1>1
  <2>3. p \in Int /\ p - 1 \in Int /\ p + 1 \in Int /\ Len(seq) \in Int BY <1>1
  <2>4. /\ a \in Seq(S) /\ Len(a) = p - 1 /\ \A i \in 1 .. p - 1 : a[i] = seq[i]
    BY <1>1, <2>1, <2>3, SubSeqProperties
  <2>5. /\ b \in Seq(S) /\ Len(b) = IF p + 1 <= Len(seq) THEN Len(seq) - (p + 1) + 1 ELSE 0
        /\ \A i \in 1 .. Len(seq) - (p + 1) + 1 : b[i] = seq[p + 1 + i - 1]
    BY <2>2, <2>3, SubSeqProperties
  <2> HIDE DEF b
  <2>6. Len(b) = Len(seq) - p
    <3>1. p <= Len(seq) BY <1>1
    <3> QED BY <2>3, <2>5, <3>1
  <2>7. ASSUME NEW i \in 1 .. Len(seq) - p PROVE b[i] = seq[p + i]
    <3>1. i \in 1 .. Len(seq) - (p + 1) + 1 /\ p + 1 + i - 1 = p + i BY <1>1, <2>3
    <3> QED BY <2>5, <3>1
  <2> QED BY <2>4, <2>5, <2>6, <2>7
<1>3. RemoveAt(seq, p) = a \o b BY DEF RemoveAt
<1> HIDE DEF a, b
<1> DEFINE c == a \o b
<1>4. /\ c \in Seq(S) /\ Len(c) = Len(a) + Len(b)
      /\ \A i \in 1 .. Len(a) + Len(b) : c[i] = IF i <= Len(a) THEN a[i] ELSE b[i - Len(a)]
  BY <1>2, ConcatProperties
<1> HIDE DEF c
<1>5. Len(c) = Len(seq) - 1 BY <1>1, <1>2, <1>4
<1>6. ASSUME NEW i \in 1 .. Len(seq) - 1
      PROVE  c[i] = IF i < p THEN seq[i] ELSE seq[i + 1]
  <2>1. i \in Int /\ p \in Int /\ Len(a) = p - 1 /\ i \in 1 .. Len(a) + Len(b)
    BY <1>1, <1>2
  <2>2. CASE i < p BY <1>2, <1>4, <2>1, <2>2
  <2>3. CASE ~(i < p)
    <3>1. c[i] = b[i - (p - 1)] BY <1>4, <2>1, <2>3
    <3>2. i - (p - 1) \in 1 .. Len(seq) - p /\ p + (i - (p - 1)) = i + 1 BY <1>1, <2>1, <2>3
    <3> QED BY <1>2, <2>1, <2>3, <3>1, <3>2
  <2> QED BY <2>2, <2>3
<1>7. c = [i \in 1 .. Len(seq) - 1 |-> c[i]]
  <2>1. c \in Seq(S) BY <1>4
  <2> QED BY <1>5, <2>1
<1> QED BY <1>3, <1>4, <1>5, <1>6, <1>7 DEF Removed, c

\* A loop over an array that stops at the first match finds the least index.
LEMMA LeastIsFirst ==
  ASSUME NEW S, S \subseteq Nat, S # {}
  PROVE  Min(S) \in S /\ \A m \in S : Min(S) <= m
<1>1. PICK n \in S : \A m \in S : ~(<<m, n>> \in OpToRel(<, Nat))
  BY WFMin, NatLessThanWellFounded, Zenon
<1>2. \A m \in S : ~(m < n) BY <1>1, Zenon DEF OpToRel
<1>3. \A m \in S : n <= m BY <1>2
<1> QED BY <1>3 DEF Min

LEMMA IndexIsFirst ==
  ASSUME NEW S, NEW seq \in Seq(S), NEW key
  PROVE  \/ Index(seq, key) = 0 /\ \A i \in 1 .. Len(seq) : seq[i].key # key
         \/ Index(seq, key) \in 1 .. Len(seq) /\ seq[Index(seq, key)].key = key
<1> DEFINE I == {i \in 1 .. Len(seq) : seq[i].key = key}
<1>1. Index(seq, key) = IF I # {} THEN Min(I) ELSE 0
  BY DEF Index, SelectInSeq
<1>2. I \subseteq Nat OBVIOUS
<1> HIDE DEF I
<1>3. I # {} => Min(I) \in I BY <1>2, LeastIsFirst
<1> USE DEF I
<1> QED BY <1>1, <1>3
-----------------------------------------------------------------------------
(* TerminalTabs. *)

Chunk == [sid : Ids, n : Nat]  \* what is posted to the page

Tab == [key : Keys, kind : {"shell", "settings"}, sid : Ids \cup {NoSession}]

\* Of the types what the arguments below need.
TabsTypeOK ==
  /\ nextId \in Nat \ {0} /\ live \subseteq Ids
  /\ made \in [Ids -> Nat] /\ heard \in [Ids -> Nat]
  /\ tabs \in Seq(Tab) /\ nextKey \in Nat \ {0}
  /\ outbox \in Seq(Chunk)
  /\ screen \in [Keys -> [sid : Nat, n : Nat]]

\* Keys are given once, and one of them is in front as soon as there is a tab.
KeysAreFresh ==
  /\ \A i \in DOMAIN tabs : tabs[i].key < nextKey
  /\ \A i, j \in DOMAIN tabs : tabs[i].key = tabs[j].key => i = j
  /\ tabs = <<>> => nextKey = 1
  /\ tabs # <<>> => active \in TabKeys

\* One settings tab, which has no session.
OneSettingsTab ==
  /\ \A i \in SettingsTabs : tabs[i].sid = NoSession
  /\ \A i, j \in SettingsTabs : i = j

SessionsOfTabs ==
  /\ \A i \in DOMAIN tabs : tabs[i].sid < nextId
  /\ \A i, j \in DOMAIN tabs :
       tabs[i].sid = tabs[j].sid /\ tabs[i].sid # NoSession => i = j
  /\ page = "up" => live = {tabs[i].sid : i \in DOMAIN tabs} \ {NoSession}

\* What is in the outbox was heard, and comes after what is on the screen.
OutputInOrder ==
  /\ \A x \in DOMAIN outbox :
       /\ outbox[x].sid < nextId
       /\ outbox[x].n > 0 /\ outbox[x].n <= heard[outbox[x].sid]
       /\ \A y \in DOMAIN outbox :
            x < y /\ outbox[x].sid = outbox[y].sid => outbox[x].n < outbox[y].n
  /\ \A i \in DOMAIN tabs :
       /\ tabs[i].sid # NoSession => screen[tabs[i].key].n <= heard[tabs[i].sid]
       /\ \A x \in DOMAIN outbox :
            tabs[i].sid = outbox[x].sid => screen[tabs[i].key].n < outbox[x].n
  /\ \A k \in Keys : k >= nextKey => screen[k] = Blank

TabsInv ==
  /\ TabsTypeOK /\ KeysAreFresh /\ OneSettingsTab /\ SessionsOfTabs /\ OutputInOrder
  /\ StripMatchesTabs

LEMMA TabsInvInit == Init => TabsInv
<1> SUFFICES ASSUME Init PROVE TabsInv
  OBVIOUS
<1> USE DEF Init, ServiceInit
<1>t. TabsTypeOK
  <2>1. <<>> \in Seq(Tab) /\ <<>> \in Seq(Chunk) OBVIOUS
  <2> QED BY <2>1 DEF TabsTypeOK, Blank, NoSession
<1>1. DOMAIN tabs = {} /\ DOMAIN outbox = {} OBVIOUS
<1>a. KeysAreFresh BY <1>1 DEF KeysAreFresh
<1>b. OneSettingsTab BY <1>1 DEF OneSettingsTab, SettingsTabs
<1>c. SessionsOfTabs BY <1>1 DEF SessionsOfTabs
<1>d. OutputInOrder BY <1>1 DEF OutputInOrder
<1>e. StripMatchesTabs
  <2>1. [i \in DOMAIN tabs |-> tabs[i].key] = <<>> BY <1>1
  <2> QED BY <2>1 DEF StripMatchesTabs
<1> QED BY <1>t, <1>a, <1>b, <1>c, <1>d, <1>e DEF TabsInv

\* A new tab, wherever it goes.
LEMMA InsertKeeps ==
  ASSUME TabsInv, nextKey \in Keys, page = "up",
         NEW tab \in Tab, tab.key = nextKey, NEW p \in 1 .. Len(tabs) + 1,
         tabs' = Inserted(tabs, p, tab), strip' = Inserted(strip, p, tab.key),
         tab.kind = "settings" => tab.sid = NoSession /\ SettingsTabs = {},
         \/ tab.sid = nextId /\ nextId' = nextId + 1 /\ live' = live \cup {tab.sid}
         \/ tab.sid = NoSession /\ nextId' \in {nextId, nextId + 1} /\ live' = live,
         active' = nextKey, nextKey' = nextKey + 1,
         UNCHANGED <<made, heard, outbox, screen, page>>
  PROVE  TabsInv'
<1> USE DEF TabsInv
<1> DEFINE Back(i) == IF i < p THEN i ELSE i - 1
<1>1. /\ Len(tabs) \in Nat /\ DOMAIN tabs = 1 .. Len(tabs)
      /\ tabs' \in Seq(Tab) /\ Len(tabs') = Len(tabs) + 1 /\ DOMAIN tabs' = 1 .. Len(tabs) + 1
  <2>1. tabs \in Seq(Tab) BY DEF TabsTypeOK
  <2>2. tabs' \in Seq(Tab) /\ Len(tabs') = Len(tabs) + 1 BY <2>1, InsertIsInserted
  <2> QED BY <2>1, <2>2
<1>2. /\ tabs'[p] = tab /\ p \in DOMAIN tabs'
      /\ \A i \in DOMAIN tabs' \ {p} : Back(i) \in DOMAIN tabs /\ tabs'[i] = tabs[Back(i)]
      /\ \A i, j \in DOMAIN tabs' \ {p} : Back(i) = Back(j) => i = j
  BY <1>1 DEF Inserted
<1>3. \A j \in DOMAIN tabs : \E i \in DOMAIN tabs' \ {p} : Back(i) = j
  <2> SUFFICES ASSUME NEW j \in DOMAIN tabs PROVE \E i \in DOMAIN tabs' \ {p} : Back(i) = j
    OBVIOUS
  <2>1. CASE j < p BY <1>1, <2>1
  <2>2. CASE ~(j < p)
    <3>1. j + 1 \in DOMAIN tabs' \ {p} /\ Back(j + 1) = j BY <1>1, <2>2
    <3> QED BY <3>1
  <2> QED BY <2>1, <2>2
<1>4. StripMatchesTabs'
  <2>1. Len(strip) = Len(tabs) /\ \A i \in 1 .. Len(tabs) : strip[i] = tabs[i].key
    BY <1>1 DEF StripMatchesTabs
  <2> QED BY <1>1, <2>1 DEF StripMatchesTabs, Inserted
<1> HIDE DEF Back
<1>5. /\ nextId' \in Nat \ {0} /\ nextId <= nextId' /\ live' \subseteq Ids
      /\ nextId \in Nat /\ nextKey \in Nat
  <2>1. nextId \in Nat \ {0} /\ live \subseteq Ids /\ nextKey \in Nat BY DEF TabsTypeOK
  <2>2. tab.sid \in Ids \cup {NoSession} BY DEF Tab
  <2> QED BY <2>1, <2>2 DEF NoSession
<1>6. \A i \in DOMAIN tabs' : tabs'[i] \in Tab BY <1>1
<1>t. TabsTypeOK' BY <1>1, <1>5 DEF TabsTypeOK
<1>a. KeysAreFresh'
  <2>1. ASSUME NEW i \in DOMAIN tabs' PROVE tabs'[i].key < nextKey'
    <3>1. CASE i = p
      BY <1>2, <1>5, <3>1
    <3>2. CASE i # p
      <4>1. Back(i) \in DOMAIN tabs /\ tabs'[i] = tabs[Back(i)]
        BY <1>2, <3>2
      <4>2. tabs[Back(i)].key < nextKey
        BY <4>1 DEF KeysAreFresh
      <4>3. tabs'[i].key \in Nat
        BY <1>6 DEF Tab, Keys
      <4> QED BY <1>5, <4>1, <4>2, <4>3
    <3> QED BY <3>1, <3>2
  <2>2. \A i, j \in DOMAIN tabs' : tabs'[i].key = tabs'[j].key => i = j
    <3>1. \A i \in DOMAIN tabs' \ {p} : tabs'[i].key # nextKey
      BY <1>2, <1>5 DEF KeysAreFresh
    <3> QED BY <1>2, <3>1 DEF KeysAreFresh
  <2>3. active' \in TabKeys' BY <1>2 DEF TabKeys
  <2>4. tabs' # <<>> BY <1>2
  <2> QED BY <2>1, <2>2, <2>3, <2>4 DEF KeysAreFresh
<1>b. OneSettingsTab'
  <2>1. \A i \in SettingsTabs' : i # p => Back(i) \in SettingsTabs /\ tabs'[i] = tabs[Back(i)]
    BY <1>2 DEF SettingsTabs
  <2>2. p \in SettingsTabs' => tab.sid = NoSession /\ SettingsTabs' = {p}
    BY <1>2, <2>1 DEF SettingsTabs
  <2>3. SettingsTabs' \subseteq DOMAIN tabs' BY DEF SettingsTabs
  <2> QED BY <1>2, <2>1, <2>2, <2>3 DEF OneSettingsTab
<1>c. SessionsOfTabs'
  <2>1. \A i \in DOMAIN tabs' \ {p} : tabs'[i].sid < nextId
    BY <1>2 DEF SessionsOfTabs
  <2>2. tab.sid \in Nat /\ (tab.sid # NoSession => tab.sid = nextId) /\ tab.sid < nextId'
    BY <1>5 DEF NoSession
  <2>3. \A i \in DOMAIN tabs' : tabs'[i].sid < nextId'
    <3> SUFFICES ASSUME NEW i \in DOMAIN tabs' PROVE tabs'[i].sid < nextId'
      OBVIOUS
    <3>1. tabs'[i].sid \in Nat BY <1>6 DEF Tab, NoSession, Ids
    <3> QED BY <1>2, <1>5, <2>1, <2>2, <3>1
  <2>4. \A i, j \in DOMAIN tabs' :
          tabs'[i].sid = tabs'[j].sid /\ tabs'[i].sid # NoSession => i = j
    <3>1. \A i \in DOMAIN tabs' \ {p} : tab.sid # NoSession => tabs'[i].sid # tab.sid
      BY <1>5, <2>1, <2>2
    <3> QED BY <1>2, <3>1 DEF SessionsOfTabs
  <2>5. {tabs'[i].sid : i \in DOMAIN tabs'} = {tabs[i].sid : i \in DOMAIN tabs} \cup {tab.sid}
    BY <1>2, <1>3
  <2>6. tab.sid = nextId => nextId # NoSession BY DEF TabsTypeOK, NoSession
  <2> QED BY <2>3, <2>4, <2>5, <2>6 DEF SessionsOfTabs
<1>d. OutputInOrder'
  <2>1. \A x \in DOMAIN outbox : outbox[x].sid < nextId /\ outbox[x].sid \in Ids
    <3>1. \A x \in DOMAIN outbox : outbox[x] \in Chunk BY DEF TabsTypeOK
    <3> QED BY <3>1 DEF OutputInOrder, Chunk
  <2>2. \A x \in DOMAIN outbox : outbox[x].sid < nextId' /\ tab.sid # outbox[x].sid
    BY <1>5, <2>1 DEF NoSession, Ids
  <2>3. screen[nextKey] = Blank BY <1>5 DEF OutputInOrder
  <2>4. tab.sid # NoSession => screen[nextKey].n <= heard[tab.sid]
    BY <2>3 DEF Blank, TabsTypeOK, Tab
  <2>5. \A i \in DOMAIN tabs' :
          /\ tabs'[i].sid # NoSession => screen[tabs'[i].key].n <= heard[tabs'[i].sid]
          /\ \A x \in DOMAIN outbox :
               tabs'[i].sid = outbox[x].sid => screen[tabs'[i].key].n < outbox[x].n
    BY <1>2, <2>2, <2>4 DEF OutputInOrder
  <2>6. \A k \in Keys : k >= nextKey' => screen[k] = Blank
    BY <1>5 DEF OutputInOrder, Keys
  <2> QED BY <2>2, <2>5, <2>6 DEF OutputInOrder
<1> QED BY <1>t, <1>a, <1>b, <1>c, <1>d, <1>4
\* createTab and createSettingsTab put one tab into the array and its element into the strip.
LEMMA InsertShellTabInserts ==
  ASSUME TabsInv, NEW tab \in Tab, NEW position \in Positions, InsertShellTab(tab, position)
  PROVE  \E p \in 1 .. Len(tabs) + 1 :
           tabs' = Inserted(tabs, p, tab) /\ strip' = Inserted(strip, p, tab.key)
<1>1. /\ tabs \in Seq(Tab) /\ Len(tabs) \in Nat /\ DOMAIN tabs = 1 .. Len(tabs)
      /\ \A i \in DOMAIN tabs : tabs[i] \in Tab
  BY DEF TabsInv, TabsTypeOK
<1>2. /\ strip \in Seq(Keys) /\ Len(strip) = Len(tabs)
      /\ \A i \in DOMAIN tabs : strip[i] = tabs[i].key
  <2>1. \A i \in DOMAIN tabs : tabs[i].key \in Keys BY <1>1 DEF Tab
  <2> QED BY <1>1, <2>1 DEF TabsInv, StripMatchesTabs
<1>3. tab.key \in Keys BY DEF Tab
<1>4. CASE position = "first"
  <2>1. tabs' = <<tab>> \o tabs /\ strip' = <<tab.key>> \o strip BY <1>4 DEF InsertShellTab
  <2>2. 1 \in 1 .. Len(tabs) + 1 BY <1>1
  <2>3. <<tab>> \o tabs = Inserted(tabs, 1, tab) BY <1>1, <2>2, InsertIsInserted
  <2>4. <<tab.key>> \o strip = Inserted(strip, 1, tab.key)
    BY <1>2, <1>3, <2>2, InsertIsInserted
  <2> QED BY <2>1, <2>2, <2>3, <2>4
<1>5. CASE position = "last"
  <2>1. tabs' = Append(tabs, tab) /\ strip' = Append(strip, tab.key) BY <1>5 DEF InsertShellTab
  <2>2. Len(tabs) + 1 \in 1 .. Len(tabs) + 1 BY <1>1
  <2>3. Append(tabs, tab) = Inserted(tabs, Len(tabs) + 1, tab)
    BY <1>1, <2>2, InsertIsInserted
  <2>4. Append(strip, tab.key) = Inserted(strip, Len(tabs) + 1, tab.key)
    BY <1>2, <1>3, <2>2, InsertIsInserted
  <2> QED BY <2>1, <2>2, <2>3, <2>4
<1>6. CASE position = "after_current"
  <2> DEFINE a == Index(tabs, active)
             e == SelectInSeq(strip, LAMBDA k : k = active)
             p == IF a = 0 THEN Len(tabs) + 1 ELSE a + 1
  <2>1. a = e
    <3>1. {i \in 1 .. Len(tabs) : tabs[i].key = active} = {i \in 1 .. Len(strip) : strip[i] = active}
      BY <1>1, <1>2
    <3> QED BY <3>1 DEF Index, SelectInSeq
  <2>2. /\ strip' = InsertAt(strip, IF a = 0 THEN Len(strip) + 1 ELSE e + 1, tab.key)
        /\ tabs' = InsertAt(tabs, p, tab)
    BY <1>6 DEF InsertShellTab, InsertAfterActive
  <2>3. p \in 1 .. Len(tabs) + 1 BY <1>1, IndexIsFirst
  <2>4. strip' = InsertAt(strip, p, tab.key) BY <1>2, <2>1, <2>2
  <2> HIDE DEF p
  <2>5. \A i \in 1 .. Len(tabs) + 1 : InsertAt(tabs, i, tab) = Inserted(tabs, i, tab)
    <3>1. tabs \in Seq(Tab) /\ tab \in Tab BY <1>1
    <3> QED BY ONLY <3>1, InsertIsInserted
  <2>6. \A i \in 1 .. Len(strip) + 1 : InsertAt(strip, i, tab.key) = Inserted(strip, i, tab.key)
    BY ONLY <1>2, <1>3, InsertIsInserted
  <2> QED BY <1>2, <2>2, <2>3, <2>4, <2>5, <2>6
<1> QED BY <1>4, <1>5, <1>6 DEF Positions

LEMMA CreateTabInserts ==
  ASSUME TabsInv, NEW position \in Positions, CreateTab(position)
  PROVE  \E tab \in Tab, p \in 1 .. Len(tabs) + 1 :
           /\ tab.key = nextKey /\ tab.kind = "shell"
           /\ tabs' = Inserted(tabs, p, tab) /\ strip' = Inserted(strip, p, tab.key)
           /\ \/ tab.sid = nextId /\ nextId' = nextId + 1 /\ live' = live \cup {tab.sid}
              \/ tab.sid = NoSession /\ nextId' \in {nextId, nextId + 1} /\ live' = live
           /\ UNCHANGED <<made, heard>>
<1>1. PICK sid \in {nextId, NoSession} :
        /\ InsertShellTab([key |-> nextKey, kind |-> "shell", sid |-> sid], position)
        /\ \/ sid = nextId /\ Started(nextId)
           \/ sid = NoSession /\ NotStarted
  BY DEF CreateTab
<1> DEFINE tab == [key |-> nextKey, kind |-> "shell", sid |-> sid]
<1>2. tab \in Tab BY <1>1 DEF CreateTab, Tab, Started
<1>3. PICK p \in 1 .. Len(tabs) + 1 :
        tabs' = Inserted(tabs, p, tab) /\ strip' = Inserted(strip, p, tab.key)
  BY <1>1, <1>2, InsertShellTabInserts
<1>4. UNCHANGED <<made, heard>> BY <1>1 DEF Started, NotStarted
<1>5. \/ tab.sid = nextId /\ nextId' = nextId + 1 /\ live' = live \cup {tab.sid}
      \/ tab.sid = NoSession /\ nextId' \in {nextId, nextId + 1} /\ live' = live
  BY <1>1 DEF Started, NotStarted
<1>6. tab.key = nextKey /\ tab.kind = "shell" OBVIOUS
<1> HIDE DEF tab
<1> QED BY <1>2, <1>3, <1>4, <1>5, <1>6

LEMMA CreateSettingsInserts ==
  ASSUME TabsInv, CreateSettingsTab
  PROVE  \E tab \in Tab, p \in 1 .. Len(tabs) + 1 :
           /\ tab.key = nextKey /\ tab.kind = "settings" /\ tab.sid = NoSession
           /\ tabs' = Inserted(tabs, p, tab) /\ strip' = Inserted(strip, p, tab.key)
<1> DEFINE tab == [key |-> nextKey, kind |-> "settings", sid |-> NoSession]
<1>1. InsertShellTab(tab, "last") BY DEF CreateSettingsTab, InsertShellTab
<1>2. tab \in Tab BY DEF CreateSettingsTab, Tab
<1>3. tab.key = nextKey /\ tab.kind = "settings" /\ tab.sid = NoSession OBVIOUS
<1> HIDE DEF tab
<1> QED BY <1>1, <1>2, <1>3, InsertShellTabInserts DEF Positions

LEMMA CreateKeeps ==
  ASSUME TabsInv, page = "up",
         \/ \E position \in Positions : CreateTab(position)
         \/ SettingsTabs = {} /\ CreateSettingsTab
  PROVE  TabsInv'
<1>1. ASSUME NEW position \in Positions, CreateTab(position) PROVE TabsInv'
  <2>1. nextKey \in Keys /\ active' = nextKey /\ nextKey' = nextKey + 1
        /\ UNCHANGED <<outbox, screen, page>>
    BY <1>1 DEF CreateTab
  <2>2. PICK tab \in Tab, p \in 1 .. Len(tabs) + 1 :
          /\ tab.key = nextKey /\ tab.kind = "shell"
          /\ tabs' = Inserted(tabs, p, tab) /\ strip' = Inserted(strip, p, tab.key)
          /\ \/ tab.sid = nextId /\ nextId' = nextId + 1 /\ live' = live \cup {tab.sid}
             \/ tab.sid = NoSession /\ nextId' \in {nextId, nextId + 1} /\ live' = live
          /\ UNCHANGED <<made, heard>>
    BY <1>1, CreateTabInserts
  <2> QED BY <2>1, <2>2, InsertKeeps
<1>2. ASSUME SettingsTabs = {}, CreateSettingsTab PROVE TabsInv'
  <2>1. /\ nextKey \in Keys /\ active' = nextKey /\ nextKey' = nextKey + 1
        /\ UNCHANGED <<nextId, live, made, heard, outbox, screen, page>>
    BY <1>2 DEF CreateSettingsTab, serviceVars
  <2> QED BY <1>2, <2>1, CreateSettingsInserts, InsertKeeps
<1> QED BY <1>1, <1>2

\* Another tab comes to the front.
LEMMA SwitchKeeps ==
  ASSUME TabsInv, tabs # <<>>, NEW key \in TabKeys, SwitchTab(key)
  PROVE  TabsInv'
<1>1. active' = key /\ UNCHANGED <<nextId, live, made, heard, tabs, strip, nextKey, outbox,
                                   screen, page>>
  BY DEF SwitchTab, serviceVars
<1>2. KeysAreFresh' BY <1>1 DEF TabsInv, KeysAreFresh, TabKeys
<1> QED BY <1>1, <1>2 DEF TabsInv, TabsTypeOK, OneSettingsTab, SettingsTabs, SessionsOfTabs,
       OutputInOrder, StripMatchesTabs

\* removeTab: the tab at p goes, with its element, its session and its screen.
LEMMA RemoveKeeps ==
  ASSUME TabsInv, NEW p \in DOMAIN tabs, RemoveTab(p)
  PROVE  TabsInv'
<1> USE DEF TabsInv
<1> DEFINE At(i) == IF i < p THEN i ELSE i + 1
           victim == tabs[p]
<1>1. /\ Len(tabs) \in Nat /\ Len(tabs) > 1 /\ DOMAIN tabs = 1 .. Len(tabs)
      /\ tabs' = Removed(tabs, p)
      /\ tabs' \in Seq(Tab) /\ Len(tabs') = Len(tabs) - 1 /\ DOMAIN tabs' = 1 .. Len(tabs) - 1
      /\ \A i \in DOMAIN tabs : tabs[i] \in Tab
  <2>1. tabs \in Seq(Tab) /\ tabs' = RemoveAt(tabs, p) /\ Len(tabs) > 1
    BY DEF TabsTypeOK, RemoveTab
  <2>2. p \in 1 .. Len(tabs) BY <2>1
  <2>3. tabs' = Removed(tabs, p) /\ tabs' \in Seq(Tab) /\ Len(tabs') = Len(tabs) - 1
    BY <2>1, <2>2, RemoveIsRemoved
  <2> QED BY <2>1, <2>3
<1>2. /\ \A i \in DOMAIN tabs' : At(i) \in DOMAIN tabs \ {p} /\ tabs'[i] = tabs[At(i)]
      /\ \A i, j \in DOMAIN tabs' : At(i) = At(j) => i = j
  BY <1>1 DEF Removed
<1>3. \A j \in DOMAIN tabs \ {p} : \E i \in DOMAIN tabs' : At(i) = j
  <2> SUFFICES ASSUME NEW j \in DOMAIN tabs \ {p} PROVE \E i \in DOMAIN tabs' : At(i) = j
    OBVIOUS
  <2>1. CASE j < p BY <1>1, <2>1
  <2>2. CASE ~(j < p)
    <3>1. j - 1 \in DOMAIN tabs' /\ At(j - 1) = j BY <1>1, <2>2
    <3> QED BY <3>1
  <2> QED BY <2>1, <2>2
<1>4. StripMatchesTabs'
  <2>1. /\ strip \in Seq(Keys) /\ Len(strip) = Len(tabs)
        /\ \A i \in 1 .. Len(tabs) : strip[i] = tabs[i].key
    <3>1. \A i \in DOMAIN tabs : tabs[i].key \in Keys BY <1>1 DEF Tab
    <3> QED BY <1>1, <3>1 DEF StripMatchesTabs
  <2> DEFINE I == {i \in 1 .. Len(strip) : strip[i] = victim.key}
  <2>2. I = {p} BY <1>1, <2>1 DEF KeysAreFresh
  <2>3. Min(I) = p
    <3>1. I \subseteq Nat BY <1>1, <2>2
    <3> HIDE DEF I
    <3>2. Min(I) \in I BY <2>2, <3>1, LeastIsFirst
    <3> QED BY <2>2, <3>2
  <2>4. strip' = RemoveAt(strip, p)
    <3>1. SelectInSeq(strip, LAMBDA v : v = victim.key) = p BY <2>2, <2>3 DEF SelectInSeq
    <3>2. \E i \in 1 .. Len(strip) : strip[i] = victim.key BY <2>2
    <3>3. strip' = RemoveFirst(strip, victim.key) BY DEF RemoveTab
    <3> QED BY <3>1, <3>2, <3>3 DEF RemoveFirst
  <2>5. strip' = Removed(strip, p) BY <1>1, <2>1, <2>4, RemoveIsRemoved
  <2> QED BY <1>1, <2>1, <2>5 DEF StripMatchesTabs, Removed
<1> HIDE DEF At
<1>5. /\ UNCHANGED <<nextId, made, heard, nextKey, outbox, page>>
      /\ live' = live \ {victim.sid} /\ live' \subseteq Ids
      /\ page = "up"
      /\ screen' = [screen EXCEPT ![victim.key] = Blank]
      /\ active' = IF active = victim.key THEN RemoveFallback(p) ELSE active
  <2>1. 0 \notin Ids BY DEF Ids
  <2> QED BY <2>1 DEF RemoveTab, Stop, serviceVars, NoSession, TabsTypeOK
<1>6. \A k \in Keys : screen'[k] = IF k = victim.key THEN Blank ELSE screen[k]
  BY <1>5 DEF TabsTypeOK
<1>t. TabsTypeOK'
  <2>1. Blank \in [sid : Nat, n : Nat] BY DEF Blank, NoSession
  <2>2. screen' \in [Keys -> [sid : Nat, n : Nat]] BY <1>5, <2>1 DEF TabsTypeOK
  <2> QED BY <1>1, <1>5, <2>2 DEF TabsTypeOK
<1>a. KeysAreFresh'
  <2>1. tabs' # <<>> BY <1>1
  <2>2. active' \in TabKeys'
    <3>1. CASE active = victim.key
      <4>1. p \in 1 .. Len(tabs) BY <1>1
      <4>2. (IF p > 1 THEN p - 1 ELSE 1) \in DOMAIN tabs' BY <1>1, <4>1
      <4> QED BY <1>5, <3>1, <4>2 DEF RemoveFallback, TabKeys
    <3>2. CASE active # victim.key
      <4>1. tabs # <<>> BY <1>1
      <4>2. PICK j \in DOMAIN tabs : tabs[j].key = active
        BY <4>1 DEF KeysAreFresh, TabKeys
      <4> QED BY <1>2, <1>3, <1>5, <3>2, <4>2 DEF TabKeys
    <3> QED BY <3>1, <3>2
  <2> QED BY <1>2, <1>5, <2>1, <2>2 DEF KeysAreFresh
<1>b. OneSettingsTab'
  <2>1. \A i \in SettingsTabs' : At(i) \in SettingsTabs /\ i \in DOMAIN tabs'
    BY <1>2 DEF SettingsTabs
  <2> QED BY <1>2, <2>1 DEF OneSettingsTab
<1>c. SessionsOfTabs'
  <2>1. {tabs'[i].sid : i \in DOMAIN tabs'} = {tabs[j].sid : j \in DOMAIN tabs \ {p}}
    BY <1>2, <1>3
  <2>2. \A j \in DOMAIN tabs \ {p} : tabs[j].sid # NoSession => tabs[j].sid # victim.sid
    BY DEF SessionsOfTabs
  <2>3. live' = {tabs'[i].sid : i \in DOMAIN tabs'} \ {NoSession}
    BY <1>5, <2>1, <2>2 DEF SessionsOfTabs
  <2> QED BY <1>2, <1>5, <2>3 DEF SessionsOfTabs
<1>d. OutputInOrder'
  <2>1. \A i \in DOMAIN tabs' : tabs'[i].key # victim.key /\ tabs'[i].key \in Keys
    BY <1>1, <1>2 DEF KeysAreFresh, Tab
  <2>2. \A i \in DOMAIN tabs' : screen'[tabs'[i].key] = screen[tabs'[i].key]
    BY <1>6, <2>1
  <2> QED BY <1>2, <1>5, <1>6, <2>2 DEF OutputInOrder
<1> QED BY <1>t, <1>a, <1>b, <1>c, <1>d, <1>4
\* The callback posts a chunk, and the page writes the oldest one.
LEMMA PostKeeps ==
  ASSUME TabsInv, NEW s \in Ids, NEW n \in 1 .. MaxChunks, PostOutput(s, n)
  PROVE  TabsInv'
<1> USE DEF TabsInv
<1> DEFINE c == [sid |-> s, n |-> n]
<1>1. /\ s \in live /\ n \in heard[s] + 1 .. made[s] /\ page = "up"
      /\ heard' = [heard EXCEPT ![s] = n] /\ outbox' = Append(outbox, c)
      /\ UNCHANGED <<nextId, live, made, tabs, strip, active, nextKey, screen, page>>
  BY DEF PostOutput, Hear
<1>2. c \in Chunk /\ c.sid = s /\ c.n = n BY DEF Chunk
<1> HIDE DEF c
<1>3. /\ outbox \in Seq(Chunk) /\ Len(outbox) \in Nat /\ DOMAIN outbox = 1 .. Len(outbox)
      /\ \A x \in DOMAIN outbox : outbox[x] \in Chunk
      /\ heard \in [Ids -> Nat] /\ made \in [Ids -> Nat]
  BY DEF TabsTypeOK
<1>4. /\ outbox' \in Seq(Chunk) /\ DOMAIN outbox' = 1 .. Len(outbox) + 1
      /\ outbox'[Len(outbox) + 1] = c
      /\ \A x \in 1 .. Len(outbox) : outbox'[x] = outbox[x]
  BY <1>1, <1>2, <1>3, AppendProperties
<1>5. \A t \in Ids : heard'[t] = (IF t = s THEN n ELSE heard[t]) /\ heard[t] <= heard'[t]
  BY <1>1, <1>3
<1>6. TabsTypeOK' BY <1>1, <1>3, <1>4 DEF TabsTypeOK
<1>7. PICK j \in DOMAIN tabs : tabs[j].sid = s BY <1>1 DEF SessionsOfTabs
<1>8. s < nextId BY <1>7 DEF SessionsOfTabs
<1>9. \A i \in DOMAIN tabs : tabs[i] \in Tab BY DEF TabsTypeOK
<1>d. OutputInOrder'
  <2>1. \A x \in DOMAIN outbox : outbox[x].sid \in Ids /\ outbox[x].n \in Nat
    BY <1>3 DEF Chunk
  <2>2. \A x \in DOMAIN outbox' : outbox'[x].sid < nextId' /\ outbox'[x].n > 0
    BY <1>1, <1>2, <1>3, <1>4, <1>8 DEF OutputInOrder
  <2>3. \A x \in DOMAIN outbox' : outbox'[x].n <= heard'[outbox'[x].sid]
    BY <1>1, <1>2, <1>3, <1>4, <1>5, <2>1 DEF OutputInOrder
  <2>4. \A x, y \in DOMAIN outbox' :
          x < y /\ outbox'[x].sid = outbox'[y].sid => outbox'[x].n < outbox'[y].n
    <3> SUFFICES ASSUME NEW x \in DOMAIN outbox', NEW y \in DOMAIN outbox',
                        x < y, outbox'[x].sid = outbox'[y].sid
                 PROVE  outbox'[x].n < outbox'[y].n
      OBVIOUS
    <3>1. x \in DOMAIN outbox BY <1>3, <1>4
    <3>2. CASE y \in DOMAIN outbox BY <1>3, <1>4, <3>1, <3>2 DEF OutputInOrder
    <3>3. CASE y = Len(outbox) + 1
      <4>1. outbox'[x] = outbox[x] /\ outbox[x].sid = s /\ outbox'[y].n = n
        BY <1>2, <1>3, <1>4, <3>1, <3>3
      <4>2. outbox[x].n <= heard[s] BY <3>1, <4>1 DEF OutputInOrder
      <4> QED BY <1>1, <1>3, <2>1, <3>1, <4>1, <4>2
    <3> QED BY <1>3, <1>4, <3>2, <3>3
  <2>5. \A i \in DOMAIN tabs :
          /\ tabs[i].sid \in Ids \cup {NoSession} /\ tabs[i].key \in Keys
          /\ screen[tabs[i].key].n \in Nat
    <3>1. \A k \in Keys : screen[k].n \in Nat BY DEF TabsTypeOK
    <3> QED BY <1>9, <3>1 DEF Tab
  <2>6. \A i \in DOMAIN tabs :
          tabs[i].sid # NoSession => screen[tabs[i].key].n <= heard'[tabs[i].sid]
    <3> SUFFICES ASSUME NEW i \in DOMAIN tabs, tabs[i].sid # NoSession
                 PROVE  screen[tabs[i].key].n <= heard'[tabs[i].sid]
      OBVIOUS
    <3>1. screen[tabs[i].key].n <= heard[tabs[i].sid] BY DEF OutputInOrder
    <3>2. heard[tabs[i].sid] <= heard'[tabs[i].sid] BY <1>5, <2>5
    <3>3. heard[tabs[i].sid] \in Nat /\ heard'[tabs[i].sid] \in Nat BY <1>3, <1>5, <2>5
    <3> QED BY <2>5, <3>1, <3>2, <3>3
  <2>7. \A i \in DOMAIN tabs, x \in DOMAIN outbox' :
          tabs[i].sid = outbox'[x].sid => screen[tabs[i].key].n < outbox'[x].n
    <3> SUFFICES ASSUME NEW i \in DOMAIN tabs, NEW x \in DOMAIN outbox',
                        tabs[i].sid = outbox'[x].sid
                 PROVE  screen[tabs[i].key].n < outbox'[x].n
      OBVIOUS
    <3>1. CASE x \in DOMAIN outbox BY <1>3, <1>4, <3>1 DEF OutputInOrder
    <3>2. CASE x = Len(outbox) + 1
      <4>1. tabs[i].sid = s /\ outbox'[x].n = n /\ s # NoSession
        BY <1>2, <1>4, <3>2 DEF Ids, NoSession
      <4>2. screen[tabs[i].key].n <= heard[s] BY <4>1 DEF OutputInOrder
      <4> QED BY <1>1, <1>3, <2>5, <4>1, <4>2
    <3> QED BY <1>3, <1>4, <3>1, <3>2
  <2> QED BY <1>1, <2>2, <2>3, <2>4, <2>6, <2>7 DEF OutputInOrder
<1> QED BY <1>1, <1>6, <1>d DEF KeysAreFresh, TabKeys, OneSettingsTab, SettingsTabs,
       SessionsOfTabs, StripMatchesTabs

\* The first tab with the session is the only one.
LEMMA WritesToOwner ==
  ASSUME TabsInv, WriteToTerminal
  PROVE  \/ UNCHANGED screen
         \/ \E i \in DOMAIN tabs :
              /\ tabs[i].sid = Head(outbox).sid
              /\ screen' = [screen EXCEPT ![tabs[i].key] = Head(outbox)]
<1> DEFINE I == {i \in 1 .. Len(tabs) : tabs[i].sid = Head(outbox).sid}
           f == SelectInSeq(tabs, LAMBDA t : t.sid = Head(outbox).sid)
<1>1. f = IF I # {} THEN Min(I) ELSE 0 BY DEF SelectInSeq
<1>2. DOMAIN tabs = 1 .. Len(tabs) /\ Len(tabs) \in Nat BY DEF TabsInv, TabsTypeOK
<1>3. I \subseteq Nat OBVIOUS
<1> HIDE DEF I
<1>4. I # {} => Min(I) \in I BY <1>3, LeastIsFirst
<1> USE DEF I
<1>5. f = 0 \/ (f \in DOMAIN tabs /\ tabs[f].sid = Head(outbox).sid) BY <1>1, <1>2, <1>4
<1>6. screen' = IF f = 0 THEN screen ELSE [screen EXCEPT ![tabs[f].key] = Head(outbox)]
  BY DEF WriteToTerminal
<1> HIDE DEF f
<1> QED BY <1>5, <1>6

LEMMA WriteKeeps == ASSUME TabsInv, WriteToTerminal PROVE TabsInv'
<1> USE DEF TabsInv
<1> DEFINE h == Head(outbox)  t == Tail(outbox)
<1>1. /\ outbox' = t /\ page = "up"
      /\ UNCHANGED <<nextId, live, made, heard, tabs, strip, active, nextKey, page>>
  BY DEF WriteToTerminal, serviceVars
<1>2. /\ outbox \in Seq(Chunk) /\ outbox # <<>> /\ Len(outbox) \in Nat \ {0}
      /\ DOMAIN outbox = 1 .. Len(outbox)
      /\ \A x \in DOMAIN outbox : outbox[x] \in Chunk
  BY DEF WriteToTerminal, TabsTypeOK
<1>3. /\ h = outbox[1] /\ t \in Seq(Chunk) /\ DOMAIN t = 1 .. Len(outbox) - 1
      /\ \A x \in DOMAIN t : t[x] = outbox[x + 1]
  BY <1>2
<1>4. h \in Chunk /\ h.sid \in Ids /\ h.n \in Nat BY <1>2, <1>3 DEF Chunk
<1>5. \A x \in DOMAIN t :
        /\ x + 1 \in DOMAIN outbox /\ t[x].n \in Nat /\ t[x].sid \in Ids
        /\ t[x].sid = h.sid => h.n < t[x].n
  <2>1. \A x \in DOMAIN t : x + 1 \in DOMAIN outbox /\ 1 < x + 1 /\ 1 \in DOMAIN outbox
    BY <1>2, <1>3
  <2> QED BY <1>2, <1>3, <2>1 DEF OutputInOrder, Chunk
<1> HIDE DEF h, t
<1>6. \A i \in DOMAIN tabs : tabs[i] \in Tab BY DEF TabsTypeOK
<1>7. screen \in [Keys -> [sid : Nat, n : Nat]] BY DEF TabsTypeOK
<1>8. \/ UNCHANGED screen
      \/ \E i \in DOMAIN tabs :
           tabs[i].sid = h.sid /\ screen' = [screen EXCEPT ![tabs[i].key] = h]
  BY WritesToOwner DEF h
<1>a. \A x \in DOMAIN t :
        /\ t[x].sid < nextId /\ t[x].n > 0 /\ t[x].n <= heard[t[x].sid]
        /\ \A y \in DOMAIN t : x < y /\ t[x].sid = t[y].sid => t[x].n < t[y].n
  <2>1. \A x, y \in DOMAIN t : x < y => x + 1 < y + 1 BY <1>2, <1>3
  <2> QED BY <1>3, <1>5, <2>1 DEF OutputInOrder
<1>b. CASE UNCHANGED screen
  <2>1. OutputInOrder' BY <1>1, <1>3, <1>5, <1>a, <1>b DEF OutputInOrder
  <2> QED BY <1>1, <1>3, <1>b, <2>1 DEF TabsTypeOK, KeysAreFresh, TabKeys, OneSettingsTab,
         SettingsTabs, SessionsOfTabs, StripMatchesTabs
<1>c. ASSUME NEW i \in DOMAIN tabs, tabs[i].sid = h.sid,
             screen' = [screen EXCEPT ![tabs[i].key] = h]
      PROVE  TabsInv'
  <2>1. tabs[i].key \in Keys /\ tabs[i].sid # NoSession
    BY <1>4, <1>6, <1>c DEF Tab, Ids, NoSession
  <2>2. h \in [sid : Nat, n : Nat] BY <1>4 DEF Chunk, Ids
  <2>3. screen' \in [Keys -> [sid : Nat, n : Nat]] BY <1>7, <1>c, <2>2
  <2>4. \A k \in Keys : screen'[k] = IF k = tabs[i].key THEN h ELSE screen[k]
    BY <1>7, <1>c
  <2>5. \A j \in DOMAIN tabs : j # i =>
          tabs[j].key # tabs[i].key /\ tabs[j].sid # tabs[i].sid /\ tabs[j].key \in Keys
    BY <1>6, <2>1 DEF KeysAreFresh, SessionsOfTabs, Tab
  <2>6. h.n <= heard[h.sid] BY <1>2, <1>3 DEF OutputInOrder
  <2>7. \A j \in DOMAIN tabs :
          /\ tabs[j].sid # NoSession => screen'[tabs[j].key].n <= heard[tabs[j].sid]
          /\ \A x \in DOMAIN t : tabs[j].sid = t[x].sid => screen'[tabs[j].key].n < t[x].n
    <3> SUFFICES ASSUME NEW j \in DOMAIN tabs
                 PROVE  /\ tabs[j].sid # NoSession => screen'[tabs[j].key].n <= heard[tabs[j].sid]
                        /\ \A x \in DOMAIN t :
                             tabs[j].sid = t[x].sid => screen'[tabs[j].key].n < t[x].n
      OBVIOUS
    <3>1. CASE j = i BY <1>5, <1>c, <2>1, <2>4, <2>6, <3>1
    <3>2. CASE j # i
      <4>1. screen'[tabs[j].key] = screen[tabs[j].key] BY <2>4, <2>5, <3>2
      <4> QED BY <1>3, <1>5, <4>1 DEF OutputInOrder
    <3> QED BY <3>1, <3>2
  <2>8. \A k \in Keys : k >= nextKey => screen'[k] = Blank
    <3>1. tabs[i].key < nextKey /\ nextKey \in Nat BY DEF KeysAreFresh, TabsTypeOK
    <3> QED BY <2>1, <2>4, <3>1 DEF OutputInOrder, Keys
  <2>9. OutputInOrder' BY <1>1, <1>a, <2>7, <2>8 DEF OutputInOrder
  <2> QED BY <1>1, <1>3, <2>3, <2>9 DEF TabsTypeOK, KeysAreFresh, TabKeys, OneSettingsTab,
         SettingsTabs, SessionsOfTabs, StripMatchesTabs
<1> QED BY <1>8, <1>b, <1>c
LEMMA OutsideKeeps ==
  ASSUME TabsInv, Disappear \/ Relaunch \/ \E s \in Ids : ShellPrints(s)
  PROVE  TabsInv'
<1> USE DEF TabsInv
<1>1. CASE Disappear
  <2>1. UNCHANGED <<nextId, made, heard, tabs, strip, active, nextKey, outbox, screen>>
        /\ live' = {} /\ page' # "up"
    BY <1>1 DEF Disappear
  <2>2. TabsTypeOK' /\ SessionsOfTabs' BY <2>1 DEF TabsTypeOK, SessionsOfTabs
  <2> QED BY <2>1, <2>2 DEF KeysAreFresh, TabKeys, OneSettingsTab, SettingsTabs, OutputInOrder,
         StripMatchesTabs
<1>2. CASE Relaunch
  <2>1. Init' BY <1>2 DEF Relaunch, Init, ServiceInit
  <2>2. Init' => TabsInv'
    <3>t. ASSUME Init' PROVE TabsTypeOK'
      <4>1. <<>> \in Seq(Tab) /\ <<>> \in Seq(Chunk) OBVIOUS
      <4> QED BY <3>t, <4>1 DEF Init, ServiceInit, TabsTypeOK, Blank, NoSession
    <3>1. ASSUME Init' PROVE DOMAIN tabs' = {} /\ DOMAIN outbox' = {} /\ tabs' = <<>>
      BY <3>1 DEF Init
    <3>e. ASSUME Init' PROVE StripMatchesTabs'
      <4>1. [i \in DOMAIN tabs' |-> tabs'[i].key] = <<>> BY <3>1, <3>e
      <4> QED BY <3>e, <4>1 DEF Init, StripMatchesTabs
    <3> QED BY <3>t, <3>1, <3>e DEF Init, ServiceInit, KeysAreFresh, OneSettingsTab, SettingsTabs,
           SessionsOfTabs, OutputInOrder
  <2> QED BY <2>1, <2>2
<1>3. ASSUME NEW s \in Ids, ShellPrints(s) PROVE TabsInv'
  <2>1. UNCHANGED <<nextId, live, heard, tabs, strip, active, nextKey, outbox, screen, page>>
        /\ made' = [made EXCEPT ![s] = @ + 1]
    BY <1>3 DEF ShellPrints, Make, pageVars
  <2>2. TabsTypeOK' BY <2>1 DEF TabsTypeOK
  <2> QED BY <2>1, <2>2 DEF KeysAreFresh, TabKeys, OneSettingsTab, SettingsTabs, SessionsOfTabs,
         OutputInOrder, StripMatchesTabs
<1> QED BY <1>1, <1>2, <1>3

\* A tab is clicked or cycled to, or settings are opened.
LEMMA FrontKeeps ==
  ASSUME TabsInv, ClickTab \/ CycleTab \/ OpenSettings
  PROVE  TabsInv'
<1>1. tabs \in Seq(Tab) /\ Len(tabs) \in Nat /\ DOMAIN tabs = 1 .. Len(tabs)
  BY DEF TabsInv, TabsTypeOK
<1>2. CASE ClickTab
  <2>1. PICK k \in TabKeys : SwitchTab(k) BY <1>2 DEF ClickTab
  <2>2. tabs # <<>> BY <1>1, <2>1 DEF TabKeys
  <2> QED BY <2>1, <2>2, SwitchKeeps
<1>3. CASE CycleTab
  <2> DEFINE i == Index(tabs, active)
             n == (i % Len(tabs)) + 1
             b == ((i + Len(tabs) - 2) % Len(tabs)) + 1
  <2>1. Len(tabs) >= 2 /\ (SwitchTab(tabs[n].key) \/ SwitchTab(tabs[b].key)) /\ i # 0
    BY <1>3 DEF CycleTab
  <2>2. i \in 1 .. Len(tabs) BY <1>1, <2>1, IndexIsFirst
  <2> HIDE DEF i
  <2>3. n \in DOMAIN tabs /\ b \in DOMAIN tabs
    <3>1. \A x \in Nat, m \in Nat \ {0} : x % m \in 0 .. m - 1 OBVIOUS
    <3>2. i \in Nat /\ i + Len(tabs) - 2 \in Nat /\ Len(tabs) \in Nat \ {0}
      BY <1>1, <2>1, <2>2
    <3>3. i % Len(tabs) \in 0 .. Len(tabs) - 1
          /\ (i + Len(tabs) - 2) % Len(tabs) \in 0 .. Len(tabs) - 1
      BY <3>1, <3>2
    <3> QED BY <1>1, <3>3
  <2> HIDE DEF n, b
  <2>4. tabs[n].key \in TabKeys /\ tabs[b].key \in TabKeys BY <2>3 DEF TabKeys
  <2>5. tabs # <<>> BY <1>1, <2>1
  <2> QED BY <2>1, <2>4, <2>5, SwitchKeeps
<1>4. CASE OpenSettings
  <2>1. ASSUME NEW i \in SettingsTabs, SwitchTab(tabs[i].key) PROVE TabsInv'
    <3>1. tabs[i].key \in TabKeys BY DEF SettingsTabs, TabKeys
    <3> QED BY <1>4, <2>1, <3>1, SwitchKeeps DEF OpenSettings
  <2>2. CASE SettingsTabs = {} /\ CreateSettingsTab
    BY <1>4, <2>2, CreateKeeps DEF OpenSettings
  <2> QED BY <1>4, <2>1, <2>2 DEF OpenSettings
<1> QED BY <1>2, <1>3, <1>4

LEMMA TabsInvStep == TabsInv /\ [Next]_vars => TabsInv'
<1> SUFFICES ASSUME TabsInv, [Next]_vars PROVE TabsInv'
  OBVIOUS
<1>1. CASE UNCHANGED vars
  BY <1>1 DEF vars, serviceVars, pageVars, TabsInv, TabsTypeOK, KeysAreFresh, TabKeys,
     OneSettingsTab, SettingsTabs, SessionsOfTabs, OutputInOrder, StripMatchesTabs
<1>2. CASE Bootstrap \/ NewTab BY <1>2, CreateKeeps DEF Bootstrap, NewTab
<1>3. CASE OpenSettings \/ ClickTab \/ CycleTab BY <1>3, FrontKeeps
<1>4. CASE \E i \in DOMAIN tabs : RemoveTab(i) BY <1>4, RemoveKeeps
<1>5. CASE \E s \in Ids, n \in 1 .. MaxChunks : PostOutput(s, n) BY <1>5, PostKeeps
<1>6. CASE WriteToTerminal BY <1>6, WriteKeeps
<1>7. CASE Disappear \/ Relaunch \/ \E s \in Ids : ShellPrints(s) BY <1>7, OutsideKeeps
<1> QED BY <1>1, <1>2, <1>3, <1>4, <1>5, <1>6, <1>7 DEF Next

LEMMA FrontTabFollows == TabsInv => FrontTab
<1> SUFFICES ASSUME TabsInv PROVE FrontTab
  OBVIOUS
<1> USE DEF TabsInv
<1>1. Len(tabs) \in Nat /\ DOMAIN tabs = 1 .. Len(tabs) BY DEF TabsTypeOK
<1>2. Cardinality(SettingsTabs) <= 1
  <2>1. CASE SettingsTabs = {} BY <2>1, FS_EmptySet
  <2>2. ASSUME NEW i \in SettingsTabs PROVE Cardinality(SettingsTabs) <= 1
    <3>1. SettingsTabs = {i} BY DEF OneSettingsTab
    <3>2. Cardinality({i}) = 1 BY FS_Singleton, Zenon
    <3> QED BY <3>1, <3>2
  <2> QED BY <2>1, <2>2
<1>3. nextKey > 1 => active \in TabKeys BY DEF KeysAreFresh, TabsTypeOK
<1>4. Cardinality(TabKeys) = Len(tabs)
  <2> DEFINE f == [i \in 1 .. Len(tabs) |-> tabs[i].key]
  <2>1. f \in Bijection(1 .. Len(tabs), TabKeys)
    <3>1. f \in [1 .. Len(tabs) -> TabKeys] BY <1>1 DEF TabKeys
    <3>2. \A k \in TabKeys : \E i \in 1 .. Len(tabs) : f[i] = k BY <1>1 DEF TabKeys
    <3>3. \A i, j \in 1 .. Len(tabs) : f[i] = f[j] => i = j BY <1>1 DEF KeysAreFresh
    <3> HIDE DEF f
    <3> QED BY <3>1, <3>2, <3>3, Fun_IsBij
  <2>2. ExistsBijection(1 .. Len(tabs), TabKeys) BY <2>1 DEF ExistsBijection
  <2>3. IsFiniteSet(1 .. Len(tabs)) /\ Cardinality(1 .. Len(tabs)) = Len(tabs)
    <3>1. 1 \in Int /\ Len(tabs) \in Int BY <1>1
    <3>2. /\ IsFiniteSet(1 .. Len(tabs))
          /\ Cardinality(1 .. Len(tabs)) = IF 1 > Len(tabs) THEN 0 ELSE Len(tabs) - 1 + 1
      BY ONLY <3>1, FS_Interval
    <3> QED BY <1>1, <3>2
  <2> QED BY <2>2, <2>3, FS_Bijection
<1> QED BY <1>2, <1>3, <1>4 DEF FrontTab

-----------------------------------------------------------------------------
\* However many tabs are opened, moved, cycled and closed, one of them is in front, one at
\* most is the settings tab, and no two share a key (terminal-app.js:2325-2388, 3720-3765).
THEOREM OneTabInFront == Spec => []FrontTab
BY TabsInvInit, TabsInvStep, FrontTabFollows, PTL DEF Spec

\* The strip's elements, which are inserted and removed on their own, stay in the order of
\* the array for any number of tabs (2711-2746, 2370-2384).
THEOREM StripFollowsTabs == Spec => []StripMatchesTabs
<1>1. TabsInv => StripMatchesTabs BY DEF TabsInv
<1> QED BY TabsInvInit, TabsInvStep, <1>1, PTL DEF Spec

\* Every live session is that of one tab, and closing a tab stops no other tab's
\* (2376-2378, napi_init.cpp:544-546).
THEOREM SessionsHaveTabs == Spec => []OneTabPerSession
<1>1. TabsInv => OneTabPerSession BY DEF TabsInv, SessionsOfTabs, OneTabPerSession
<1> QED BY TabsInvInit, TabsInvStep, <1>1, PTL DEF Spec

\* What a step writes on a tab's screen is a later chunk of that tab's own session, whatever
\* was opened or closed while the chunk was on its way (3767-3774, Index.ets:83-100).
THEOREM TabsShowOwnOutput == Spec => OwnOutput
<1> DEFINE Own == \A k \in Keys : screen'[k] \notin {screen[k], Blank} =>
                    /\ \E i \in DOMAIN tabs : tabs[i].key = k /\ tabs[i].sid = screen'[k].sid
                    /\ screen'[k].n > screen[k].n
<1>1. TabsInv /\ [Next]_vars => [Own]_vars
  <2> SUFFICES ASSUME TabsInv, Next PROVE Own
    OBVIOUS
  <2>1. screen \in [Keys -> [sid : Nat, n : Nat]] BY DEF TabsInv, TabsTypeOK
  <2>2. CASE WriteToTerminal
    <3>1. CASE UNCHANGED screen BY <3>1
    <3>2. ASSUME NEW i \in DOMAIN tabs, tabs[i].sid = Head(outbox).sid,
                 screen' = [screen EXCEPT ![tabs[i].key] = Head(outbox)]
          PROVE  Own
      <4>1. 1 \in DOMAIN outbox /\ Head(outbox) = outbox[1] /\ outbox[1] \in Chunk
        BY <2>2 DEF WriteToTerminal, TabsInv, TabsTypeOK
      <4>2. screen[tabs[i].key].n < Head(outbox).n
        BY <3>2, <4>1 DEF TabsInv, OutputInOrder
      <4>3. tabs[i].key \in Keys
        <5>1. \A j \in DOMAIN tabs : tabs[j] \in Tab BY DEF TabsInv, TabsTypeOK
        <5> QED BY <5>1 DEF Tab
      <4>4. Head(outbox).n > screen[tabs[i].key].n
        BY <2>1, <4>1, <4>2, <4>3 DEF Chunk
      <4> QED BY <2>1, <3>2, <4>3, <4>4
    <3> QED BY <2>2, <3>1, <3>2, WritesToOwner
  <2>3. ASSUME NEW i \in DOMAIN tabs, RemoveTab(i) PROVE Own
    BY <2>1, <2>3 DEF RemoveTab
  <2>4. CASE Relaunch BY <2>4 DEF Relaunch
  <2>5. CASE Bootstrap \/ NewTab \/ OpenSettings \/ ClickTab \/ CycleTab \/ Disappear
    BY <2>5 DEF Bootstrap, NewTab, CreateTab, OpenSettings, SwitchTab, CreateSettingsTab, ClickTab,
       CycleTab, Disappear
  <2>6. CASE \E s \in Ids : ShellPrints(s) \/ \E n \in 1 .. MaxChunks : PostOutput(s, n)
    BY <2>6 DEF ShellPrints, PostOutput, pageVars
  <2> QED BY <2>2, <2>3, <2>4, <2>5, <2>6 DEF Next
<1> QED BY TabsInvInit, TabsInvStep, <1>1, PTL DEF Spec, OwnOutput
-----------------------------------------------------------------------------
(* TerminalApp: the tabs under the preferences. *)

PrefFields == {"pos", "copyFormat", "copyAsHtml", "size", "family", "menu"}

\* The preferences have all their fields, with a position that insertShellTabInStrip knows;
\* every key has a look.
AppTypeOK ==
  /\ prefs = [f \in PrefFields |-> prefs[f]] /\ prefs.pos \in Positions
  /\ look = [k \in Keys |-> look[k]]

AppInv == TabsInv /\ AppTypeOK /\ LookIsPrefs

LEMMA NormalIsTyped ==
  ASSUME NEW o, NEW p, p = NormalizePrefs(o)
  PROVE  p = [f \in PrefFields |-> p[f]] /\ p.pos \in Positions
BY DEF NormalizePrefs, Factory, PrefFields, Positions

\* A control sets one field or two; what terminals look like is in two of them.
LEMMA SetsKeeps ==
  ASSUME AppTypeOK, NEW field \in PrefFields, NEW value, Sets(field, value),
         field = "pos" => value \in Positions
  PROVE  /\ prefs' = [f \in PrefFields |-> prefs'[f]] /\ prefs'.pos \in Positions
         /\ field \notin {"size", "family"} => Look(prefs') = Look(prefs)
<1>1. prefs' = [prefs EXCEPT ![field] = value] /\ DOMAIN prefs = PrefFields
  BY DEF Sets, AppTypeOK
<1>2. \A f \in PrefFields : prefs'[f] = IF f = field THEN value ELSE prefs[f] BY <1>1
<1>3. {"pos", "size", "family"} \subseteq PrefFields BY DEF PrefFields
<1>4. prefs'.pos \in Positions BY <1>2, <1>3 DEF AppTypeOK
<1>5. field \notin {"size", "family"} => prefs'.size = prefs.size /\ prefs'.family = prefs.family
  BY <1>2, <1>3
<1>6. prefs' = [f \in PrefFields |-> prefs'[f]] BY <1>1
<1> QED BY <1>4, <1>5, <1>6 DEF Look

\* The keys of terminals as tabs come and go.
LEMMA ShellKeysInserted ==
  ASSUME TabsInv, NEW tab \in Tab, NEW p \in 1 .. Len(tabs) + 1, tabs' = Inserted(tabs, p, tab)
  PROVE  ShellKeys' = ShellKeys \cup (IF tab.kind = "shell" THEN {tab.key} ELSE {})
<1> DEFINE Back(i) == IF i < p THEN i ELSE i - 1
<1>1. /\ tabs \in Seq(Tab) /\ Len(tabs) \in Nat /\ DOMAIN tabs = 1 .. Len(tabs)
      /\ DOMAIN tabs' = 1 .. Len(tabs) + 1
  BY DEF TabsInv, TabsTypeOK, Inserted
<1>2. /\ tabs'[p] = tab /\ p \in DOMAIN tabs'
      /\ \A i \in DOMAIN tabs' \ {p} : Back(i) \in DOMAIN tabs /\ tabs'[i] = tabs[Back(i)]
  BY <1>1 DEF Inserted
<1>3. \A j \in DOMAIN tabs : \E i \in DOMAIN tabs' : tabs'[i] = tabs[j]
  <2> SUFFICES ASSUME NEW j \in DOMAIN tabs PROVE \E i \in DOMAIN tabs' : tabs'[i] = tabs[j]
    OBVIOUS
  <2>1. CASE j < p
    <3>1. j \in DOMAIN tabs' \ {p} /\ Back(j) = j BY <1>1, <2>1
    <3> QED BY <1>2, <3>1
  <2>2. CASE ~(j < p)
    <3>1. j + 1 \in DOMAIN tabs' \ {p} /\ Back(j + 1) = j BY <1>1, <2>2
    <3> QED BY <1>2, <3>1
  <2> QED BY <2>1, <2>2
<1> HIDE DEF Back
<1> QED BY <1>2, <1>3 DEF ShellKeys

LEMMA ShellKeysRemoved ==
  ASSUME TabsInv, NEW p \in DOMAIN tabs, RemoveTab(p)
  PROVE  /\ ShellKeys' = ShellKeys \ {tabs[p].key}
         /\ \A i \in DOMAIN tabs' : \E j \in DOMAIN tabs : tabs'[i] = tabs[j]
<1> DEFINE At(i) == IF i < p THEN i ELSE i + 1
<1>1. /\ tabs \in Seq(Tab) /\ Len(tabs) \in Nat /\ DOMAIN tabs = 1 .. Len(tabs)
      /\ tabs' = RemoveAt(tabs, p)
  BY DEF TabsInv, TabsTypeOK, RemoveTab
<1>2. tabs' = Removed(tabs, p) BY <1>1, RemoveIsRemoved
<1>3. \A i \in DOMAIN tabs' : At(i) \in DOMAIN tabs \ {p} /\ tabs'[i] = tabs[At(i)]
  BY <1>1, <1>2 DEF Removed
<1>4. \A j \in DOMAIN tabs \ {p} : \E i \in DOMAIN tabs' : tabs'[i] = tabs[j]
  <2> SUFFICES ASSUME NEW j \in DOMAIN tabs \ {p}
               PROVE  \E i \in DOMAIN tabs' : tabs'[i] = tabs[j]
    OBVIOUS
  <2>1. CASE j < p
    <3>1. j \in DOMAIN tabs' /\ At(j) = j BY <1>1, <1>2, <2>1 DEF Removed
    <3> QED BY <1>3, <3>1
  <2>2. CASE ~(j < p)
    <3>1. j - 1 \in DOMAIN tabs' /\ At(j - 1) = j BY <1>1, <1>2, <2>2 DEF Removed
    <3> QED BY <1>3, <3>1
  <2> QED BY <2>1, <2>2
<1> HIDE DEF At
<1>5. \A j \in DOMAIN tabs \ {p} : tabs[j].key # tabs[p].key BY DEF TabsInv, KeysAreFresh
<1>6. ShellKeys' = {tabs[j].key : j \in {i \in DOMAIN tabs : tabs[i].kind = "shell"} \ {p}}
  BY <1>3, <1>4 DEF ShellKeys
<1>7. ShellKeys' = ShellKeys \ {tabs[p].key} BY <1>5, <1>6 DEF ShellKeys
<1> QED BY <1>3, <1>7

LEMMA ShellKeysAreKeys == ASSUME TabsInv PROVE ShellKeys \subseteq Keys
<1>1. \A i \in DOMAIN tabs : tabs[i] \in Tab BY DEF TabsInv, TabsTypeOK
<1> QED BY <1>1 DEF ShellKeys, Tab

LEMMA AppInvInit == AppInit => AppInv
<1> SUFFICES ASSUME AppInit PROVE AppInv
  OBVIOUS
<1>1. TabsInv BY TabsInvInit DEF AppInit
<1>2. AppTypeOK BY NormalIsTyped DEF AppInit, PrefsInit, AppTypeOK
<1>3. ShellKeys = {} BY DEF AppInit, Init, ShellKeys
<1> QED BY <1>1, <1>2, <1>3 DEF AppInv, LookIsPrefs

-----------------------------------------------------------------------------
\* A step of the page is a step of its tabs, or leaves them alone: whatever the preferences
\* are read from, the position is one of the three.
LEMMA AppStepIsTabs ==
  ASSUME AppInv, AppNext
  PROVE  [Next]_vars
<1> USE DEF AppInv
<1>1. CASE AppBootstrap
  <2>1. prefs'.pos \in Positions
    <3>1. prefs' = prefs \/ \E o : prefs' = NormalizePrefs(o)
      BY <1>1 DEF AppBootstrap, PageEnd, LoadPrefs
    <3> QED BY <3>1, NormalIsTyped DEF AppTypeOK
  <2>2. Bootstrap BY <1>1, <2>1 DEF AppBootstrap, CreateShellTab, Bootstrap
  <2> QED BY <2>2 DEF Next
<1>2. CASE AppNewTab
  <2>1. prefs'.pos \in Positions BY <1>2 DEF AppNewTab, prefsVars, AppTypeOK
  <2>2. NewTab BY <1>2, <2>1 DEF AppNewTab, CreateShellTab, NewTab
  <2> QED BY <2>2 DEF Next
<1>3. CASE \/ AppOpenSettings \/ AppRelaunch \/ OtherTabSteps
           \/ \E i \in DOMAIN tabs : AppRemoveTab(i)
  BY <1>3 DEF AppOpenSettings, AppRelaunch, OtherTabSteps, AppRemoveTab, Next
<1>4. CASE EditLook \/ EditQuietly \/ SaveForm \/ DiscardForm \/ ResetForm \/ Wheel \/ StoreFlushed
  BY <1>4 DEF EditLook, EditQuietly, SaveForm, DiscardForm, ResetForm, Wheel, StoreFlushed
<1> QED BY <1>1, <1>2, <1>3, <1>4 DEF AppNext

\* A terminal that is built takes the preferences of that moment.
LEMMA NewTerminalLooks ==
  ASSUME AppInv, CreateShellTab, prefs'.pos \in Positions,
         prefs' = prefs \/ tabs = <<>>
  PROVE  LookIsPrefs' /\ look' = [k \in Keys |-> look'[k]]
<1> USE DEF AppInv
<1>1. CreateTab(prefs'.pos) /\ look' = [look EXCEPT ![nextKey] = Look(prefs')]
  BY DEF CreateShellTab
<1>2. PICK tab \in Tab, p \in 1 .. Len(tabs) + 1 :
        tab.key = nextKey /\ tab.kind = "shell" /\ tabs' = Inserted(tabs, p, tab)
  BY <1>1, CreateTabInserts
<1>3. ShellKeys' = ShellKeys \cup {nextKey} BY <1>2, ShellKeysInserted
<1>4. ShellKeys \subseteq Keys /\ nextKey \in Keys /\ page' = page
  BY <1>1, ShellKeysAreKeys DEF CreateTab
<1>5. \A k \in Keys : look'[k] = IF k = nextKey THEN Look(prefs') ELSE look[k]
  BY <1>1 DEF AppTypeOK
<1>6. tabs = <<>> => ShellKeys = {} BY DEF ShellKeys
<1>7. look' = [k \in Keys |-> look'[k]] BY <1>1 DEF AppTypeOK
<1> QED BY <1>3, <1>4, <1>5, <1>6, <1>7 DEF LookIsPrefs

LEMMA TabStepsLook ==
  ASSUME AppInv,
         \/ AppBootstrap \/ AppNewTab \/ AppOpenSettings \/ AppRelaunch \/ OtherTabSteps
         \/ \E i \in DOMAIN tabs : AppRemoveTab(i)
  PROVE  AppTypeOK' /\ LookIsPrefs'
<1> USE DEF AppInv
<1>1. CASE AppBootstrap
  <2>1. prefs' = prefs \/ \E o : prefs' = NormalizePrefs(o)
    BY <1>1 DEF AppBootstrap, PageEnd, LoadPrefs
  <2>2. prefs' = [f \in PrefFields |-> prefs'[f]] /\ prefs'.pos \in Positions
    <3>1. CASE prefs' = prefs BY <3>1 DEF AppTypeOK
    <3>2. ASSUME NEW o, prefs' = NormalizePrefs(o)
          PROVE  prefs' = [f \in PrefFields |-> prefs'[f]] /\ prefs'.pos \in Positions
      BY <3>2, NormalIsTyped
    <3> QED BY <2>1, <3>1, <3>2
  <2>3. LookIsPrefs' /\ look' = [k \in Keys |-> look'[k]]
    BY <1>1, <2>2, NewTerminalLooks DEF AppBootstrap
  <2> QED BY <2>2, <2>3 DEF AppTypeOK
<1>2. CASE AppNewTab
  <2>1. prefs' = prefs BY <1>2 DEF AppNewTab, prefsVars
  <2>2. LookIsPrefs' /\ look' = [k \in Keys |-> look'[k]]
    BY <1>2, <2>1, NewTerminalLooks DEF AppNewTab, AppTypeOK
  <2> QED BY <2>1, <2>2 DEF AppTypeOK
<1>3. CASE AppOpenSettings
  <2>1. UNCHANGED <<prefs, look, page>>
    BY <1>3 DEF AppOpenSettings, OpenForm, prefsVars, OpenSettings, SwitchTab, CreateSettingsTab
  <2>2. ShellKeys' = ShellKeys
    <3>1. CASE UNCHANGED tabs BY <3>1 DEF ShellKeys
    <3>2. CASE CreateSettingsTab
      <4>1. PICK tab \in Tab, p \in 1 .. Len(tabs) + 1 :
              tab.kind = "settings" /\ tabs' = Inserted(tabs, p, tab)
        BY <3>2, CreateSettingsInserts
      <4> QED BY <4>1, ShellKeysInserted
    <3> QED BY <1>3, <3>1, <3>2 DEF AppOpenSettings, OpenSettings, SwitchTab
  <2> QED BY <2>1, <2>2 DEF AppTypeOK, LookIsPrefs
<1>4. ASSUME NEW i \in DOMAIN tabs, AppRemoveTab(i) PROVE AppTypeOK' /\ LookIsPrefs'
  <2>1. RemoveTab(i) /\ prefs' = prefs /\ look' = [look EXCEPT ![tabs[i].key] = NoLook]
    BY <1>4 DEF AppRemoveTab, CloseForm, prefsVars
  <2>2. ShellKeys' = ShellKeys \ {tabs[i].key} BY <2>1, ShellKeysRemoved
  <2>3. page' = page BY <2>1 DEF RemoveTab
  <2>4. ShellKeys \subseteq Keys BY ShellKeysAreKeys
  <2>5. \A k \in Keys \ {tabs[i].key} : look'[k] = look[k] BY <2>1 DEF AppTypeOK
  <2> QED BY <2>1, <2>2, <2>3, <2>4, <2>5 DEF AppTypeOK, LookIsPrefs
<1>5. CASE AppRelaunch
  <2>1. prefs' = [f \in PrefFields |-> prefs'[f]] /\ prefs'.pos \in Positions
    BY <1>5, NormalIsTyped DEF AppRelaunch, Relaunched
  <2>2. ShellKeys' = {} /\ look' = [k \in Keys |-> NoLook]
    BY <1>5 DEF AppRelaunch, Relaunch, ShellKeys
  <2>3. look' = [k \in Keys |-> look'[k]] BY <2>2
  <2> QED BY <2>1, <2>2, <2>3 DEF AppTypeOK, LookIsPrefs
<1>6. CASE OtherTabSteps
  <2>1. UNCHANGED <<prefs, look, tabs>> /\ (page' = page \/ page' = "gone")
    BY <1>6 DEF OtherTabSteps, prefsVars, ClickTab, CycleTab, SwitchTab, WriteToTerminal, Disappear,
       ShellPrints, PostOutput, pageVars
  <2> QED BY <2>1 DEF AppTypeOK, LookIsPrefs, ShellKeys
<1> QED BY <1>1, <1>2, <1>3, <1>4, <1>5, <1>6

LEMMA PrefStepsLook ==
  ASSUME AppInv,
         EditLook \/ EditQuietly \/ SaveForm \/ DiscardForm \/ ResetForm \/ Wheel \/ StoreFlushed
  PROVE  AppTypeOK' /\ LookIsPrefs'
<1> USE DEF AppInv
<1>1. UNCHANGED vars
  BY DEF EditLook, EditQuietly, SaveForm, DiscardForm, ResetForm, Wheel, StoreFlushed
<1>2. ShellKeys' = ShellKeys /\ page' = page /\ ShellKeys \subseteq Keys
  BY <1>1, ShellKeysAreKeys DEF vars, pageVars, ShellKeys
<1>3. ASSUME ApplyToShells, prefs' = [f \in PrefFields |-> prefs'[f]], prefs'.pos \in Positions
      PROVE  AppTypeOK' /\ LookIsPrefs'
  <2>1. \A k \in ShellKeys : look'[k] = Look(prefs') BY <1>2, <1>3 DEF ApplyToShells
  <2>2. look' = [k \in Keys |-> look'[k]] BY <1>3 DEF ApplyToShells
  <2> QED BY <1>2, <1>3, <2>1, <2>2 DEF AppTypeOK, LookIsPrefs
<1>4. CASE EditLook \/ Wheel
  <2>1. ApplyToShells /\ \E field \in {"size", "family"} : \E value : Sets(field, value)
    BY <1>4 DEF EditLook, Wheel, SetFontFamily, SetFontSize, WheelFontSize
  <2> QED BY <1>3, <2>1, SetsKeeps DEF PrefFields
<1>5. CASE DiscardForm \/ ResetForm
  <2>1. ApplyToShells /\ \E o : prefs' = NormalizePrefs(o)
    BY <1>5 DEF DiscardForm, ResetForm, Discard, ResetToFactory
  <2> QED BY <1>3, <2>1, NormalIsTyped
<1>6. CASE SaveForm \/ StoreFlushed
  <2>1. UNCHANGED <<prefs, look>> BY <1>6 DEF SaveForm, Save, StoreFlushed, Flushed
  <2> QED BY <1>2, <2>1 DEF AppTypeOK, LookIsPrefs
<1>7. CASE EditQuietly
  <2>1. look' = look BY <1>7 DEF EditQuietly
  <2>2. ASSUME NEW field \in {"pos", "menu"}, NEW value, Sets(field, value),
               field = "pos" => value \in Positions
        PROVE  AppTypeOK' /\ LookIsPrefs'
    <3>1. /\ prefs' = [f \in PrefFields |-> prefs'[f]] /\ prefs'.pos \in Positions
          /\ Look(prefs') = Look(prefs)
      BY <2>2, SetsKeeps DEF PrefFields
    <3> QED BY <1>2, <2>1, <3>1 DEF AppTypeOK, LookIsPrefs
  <2>3. ASSUME NEW v \in Formats, SetCopyFormat(v) PROVE AppTypeOK' /\ LookIsPrefs'
    <3>1. prefs' = [prefs EXCEPT !.copyFormat = v, !.copyAsHtml = (v = "html")]
      BY <2>3 DEF SetCopyFormat
    <3>2. DOMAIN prefs = PrefFields /\ {"pos", "size", "family"} \subseteq PrefFields
      BY DEF AppTypeOK, PrefFields
    <3>3. /\ prefs' = [f \in PrefFields |-> prefs'[f]]
          /\ prefs'.pos = prefs.pos /\ prefs'.size = prefs.size /\ prefs'.family = prefs.family
      BY <3>1, <3>2
    <3>4. Look(prefs') = Look(prefs) BY <3>3 DEF Look
    <3> QED BY <1>2, <2>1, <3>3, <3>4 DEF AppTypeOK, LookIsPrefs
  <2>4. ASSUME EditMenu PROVE \E value : Sets("menu", value)
    BY <2>4 DEF EditMenu, MoveMenuItem, DeleteMenuItem, AddMenuItem
  <2> QED BY <1>7, <2>2, <2>3, <2>4 DEF EditQuietly, SetNewTabPosition, TabPositions, Positions
<1> QED BY <1>4, <1>5, <1>6, <1>7

LEMMA AppInvStep == AppInv /\ [AppNext]_appVars => AppInv' /\ [Next]_vars
<1> SUFFICES ASSUME AppInv, [AppNext]_appVars PROVE AppInv' /\ [Next]_vars
  OBVIOUS
<1>1. [Next]_vars BY AppStepIsTabs DEF appVars
<1>2. TabsInv' BY <1>1, TabsInvStep DEF AppInv
<1>3. AppTypeOK' /\ LookIsPrefs'
  <2>1. CASE UNCHANGED appVars
    <3>1. UNCHANGED <<prefs, look, tabs, page>>
      BY <2>1 DEF appVars, vars, pageVars, prefsVars
    <3> QED BY <3>1 DEF AppInv, AppTypeOK, LookIsPrefs, ShellKeys
  <2>2. CASE AppNext BY <2>2, TabStepsLook, PrefStepsLook DEF AppNext
  <2> QED BY <2>1, <2>2
<1> QED BY <1>1, <1>2, <1>3 DEF AppInv

\* Every terminal, in front or not, has the font of the preferences, whichever of the form,
\* the wheel, a discard, a reset or a new launch set it (1693-1768).
THEOREM TerminalsLookAlike == AppSpec => []LookIsPrefs
<1>1. AppInv => LookIsPrefs BY DEF AppInv
<1> QED BY <1>1, AppInvInit, AppInvStep, PTL DEF AppSpec
-----------------------------------------------------------------------------
(* TerminalPrefs: what is written is what is read back. *)

\* A menu as the normalisation leaves it: entries it knows, `remaining' once.
Once(list) == \A i, j \in DOMAIN list : list[i] = "remaining" /\ list[j] = "remaining" => i = j
ProperMenu(list) == /\ list \in Seq(MenuKinds) /\ Once(list)
                    /\ \E i \in DOMAIN list : list[i] = "remaining"

\* One turn of the loop over the entries.
MenuTurn(f, raw, i) ==
  IF i = 0 THEN <<>>
  ELSE IF raw[i] \in Entries \/ (raw[i] = "remaining" /\ ~Contains(f[i - 1], "remaining"))
    THEN Append(f[i - 1], raw[i]) ELSE f[i - 1]

\* The loop can be run through, and a run of it is what the turns say.
LEMMA MenuTurnsExist ==
  ASSUME NEW raw, NEW N \in Nat
  PROVE  \E f : f = [i \in 0 .. N |-> MenuTurn(f, raw, i)]
<1> DEFINE Made(n) == \E f : DOMAIN f = 0 .. n /\ \A i \in 0 .. n : f[i] = MenuTurn(f, raw, i)
           S == {n \in Nat : ~Made(n)}
<1>1. Made(0)
  <2> DEFINE f == [i \in 0 .. 0 |-> <<>>]
  <2>1. DOMAIN f = 0 .. 0 /\ \A i \in 0 .. 0 : f[i] = MenuTurn(f, raw, i)
    BY DEF MenuTurn
  <2> QED BY <2>1
<1>2. ASSUME NEW n \in Nat, Made(n) PROVE Made(n + 1)
  <2>1. PICK f : DOMAIN f = 0 .. n /\ \A i \in 0 .. n : f[i] = MenuTurn(f, raw, i)
    BY <1>2
  <2> DEFINE next == MenuTurn(f, raw, n + 1)
             g == [i \in 0 .. n + 1 |-> IF i \in 0 .. n THEN f[i] ELSE next]
  <2>2. \A i \in 0 .. n : g[i] = f[i]
    OBVIOUS
  <2>3. g[n + 1] = next /\ DOMAIN g = 0 .. n + 1
    OBVIOUS
  <2> HIDE DEF g
  <2>4. ASSUME NEW i \in 0 .. n + 1 PROVE MenuTurn(g, raw, i) = MenuTurn(f, raw, i)
    <3>1. i # 0 => g[i - 1] = f[i - 1]
      BY <2>2
    <3> QED BY <3>1 DEF MenuTurn
  <2>5. ASSUME NEW i \in 0 .. n + 1 PROVE g[i] = MenuTurn(g, raw, i)
    <3>1. CASE i \in 0 .. n BY <2>1, <2>2, <2>4, <3>1
    <3>2. CASE i = n + 1 BY <2>3, <2>4, <3>2
    <3> QED BY <3>1, <3>2
  <2> QED BY <2>3, <2>5
<1> HIDE DEF Made
<1>3. S = {}
  <2> SUFFICES ASSUME S # {} PROVE FALSE
    OBVIOUS
  <2>1. PICK n \in S : \A m \in S : n <= m
    BY LeastIsFirst
  <2>2. n \in Nat /\ ~Made(n) /\ n # 0
    BY <1>1, <2>1
  <2>3. n - 1 \in Nat /\ n - 1 \notin S
    BY <2>1, <2>2
  <2>4. Made((n - 1) + 1)
    BY <1>2, <2>3
  <2>5. (n - 1) + 1 = n
    BY <2>2
  <2> QED BY <2>2, <2>4, <2>5
<1>4. PICK f : DOMAIN f = 0 .. N /\ \A i \in 0 .. N : f[i] = MenuTurn(f, raw, i)
  BY <1>3 DEF Made
<1> DEFINE g == [i \in 0 .. N |-> f[i]]
<1>5. \A i \in 0 .. N : g[i] = f[i]
  OBVIOUS
<1>6. g = [i \in 0 .. N |-> MenuTurn(f, raw, i)]
  BY <1>4
<1> HIDE DEF g
<1>7. ASSUME NEW i \in 0 .. N PROVE MenuTurn(g, raw, i) = MenuTurn(f, raw, i)
  <2>1. i # 0 => g[i - 1] = f[i - 1]
    BY <1>5
  <2> QED BY <2>1 DEF MenuTurn
<1>8. g = [i \in 0 .. N |-> MenuTurn(g, raw, i)]
  BY <1>6, <1>7
<1> QED BY <1>8

\* What a property of the loop's list needs to hold at its end.
LEMMA MenuLoop ==
  ASSUME NEW raw \in Seq(Texts)
  PROVE  \E f : /\ \A i \in 0 .. Len(raw) : f[i] = MenuTurn(f, raw, i)
                /\ NormalizeNewTabMenuItems(raw) =
                     IF Contains(f[Len(raw)], "remaining") THEN f[Len(raw)]
                     ELSE Append(f[Len(raw)], "remaining")
<1> DEFINE out == CHOOSE f : f = [i \in 0 .. Len(raw) |-> MenuTurn(f, raw, i)]
<1>1. out = [i \in 0 .. Len(raw) |-> MenuTurn(out, raw, i)]
  <2>1. Len(raw) \in Nat OBVIOUS
  <2> QED BY <2>1, MenuTurnsExist
<1>2. NormalizeNewTabMenuItems(raw) =
        IF Contains(out[Len(raw)], "remaining") THEN out[Len(raw)]
        ELSE Append(out[Len(raw)], "remaining")
  BY DEF NormalizeNewTabMenuItems, MenuTurn
<1> HIDE DEF out
<1>3. \A i \in 0 .. Len(raw) : out[i] = MenuTurn(out, raw, i)
  BY <1>1
<1> QED BY <1>2, <1>3

\* One entry more.
LEMMA AppendOnce ==
  ASSUME NEW list \in Seq(MenuKinds), Once(list), NEW e \in MenuKinds,
         e = "remaining" => ~Contains(list, "remaining")
  PROVE  Append(list, e) \in Seq(MenuKinds) /\ Once(Append(list, e))
<1> DEFINE more == Append(list, e)
<1>1. /\ more \in Seq(MenuKinds) /\ Len(list) \in Nat /\ DOMAIN list = 1 .. Len(list)
      /\ DOMAIN more = 1 .. Len(list) + 1 /\ more[Len(list) + 1] = e
      /\ \A i \in 1 .. Len(list) : more[i] = list[i]
  BY AppendProperties
<1> HIDE DEF more
<1>2. Once(more)
  <2> SUFFICES ASSUME NEW i \in DOMAIN more, NEW j \in DOMAIN more,
                      more[i] = "remaining", more[j] = "remaining"
               PROVE  i = j
    BY DEF Once
  <2>1. \A k \in 1 .. Len(list) : list[k] = "remaining" => e # "remaining"
    BY DEF Contains
  <2> QED BY <1>1, <2>1 DEF Once
<1> QED BY <1>1, <1>2 DEF more

\* Whatever was stored, the menu that is read is proper.
LEMMA MenuIsProper ==
  ASSUME NEW raw \in Seq(Texts)
  PROVE  ProperMenu(NormalizeNewTabMenuItems(raw))
<1>1. PICK f : /\ \A i \in 0 .. Len(raw) : f[i] = MenuTurn(f, raw, i)
               /\ NormalizeNewTabMenuItems(raw) =
                    IF Contains(f[Len(raw)], "remaining") THEN f[Len(raw)]
                    ELSE Append(f[Len(raw)], "remaining")
  BY MenuLoop
<1> DEFINE Fine(i) == f[i] \in Seq(MenuKinds) /\ Once(f[i])
           S == {i \in 0 .. Len(raw) : ~Fine(i)}
<1>2. Len(raw) \in Nat OBVIOUS
<1>3. S = {}
  <2> SUFFICES ASSUME S # {} PROVE FALSE
    OBVIOUS
  <2>1. PICK n \in S : \A m \in S : n <= m
    <3>1. S \subseteq Nat BY <1>2
    <3> QED BY <3>1, LeastIsFirst
  <2>2. n \in 0 .. Len(raw) /\ ~Fine(n) /\ f[n] = MenuTurn(f, raw, n)
    BY <1>1, <2>1
  <2>3. CASE n = 0
    <3>1. f[n] = <<>> BY <2>2, <2>3 DEF MenuTurn
    <3> QED BY <2>2, <3>1 DEF Once
  <2>4. CASE n # 0
    <3>1. n - 1 \in 0 .. Len(raw) /\ n - 1 \notin S
      BY <1>2, <2>1, <2>2, <2>4
    <3>2. Fine(n - 1)
      BY <3>1
    <3>3. CASE f[n] = f[n - 1] BY <2>2, <3>2, <3>3
    <3>4. CASE f[n] # f[n - 1]
      <4>1. /\ f[n] = Append(f[n - 1], raw[n]) /\ raw[n] \in MenuKinds
            /\ raw[n] = "remaining" => ~Contains(f[n - 1], "remaining")
        BY <2>2, <2>4, <3>4, MenuAssumption DEF MenuTurn, MenuKinds
      <4> QED BY <2>2, <3>2, <4>1, AppendOnce
    <3> QED BY <3>3, <3>4
  <2> QED BY <2>3, <2>4
<1> DEFINE list == f[Len(raw)]
<1>4. list \in Seq(MenuKinds) /\ Once(list)
  BY <1>2, <1>3
<1> HIDE DEF list
<1>5. CASE Contains(list, "remaining")
  BY <1>1, <1>4, <1>5 DEF Contains, ProperMenu, list
<1>6. CASE ~Contains(list, "remaining")
  <2>1. "remaining" \in MenuKinds BY DEF MenuKinds
  <2>2. Append(list, "remaining") \in Seq(MenuKinds) /\ Once(Append(list, "remaining"))
    BY <1>4, <1>6, <2>1, AppendOnce
  <2>3. /\ Len(list) + 1 \in DOMAIN Append(list, "remaining")
        /\ Append(list, "remaining")[Len(list) + 1] = "remaining"
    BY <1>4, <2>1, AppendProperties, LenProperties
  <2> QED BY <1>1, <1>6, <2>2, <2>3 DEF ProperMenu, list
<1> QED BY <1>5, <1>6

\* A list grows by its next element.
LEMMA LongerByOne ==
  ASSUME NEW S, NEW seq \in Seq(S), NEW i \in 1 .. Len(seq)
  PROVE  Append(SubSeq(seq, 1, i - 1), seq[i]) = SubSeq(seq, 1, i)
<1>1. /\ Len(seq) \in Nat /\ DOMAIN seq = 1 .. Len(seq)
      /\ \A k \in 1 .. Len(seq) : seq[k] \in S
  OBVIOUS
<1> DEFINE a == SubSeq(seq, 1, i - 1)  b == SubSeq(seq, 1, i)  c == Append(a, seq[i])
<1>2. /\ a \in Seq(S) /\ Len(a) = i - 1 /\ \A k \in 1 .. i - 1 : a[k] = seq[k]
      /\ b \in Seq(S) /\ Len(b) = i /\ \A k \in 1 .. i : b[k] = seq[k]
  BY <1>1, SubSeqProperties
<1> HIDE DEF a, b
<1>3. c \in Seq(S) /\ Len(c) = i /\ c[i] = seq[i] /\ \A k \in 1 .. i - 1 : c[k] = a[k]
  BY <1>1, <1>2, AppendProperties
<1> HIDE DEF c
<1>4. \A k \in 1 .. i : c[k] = b[k]
  BY <1>2, <1>3
<1>5. c = b
  BY <1>2, <1>3, <1>4, SeqEqual
<1> QED BY <1>5 DEF a, b, c

\* The entries of a menu are text.
LEMMA MenuIsText ==
  ASSUME NEW list \in Seq(MenuKinds)
  PROVE  list \in Seq(Texts)
<1>1. \A i \in 1 .. Len(list) : list[i] \in Texts BY StoreAssumption
<1>2. list = [i \in 1 .. Len(list) |-> list[i]] /\ Len(list) \in Nat OBVIOUS
<1> QED BY <1>1, <1>2

\* A proper menu is read as it is.
LEMMA ProperMenuStays ==
  ASSUME NEW list, ProperMenu(list)
  PROVE  NormalizeNewTabMenuItems(list) = list
<1>1. /\ list \in Seq(Texts) /\ Len(list) \in Nat /\ DOMAIN list = 1 .. Len(list)
      /\ \A i \in 1 .. Len(list) : list[i] \in MenuKinds
  BY MenuIsText DEF ProperMenu
<1>2. PICK f : /\ \A i \in 0 .. Len(list) : f[i] = MenuTurn(f, list, i)
               /\ NormalizeNewTabMenuItems(list) =
                    IF Contains(f[Len(list)], "remaining") THEN f[Len(list)]
                    ELSE Append(f[Len(list)], "remaining")
  BY <1>1, MenuLoop
<1> DEFINE Part(i) == SubSeq(list, 1, i)
           S == {i \in 0 .. Len(list) : f[i] # Part(i)}
<1>3. ASSUME NEW i \in 1 .. Len(list)
      PROVE  Append(Part(i - 1), list[i]) = Part(i)
  BY <1>1, LongerByOne
<1>4. ASSUME NEW i \in 1 .. Len(list), list[i] = "remaining"
      PROVE  ~Contains(Part(i - 1), "remaining")
  <2>1. i - 1 \in 0 .. Len(list) BY <1>1
  <2>2. Len(Part(i - 1)) = i - 1 /\ \A j \in 1 .. i - 1 : Part(i - 1)[j] = list[j]
    BY <1>1, <2>1, SubSeqProperties
  <2> QED BY <1>1, <1>4, <2>2 DEF Contains, ProperMenu, Once
<1>5. Part(0) = <<>> /\ Part(Len(list)) = list
  BY <1>1, SubSeqEmpty, SubSeqFull
<1> HIDE DEF Part
<1>6. S = {}
  <2> SUFFICES ASSUME S # {} PROVE FALSE
    OBVIOUS
  <2>1. PICK n \in S : \A m \in S : n <= m
    <3>1. S \subseteq Nat BY <1>1
    <3> QED BY <3>1, LeastIsFirst
  <2>2. n \in 0 .. Len(list) /\ f[n] # Part(n) /\ f[n] = MenuTurn(f, list, n)
    BY <1>2, <2>1
  <2>3. CASE n = 0 BY <1>5, <2>2, <2>3 DEF MenuTurn
  <2>4. CASE n # 0
    <3>1. n - 1 \in 0 .. Len(list) /\ n - 1 \notin S /\ n \in 1 .. Len(list)
      BY <1>1, <2>1, <2>2, <2>4
    <3>2. f[n - 1] = Part(n - 1) BY <3>1
    <3>3. f[n] = Append(Part(n - 1), list[n])
      BY <1>1, <1>4, <2>2, <2>4, <3>1, <3>2 DEF MenuTurn, MenuKinds
    <3> QED BY <1>3, <2>2, <3>1, <3>3
  <2> QED BY <2>3, <2>4
<1>7. f[Len(list)] = list BY <1>1, <1>5, <1>6
<1>8. Contains(list, "remaining") BY <1>1 DEF ProperMenu, Contains
<1> QED BY <1>2, <1>7, <1>8

\* Preferences that a normalisation leaves as they are, but for an empty font.
Proper(p) ==
  /\ p \in Raws /\ p.pos \in TabPositions
  /\ p.copyFormat \in Formats /\ p.copyAsHtml = (p.copyFormat = "html")
  /\ p.size \in MinFont .. MaxFont /\ ProperMenu(p.menu)

\* What is read is proper, whatever was stored or nothing.
LEMMA ReadIsProper ==
  ASSUME NEW o \in Raws \cup {None}
  PROVE  Proper(NormalizePrefs(o))
<1> DEFINE p == NormalizePrefs(o)
<1>1. CASE o = None
  <2>1. ProperMenu(NormalizeNewTabMenuItems(<<>>))
    <3>1. <<>> \in Seq(Texts) OBVIOUS
    <3> QED BY <3>1, MenuIsProper
  <2>2. NormalizeNewTabMenuItems(<<>>) \in Seq(Texts)
    BY <2>1, MenuIsText DEF ProperMenu
  <2>3. p = Factory BY <1>1 DEF NormalizePrefs
  <2> HIDE DEF p
  <2>4. /\ p.pos = "last" /\ p.copyFormat = "plain"
        /\ p.size = DefaultFont /\ p.menu = NormalizeNewTabMenuItems(<<>>)
    BY <2>3 DEF Factory
  <2>5. p \in Raws
    <3>1. {"last", "plain", "Cascadia Mono"} \subseteq Texts
      BY StoreAssumption DEF TabPositions, Formats, Families
    <3> QED BY <2>2, <2>3, <3>1, FontAssumption DEF Factory, Raws
  <2>6. p.copyAsHtml = (p.copyFormat = "html")
    <3>1. "plain" # "html" OBVIOUS
    <3>2. (p.copyFormat = "html") = FALSE BY <2>4, <3>1
    <3>3. p.copyAsHtml = FALSE BY <2>3 DEF Factory
    <3> QED BY <3>2, <3>3
  <2>7. p.size \in MinFont .. MaxFont BY <2>4, FontAssumption
  <2>8. p.pos \in TabPositions /\ p.copyFormat \in Formats
    BY <2>4 DEF TabPositions, Formats
  <2>9. ProperMenu(p.menu) BY <2>1, <2>4
  <2> QED BY <2>5, <2>6, <2>7, <2>8, <2>9, Zenon DEF Proper, p
<1>2. CASE o # None
  <2>1. /\ o.pos \in Texts /\ o.copyFormat \in Texts /\ o.size \in Int
        /\ o.family \in Texts /\ o.menu \in Seq(Texts)
    BY <1>2 DEF Raws
  <2>2. ProperMenu(NormalizeNewTabMenuItems(o.menu))
    BY <2>1, MenuIsProper
  <2>3. NormalizeNewTabMenuItems(o.menu) \in Seq(Texts)
    BY <2>2, MenuIsText DEF ProperMenu
  <2>4. PICK format \in Formats :
          p = [pos        |-> IF o.pos \in {"first", "after_current"} THEN o.pos ELSE "last",
               copyFormat |-> format,
               copyAsHtml |-> format = "html",
               size       |-> ClampFontSize(o.size),
               family     |-> ComposeFontFamily(o.family),
               menu       |-> NormalizeNewTabMenuItems(o.menu)]
    BY <1>2 DEF NormalizePrefs, Factory, Formats
  <2> HIDE DEF p
  <2>5. ClampFontSize(o.size) \in MinFont .. MaxFont
    BY <2>1, FontAssumption DEF ClampFontSize
  <2>6. ComposeFontFamily(o.family) \in Texts
    <3>1. "Cascadia Mono" \in Texts BY StoreAssumption DEF Families
    <3> QED BY <2>1, <3>1 DEF ComposeFontFamily
  <2>7. p \in Raws
    <3>1. "last" \in Texts /\ format \in Texts /\ (format = "html") \in BOOLEAN
      BY StoreAssumption DEF TabPositions
    <3>2. ClampFontSize(o.size) \in Int BY <2>5, FontAssumption
    <3> DEFINE pos == IF o.pos \in {"first", "after_current"} THEN o.pos ELSE "last"
    <3>3. pos \in Texts BY <2>1, <3>1
    <3> HIDE DEF pos
    <3> QED BY <2>3, <2>4, <2>6, <3>1, <3>2, <3>3 DEF Raws, pos
  <2>8. /\ p.copyFormat = format /\ p.copyAsHtml = (format = "html")
        /\ p.size = ClampFontSize(o.size) /\ p.menu = NormalizeNewTabMenuItems(o.menu)
    BY <2>4
  <2>9. p.copyAsHtml = (p.copyFormat = "html") BY <2>8
  <2>10. p.pos \in TabPositions BY <2>4 DEF TabPositions
  <2>11. /\ p.copyFormat \in Formats /\ p.size \in MinFont .. MaxFont
         /\ ProperMenu(p.menu)
    BY <2>2, <2>5, <2>8
  <2> QED BY <2>7, <2>9, <2>10, <2>11, Zenon DEF Proper, p
<1> QED BY <1>1, <1>2

LEMMA ProperReadsBack ==
  ASSUME NEW p, Proper(p)
  PROVE  p # None /\ NormalizePrefs(p) = Shown(p)
<1>1. p # None BY StoreAssumption DEF Proper
<1>2. p = [pos |-> p.pos, copyFormat |-> p.copyFormat, copyAsHtml |-> p.copyAsHtml,
           size |-> p.size, family |-> p.family, menu |-> p.menu]
  BY DEF Proper, Raws
<1>3. Shown(p) = [pos |-> p.pos, copyFormat |-> p.copyFormat, copyAsHtml |-> p.copyAsHtml,
                  size |-> p.size, family |-> ComposeFontFamily(p.family), menu |-> p.menu]
  BY <1>2 DEF Shown
<1>4. ClampFontSize(p.size) = p.size
  BY FontAssumption DEF ClampFontSize, Proper
<1>5. NormalizeNewTabMenuItems(p.menu) = p.menu
  BY ProperMenuStays DEF Proper
<1>6. (IF p.pos \in {"first", "after_current"} THEN p.pos ELSE "last") = p.pos
  BY DEF Proper, TabPositions
<1>7. NormalizePrefs(p) =
        [pos |-> p.pos, copyFormat |-> p.copyFormat, copyAsHtml |-> (p.copyFormat = "html"),
         size |-> p.size, family |-> ComposeFontFamily(p.family), menu |-> p.menu]
  BY <1>1, <1>4, <1>5, <1>6 DEF NormalizePrefs, Proper
<1>8. p.copyAsHtml = (p.copyFormat = "html")
  BY DEF Proper
<1> QED BY <1>1, <1>3, <1>7, <1>8

-----------------------------------------------------------------------------
(* TerminalPrefs: every step keeps the preferences proper. *)

\* A field is written and the others stay.
LEMMA SetsKeepsProper ==
  ASSUME Proper(prefs), NEW field \in {"pos", "size", "family", "menu"}, NEW value,
         Sets(field, value),
         field = "pos" => value \in TabPositions,
         field = "size" => value \in MinFont .. MaxFont,
         field = "family" => value \in Families,
         field = "menu" => ProperMenu(value)
  PROVE  Proper(prefs')
<1>1. prefs' = [prefs EXCEPT ![field] = value] BY DEF Sets
<1>2. /\ prefs.pos \in Texts /\ prefs.copyFormat \in Texts /\ prefs.copyAsHtml \in BOOLEAN
      /\ prefs.size \in Int /\ prefs.family \in Texts /\ prefs.menu \in Seq(Texts)
      /\ prefs = [pos |-> prefs.pos, copyFormat |-> prefs.copyFormat,
                  copyAsHtml |-> prefs.copyAsHtml, size |-> prefs.size,
                  family |-> prefs.family, menu |-> prefs.menu]
  BY DEF Proper, Raws
<1>3. CASE field = "pos"
  <2>1. value \in Texts BY <1>3, StoreAssumption
  <2>2. prefs' = [pos |-> value, copyFormat |-> prefs.copyFormat,
                  copyAsHtml |-> prefs.copyAsHtml, size |-> prefs.size,
                  family |-> prefs.family, menu |-> prefs.menu]
    BY <1>1, <1>2, <1>3
  <2>3. prefs' \in Raws BY <1>2, <2>1, <2>2 DEF Raws
  <2> QED BY <1>3, <2>2, <2>3 DEF Proper
<1>4. CASE field = "size"
  <2>1. value \in Int BY <1>4, FontAssumption
  <2>2. prefs' = [pos |-> prefs.pos, copyFormat |-> prefs.copyFormat,
                  copyAsHtml |-> prefs.copyAsHtml, size |-> value,
                  family |-> prefs.family, menu |-> prefs.menu]
    BY <1>1, <1>2, <1>4
  <2>3. prefs' \in Raws BY <1>2, <2>1, <2>2 DEF Raws
  <2> QED BY <1>4, <2>2, <2>3 DEF Proper
<1>5. CASE field = "family"
  <2>1. value \in Texts BY <1>5, StoreAssumption
  <2>2. prefs' = [pos |-> prefs.pos, copyFormat |-> prefs.copyFormat,
                  copyAsHtml |-> prefs.copyAsHtml, size |-> prefs.size,
                  family |-> value, menu |-> prefs.menu]
    BY <1>1, <1>2, <1>5
  <2>3. prefs' \in Raws BY <1>2, <2>1, <2>2 DEF Raws
  <2> QED BY <1>5, <2>2, <2>3 DEF Proper
<1>6. CASE field = "menu"
  <2>1. value \in Seq(Texts) BY <1>6, MenuIsText DEF ProperMenu
  <2>2. prefs' = [pos |-> prefs.pos, copyFormat |-> prefs.copyFormat,
                  copyAsHtml |-> prefs.copyAsHtml, size |-> prefs.size,
                  family |-> prefs.family, menu |-> value]
    BY <1>1, <1>2, <1>6
  <2>3. prefs' \in Raws BY <1>2, <2>1, <2>2 DEF Raws
  <2> QED BY <1>6, <2>2, <2>3 DEF Proper
<1> QED BY <1>3, <1>4, <1>5, <1>6

LEMMA FormatKeepsProper ==
  ASSUME Proper(prefs), NEW v \in Formats, SetCopyFormat(v)
  PROVE  Proper(prefs')
<1>1. prefs' = [prefs EXCEPT !.copyFormat = v, !.copyAsHtml = (v = "html")]
  BY DEF SetCopyFormat
<1>2. /\ prefs.pos \in Texts /\ prefs.size \in Int
      /\ prefs.family \in Texts /\ prefs.menu \in Seq(Texts)
      /\ prefs = [pos |-> prefs.pos, copyFormat |-> prefs.copyFormat,
                  copyAsHtml |-> prefs.copyAsHtml, size |-> prefs.size,
                  family |-> prefs.family, menu |-> prefs.menu]
  BY DEF Proper, Raws
<1> DEFINE html == v = "html"
<1>3. v \in Texts /\ html \in BOOLEAN BY StoreAssumption
<1>4. prefs' = [prefs EXCEPT !.copyFormat = v, !.copyAsHtml = html] BY <1>1
<1> HIDE DEF html
<1>5. prefs' = [pos |-> prefs.pos, copyFormat |-> v, copyAsHtml |-> html,
                size |-> prefs.size, family |-> prefs.family, menu |-> prefs.menu]
  BY <1>2, <1>4
<1>6. prefs' \in Raws BY <1>2, <1>3, <1>5 DEF Raws
<1>7. /\ prefs'.pos = prefs.pos /\ prefs'.copyFormat = v /\ prefs'.copyAsHtml = html
      /\ prefs'.size = prefs.size /\ prefs'.menu = prefs.menu
  BY <1>5
<1>8. prefs'.copyAsHtml = (prefs'.copyFormat = "html") BY <1>7 DEF html
<1> QED BY <1>6, <1>7, <1>8 DEF Proper

\* A move exchanges two neighbours: nothing is lost or doubled.
LEMMA SwappedIsProper ==
  ASSUME NEW list, ProperMenu(list), NEW i \in 1 .. Len(list) - 1
  PROVE  ProperMenu(Swapped(list, i, i + 1))
<1>1. /\ list \in Seq(MenuKinds) /\ Len(list) \in Nat /\ DOMAIN list = 1 .. Len(list)
      /\ list = [k \in 1 .. Len(list) |-> list[k]]
      /\ \A k \in 1 .. Len(list) : list[k] \in MenuKinds
  BY DEF ProperMenu
<1> DEFINE new == Swapped(list, i, i + 1)
           from(k) == IF k = i THEN i + 1 ELSE IF k = i + 1 THEN i ELSE k
<1>2. new = [k \in 1 .. Len(list) |-> list[from(k)]]
  BY <1>1 DEF Swapped
<1>3. \A k \in 1 .. Len(list) : from(k) \in 1 .. Len(list) /\ from(from(k)) = k
  BY <1>1
<1> HIDE DEF new, from
<1>4. new \in Seq(MenuKinds) /\ DOMAIN new = 1 .. Len(list)
  <2>1. \A k \in 1 .. Len(list) : list[from(k)] \in MenuKinds BY <1>1, <1>3
  <2> QED BY <1>1, <1>2, <2>1
<1>5. \A k \in 1 .. Len(list) : new[k] = list[from(k)]
  BY <1>2
<1>6. Once(new)
  <2> SUFFICES ASSUME NEW k \in DOMAIN new, NEW m \in DOMAIN new,
                      new[k] = "remaining", new[m] = "remaining"
               PROVE  k = m
    BY DEF Once
  <2>1. from(k) = from(m) BY <1>1, <1>3, <1>4, <1>5 DEF ProperMenu, Once
  <2> QED BY <1>3, <1>4, <2>1
<1>7. \E k \in DOMAIN new : new[k] = "remaining"
  <2>1. PICK m \in 1 .. Len(list) : list[m] = "remaining" BY <1>1 DEF ProperMenu
  <2>2. from(m) \in DOMAIN new /\ new[from(m)] = list[from(from(m))]
    BY <1>3, <1>4, <1>5
  <2> QED BY <1>3, <2>1, <2>2
<1> QED BY <1>4, <1>6, <1>7 DEF ProperMenu, new

\* With an entry taken out or put in, the list is still one of texts.
LEMMA RemovedIsText ==
  ASSUME NEW list \in Seq(Texts), NEW i \in DOMAIN list
  PROVE  RemoveAt(list, i) \in Seq(Texts)
<1>1. /\ SubSeq(list, 1, i - 1) \in Seq(Texts)
      /\ SubSeq(list, i + 1, Len(list)) \in Seq(Texts)
  OBVIOUS
<1> QED BY <1>1 DEF RemoveAt

LEMMA InsertedIsText ==
  ASSUME NEW list \in Seq(Texts), NEW i \in DOMAIN list, NEW e \in Texts
  PROVE  InsertAt(list, i, e) \in Seq(Texts)
<1>1. /\ SubSeq(list, 1, i - 1) \in Seq(Texts) /\ <<e>> \in Seq(Texts)
      /\ SubSeq(list, i, Len(list)) \in Seq(Texts)
  OBVIOUS
<1> QED BY <1>1 DEF InsertAt

LEMMA EditMenuKeepsProper ==
  ASSUME Proper(prefs), EditMenu
  PROVE  Proper(prefs')
<1> DEFINE list == NormalizeNewTabMenuItems(prefs.menu)
<1>1. ProperMenu(list) /\ list \in Seq(Texts)
  <2>1. list = prefs.menu BY ProperMenuStays DEF Proper
  <2> QED BY <2>1 DEF Proper, Raws
<1>2. SUFFICES \E value : ProperMenu(value) /\ Sets("menu", value)
  BY SetsKeepsProper
<1>3. ASSUME NEW i \in 1 .. MaxItems, MoveMenuItem(i)
      PROVE  \E value : ProperMenu(value) /\ Sets("menu", value)
  BY <1>1, <1>3, SwappedIsProper DEF MoveMenuItem
<1>4. ASSUME NEW i \in 1 .. MaxItems, DeleteMenuItem(i)
      PROVE  \E value : ProperMenu(value) /\ Sets("menu", value)
  BY <1>1, <1>4, RemovedIsText, MenuIsProper DEF DeleteMenuItem
<1>5. ASSUME NEW e \in Entries, AddMenuItem(e)
      PROVE  \E value : ProperMenu(value) /\ Sets("menu", value)
  <2> DEFINE at == SelectInSeq(list, LAMBDA x : x = "remaining")
  <2>1. at \in DOMAIN list
    <3> DEFINE I == {i \in 1 .. Len(list) : list[i] = "remaining"}
    <3>1. DOMAIN list = 1 .. Len(list) /\ I \subseteq Nat BY <1>1
    <3>2. I # {} BY <1>1, <3>1 DEF ProperMenu
    <3>3. Min(I) \in I BY <3>1, <3>2, LeastIsFirst
    <3>4. at = IF I # {} THEN Min(I) ELSE 0 BY DEF SelectInSeq
    <3> QED BY <3>1, <3>2, <3>3, <3>4
  <2>2. e \in Texts BY StoreAssumption DEF MenuKinds
  <2>3. InsertAt(list, at, e) \in Seq(Texts) BY <1>1, <2>1, <2>2, InsertedIsText
  <2>4. Sets("menu", NormalizeNewTabMenuItems(InsertAt(list, at, e)))
    BY <1>5 DEF AddMenuItem
  <2> QED BY <2>3, <2>4, MenuIsProper
<1> QED BY <1>3, <1>4, <1>5 DEF EditMenu

\* The preferences in use are proper, what is stored is a version's, and what was saved is
\* in the page's store, where there is one.
PrefsInv ==
  /\ Proper(prefs)
  /\ {snapshot, local, native, disk} \subseteq Raws \cup {None}
  /\ saved # None => Proper(saved) /\ (dom => local = saved)

LEMMA ProperIsRaw ==
  ASSUME NEW p, Proper(p)
  PROVE  p \in Raws /\ NormalizePrefs(p) \in Raws /\ Proper(NormalizePrefs(p))
<1>1. p \in Raws BY DEF Proper
<1> QED BY <1>1, ReadIsProper DEF Proper

LEMMA PrefsInvInit == AppInit => PrefsInv
<1> SUFFICES ASSUME PrefsInit PROVE PrefsInv
  BY DEF AppInit
<1>1. {snapshot, local, native, disk} \subseteq Raws \cup {None} /\ saved = None
  BY StoreAssumption DEF PrefsInit
<1>2. Raw(native, local, reach) \in Raws \cup {None}
  BY <1>1 DEF Raw
<1> QED BY <1>1, <1>2, ReadIsProper DEF PrefsInit, PrefsInv

\* Both saves keep the invariant, whichever of the stores they reach.
LEMMA SaveKeepsStores ==
  ASSUME PrefsInv, NEW p, Proper(p), SavePrefs(p), Proper(prefs'),
         snapshot' \in Raws \cup {None}
  PROVE  PrefsInv'
<1>1. p \in Raws BY DEF Proper
<1>2. /\ local' = (IF dom THEN p ELSE local) /\ native' \in {native, p}
      /\ saved' = p /\ dom' = dom /\ disk' = disk
  BY DEF SavePrefs
<1>3. {snapshot', local', native', disk'} \subseteq Raws \cup {None}
  BY <1>1, <1>2 DEF PrefsInv
<1>4. Proper(saved') /\ (dom' => local' = saved')
  BY <1>2
<1> QED BY <1>3, <1>4 DEF PrefsInv

LEMMA EditsKeepPrefs ==
  ASSUME PrefsInv, EditLook \/ EditQuietly \/ Wheel
  PROVE  PrefsInv'
<1>1. Proper(prefs) BY DEF PrefsInv
<1>2. UNCHANGED <<snapshot, storeVars>> /\ Proper(prefs')
  <2>1. ASSUME NEW f \in Families, SetFontFamily(f)
        PROVE  UNCHANGED <<snapshot, storeVars>> /\ Proper(prefs')
    <3>1. Proper(prefs') BY <1>1, <2>1, SetsKeepsProper DEF SetFontFamily
    <3> QED BY <2>1, <3>1 DEF SetFontFamily, Sets
  <2>2. ASSUME NEW n \in Int, Sets("size", ClampFontSize(n))
        PROVE  UNCHANGED <<snapshot, storeVars>> /\ Proper(prefs')
    <3>1. ClampFontSize(n) \in MinFont .. MaxFont BY FontAssumption DEF ClampFontSize
    <3>2. Proper(prefs') BY <1>1, <2>2, <3>1, SetsKeepsProper
    <3> QED BY <2>2, <3>2 DEF Sets
  <2>3. CASE EditLook
    <3>1. MinFont - 1 .. MaxFont + 1 \subseteq Int BY FontAssumption
    <3> QED BY <2>1, <2>2, <2>3, <3>1 DEF EditLook, SetFontSize
  <2>4. CASE Wheel
    <3>1. PICK d \in {-1, 1} : WheelFontSize(d) BY <2>4 DEF Wheel
    <3>2. ClampFontSize(prefs.size) + d \in Int
      BY <1>1, FontAssumption DEF Proper, ClampFontSize
    <3> QED BY <2>2, <3>1, <3>2 DEF WheelFontSize
  <2>5. CASE EditQuietly
    <3>1. ASSUME NEW v \in TabPositions, SetNewTabPosition(v)
          PROVE  UNCHANGED <<snapshot, storeVars>> /\ Proper(prefs')
      <4>1. Proper(prefs') BY <1>1, <3>1, SetsKeepsProper DEF SetNewTabPosition
      <4> QED BY <3>1, <4>1 DEF SetNewTabPosition, Sets
    <3>2. ASSUME NEW v \in Formats, SetCopyFormat(v)
          PROVE  UNCHANGED <<snapshot, storeVars>> /\ Proper(prefs')
      <4>1. Proper(prefs') BY <1>1, <3>2, FormatKeepsProper
      <4> QED BY <3>2, <4>1 DEF SetCopyFormat
    <3>3. ASSUME EditMenu
          PROVE  UNCHANGED <<snapshot, storeVars>> /\ Proper(prefs')
      <4>1. Proper(prefs') BY <1>1, <3>3, EditMenuKeepsProper
      <4> QED BY <3>3, <4>1
          DEF EditMenu, MoveMenuItem, DeleteMenuItem, AddMenuItem, Sets
    <3> QED BY <2>5, <3>1, <3>2, <3>3 DEF EditQuietly
  <2> QED BY <2>3, <2>4, <2>5
<1> QED BY <1>2 DEF PrefsInv, storeVars

LEMMA FormKeepsPrefs ==
  ASSUME PrefsInv, SaveForm \/ DiscardForm \/ ResetForm
  PROVE  PrefsInv'
<1>1. Proper(prefs) /\ snapshot \in Raws \cup {None} BY DEF PrefsInv
<1>2. CASE SaveForm
  <2>1. SavePrefs(prefs) /\ prefs' = prefs /\ snapshot' = NormalizePrefs(prefs)
    BY <1>2 DEF SaveForm, Save
  <2> QED BY <1>1, <2>1, ProperIsRaw, SaveKeepsStores
<1>3. CASE DiscardForm
  <2>1. prefs' = NormalizePrefs(snapshot) /\ UNCHANGED <<snapshot, storeVars>>
    BY <1>3 DEF DiscardForm, Discard
  <2>2. Proper(prefs') BY <1>1, <2>1, ReadIsProper
  <2> QED BY <2>1, <2>2 DEF PrefsInv, storeVars
<1>4. CASE ResetForm
  <2>1. /\ prefs' = NormalizePrefs(None) /\ SavePrefs(prefs')
        /\ snapshot' = NormalizePrefs(prefs')
    BY <1>4 DEF ResetForm, ResetToFactory
  <2>2. Proper(prefs') BY <2>1, ReadIsProper
  <2> QED BY <2>1, <2>2, ProperIsRaw, SaveKeepsStores
<1> QED BY <1>2, <1>3, <1>4

LEMMA PageKeepsPrefs ==
  ASSUME PrefsInv, AppBootstrap \/ AppOpenSettings \/ AppRelaunch
  PROVE  PrefsInv'
<1>1. Proper(prefs) /\ {local, native, disk} \subseteq Raws \cup {None} BY DEF PrefsInv
<1>2. CASE AppBootstrap
  <2>1. LoadPrefs /\ UNCHANGED <<snapshot, local, dom, native, disk, saved>>
    BY <1>2 DEF AppBootstrap, PageEnd
  <2>2. Raw(native, local, reach') \in Raws \cup {None} BY <1>1 DEF Raw
  <2>3. Proper(prefs') BY <1>1, <2>1, <2>2, ReadIsProper DEF LoadPrefs
  <2> QED BY <2>1, <2>3 DEF PrefsInv
<1>3. CASE AppOpenSettings
  <2>1. OpenForm \/ UNCHANGED prefsVars BY <1>3 DEF AppOpenSettings
  <2>2. /\ UNCHANGED <<prefs, local, dom, native, disk, saved>>
        /\ snapshot' \in {snapshot, NormalizePrefs(prefs)}
    BY <2>1 DEF OpenForm, prefsVars, storeVars
  <2> QED BY <1>1, <2>2, ProperIsRaw DEF PrefsInv
<1>4. CASE AppRelaunch
  <2>1. /\ prefs' = NormalizePrefs(Raw(disk, local, reach')) /\ native' = disk
        /\ snapshot' = None /\ UNCHANGED <<local, dom, disk, saved>>
    BY <1>4 DEF AppRelaunch, Relaunched
  <2>2. Raw(disk, local, reach') \in Raws \cup {None} BY <1>1 DEF Raw
  <2>3. Proper(prefs') BY <2>1, <2>2, ReadIsProper
  <2> QED BY <2>1, <2>3 DEF PrefsInv
<1> QED BY <1>2, <1>3, <1>4

LEMMA PrefsInvStep == PrefsInv /\ [AppNext]_appVars => PrefsInv'
<1> SUFFICES ASSUME PrefsInv, [AppNext]_appVars PROVE PrefsInv'
  OBVIOUS
<1>1. CASE UNCHANGED prefsVars
  BY <1>1 DEF prefsVars, storeVars, PrefsInv
<1>2. CASE UNCHANGED appVars BY <1>1, <1>2 DEF appVars
<1>3. ASSUME NEW i \in DOMAIN tabs, AppRemoveTab(i) PROVE PrefsInv'
  <2>1. CloseForm \/ UNCHANGED prefsVars BY <1>3 DEF AppRemoveTab
  <2> QED BY <1>1, <2>1 DEF CloseForm, PrefsInv, storeVars
<1>4. CASE StoreFlushed
  BY <1>4 DEF StoreFlushed, Flushed, PrefsInv
<1>5. CASE AppNewTab \/ OtherTabSteps
  BY <1>1, <1>5 DEF AppNewTab, OtherTabSteps
<1> QED BY <1>2, <1>3, <1>4, <1>5, EditsKeepPrefs, FormKeepsPrefs, PageKeepsPrefs DEF AppNext

\* Whatever controls were used, and whatever other versions left in the stores, saving the
\* preferences and reading them again changes nothing that is seen (terminal-app.js:1124-1268
\* reads what 3121-3690 writes).
THEOREM PrefsReadBack == AppSpec => []ReadBackAlike
<1>1. PrefsInv => ReadBackAlike BY ProperReadsBack DEF PrefsInv, ReadBackAlike
<1> QED BY <1>1, PrefsInvInit, PrefsInvStep, PTL DEF AppSpec

\* The next launch shows the last save, unless the file of the app's store, where that is
\* reached, has missed it, or no store that is reached keeps anything (1652-1685).
THEOREM LastSaveComesBack == AppSpec => []SavedComesBack
<1>1. PrefsInv => SavedComesBack
  <2> SUFFICES ASSUME PrefsInv, saved # None, NEW r \in BOOLEAN
               PROVE  \/ Shown(saved) = NormalizePrefs(Raw(disk, local, r))
                      \/ r /\ disk \notin {None, saved}
                      \/ ~dom /\ (r => disk = None)
    BY DEF SavedComesBack
  <2>1. NormalizePrefs(saved) = Shown(saved) /\ (dom => local = saved)
    BY ProperReadsBack DEF PrefsInv
  <2>2. CASE r /\ disk # None
    <3>1. Raw(disk, local, r) = disk BY <2>2 DEF Raw
    <3> QED BY <2>1, <2>2, <3>1
  <2>3. CASE ~(r /\ disk # None)
    <3>1. Raw(disk, local, r) = local BY <2>3 DEF Raw
    <3> QED BY <2>1, <2>3, <3>1
  <2> QED BY <2>2, <2>3
<1> QED BY <1>1, PrefsInvInit, PrefsInvStep, PTL DEF AppSpec

-----------------------------------------------------------------------------
(* TerminalGeometry: the layout of the terminal in front. *)

GeometryTypeOK ==
  /\ timers \in Nat
  /\ grid = [k \in Keys |-> grid[k]] /\ told = [k \in Keys |-> told[k]]

GeometryInv == AppInv /\ GeometryTypeOK /\ FitsWhenQuiet

LEMMA GeometryInvInit == GeometryInit => GeometryInv
<1> SUFFICES ASSUME GeometryInit PROVE GeometryInv
  OBVIOUS
<1>1. AppInv BY AppInvInit DEF GeometryInit
<1>2. ShellKeys = {} BY DEF GeometryInit, AppInit, Init, ShellKeys
<1> QED BY <1>1, <1>2 DEF GeometryInit, GeometryInv, GeometryTypeOK, FitsWhenQuiet

LEMMA GeometryStepIsApp == GeometryNext => [AppNext]_appVars
<1> SUFFICES ASSUME GeometryNext PROVE [AppNext]_appVars
  OBVIOUS
<1>1. CASE GeometryNewTab BY <1>1 DEF GeometryNewTab, AppNext
<1>2. CASE GeometrySwitch BY <1>2 DEF GeometrySwitch, AppNext, OtherTabSteps
<1>3. CASE \E i \in DOMAIN tabs : GeometryRemoveTab(i) BY <1>3 DEF GeometryRemoveTab, AppNext
<1>4. CASE GeometryLook BY <1>4 DEF GeometryLook, AppNext
<1>5. CASE GeometryRelaunch BY <1>5 DEF GeometryRelaunch, AppNext
<1>6. CASE GeometryOther BY <1>6 DEF GeometryOther, AppNext, OtherTabSteps
<1>7. CASE WindowResizes \/ ResizeEvent \/ ViewportEvent \/ DebounceFires \/ TimerFires
  BY <1>7 DEF WindowResizes, ResizeEvent, ViewportEvent, DebounceFires, TimerFires
<1> QED BY <1>1, <1>2, <1>3, <1>4, <1>5, <1>6, <1>7 DEF GeometryNext

\* A layout of the tab in front leaves it with the size of its pane.
LEMMA LayoutFits ==
  ASSUME GeometryInv, NEW ks, active \in ks, LayoutTermForTabs(ks), UNCHANGED <<tabs, active, size>>
  PROVE  FitsWhenQuiet' /\ (timers' \in Nat => GeometryTypeOK')
<1> DEFINE laid == ks \cap ShellKeys \cap {active}
<1>1. /\ grid' = [k \in Keys |-> IF k \in laid THEN Grid(size, look'[k].size) ELSE grid[k]]
      /\ told' = [k \in Keys |-> IF k \in laid /\ HasSession(k) THEN grid'[k] ELSE told[k]]
  BY DEF LayoutTermForTabs
<1>2. ShellKeys \subseteq Keys BY ShellKeysAreKeys DEF GeometryInv, AppInv
<1>3. ShellKeys' = ShellKeys /\ HasSession(active)' = HasSession(active)
  BY DEF ShellKeys, HasSession
<1>4. grid' = [k \in Keys |-> grid'[k]] /\ told' = [k \in Keys |-> told'[k]] BY <1>1
<1>5. ASSUME active \in ShellKeys
      PROVE  /\ grid'[active] = Grid(size, look'[active].size)
             /\ HasSession(active) => told'[active] = grid'[active]
  BY <1>1, <1>2, <1>5
<1>6. FitsWhenQuiet' BY <1>3, <1>5 DEF FitsWhenQuiet
<1> QED BY <1>4, <1>6 DEF GeometryTypeOK

\* A step that leaves a timer or an event behind, or no terminal in front.
LEMMA TimersKeep ==
  ASSUME GeometryInv, GeometryNewTab \/ GeometrySwitch
  PROVE  GeometryTypeOK' /\ FitsWhenQuiet'
<1>1. timers \in Nat BY DEF GeometryInv, GeometryTypeOK
<1>2. UNCHANGED <<grid, told>> BY DEF GeometryNewTab, GeometrySwitch
<1>3. CASE GeometryNewTab
  <2>1. timers' = timers + 2 BY <1>3 DEF GeometryNewTab
  <2> QED BY <1>1, <1>2, <2>1 DEF GeometryInv, GeometryTypeOK, FitsWhenQuiet, Quiet
<1>4. CASE SwitchTimers
  <2>1. timers' = timers + (IF active' \in ShellKeys' THEN 1 ELSE 0)
    BY <1>4 DEF SwitchTimers, ShellKeys
  <2>2. timers' \in Nat /\ (active' \in ShellKeys' => timers' # 0) BY <1>1, <2>1
  <2> QED BY <1>2, <2>2 DEF GeometryInv, GeometryTypeOK, FitsWhenQuiet, Quiet
<1> QED BY <1>3, <1>4 DEF GeometrySwitch

LEMMA GeometryRemoveKeeps ==
  ASSUME GeometryInv, NEW i \in DOMAIN tabs, GeometryRemoveTab(i)
  PROVE  GeometryTypeOK' /\ FitsWhenQuiet'
<1> DEFINE key == tabs[i].key
<1>1. /\ RemoveTab(i) /\ look' = [look EXCEPT ![key] = NoLook]
      /\ grid' = [grid EXCEPT ![key] = NoGrid] /\ told' = [told EXCEPT ![key] = NoGrid]
      /\ UNCHANGED <<size, resized, debounce>>
      /\ IF active = key THEN SwitchTimers ELSE UNCHANGED timers
  BY DEF GeometryRemoveTab, AppRemoveTab
<1>2. timers \in Nat /\ DOMAIN grid = Keys /\ DOMAIN told = Keys /\ DOMAIN look = Keys
  BY DEF GeometryInv, GeometryTypeOK, AppInv, AppTypeOK
<1>3. grid' = [k \in Keys |-> grid'[k]] /\ told' = [k \in Keys |-> told'[k]] BY <1>1, <1>2
<1>4. CASE active = key
  <2>1. timers' = timers + (IF active' \in ShellKeys' THEN 1 ELSE 0)
    BY <1>1, <1>4 DEF SwitchTimers, ShellKeys
  <2>2. timers' \in Nat /\ (active' \in ShellKeys' => timers' # 0) BY <1>2, <2>1
  <2> QED BY <1>3, <2>2 DEF GeometryTypeOK, FitsWhenQuiet, Quiet
<1>5. CASE active # key
  <2>1. ShellKeys' = ShellKeys \ {key} /\ ShellKeys \subseteq Keys
        /\ \A x \in DOMAIN tabs' : \E y \in DOMAIN tabs : tabs'[x] = tabs[y]
    BY <1>1, ShellKeysRemoved, ShellKeysAreKeys DEF GeometryInv, AppInv
  <2>2. active' = active /\ page' = page /\ timers' = timers BY <1>1, <1>5 DEF RemoveTab
  <2>3. HasSession(active)' => HasSession(active) BY <2>1, <2>2 DEF HasSession
  <2>4. active \in ShellKeys =>
          grid'[active] = grid[active] /\ told'[active] = told[active] /\ look'[active] = look[active]
    BY <1>1, <1>2, <1>5, <2>1
  <2>5. FitsWhenQuiet'
    BY <1>1, <2>1, <2>2, <2>3, <2>4 DEF GeometryInv, FitsWhenQuiet, Quiet
  <2> QED BY <1>2, <1>3, <2>2, <2>5 DEF GeometryTypeOK
<1> QED BY <1>4, <1>5

LEMMA LayoutKeeps ==
  ASSUME GeometryInv, GeometryLook \/ ResizeEvent \/ DebounceFires \/ TimerFires
  PROVE  GeometryTypeOK' /\ FitsWhenQuiet'
<1>1. timers \in Nat BY DEF GeometryInv, GeometryTypeOK
<1>2. CASE GeometryLook
  <2>1. CASE active \in Keys
    <3>1. LayoutTermForTabs(Keys) /\ UNCHANGED <<tabs, active, size, timers>>
      BY <1>2 DEF GeometryLook, EditLook, DiscardForm, ResetForm, Wheel, vars, pageVars
    <3> QED BY <1>1, <2>1, <3>1, LayoutFits
  <2>2. CASE active \notin Keys
    <3>1. UNCHANGED <<tabs, active, timers>> /\ ShellKeys \subseteq Keys
      BY <1>2, ShellKeysAreKeys DEF GeometryInv, AppInv, GeometryLook, EditLook, DiscardForm,
         ResetForm, Wheel, vars, pageVars
    <3>2. active' \notin ShellKeys' BY <2>2, <3>1 DEF ShellKeys
    <3>3. grid' = [k \in Keys |-> grid'[k]] /\ told' = [k \in Keys |-> told'[k]]
      BY <1>2 DEF GeometryLook, LayoutTermForTabs
    <3> QED BY <1>1, <3>1, <3>2, <3>3 DEF GeometryTypeOK, FitsWhenQuiet
  <2> QED BY <2>1, <2>2
<1>3. CASE ResizeEvent \/ DebounceFires \/ TimerFires
  <2>1. /\ LayoutTermForTabs({active}) /\ UNCHANGED <<tabs, active, size>>
        /\ timers' = timers \/ (timers > 0 /\ timers' = timers - 1)
    BY <1>3 DEF ResizeEvent, DebounceFires, TimerFires, LayoutTerm, appVars, vars, pageVars
  <2>2. timers' \in Nat BY <1>1, <2>1
  <2> QED BY <2>1, <2>2, LayoutFits
<1> QED BY <1>2, <1>3

LEMMA GeometryRestKeeps ==
  ASSUME GeometryInv, GeometryRelaunch \/ GeometryOther \/ WindowResizes \/ ViewportEvent
  PROVE  GeometryTypeOK' /\ FitsWhenQuiet'
<1> USE DEF GeometryInv
<1>1. CASE GeometryRelaunch
  <2>1. ShellKeys' = {} BY <1>1 DEF GeometryRelaunch, AppRelaunch, Relaunch, ShellKeys
  <2>2. GeometryTypeOK' BY <1>1 DEF GeometryRelaunch, GeometryTypeOK
  <2> QED BY <2>1, <2>2 DEF FitsWhenQuiet
<1>2. CASE WindowResizes \/ ViewportEvent
  <2>1. UNCHANGED <<timers, grid, told>> /\ (resized' = TRUE \/ debounce' = TRUE)
    BY <1>2 DEF WindowResizes, ViewportEvent
  <2> QED BY <2>1 DEF GeometryTypeOK, FitsWhenQuiet, Quiet
<1>3. CASE GeometryOther
  <2>1. UNCHANGED <<tabs, active, look, size, resized, timers, debounce, grid, told>>
        /\ (page' = page \/ page' = "gone")
    BY <1>3 DEF GeometryOther, EditQuietly, SaveForm, StoreFlushed, WriteToTerminal, Disappear,
       ShellPrints, PostOutput, geometryVars, layoutVars, vars, pageVars
  <2>2. ShellKeys' = ShellKeys /\ HasSession(active)' = HasSession(active)
    BY <2>1 DEF ShellKeys, HasSession
  <2> QED BY <2>1, <2>2 DEF GeometryTypeOK, FitsWhenQuiet, Quiet
<1> QED BY <1>1, <1>2, <1>3

LEMMA GeometryInvStep == GeometryInv /\ [GeometryNext]_geometryAll => GeometryInv'
<1> SUFFICES ASSUME GeometryInv, [GeometryNext]_geometryAll PROVE GeometryInv'
  OBVIOUS
<1>1. [AppNext]_appVars BY GeometryStepIsApp DEF geometryAll
<1>2. AppInv' BY <1>1, AppInvStep DEF GeometryInv
<1>3. CASE UNCHANGED geometryAll
  <2>1. UNCHANGED <<tabs, active, page, look, size, resized, timers, debounce, grid, told>>
    BY <1>3 DEF geometryAll, appVars, vars, pageVars, geometryVars, layoutVars
  <2>2. ShellKeys' = ShellKeys /\ HasSession(active)' = HasSession(active)
    BY <2>1 DEF ShellKeys, HasSession
  <2>3. GeometryTypeOK' /\ FitsWhenQuiet'
    BY <2>1, <2>2 DEF GeometryInv, GeometryTypeOK, FitsWhenQuiet, Quiet
  <2> QED BY <1>2, <2>3 DEF GeometryInv
<1>4. CASE GeometryNext
  <2>1. GeometryTypeOK' /\ FitsWhenQuiet'
    BY <1>4, TimersKeep, GeometryRemoveKeeps, LayoutKeeps, GeometryRestKeeps DEF GeometryNext
  <2> QED BY <1>2, <2>1 DEF GeometryInv
<1> QED BY <1>3, <1>4

\* Once no event and no timer is left, the terminal in front has the size of its pane in its
\* own font and its pty knows it, for any number of tabs, sizes and timers
\* (terminal-app.js:2184-2222, 2273-2348).
THEOREM TerminalsFit == GeometrySpec => []FitsWhenQuiet
<1>1. GeometryInv => FitsWhenQuiet BY DEF GeometryInv
<1> QED BY <1>1, GeometryInvInit, GeometryInvStep, PTL DEF GeometrySpec
=============================================================================
