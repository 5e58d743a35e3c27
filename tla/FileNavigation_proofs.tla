----------------------- MODULE FileNavigation_proofs -----------------------
(* The file window's history is a browser's, and its listing that of its place, for *)
(* every set of places.                                                             *)
EXTENDS FileNavigation, SequenceTheorems, TLAPS

\* The place shown, the index and the history agree; neighbours differ.
Neighbours == \A i \in 1 .. Len(history) - 1 : history[i] # history[i + 1]
NavInv ==
  /\ history \in Seq(Places) /\ index \in 1 .. Len(history)
  /\ here \in Places /\ here = history[index]
  /\ Neighbours

\* A part of a sequence has the elements of that part.
LEMMA PartOf ==
  ASSUME NEW S, NEW s \in Seq(S), NEW a \in 1 .. Len(s) + 1, NEW b \in 0 .. Len(s),
         a <= b + 1
  PROVE  /\ SubSeq(s, a, b) \in Seq(S)
         /\ Len(SubSeq(s, a, b)) = b - a + 1
         /\ \A i \in 1 .. b - a + 1 : SubSeq(s, a, b)[i] = s[a + i - 1]
<1>1. Len(s) \in Nat /\ \A i \in a .. b : s[i] \in S
  BY LenProperties, ElementOfSeq
<1>2. /\ SubSeq(s, a, b) \in Seq(S)
      /\ Len(SubSeq(s, a, b)) = IF a <= b THEN b - a + 1 ELSE 0
      /\ \A i \in 1 .. b - a + 1 : SubSeq(s, a, b)[i] = s[a + i - 1]
  BY <1>1, SubSeqProperties
<1>3. b - a + 1 = IF a <= b THEN b - a + 1 ELSE 0
  BY <1>1
<1>4. QED BY <1>2, <1>3

\* The first i + 1 elements are the first i and the next one.
LEMMA OneMore ==
  ASSUME NEW S, NEW s \in Seq(S), NEW i \in 0 .. Len(s) - 1
  PROVE  SubSeq(s, 1, i + 1) = Append(SubSeq(s, 1, i), s[i + 1])
<1>1. Len(s) \in Nat /\ s[i + 1] \in S
  BY LenProperties, ElementOfSeq
<1>2. SubSeq(s, 1, i + 1) = SubSeq(s, 1, i + 1 - 1) \o <<s[i + 1]>>
  BY <1>1, SubSeqRecursiveSecond
<1>3. SubSeq(s, 1, i) \in Seq(S) /\ i + 1 - 1 = i
  BY <1>1, PartOf
<1>4. QED BY <1>1, <1>2, <1>3, AppendIsConcat

\* The first i elements of the first n are the first i.
LEMMA FirstOfFirst ==
  ASSUME NEW S, NEW s \in Seq(S), NEW n \in 0 .. Len(s), NEW i \in 0 .. n
  PROVE  SubSeq(SubSeq(s, 1, n), 1, i) = SubSeq(s, 1, i)
<1> DEFINE f == SubSeq(s, 1, n)
<1>1. Len(s) \in Nat
  BY LenProperties
<1>2. f \in Seq(S) /\ Len(f) = n /\ \A k \in 1 .. n : f[k] = s[k]
  BY <1>1, PartOf
<1> HIDE DEF f
<1>3. /\ SubSeq(f, 1, i) \in Seq(S) /\ Len(SubSeq(f, 1, i)) = i
      /\ \A k \in 1 .. i : SubSeq(f, 1, i)[k] = f[k]
  BY <1>1, <1>2, PartOf
<1>4. /\ SubSeq(s, 1, i) \in Seq(S) /\ Len(SubSeq(s, 1, i)) = i
      /\ \A k \in 1 .. i : SubSeq(s, 1, i)[k] = s[k]
  BY <1>1, PartOf
<1>5. \A k \in 1 .. i : SubSeq(f, 1, i)[k] = SubSeq(s, 1, i)[k]
  BY <1>1, <1>2, <1>3, <1>4
<1>6. SubSeq(f, 1, i) = SubSeq(s, 1, i)
  BY <1>3, <1>4, <1>5, SeqEqual
<1>7. QED BY <1>6 DEF f

-----------------------------------------------------------------------------
(* The steps of the window are those of the browser. *)

\* navigateTo cuts what is ahead and adds the place.
LEMMA VisitStep ==
  ASSUME NavInv, NEW p \in Places, NEW n, NavigateTo(p, n)
  PROVE  NavInv' /\ Browser!Visit(p)
<1> DEFINE kept == SubSeq(history, 1, index)
<1>1. Len(history) \in Nat /\ index \in Nat
  BY LenProperties DEF NavInv
<1>2. /\ kept \in Seq(Places) /\ Len(kept) = index
      /\ \A i \in 1 .. index : kept[i] = history[i]
  BY <1>1, PartOf DEF NavInv
<1>3. history' = Append(kept, p) /\ index' = index + 1 /\ here' = p /\ p # here
  BY DEF NavigateTo
<1>4. kept = Append(SubSeq(history, 1, index - 1), here)
  <2>1. index - 1 \in 0 .. Len(history) - 1 /\ (index - 1) + 1 = index
    BY <1>1 DEF NavInv
  <2>2. SubSeq(history, 1, (index - 1) + 1) =
          Append(SubSeq(history, 1, index - 1), history[(index - 1) + 1])
    BY <2>1, OneMore DEF NavInv
  <2>3. QED BY <2>1, <2>2 DEF NavInv
<1> HIDE DEF kept
<1>5. /\ history' \in Seq(Places) /\ Len(history') = index + 1
      /\ \A i \in 1 .. index : history'[i] = kept[i]
      /\ history'[index + 1] = p
  BY <1>2, <1>3, AppendProperties
<1>6. SubSeq(history', 1, index) = kept
  <2>1. index \in 0 .. Len(history') /\ Len(history') \in Nat
    BY <1>1, <1>5
  <2>2. /\ SubSeq(history', 1, index) \in Seq(Places)
        /\ Len(SubSeq(history', 1, index)) = index - 1 + 1
        /\ \A i \in 1 .. index - 1 + 1 : SubSeq(history', 1, index)[i] = history'[1 + i - 1]
    BY <1>1, <1>5, <2>1, PartOf
  <2>3. Len(SubSeq(history', 1, index)) = Len(kept)
    BY <1>1, <1>2, <2>2
  <2>4. \A i \in 1 .. Len(kept) : SubSeq(history', 1, index)[i] = kept[i]
    BY <1>1, <1>2, <1>5, <2>2
  <2>5. QED BY <1>2, <2>2, <2>3, <2>4, SeqEqual
<1>7. SubSeq(history', index' + 1, Len(history')) = <<>>
  BY <1>1, <1>3, <1>5, SubSeqEmpty
<1>8. NavInv'
  <2>1. index' \in 1 .. Len(history') /\ here' = history'[index']
    BY <1>1, <1>3, <1>5
  <2>2. ASSUME NEW i \in 1 .. Len(history') - 1
        PROVE  history'[i] # history'[i + 1]
    <3>1. i \in 1 .. index /\ history'[i] = history[i]
      BY <1>1, <1>2, <1>5
    <3>2. CASE i = index
      BY <1>3, <1>5, <3>1, <3>2 DEF NavInv
    <3>3. CASE i # index
      <4>1. i \in 1 .. Len(history) - 1 /\ i + 1 \in 1 .. index
        BY <1>1, <3>1, <3>3 DEF NavInv
      <4>2. history'[i + 1] = history[i + 1]
        BY <1>2, <1>5, <4>1
      <4>3. QED BY <3>1, <4>1, <4>2 DEF NavInv, Neighbours
    <3>4. QED BY <3>2, <3>3
  <2>3. QED BY <1>3, <1>5, <2>1, <2>2 DEF NavInv, Neighbours
<1>9. Browser!Visit(p)
  <2>1. index' - 1 = index
    BY <1>1, <1>3
  <2>2. QED BY <1>3, <1>4, <1>6, <1>7, <2>1 DEF Browser!Visit
<1>10. QED BY <1>8, <1>9

\* Moving the index within the history keeps the invariant.
LEMMA MoveKeeps ==
  ASSUME NavInv, NEW i \in Nat, MoveTo(i)
  PROVE  NavInv' /\ i \in 1 .. Len(history) /\ index' = i /\ here' = history[i]
         /\ history' = history
<1>1. i \in 1 .. Len(history)
  BY LenProperties DEF NavInv, MoveTo
<1>2. history[i] \in Places
  BY <1>1, ElementOfSeq DEF NavInv
<1>3. QED BY <1>1, <1>2 DEF NavInv, Neighbours, MoveTo

\* goBack takes the place left behind last, and leaves here ahead.
LEMMA BackStep ==
  ASSUME NavInv, GoBack
  PROVE  NavInv' /\ Browser!StepBack
<1> DEFINE behind == SubSeq(history, 1, index - 1)
<1>1. Len(history) \in Nat /\ index \in Nat /\ index - 1 \in Nat
  BY LenProperties DEF NavInv
<1>2. /\ NavInv' /\ index - 1 \in 1 .. Len(history) /\ index' = index - 1
      /\ here' = history[index - 1] /\ history' = history
  BY <1>1, MoveKeeps DEF GoBack
<1>3. /\ behind \in Seq(Places) /\ Len(behind) = index - 1
      /\ \A i \in 1 .. index - 1 : behind[i] = history[i]
  BY <1>1, <1>2, PartOf DEF NavInv
<1>4. SubSeq(behind, 1, index - 2) = SubSeq(history, 1, index - 2)
  <2>1. index - 1 \in 0 .. Len(history) /\ index - 2 \in 0 .. index - 1
    BY <1>1, <1>2
  <2>2. QED BY <2>1, FirstOfFirst DEF NavInv
<1>5. SubSeq(history, index, Len(history)) =
        <<here>> \o SubSeq(history, index + 1, Len(history))
  BY <1>1, SubSeqRecursiveFirst DEF NavInv
<1> HIDE DEF behind
<1>6. behind # <<>>
  BY <1>1, <1>2, <1>3
<1>7. here' = behind[Len(behind)] /\ Len(behind) - 1 = index - 2
  BY <1>1, <1>2, <1>3
<1>8. index' - 1 = index - 2 /\ index' + 1 = index
  BY <1>1, <1>2
<1>9. Browser!StepBack
  BY <1>2, <1>4, <1>5, <1>6, <1>7, <1>8 DEF Browser!StepBack, behind
<1>10. QED BY <1>2, <1>9

\* goForward takes the nearest place ahead, and leaves here behind.
LEMMA ForwardStep ==
  ASSUME NavInv, GoForward
  PROVE  NavInv' /\ Browser!StepForward
<1> DEFINE ahead == SubSeq(history, index + 1, Len(history))
<1>1. Len(history) \in Nat /\ index \in Nat /\ index + 1 \in Nat
  BY LenProperties DEF NavInv
<1>2. /\ NavInv' /\ index + 1 \in 1 .. Len(history) /\ index' = index + 1
      /\ here' = history[index + 1] /\ history' = history
  BY <1>1, MoveKeeps DEF GoForward
<1>3. Head(ahead) = history[index + 1] /\ Tail(ahead) = SubSeq(history, (index + 1) + 1, Len(history))
  BY <1>1, <1>2, HeadTailOfSubSeq DEF NavInv
<1>4. SubSeq(history, 1, index) = Append(SubSeq(history, 1, index - 1), here)
  <2>1. index - 1 \in 0 .. Len(history) - 1 /\ (index - 1) + 1 = index
    BY <1>1 DEF NavInv
  <2>2. SubSeq(history, 1, (index - 1) + 1) =
          Append(SubSeq(history, 1, index - 1), history[(index - 1) + 1])
    BY <2>1, OneMore DEF NavInv
  <2>3. QED BY <2>1, <2>2 DEF NavInv
<1>5. Len(ahead) = Len(history) - (index + 1) + 1
  BY <1>1, <1>2, PartOf DEF NavInv
<1> HIDE DEF ahead
<1>6. ahead # <<>>
  BY <1>1, <1>2, <1>5
<1>7. index' - 1 = index
  BY <1>1, <1>2
<1>8. Browser!StepForward
  BY <1>2, <1>3, <1>4, <1>6, <1>7 DEF Browser!StepForward, ahead
<1>9. QED BY <1>2, <1>8

-----------------------------------------------------------------------------
(* The specification. *)

LEMMA NavInit == Init => NavInv /\ Browser!HistoryInit
<1> SUFFICES ASSUME Init PROVE NavInv /\ Browser!HistoryInit
  OBVIOUS
<1>1. history = <<ThisPc>> /\ index = 1 /\ here = ThisPc /\ ThisPc \in Places
  BY DEF Init, Places, Tree
<1>2. history \in Seq(Places) /\ Len(history) = 1 /\ history[1] = ThisPc
  BY <1>1
<1>3. NavInv
  BY <1>1, <1>2 DEF NavInv, Neighbours
<1>4. SubSeq(history, 1, 0) = <<>> /\ SubSeq(history, 2, 1) = <<>>
  BY SubSeqEmpty
<1>5. Browser!HistoryInit
  BY <1>1, <1>2, <1>4 DEF Browser!HistoryInit
<1>6. QED BY <1>3, <1>5

LEMMA NavStep ==
  ASSUME NavInv, [Next]_vars
  PROVE  NavInv' /\ [Browser!HistoryNext]_(Browser!historyVars)
<1>1. CASE \E p \in Places : \E n : NavigateTo(p, n)
  BY <1>1, VisitStep DEF Browser!HistoryNext
<1>2. CASE GoBack
  BY <1>2, BackStep DEF Browser!HistoryNext
<1>3. CASE GoForward
  BY <1>3, ForwardStep DEF Browser!HistoryNext
<1>4. CASE UNCHANGED <<history, index, here>>
  BY <1>4 DEF NavInv, Neighbours, Browser!historyVars
<1>5. ASSUME NEW d \in Dirs, ListingArrives(d) PROVE UNCHANGED <<history, index, here>>
  BY <1>5 DEF ListingArrives
<1>6. ASSUME ClickNode \/ ClickItem \/ EnterAddress \/ GoUp
      PROVE  \E p \in Places : \E n : NavigateTo(p, n)
  BY <1>6 DEF ClickNode, ClickItem, EnterAddress, GoUp, Places, Tree
<1>7. QED
  BY <1>1, <1>2, <1>3, <1>4, <1>5, <1>6 DEF Next, vars

\* The window shows the place its index points to and Back always leaves it, for
\* every set of places and however long the history (Index.ets:255-317).
THEOREM HereIsInHistory == Spec => []HistoryIsHere
<1>1. Init => NavInv
  BY NavInit
<1>2. NavInv /\ [Next]_vars => NavInv'
  BY NavStep
<1>3. NavInv => HistoryIsHere
  BY DEF NavInv, Neighbours, HistoryIsHere
<1>4. QED
  BY <1>1, <1>2, <1>3, PTL DEF Spec

\* Back, Forward and the visits of the window are a browser's, for every set of
\* places: the detailed window implements the abstract history.
THEOREM WindowIsBrowser == Spec => ImplementsBrowser
<1>1. Init => NavInv /\ Browser!HistoryInit
  BY NavInit
<1>2. NavInv /\ [Next]_vars => NavInv' /\ [Browser!HistoryNext]_(Browser!historyVars)
  BY NavStep
<1>3. QED
  BY <1>1, <1>2, PTL DEF Spec, ImplementsBrowser, Browser!HistorySpec
-----------------------------------------------------------------------------
(* The listing. *)

\* After a navigation that found nothing awaited, only the place shown is.
QuietInv ==
  /\ loads \in [Dirs -> Nat]
  /\ ~raced => Awaited \subseteq {here}
  /\ QuietListing

\* loadFilesFromPath up to its await.
LEMMA LoadKeepsQuiet ==
  ASSUME QuietInv, NEW p, LoadFiles(p), here' = p
  PROVE  QuietInv'
<1>1. raced' = (Awaited # {}) /\ loads \in [Dirs -> Nat]
  BY DEF LoadFiles, QuietInv
<1>2. CASE p \in Tree \cup Names \cup Missing /\ listing' = Nothing /\ UNCHANGED loads
  BY <1>1, <1>2 DEF QuietInv, QuietListing, Awaited
<1>3. CASE p \in Plain /\ UNCHANGED <<listing, loads>>
  BY <1>1, <1>3 DEF QuietInv, QuietListing, Awaited
<1>4. CASE p \in Dirs /\ loads' = [loads EXCEPT ![p] = @ + 1]
  <2>1. loads' \in [Dirs -> Nat] /\ loads'[p] > 0
        /\ \A d \in Dirs : d # p => loads'[d] = loads[d]
    BY <1>1, <1>4
  <2>2. p \in Awaited' /\ Awaited' \subseteq Awaited \cup {p}
    BY <1>4, <2>1 DEF Awaited
  <2> QED BY <1>1, <2>1, <2>2 DEF QuietInv, QuietListing
<1> QED BY <1>2, <1>3, <1>4 DEF LoadFiles

\* And after it.
LEMMA ArrivalKeepsQuiet ==
  ASSUME QuietInv, NEW d \in Dirs, ListingArrives(d)
  PROVE  QuietInv'
<1>1. /\ d \in Awaited /\ UNCHANGED <<here, raced>> /\ listing' \in {d, Nothing}
      /\ loads' = [loads EXCEPT ![d] = @ - 1]
  BY DEF ListingArrives, Awaited
<1>2. loads' \in [Dirs -> Nat] /\ Awaited' \subseteq Awaited
  BY <1>1 DEF QuietInv, Awaited
<1>3. ~raced => d = here
  BY <1>1 DEF QuietInv
<1> QED BY <1>1, <1>2, <1>3 DEF QuietInv, QuietListing

LEMMA QuietStep ==
  ASSUME QuietInv, [Next]_vars
  PROVE  QuietInv'
<1>1. ASSUME NEW p, NEW highlight, NavigateTo(p, highlight) PROVE QuietInv'
  BY <1>1, LoadKeepsQuiet DEF NavigateTo
<1>2. ASSUME NEW i, MoveTo(i) PROVE QuietInv'
  BY <1>2, LoadKeepsQuiet DEF MoveTo
<1>3. CASE ClickNode \/ ClickItem \/ EnterAddress \/ GoUp
  BY <1>1, <1>3 DEF ClickNode, ClickItem, EnterAddress, GoUp
<1>4. CASE GoBack \/ GoForward
  BY <1>2, <1>4 DEF GoBack, GoForward
<1>5. CASE \E d \in Dirs : ListingArrives(d)
  BY <1>5, ArrivalKeepsQuiet
<1>6. CASE UNCHANGED vars
  BY <1>6 DEF vars, QuietInv, QuietListing, Awaited
<1> QED BY <1>3, <1>4, <1>5, <1>6 DEF Next

\* Who goes on only when nothing is awaited sees the listing of his place, or none,
\* however many listings of however many directories there are (Index.ets:210-252).
THEOREM ListingIsOfHere == Spec => []QuietListing
<1>1. Init => QuietInv
  BY DEF Init, QuietInv, QuietListing, Awaited, Tree
<1>2. QuietInv /\ [Next]_vars => QuietInv'
  BY QuietStep
<1>3. QuietInv => QuietListing
  BY DEF QuietInv
<1> QED BY <1>1, <1>2, <1>3, PTL DEF Spec
=============================================================================
