------------------------ MODULE TerminalPipe_proofs ------------------------
(* Order is kept by the terminal's promise, for every size of its queues. *)
EXTENDS TerminalPipe, SequenceTheorems, TLAPS

PipeInv == PipeTypeOK /\ PipeInOrder

\* Dropping the middle of a rising queue leaves a rising queue of its elements.
LEMMA OverflowKeepsOrder ==
  ASSUME NEW n \in Nat, NEW limit \in Nat \ {0}, NEW q \in Seq(1 .. n),
         NEW arrived \in Seq(1 .. n), Ordered(arrived, q),
         NEW rest, Overflow(q, limit, rest)
  PROVE  rest \in Seq(1 .. n) /\ Ordered(arrived, rest)
<1>1. PICK j \in limit + 1 .. Len(q) :
         rest = SubSeq(q, 1, limit) \o SubSeq(q, j + 1, Len(q))
  BY DEF Overflow
<1> DEFINE a == SubSeq(q, 1, limit)
           b == SubSeq(q, j + 1, Len(q))
           pos(i) == IF i <= limit THEN i ELSE j + (i - limit)
<1>0. Len(q) \in Nat /\ Len(arrived) \in Nat /\ \A i \in 1 .. Len(q) : q[i] \in 1 .. n
  BY LenProperties, ElementOfSeq
<1>2. a \in Seq(1 .. n) /\ Len(a) = limit /\ \A i \in 1 .. limit : a[i] = q[i]
  <2>1. \A i \in 1 .. limit : q[i] \in 1 .. n
    BY <1>0, <1>1
  <2>2. /\ a \in Seq(1 .. n)
        /\ Len(a) = IF 1 <= limit THEN limit - 1 + 1 ELSE 0
        /\ \A i \in 1 .. limit - 1 + 1 : a[i] = q[1 + i - 1]
    BY <1>0, <2>1, SubSeqProperties
  <2> HIDE DEF a
  <2>3. QED BY <2>2
<1>3. b \in Seq(1 .. n) /\ Len(b) = Len(q) - j
      /\ \A i \in 1 .. Len(q) - j : b[i] = q[j + i]
  <2>1. \A i \in j + 1 .. Len(q) : q[i] \in 1 .. n
    BY <1>0, <1>1
  <2>2. /\ b \in Seq(1 .. n)
        /\ Len(b) = IF j + 1 <= Len(q) THEN Len(q) - (j + 1) + 1 ELSE 0
        /\ \A i \in 1 .. Len(q) - (j + 1) + 1 : b[i] = q[(j + 1) + i - 1]
    BY <1>0, <1>1, <2>1, SubSeqProperties
  <2> HIDE DEF b
  <2>3. QED BY <1>0, <1>1, <2>2
<1> HIDE DEF a, b
<1>4. /\ rest \in Seq(1 .. n) /\ Len(rest) = limit + (Len(q) - j)
      /\ \A i \in 1 .. Len(rest) :
           rest[i] = IF i <= Len(a) THEN a[i] ELSE b[i - Len(a)]
  <2>1. rest = a \o b
    BY <1>1 DEF a, b
  <2>2. Len(a) \in Nat /\ Len(b) \in Nat
    BY <1>2, <1>3, LenProperties
  <2>3. /\ a \o b \in Seq(1 .. n) /\ Len(a \o b) = Len(a) + Len(b)
        /\ \A i \in 1 .. Len(a) + Len(b) :
             (a \o b)[i] = IF i <= Len(a) THEN a[i] ELSE b[i - Len(a)]
    BY <1>2, <1>3, ConcatProperties
  <2>4. Len(rest) = limit + (Len(q) - j)
    BY <1>2, <1>3, <2>1, <2>3
  <2>5. QED BY <2>1, <2>3, <2>4
<1>5. \A i \in 1 .. Len(rest) : pos(i) \in 1 .. Len(q) /\ rest[i] = q[pos(i)]
  <2> SUFFICES ASSUME NEW i \in 1 .. Len(rest)
               PROVE  pos(i) \in 1 .. Len(q) /\ rest[i] = q[pos(i)]
    OBVIOUS
  <2>1. CASE i <= limit
    BY <1>0, <1>1, <1>2, <1>4, <2>1
  <2>2. CASE i > limit
    <3>0. i \in 1 .. limit + (Len(q) - j)
      BY <1>4
    <3>1. i - limit \in 1 .. Len(q) - j /\ ~(i <= limit)
      BY <1>0, <1>1, <2>2, <3>0
    <3>2. rest[i] = b[i - limit]
      BY <1>2, <1>4, <3>1
    <3>3. b[i - limit] = q[j + (i - limit)]
      BY <1>3, <3>1
    <3>4. j + (i - limit) \in 1 .. Len(q)
      BY <1>0, <1>1, <3>1
    <3>5. QED BY <3>1, <3>2, <3>3, <3>4
  <2>3. QED BY <1>4, <2>1, <2>2
<1>6. \A i, k \in 1 .. Len(rest) : i < k => pos(i) < pos(k)
  BY <1>0, <1>4
<1> HIDE DEF pos
<1>7. Rising(rest)
  BY <1>5, <1>6 DEF Ordered, Rising
<1>8. \A i \in 1 .. Len(arrived), k \in 1 .. Len(rest) : arrived[i] < rest[k]
  BY <1>5 DEF Ordered
<1>9. QED
  BY <1>4, <1>7, <1>8 DEF Ordered

\* The head of the queue arrives.
LEMMA HeadArrives ==
  ASSUME NEW n \in Nat, NEW q \in Seq(1 .. n), q # <<>>,
         NEW arrived \in Seq(1 .. n), Ordered(arrived, q)
  PROVE  /\ Append(arrived, Head(q)) \in Seq(1 .. n) /\ Tail(q) \in Seq(1 .. n)
         /\ Ordered(Append(arrived, Head(q)), Tail(q))
<1>1. /\ Head(q) \in 1 .. n /\ Tail(q) \in Seq(1 .. n)
      /\ Len(Tail(q)) = Len(q) - 1 /\ Len(q) \in Nat \ {0}
      /\ \A i \in 1 .. Len(Tail(q)) : Tail(q)[i] = q[i + 1]
  BY HeadTailProperties, EmptySeq, LenProperties
<1>2. Head(q) = q[1]
  OBVIOUS
<1> DEFINE new == Append(arrived, Head(q))
<1>3. /\ new \in Seq(1 .. n) /\ Len(new) = Len(arrived) + 1
      /\ \A i \in 1 .. Len(arrived) : new[i] = arrived[i]
      /\ new[Len(new)] = q[1]
  <2>1. Len(arrived) \in Nat /\ 1 <= Len(q) /\ q[1] \in 1 .. n
    BY <1>1, <1>2, LenProperties
  <2>2. QED BY <1>1, <1>2, <2>1, AppendProperties
<1>0. Len(arrived) \in Nat /\ Len(q) \in Nat
  BY LenProperties
<1> DEFINE rest == Tail(q)
<1> HIDE DEF new, rest
<1>4. Rising(rest)
  BY <1>0, <1>1 DEF Ordered, Rising, rest
<1>5. Rising(new)
  <2> SUFFICES ASSUME NEW i \in 1 .. Len(new), NEW k \in 1 .. Len(new), i < k
               PROVE  new[i] < new[k]
    BY DEF Rising
  <2>0. i \in 1 .. Len(arrived) + 1 /\ k \in 1 .. Len(arrived) + 1
    BY <1>3
  <2>1. i \in 1 .. Len(arrived) /\ new[i] = arrived[i] /\ 1 \in 1 .. Len(q)
    <3>1. i \in 1 .. Len(arrived)
      BY <1>0, <2>0
    <3>2. Len(q) \in Nat \ {0}
      BY <1>1
    <3>3. 1 \in 1 .. Len(q)
      BY <3>2
    <3>4. new[i] = arrived[i]
      BY <1>3, <3>1
    <3> QED BY <3>1, <3>3, <3>4
  <2>2. CASE k \in 1 .. Len(arrived)
    BY <1>3, <2>1, <2>2 DEF Ordered, Rising
  <2>3. CASE k = Len(new)
    BY <1>3, <2>1, <2>3 DEF Ordered
  <2>4. k \in 1 .. Len(arrived) \/ k = Len(new)
    <3>1. Len(new) = Len(arrived) + 1
      BY <1>3
    <3>2. k \in 1 .. Len(arrived) + 1
      BY <3>1
    <3>3. \A m \in Nat : k \in 1 .. m + 1 => k \in 1 .. m \/ k = m + 1
      OBVIOUS
    <3>4. QED BY <1>0, <3>1, <3>2, <3>3
  <2>5. QED BY <2>2, <2>3, <2>4
<1>6. \A i \in 1 .. Len(new), k \in 1 .. Len(rest) : new[i] < rest[k]
  <2> SUFFICES ASSUME NEW i \in 1 .. Len(new), NEW k \in 1 .. Len(rest)
               PROVE  new[i] < rest[k]
    OBVIOUS
  <2>1. rest[k] = q[k + 1] /\ k + 1 \in 1 .. Len(q) /\ 1 \in 1 .. Len(q)
    BY <1>0, <1>1 DEF rest
  <2>2. CASE i \in 1 .. Len(arrived)
    BY <1>3, <2>1, <2>2 DEF Ordered
  <2>3. CASE i = Len(new)
    BY <1>0, <1>3, <2>1, <2>3 DEF Ordered, Rising
  <2>4. QED BY <1>0, <1>3, <2>2, <2>3
<1>7. QED
  BY <1>1, <1>3, <1>4, <1>5, <1>6 DEF Ordered, new, rest

\* The newest byte joins the end of the queue.
LEMMA NewestJoins ==
  ASSUME NEW n \in Nat, NEW q \in Seq(1 .. n),
         NEW arrived \in Seq(1 .. n), Ordered(arrived, q)
  PROVE  /\ Append(q, n + 1) \in Seq(1 .. n + 1) /\ arrived \in Seq(1 .. n + 1)
         /\ Ordered(arrived, Append(q, n + 1))
<1>0. Len(q) \in Nat /\ Len(arrived) \in Nat /\ 1 .. n \subseteq 1 .. n + 1
  BY LenProperties
<1>1. q \in Seq(1 .. n + 1) /\ arrived \in Seq(1 .. n + 1)
  BY <1>0, SeqMonotonic
<1> DEFINE new == Append(q, n + 1)
<1>2. /\ new \in Seq(1 .. n + 1) /\ Len(new) = Len(q) + 1
      /\ \A i \in 1 .. Len(q) : new[i] = q[i] /\ q[i] \in 1 .. n
      /\ new[Len(new)] = n + 1
  <2>1. n + 1 \in 1 .. n + 1 /\ \A i \in 1 .. Len(q) : q[i] \in 1 .. n
    BY ElementOfSeq
  <2>2. QED BY <1>1, <2>1, AppendProperties
<1>3. \A i \in 1 .. Len(arrived) : arrived[i] \in 1 .. n
  BY ElementOfSeq
<1> HIDE DEF new
<1>4. Rising(new)
  <2> SUFFICES ASSUME NEW i \in 1 .. Len(new), NEW k \in 1 .. Len(new), i < k
               PROVE  new[i] < new[k]
    BY DEF Rising
  <2>1. i \in 1 .. Len(q) /\ new[i] = q[i] /\ q[i] \in 1 .. n
    BY <1>0, <1>2
  <2>2. CASE k \in 1 .. Len(q)
    BY <1>2, <2>1, <2>2 DEF Ordered, Rising
  <2>3. CASE k = Len(new)
    BY <1>2, <2>1, <2>3
  <2>4. k \in 1 .. Len(q) \/ k = Len(new)
    <3>1. Len(new) = Len(q) + 1
      BY <1>2
    <3>2. k \in 1 .. Len(q) + 1
      BY <3>1
    <3>3. \A m \in Nat : k \in 1 .. m + 1 => k \in 1 .. m \/ k = m + 1
      OBVIOUS
    <3>4. QED BY <1>0, <3>1, <3>2, <3>3
  <2>5. QED BY <2>2, <2>3, <2>4
<1>5. \A i \in 1 .. Len(arrived), k \in 1 .. Len(new) : arrived[i] < new[k]
  <2> SUFFICES ASSUME NEW i \in 1 .. Len(arrived), NEW k \in 1 .. Len(new)
               PROVE  arrived[i] < new[k]
    OBVIOUS
  <2>1. CASE k \in 1 .. Len(q)
    BY <1>2, <2>1 DEF Ordered
  <2>2. CASE k = Len(new)
    BY <1>2, <1>3, <2>2
  <2>3. QED BY <1>0, <1>2, <2>1, <2>2
<1>6. QED
  BY <1>1, <1>2, <1>4, <1>5 DEF Ordered, new

\* A prefix of the queue stays behind.
LEMMA PrefixStays ==
  ASSUME NEW n \in Nat, NEW q \in Seq(1 .. n), NEW k \in 0 .. Len(q),
         NEW arrived \in Seq(1 .. n), Ordered(arrived, q)
  PROVE  SubSeq(q, 1, k) \in Seq(1 .. n) /\ Ordered(arrived, SubSeq(q, 1, k))
<1>0. Len(q) \in Nat /\ \A i \in 1 .. k : q[i] \in 1 .. n
  BY LenProperties, ElementOfSeq
<1>1. /\ SubSeq(q, 1, k) \in Seq(1 .. n) /\ Len(SubSeq(q, 1, k)) = k
      /\ \A i \in 1 .. k : SubSeq(q, 1, k)[i] = q[i]
  BY <1>0, SubSeqProperties
<1> DEFINE rest == SubSeq(q, 1, k)
<1> HIDE DEF rest
<1>2. rest \in Seq(1 .. n) /\ Len(rest) = k /\ \A i \in 1 .. k : rest[i] = q[i]
  BY <1>1 DEF rest
<1>3. Ordered(arrived, rest)
  <2>1. \A i \in 1 .. Len(rest) : i \in 1 .. Len(q) /\ rest[i] = q[i]
    BY <1>0, <1>2
  <2>2. QED BY <2>1 DEF Ordered, Rising
<1>4. QED BY <1>2, <1>3 DEF rest

\* The inductive step: one case per action of PipeNext.
LEMMA PipeInvStep ==
  ASSUME Queues, PipeInv, [PipeNext]_pipeVars
  PROVE  PipeInv'
<1> USE DEF PipeInv, PipeTypeOK, PipeInOrder
<1>1. CASE Type
  <2>1. CASE program
    BY <1>1, <2>1, NewestJoins DEF Type
  <2>2. CASE ~program
    <3>1. got \in Seq(1 .. typed + 1) /\ keys \in Seq(1 .. typed + 1)
      <4>1. 1 .. typed \subseteq 1 .. typed + 1
        OBVIOUS
      <4>2. QED BY <4>1, SeqMonotonic
    <3>2. QED BY <1>1, <2>2, <3>1 DEF Type
  <2>3. QED BY <2>1, <2>2
<1>2. CASE Receive
  BY <1>2, HeadArrives DEF Receive
<1>3. CASE GiveUpKeys
  BY <1>3, OverflowKeepsOrder DEF Queues, GiveUpKeys
<1>4. CASE PrintByte
  <2>1. CASE screen
    BY <1>4, <2>1, NewestJoins DEF PrintByte
  <2>2. CASE ~screen
    <3>1. shown \in Seq(1 .. printed + 1) /\ echo \in Seq(1 .. printed + 1)
      <4>1. 1 .. printed \subseteq 1 .. printed + 1
        OBVIOUS
      <4>2. QED BY <4>1, SeqMonotonic
    <3>2. QED BY <1>4, <2>2, <3>1 DEF PrintByte
  <2>3. QED BY <2>1, <2>2
<1>5. CASE Show
  BY <1>5, HeadArrives DEF Show
<1>6. CASE GiveUpOutput
  BY <1>6, OverflowKeepsOrder DEF Queues, GiveUpOutput
<1>7. CASE Part
  <2>1. keys' \in Seq(1 .. typed) /\ Ordered(got, keys')
    BY <1>7 DEF Part, Ordered, Rising
  <2>2. echo' \in Seq(1 .. printed) /\ Ordered(shown, echo')
    <3>1. PICK k \in 0 .. Len(echo) : echo' = SubSeq(echo, 1, k)
      BY <1>7 DEF Part
    <3>2. QED BY <3>1, PrefixStays
  <2>3. QED BY <1>7, <2>1, <2>2 DEF Part
<1>8. CASE LeaveScreen
  <2>1. echo' \in Seq(1 .. printed) /\ Ordered(shown, echo')
    BY <1>8 DEF LeaveScreen, Ordered, Rising
  <2>2. QED BY <1>8, <2>1 DEF LeaveScreen
<1>9. CASE LeaveProgram
  <2>1. keys' \in Seq(1 .. typed) /\ Ordered(got, keys')
    BY <1>9 DEF LeaveProgram, Ordered, Rising
  <2>2. QED BY <1>9, <2>1 DEF LeaveProgram
<1>10. CASE UNCHANGED pipeVars
  BY <1>10 DEF pipeVars
<1>11. QED
  BY <1>1, <1>2, <1>3, <1>4, <1>5, <1>6, <1>7, <1>8, <1>9, <1>10 DEF PipeNext

\* The promise keeps both directions in order whatever the queues hold: what
\* kh_term_daemon's relay implements it therefore does too (main.cpp:228-254).
THEOREM PipeKeepsOrder ==
  ASSUME Queues
  PROVE  PipeSpec => []PipeInOrder
<1>1. PipeInit => PipeInv
  BY DEF PipeInit, PipeInv, PipeTypeOK, PipeInOrder, Ordered, Rising
<1>2. PipeInv => PipeInOrder
  BY DEF PipeInv
<1>3. PipeInv /\ [PipeNext]_pipeVars => PipeInv'
  BY PipeInvStep
<1>4. QED
  BY <1>1, <1>2, <1>3, PTL DEF PipeSpec
=============================================================================
