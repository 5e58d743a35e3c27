------------------------- MODULE KhTermSession_proofs -------------------------
(***************************************************************************)
(* Theorems about the terminal session and about khsl, one of its clients: *)
(* for every size of the queues, of the buffer and of the window size, and *)
(* any number of keys, of bytes printed and of words on khsl's command     *)
(* line.  The queues never hold more than they can, the window size is     *)
(* never made of keys, the relay implements the two FIFO pipes that        *)
(* TerminalPipe promises, khsl only does what a client of the session may, *)
(* and runs what its words ask for.                                        *)
(***************************************************************************)
EXTENDS KhslClient, SequenceTheorems, WellFoundedInduction, TLAPS

Keys == 0 .. MaxKeys
Bytes == 1 .. MaxPrinted

\* The buffer holds what was read last, and it is written at once.
BufOK ==
  /\ conn = "writePty" => buf \in Seq(Keys)
  /\ conn = "writeClient" => buf \in Seq(Bytes)

\* A client that has not sent its window size has sent nothing.
HelloFirst == client = "hello" => c2d = <<>>

SessionInv == TypeOK /\ BufOK /\ HelloFirst

\* As long as the connection process has not read, the window size is in front.
Header(s) == Len(s) >= WsLen /\ \A i \in 1 .. WsLen : s[i] = WSB

HeaderFirst ==
  conn = "winsize" =>
    /\ client = "up" => Header(c2d)
    /\ client = "closed" => c2d = <<>> \/ Header(c2d)

WinsizeInv == SessionInv /\ HeaderFirst /\ WinsizeIsClients

-----------------------------------------------------------------------------
(* Facts about the parts of a queue. *)

LEMMA LeastOf ==
  ASSUME NEW a \in Nat, NEW b \in Nat
  PROVE  /\ Least(a, b) \in Nat /\ Least(a, b) <= a /\ Least(a, b) <= b
         /\ (b > 0 /\ a > 0) => Least(a, b) > 0
BY DEF Least

LEMMA PartsOf ==
  ASSUME NEW S, NEW s \in Seq(S), NEW n \in Nat, n <= Len(s)
  PROVE  /\ Upto(s, n) \in Seq(S) /\ Len(Upto(s, n)) = n
         /\ After(s, n) \in Seq(S) /\ Len(After(s, n)) = Len(s) - n
BY DEF Upto, After

LEMMA ReadSizeOf ==
  ASSUME NEW S, NEW q \in Seq(S)
  PROVE  /\ ReadSize(q) \in Nat /\ ReadSize(q) <= BufSize /\ ReadSize(q) <= Len(q)
BY SessionAssumption, LeastOf DEF ReadSize

\* What a write without blocking keeps fits.
LEMMA FitsOf ==
  ASSUME NEW S, NEW b \in Seq(S), NEW q \in Seq(S), NEW cap \in Nat, Len(q) <= cap
  PROVE  LET n == Fits(b, q, cap) IN
         /\ n \in Nat /\ n <= Len(b)
         /\ q \o Upto(b, n) \in Seq(S) /\ Len(q \o Upto(b, n)) <= cap
<1> DEFINE n == Fits(b, q, cap)
<1>1. cap - Len(q) \in Nat /\ Len(b) \in Nat
  OBVIOUS
<1>2. n \in Nat /\ n <= Len(b) /\ n <= cap - Len(q)
  BY <1>1, LeastOf DEF Fits
<1>3. Upto(b, n) \in Seq(S) /\ Len(Upto(b, n)) = n
  BY <1>2, PartsOf
<1>4. q \o Upto(b, n) \in Seq(S) /\ Len(q \o Upto(b, n)) = Len(q) + n
  BY <1>3
<1> QED
  BY <1>2, <1>4

-----------------------------------------------------------------------------
LEMMA HeadAndTail ==
  ASSUME NEW S, NEW s \in Seq(S), s # <<>>
  PROVE  Head(s) \in S /\ Tail(s) \in Seq(S) /\ Len(Tail(s)) = Len(s) - 1
OBVIOUS

LEMMA SessionInit == Init => SessionInv
<1> SUFFICES ASSUME Init PROVE SessionInv
  OBVIOUS
<1>1. /\ <<>> \in Seq(Keys) /\ <<>> \in Seq(Bytes) /\ Len(<<>>) = 0
      /\ 0 \in 0 .. MaxKeys /\ 0 \in 0 .. MaxPrinted
      /\ 0 <= SockCap /\ 0 <= PtyCap /\ 0 <= BufSize
  BY SessionAssumption
<1> QED
  BY <1>1 DEF Init, SessionInv, TypeOK, BufOK, HelloFirst, Keys, Bytes

LEMMA SessionStep == SessionInv /\ [Next]_vars => SessionInv'
<1> SUFFICES ASSUME SessionInv, [Next]_vars PROVE SessionInv'
  OBVIOUS
<1> USE SessionAssumption DEF SessionInv
<1>1. CASE ClientHello
  <2>1. [i \in 1 .. WsLen |-> WSB] \in Seq(Keys) /\ Len([i \in 1 .. WsLen |-> WSB]) = WsLen
    BY DEF WSB, Keys
  <2>2. c2d' = [i \in 1 .. WsLen |-> WSB]
    BY <1>1 DEF ClientHello, HelloFirst, TypeOK
  <2> QED
    BY <1>1, <2>1, <2>2 DEF ClientHello, TypeOK, BufOK, HelloFirst, Keys, Bytes, connVars, shellVars
<1>2. CASE ClientType
  BY <1>2 DEF ClientType, TypeOK, BufOK, HelloFirst, Keys, Bytes, connVars, shellVars
<1>3. CASE ClientShow
  <2>1. /\ Head(d2c) \in Bytes /\ Tail(d2c) \in Seq(Bytes) /\ Len(Tail(d2c)) <= SockCap
        /\ Append(shown, Head(d2c)) \in Seq(Bytes)
    <3>1. d2c \in Seq(Bytes) /\ shown \in Seq(Bytes) /\ d2c # <<>> /\ Len(d2c) <= SockCap
      BY <1>3 DEF ClientShow, TypeOK, Bytes
    <3>2. Head(d2c) \in Bytes /\ Tail(d2c) \in Seq(Bytes) /\ Len(Tail(d2c)) = Len(d2c) - 1
      BY <3>1, HeadAndTail
    <3> QED
      BY <3>1, <3>2
  <2> QED
    BY <1>3, <2>1 DEF ClientShow, TypeOK, BufOK, HelloFirst, Keys, Bytes, connVars, shellVars
<1>4. CASE ClientSeesEnd
  BY <1>4 DEF ClientSeesEnd, TypeOK, BufOK, HelloFirst, Keys, Bytes, connVars, shellVars
<1>5. CASE ClientLeave
  BY <1>5 DEF ClientLeave, TypeOK, BufOK, HelloFirst, Keys, Bytes, connVars, shellVars
<1>6. CASE ReadWinsize
  <2> DEFINE n == Least(WsLen, Len(c2d))
  <2>1. n \in Nat /\ n <= Len(c2d)
    <3>1. WsLen \in Nat /\ Len(c2d) \in Nat
      BY DEF TypeOK
    <3> QED
      BY <3>1, LeastOf
  <2>2. c2d' \in Seq(Keys) /\ Len(c2d') <= Len(c2d)
    BY <1>6, <2>1, PartsOf DEF ReadWinsize, TypeOK, Keys
  <2>3. client' = "hello" => c2d' = <<>>
    <3> SUFFICES ASSUME client' = "hello" PROVE c2d' = <<>>
      OBVIOUS
    <3> QED
      BY <1>6 DEF ReadWinsize, HelloFirst, clientVars
  <2>4. winsize' \in {"unset", "client", "default", "garbage"} /\ conn' = "fork"
        /\ UNCHANGED <<clientVars, d2c, running, ready, buf, eagain, ptyIn, ptyOut, shellVars>>
    BY <1>6 DEF ReadWinsize
  <2> HIDE DEF n
  <2> QED
    <3>1. Len(c2d') <= SockCap
      BY <2>2 DEF TypeOK
    <3>2. BufOK' /\ HelloFirst'
      BY <2>3, <2>4 DEF BufOK, HelloFirst
    <3>3. TypeOK'
      BY <2>2, <2>4, <3>1 DEF TypeOK, Keys, clientVars, shellVars
    <3> QED
      BY <3>2, <3>3
<1>7. CASE ForkPty
  BY <1>7 DEF ForkPty, TypeOK, BufOK, HelloFirst, Keys, Bytes, clientVars
<1>8. CASE Poll
  BY <1>8 DEF Poll, TypeOK, BufOK, HelloFirst, Keys, Bytes, clientVars, shellVars
<1>9. CASE ReadClient
  <2>1. CASE "client" \in ready /\ c2d # <<>> /\ conn' = "writePty"
    <3>1. ReadSize(c2d) \in Nat /\ ReadSize(c2d) <= BufSize /\ ReadSize(c2d) <= Len(c2d)
      BY ReadSizeOf DEF TypeOK
    <3>2. buf' = Upto(c2d, ReadSize(c2d)) /\ c2d' = After(c2d, ReadSize(c2d))
      BY <1>9, <2>1 DEF ReadClient
    <3>3. /\ buf' \in Seq(Keys) /\ Len(buf') <= BufSize
          /\ c2d' \in Seq(Keys) /\ Len(c2d') <= Len(c2d)
      BY <3>1, <3>2, PartsOf DEF TypeOK, Keys
    <3> QED
      BY <1>9, <2>1, <3>3 DEF ReadClient, TypeOK, BufOK, HelloFirst, Keys, Bytes, clientVars, shellVars
  <2>2. CASE conn' = "readPty" /\ UNCHANGED <<buf, c2d>>
    BY <1>9, <2>2 DEF ReadClient, TypeOK, BufOK, HelloFirst, Keys, Bytes, clientVars, shellVars, EofMistakenForRetry
  <2> QED
    BY <1>9, <2>1, <2>2 DEF ReadClient
<1>10. CASE WritePty
  <2> DEFINE n == Fits(buf, ptyIn, PtyCap)
  <2>1. n \in Nat /\ ptyIn \o Upto(buf, n) \in Seq(Keys) /\ Len(ptyIn \o Upto(buf, n)) <= PtyCap
    BY <1>10, FitsOf DEF WritePty, TypeOK, BufOK, Keys
  <2>2. ptyIn' \in Seq(Keys) /\ Len(ptyIn') <= PtyCap /\ eagain' \in BOOLEAN
    BY <1>10, <2>1 DEF WritePty, TypeOK, Keys
  <2> QED
    BY <1>10, <2>2 DEF WritePty, TypeOK, BufOK, HelloFirst, Keys, Bytes, clientVars, shellVars
<1>11. CASE ReadPty
  <2>1. CASE "master" \in ready
    <3>1. ReadSize(ptyOut) \in Nat /\ ReadSize(ptyOut) <= BufSize /\ ReadSize(ptyOut) <= Len(ptyOut)
      BY ReadSizeOf DEF TypeOK
    <3>2. buf' = Upto(ptyOut, ReadSize(ptyOut)) /\ ptyOut' = After(ptyOut, ReadSize(ptyOut))
      BY <1>11, <2>1 DEF ReadPty
    <3>3. /\ buf' \in Seq(Bytes) /\ Len(buf') <= BufSize
          /\ ptyOut' \in Seq(Bytes) /\ Len(ptyOut') <= Len(ptyOut)
      BY <3>1, <3>2, PartsOf DEF TypeOK, Bytes
    <3> QED
      BY <1>11, <2>1, <3>3 DEF ReadPty, TypeOK, BufOK, HelloFirst, Keys, Bytes, clientVars, shellVars
  <2>2. CASE "master" \notin ready
    BY <1>11, <2>2 DEF ReadPty, TypeOK, BufOK, HelloFirst, Keys, Bytes, clientVars, shellVars
  <2> QED
    BY <2>1, <2>2
<1>12. CASE WriteClient
  <2>1. CASE client = "closed"
    BY <1>12, <2>1 DEF WriteClient, TypeOK, BufOK, HelloFirst, Keys, Bytes, clientVars, shellVars
  <2>2. CASE client # "closed"
    <3> DEFINE n == Fits(buf, d2c, SockCap)
    <3>1. n \in Nat /\ d2c \o Upto(buf, n) \in Seq(Bytes) /\ Len(d2c \o Upto(buf, n)) <= SockCap
      BY <1>12, FitsOf DEF WriteClient, TypeOK, BufOK, Bytes
    <3>2. d2c' = d2c \o Upto(buf, n) /\ eagain' = (eagain \/ n = 0) /\ conn' = "poll"
          /\ buf' = <<>> /\ buf' \in Seq(Keys) /\ Len(buf') = 0
      BY <1>12, <2>2 DEF WriteClient
    <3> HIDE DEF n
    <3> QED
      BY <1>12, <2>2, <3>1, <3>2 DEF WriteClient, TypeOK, BufOK, HelloFirst, Keys, Bytes, clientVars, shellVars
  <2> QED
    BY <2>1, <2>2
<1>13. CASE EndSession
  BY <1>13 DEF EndSession, TypeOK, BufOK, HelloFirst, Keys, Bytes, clientVars
<1>14. CASE ShellRead
  <2>1. /\ Head(ptyIn) \in Keys /\ Tail(ptyIn) \in Seq(Keys) /\ Len(Tail(ptyIn)) <= PtyCap
        /\ Append(got, Head(ptyIn)) \in Seq(Keys)
    <3>1. ptyIn \in Seq(Keys) /\ got \in Seq(Keys) /\ ptyIn # <<>> /\ Len(ptyIn) <= PtyCap
      BY <1>14 DEF ShellRead, TypeOK, Keys
    <3>2. Head(ptyIn) \in Keys /\ Tail(ptyIn) \in Seq(Keys) /\ Len(Tail(ptyIn)) = Len(ptyIn) - 1
      BY <3>1, HeadAndTail
    <3> QED
      BY <3>1, <3>2
  <2> QED
    BY <1>14, <2>1 DEF ShellRead, TypeOK, BufOK, HelloFirst, Keys, Bytes, clientVars, connVars
<1>15. CASE ShellPrint
  BY <1>15 DEF ShellPrint, TypeOK, BufOK, HelloFirst, Keys, Bytes, clientVars, connVars
<1>16. CASE ShellExit \/ HangUp
  BY <1>16 DEF ShellExit, HangUp, TypeOK, BufOK, HelloFirst, Keys, Bytes, clientVars, connVars
<1>17. CASE UNCHANGED vars
  BY <1>17 DEF vars, clientVars, connVars, shellVars, TypeOK, BufOK, HelloFirst, Keys, Bytes
<1> QED
  BY <1>1, <1>2, <1>3, <1>4, <1>5, <1>6, <1>7, <1>8, <1>9, <1>10, <1>11, <1>12, <1>13,
     <1>14, <1>15, <1>16, <1>17 DEF Next, Client, Conn, Relay, Shell

\* No queue of a session ever holds more than it can and the relay's buffer never
\* more than its size, whatever the client and the shell do (main.cpp:228-254).
THEOREM SessionTypeOK == Spec => []TypeOK
<1>1. SessionInv => TypeOK
  BY DEF SessionInv
<1> QED
  BY <1>1, SessionInit, SessionStep, PTL DEF Spec

-----------------------------------------------------------------------------
LEMMA WinsizeInit == Init /\ SendsWinsize => WinsizeInv
BY SessionInit DEF Init, WinsizeInv, HeaderFirst, WinsizeIsClients

\* What is typed after the window size leaves it in front.
LEMMA HeaderStays ==
  ASSUME NEW S, NEW s \in Seq(S), NEW b, Header(s)
  PROVE  Header(Append(s, b))
<1>1. Len(s) \in Nat /\ WsLen \in Nat /\ WsLen <= Len(s)
  BY SessionAssumption DEF Header
<1>2. Len(Append(s, b)) = Len(s) + 1 /\ \A i \in 1 .. Len(s) : Append(s, b)[i] = s[i]
  OBVIOUS
<1> QED
  BY <1>1, <1>2 DEF Header

\* The connection process reads a window size or, of a client that left before it
\* sent one, nothing.
LEMMA ReadsHeader ==
  WinsizeInv /\ ReadWinsize => winsize' # "garbage"
<1> SUFFICES ASSUME WinsizeInv, ReadWinsize PROVE winsize' # "garbage"
  OBVIOUS
<1>1. c2d = <<>> \/ Header(c2d)
  BY DEF ReadWinsize, WinsizeInv, SessionInv, TypeOK, HelloFirst, HeaderFirst
<1>2. WsLen \in Nat /\ WsLen > 0
  BY SessionAssumption
<1>3. CASE c2d = <<>>
  <2>1. Least(WsLen, Len(c2d)) = 0
    BY <1>2, <1>3 DEF Least
  <2> QED
    BY <1>2, <2>1 DEF ReadWinsize
<1>4. CASE Header(c2d)
  <2>1. Len(c2d) \in Nat
    BY DEF WinsizeInv, SessionInv, TypeOK
  <2>2. Least(WsLen, Len(c2d)) = WsLen /\ \A i \in 1 .. WsLen : c2d[i] = WSB
    BY <1>2, <1>4, <2>1 DEF Least, Header
  <2> QED
    BY <1>2, <2>2 DEF ReadWinsize
<1> QED
  BY <1>1, <1>3, <1>4

LEMMA WinsizeStep == WinsizeInv /\ [Next]_vars => WinsizeInv'
<1> SUFFICES ASSUME WinsizeInv, [Next]_vars PROVE HeaderFirst' /\ WinsizeIsClients'
  BY SessionStep DEF WinsizeInv
<1>1. CASE ClientHello
  <2>1. c2d' = [i \in 1 .. WsLen |-> WSB]
    BY <1>1, SessionAssumption DEF ClientHello, WinsizeInv, SessionInv, HelloFirst, WSB
  <2>2. Header(c2d')
    BY <2>1, SessionAssumption DEF Header
  <2> QED
    BY <1>1, <2>2 DEF ClientHello, WinsizeInv, HeaderFirst, WinsizeIsClients, connVars
<1>2. CASE ClientType
  <2>1. conn = "winsize" => Header(c2d')
    <3>1. c2d \in Seq(0 .. MaxKeys) /\ c2d' = Append(c2d, typed')
      BY <1>2 DEF ClientType, WinsizeInv, SessionInv, TypeOK
    <3>2. conn = "winsize" => Header(c2d)
      BY <1>2 DEF ClientType, WinsizeInv, HeaderFirst
    <3> QED
      BY <3>1, <3>2, HeaderStays
  <2> QED
    BY <1>2, <2>1 DEF ClientType, WinsizeInv, HeaderFirst, WinsizeIsClients, connVars
<1>3. CASE ClientShow
  BY <1>3 DEF ClientShow, WinsizeInv, HeaderFirst, WinsizeIsClients, connVars
<1>4. CASE ClientSeesEnd
  BY <1>4 DEF ClientSeesEnd, ConnOver, WinsizeInv, HeaderFirst, WinsizeIsClients, connVars
<1>5. CASE ClientLeave
  BY <1>5 DEF ClientLeave, WinsizeInv, SessionInv, TypeOK, HelloFirst, HeaderFirst,
              WinsizeIsClients, connVars
<1>6. CASE ReadWinsize
  BY <1>6, ReadsHeader DEF ReadWinsize, HeaderFirst, WinsizeIsClients
<1>7. CASE ForkPty
  BY <1>7 DEF ForkPty, WinsizeInv, HeaderFirst, WinsizeIsClients
<1>8. CASE Relay
  BY <1>8 DEF Relay, Poll, ReadClient, WritePty, ReadPty, WriteClient, EndSession,
              WinsizeInv, HeaderFirst, WinsizeIsClients
<1>9. CASE Shell
  BY <1>9 DEF Shell, ShellRead, ShellPrint, ShellExit, HangUp, clientVars, connVars,
              WinsizeInv, HeaderFirst, WinsizeIsClients
<1>10. CASE UNCHANGED vars
  BY <1>10 DEF vars, clientVars, connVars, WinsizeInv, HeaderFirst, WinsizeIsClients
<1> QED
  BY <1>1, <1>2, <1>3, <1>4, <1>5, <1>6, <1>7, <1>8, <1>9, <1>10 DEF Next, Client, Conn

\* A client that sends its window size never has its keys taken for it, however
\* late or early it types or leaves (main.cpp:170-181).
THEOREM WinsizeNeverKeys ==
  ASSUME SendsWinsize PROVE Spec => []WinsizeIsClients
<1>1. Init => WinsizeInv
  BY WinsizeInit
<1>2. WinsizeInv => WinsizeIsClients
  BY DEF WinsizeInv
<1> QED
  BY <1>1, <1>2, WinsizeStep, PTL DEF Spec
-----------------------------------------------------------------------------
(* The session keeps the terminal's promise.  First, parts of queues. *)

LEMMA CutAndJoin ==
  ASSUME NEW S, NEW s \in Seq(S), NEW n \in Nat, n <= Len(s)
  PROVE  s = Upto(s, n) \o After(s, n)
<1>1. /\ Len(s) \in Nat /\ 1 \in 1 .. Len(s) + 1
      /\ n \in 1 - 1 .. Len(s) /\ Len(s) \in n .. Len(s)
  BY LenProperties
<1>2. SubSeq(s, 1, n) \o SubSeq(s, n + 1, Len(s)) = SubSeq(s, 1, Len(s))
  BY <1>1, ConcatAdjacentSubSeq
<1> QED BY <1>2, SubSeqFull DEF Upto, After

LEMMA NothingCut ==
  ASSUME NEW S, NEW s \in Seq(S)
  PROVE  After(s, 0) = s /\ After(s, Len(s)) = <<>> /\ Upto(s, Len(s)) = s /\ Upto(s, 0) = <<>>
<1>1. Len(s) \in Nat /\ 0 + 1 = 1
  BY LenProperties
<1>2. SubSeq(s, Len(s) + 1, Len(s)) = <<>> /\ SubSeq(s, 1, 0) = <<>>
  BY <1>1, SubSeqEmpty
<1> QED BY <1>1, <1>2, SubSeqFull DEF Upto, After

LEMMA AfterOfAppend ==
  ASSUME NEW S, NEW s \in Seq(S), NEW b \in S, NEW n \in Nat, n <= Len(s)
  PROVE  After(Append(s, b), n) = Append(After(s, n), b)
<1> DEFINE long == Append(s, b)
<1>1. /\ long \in Seq(S) /\ Len(long) = Len(s) + 1 /\ Len(s) \in Nat
      /\ \A i \in 1 .. Len(s) : long[i] = s[i]
      /\ long[Len(s) + 1] = b
  BY AppendProperties, LenProperties
<1> HIDE DEF long
<1>2. /\ After(s, n) \in Seq(S) /\ Len(After(s, n)) = Len(s) - n
      /\ \A i \in 1 .. Len(s) - n : After(s, n)[i] = s[n + i]
  <2>1. \A i \in n + 1 .. Len(s) : s[i] \in S
    BY ElementOfSeq, <1>1
  <2>2. /\ SubSeq(s, n + 1, Len(s)) \in Seq(S)
        /\ Len(SubSeq(s, n + 1, Len(s))) = IF n + 1 <= Len(s) THEN Len(s) - (n + 1) + 1 ELSE 0
        /\ \A i \in 1 .. Len(s) - (n + 1) + 1 : SubSeq(s, n + 1, Len(s))[i] = s[n + 1 + i - 1]
    BY <1>1, <2>1, SubSeqProperties
  <2> QED BY <1>1, <2>2 DEF After
<1>3. /\ After(long, n) \in Seq(S) /\ Len(After(long, n)) = Len(s) + 1 - n
      /\ \A i \in 1 .. Len(s) + 1 - n : After(long, n)[i] = long[n + i]
  <2>1. \A i \in n + 1 .. Len(long) : long[i] \in S
    BY ElementOfSeq, <1>1
  <2>2. /\ SubSeq(long, n + 1, Len(long)) \in Seq(S)
        /\ Len(SubSeq(long, n + 1, Len(long))) =
             IF n + 1 <= Len(long) THEN Len(long) - (n + 1) + 1 ELSE 0
        /\ \A i \in 1 .. Len(long) - (n + 1) + 1 :
             SubSeq(long, n + 1, Len(long))[i] = long[n + 1 + i - 1]
    BY <1>1, <2>1, SubSeqProperties
  <2> QED BY <1>1, <2>2 DEF After
<1> DEFINE rest == After(s, n)
           both == Append(rest, b)
<1>4. /\ both \in Seq(S) /\ Len(both) = Len(s) - n + 1
      /\ \A i \in 1 .. Len(s) - n : both[i] = rest[i]
      /\ both[Len(s) - n + 1] = b
  BY <1>2, AppendProperties
<1> HIDE DEF both, rest
<1>5. Len(After(long, n)) = Len(both)
  BY <1>1, <1>3, <1>4
<1>6. ASSUME NEW i \in 1 .. Len(both) PROVE After(long, n)[i] = both[i]
  <2>1. CASE i <= Len(s) - n
    BY <1>1, <1>2, <1>3, <1>4, <2>1 DEF rest
  <2>2. CASE i = Len(s) - n + 1
    BY <1>1, <1>3, <1>4, <2>2
  <2> QED BY <1>1, <1>4, <2>1, <2>2
<1>7. After(long, n) = both
  BY <1>3, <1>4, <1>5, <1>6, SeqEqual
<1> QED BY <1>7 DEF long, both, rest

\* The front of a queue stays in front.
LEMMA HeadOfConcat ==
  ASSUME NEW S, NEW q \in Seq(S), NEW r \in Seq(S), q # <<>>
  PROVE  q \o r # <<>> /\ Head(q \o r) = Head(q) /\ Tail(q \o r) = Tail(q) \o r
<1>1. /\ Len(q) \in Nat \ {0} /\ Len(r) \in Nat /\ 1 \in 1 .. Len(q) + Len(r)
  BY LenProperties, EmptySeq
<1>2. /\ q \o r \in Seq(S) /\ Len(q \o r) = Len(q) + Len(r)
      /\ \A i \in 1 .. Len(q) + Len(r) : (q \o r)[i] = IF i <= Len(q) THEN q[i] ELSE r[i - Len(q)]
  BY ConcatProperties
<1>3. q \o r # <<>>
  BY <1>1, <1>2, EmptySeq
<1>4. /\ Tail(q) \in Seq(S) /\ Len(Tail(q)) = Len(q) - 1
      /\ \A i \in 1 .. Len(Tail(q)) : Tail(q)[i] = q[i + 1]
  BY HeadTailProperties
<1>5. /\ Tail(q \o r) \in Seq(S) /\ Len(Tail(q \o r)) = Len(q) + Len(r) - 1
      /\ \A i \in 1 .. Len(Tail(q \o r)) : Tail(q \o r)[i] = (q \o r)[i + 1]
  BY <1>2, <1>3, HeadTailProperties
<1>6. /\ Tail(q) \o r \in Seq(S) /\ Len(Tail(q) \o r) = Len(Tail(q)) + Len(r)
      /\ \A i \in 1 .. Len(Tail(q)) + Len(r) :
           (Tail(q) \o r)[i] = IF i <= Len(Tail(q)) THEN Tail(q)[i] ELSE r[i - Len(Tail(q))]
  BY <1>4, ConcatProperties
<1>7. Head(q \o r) = Head(q)
  <2>1. Head(q) = q[1] /\ Head(q \o r) = (q \o r)[1]
    BY <1>1, <1>2
  <2> QED BY <1>1, <1>2, <2>1
<1>8. Tail(q \o r) = Tail(q) \o r
  <2>1. Len(Tail(q \o r)) = Len(Tail(q) \o r)
    BY <1>1, <1>4, <1>5, <1>6
  <2>2. ASSUME NEW i \in 1 .. Len(Tail(q) \o r) PROVE Tail(q \o r)[i] = (Tail(q) \o r)[i]
    <3>1. i \in 1 .. Len(q) + Len(r) - 1 /\ i + 1 \in 1 .. Len(q) + Len(r)
      BY <1>1, <1>4, <1>6
    <3>2. Tail(q \o r)[i] = IF i + 1 <= Len(q) THEN q[i + 1] ELSE r[i + 1 - Len(q)]
      BY <1>1, <1>2, <1>5, <3>1
    <3>3. (Tail(q) \o r)[i] = IF i <= Len(q) - 1 THEN Tail(q)[i] ELSE r[i - (Len(q) - 1)]
      BY <1>1, <1>4, <1>6, <3>1
    <3>4. i <= Len(q) - 1 => Tail(q)[i] = q[i + 1]
      BY <1>1, <1>4, <3>1
    <3>5. i - (Len(q) - 1) = i + 1 - Len(q) /\ (i <= Len(q) - 1 <=> i + 1 <= Len(q))
      BY <1>1, <3>1
    <3> QED BY <3>2, <3>3, <3>4, <3>5
  <2> QED BY <1>5, <1>6, <2>1, <2>2, SeqEqual
<1> QED BY <1>3, <1>7, <1>8

LEMMA JoinJoin ==
  \A S : \A s, t, u \in Seq(S) : (s \o t) \o u = s \o (t \o u)
BY ConcatAssociative

LEMMA AppendOfConcat ==
  ASSUME NEW S, NEW q \in Seq(S), NEW r \in Seq(S), NEW b \in S
  PROVE  q \o Append(r, b) = Append(q \o r, b)
<1>1. <<b>> \in Seq(S) /\ q \o r \in Seq(S)
  BY ConcatProperties
<1>2. Append(r, b) = r \o <<b>> /\ Append(q \o r, b) = (q \o r) \o <<b>>
  BY <1>1, AppendIsConcat
<1> QED BY <1>1, <1>2, ConcatAssociative

\* The part of a queue that its first elements are.
LEMMA FirstOfConcat ==
  ASSUME NEW S, NEW q \in Seq(S), NEW r \in Seq(S)
  PROVE  SubSeq(q \o r, 1, Len(q)) = q /\ SubSeq(q \o r, Len(q) + 1, Len(q \o r)) = r
<1>1. Len(q) \in Nat /\ Len(r) \in Nat /\ q \o r \in Seq(S) /\ Len(q \o r) = Len(q) + Len(r)
  BY LenProperties, ConcatProperties
<1>2. SubSeq(q \o r, 1, Len(q)) = q
  <2>1. CASE q = <<>>
    BY <2>1, SubSeqEmpty
  <2>2. CASE q # <<>>
    <3>1. 1 \in 1 .. Len(q) /\ Len(q) \in 1 .. Len(q)
      BY <1>1, <2>2, EmptySeq
    <3> QED BY <3>1, SubSeqOfConcat1, SubSeqFull
  <2> QED BY <2>1, <2>2
<1>3. SubSeq(q \o r, Len(q) + 1, Len(q \o r)) = r
  <2>1. CASE r = <<>>
    <3>1. Len(q) + 1 \in Int /\ Len(q \o r) \in Int /\ Len(q \o r) < Len(q) + 1
      BY <1>1, <2>1
    <3> QED BY <2>1, <3>1, SubSeqEmpty
  <2>2. CASE r # <<>>
    <3>1. /\ Len(q) + 1 \in Len(q) + 1 .. Len(q) + Len(r)
          /\ Len(q \o r) \in Len(q) + 1 .. Len(q) + Len(r)
      BY <1>1, <2>2, EmptySeq
    <3>2. SubSeq(q \o r, Len(q) + 1, Len(q \o r)) =
            SubSeq(r, Len(q) + 1 - Len(q), Len(q \o r) - Len(q))
      BY <3>1, SubSeqOfConcat2
    <3>3. Len(q) + 1 - Len(q) = 1 /\ Len(q \o r) - Len(q) = Len(r)
      BY <1>1
    <3> QED BY <3>2, <3>3, SubSeqFull
  <2> QED BY <2>1, <2>2
<1> QED BY <1>2, <1>3

\* A write without blocking keeps all of the buffer, or gives bytes up to a full queue.
LEMMA WriteGivesUp ==
  ASSUME NEW S, NEW q \in Seq(S), NEW b \in Seq(S), NEW r \in Seq(S),
         NEW cap \in Nat \ {0}, Len(q) <= cap
  PROVE  LET n == Fits(b, q, cap) IN
         \/ (q \o Upto(b, n)) \o r = (q \o b) \o r
         \/ Pipe!Overflow((q \o b) \o r, cap, (q \o Upto(b, n)) \o r)
<1> DEFINE n == Fits(b, q, cap)
           kept == q \o Upto(b, n)
           all == (q \o b) \o r
<1>1. Len(q) \in Nat /\ Len(b) \in Nat /\ cap - Len(q) \in Nat
  BY LenProperties
<1>2. n \in Nat /\ n <= Len(b) /\ (n = Len(b) \/ n = cap - Len(q))
  BY <1>1 DEF Fits, Least
<1> HIDE DEF n
<1>3. CASE n = Len(b)
  BY <1>3, NothingCut DEF n
<1>4. CASE n # Len(b)
  <2>1. /\ Upto(b, n) \in Seq(S) /\ Len(Upto(b, n)) = n
        /\ After(b, n) \in Seq(S) /\ b = Upto(b, n) \o After(b, n)
    BY <1>2, PartsOf, CutAndJoin
  <2>2. kept \in Seq(S) /\ Len(kept) = Len(q) + n
    BY <2>1, ConcatProperties
  <2>3. Len(kept) = cap
    BY <1>1, <1>2, <1>4, <2>2
  <2>4. q \o b = kept \o After(b, n)
    <3> DEFINE u == Upto(b, n)
               a == After(b, n)
    <3>1. u \in Seq(S) /\ a \in Seq(S) /\ b = u \o a
      BY <2>1
    <3> HIDE DEF u, a
    <3>2. (q \o u) \o a = q \o (u \o a)
      BY <3>1, JoinJoin
    <3> QED BY <3>1, <3>2 DEF u, a
  <2>5. After(b, n) \o r \in Seq(S)
    BY <2>1, ConcatProperties
  <2>6. all = kept \o (After(b, n) \o r)
    <3> HIDE DEF kept
    <3>1. kept \in Seq(S) /\ After(b, n) \in Seq(S) /\ r \in Seq(S)
      BY <2>1, <2>2
    <3>2. (kept \o After(b, n)) \o r = kept \o (After(b, n) \o r)
      BY ONLY <3>1, JoinJoin
    <3> QED BY <2>4, <3>2
  <2>7. SubSeq(all, 1, cap) = kept
    <3> HIDE DEF all, kept
    <3> QED BY <2>2, <2>3, <2>5, <2>6, FirstOfConcat
  <2>8. /\ q \o b \in Seq(S) /\ Len(q \o b) = Len(q) + Len(b)
        /\ Len(all) = Len(q \o b) + Len(r) /\ Len(r) \in Nat
    <3>1. q \o b \in Seq(S) /\ Len(q \o b) = Len(q) + Len(b)
      BY ConcatProperties
    <3> QED BY <3>1, ConcatProperties, LenProperties
  <2>9. SubSeq(all, Len(q \o b) + 1, Len(all)) = r
    BY <2>8, FirstOfConcat
  <2>10. Len(q \o b) \in cap + 1 .. Len(all)
    BY <1>1, <1>2, <1>4, <2>8
  <2>11. kept \o r = SubSeq(all, 1, cap) \o SubSeq(all, Len(q \o b) + 1, Len(all))
    BY <2>7, <2>9
  <2>12. Pipe!Overflow(all, cap, kept \o r)
    <3> HIDE DEF all, kept
    <3> QED BY <2>10, <2>11 DEF Pipe!Overflow
  <2> QED BY <2>12 DEF n
<1> QED BY <1>3, <1>4

-----------------------------------------------------------------------------
(* The steps of a session. *)

\* What Pipe calls keys and echo.
ToShell == IF ConnOver \/ ShellGone THEN <<>> ELSE KeysInFlight
ToScreen == IF client = "closed" THEN <<>> ELSE IF ConnOver THEN d2c ELSE OutputInFlight
KeysBuffer == IF conn = "writePty" THEN buf ELSE <<>>
OutputBuffer == IF conn = "writeClient" THEN buf ELSE <<>>

\* Nobody reads before the window size was sent.
HelloWaits == client = "hello" => conn = "winsize"
\* No shell runs, and none has ended, before the fork.
NoShellYet == conn \in {"winsize", "fork"} => shell = "none"
PipeInv == WinsizeInv /\ HelloWaits /\ NoShellYet

LEMMA PipeTypes ==
  ASSUME PipeInv
  PROVE  /\ c2d \in Seq(Keys) /\ ptyIn \in Seq(Keys) /\ KeysBuffer \in Seq(Keys)
         /\ d2c \in Seq(Bytes) /\ ptyOut \in Seq(Bytes) /\ OutputBuffer \in Seq(Bytes)
         /\ Front \in Nat /\ Front <= Len(c2d) /\ After(c2d, Front) \in Seq(Keys)
         /\ Len(ptyIn) <= PtyCap /\ Len(d2c) <= SockCap
<1>1. /\ c2d \in Seq(Keys) /\ ptyIn \in Seq(Keys) /\ d2c \in Seq(Bytes) /\ ptyOut \in Seq(Bytes)
      /\ Len(ptyIn) <= PtyCap /\ Len(d2c) <= SockCap
  BY DEF PipeInv, WinsizeInv, SessionInv, TypeOK, Keys, Bytes
<1>2. <<>> \in Seq(Keys) /\ <<>> \in Seq(Bytes)
  OBVIOUS
<1>3. KeysBuffer \in Seq(Keys) /\ OutputBuffer \in Seq(Bytes)
  BY <1>2 DEF PipeInv, WinsizeInv, SessionInv, BufOK, KeysBuffer, OutputBuffer
<1>4. Front \in Nat /\ Front <= Len(c2d)
  <2>1. Len(c2d) \in Nat /\ WsLen \in Nat
    BY <1>1, LenProperties, SessionAssumption
  <2>2. Least(WsLen, Len(c2d)) \in Nat /\ Least(WsLen, Len(c2d)) <= Len(c2d)
    BY <2>1, LeastOf
  <2> QED BY <2>1, <2>2 DEF Front
<1>5. After(c2d, Front) \in Seq(Keys)
  BY <1>1, <1>4, PartsOf
<1> QED BY <1>1, <1>3, <1>4, <1>5

LEMMA InFlight ==
  /\ KeysInFlight = (ptyIn \o KeysBuffer) \o After(c2d, Front)
  /\ OutputInFlight = (d2c \o OutputBuffer) \o ptyOut
BY DEF KeysInFlight, OutputInFlight, KeysBuffer, OutputBuffer

LEMMA PipeSame ==
  ASSUME UNCHANGED <<typed, got, printed, shown>>,
         ToShell' = ToShell, ToScreen' = ToScreen,
         ConnOver' = ConnOver, ShellGone' = ShellGone, (client = "closed")' = (client = "closed")
  PROVE  UNCHANGED Pipe!pipeVars
BY DEF Pipe!pipeVars, ToShell, ToScreen

\* A step that moves no key and no byte is no step of the promise.
LEMMA QuietIsSame ==
  ASSUME UNCHANGED <<client, typed, got, printed, shown>>, ConnOver' <=> ConnOver,
         ShellGone' <=> ShellGone, KeysInFlight' = KeysInFlight, OutputInFlight' = OutputInFlight, ConnOver => d2c' = d2c
  PROVE  UNCHANGED Pipe!pipeVars
<1>1. ToShell' = ToShell /\ ToScreen' = ToScreen
  BY DEF ToShell, ToScreen
<1>2. ConnOver' = ConnOver /\ ShellGone' = ShellGone
  BY DEF ConnOver, ShellGone
<1> QED BY <1>1, <1>2, PipeSame

\* The client.
LEMMA HelloIsNothing ==
  ASSUME PipeInv, ClientHello
  PROVE  UNCHANGED Pipe!pipeVars
<1>1. /\ conn = "winsize" /\ c2d = <<>> /\ client = "hello" /\ client' = "up"
      /\ c2d' = [i \in 1 .. WsLen |-> WSB]
      /\ UNCHANGED <<typed, shown, d2c, connVars, ptyIn, ptyOut, shellVars>>
  BY SessionAssumption
     DEF ClientHello, PipeInv, HelloWaits, WinsizeInv, SessionInv, HelloFirst, WSB
<1>2. WsLen \in Nat
  BY SessionAssumption
<1>3. c2d' \in Seq(Keys) /\ Len(c2d') = WsLen
  BY <1>1, <1>2, SessionAssumption DEF WSB, Keys
<1>4. After(c2d, Front) = <<>>
  <2>1. c2d \in Seq(Keys) /\ Len(c2d) = 0
    BY <1>1
  <2>2. Front = 0
    BY <1>1, <1>2, <2>1 DEF Front, Least
  <2> QED BY <1>1, <2>1, <2>2, NothingCut
<1>5. After(c2d, Front)' = <<>>
  <2>1. Front' = Len(c2d')
    BY <1>1, <1>2, <1>3 DEF Front, Least, connVars
  <2> QED BY <1>3, <2>1, NothingCut
<1>6. /\ ToShell' = ToShell /\ ToScreen' = ToScreen
      /\ ConnOver' = ConnOver /\ ShellGone' = ShellGone
  BY <1>1, <1>4, <1>5
     DEF ToShell, ToScreen, ConnOver, ShellGone, KeysInFlight, OutputInFlight, connVars,
         shellVars
<1> QED BY <1>1, <1>6, PipeSame DEF shellVars

LEMMA TypeIsType ==
  ASSUME PipeInv, ClientType
  PROVE  Pipe!Type
<1>1. /\ ~ConnOver /\ client = "up" /\ typed' = typed + 1 /\ c2d' = Append(c2d, typed')
      /\ UNCHANGED <<client, shown, d2c, connVars, ptyIn, ptyOut, shellVars>>
  BY DEF ClientType
<1>2. typed' \in Keys
  BY SessionAssumption DEF ClientType, PipeInv, WinsizeInv, SessionInv, TypeOK, Keys
<1>3. Front' = Front
  <2>1. CASE conn = "winsize"
    <3>1. Len(c2d) >= WsLen /\ WsLen \in Nat /\ Len(c2d) \in Nat /\ Len(c2d') = Len(c2d) + 1
      BY <1>1, <1>2, <2>1, PipeTypes, AppendProperties, LenProperties, SessionAssumption
         DEF PipeInv, WinsizeInv, HeaderFirst, Header
    <3> QED BY <1>1, <2>1, <3>1 DEF Front, Least, connVars
  <2>2. CASE conn # "winsize"
    BY <1>1, <2>2 DEF Front, connVars
  <2> QED BY <2>1, <2>2
<1>4. After(c2d', Front) = Append(After(c2d, Front), typed')
  BY <1>1, <1>2, PipeTypes, AfterOfAppend
<1>5. KeysInFlight' = Append(KeysInFlight, typed')
  <2>1. KeysInFlight' = (ptyIn \o KeysBuffer) \o Append(After(c2d, Front), typed')
    BY <1>1, <1>3, <1>4 DEF KeysInFlight, KeysBuffer, connVars
  <2>2. ptyIn \o KeysBuffer \in Seq(Keys) /\ After(c2d, Front) \in Seq(Keys)
    BY PipeTypes, ConcatProperties
  <2> QED BY <1>2, <2>1, <2>2, AppendOfConcat, InFlight
<1>6. ConnOver' = ConnOver /\ ShellGone' = ShellGone /\ ToScreen' = ToScreen
  BY <1>1 DEF ConnOver, ShellGone, ToScreen, OutputInFlight, connVars, shellVars
<1>7. ToShell' = IF ~ShellGone THEN Append(ToShell, typed') ELSE ToShell
  BY <1>1, <1>5, <1>6 DEF ToShell
<1> QED BY <1>1, <1>6, <1>7 DEF Pipe!Type, ToShell, ToScreen, shellVars

LEMMA ShowIsShow ==
  ASSUME PipeInv, ClientShow
  PROVE  Pipe!Show
<1>1. /\ client = "up" /\ d2c # <<>> /\ shown' = Append(shown, Head(d2c)) /\ d2c' = Tail(d2c)
      /\ UNCHANGED <<client, typed, c2d, connVars, ptyIn, ptyOut, shellVars>>
  BY DEF ClientShow
<1>2. ConnOver' = ConnOver /\ ShellGone' = ShellGone /\ ToShell' = ToShell
  BY <1>1 DEF ConnOver, ShellGone, ToShell, KeysInFlight, Front, connVars, shellVars
<1>3. ToScreen # <<>> /\ Head(ToScreen) = Head(d2c) /\ ToScreen' = Tail(ToScreen)
  <2>1. CASE ConnOver
    BY <1>1, <1>2, <2>1 DEF ToScreen
  <2>2. CASE ~ConnOver
    <3> DEFINE rest == OutputBuffer \o ptyOut
    <3>1. /\ OutputBuffer \in Seq(Bytes) /\ ptyOut \in Seq(Bytes) /\ rest \in Seq(Bytes)
          /\ d2c \in Seq(Bytes) /\ Tail(d2c) \in Seq(Bytes)
      BY <1>1, PipeTypes, ConcatProperties, HeadTailProperties
    <3>2. ToScreen = (d2c \o OutputBuffer) \o ptyOut
      BY <1>1, <2>2, InFlight DEF ToScreen
    <3>3. ToScreen' = (Tail(d2c) \o OutputBuffer) \o ptyOut
      BY <1>1, <1>2, <2>2 DEF ToScreen, OutputInFlight, OutputBuffer, connVars
    <3>4. ToScreen = d2c \o rest /\ ToScreen' = Tail(d2c) \o rest
      <4>0. \A s \in Seq(Bytes) : (s \o OutputBuffer) \o ptyOut = s \o rest
        BY <3>1, JoinJoin
      <4>1. (d2c \o OutputBuffer) \o ptyOut = d2c \o rest
        BY <3>1, <4>0
      <4>2. (Tail(d2c) \o OutputBuffer) \o ptyOut = Tail(d2c) \o rest
        BY <3>1, <4>0
      <4> QED BY <3>2, <3>3, <4>1, <4>2
    <3> HIDE DEF rest
    <3> QED BY <1>1, <3>1, <3>4, HeadOfConcat
  <2> QED BY <2>1, <2>2
<1> QED BY <1>1, <1>2, <1>3 DEF Pipe!Show, ToShell, ToScreen, shellVars

LEMMA EndIsLeave ==
  ASSUME ClientSeesEnd \/ ClientLeave
  PROVE  Pipe!LeaveScreen
<1>1. /\ client # "closed" /\ client' = "closed"
      /\ UNCHANGED <<typed, shown, c2d, d2c, connVars, ptyIn, ptyOut, shellVars>>
  BY DEF ClientSeesEnd, ClientLeave
<1>2. /\ ConnOver' = ConnOver /\ ShellGone' = ShellGone
      /\ ToShell' = ToShell /\ ToScreen' = <<>>
  <2>1. /\ ConnOver' = ConnOver /\ ShellGone' = ShellGone
        /\ Front' = Front /\ KeysBuffer' = KeysBuffer
    BY <1>1 DEF ConnOver, ShellGone, Front, KeysBuffer, connVars, shellVars
  <2>2. KeysInFlight' = KeysInFlight
    BY <1>1, <2>1 DEF KeysInFlight, KeysBuffer
  <2> QED BY <1>1, <2>1, <2>2 DEF ToShell, ToScreen
<1> QED BY <1>1, <1>2 DEF Pipe!LeaveScreen, ToShell, ToScreen, shellVars

\* The connection process.
LEMMA WinsizeIsNoKey ==
  ASSUME PipeInv, ReadWinsize
  PROVE  UNCHANGED Pipe!pipeVars
<1>1. /\ conn = "winsize" /\ conn' = "fork" /\ c2d' = After(c2d, Front)
      /\ UNCHANGED <<clientVars, d2c, buf, ptyIn, ptyOut, shellVars>>
  BY DEF ReadWinsize, Front
<1>2. Front' = 0
  BY <1>1 DEF Front
<1>3. After(c2d, Front)' = After(c2d, Front)
  <2>1. c2d' \in Seq(Keys)
    BY <1>1, PipeTypes
  <2> QED BY <1>1, <1>2, <2>1, NothingCut
<1>4. ~ConnOver /\ ~ConnOver' /\ KeysInFlight' = KeysInFlight /\ OutputInFlight' = OutputInFlight
  BY <1>1, <1>3 DEF ConnOver, KeysInFlight, OutputInFlight
<1>5. UNCHANGED <<client, typed, got, printed, shown>> /\ ShellGone' = ShellGone
  BY <1>1 DEF ShellGone, clientVars, shellVars
<1> QED BY <1>4, <1>5, QuietIsSame

LEMMA EndIsPart ==
  ASSUME PipeInv, ~ConnOver, ConnOver', ShellGone => ShellGone',
         UNCHANGED <<client, typed, shown, d2c, got, printed>>
  PROVE  Pipe!Part
<1>1. ToShell' = <<>> /\ ToScreen' = IF client = "closed" THEN <<>> ELSE d2c
  BY DEF ToShell, ToScreen
<1>2. \E k \in 0 .. Len(ToScreen) : ToScreen' = SubSeq(ToScreen, 1, k)
  <2>1. CASE client = "closed"
    <3>1. ToScreen = <<>> /\ ToScreen' = <<>>
      BY <1>1, <2>1 DEF ToScreen
    <3>2. SubSeq(<<>>, 1, 0) = <<>> /\ Len(<<>>) = 0
      BY SubSeqEmpty
    <3>3. 0 \in 0 .. Len(ToScreen) /\ ToScreen' = SubSeq(ToScreen, 1, 0)
      BY <3>1, <3>2
    <3> QED BY <3>3
  <2>2. CASE client # "closed"
    <3> DEFINE rest == OutputBuffer \o ptyOut
    <3>1. /\ d2c \in Seq(Bytes) /\ OutputBuffer \in Seq(Bytes) /\ ptyOut \in Seq(Bytes)
          /\ rest \in Seq(Bytes)
      BY PipeTypes, ConcatProperties
    <3>2. (d2c \o OutputBuffer) \o ptyOut = d2c \o rest
      BY <3>1, JoinJoin
    <3>3. ToScreen = d2c \o rest
      <4>1. ToScreen = OutputInFlight
        BY <2>2 DEF ToScreen
      <4> QED BY <3>2, <4>1, InFlight
    <3> HIDE DEF rest
    <3>4. SubSeq(ToScreen, 1, Len(d2c)) = d2c
      BY <3>1, <3>3, FirstOfConcat
    <3>5. Len(d2c) \in 0 .. Len(ToScreen)
      <4>1. Len(d2c) \in Nat /\ Len(rest) \in Nat /\ Len(ToScreen) = Len(d2c) + Len(rest)
        BY <3>1, <3>3, ConcatProperties, LenProperties
      <4> QED BY <4>1
    <3> QED BY <1>1, <2>2, <3>4, <3>5
  <2> QED BY <2>1, <2>2
<1>3. Pipe!Part <=> /\ ~ConnOver /\ (~ConnOver)' = FALSE /\ ToShell' = <<>>
                    /\ (~ShellGone)' \in {~ShellGone, FALSE}
                    /\ \E k \in 0 .. Len(ToScreen) : ToScreen' = SubSeq(ToScreen, 1, k)
                    /\ UNCHANGED <<typed, got, printed, shown, client # "closed">>
  BY DEF Pipe!Part, ToShell, ToScreen
<1>4. /\ (~ConnOver)' = FALSE /\ UNCHANGED (client # "closed")
      /\ (~ShellGone)' \in {~ShellGone, FALSE}
  OBVIOUS
<1> QED BY <1>1, <1>2, <1>3, <1>4

LEMMA ReadIsNothing ==
  ASSUME PipeInv, ReadClient \/ ReadPty
  PROVE  UNCHANGED Pipe!pipeVars
<1>1. conn \in {"readClient", "readPty"} /\ conn' \in {"writePty", "readPty", "writeClient", "poll"}
      /\ UNCHANGED <<clientVars, d2c, ptyIn, shellVars>>
  BY DEF ReadClient, ReadPty
<1>2. /\ Front = 0 /\ Front' = 0 /\ ~ConnOver /\ ~ConnOver' /\ ShellGone' = ShellGone
      /\ KeysBuffer = <<>> /\ OutputBuffer = <<>>
  BY <1>1 DEF Front, ConnOver, ShellGone, KeysBuffer, OutputBuffer, shellVars
<1>3. c2d \in Seq(Keys) /\ ptyIn \in Seq(Keys) /\ d2c \in Seq(Bytes) /\ ptyOut \in Seq(Bytes)
  BY PipeTypes
<1>4. KeysInFlight = ptyIn \o c2d /\ OutputInFlight = d2c \o ptyOut
  <2>1. ptyIn \o <<>> = ptyIn /\ d2c \o <<>> = d2c /\ After(c2d, 0) = c2d
    BY <1>3, ConcatEmptySeq, NothingCut
  <2> QED BY <1>2, <2>1, InFlight
<1>5. CASE c2d' = c2d /\ ptyOut' = ptyOut /\ conn' \in {"readPty", "poll"}
  <2>1. KeysInFlight' = KeysInFlight /\ OutputInFlight' = OutputInFlight
    BY <1>1, <1>2, <1>5 DEF KeysInFlight, OutputInFlight, KeysBuffer, OutputBuffer
  <2> QED BY <1>1, <1>2, <2>1, QuietIsSame DEF clientVars, shellVars
<1>6. CASE conn' = "writePty" /\ ptyOut' = ptyOut
  <2> DEFINE read == Upto(c2d, ReadSize(c2d))
             left == After(c2d, ReadSize(c2d))
  <2>1. buf' = read /\ c2d' = left
    BY <1>6 DEF ReadClient, ReadPty
  <2>2. read \in Seq(Keys) /\ left \in Seq(Keys) /\ c2d = read \o left
    BY <1>3, ReadSizeOf, PartsOf, CutAndJoin
  <2> HIDE DEF read, left
  <2>3. After(left, 0) = left
    BY <2>2, NothingCut
  <2>4. KeysInFlight' = (ptyIn \o read) \o left
    BY <1>1, <1>2, <1>6, <2>1, <2>3 DEF KeysInFlight
  <2>5. (ptyIn \o read) \o left = ptyIn \o (read \o left)
    BY <1>3, <2>2, JoinJoin
  <2>6. KeysInFlight' = KeysInFlight
    BY <1>4, <2>2, <2>4, <2>5
  <2>7. OutputInFlight' = OutputInFlight
    BY <1>1, <1>2, <1>6 DEF OutputInFlight, OutputBuffer
  <2> QED BY <1>1, <1>2, <2>6, <2>7, QuietIsSame DEF clientVars, shellVars
<1>7. CASE conn' = "writeClient" /\ c2d' = c2d
  <2> DEFINE read == Upto(ptyOut, ReadSize(ptyOut))
             left == After(ptyOut, ReadSize(ptyOut))
  <2>1. buf' = read /\ ptyOut' = left
    BY <1>7 DEF ReadClient, ReadPty
  <2>2. read \in Seq(Bytes) /\ left \in Seq(Bytes) /\ ptyOut = read \o left
    BY <1>3, ReadSizeOf, PartsOf, CutAndJoin
  <2> HIDE DEF read, left
  <2>3. OutputInFlight' = (d2c \o read) \o left
    BY <1>1, <1>7, <2>1 DEF OutputInFlight
  <2>4. (d2c \o read) \o left = d2c \o (read \o left)
    BY <1>3, <2>2, JoinJoin
  <2>5. OutputInFlight' = OutputInFlight
    BY <1>4, <2>2, <2>3, <2>4
  <2>6. KeysInFlight' = KeysInFlight
    BY <1>1, <1>2, <1>7 DEF KeysInFlight, KeysBuffer
  <2> QED BY <1>1, <1>2, <2>5, <2>6, QuietIsSame DEF clientVars, shellVars
<1>8. \/ c2d' = c2d /\ ptyOut' = ptyOut /\ conn' \in {"readPty", "poll"}
      \/ conn' = "writePty" /\ ptyOut' = ptyOut
      \/ conn' = "writeClient" /\ c2d' = c2d
  BY DEF ReadClient, ReadPty
<1> QED BY <1>5, <1>6, <1>7, <1>8

LEMMA WritePtyGivesUp ==
  ASSUME PipeInv, WritePty
  PROVE  Pipe!GiveUpKeys \/ UNCHANGED Pipe!pipeVars
<1>0. CASE ShellGone
  <2>1. /\ conn = "writePty" /\ conn' = "readPty"
        /\ UNCHANGED <<clientVars, c2d, d2c, ptyOut, shellVars>>
    BY DEF WritePty
  <2>2. ~ConnOver /\ ~ConnOver' /\ ShellGone' = ShellGone /\ OutputInFlight' = OutputInFlight
    BY <2>1 DEF ConnOver, ShellGone, OutputInFlight, shellVars
  <2>3. ToShell' = ToShell /\ ToScreen' = ToScreen
    BY <1>0, <2>1, <2>2 DEF ToShell, ToScreen, clientVars
  <2>4. ConnOver' = ConnOver
    BY <2>2 DEF ConnOver
  <2> QED BY <2>1, <2>2, <2>3, <2>4, PipeSame DEF clientVars, shellVars
<1> SUFFICES ASSUME ~ShellGone PROVE Pipe!GiveUpKeys \/ UNCHANGED Pipe!pipeVars
  BY <1>0
<1> DEFINE n == Fits(buf, ptyIn, PtyCap)
           rest == After(c2d, Front)
<1>1. /\ conn = "writePty" /\ conn' = "readPty" /\ ptyIn' = ptyIn \o Upto(buf, n)
      /\ UNCHANGED <<clientVars, c2d, d2c, ptyOut, shellVars>>
  BY DEF WritePty
<1>2. /\ ~ConnOver /\ ~ConnOver' /\ Front' = Front /\ KeysBuffer = buf /\ KeysBuffer' = <<>>
      /\ ~ShellGone' /\ ShellGone' = ShellGone
  BY <1>1 DEF ConnOver, ShellGone, Front, KeysBuffer, shellVars
<1>3. ptyIn \in Seq(Keys) /\ buf \in Seq(Keys) /\ rest \in Seq(Keys) /\ Len(ptyIn) <= PtyCap
  BY <1>2, PipeTypes
<1>4. rest' = rest
  BY <1>1, <1>2
<1> HIDE DEF rest
<1>5. \/ (ptyIn \o Upto(buf, n)) \o rest = (ptyIn \o buf) \o rest
      \/ Pipe!Overflow((ptyIn \o buf) \o rest, PtyCap, (ptyIn \o Upto(buf, n)) \o rest)
  BY <1>3, SessionAssumption, WriteGivesUp
<1>6. ptyIn' \in Seq(Keys)
  BY <1>1, <1>3, FitsOf, SessionAssumption
<1>7. KeysInFlight = (ptyIn \o buf) \o rest /\ KeysInFlight' = (ptyIn \o Upto(buf, n)) \o rest
  <2>1. KeysInFlight' = (ptyIn' \o <<>>) \o rest
    BY <1>1, <1>2, <1>4 DEF KeysInFlight, rest
  <2>2. ptyIn' \o <<>> = ptyIn'
    BY <1>6, ConcatEmptySeq
  <2> QED BY <1>1, <1>2, <2>1, <2>2, InFlight DEF rest
<1> HIDE DEF n
<1>8. ToScreen' = ToScreen /\ ToShell = KeysInFlight /\ ToShell' = KeysInFlight'
  <2>1. OutputInFlight' = OutputInFlight
    BY <1>1 DEF OutputInFlight
  <2> QED BY <1>1, <1>2, <2>1 DEF ToScreen, ToShell, clientVars
<1>9. CASE KeysInFlight' = KeysInFlight
  <2>1. OutputInFlight' = OutputInFlight /\ (ConnOver' <=> ConnOver)
    BY <1>1, <1>2 DEF OutputInFlight
  <2>2. UNCHANGED <<client, typed, got, printed, shown>>
    BY <1>1 DEF clientVars, shellVars
  <2> QED BY <1>2, <1>9, <2>1, <2>2, QuietIsSame
<1>10. CASE Pipe!Overflow(KeysInFlight, PtyCap, KeysInFlight')
  <2>1. Pipe!Overflow(ToShell, PtyCap, ToShell')
    BY <1>8, <1>10
  <2>2. UNCHANGED <<typed, got, printed, ToScreen, shown, ~ConnOver, ~ShellGone, client # "closed">>
    BY <1>1, <1>2, <1>8 DEF clientVars, shellVars
  <2> QED BY <2>1, <2>2 DEF Pipe!GiveUpKeys, ToShell, ToScreen
<1> QED BY <1>5, <1>7, <1>9, <1>10

LEMMA WriteClientGivesUp ==
  ASSUME PipeInv, WriteClient
  PROVE  Pipe!Part \/ Pipe!GiveUpOutput \/ UNCHANGED Pipe!pipeVars
<1>1. CASE client = "closed"
  <2>1. /\ ~ConnOver /\ ConnOver' /\ ShellGone' = ShellGone
        /\ UNCHANGED <<client, typed, shown, d2c, got, printed>>
    BY <1>1 DEF WriteClient, ConnOver, ShellGone, clientVars, shellVars
  <2> QED BY <2>1, EndIsPart
<1>2. CASE client # "closed"
  <2> DEFINE n == Fits(buf, d2c, SockCap)
  <2>1. /\ conn = "writeClient" /\ conn' = "poll" /\ d2c' = d2c \o Upto(buf, n)
        /\ UNCHANGED <<clientVars, c2d, ptyIn, ptyOut, shellVars>>
    BY <1>2 DEF WriteClient
  <2>2. /\ ~ConnOver /\ ~ConnOver' /\ OutputBuffer = buf /\ OutputBuffer' = <<>>
        /\ ShellGone' = ShellGone
    BY <2>1 DEF ConnOver, ShellGone, OutputBuffer, shellVars
  <2>3. d2c \in Seq(Bytes) /\ buf \in Seq(Bytes) /\ ptyOut \in Seq(Bytes) /\ Len(d2c) <= SockCap
    BY <2>2, PipeTypes
  <2>4. \/ (d2c \o Upto(buf, n)) \o ptyOut = (d2c \o buf) \o ptyOut
        \/ Pipe!Overflow((d2c \o buf) \o ptyOut, SockCap, (d2c \o Upto(buf, n)) \o ptyOut)
    BY <2>3, SessionAssumption, WriteGivesUp
  <2>5. d2c' \in Seq(Bytes)
    BY <2>1, <2>3, FitsOf, SessionAssumption
  <2>6. OutputInFlight = (d2c \o buf) \o ptyOut /\ OutputInFlight' = (d2c \o Upto(buf, n)) \o ptyOut
    <3>1. OutputInFlight' = (d2c' \o <<>>) \o ptyOut
      BY <2>1 DEF OutputInFlight
    <3>2. d2c' \o <<>> = d2c'
      BY <2>5, ConcatEmptySeq
    <3> QED BY <2>1, <2>2, <3>1, <3>2, InFlight
  <2> HIDE DEF n
  <2>7. ToShell' = ToShell /\ ToScreen = OutputInFlight /\ ToScreen' = OutputInFlight'
    <3>1. KeysInFlight' = KeysInFlight
      BY <2>1 DEF KeysInFlight, Front
    <3> QED BY <1>2, <2>1, <2>2, <3>1 DEF ToScreen, ToShell, clientVars
  <2>8. CASE OutputInFlight' = OutputInFlight
    <3>1. KeysInFlight' = KeysInFlight /\ (ConnOver' <=> ConnOver)
      BY <2>1, <2>2 DEF KeysInFlight, Front
    <3>2. UNCHANGED <<client, typed, got, printed, shown>>
      BY <2>1 DEF clientVars, shellVars
    <3> QED BY <2>2, <2>8, <3>1, <3>2, QuietIsSame
  <2>9. CASE Pipe!Overflow(OutputInFlight, SockCap, OutputInFlight')
    <3>1. Pipe!Overflow(ToScreen, SockCap, ToScreen')
      BY <2>7, <2>9
    <3>2. UNCHANGED <<typed, ToShell, got, printed, shown, ~ConnOver, ~ShellGone, client # "closed">>
      BY <2>1, <2>2, <2>7 DEF clientVars, shellVars
    <3> QED BY <1>2, <3>1, <3>2 DEF Pipe!GiveUpOutput, ToShell, ToScreen
  <2> QED BY <2>4, <2>6, <2>8, <2>9
<1> QED BY <1>1, <1>2

\* The shell.
LEMMA ReadIsReceive ==
  ASSUME PipeInv, ShellRead
  PROVE  Pipe!Receive
<1> DEFINE rest == KeysBuffer \o After(c2d, Front)
<1>1. /\ ~ConnOver /\ ptyIn # <<>> /\ got' = Append(got, Head(ptyIn)) /\ ptyIn' = Tail(ptyIn)
      /\ UNCHANGED <<clientVars, c2d, d2c, connVars, ptyOut, printed>>
      /\ ~ShellGone /\ ~ShellGone'
  BY DEF ShellRead, ShellGone
<1>2. /\ ptyIn \in Seq(Keys) /\ KeysBuffer \in Seq(Keys) /\ After(c2d, Front) \in Seq(Keys)
      /\ rest \in Seq(Keys) /\ Tail(ptyIn) \in Seq(Keys)
  BY <1>1, PipeTypes, ConcatProperties, HeadTailProperties
<1>3. /\ (ptyIn \o KeysBuffer) \o After(c2d, Front) = ptyIn \o rest
      /\ (Tail(ptyIn) \o KeysBuffer) \o After(c2d, Front) = Tail(ptyIn) \o rest
  BY <1>2, JoinJoin
<1>4. KeysInFlight = ptyIn \o rest /\ KeysInFlight' = Tail(ptyIn) \o rest
  <2>1. KeysBuffer' = KeysBuffer /\ After(c2d, Front)' = After(c2d, Front)
    BY <1>1 DEF KeysBuffer, Front, connVars
  <2>2. KeysInFlight' = (Tail(ptyIn) \o KeysBuffer) \o After(c2d, Front)
    BY <1>1, <2>1 DEF KeysInFlight, KeysBuffer
  <2> QED BY <1>3, <2>2, InFlight
<1> HIDE DEF rest
<1>5. ToShell = KeysInFlight /\ ToShell' = KeysInFlight' /\ ToScreen' = ToScreen /\ ConnOver' = ConnOver
  BY <1>1 DEF ToShell, ToScreen, ConnOver, OutputInFlight, clientVars, connVars
<1>6. ToShell # <<>> /\ Head(ToShell) = Head(ptyIn) /\ ToShell' = Tail(ToShell)
  BY <1>1, <1>2, <1>4, <1>5, HeadOfConcat
<1>7. /\ got' = Append(got, Head(ToShell))
      /\ UNCHANGED <<typed, printed, ToScreen, shown, ~ConnOver, ~ShellGone, client # "closed">>
  BY <1>1, <1>5, <1>6 DEF clientVars
<1> QED BY <1>1, <1>6, <1>7 DEF Pipe!Receive, ToShell, ToScreen

LEMMA PrintIsPrint ==
  ASSUME PipeInv, ShellPrint
  PROVE  Pipe!PrintByte
<1>1. /\ ~ConnOver /\ printed' = printed + 1 /\ ptyOut' = Append(ptyOut, printed')
      /\ UNCHANGED <<clientVars, c2d, d2c, connVars, ptyIn, got>>
      /\ ~ShellGone /\ ~ShellGone'
  BY DEF ShellPrint, ShellGone
<1>2. printed' \in Bytes
  BY SessionAssumption DEF ShellPrint, PipeInv, WinsizeInv, SessionInv, TypeOK, Bytes
<1>3. OutputInFlight' = Append(OutputInFlight, printed')
  <2>1. OutputInFlight' = (d2c \o OutputBuffer) \o Append(ptyOut, printed')
    BY <1>1 DEF OutputInFlight, OutputBuffer, connVars
  <2>2. d2c \o OutputBuffer \in Seq(Bytes) /\ ptyOut \in Seq(Bytes)
    BY PipeTypes, ConcatProperties
  <2> QED BY <1>2, <2>1, <2>2, AppendOfConcat, InFlight
<1>4. ConnOver' = ConnOver /\ ToShell' = ToShell /\ UNCHANGED client
  BY <1>1 DEF ConnOver, ToShell, KeysInFlight, Front, clientVars, connVars
<1>5. ToScreen' = IF client # "closed" THEN Append(ToScreen, printed') ELSE ToScreen
  BY <1>1, <1>3, <1>4 DEF ToScreen
<1> QED BY <1>1, <1>4, <1>5 DEF Pipe!PrintByte, ToShell, ToScreen, clientVars

\* Keys that were on their way are lost with the program that would have read them.
LEMMA ExitIsLeave ==
  ASSUME ShellExit \/ HangUp
  PROVE  Pipe!LeaveProgram
<1>1. /\ ~ShellGone /\ ShellGone'
      /\ UNCHANGED <<clientVars, c2d, d2c, connVars, ptyIn, ptyOut, got, printed>>
  BY DEF ShellExit, HangUp, ShellGone
<1>2. /\ ConnOver' = ConnOver /\ OutputInFlight' = OutputInFlight
      /\ (~ShellGone)' = FALSE /\ ToShell' = <<>>
  BY <1>1 DEF ConnOver, OutputInFlight, ToShell, connVars
<1>3. ToScreen' = ToScreen
  BY <1>1, <1>2 DEF ToScreen, clientVars
<1> QED BY <1>1, <1>2, <1>3 DEF Pipe!LeaveProgram, ToShell, ToScreen, clientVars

-----------------------------------------------------------------------------
LEMMA PipeInvInit == Init /\ SendsWinsize => PipeInv /\ Pipe!PipeInit
<1> SUFFICES ASSUME Init, SendsWinsize PROVE PipeInv /\ Pipe!PipeInit
  OBVIOUS
<1>1. WinsizeInv
  BY WinsizeInit
<1>2. PipeInv
  BY <1>1 DEF PipeInv, HelloWaits, NoShellYet, Init
<1>3. ~ConnOver /\ ~ShellGone /\ client # "closed"
  BY DEF Init, ConnOver, ShellGone
<1>4. KeysInFlight = <<>> /\ OutputInFlight = <<>>
  <2>1. c2d = <<>> /\ ptyIn = <<>> /\ d2c = <<>> /\ ptyOut = <<>> /\ KeysBuffer = <<>> /\ OutputBuffer = <<>>
    BY DEF Init, KeysBuffer, OutputBuffer
  <2>2. Front = 0
    BY <2>1, SessionAssumption DEF Front, Least
  <2>3. After(<<>>, 0) = <<>> /\ <<>> \o <<>> = <<>>
    <3>1. <<>> \in Seq(Keys)
      OBVIOUS
    <3> QED BY <3>1, NothingCut, ConcatEmptySeq
  <2> QED BY <2>1, <2>2, <2>3, InFlight
<1> QED BY <1>2, <1>3, <1>4 DEF Pipe!PipeInit, Init

LEMMA PipeInvStep ==
  ASSUME PipeInv, [Next]_vars
  PROVE  PipeInv'
<1>1. WinsizeInv'
  BY WinsizeStep DEF PipeInv
<1>2. HelloWaits'
  <2>1. CASE ReadWinsize
    BY <2>1 DEF ReadWinsize, PipeInv, WinsizeInv, SessionInv, HelloFirst, HelloWaits, clientVars
  <2>2. CASE Client
    BY <2>2 DEF Client, ClientHello, ClientType, ClientShow, ClientSeesEnd, ClientLeave,
                PipeInv, HelloWaits, connVars
  <2>3. CASE ForkPty \/ Relay
    BY <2>3 DEF ForkPty, Relay, Poll, ReadClient, WritePty, ReadPty, WriteClient, EndSession,
                PipeInv, HelloWaits, clientVars
  <2>4. CASE Shell
    BY <2>4 DEF Shell, ShellRead, ShellPrint, ShellExit, HangUp, PipeInv, HelloWaits,
                clientVars, connVars
  <2>5. CASE UNCHANGED vars
    BY <2>5 DEF vars, clientVars, connVars, PipeInv, HelloWaits
  <2> QED BY <2>1, <2>2, <2>3, <2>4, <2>5 DEF Next, Conn
<1>3. NoShellYet'
  <2>1. CASE ReadWinsize
    BY <2>1 DEF ReadWinsize, PipeInv, NoShellYet, shellVars
  <2>2. CASE Client
    BY <2>2 DEF Client, ClientHello, ClientType, ClientShow, ClientSeesEnd, ClientLeave,
                PipeInv, NoShellYet, connVars, shellVars
  <2>3. CASE ForkPty \/ Relay
    BY <2>3 DEF ForkPty, Relay, Poll, ReadClient, WritePty, ReadPty, WriteClient, EndSession,
                NoShellYet
  <2>4. CASE Shell
    BY <2>4 DEF Shell, ShellRead, ShellPrint, ShellExit, HangUp, ConnOver, PipeInv, NoShellYet,
                connVars
  <2>5. CASE UNCHANGED vars
    BY <2>5 DEF vars, connVars, shellVars, PipeInv, NoShellYet
  <2> QED BY <2>1, <2>2, <2>3, <2>4, <2>5 DEF Next, Conn
<1> QED BY <1>1, <1>2, <1>3 DEF PipeInv

\* Each step of the session is one of the promise, or none of its concern.
LEMMA PipeStep ==
  ASSUME PipeInv, [Next]_vars
  PROVE  [Pipe!PipeNext]_(Pipe!pipeVars)
<1>1. CASE ClientHello
  BY <1>1, HelloIsNothing
<1>2. CASE ClientType
  BY <1>2, TypeIsType DEF Pipe!PipeNext
<1>3. CASE ClientShow
  BY <1>3, ShowIsShow DEF Pipe!PipeNext
<1>4. CASE ClientSeesEnd \/ ClientLeave
  BY <1>4, EndIsLeave DEF Pipe!PipeNext
<1>5. CASE ReadWinsize
  BY <1>5, WinsizeIsNoKey
<1>6. CASE (ForkPty /\ conn' = "done") \/ EndSession
  <2>1. /\ ~ConnOver /\ ConnOver' /\ (ShellGone => ShellGone')
        /\ UNCHANGED <<client, typed, shown, d2c, got, printed>>
    BY <1>6 DEF ForkPty, EndSession, ConnOver, ShellGone, clientVars
  <2> QED BY <2>1, EndIsPart DEF Pipe!PipeNext
<1>7. CASE (ForkPty /\ conn' = "poll") \/ Poll \/ UNCHANGED vars
  <2>1. /\ UNCHANGED <<client, typed, shown, c2d, d2c, buf, ptyIn, ptyOut, got, printed>>
        /\ \/ conn' = conn
           \/ conn \in {"fork", "poll"} /\ conn' \in {"poll", "readClient"}
    BY <1>7 DEF ForkPty, Poll, vars, clientVars, connVars, shellVars
  <2>0. ShellGone' = ShellGone
    BY <1>7 DEF ForkPty, Poll, PipeInv, NoShellYet, ShellGone, vars, shellVars
  <2>2. /\ ConnOver' = ConnOver /\ Front' = Front
        /\ KeysBuffer' = KeysBuffer /\ OutputBuffer' = OutputBuffer
    BY <2>1 DEF ConnOver, Front, KeysBuffer, OutputBuffer
  <2>3. KeysInFlight' = KeysInFlight /\ OutputInFlight' = OutputInFlight
    BY <2>1, <2>2 DEF KeysInFlight, OutputInFlight, KeysBuffer, OutputBuffer
  <2> QED BY <2>0, <2>1, <2>2, <2>3, QuietIsSame
<1>8. CASE ReadClient \/ ReadPty
  BY <1>8, ReadIsNothing
<1>9. CASE WritePty
  BY <1>9, WritePtyGivesUp DEF Pipe!PipeNext
<1>10. CASE WriteClient
  BY <1>10, WriteClientGivesUp DEF Pipe!PipeNext
<1>11. CASE ShellRead
  BY <1>11, ReadIsReceive DEF Pipe!PipeNext
<1>12. CASE ShellPrint
  BY <1>12, PrintIsPrint DEF Pipe!PipeNext
<1>13. ForkPty => conn' \in {"poll", "done"}
  BY DEF ForkPty
<1>14. CASE ShellExit \/ HangUp
  BY <1>14, ExitIsLeave DEF Pipe!PipeNext
<1> QED BY <1>1, <1>2, <1>3, <1>4, <1>5, <1>6, <1>7, <1>8, <1>9, <1>10, <1>11, <1>12, <1>13,
           <1>14
        DEF Next, Client, Conn, Relay, Shell

\* The relay keeps the terminal's promise to every client that sends its window size: keys
\* and output stay in order, come at most once, and are given up only to a full queue,
\* for every size of the queues and of the buffer (main.cpp:170-253).
THEOREM RelayKeepsOrder ==
  ASSUME SendsWinsize PROVE Spec => ImplementsPipe
<1>1. Init => PipeInv /\ Pipe!PipeInit
  BY PipeInvInit
<1>2. PipeInv /\ [Next]_vars => PipeInv' /\ [Pipe!PipeNext]_(Pipe!pipeVars)
  BY PipeInvStep, PipeStep
<1> QED BY <1>1, <1>2, PTL DEF Spec, ImplementsPipe, Pipe!PipeSpec
-----------------------------------------------------------------------------
(* khsl is a client of the session, whatever its words are. *)

\* The keys struck are in the socket, in khsl's buffer or in the terminal's queue,
\* in their order; the buffer is empty before khsl reads again.
KeysOnTheirWay ==
  /\ typed \in Nat /\ struck \in 0 .. MaxStruck
  /\ pending \in Seq(Nat) /\ keyboard \in Seq(Nat)
  /\ typed + Len(pending) + Len(keyboard) = struck
  /\ \A i \in 1 .. Len(pending) : pending[i] = typed + i
  /\ \A i \in 1 .. Len(keyboard) : keyboard[i] = typed + Len(pending) + i

\* khsl says hello once, and relays only after it has.
Relaying == {"poll", "stdin", "send", "sock"}
KhslAt ==
  /\ at \notin Relaying \cup {"over"} => client = "hello"
  /\ at \in Relaying => client = "up"
  /\ at \notin {"send", "over"} => pending = <<>>

KhslInv == KhslAt /\ KeysOnTheirWay

LEMMA KhslInvInit == KhslInit => KhslInv
<1> SUFFICES ASSUME KhslInit PROVE KhslInv
  OBVIOUS
<1>1. client = "hello" /\ typed = 0 /\ struck = 0 /\ at = "parse"
  BY DEF KhslInit, Init
<1>2. pending = <<>> /\ keyboard = <<>> /\ <<>> \in Seq(Nat) /\ Len(<<>>) = 0
  BY DEF KhslInit
<1>3. KeysOnTheirWay
  BY <1>1, <1>2, KhslAssumption DEF KeysOnTheirWay
<1> QED
  BY <1>1, <1>2, <1>3 DEF KhslInv, KhslAt, Relaying

\* A key that is struck is the last one of the queue.
LEMMA StrikeKeepsKeys ==
  ASSUME KeysOnTheirWay, Strike
  PROVE  KeysOnTheirWay'
<1>1. /\ struck' = struck + 1 /\ struck < MaxStruck
      /\ keyboard' = Append(keyboard, struck + 1)
      /\ typed' = typed /\ pending' = pending
  BY DEF Strike, vars, clientVars, loopVars
<1>2. /\ typed \in Nat /\ struck \in Nat /\ keyboard \in Seq(Nat) /\ pending \in Seq(Nat)
      /\ typed + Len(pending) + Len(keyboard) = struck
  BY DEF KeysOnTheirWay
<1>3. /\ Len(keyboard') = Len(keyboard) + 1 /\ keyboard' \in Seq(Nat)
      /\ keyboard'[Len(keyboard) + 1] = struck + 1
      /\ \A i \in 1 .. Len(keyboard) : keyboard'[i] = keyboard[i]
  BY <1>1, <1>2
<1>4. Len(keyboard) \in Nat /\ Len(pending) \in Nat
  BY <1>2
<1>5. struck' \in 0 .. MaxStruck
  BY <1>1, <1>2, KhslAssumption
<1>6. typed' + Len(pending') + Len(keyboard') = struck'
  <2>1. Len(pending') = Len(pending)
    BY <1>1
  <2>2. QED BY <1>1, <1>2, <1>3, <1>4, <2>1
<1>7. \A i \in 1 .. Len(keyboard') : keyboard'[i] = typed' + Len(pending') + i
  <2>1. \A i \in 1 .. Len(keyboard) : keyboard'[i] = typed + Len(pending) + i
    BY <1>3 DEF KeysOnTheirWay
  <2>2. keyboard'[Len(keyboard) + 1] = typed + Len(pending) + (Len(keyboard) + 1)
    BY <1>2, <1>3, <1>4
  <2>3. typed' + Len(pending') = typed + Len(pending) /\ Len(keyboard') = Len(keyboard) + 1
    BY <1>1, <1>3
  <2>4. \A i \in 1 .. Len(keyboard) + 1 : i \in 1 .. Len(keyboard) \/ i = Len(keyboard) + 1
    BY <1>4
  <2>5. QED BY <2>1, <2>2, <2>3, <2>4
<1>8. QED
  BY <1>1, <1>2, <1>3, <1>5, <1>6, <1>7 DEF KeysOnTheirWay

\* A read of the terminal moves its first keys to the empty buffer.
LEMMA ReadKeepsKeys ==
  ASSUME KeysOnTheirWay, pending = <<>>,
         pending' = Upto(keyboard, ReadSize(keyboard)),
         keyboard' = After(keyboard, ReadSize(keyboard)),
         typed' = typed, struck' = struck
  PROVE  KeysOnTheirWay'
<1> DEFINE n == ReadSize(keyboard)
<1>1. keyboard \in Seq(Nat) /\ typed \in Nat /\ struck \in 0 .. MaxStruck /\ Len(pending) = 0
  BY DEF KeysOnTheirWay
<1>2. n \in Nat /\ n <= Len(keyboard) /\ Len(keyboard) \in Nat
  BY <1>1, ReadSizeOf
<1>3. typed + Len(keyboard) = struck /\ \A i \in 1 .. Len(keyboard) : keyboard[i] = typed + i
  BY <1>1, <1>2 DEF KeysOnTheirWay
<1> HIDE DEF n
<1>4. /\ Upto(keyboard, n) \in Seq(Nat) /\ Len(Upto(keyboard, n)) = n
      /\ \A i \in 1 .. n : Upto(keyboard, n)[i] = keyboard[i]
  BY <1>1, <1>2 DEF Upto
<1>5. /\ After(keyboard, n) \in Seq(Nat) /\ Len(After(keyboard, n)) = Len(keyboard) - n
      /\ \A i \in 1 .. Len(keyboard) - n : After(keyboard, n)[i] = keyboard[n + i]
  BY <1>1, <1>2 DEF After
<1>6. pending' = Upto(keyboard, n) /\ keyboard' = After(keyboard, n)
  BY DEF n
<1>7. \A i \in 1 .. Len(pending') : pending'[i] = typed' + i
  BY <1>2, <1>3, <1>4, <1>6
<1>8. \A i \in 1 .. Len(keyboard') : keyboard'[i] = typed' + Len(pending') + i
  <2>1. \A i \in 1 .. Len(keyboard) - n : keyboard'[i] = typed + (n + i)
    BY <1>2, <1>3, <1>5, <1>6
  <2>2. Len(keyboard') = Len(keyboard) - n /\ Len(pending') = n
    BY <1>4, <1>5, <1>6
  <2>3. \A i \in Nat : typed + (n + i) = typed + n + i
    BY <1>1, <1>2
  <2>4. QED BY <1>2, <2>1, <2>2, <2>3
<1>9. typed' + Len(pending') + Len(keyboard') = struck'
  BY <1>1, <1>2, <1>3, <1>4, <1>5, <1>6
<1>10. QED
  BY <1>1, <1>4, <1>5, <1>6, <1>7, <1>8, <1>9 DEF KeysOnTheirWay

\* A key that is written to the socket is the one after the last one written.
LEMMA SendKeepsKeys ==
  ASSUME KeysOnTheirWay, pending # <<>>, pending' = Tail(pending),
         typed' = typed + 1, keyboard' = keyboard, struck' = struck
  PROVE  KeysOnTheirWay' /\ Head(pending) = typed + 1 /\ typed < struck
<1>1. /\ typed \in Nat /\ struck \in Nat /\ keyboard \in Seq(Nat) /\ pending \in Seq(Nat)
      /\ typed + Len(pending) + Len(keyboard) = struck
  BY DEF KeysOnTheirWay
<1>2. /\ Len(pending) \in Nat \ {0} /\ Len(keyboard) \in Nat
      /\ Tail(pending) \in Seq(Nat) /\ Len(Tail(pending)) = Len(pending) - 1
      /\ \A i \in 1 .. Len(pending) - 1 : Tail(pending)[i] = pending[i + 1]
      /\ Head(pending) = pending[1]
  BY <1>1
<1>3. Head(pending) = typed + 1 /\ typed < struck
  BY <1>1, <1>2 DEF KeysOnTheirWay
<1>4. \A i \in 1 .. Len(pending') : pending'[i] = typed' + i
  BY <1>1, <1>2 DEF KeysOnTheirWay
<1>5. \A i \in 1 .. Len(keyboard') : keyboard'[i] = typed' + Len(pending') + i
  BY <1>1, <1>2 DEF KeysOnTheirWay
<1>6. typed' + Len(pending') + Len(keyboard') = struck'
  BY <1>1, <1>2
<1>7. QED
  BY <1>1, <1>2, <1>3, <1>4, <1>5, <1>6 DEF KeysOnTheirWay
\* A step of khsl, of the daemon and of the shell keeps the invariant and is, for
\* the session, a step of its client, of its own or none.
LEMMA KhslIsClient ==
  KhslInv /\ [KhslNext]_<<vars, khslVars, late>> => KhslInv' /\ [Next]_vars
<1> SUFFICES ASSUME KhslInv, [KhslNext]_<<vars, khslVars, late>>
             PROVE  KhslInv' /\ [Next]_vars
  OBVIOUS
<1>1. CASE UNCHANGED <<vars, khslVars, late>>
  BY <1>1 DEF KhslInv, KhslAt, KeysOnTheirWay, vars, clientVars, khslVars, userVars, loopVars
<1>2. CASE (Conn \/ Shell) /\ UNCHANGED khslVars
  <2>1. client' = client /\ typed' = typed
    BY <1>2 DEF Conn, Relay, Shell, ReadWinsize, ForkPty, Poll, ReadClient, WritePty, ReadPty,
                WriteClient, EndSession, ShellRead, ShellPrint, ShellExit, HangUp, clientVars
  <2> QED
    BY <1>2, <2>1 DEF Next, KhslInv, KhslAt, KeysOnTheirWay, khslVars, userVars, loopVars
<1>3. CASE Parse \/ DropPrivileges \/ ChangeDirectory \/ RunCommand \/ Connect
  <2>1. UNCHANGED <<vars, userVars, loopVars>>
    BY <1>3 DEF Parse, DropPrivileges, ChangeDirectory, RunCommand, Connect
  <2>2. at \notin Relaying /\ at' \notin Relaying /\ at \notin {"send", "over"}
    BY <1>3 DEF Parse, DropPrivileges, ChangeDirectory, RunCommand, Connect, ParseFlag,
                ParseValued, ParseStarter, ParseRefused, ParseCommand, Usage, Ends, Relaying
  <2> QED
    BY <2>1, <2>2 DEF KhslInv, KhslAt, KeysOnTheirWay, vars, clientVars, userVars, loopVars
<1>4. CASE Hello
  <2>1. at = "hello" /\ at' = "poll" /\ client' = "up" /\ UNCHANGED <<typed, userVars, loopVars>>
    BY <1>4 DEF Hello, ClientHello
  <2> QED
    BY <1>4, <2>1 DEF Hello, Next, Client, KhslInv, KhslAt, KeysOnTheirWay, Relaying,
                      userVars, loopVars
<1>5. CASE KhslPoll
  <2>1. /\ at = "poll" /\ at' = "stdin" /\ UNCHANGED <<vars, userVars, pending>>
    BY <1>5 DEF KhslPoll
  <2> QED
    BY <2>1 DEF KhslInv, KhslAt, KeysOnTheirWay, Relaying, vars, clientVars, userVars
<1>6. CASE ReadStdin
  <2>1. at = "stdin" /\ client = "up" /\ pending = <<>> /\ struck' = struck
    BY <1>6 DEF ReadStdin, KhslInv, KhslAt, Relaying
  <2>2. CASE /\ pending' = Upto(keyboard, ReadSize(keyboard))
             /\ keyboard' = After(keyboard, ReadSize(keyboard))
             /\ at' = "send" /\ UNCHANGED vars
    <3>1. typed' = typed /\ client' = client
      BY <2>2 DEF vars, clientVars
    <3>2. KeysOnTheirWay'
      BY <2>1, <2>2, <3>1, ReadKeepsKeys DEF KhslInv
    <3> QED
      BY <2>1, <2>2, <3>1, <3>2 DEF KhslInv, KhslAt, Relaying
  <2>3. CASE Leave /\ UNCHANGED <<keyboard, pending>>
    <3>1. at' = "over" /\ typed' = typed /\ ClientLeave
      BY <2>1, <2>3 DEF Leave, Ends, ClientLeave
    <3> QED
      BY <2>1, <2>3, <3>1 DEF Next, Client, KhslInv, KhslAt, KeysOnTheirWay, Relaying
  <2>4. CASE at' = "sock" /\ UNCHANGED <<vars, keyboard, pending>>
    BY <2>1, <2>4 DEF KhslInv, KhslAt, KeysOnTheirWay, Relaying, vars, clientVars
  <2> QED
    BY <1>6, <2>2, <2>3, <2>4 DEF ReadStdin
<1>7. CASE SendKeys
  <2>1. at = "send" /\ client = "up" /\ UNCHANGED <<keyboard, struck>>
    BY <1>7 DEF SendKeys, KhslInv, KhslAt, Relaying, userVars
  <2>2. CASE /\ pending # <<>> /\ ~ConnOver /\ Len(c2d) < SockCap
             /\ c2d' = Append(c2d, Head(pending)) /\ typed' = typed + 1
             /\ pending' = Tail(pending) /\ UNCHANGED <<client, at>>
    <3>1. KeysOnTheirWay' /\ Head(pending) = typed + 1 /\ typed < struck
      BY <2>1, <2>2, SendKeepsKeys DEF KhslInv
    <3>2. typed < MaxKeys
      BY <3>1, KhslAssumption, SessionAssumption DEF KhslInv, KeysOnTheirWay
    <3>3. ClientType
      BY <1>7, <2>1, <2>2, <3>1, <3>2 DEF SendKeys, ClientType
    <3> QED
      BY <2>1, <2>2, <3>1, <3>3 DEF Next, Client, KhslInv, KhslAt
  <2>3. CASE Ends("sigpipe") /\ client' = "closed" /\ UNCHANGED <<c2d, typed, pending>>
    <3>1. ClientLeave /\ at' = "over"
      BY <1>7, <2>1, <2>3 DEF SendKeys, ClientLeave, Ends
    <3> QED
      BY <2>1, <2>3, <3>1 DEF Next, Client, KhslInv, KhslAt, KeysOnTheirWay, Relaying
  <2>4. CASE pending = <<>> /\ at' = "sock" /\ UNCHANGED <<client, c2d, typed, pending>>
    <3>1. UNCHANGED vars
      BY <1>7, <2>4 DEF SendKeys, vars, clientVars
    <3> QED
      BY <2>1, <2>4, <3>1 DEF KhslInv, KhslAt, KeysOnTheirWay, Relaying
  <2> QED
    BY <1>7, <2>2, <2>3, <2>4 DEF SendKeys
<1>8. CASE ReadSocket
  <2>1. at = "sock" /\ client = "up" /\ pending = <<>> /\ UNCHANGED <<userVars, loopVars>>
    BY <1>8 DEF ReadSocket, KhslInv, KhslAt, Relaying
  <2>2. CASE ClientShow /\ at' \in {"sock", "poll"}
    <3>1. client' = "up" /\ typed' = typed
      BY <2>1, <2>2 DEF ClientShow
    <3> QED
      BY <2>1, <2>2, <3>1 DEF Next, Client, KhslInv, KhslAt, KeysOnTheirWay, Relaying,
                              userVars, loopVars
  <2>3. CASE Leave
    <3>1. at' = "over" /\ typed' = typed /\ ClientLeave
      BY <2>1, <2>3 DEF Leave, Ends, ClientLeave
    <3> QED
      BY <2>1, <3>1 DEF Next, Client, KhslInv, KhslAt, KeysOnTheirWay, Relaying,
                        userVars, loopVars
  <2>4. CASE at' = "poll" /\ UNCHANGED vars
    BY <2>1, <2>4 DEF KhslInv, KhslAt, KeysOnTheirWay, Relaying, vars, clientVars,
                      userVars, loopVars
  <2> QED
    BY <1>8, <2>2, <2>3, <2>4 DEF ReadSocket
<1>9. CASE Strike
  <2>1. KeysOnTheirWay'
    BY <1>9, StrikeKeepsKeys DEF KhslInv
  <2> QED
    BY <1>9, <2>1 DEF Strike, KhslInv, KhslAt, vars, clientVars, loopVars
<1>10. CASE StdinEnds
  BY <1>10 DEF StdinEnds, KhslInv, KhslAt, KeysOnTheirWay, vars, clientVars, loopVars
<1>11. CASE Killed
  <2>1. at' = "over" /\ ClientLeave /\ UNCHANGED <<typed, userVars, loopVars>>
    BY <1>11 DEF Killed, Ends, ClientLeave
  <2> QED
    BY <2>1 DEF Next, Client, KhslInv, KhslAt, KeysOnTheirWay, Relaying, userVars, loopVars
<1> QED
  BY <1>1, <1>2, <1>3, <1>4, <1>5, <1>6, <1>7, <1>8, <1>9, <1>10, <1>11
     DEF KhslNext, KhslSteps, KhslLoop

\* khsl is a client as kh_term_daemon expects one: one hello, then each key struck
\* once and in order, the output taken in order, and one end (main.c:622-668).
THEOREM KhslKeepsToSession == KhslSpec => ImplementsSession
<1>1. KhslInit => Init
  BY DEF KhslInit
<1>2. KhslInv /\ [KhslNext]_<<vars, khslVars, late>> => KhslInv' /\ [Next]_vars
  BY KhslIsClient
<1> QED
  BY <1>1, <1>2, KhslInvInit, PTL DEF KhslSpec, ImplementsSession, Spec

\* What khsl sends reaches its session in order and at most once, and what the session
\* prints comes back so: khsl is a client that sends its window size, and the relay keeps
\* its promise to those (khsl/main.c:614-668, kh_term_daemon/main.cpp:170-253).
THEOREM KhslKeepsOrder == KhslSpec => ImplementsPipe
<1>1. KhslInit => KhslInv /\ PipeInv /\ Pipe!PipeInit
  BY KhslInvInit, PipeInvInit DEF KhslInit
<1>2. /\ KhslInv /\ [KhslNext]_<<vars, khslVars, late>> => KhslInv' /\ [Next]_vars
      /\ PipeInv /\ [Next]_vars => PipeInv' /\ [Pipe!PipeNext]_(Pipe!pipeVars)
  BY KhslIsClient, PipeInvStep, PipeStep
<1> QED BY <1>1, <1>2, PTL DEF KhslSpec, ImplementsPipe, Pipe!PipeSpec

\* khsl sends its window size before any key, so that none of its keys is ever
\* taken for it (main.c:622-631, main.cpp:170-181).
THEOREM KhslSaysItsSize == KhslSpec => []WinsizeIsClients
<1>1. KhslInit => KhslInv /\ WinsizeInv
  BY KhslInvInit, WinsizeInit DEF KhslInit
<1>2. KhslInv /\ [KhslNext]_<<vars, khslVars, late>> => KhslInv' /\ [Next]_vars
  BY KhslIsClient
<1>3. WinsizeInv => WinsizeIsClients
  BY DEF WinsizeInv
<1> QED
  BY <1>1, <1>2, <1>3, WinsizeStep, PTL DEF KhslSpec
-----------------------------------------------------------------------------
(* What khsl makes of its words. *)

LEMMA LeastIsFirst ==
  ASSUME NEW S, S \subseteq Nat, S # {}
  PROVE  \E n \in S : \A m \in S : n <= m
<1>1. PICK n \in S : \A m \in S : ~(<<m, n>> \in OpToRel(<, Nat))
  BY WFMin, NatLessThanWellFounded, Zenon
<1>2. \A m \in S : ~(m < n) BY <1>1, Zenon DEF OpToRel
<1> QED BY <1>2

\* The words of a that are looked at, as LookedAt has them.
Turn(f, a, p) ==
  \/ p = 1
  \/ f[p - 1] /\ a[p - 1] \in Flags
  \/ p > 2 /\ f[p - 2] /\ a[p - 2] \in Valued
LookedIn(a) ==
  LET seen[p \in 1 .. Len(a)] ==
        \/ p = 1
        \/ seen[p - 1] /\ a[p - 1] \in Flags
        \/ p > 2 /\ seen[p - 2] /\ a[p - 2] \in Valued
  IN {p \in 1 .. Len(a) : seen[p]}

LEMMA LookedAtIsLookedIn == LookedAt = LookedIn(args)
BY DEF LookedAt, LookedIn

\* A function that looks at the words one after the other exists.
LEMMA TurnsExist ==
  ASSUME NEW a, NEW N \in Nat
  PROVE  \E f : f = [p \in 1 .. N |-> Turn(f, a, p)]
<1> DEFINE Good(n) == \E f \in [1 .. n -> BOOLEAN] : \A p \in 1 .. n : f[p] <=> Turn(f, a, p)
           S == {n \in Nat : ~Good(n)}
<1>1. Good(0)
  <2>1. [p \in 1 .. 0 |-> TRUE] \in [1 .. 0 -> BOOLEAN] /\ \A p \in 1 .. 0 : FALSE
    OBVIOUS
  <2> QED BY <2>1
<1>2. ASSUME NEW n \in Nat, Good(n) PROVE Good(n + 1)
  <2>1. PICK f \in [1 .. n -> BOOLEAN] : \A p \in 1 .. n : f[p] <=> Turn(f, a, p)
    BY <1>2
  <2> DEFINE g == [p \in 1 .. n + 1 |-> IF p \in 1 .. n THEN f[p] ELSE Turn(f, a, n + 1)]
  <2>2. Turn(f, a, n + 1) \in BOOLEAN
    BY DEF Turn
  <2>3. g \in [1 .. n + 1 -> BOOLEAN]
    BY <2>2
  <2>4. \A p \in 1 .. n : g[p] = f[p]
    OBVIOUS
  <2>5. g[n + 1] = Turn(f, a, n + 1)
    OBVIOUS
  <2> HIDE DEF g
  <2>6. ASSUME NEW p \in 1 .. n + 1 PROVE Turn(g, a, p) = Turn(f, a, p)
    <3>1. p # 1 => p - 1 \in 1 .. n
      OBVIOUS
    <3>2. p > 2 => p - 2 \in 1 .. n
      OBVIOUS
    <3> QED BY <2>4, <3>1, <3>2 DEF Turn
  <2>7. ASSUME NEW p \in 1 .. n + 1 PROVE g[p] <=> Turn(g, a, p)
    <3>1. CASE p \in 1 .. n BY <2>1, <2>4, <2>6, <3>1
    <3>2. CASE p = n + 1 BY <2>5, <2>6, <3>2
    <3> QED BY <3>1, <3>2
  <2> QED BY <2>3, <2>7
<1> HIDE DEF Good
<1>3. S = {}
  <2> SUFFICES ASSUME S # {} PROVE FALSE
    OBVIOUS
  <2>1. PICK n \in S : \A m \in S : n <= m
    BY LeastIsFirst
  <2>2. n \in Nat /\ ~Good(n) /\ n # 0
    BY <1>1, <2>1
  <2>3. n - 1 \in Nat /\ n - 1 \notin S
    BY <2>1, <2>2
  <2>4. Good(n - 1)
    BY <2>3
  <2>5. Good((n - 1) + 1)
    BY <1>2, <2>3, <2>4
  <2>6. (n - 1) + 1 = n
    BY <2>2
  <2> QED BY <2>2, <2>5, <2>6
<1>4. Good(N)
  BY <1>3
<1>5. PICK f \in [1 .. N -> BOOLEAN] : \A p \in 1 .. N : f[p] <=> Turn(f, a, p)
  BY <1>4 DEF Good
<1>6. \A p \in 1 .. N : f[p] = Turn(f, a, p)
  BY <1>5 DEF Turn
<1>7. f = [p \in 1 .. N |-> Turn(f, a, p)]
  BY <1>6
<1> QED BY <1>7

\* The first word is looked at, and the one after a flag or an option's value.
LEMMA LookedInTurns ==
  ASSUME NEW a, Len(a) \in Nat
  PROVE  /\ LookedIn(a) \subseteq 1 .. Len(a)
         /\ \A p \in 1 .. Len(a) :
              p \in LookedIn(a) <=>
                \/ p = 1
                \/ p - 1 \in LookedIn(a) /\ a[p - 1] \in Flags
                \/ p > 2 /\ p - 2 \in LookedIn(a) /\ a[p - 2] \in Valued
<1> DEFINE seen == CHOOSE f : f = [p \in 1 .. Len(a) |-> Turn(f, a, p)]
<1>1. seen = [p \in 1 .. Len(a) |-> Turn(seen, a, p)]
  BY TurnsExist
<1>2. LookedIn(a) = {p \in 1 .. Len(a) : seen[p]}
  BY DEF LookedIn, Turn
<1> HIDE DEF seen
<1>3. \A p \in 1 .. Len(a) : seen[p] = Turn(seen, a, p)
  BY <1>1
<1>4. ASSUME NEW p \in 1 .. Len(a)
      PROVE  p \in LookedIn(a) <=>
                \/ p = 1
                \/ p - 1 \in LookedIn(a) /\ a[p - 1] \in Flags
                \/ p > 2 /\ p - 2 \in LookedIn(a) /\ a[p - 2] \in Valued
  <2>1. p # 1 => p - 1 \in 1 .. Len(a)
    OBVIOUS
  <2>2. p > 2 => p - 2 \in 1 .. Len(a)
    OBVIOUS
  <2>3. p \in LookedIn(a) <=> Turn(seen, a, p)
    BY <1>2, <1>3
  <2>4. p # 1 => (p - 1 \in LookedIn(a) <=> seen[p - 1])
    BY <1>2, <2>1
  <2>5. p > 2 => (p - 2 \in LookedIn(a) <=> seen[p - 2])
    BY <1>2, <2>2
  <2>6. CASE p = 1
    BY <2>3, <2>6 DEF Turn
  <2>7. CASE p # 1
    BY <2>3, <2>4, <2>5, <2>7 DEF Turn
  <2> QED BY <2>6, <2>7
<1> QED BY <1>2, <1>4
\* Every word that is looked at before the q-th is a flag, or an option whose value
\* comes before the q-th too.
Behind(q) ==
  \A p \in LookedAt : p < q => \/ args[p] \in Flags
                               \/ args[p] \in Valued /\ p + 2 <= q

FlagsBefore(q) ==
  opts.help \/ opts.version <=> \E p \in LookedAt : p < q /\ args[p] \in Flags

\* parse_args in its loop: it is at a word that is looked at, or at the end.
Reading ==
  /\ pos \in 1 .. Len(args) + 1 /\ (pos <= Len(args) => pos \in LookedAt)
  /\ Behind(pos) /\ FlagsBefore(pos) /\ opts.command = <<>>

\* What it has made of the words when it is through with them.
Understood ==
  /\ Misused = {} /\ (opts.help \/ opts.version <=> Asked(Flags))
  /\ opts.command = <<>> <=> ~Asked(Starters \cup {"word"})
  /\ opts.command # <<>> => \E p \in LookedAt : opts.command =
       SubSeq(args, IF args[p] \in Starters THEN p + 1 ELSE p, Len(args))

Options == [help : BOOLEAN, version : BOOLEAN, user : BOOLEAN, cd : BOOLEAN,
            command : Seq(Words)]

WordsInv ==
  /\ args \in Seq(Words) /\ opts \in Options
  /\ at = "parse" => Reading
  /\ at \in {"parsed", "cd", "command"} \/ ended \in {"exec", "noexec"} => Understood
  /\ at \in {"cd", "command"} \/ ended \in {"exec", "noexec"} => ~opts.help /\ ~opts.version
  /\ ended = "usage" => Misused # {}
  /\ ended \in {"exec", "noexec"} => opts.command # <<>>
  /\ ended # "no" => at = "over"

\* The words parse_args looks at, for the words it was given.
LEMMA LookedAtTurns ==
  ASSUME args \in Seq(Words)
  PROVE  /\ Len(args) \in Nat /\ LookedAt \subseteq 1 .. Len(args)
         /\ \A p \in LookedAt : args[p] \in Words
         /\ \A p \in 1 .. Len(args) :
              p \in LookedAt <=>
                \/ p = 1
                \/ p - 1 \in LookedAt /\ args[p - 1] \in Flags
                \/ p > 2 /\ p - 2 \in LookedAt /\ args[p - 2] \in Valued
<1>1. Len(args) \in Nat
  OBVIOUS
<1>2. LookedAt = LookedIn(args)
  BY LookedAtIsLookedIn
<1>3. LookedAt \subseteq 1 .. Len(args)
  BY <1>1, <1>2, LookedInTurns
<1>4. \A p \in LookedAt : args[p] \in Words
  BY <1>1, <1>3
<1> QED BY <1>1, <1>2, <1>3, <1>4, LookedInTurns

\* Nothing is looked at behind a word that is neither a flag nor an option.
LEMMA NothingAhead ==
  ASSUME args \in Seq(Words), Reading,
         pos <= Len(args) => args[pos] \notin Flags \cup Valued
  PROVE  \A p \in LookedAt : p <= pos
<1> DEFINE S == {p \in LookedAt : p > pos}
<1> SUFFICES ASSUME S # {} PROVE FALSE
  BY LookedAtTurns DEF Reading
<1>1. pos \in Nat /\ pos >= 1 /\ Len(args) \in Nat
  BY LookedAtTurns DEF Reading
<1>2. PICK n \in S : \A k \in S : n <= k
  <2>1. S \subseteq Nat
    BY LookedAtTurns
  <2> QED BY <2>1, LeastIsFirst
<1>3. n \in LookedAt /\ n \in 1 .. Len(args) /\ n > pos /\ pos <= Len(args)
  BY <1>1, <1>2, LookedAtTurns
<1>4. CASE n - 1 \in LookedAt /\ args[n - 1] \in Flags
  <2>1. n - 1 \notin S /\ n - 1 # pos
    BY <1>1, <1>2, <1>3, <1>4
  <2> QED BY <1>1, <1>3, <1>4, <2>1
<1>5. CASE n > 2 /\ n - 2 \in LookedAt /\ args[n - 2] \in Valued
  <2>1. n - 2 \notin S /\ n - 2 # pos
    BY <1>1, <1>2, <1>3, <1>5
  <2>2. n - 2 < pos
    BY <1>1, <1>3, <1>5, <2>1
  <2>3. args[n - 2] \in Valued /\ (n - 2) + 2 <= pos
    BY <1>5, <2>2 DEF Reading, Behind, Flags, Valued
  <2> QED BY <1>1, <1>3, <2>3
<1>6. n # 1
  BY <1>1, <1>3
<1> QED BY <1>3, <1>4, <1>5, <1>6, LookedAtTurns

\* Words that all are flags, or options with their values, ask for no command and
\* none of them is misused.
LEMMA EndUnderstood ==
  ASSUME args \in Seq(Words), Reading, pos > Len(args)
  PROVE  Understood
<1>1. \A p \in LookedAt : p < pos /\ p \in 1 .. Len(args)
  BY LookedAtTurns DEF Reading
<1>2. pos = Len(args) + 1 /\ Len(args) \in Nat
  BY LookedAtTurns DEF Reading
<1>3. ASSUME NEW p \in LookedAt
      PROVE  args[p] \in Flags \/ (args[p] \in Valued /\ p # Len(args))
  <2>1. p \in 1 .. Len(args) /\ p < pos
    BY <1>1
  <2>2. args[p] \in Flags \/ (args[p] \in Valued /\ p + 2 <= pos)
    BY <2>1 DEF Reading, Behind
  <2> QED BY <1>2, <2>1, <2>2
<1>4. \A p \in LookedAt : args[p] \notin Refused \cup Starters \cup {"word"}
  BY <1>3 DEF Flags, Valued, Refused, Starters
<1>5. Misused = {}
  BY <1>3, <1>4 DEF Misused, Flags, Valued
<1>6. ~Asked(Starters \cup {"word"})
  BY <1>4 DEF Asked
<1>7. opts.help \/ opts.version <=> Asked(Flags)
  BY <1>1 DEF Reading, FlagsBefore, Asked
<1> QED BY <1>5, <1>6, <1>7 DEF Understood, Reading

\* The first word that starts a command ends the options.
LEMMA CommandUnderstood ==
  ASSUME args \in Seq(Words), Reading, pos <= Len(args),
         (args[pos] \in Starters /\ pos # Len(args)) \/ args[pos] = "word",
         UNCHANGED args, at' = "parsed",
         opts' = [opts EXCEPT !.command =
                    SubSeq(args, IF args[pos] \in Starters THEN pos + 1 ELSE pos, Len(args))],
         opts \in Options
  PROVE  Understood' /\ opts' \in Options
<1> DEFINE first == IF args[pos] \in Starters THEN pos + 1 ELSE pos
<1>1. pos \in 1 .. Len(args) /\ pos \in LookedAt /\ Len(args) \in Nat
  BY LookedAtTurns DEF Reading
<1>2. args[pos] \notin Flags \cup Valued \cup Refused
  BY DEF Starters, Flags, Valued, Refused
<1>3. \A p \in LookedAt : p <= pos
  BY <1>2, NothingAhead
<1>4. \A p \in LookedAt : p # pos =>
        args[p] \in Flags \/ (args[p] \in Valued /\ p # Len(args))
  BY <1>1, <1>3, LookedAtTurns DEF Reading, Behind
<1>5. Misused = {}
  BY <1>1, <1>2, <1>4 DEF Misused, Flags, Valued, Refused, Starters
<1>6. first \in 1 .. Len(args)
  BY <1>1 DEF Starters
<1>7. SubSeq(args, first, Len(args)) \in Seq(Words) /\ SubSeq(args, first, Len(args)) # <<>>
  <2>1. Len(SubSeq(args, first, Len(args))) = Len(args) - first + 1
    BY <1>1, <1>6
  <2>2. SubSeq(args, first, Len(args)) \in Seq(Words)
    BY <1>1, <1>6
  <2>3. Len(SubSeq(args, first, Len(args))) # 0
    BY <1>1, <1>6, <2>1
  <2> QED BY <2>2, <2>3
<1> DEFINE cmd == SubSeq(args, first, Len(args))
<1>8. opts' \in Options /\ opts'.command = cmd /\ opts'.help = opts.help
      /\ opts'.version = opts.version
  BY <1>7 DEF Options
<1>9. opts.help \/ opts.version <=> Asked(Flags)
  BY <1>1, <1>2, <1>3, LookedAtTurns DEF Reading, FlagsBefore, Asked
<1>10. Asked(Starters \cup {"word"})
  BY <1>1 DEF Asked
<1>11. LookedAt' = LookedAt
  BY LookedAtIsLookedIn DEF LookedAt
<1>12. Misused' = {} /\ (Asked(Flags)' <=> Asked(Flags))
       /\ Asked(Starters \cup {"word"})'
  BY <1>5, <1>10, <1>11 DEF Misused, Asked
<1> QED
  BY <1>1, <1>7, <1>8, <1>9, <1>11, <1>12 DEF Understood
\* Each turn of the loop of parse_args keeps the invariant.
LEMMA ParseKeepsWords ==
  ASSUME WordsInv, Parse
  PROVE  WordsInv'
<1>1. /\ at = "parse" /\ UNCHANGED args /\ args \in Seq(Words) /\ opts \in Options
      /\ Reading /\ ended = "no"
  BY DEF Parse, WordsInv
<1>2. LookedAt' = LookedAt /\ Misused' = Misused
  BY <1>1, LookedAtIsLookedIn DEF LookedAt, Misused
<1>3. pos \in 1 .. Len(args) + 1 /\ Len(args) \in Nat
  BY <1>1, LookedAtTurns DEF Reading
<1>4. CASE pos > Len(args) /\ at' = "parsed" /\ UNCHANGED <<pos, opts, ended>>
  <2>1. Understood
    BY <1>1, <1>4, EndUnderstood
  <2>2. Understood'
    BY <1>1, <1>2, <1>4, <2>1 DEF Understood, Asked
  <2> QED BY <1>1, <1>4, <2>2 DEF WordsInv
<1>5. CASE pos <= Len(args) /\ ParseFlag
  <2>1. /\ args[pos] \in Flags /\ pos' = pos + 1 /\ UNCHANGED <<at, ended>>
        /\ opts' \in Options /\ opts'.command = <<>> /\ (opts'.help \/ opts'.version)
    BY <1>1, <1>5 DEF ParseFlag, Word, Options, Reading
  <2>2. pos + 1 <= Len(args) => pos + 1 \in LookedAt
    BY <1>1, <1>3, <1>5, <2>1, LookedAtTurns DEF Reading
  <2>3. Behind(pos + 1)
    <3> SUFFICES ASSUME NEW p \in LookedAt, p < pos + 1
                 PROVE  args[p] \in Flags \/ (args[p] \in Valued /\ p + 2 <= pos + 1)
      BY DEF Behind
    <3>1. p \in Nat
      BY <1>1, LookedAtTurns
    <3>2. CASE p = pos BY <2>1, <3>2
    <3>3. CASE p < pos BY <1>1, <1>3, <3>1, <3>3 DEF Reading, Behind
    <3> QED BY <1>3, <3>1, <3>2, <3>3
  <2>4. \E p \in LookedAt : p < pos + 1 /\ args[p] \in Flags
    BY <1>1, <1>3, <1>5, <2>1 DEF Reading
  <2>5. Reading'
    BY <1>1, <1>2, <1>3, <1>5, <2>1, <2>2, <2>3, <2>4 DEF Reading, Behind, FlagsBefore
  <2> QED BY <1>1, <2>1, <2>5 DEF WordsInv
<1>6. CASE pos <= Len(args) /\ Usage /\ Word \in Refused \cup Valued \cup Starters
           /\ (Word \in Refused \/ pos = Len(args))
  <2>1. pos \in Misused
    BY <1>1, <1>6 DEF Reading, Misused, Word
  <2> QED BY <1>1, <1>2, <1>6, <2>1 DEF WordsInv, Usage, Ends
<1>7. CASE pos < Len(args) /\ ParseValued
  <2>1. /\ args[pos] \in Valued /\ pos' = pos + 2 /\ UNCHANGED <<at, ended>>
        /\ opts' \in Options /\ opts'.command = <<>>
        /\ opts'.help = opts.help /\ opts'.version = opts.version
    <3>1. /\ args[pos] \in Valued /\ pos # Len(args) /\ pos' = pos + 2 /\ UNCHANGED <<at, ended>>
          /\ opts' = IF args[pos] = "--user" THEN [opts EXCEPT !.user = TRUE]
                                            ELSE [opts EXCEPT !.cd = TRUE]
      BY <1>3, <1>7 DEF ParseValued, Word
    <3> QED BY <1>1, <3>1 DEF Options, Reading
  <2>2. pos \in LookedAt
    BY <1>1, <1>7 DEF Reading
  <2>3. pos + 2 <= Len(args) => pos + 2 \in LookedAt
    <3> SUFFICES ASSUME pos + 2 <= Len(args) PROVE pos + 2 \in LookedAt
      OBVIOUS
    <3>1. pos + 2 \in 1 .. Len(args) /\ pos + 2 > 2 /\ (pos + 2) - 2 = pos
      BY <1>3
    <3> QED BY <1>1, <2>1, <2>2, <3>1, LookedAtTurns
  <2>4. pos + 1 \notin LookedAt
    <3> SUFFICES ASSUME pos + 1 \in LookedAt PROVE FALSE
      OBVIOUS
    <3>1. pos + 1 \in 1 .. Len(args) /\ pos + 1 # 1 /\ (pos + 1) - 1 = pos
          /\ (pos + 1) - 2 = pos - 1
      BY <1>3, <1>7
    <3>2. args[pos] \notin Flags
      BY <2>1 DEF Valued, Flags
    <3>3. pos - 1 \in LookedAt /\ args[pos - 1] \in Valued
      BY <1>1, <3>1, <3>2, LookedAtTurns
    <3>4. args[pos - 1] \in Flags \/ (pos - 1) + 2 <= pos
      BY <1>1, <1>3, <3>3 DEF Reading, Behind
    <3> QED BY <1>3, <3>3, <3>4 DEF Flags, Valued
  <2>5. Behind(pos + 2)
    <3> SUFFICES ASSUME NEW p \in LookedAt, p < pos + 2
                 PROVE  args[p] \in Flags \/ (args[p] \in Valued /\ p + 2 <= pos + 2)
      BY DEF Behind
    <3>1. p \in Nat
      BY <1>1, LookedAtTurns
    <3>2. CASE p = pos BY <1>3, <2>1, <3>2
    <3>3. CASE p < pos BY <1>1, <1>3, <3>1, <3>3 DEF Reading, Behind
    <3>4. p # pos + 1
      BY <2>4
    <3> QED BY <1>3, <3>1, <3>2, <3>3, <3>4
  <2>6. (\E p \in LookedAt : p < pos /\ args[p] \in Flags)
          <=> \E p \in LookedAt : p < pos + 2 /\ args[p] \in Flags
    <3> SUFFICES ASSUME NEW p \in LookedAt, args[p] \in Flags PROVE p < pos <=> p < pos + 2
      OBVIOUS
    <3>1. p \in Nat
      BY <1>1, LookedAtTurns
    <3>2. p # pos + 1 /\ p # pos
      BY <2>1, <2>4 DEF Flags, Valued
    <3> QED BY <1>3, <3>1, <3>2
  <2>7. Reading'
    <3>1. pos' \in 1 .. Len(args') + 1 /\ (pos' <= Len(args') => pos' \in LookedAt')
      BY <1>1, <1>2, <1>3, <1>7, <2>1, <2>3
    <3>2. Behind(pos)'
      BY <1>1, <1>2, <2>1, <2>5 DEF Behind
    <3>3. FlagsBefore(pos)'
      BY <1>1, <1>2, <2>1, <2>6 DEF Reading, FlagsBefore
    <3> QED BY <2>1, <3>1, <3>2, <3>3 DEF Reading
  <2> QED BY <1>1, <2>1, <2>7 DEF WordsInv
<1>8. CASE /\ pos <= Len(args) /\ at' = "parsed" /\ UNCHANGED <<pos, ended>>
           /\ (ParseStarter \/ ParseCommand)
  <2>1. (args[pos] \in Starters /\ pos # Len(args)) \/ args[pos] = "word"
    BY <1>8 DEF ParseStarter, ParseCommand, Word, Usage, Ends
  <2>2. opts' = [opts EXCEPT !.command =
                   SubSeq(args, IF args[pos] \in Starters THEN pos + 1 ELSE pos, Len(args))]
    BY <1>8 DEF ParseStarter, ParseCommand, Word, Usage, Ends, Starters
  <2>3. Understood' /\ opts' \in Options
    BY <1>1, <1>8, <2>1, <2>2, CommandUnderstood
  <2> QED BY <1>1, <1>8, <2>3 DEF WordsInv
<1> QED
  BY <1>1, <1>3, <1>4, <1>5, <1>6, <1>7, <1>8
     DEF Parse, ParseValued, ParseStarter, ParseRefused, ParseCommand
LEMMA WordsInvInit == KhslInit => WordsInv
<1> SUFFICES ASSUME KhslInit PROVE WordsInv
  OBVIOUS
<1>1. /\ pos = 1 /\ opts = NoOpts /\ at = "parse" /\ ended = "no"
  BY DEF KhslInit
<1>2. args \in Seq(Words)
  <2>1. PICK n \in 0 .. MaxWords : args \in [1 .. n -> Words]
    BY DEF KhslInit
  <2> QED BY <2>1, KhslAssumption
<1>3. opts \in Options
  <2>1. <<>> \in Seq(Words)
    OBVIOUS
  <2> QED BY <1>1, <2>1 DEF NoOpts, Options
<1>4. /\ Len(args) \in Nat /\ LookedAt \subseteq 1 .. Len(args)
      /\ 1 <= Len(args) => 1 \in LookedAt
  BY <1>2, LookedAtTurns
<1>5. Behind(pos)
  BY <1>1, <1>4 DEF Behind
<1>6. FlagsBefore(pos)
  BY <1>1, <1>4 DEF FlagsBefore, NoOpts
<1>7. Reading
  BY <1>1, <1>4, <1>5, <1>6 DEF Reading, NoOpts
<1> QED BY <1>1, <1>2, <1>3, <1>7 DEF WordsInv

\* Every other step leaves the words, and what was made of them, alone, but for the
\* session, which has no more use for them.
LEMMA WordsInvStep == WordsInv /\ [KhslNext]_<<vars, khslVars, late>> => WordsInv'
<1> SUFFICES ASSUME WordsInv, [KhslNext]_<<vars, khslVars, late>> PROVE WordsInv'
  OBVIOUS
<1> DEFINE Same == UNCHANGED <<args, opts>>
<1>1. ASSUME Same
      PROVE  /\ Misused' = Misused /\ (Understood' <=> Understood)
  <2>1. LookedAt' = LookedAt
    BY <1>1, LookedAtIsLookedIn DEF LookedAt
  <2> QED BY <1>1, <2>1 DEF Misused, Understood, Asked
<1>2. CASE Parse
  BY <1>2, ParseKeepsWords
<1>3. CASE DropPrivileges
  <2>1. at = "parsed" /\ ended = "no" /\ Same
    BY <1>3 DEF DropPrivileges, WordsInv
  <2>2. \/ ended' \in {"help", "version"} /\ at' = "over"
        \/ ended' = "no" /\ at' = "cd" /\ ~opts.help /\ ~opts.version
    BY <1>3, <2>1 DEF DropPrivileges, Ends
  <2> QED BY <1>1, <2>1, <2>2 DEF WordsInv
<1>4. CASE ChangeDirectory
  <2>1. at = "cd" /\ ended = "no" /\ Same
    BY <1>4 DEF ChangeDirectory, parseVars, WordsInv
  <2>2. \/ ended' = "no" /\ at' = "command"
        \/ ended' = "cdfailed" /\ at' = "over"
    BY <1>4, <2>1 DEF ChangeDirectory, Ends
  <2> QED BY <1>1, <2>1, <2>2 DEF WordsInv
<1>5. CASE RunCommand
  <2>1. at = "command" /\ ended = "no"
    BY <1>5 DEF RunCommand, WordsInv
  <2>2. CASE opts.command # <<>> /\ ended' \in {"exec", "noexec"} /\ at' = "over" /\ Same
    BY <1>1, <2>1, <2>2 DEF WordsInv
  <2>3. CASE at' = "connect" /\ ended' = ended /\ args' = <<>> /\ opts' = NoOpts
    <3>1. <<>> \in Seq(Words)
      OBVIOUS
    <3>2. NoOpts \in Options
      BY <3>1 DEF NoOpts, Options
    <3> QED BY <2>1, <2>3, <3>1, <3>2 DEF WordsInv
  <2> QED BY <1>5, <2>2, <2>3 DEF RunCommand, Ends
<1>6. CASE Connect \/ Hello \/ KhslLoop
  <2>1. /\ at \in {"connect", "hello", "poll", "stdin", "send", "sock"}
        /\ at' \in {"hello", "poll", "stdin", "send", "sock", "over"} /\ Same
        /\ ended' = ended \/ (ended' \in {"localsh", "returned", "sigpipe"} /\ at' = "over")
    BY <1>6 DEF Connect, Hello, KhslLoop, KhslPoll, ReadStdin, SendKeys, ReadSocket, Leave,
                Ends, parseVars
  <2> QED BY <1>1, <2>1 DEF WordsInv
<1>7. CASE Strike \/ StdinEnds
  <2>1. at # "parse" /\ at' = at /\ ended' = ended /\ Same
    BY <1>7 DEF Strike, StdinEnds, parseVars
  <2> QED BY <1>1, <2>1 DEF WordsInv
<1>8. CASE Killed
  <2>1. ended' = "killed" /\ at' = "over" /\ at # "over" /\ Same
    BY <1>8 DEF Killed, Ends, parseVars
  <2> QED BY <1>1, <2>1 DEF WordsInv
<1>9. CASE UNCHANGED khslVars
  <2>1. Same /\ UNCHANGED <<pos, at, ended>>
    BY <1>9 DEF khslVars, parseVars
  <2>2. Reading' <=> Reading
    <3>1. LookedAt' = LookedAt
      BY <2>1, LookedAtIsLookedIn DEF LookedAt
    <3> QED BY <2>1, <3>1 DEF Reading, Behind, FlagsBefore
  <2> QED BY <1>1, <2>1, <2>2 DEF WordsInv
<1> QED
  BY <1>2, <1>3, <1>4, <1>5, <1>6, <1>7, <1>8, <1>9 DEF KhslNext, KhslSteps

\* However long its command line is, khsl runs the command its words name, and
\* nothing where a word was refused or help was asked for (main.c:459-545).
THEOREM WordsMeanWhatTheySay == KhslSpec => []RunsWhatWasAsked
<1>1. WordsInv => RunsWhatWasAsked
  BY DEF WordsInv, Understood, RunsWhatWasAsked
<1> QED
  BY <1>1, WordsInvInit, WordsInvStep, PTL DEF KhslSpec
=============================================================================
