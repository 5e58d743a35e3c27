------------------------- MODULE PtySessions_proofs -------------------------
(***************************************************************************)
(* What holds of the native sessions for any number of them and any set of  *)
(* descriptors: threads stay with their sessions, and a stopped session     *)
(* leaves nothing behind.                                                   *)
(***************************************************************************)
EXTENDS PtySessions, WellFoundedInduction, TLAPS

\* Of the types what the arguments below need.
SessionsTypeOK ==
  /\ js \in [at : {"idle", "start", "tsfn", "abandon", "giveup", "write", "kill", "close",
                "join"}, s : 0 .. MaxId,
             rest : SUBSET Ids]
  /\ nextId \in Nat \ {0} /\ sessions \subseteq Ids
  /\ kind \in [Ids -> {"unborn", "local", "daemon"}]
  /\ running \in [Ids -> BOOLEAN]
  /\ master \in [Ids -> Descriptors \cup {None}]
  /\ owner \in [Descriptors -> {Free, Other} \cup Ids]
  /\ thread \in [Ids -> {"none", "test", "load", "call", "read", "ended"}]
  /\ loaded \in [Ids -> Descriptors \cup {None}]
  /\ file \in [Ids -> {Free, Other} \cup Ids]
  /\ queue \in [Ids -> Seq(Nat)]
  /\ shell \in [Ids -> {"none", "running", "zombie", "reaped"}]
  /\ taken \in [Ids -> Nat]

\* The session that stopPty is about, until it is released.
Stopping(s) == js.at \in {"kill", "close", "join"} /\ js.s = s

\* Its descriptor is open up to CloseMaster, or to GiveUpStart.
Open(s) == s \in sessions \/ ((Starting \/ js.at \in {"kill", "close"}) /\ js.s = s)

\* It may have a child that was not waited for yet.
Unreaped(s) == s \in sessions \/ (js.at \in {"tsfn", "abandon", "kill"} /\ js.s = s)

\* startPty works on the newest number, which is not in the map yet.
StartsNewest ==
  /\ Starting => js.s \in Ids \ sessions /\ nextId = js.s + 1 /\ js.rest = {}
  /\ js.at = "abandon" => kind[js.s] = "local"

\* stopPty works on a session it took out of the map, and the others it noted are
\* still in it; numbers are fresh.
StopsOne ==
  /\ sessions \subseteq {s \in Ids : s < nextId}
  /\ js.at \in {"idle", "write"} => js.rest = {}
  /\ js.at = "idle" => js = Idle
  /\ js.at = "write" => js.s \in sessions
  /\ js.at \in {"kill", "close", "join"} =>
       js.s \in Ids \ sessions /\ js.s < nextId /\ js.rest \subseteq sessions

\* master_fd is the session's own descriptor as long as it is open, and its only one.
OwnDescriptor ==
  /\ \A s \in Ids : Open(s) => master[s] \in Descriptors /\ owner[master[s]] = s
  /\ \A d \in Descriptors : owner[d] \in Ids => Open(owner[d]) /\ master[owner[d]] = d
  /\ js.at = "join" => master[js.s] = None

\* The number a thread loaded is the session's, or was and is nobody else's yet:
\* another session starts only after the thread was joined.
LoadedIsOwn == \A s \in Ids :
  /\ ThreadAlive(s) => s \in sessions \/ Stopping(s)
  /\ thread[s] = "call" =>
       /\ loaded[s] \in Descriptors /\ owner[loaded[s]] \in {s, Free, Other}
       /\ Open(s) => loaded[s] = master[s]
  /\ thread[s] = "read" => file[s] \in {s, Other}

\* What is neither in the map nor being stopped is gone.
GoneIsGone ==
  /\ \A s \in Ids : kind[s] # "local" \/ s >= nextId => shell[s] = "none"
  /\ \A s \in Ids \ sessions : ~Stopping(s) => queue[s] = <<>>
  /\ \A s \in Ids : ~Unreaped(s) => shell[s] \in {"none", "reaped"}

SessionsInv ==
  SessionsTypeOK /\ StartsNewest /\ StopsOne /\ OwnDescriptor /\ LoadedIsOwn /\ GoneIsGone

\* open() and stopPty take the least of some numbers.
LEMMA LeastIsOne ==
  ASSUME NEW S, S \subseteq Nat, S # {}
  PROVE  Min(S) \in S
<1>1. PICK n \in S : \A m \in S : ~(<<m, n>> \in OpToRel(<, Nat))
  BY WFMin, NatLessThanWellFounded, Zenon
<1>2. \A m \in S : ~(m < n) BY <1>1, Zenon DEF OpToRel
<1>3. \A m \in S : n <= m BY <1>2
<1> QED BY <1>3 DEF Min

LEMMA SessionsInvInit == Init => SessionsInv
<1> SUFFICES ASSUME Init PROVE SessionsInv
  OBVIOUS
<1> USE DEF Init, Idle
<1>t. SessionsTypeOK
  <2>1. <<>> \in Seq(Nat) OBVIOUS
  <2> QED BY <2>1, SessionsAssumption DEF SessionsTypeOK, None, Free
<1>n. StartsNewest BY DEF StartsNewest, Starting
<1>a. StopsOne BY DEF StopsOne
<1>b. OwnDescriptor BY DEF OwnDescriptor, Open, Starting, Free, Ids
<1>c. LoadedIsOwn BY DEF LoadedIsOwn, ThreadAlive
<1>d. GoneIsGone BY DEF GoneIsGone, Stopping, Unreaped
<1> QED BY <1>t, <1>n, <1>a, <1>b, <1>c, <1>d DEF SessionsInv

\* A free descriptor is nobody's, and a new session takes it; no thread has loaded it
\* as its own.
LEMMA StartKeeps ==
  ASSUME SessionsInv, NEW k \in {"local", "daemon"}, StartPty(k), js' # js
  PROVE  SessionsInv'
<1> USE DEF SessionsInv, Stopping, Open, Unreaped, Starting, ThreadAlive, Idle
<1>1. LowestFree \in FreeNumbers
  BY LeastIsOne, SessionsAssumption DEF StartPty, LowestFree, FreeNumbers
<1> DEFINE s == nextId  d == LowestFree
<1>2. d \in Descriptors /\ owner[d] = Free BY <1>1 DEF FreeNumbers
<1>3. s \in Ids \ sessions BY DEF StartPty, StopsOne, SessionsTypeOK
<1>4. /\ js = Idle
      /\ UNCHANGED <<sessions, running, thread, loaded, file, taken, queue, shell>>
  BY DEF StartPty, threadVars, worldVars
<1>5. /\ nextId' = s + 1 /\ kind' = [kind EXCEPT ![s] = k]
      /\ master' = [master EXCEPT ![s] = d] /\ owner' = [owner EXCEPT ![d] = s]
      /\ js' = [at |-> "start", s |-> s, rest |-> {}]
  BY DEF StartPty
<1>6. shell[s] = "none" BY <1>3 DEF GoneIsGone, SessionsTypeOK
<1> HIDE DEF s, d
<1>t. SessionsTypeOK'
  <2>1. nextId' \in Nat \ {0} /\ js' \in [at : {"start"}, s : Ids, rest : {{}}]
    BY <1>3, <1>5 DEF Ids
  <2>2. Ids \subseteq 0 .. MaxId BY SessionsAssumption DEF Ids
  <2> QED BY <1>2, <1>3, <1>4, <1>5, <2>1, <2>2 DEF SessionsTypeOK
<1>n. StartsNewest' BY <1>3, <1>4, <1>5 DEF StartsNewest
<1>a. StopsOne'
  <2>1. nextId \in Nat BY DEF SessionsTypeOK
  <2> QED BY <1>4, <1>5, <2>1 DEF StopsOne, s, Ids
<1>b. OwnDescriptor' BY <1>2, <1>3, <1>4, <1>5 DEF OwnDescriptor, SessionsTypeOK, Free, Ids
<1>c. LoadedIsOwn'
  <2>1. \A t \in Ids : thread[t] = "call" => loaded[t] # d
    BY <1>2, <1>4 DEF LoadedIsOwn, OwnDescriptor, SessionsTypeOK, Free, Ids
  <2> QED BY <1>2, <1>3, <1>4, <1>5, <2>1 DEF LoadedIsOwn, SessionsTypeOK
<1>d. GoneIsGone'
  <2>1. \A u \in Ids : shell'[u] = shell[u] /\ (u >= nextId' => u >= nextId /\ u # s)
    BY <1>3, <1>4, <1>5 DEF SessionsTypeOK, s, Ids
  <2>2. \A u \in Ids : kind'[u] = IF u = s THEN k ELSE kind[u]
    BY <1>5 DEF SessionsTypeOK
  <2> QED BY <1>3, <1>4, <1>5, <1>6, <2>1, <2>2 DEF GoneIsGone
<1> QED BY <1>t, <1>n, <1>a, <1>b, <1>c, <1>d

LEMMA ForkOrConnectKeeps ==
  ASSUME SessionsInv, ForkShell \/ Connect PROVE SessionsInv'
<1> USE DEF SessionsInv, Stopping, Open, Unreaped, Starting, ThreadAlive, threadVars, worldVars
<1>1. /\ js.at = "start" /\ js.s \in Ids \ sessions
      /\ \E a \in {"tsfn", "giveup"} : js' = [js EXCEPT !.at = a]
      /\ UNCHANGED <<nextId, sessions, kind, running, master, owner, threadVars, queue>>
  BY DEF ForkShell, Connect, StartsNewest
<1>2. /\ js' \in [at : {"tsfn", "giveup"}, s : 0 .. MaxId, rest : SUBSET Ids]
      /\ js'.s = js.s /\ js'.rest = js.rest
  BY <1>1 DEF SessionsTypeOK
<1>3. \/ UNCHANGED shell
      \/ /\ kind[js.s] = "local" /\ js'.at = "tsfn"
         /\ shell' = [shell EXCEPT ![js.s] = "running"]
  BY DEF ForkShell, Connect, SessionsTypeOK
<1>t. SessionsTypeOK'
  <2>1. shell' \in [Ids -> {"none", "running", "zombie", "reaped"}]
    BY <1>1, <1>3 DEF SessionsTypeOK
  <2> QED BY <1>1, <1>2, <2>1 DEF SessionsTypeOK
<1>n. StartsNewest' BY <1>1, <1>2 DEF StartsNewest
<1>a. StopsOne' BY <1>1, <1>2 DEF StopsOne
<1>b. OwnDescriptor' BY <1>1, <1>2 DEF OwnDescriptor
<1>c. LoadedIsOwn' BY <1>1, <1>2 DEF LoadedIsOwn
<1>4. js.s < nextId BY <1>1 DEF StartsNewest, SessionsTypeOK, Ids
<1>d. GoneIsGone'
  <2>1. CASE UNCHANGED shell BY <1>1, <1>2, <2>1 DEF GoneIsGone
  <2>2. CASE /\ kind[js.s] = "local" /\ js'.at = "tsfn"
             /\ shell' = [shell EXCEPT ![js.s] = "running"]
    <3>1. \A u \in Ids : shell'[u] = IF u = js.s THEN "running" ELSE shell[u]
      BY <1>1, <2>2 DEF SessionsTypeOK
    <3>2. ~(js.s >= nextId) BY <1>1, <1>4 DEF SessionsTypeOK, Ids
    <3> QED BY <1>1, <1>2, <2>2, <3>1, <3>2 DEF GoneIsGone
  <2> QED BY <1>3, <2>1, <2>2
<1> QED BY <1>t, <1>n, <1>a, <1>b, <1>c, <1>d

LEMMA CreateTsfnKeeps == ASSUME SessionsInv, CreateTsfn PROVE SessionsInv'
<1> USE DEF SessionsInv, Stopping, Open, Unreaped, Starting, ThreadAlive, worldVars
<1>1. /\ js.at = "tsfn" /\ js.s \in Ids \ sessions /\ js.rest = {} /\ js.s < nextId
      /\ UNCHANGED <<nextId, kind, master, owner, loaded, file, taken, queue, shell>>
  BY DEF CreateTsfn, StartsNewest, Ids
<1>2. CASE js' = Idle
  <2>1. /\ running' = [running EXCEPT ![js.s] = TRUE] /\ sessions' = sessions \cup {js.s}
        /\ thread' = [thread EXCEPT ![js.s] = "test"]
    BY <1>1, <1>2 DEF CreateTsfn, Idle
  <2>2. js' \in [at : {"idle"}, s : {0}, rest : {{}}] BY <1>2 DEF Idle
  <2>t. SessionsTypeOK' BY <1>1, <2>1, <2>2, SessionsAssumption DEF SessionsTypeOK
  <2>n. StartsNewest' BY <2>2 DEF StartsNewest
  <2>a. StopsOne' BY <1>1, <1>2, <2>1, <2>2 DEF StopsOne
  <2>b. OwnDescriptor' BY <1>1, <2>1, <2>2 DEF OwnDescriptor
  <2>c. LoadedIsOwn' BY <1>1, <2>1, <2>2 DEF LoadedIsOwn, SessionsTypeOK
  <2>d. GoneIsGone' BY <1>1, <2>1, <2>2 DEF GoneIsGone
  <2> QED BY <2>t, <2>n, <2>a, <2>b, <2>c, <2>d
<1>3. CASE js' # Idle
  <2>1. UNCHANGED <<running, sessions, thread>> BY <1>3 DEF CreateTsfn
  <2>2. /\ js' \in [at : {"abandon", "giveup"}, s : 0 .. MaxId, rest : SUBSET Ids]
        /\ js'.s = js.s /\ js'.rest = js.rest
        /\ js'.at = "giveup" <=> kind[js.s] # "local"
    BY <1>3 DEF CreateTsfn, SessionsTypeOK
  <2>t. SessionsTypeOK' BY <1>1, <2>1, <2>2 DEF SessionsTypeOK
  <2>n. StartsNewest' BY <1>1, <2>1, <2>2 DEF StartsNewest
  <2>a. StopsOne' BY <1>1, <2>1, <2>2 DEF StopsOne
  <2>b. OwnDescriptor' BY <1>1, <2>1, <2>2 DEF OwnDescriptor
  <2>c. LoadedIsOwn' BY <1>1, <2>1, <2>2 DEF LoadedIsOwn
  <2>d. GoneIsGone' BY <1>1, <2>1, <2>2 DEF GoneIsGone
  <2> QED BY <2>t, <2>n, <2>a, <2>b, <2>c, <2>d
<1> QED BY <1>2, <1>3

\* A start that fails kills and waits for its child, and closes its descriptor.
LEMMA AbandonKeeps == ASSUME SessionsInv, AbandonChild \/ GiveUpStart PROVE SessionsInv'
<1> USE DEF SessionsInv, Stopping, Open, Unreaped, Starting, ThreadAlive, threadVars
<1>1. CASE AbandonChild
  <2>1. /\ js.at = "abandon" /\ js.s \in Ids \ sessions
        /\ shell' = [shell EXCEPT ![js.s] = "reaped"]
        /\ UNCHANGED <<nextId, sessions, kind, running, master, owner, threadVars, queue>>
    BY <1>1 DEF AbandonChild, StartsNewest
  <2>2. /\ js' \in [at : {"giveup"}, s : 0 .. MaxId, rest : SUBSET Ids]
        /\ js'.s = js.s /\ js'.rest = js.rest
    BY <1>1 DEF AbandonChild, SessionsTypeOK
  <2>t. SessionsTypeOK' BY <2>1, <2>2 DEF SessionsTypeOK
  <2>n. StartsNewest' BY <2>1, <2>2 DEF StartsNewest
  <2>a. StopsOne' BY <2>1, <2>2 DEF StopsOne
  <2>b. OwnDescriptor' BY <2>1, <2>2 DEF OwnDescriptor
  <2>c. LoadedIsOwn' BY <2>1, <2>2 DEF LoadedIsOwn
  <2>d. GoneIsGone'
    <3>1. kind[js.s] = "local" BY <2>1 DEF StartsNewest
    <3>2. \A u \in Ids : shell'[u] = IF u = js.s THEN "reaped" ELSE shell[u]
      BY <2>1 DEF SessionsTypeOK
    <3>3. ~(js.s >= nextId) BY <2>1 DEF StartsNewest, SessionsTypeOK, Ids
    <3> QED BY <2>1, <2>2, <3>1, <3>2, <3>3 DEF GoneIsGone
  <2> QED BY <2>t, <2>n, <2>a, <2>b, <2>c, <2>d
<1>2. CASE GiveUpStart
  <2>1. /\ js.at = "giveup" /\ js.s \in Ids \ sessions
        /\ owner' = [owner EXCEPT ![master[js.s]] = Free]
        /\ master' = [master EXCEPT ![js.s] = None]
        /\ UNCHANGED <<nextId, sessions, kind, running, threadVars, queue, shell>>
    BY <1>2 DEF GiveUpStart, StartsNewest
  <2>2. js' \in [at : {"idle"}, s : {0}, rest : {{}}] /\ js' = Idle
    BY <1>2 DEF GiveUpStart, Idle
  <2>3. master[js.s] \in Descriptors /\ owner[master[js.s]] = js.s
    BY <2>1 DEF OwnDescriptor
  <2>t. SessionsTypeOK' BY <2>1, <2>2, <2>3, SessionsAssumption DEF SessionsTypeOK
  <2>n. StartsNewest' BY <2>2 DEF StartsNewest
  <2>a. StopsOne' BY <2>1, <2>2 DEF StopsOne
  <2>b. OwnDescriptor' BY <2>1, <2>2, <2>3 DEF OwnDescriptor, SessionsTypeOK, Free, Ids
  <2>c. LoadedIsOwn' BY <2>1, <2>2, <2>3 DEF LoadedIsOwn, SessionsTypeOK
  <2>d. GoneIsGone' BY <2>1, <2>2 DEF GoneIsGone
  <2> QED BY <2>t, <2>n, <2>a, <2>b, <2>c, <2>d
<1> QED BY <1>1, <1>2

\* The steps of stopPty, and its start with one session or with all.
LEMMA DestroyingKeeps ==
  ASSUME SessionsInv, NEW s \in sessions, NEW rest \in SUBSET (sessions \ {s}),
         js.at \in {"idle", "join"}, js.at = "join" => thread[js.s] = "ended",
         Destroying(s, rest),
         \/ js.at = "idle" /\ UNCHANGED queue
         \/ js.at = "join" /\ queue' = [queue EXCEPT ![js.s] = <<>>],
         UNCHANGED <<nextId, kind, running, master, owner, threadVars, worldVars>>
  PROVE  SessionsInv'
<1> USE DEF SessionsInv, Stopping, Open, Unreaped, Starting, ThreadAlive, Idle, Destroying, threadVars, worldVars
<1>t. SessionsTypeOK'
  <2>1. js' \in [at : {"kill"}, s : Ids, rest : SUBSET Ids] BY DEF SessionsTypeOK
  <2>2. queue' \in [Ids -> Seq(Nat)]
    <3>1. <<>> \in Seq(Nat) OBVIOUS
    <3> QED BY <3>1 DEF SessionsTypeOK
  <2> QED BY <2>1, <2>2 DEF SessionsTypeOK, Ids
<1>n. StartsNewest' BY DEF StartsNewest, StopsOne, SessionsTypeOK
<1>a. StopsOne' BY DEF StopsOne, SessionsTypeOK
<1>b. OwnDescriptor' BY DEF OwnDescriptor, SessionsTypeOK, StopsOne
<1>c. LoadedIsOwn' BY DEF LoadedIsOwn, SessionsTypeOK, StopsOne
<1>d. GoneIsGone' BY DEF GoneIsGone, SessionsTypeOK, StopsOne
<1> QED BY <1>t, <1>n, <1>a, <1>b, <1>c, <1>d

LEMMA KillKeeps == ASSUME SessionsInv, KillChild PROVE SessionsInv'
<1> USE DEF SessionsInv, KillChild, Stopping, Open, Unreaped, Starting, ThreadAlive, threadVars
<1>t. SessionsTypeOK' BY DEF SessionsTypeOK
<1>n. StartsNewest' BY DEF StartsNewest, StopsOne, SessionsTypeOK
<1>a. StopsOne' BY DEF StopsOne, SessionsTypeOK
<1>b. OwnDescriptor' BY DEF OwnDescriptor, SessionsTypeOK, StopsOne
<1>c. LoadedIsOwn' BY DEF LoadedIsOwn, SessionsTypeOK, StopsOne
<1>d. GoneIsGone' BY DEF GoneIsGone, SessionsTypeOK, StopsOne
<1> QED BY <1>t, <1>n, <1>a, <1>b, <1>c, <1>d

LEMMA CloseKeeps == ASSUME SessionsInv, CloseMaster PROVE SessionsInv'
<1> USE DEF SessionsInv, CloseMaster, Stopping, Open, Unreaped, Starting, ThreadAlive, threadVars
<1>t. SessionsTypeOK' BY DEF SessionsTypeOK
<1>n. StartsNewest' BY DEF StartsNewest, StopsOne, SessionsTypeOK
<1>a. StopsOne' BY DEF StopsOne, SessionsTypeOK
<1>b. OwnDescriptor' BY DEF OwnDescriptor, SessionsTypeOK, StopsOne, Free, Ids
<1>c. LoadedIsOwn' BY DEF LoadedIsOwn, SessionsTypeOK, StopsOne, OwnDescriptor
<1>d. GoneIsGone' BY DEF GoneIsGone, SessionsTypeOK, StopsOne
<1> QED BY <1>t, <1>n, <1>a, <1>b, <1>c, <1>d

\* Join and release, with or without a next session to stop.
LEMMA JoinKeeps == ASSUME SessionsInv, JoinAndRelease PROVE SessionsInv'
<1> USE DEF SessionsInv, JoinAndRelease
<1>1. CASE js.rest # {}
  <2>1. js.rest \subseteq sessions /\ js.rest \subseteq Nat
    BY DEF StopsOne, SessionsTypeOK, Ids
  <2>2. Min(js.rest) \in js.rest BY <1>1, <2>1, LeastIsOne
  <2> QED BY <1>1, <2>1, <2>2, DestroyingKeeps
<1>2. CASE js.rest = {}
  <2> USE DEF Stopping, Open, Unreaped, Starting, ThreadAlive, Idle, threadVars, worldVars
  <2>t. SessionsTypeOK'
    <3>1. <<>> \in Seq(Nat) OBVIOUS
    <3>2. js' = Idle /\ queue' = [queue EXCEPT ![js.s] = <<>>] BY <1>2
    <3>3. js' \in [at : {"idle"}, s : {0}, rest : {{}}] BY <3>2
    <3>4. queue' \in [Ids -> Seq(Nat)] BY <3>1, <3>2 DEF SessionsTypeOK
    <3> QED BY <1>2, <3>3, <3>4, SessionsAssumption DEF SessionsTypeOK
  <2>a. StopsOne' BY <1>2 DEF StopsOne, SessionsTypeOK
  <2>b. OwnDescriptor' BY <1>2 DEF OwnDescriptor, SessionsTypeOK, StopsOne
  <2>c. LoadedIsOwn' BY <1>2 DEF LoadedIsOwn, SessionsTypeOK, StopsOne
  <2>d. GoneIsGone' BY <1>2 DEF GoneIsGone, SessionsTypeOK, StopsOne
  <2>n. StartsNewest' BY <1>2 DEF StartsNewest
  <2> QED BY <2>t, <2>n, <2>a, <2>b, <2>c, <2>d
<1> QED BY <1>1, <1>2

LEMMA StopKeeps ==
  ASSUME SessionsInv, StopAll \/ \E s \in Ids : StopPty(s)
  PROVE  SessionsInv'
<1>1. CASE StopAll
  <2>1. sessions # {} /\ sessions \subseteq Nat
    BY <1>1 DEF StopAll, SessionsInv, SessionsTypeOK, Ids
  <2>2. Min(sessions) \in sessions BY <2>1, LeastIsOne
  <2> QED BY <1>1, <2>2, DestroyingKeeps DEF StopAll, Idle
<1>2. ASSUME NEW s \in Ids, StopPty(s) PROVE SessionsInv'
  BY <1>2, DestroyingKeeps DEF StopPty, Idle
<1> QED BY <1>1, <1>2

\* The other steps of the JS thread.
LEMMA JsKeeps ==
  ASSUME SessionsInv,
         \/ js' = js /\ \E k \in {"local", "daemon"} : StartPty(k)
         \/ WriteReturns \/ \E s \in Ids : CallJs(s) \/ WritePty(s)
  PROVE  SessionsInv'
<1> USE DEF SessionsInv, Stopping, Open, Unreaped, Starting, ThreadAlive, Idle, threadVars, worldVars
<1>1. CASE js' = js /\ \E k \in {"local", "daemon"} : StartPty(k)
  <2>1. /\ js = Idle /\ nextId' = nextId + 1 /\ nextId \in Nat
        /\ UNCHANGED <<js, sessions, kind, running, master, owner, threadVars, queue, heard,
                       worldVars>>
    <3>1. js = Idle /\ nextId' = nextId + 1 /\ nextId \in Nat
      BY <1>1 DEF StartPty, SessionsTypeOK
    <3>2. [Idle EXCEPT !.at = "start", !.s = nextId].at = "start" OBVIOUS
    <3>3. js' # [Idle EXCEPT !.at = "start", !.s = nextId] BY <1>1, <3>1, <3>2
    <3> QED BY <1>1, <3>1, <3>3 DEF StartPty
  <2>t. SessionsTypeOK' BY <2>1 DEF SessionsTypeOK
  <2>n. StartsNewest' BY <2>1 DEF StartsNewest
  <2>a. StopsOne' BY <2>1 DEF StopsOne, SessionsTypeOK, Ids
  <2>b. OwnDescriptor' BY <2>1 DEF OwnDescriptor
  <2>c. LoadedIsOwn' BY <2>1 DEF LoadedIsOwn
  <2>d. GoneIsGone'
    <3>1. \A s \in Ids : s >= nextId' => s >= nextId BY <2>1 DEF Ids
    <3> QED BY <2>1, <3>1 DEF GoneIsGone
  <2> QED BY <2>t, <2>n, <2>a, <2>b, <2>c, <2>d
<1>2. CASE WriteReturns
  <2>t. SessionsTypeOK' BY <1>2, SessionsAssumption DEF WriteReturns, SessionsTypeOK
  <2>n. StartsNewest' BY <1>2 DEF WriteReturns, StartsNewest
  <2>a. StopsOne' BY <1>2 DEF WriteReturns, StopsOne
  <2> QED BY <1>2, <2>t, <2>n, <2>a DEF WriteReturns, OwnDescriptor, LoadedIsOwn, GoneIsGone
<1>3. ASSUME NEW s \in Ids, CallJs(s) PROVE SessionsInv'
  <2>t. SessionsTypeOK'
    <3>1. Tail(queue[s]) \in Seq(Nat) BY <1>3 DEF CallJs, SessionsTypeOK
    <3> QED BY <1>3, <3>1 DEF CallJs, SessionsTypeOK
  <2>n. StartsNewest' BY <1>3 DEF CallJs, StartsNewest
  <2>a. StopsOne' BY <1>3 DEF CallJs, StopsOne
  <2>d. GoneIsGone' BY <1>3 DEF CallJs, GoneIsGone, SessionsTypeOK
  <2> QED BY <1>3, <2>t, <2>n, <2>a, <2>d DEF CallJs, OwnDescriptor, LoadedIsOwn
<1>4. ASSUME NEW s \in Ids, WritePty(s) PROVE SessionsInv'
  <2>t. SessionsTypeOK'
    <3>1. js' = [at |-> "write", s |-> s, rest |-> {}] BY <1>4 DEF WritePty
    <3>2. js' \in [at : {"write"}, s : 0 .. MaxId, rest : SUBSET Ids]
      BY <3>1 DEF Ids
    <3> QED BY <1>4, <3>2 DEF WritePty, SessionsTypeOK
  <2>n. StartsNewest' BY <1>4 DEF WritePty, StartsNewest
  <2>a. StopsOne' BY <1>4 DEF WritePty, StopsOne, SessionsTypeOK
  <2> QED BY <1>4, <2>t, <2>n, <2>a DEF WritePty, OwnDescriptor, LoadedIsOwn, GoneIsGone
<1> QED BY <1>1, <1>2, <1>3, <1>4

\* A read thread that lives is of a session in the map, or of the one being stopped.
LEMMA ThreadKeeps ==
  ASSUME SessionsInv, NEW s \in Ids, ReadThread(s) \/ ReadOther(s)
  PROVE  SessionsInv'
<1> USE DEF SessionsInv, Stopping, Open, Unreaped, Starting, ThreadAlive
<1>1. ThreadAlive(s) /\ (s \in sessions \/ Stopping(s))
  BY DEF ReadThread, TestRunning, LoadMaster, CallRead, ReadChunk, ReadEnd, ReadOther, LoadedIsOwn
<1>2. UNCHANGED <<js, nextId, sessions, kind, running, master, owner, heard, worldVars>>
  BY DEF ReadThread, TestRunning, LoadMaster, CallRead, ReadChunk, ReadEnd, ReadOther
<1>3. \/ UNCHANGED queue
      \/ \E chunk \in Nat : Enqueued(s, chunk)
  BY SessionsAssumption DEF ReadThread, TestRunning, LoadMaster, CallRead, ReadChunk, ReadEnd,
     ReadOther, SessionsTypeOK, Stolen
<1>4. queue' \in [Ids -> Seq(Nat)] /\ \A t \in Ids \ {s} : queue'[t] = queue[t]
  <2>1. \A chunk \in Nat : Append(queue[s], chunk) \in Seq(Nat) BY DEF SessionsTypeOK
  <2>2. queue \in [Ids -> Seq(Nat)] BY DEF SessionsTypeOK
  <2> QED BY <1>3, <2>1, <2>2 DEF Enqueued
<1>5. taken' \in [Ids -> Nat] /\ file' \in [Ids -> {Free, Other} \cup Ids]
      /\ thread' \in [Ids -> {"none", "test", "load", "call", "read", "ended"}]
      /\ loaded' \in [Ids -> Descriptors \cup {None}]
  <2> USE DEF SessionsTypeOK
  <2>1. CASE TestRunning(s) BY <2>1 DEF TestRunning
  <2>2. CASE LoadMaster(s) BY <2>2 DEF LoadMaster
  <2>3. CASE CallRead(s) BY <2>3 DEF CallRead, LoadedIsOwn, None
  <2>4. CASE ReadChunk(s) BY <2>4 DEF ReadChunk
  <2>5. CASE ReadEnd(s) BY <2>5 DEF ReadEnd
  <2>6. CASE ReadOther(s) BY <2>6 DEF ReadOther
  <2> QED BY <2>1, <2>2, <2>3, <2>4, <2>5, <2>6 DEF ReadThread
<1>t. SessionsTypeOK' BY <1>2, <1>4, <1>5 DEF SessionsTypeOK, worldVars
<1>n. StartsNewest' BY <1>2 DEF StartsNewest
<1>a. StopsOne' BY <1>2 DEF StopsOne
<1>b. OwnDescriptor' BY <1>2 DEF OwnDescriptor
<1>c. LoadedIsOwn'
  <2>1. CASE TestRunning(s) BY <1>1, <1>2, <2>1 DEF TestRunning, LoadedIsOwn, SessionsTypeOK
  <2>2. CASE LoadMaster(s)
    <3>1. CASE master[s] = None BY <1>1, <1>2, <2>2, <3>1 DEF LoadMaster, LoadedIsOwn, SessionsTypeOK
    <3>2. CASE master[s] # None
      BY <1>1, <1>2, <2>2, <3>2 DEF LoadMaster, LoadedIsOwn, SessionsTypeOK, OwnDescriptor
    <3> QED BY <3>1, <3>2
  <2>3. CASE CallRead(s) BY <1>1, <1>2, <2>3 DEF CallRead, LoadedIsOwn, SessionsTypeOK
  <2>4. CASE ReadChunk(s) \/ ReadEnd(s) \/ ReadOther(s)
    BY <1>1, <1>2, <2>4 DEF ReadChunk, ReadEnd, ReadOther, LoadedIsOwn, SessionsTypeOK
  <2> QED BY <2>1, <2>2, <2>3, <2>4 DEF ReadThread
<1>d. GoneIsGone' BY <1>1, <1>2, <1>4 DEF GoneIsGone, worldVars
<1> QED BY <1>t, <1>n, <1>a, <1>b, <1>c, <1>d

\* The rest of the process opens what is free and closes what is its own.
LEMMA OthersKeep ==
  ASSUME SessionsInv, OtherOpens \/ \E d \in Descriptors : OtherCloses(d)
  PROVE  SessionsInv'
<1> USE DEF SessionsInv
<1>1. PICK d \in Descriptors, f \in {Free, Other} :
        /\ owner[d] \in {Free, Other} /\ owner' = [owner EXCEPT ![d] = f]
  <2>1. CASE OtherOpens
    <3>1. LowestFree \in FreeNumbers
      BY <2>1, LeastIsOne, SessionsAssumption DEF OtherOpens, LowestFree, FreeNumbers
    <3> QED BY <2>1, <3>1 DEF OtherOpens, FreeNumbers
  <2>2. CASE \E d \in Descriptors : OtherCloses(d) BY <2>2 DEF OtherCloses
  <2> QED BY <2>1, <2>2
<1>2. UNCHANGED <<js, nextId, sessions, kind, running, master, thread, loaded, file, taken,
                  queue, heard, shell>>
  BY DEF OtherOpens, OtherCloses, threadVars, worldVars
<1>3. Free \notin Ids /\ Other \notin Ids BY SessionsAssumption DEF Free, Other, Ids
<1> USE DEF Stopping, Open, Unreaped, Starting, ThreadAlive
<1>t. SessionsTypeOK' BY <1>1, <1>2 DEF SessionsTypeOK
<1>n. StartsNewest' BY <1>2 DEF StartsNewest
<1>a. StopsOne' BY <1>2 DEF StopsOne
<1>b. OwnDescriptor'
  <2>1. \A s \in Ids : Open(s) => master[s] # d BY <1>1, <1>3 DEF OwnDescriptor
  <2> QED BY <1>1, <1>2, <1>3, <2>1 DEF OwnDescriptor, SessionsTypeOK
<1>c. LoadedIsOwn' BY <1>1, <1>2 DEF LoadedIsOwn, SessionsTypeOK
<1>d. GoneIsGone' BY <1>2 DEF GoneIsGone
<1> QED BY <1>t, <1>n, <1>a, <1>b, <1>c, <1>d

\* Shells print, exit and leave programs behind; the daemon hangs up.
LEMMA WorldKeeps ==
  ASSUME SessionsInv, NEW s \in Ids,
         Prints(s) \/ ShellExits(s) \/ Background(s) \/ DaemonHangsUp(s)
  PROVE  SessionsInv'
<1> USE DEF SessionsInv, Stopping, Open, Unreaped, Starting, ThreadAlive
<1>1. UNCHANGED <<js, nextId, sessions, kind, running, master, owner, thread, loaded, file,
                  taken, queue, heard>>
  BY DEF Prints, ShellExits, Background, DaemonHangsUp, threadVars
<1>2. \/ UNCHANGED shell
      \/ shell[s] = "running" /\ shell' = [shell EXCEPT ![s] = "zombie"]
  BY DEF Prints, ShellExits, Background, DaemonHangsUp
<1>t. SessionsTypeOK' BY <1>1, <1>2 DEF SessionsTypeOK
<1>n. StartsNewest' BY <1>1 DEF StartsNewest
<1>a. StopsOne' BY <1>1 DEF StopsOne
<1>b. OwnDescriptor' BY <1>1 DEF OwnDescriptor
<1>c. LoadedIsOwn' BY <1>1 DEF LoadedIsOwn
<1>d. GoneIsGone'
  <2>1. CASE UNCHANGED shell BY <1>1, <2>1 DEF GoneIsGone
  <2>2. CASE shell[s] = "running" /\ shell' = [shell EXCEPT ![s] = "zombie"]
    <3>1. \A t \in Ids : shell'[t] = IF t = s THEN "zombie" ELSE shell[t]
      BY <2>2 DEF SessionsTypeOK
    <3>2. kind[s] = "local" /\ Unreaped(s) /\ ~(s >= nextId)
      BY <2>2 DEF GoneIsGone
    <3> QED BY <1>1, <3>1, <3>2 DEF GoneIsGone
  <2> QED BY <1>2, <2>1, <2>2
<1> QED BY <1>t, <1>n, <1>a, <1>b, <1>c, <1>d

LEMMA SessionsInvStep == SessionsInv /\ [Next]_vars => SessionsInv'
<1> SUFFICES ASSUME SessionsInv, [Next]_vars PROVE SessionsInv'
  OBVIOUS
<1>1. CASE UNCHANGED vars
  BY <1>1 DEF vars, threadVars, worldVars, SessionsInv, SessionsTypeOK, StopsOne,
     StartsNewest, OwnDescriptor, LoadedIsOwn, GoneIsGone, Stopping, Open, Unreaped,
     Starting, ThreadAlive
<1>2. CASE js' # js /\ \E k \in {"local", "daemon"} : StartPty(k) BY <1>2, StartKeeps
<1>9. CASE StartSteps
  BY <1>9, ForkOrConnectKeeps, CreateTsfnKeeps, AbandonKeeps DEF StartSteps
<1>3. CASE StopSteps BY <1>3, KillKeeps, CloseKeeps, JoinKeeps DEF StopSteps
<1>4. CASE StopAll \/ \E s \in Ids : StopPty(s) BY <1>4, StopKeeps
<1>5. CASE \/ js' = js /\ \E k \in {"local", "daemon"} : StartPty(k)
           \/ WriteReturns \/ \E s \in Ids : CallJs(s) \/ WritePty(s)
  BY <1>5, JsKeeps
<1>6. CASE \E s \in Ids : ReadThread(s) \/ ReadOther(s) BY <1>6, ThreadKeeps
<1>7. CASE OtherOpens \/ \E d \in Descriptors : OtherCloses(d) BY <1>7, OthersKeep
<1>8. CASE \E s \in Ids : Prints(s) \/ ShellExits(s) \/ Background(s) \/ DaemonHangsUp(s)
  BY <1>8, WorldKeeps
<1> QED BY <1>1, <1>2, <1>3, <1>4, <1>5, <1>6, <1>7, <1>8, <1>9 DEF Next

-----------------------------------------------------------------------------
\* A read thread never outlives its session, and is never in the read() of another
\* session's descriptor, for any number of sessions and descriptors (napi_init.cpp:
\* 105-127, 240-266).
THEOREM ThreadsStayOwn == Spec => []ReadersAreOwn
<1>1. SessionsInv => ReadersAreOwn
  BY DEF SessionsInv, StopsOne, LoadedIsOwn, ReadersAreOwn, Stopping
<1> QED BY SessionsInvInit, SessionsInvStep, <1>1, PTL DEF Spec

\* Once stopPty is through with a session, or startPty gave one up, nothing of it is left,
\* for any number of sessions and descriptors (napi_init.cpp:240-266, 333-433).
THEOREM NothingIsLeft == Spec => []StoppedIsGone
<1>1. ASSUME SessionsInv, NEW s \in Ids \ sessions, s # js.s
      PROVE  /\ shell[s] \in {"none", "reaped"} /\ queue[s] = <<>> /\ ~ThreadAlive(s)
             /\ \A d \in Descriptors : owner[d] # s
  BY <1>1 DEF SessionsInv, OwnDescriptor, LoadedIsOwn, GoneIsGone, Stopping, Open, Unreaped
<1>2. SessionsInv => StoppedIsGone BY <1>1 DEF StoppedIsGone
<1> QED BY SessionsInvInit, SessionsInvStep, <1>2, PTL DEF Spec
-----------------------------------------------------------------------------
(* What the page is promised: the numbers of the chunks on their way grow. *)

\* The chunks of q come after chunk lo, up to chunk hi, in the order of printing.
InOrder(q, lo, hi) ==
  \A i \in DOMAIN q : lo < q[i] /\ q[i] <= hi /\ \A j \in DOMAIN q : i < j => q[i] < q[j]

\* A session in the map reads its own descriptor and queues what it read in order; the
\* chunks of other files are queued for a session that stopPty has in hand only.
OwnInOrder ==
  /\ heard \in [Ids -> Nat] /\ made \in [Ids -> 0 .. MaxChunks]
  /\ \A s \in Ids : s >= nextId =>
       kind[s] = "unborn" /\ made[s] = 0 /\ taken[s] = 0 /\ heard[s] = 0
  /\ \A s \in Ids : heard[s] <= taken[s] /\ taken[s] <= made[s]
  /\ \A s \in sessions :
       /\ thread[s] = "read" => file[s] = s
       /\ InOrder(queue[s], heard[s], taken[s])

ServiceInv == SessionsInv /\ OwnInOrder

\* The oldest chunk is taken off the queue, or a new one put on it.
LEMMA TailInOrder ==
  ASSUME NEW q \in Seq(Nat), q # <<>>, NEW lo \in Nat, NEW hi \in Nat, InOrder(q, lo, hi)
  PROVE  Head(q) \in lo + 1 .. hi /\ InOrder(Tail(q), Head(q), hi)
<1>1. /\ Len(q) \in Nat \ {0} /\ Head(q) = q[1] /\ DOMAIN q = 1 .. Len(q)
      /\ \A i \in 1 .. Len(q) : q[i] \in Nat
  OBVIOUS
<1>2. DOMAIN Tail(q) = 1 .. Len(q) - 1 /\ \A i \in 1 .. Len(q) - 1 : Tail(q)[i] = q[i + 1]
  OBVIOUS
<1> DEFINE t == Tail(q)  h == Head(q)
<1> HIDE DEF t, h
<1>3. \A i \in 1 .. Len(q) : lo < q[i] /\ q[i] <= hi /\ \A j \in 1 .. Len(q) : i < j => q[i] < q[j]
  BY <1>1 DEF InOrder
<1>4. h \in lo + 1 .. hi BY <1>1, <1>3 DEF h
<1>5. ASSUME NEW i \in 1 .. Len(q) - 1
      PROVE  h < t[i] /\ t[i] <= hi /\ \A j \in 1 .. Len(q) - 1 : i < j => t[i] < t[j]
  BY <1>1, <1>2, <1>3 DEF h, t
<1>6. InOrder(t, h, hi) BY <1>2, <1>5 DEF InOrder, t
<1> QED BY <1>4, <1>6 DEF h, t

LEMMA AppendInOrder ==
  ASSUME NEW q \in Seq(Nat), NEW lo \in Nat, NEW hi \in Nat, lo <= hi, InOrder(q, lo, hi)
  PROVE  InOrder(q, lo, hi + 1) /\ InOrder(Append(q, hi + 1), lo, hi + 1)
<1>1. /\ Len(q) \in Nat /\ DOMAIN q = 1 .. Len(q)
      /\ \A i \in 1 .. Len(q) : q[i] \in Nat
  OBVIOUS
<1>2. /\ DOMAIN Append(q, hi + 1) = 1 .. Len(q) + 1
      /\ \A i \in 1 .. Len(q) : Append(q, hi + 1)[i] = q[i]
      /\ Append(q, hi + 1)[Len(q) + 1] = hi + 1
  OBVIOUS
<1> QED BY <1>1, <1>2 DEF InOrder

LEMMA ServiceInvInit == Init => ServiceInv
<1> SUFFICES ASSUME Init PROVE OwnInOrder
  BY SessionsInvInit DEF ServiceInv
<1> QED BY SessionsAssumption DEF Init, OwnInOrder

\* Starting a session: nothing was heard or read under its number, and nothing printed
\* before it has a shell.
LEMMA StartInOrder ==
  ASSUME ServiceInv, StartSteps \/ \E k \in {"local", "daemon"} : StartPty(k)
  PROVE  OwnInOrder'
<1> USE DEF ServiceInv, SessionsInv, OwnInOrder
<1>1. ASSUME NEW k \in {"local", "daemon"}, StartPty(k) PROVE OwnInOrder'
  <2>1. /\ nextId \in Nat /\ nextId' = nextId + 1
        /\ UNCHANGED <<sessions, thread, file, taken, queue, heard, made>>
        /\ UNCHANGED kind \/ kind' = [kind EXCEPT ![nextId] = k]
    BY <1>1 DEF StartPty, SessionsTypeOK, threadVars, worldVars
  <2>2. ASSUME NEW s \in Ids, s >= nextId' PROVE s >= nextId /\ kind'[s] = kind[s]
    <3>1. s >= nextId /\ s # nextId BY <2>1, <2>2 DEF Ids
    <3> QED BY <2>1, <3>1 DEF SessionsTypeOK
  <2> QED BY <2>1, <2>2
<1>2. CASE CreateTsfn /\ js' = Idle
  <2>1. /\ js.s \in Ids \ sessions /\ sessions' = sessions \cup {js.s}
        /\ thread' = [thread EXCEPT ![js.s] = "test"]
        /\ UNCHANGED <<nextId, kind, file, taken, queue, heard, made>>
    BY <1>2 DEF CreateTsfn, StartsNewest, Starting, Idle, worldVars
  <2>2. queue[js.s] = <<>> BY <1>2, <2>1 DEF CreateTsfn, GoneIsGone, Stopping
  <2>3. InOrder(<<>>, heard[js.s], taken[js.s]) BY DEF InOrder
  <2> QED BY <2>1, <2>2, <2>3 DEF SessionsTypeOK
<1>3. CASE StartSteps /\ ~(CreateTsfn /\ js' = Idle)
  <2>1. UNCHANGED <<nextId, sessions, kind, thread, file, taken, queue, heard, made>>
    BY <1>3 DEF StartSteps, ForkShell, Connect, CreateTsfn, AbandonChild, GiveUpStart,
       threadVars, worldVars
  <2> QED BY <2>1
<1> QED BY <1>1, <1>2, <1>3 DEF StartSteps

\* stopPty's steps: the map loses sessions, the queue of one that is out of it is emptied.
LEMMA StopInOrder ==
  ASSUME ServiceInv, StopSteps \/ StopAll \/ \E s \in Ids : StopPty(s) PROVE OwnInOrder'
<1> USE DEF ServiceInv, SessionsInv
<1>1. UNCHANGED <<nextId, kind, made, taken, heard, thread, file>> /\ sessions' \subseteq sessions
  BY DEF StopSteps, KillChild, CloseMaster, JoinAndRelease, StopAll, StopPty, Destroying,
     threadVars, worldVars
<1>2. \A s \in sessions : queue'[s] = queue[s]
  <2>1. CASE JoinAndRelease BY <2>1 DEF JoinAndRelease, StopsOne, SessionsTypeOK
  <2>2. CASE ~JoinAndRelease
    BY <2>2 DEF StopSteps, KillChild, CloseMaster, StopAll, StopPty
  <2> QED BY <2>1, <2>2
<1> QED BY <1>1, <1>2 DEF OwnInOrder

LEMMA JsInOrder ==
  ASSUME ServiceInv,
         WriteReturns \/ \E s \in Ids : CallJs(s) \/ WritePty(s)
  PROVE  OwnInOrder'
<1> USE DEF ServiceInv, SessionsInv
<1>1. CASE WriteReturns \/ \E s \in Ids : WritePty(s)
  <2>1. UNCHANGED <<nextId, sessions, kind, heard, made, taken, thread, file, queue>>
    BY <1>1 DEF WriteReturns, WritePty, threadVars, worldVars
  <2> QED BY <2>1 DEF OwnInOrder
<1>2. ASSUME NEW s \in Ids, CallJs(s) PROVE OwnInOrder'
  <2>1. s \in sessions BY <1>2 DEF CallJs, GoneIsGone, Stopping, Idle
  <2>2. /\ Head(queue[s]) \in heard[s] + 1 .. taken[s]
        /\ InOrder(Tail(queue[s]), Head(queue[s]), taken[s])
    BY <1>2, <2>1, TailInOrder DEF CallJs, OwnInOrder, SessionsTypeOK
  <2>3. s < nextId BY <2>1 DEF StopsOne
  <2>4. heard' = [heard EXCEPT ![s] = Head(queue[s])]
        /\ queue' = [queue EXCEPT ![s] = Tail(@)]
        /\ UNCHANGED <<nextId, sessions, kind, threadVars, worldVars>>
    BY <1>2 DEF CallJs
  <2> QED BY <2>1, <2>2, <2>3, <2>4 DEF OwnInOrder, SessionsTypeOK, threadVars, worldVars
<1> QED BY <1>1, <1>2

LEMMA ThreadInOrder ==
  ASSUME ServiceInv, NEW s \in Ids, ReadThread(s) \/ ReadOther(s) PROVE OwnInOrder'
<1> USE DEF ServiceInv, SessionsInv
<1>1. UNCHANGED <<nextId, sessions, kind, heard, made>>
  BY DEF ReadThread, TestRunning, LoadMaster, CallRead, ReadChunk, ReadEnd, ReadOther, worldVars
<1>2. ThreadAlive(s) /\ s < nextId
  <2>1. ThreadAlive(s)
    BY DEF ThreadAlive, ReadThread, TestRunning, LoadMaster, CallRead, ReadChunk, ReadEnd, ReadOther
  <2> QED BY <2>1 DEF LoadedIsOwn, StopsOne, Stopping
<1>3. CASE TestRunning(s) \/ LoadMaster(s) \/ ReadEnd(s)
  BY <1>1, <1>3 DEF TestRunning, LoadMaster, ReadEnd, OwnInOrder, SessionsTypeOK
<1>4. CASE CallRead(s)
  <2>1. s \in sessions => owner[loaded[s]] = s
    BY <1>4 DEF CallRead, LoadedIsOwn, OwnDescriptor, Open
  <2> QED BY <1>1, <1>4, <2>1 DEF CallRead, OwnInOrder, SessionsTypeOK
<1>5. CASE ReadChunk(s)
  <2>1. /\ taken' = [taken EXCEPT ![s] = @ + 1] /\ taken[s] < made[s]
        /\ Enqueued(s, taken[s] + 1)
        /\ thread' = [thread EXCEPT ![s] = "test"]
        /\ file' = [file EXCEPT ![s] = Free]
    BY <1>5 DEF ReadChunk
  <2>2. ASSUME s \in sessions PROVE InOrder(queue'[s], heard[s], taken[s] + 1)
    <3>1. heard[s] <= taken[s]  BY <2>2 DEF OwnInOrder
    <3> QED BY <2>1, <2>2, <3>1, AppendInOrder DEF OwnInOrder, SessionsTypeOK, Enqueued
  <2>3. \A t \in sessions \ {s} : queue'[t] = queue[t] BY <2>1 DEF Enqueued, SessionsTypeOK
  <2> QED BY <1>1, <1>2, <2>1, <2>2, <2>3 DEF OwnInOrder, SessionsTypeOK
<1>6. CASE ReadOther(s)
  <2>1. s \notin sessions BY <1>6 DEF ReadOther, OwnInOrder
  <2>2. \A t \in sessions : queue'[t] = queue[t]
    BY <1>6, <2>1 DEF ReadOther, Enqueued, SessionsTypeOK
  <2>3. \A t \in sessions : thread'[t] = thread[t] /\ file'[t] = file[t]
    BY <1>6, <2>1 DEF ReadOther, SessionsTypeOK
  <2> QED BY <1>1, <1>6, <2>2, <2>3 DEF ReadOther, OwnInOrder
<1> QED BY <1>3, <1>4, <1>5, <1>6 DEF ReadThread

LEMMA WorldInOrder ==
  ASSUME ServiceInv,
         \/ OtherOpens \/ \E d \in Descriptors : OtherCloses(d)
         \/ \E s \in Ids : Prints(s) \/ ShellExits(s) \/ Background(s) \/ DaemonHangsUp(s)
  PROVE  OwnInOrder'
<1> USE DEF ServiceInv, SessionsInv
<1>1. UNCHANGED <<nextId, sessions, kind, heard, taken, thread, file, queue>>
  BY DEF OtherOpens, OtherCloses, Prints, ShellExits, Background, DaemonHangsUp, threadVars
<1>2. CASE \E s \in Ids : Prints(s)
  <2>1. PICK s \in Ids : Prints(s) BY <1>2
  <2>2. kind[s] # "unborn" /\ made[s] < MaxChunks /\ made' = [made EXCEPT ![s] = @ + 1]
    BY <2>1 DEF Prints, Attached, Connected
  <2>3. \A t \in Ids : made'[t] = IF t = s THEN made[t] + 1 ELSE made[t]
    BY <2>2 DEF OwnInOrder
  <2>4. made' \in [Ids -> 0 .. MaxChunks] BY <2>2, SessionsAssumption DEF OwnInOrder
  <2> QED BY <1>1, <2>2, <2>3, <2>4 DEF OwnInOrder, SessionsTypeOK
<1>3. CASE ~\E s \in Ids : Prints(s)
  <2>1. UNCHANGED made
    BY <1>3 DEF OtherOpens, OtherCloses, ShellExits, Background, DaemonHangsUp, worldVars
  <2> QED BY <1>1, <2>1 DEF OwnInOrder
<1> QED BY <1>2, <1>3

LEMMA ServiceInvStep == ServiceInv /\ [Next]_vars => ServiceInv'
<1> SUFFICES ASSUME ServiceInv, [Next]_vars PROVE OwnInOrder'
  BY SessionsInvStep DEF ServiceInv
<1>1. CASE UNCHANGED vars
  BY <1>1 DEF vars, threadVars, worldVars, ServiceInv, OwnInOrder
<1>2. CASE StartSteps \/ \E k \in {"local", "daemon"} : StartPty(k)
  BY <1>2, StartInOrder
<1>3. CASE StopSteps \/ StopAll \/ \E s \in Ids : StopPty(s) BY <1>3, StopInOrder
<1>4. CASE WriteReturns \/ \E s \in Ids : CallJs(s) \/ WritePty(s)
  BY <1>4, JsInOrder
<1>5. CASE \E s \in Ids : ReadThread(s) \/ ReadOther(s) BY <1>5, ThreadInOrder
<1>6. CASE \/ OtherOpens \/ \E d \in Descriptors : OtherCloses(d)
           \/ \E s \in Ids : Prints(s) \/ ShellExits(s) \/ Background(s) \/ DaemonHangsUp(s)
  BY <1>6, WorldInOrder
<1> QED BY <1>1, <1>2, <1>3, <1>4, <1>5, <1>6 DEF Next

\* A step of the native module is one of the service, or is hidden from the page.
LEMMA SessionsStepServes ==
  ServiceInv /\ [Next]_vars => [Service!ServiceNext]_(Service!serviceVars)
<1> SUFFICES ASSUME ServiceInv, Next, ~UNCHANGED Service!serviceVars
             PROVE  Service!ServiceNext
  BY DEF vars, threadVars, worldVars, Starting, Service!serviceVars
<1> USE DEF ServiceInv, SessionsInv, Service!serviceVars, Service!Ids, Ids
<1> DEFINE next == IF Starting THEN js.s ELSE nextId
<1>0. /\ UNCHANGED <<js, nextId>> => next' = next
      /\ ~Starting /\ ~Starting' /\ UNCHANGED nextId => next' = next
  BY DEF Starting
<1>1. ASSUME NEW k \in {"local", "daemon"}, StartPty(k) PROVE Service!ServiceNext
  <2>1. js = Idle /\ nextId \in Ids /\ nextId' = nextId + 1 /\ UNCHANGED <<sessions, made, heard>>
    BY <1>1 DEF StartPty, worldVars
  <2>2. js' = js \/ js' = [Idle EXCEPT !.at = "start", !.s = nextId]
    BY <1>1 DEF StartPty
  <2>3. js' = js
    <3>1. js' # js => next' = next BY <2>1, <2>2 DEF Starting, Idle
    <3> QED BY <2>1, <3>1
  <2>4. next = nextId /\ next' = nextId + 1 BY <2>1, <2>3 DEF Starting, Idle
  <2> QED BY <2>1, <2>4 DEF Service!ServiceNext, Service!NotStarted
<1>2. CASE StartSteps
  <2>1. /\ Starting /\ js.s \in Ids /\ next = js.s /\ nextId = js.s + 1
        /\ UNCHANGED <<nextId, made, heard>>
    BY <1>2 DEF StartSteps, ForkShell, Connect, CreateTsfn, AbandonChild, GiveUpStart, Starting,
       StartsNewest, worldVars
  <2>2. CASE js' = Idle
    <3>1. next' = js.s + 1 BY <2>1, <2>2 DEF Starting, Idle
    <3>2. sessions' = sessions \/ sessions' = sessions \cup {js.s}
      BY <1>2 DEF StartSteps, ForkShell, Connect, CreateTsfn, AbandonChild, GiveUpStart
    <3> QED BY <2>1, <3>1, <3>2
            DEF Service!ServiceNext, Service!Started, Service!NotStarted
  <2>3. CASE js' # Idle
    <3>1. sessions' = sessions /\ js'.s = js.s /\ Starting'
      BY <1>2, <2>3 DEF StartSteps, ForkShell, Connect, CreateTsfn, AbandonChild, GiveUpStart,
         Starting, SessionsTypeOK
    <3>2. next' = next BY <2>1, <3>1
    <3> QED BY <2>1, <3>1, <3>2
  <2> QED BY <2>2, <2>3
<1>3. ASSUME NEW s \in sessions, sessions' = sessions \ {s}, UNCHANGED <<next, made, heard>>
      PROVE  Service!ServiceNext
  BY <1>3 DEF SessionsTypeOK, Service!ServiceNext, Service!Stop
<1>4. CASE StopAll
  <2>1. sessions # {} /\ sessions \subseteq Nat BY <1>4 DEF StopAll, SessionsTypeOK
  <2>2. Min(sessions) \in sessions BY <2>1, LeastIsOne
  <2>3. next' = next BY <1>0, <1>4 DEF StopAll, Destroying, Starting, Idle
  <2> QED BY <1>3, <1>4, <2>2, <2>3 DEF StopAll, Destroying, worldVars
<1>5. ASSUME NEW s \in Ids, StopPty(s) PROVE Service!ServiceNext
  <2>1. next' = next BY <1>0, <1>5 DEF StopPty, Destroying, Starting, Idle
  <2> QED BY <1>3, <1>5, <2>1 DEF StopPty, Destroying, worldVars
<1>6. CASE StopSteps
  <2>0. next' = next
    BY <1>0, <1>6 DEF StopSteps, KillChild, CloseMaster, JoinAndRelease, Destroying, Starting, Idle,
       SessionsTypeOK
  <2>1. JoinAndRelease /\ js.rest # {}
    BY <1>6, <2>0 DEF StopSteps, KillChild, CloseMaster, JoinAndRelease, worldVars
  <2>2. js.rest \subseteq sessions BY <2>1 DEF JoinAndRelease, StopsOne
  <2>3. Min(js.rest) \in sessions BY <2>1, <2>2, LeastIsOne DEF SessionsTypeOK
  <2> QED BY <1>3, <2>0, <2>1, <2>3 DEF JoinAndRelease, Destroying, worldVars
<1>7. ASSUME NEW s \in Ids, CallJs(s) PROVE Service!ServiceNext
  <2>1. s \in sessions BY <1>7 DEF CallJs, GoneIsGone, Stopping, Idle
  <2>2. Head(queue[s]) \in heard[s] + 1 .. taken[s]
    BY <1>7, <2>1, TailInOrder DEF CallJs, OwnInOrder, SessionsTypeOK
  <2>3. /\ heard[s] \in Nat /\ taken[s] \in Nat /\ made[s] \in 0 .. MaxChunks
        /\ taken[s] <= made[s]
    BY DEF OwnInOrder, SessionsTypeOK
  <2>4. Head(queue[s]) \in heard[s] + 1 .. made[s] /\ Head(queue[s]) \in 1 .. MaxChunks
    BY <2>2, <2>3, SessionsAssumption
  <2>5. next' = next BY <1>0, <1>7 DEF CallJs
  <2> QED BY <1>7, <2>1, <2>4, <2>5 DEF CallJs, worldVars, Service!ServiceNext, Service!Hear
<1>8. ASSUME NEW s \in Ids, Prints(s) PROVE Service!ServiceNext
  <2>1. /\ kind[s] # "unborn" /\ made[s] < MaxChunks
        /\ made' = [made EXCEPT ![s] = @ + 1] /\ UNCHANGED <<js, nextId, sessions, heard>>
    BY <1>8 DEF Prints, Attached, Connected
  <2>2. s < nextId BY <2>1 DEF OwnInOrder, SessionsTypeOK
  <2>3. s <= next BY <2>2 DEF StartsNewest, SessionsTypeOK
  <2>4. next' = next BY <1>0, <2>1
  <2> QED BY <2>1, <2>3, <2>4 DEF Service!ServiceNext, Service!Make
<1>9. UNCHANGED Service!serviceVars
      \/ (\E k \in {"local", "daemon"} : StartPty(k)) \/ StartSteps \/ StopAll \/ StopSteps
      \/ \E s \in Ids : StopPty(s) \/ CallJs(s) \/ Prints(s)
  <2>1. ASSUME WriteReturns \/ \E s \in Ids : WritePty(s) PROVE UNCHANGED Service!serviceVars
    <3>1. UNCHANGED <<nextId, sessions, made, heard>> /\ ~Starting /\ ~Starting'
      <4>1. CASE WriteReturns BY <4>1 DEF WriteReturns, Starting, Idle, worldVars
      <4>2. ASSUME NEW s \in Ids, WritePty(s)
            PROVE  /\ UNCHANGED <<nextId, sessions, made, heard>> /\ js.at = "idle"
                   /\ js'.at = "write"
        BY <4>2 DEF WritePty, Idle, worldVars
      <4> QED BY <2>1, <4>1, <4>2 DEF Starting
    <3> QED BY <1>0, <3>1
  <2>2. ASSUME \/ OtherOpens \/ \E d \in Descriptors : OtherCloses(d)
               \/ \E s \in Ids : \/ ReadThread(s) \/ ReadOther(s) \/ ShellExits(s)
                                  \/ Background(s) \/ DaemonHangsUp(s)
        PROVE  UNCHANGED Service!serviceVars
    <3>1. UNCHANGED <<js, nextId, sessions, made, heard>>
      BY <2>2 DEF OtherOpens, OtherCloses, ReadThread, TestRunning, LoadMaster, CallRead,
         ReadChunk, ReadEnd, ReadOther, ShellExits, Background, DaemonHangsUp, worldVars
    <3> QED BY <1>0, <3>1
  <2> QED BY <2>1, <2>2 DEF Next
<1> QED BY <1>1, <1>2, <1>4, <1>5, <1>6, <1>7, <1>8, <1>9

\* The native module keeps its promise to the page, for any number of sessions, chunks and
\* descriptors and any length of the queue: fresh numbers, the session's own output in the
\* order it was printed, and silence once stopPty has the session (napi_init.cpp:79-127,
\* 240-266, 312-450, 525-586).
THEOREM SessionsServe == Spec => ImplementsService
<1>1. Init => Service!ServiceInit
  BY DEF Init, Starting, Idle, Service!ServiceInit, Service!Ids, Ids
<1> QED BY <1>1, ServiceInvInit, ServiceInvStep, SessionsStepServes, PTL
        DEF Spec, ImplementsService, Service!ServiceSpec
=============================================================================
