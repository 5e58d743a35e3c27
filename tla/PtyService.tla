----------------------------- MODULE PtyService -----------------------------
(***************************************************************************)
(* What the native module libentry.so (kh_terminal, napi_init.cpp) promises *)
(* to the page above it: sessions with fresh numbers, the output of live    *)
(* sessions in order, and silence once a session is stopped.  PtySessions   *)
(* implements it with threads and descriptors; TerminalTabs relies on it.   *)
(***************************************************************************)
EXTENDS Naturals

CONSTANTS MaxId,     \* bound on the session numbers handed out
          MaxChunks  \* bound on the pieces of output of a session

ASSUME ServiceAssumption == MaxId \in Nat /\ MaxChunks \in Nat

Ids == 1 .. MaxId

VARIABLES
  nextId, \* g_next_session_id
  live,   \* the numbers that name a session
  made,   \* made[s]: how many chunks the shell of s has printed
  heard   \* heard[s]: the last of them the callback was given

serviceVars == <<nextId, live, made, heard>>

ServiceInit ==
  /\ nextId = 1 /\ live = {}
  /\ made = [s \in Ids |-> 0] /\ heard = [s \in Ids |-> 0]

\* startPty: the number is consumed whether it succeeds or not.
Started(s) == /\ s = nextId /\ s \in Ids
              /\ nextId' = nextId + 1
              /\ live' = live \cup {s}
              /\ UNCHANGED <<made, heard>>

NotStarted == /\ nextId \in Ids
              /\ nextId' = nextId + 1
              /\ UNCHANGED <<live, made, heard>>

\* Some program on the terminal prints; one may outlive its session, and one may
\* print before startPty has returned the session's number.
Make(s) == /\ s <= nextId /\ made[s] < MaxChunks
           /\ made' = [made EXCEPT ![s] = @ + 1]
           /\ UNCHANGED <<nextId, live, heard>>

\* The callback: chunks may be lost on the way, never repeated or overtaken.
Hear(s, n) == /\ s \in live
              /\ n \in heard[s] + 1 .. made[s]
              /\ heard' = [heard EXCEPT ![s] = n]
              /\ UNCHANGED <<nextId, live, made>>

\* stopPty(s)
Stop(s) == /\ s \in live
           /\ live' = live \ {s}
           /\ UNCHANGED <<nextId, made, heard>>

ServiceNext == \/ NotStarted
               \/ \E s \in Ids : Started(s) \/ Make(s) \/ Stop(s)
               \/ \E s \in Ids, n \in 1 .. MaxChunks : Hear(s, n)

ServiceSpec == ServiceInit /\ [][ServiceNext]_serviceVars
=============================================================================
