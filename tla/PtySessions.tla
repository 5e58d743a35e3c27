----------------------------- MODULE PtySessions -----------------------------
(***************************************************************************)
(* The native side of the terminal app (kh_terminal/.../cpp/napi_init.cpp): *)
(* the sessions, one read thread each, and the JS thread on which every     *)
(* napi function and every callback runs.  A session is a local shell on a  *)
(* pty or a socket to kh_term_daemon.                                       *)
(*                                                                          *)
(* Descriptors are the process's: numbers that close() frees and any open() *)
(* takes again, the lowest first.  master_fd is a plain int which the read  *)
(* thread reads without a lock while the JS thread closes it: the thread    *)
(* may use the number it loaded after the number has become another file's. *)
(***************************************************************************)
EXTENDS Naturals, Sequences, FiniteSetsExt

CONSTANTS
  MaxId,      \* bound on the session numbers handed out
  MaxChunks,  \* bound on the pieces of output of a session
  MaxPrinted, \* bound on the pieces of output of all of them
  QueueSize,  \* kTsfnQueueSize
  Descriptors \* the numbers open() can return

ASSUME SessionsAssumption ==
  /\ MaxId \in Nat /\ MaxChunks \in Nat /\ MaxPrinted \in Nat
  /\ QueueSize \in Nat \ {0}
  /\ Descriptors \subseteq Nat \ {0}

Ids  == 1 .. MaxId
None == 0             \* master_fd = -1
Free == 0             \* nobody's descriptor
Other == MaxId + 1    \* a file some other part of the process opened
Stolen == MaxChunks + 1  \* a chunk read from such a file

VARIABLES
  js,       \* where the JS thread is
  nextId,   \* g_next_session_id
  sessions, \* the numbers in g_sessions
  kind,     \* kind[s]: "local", "daemon" or "unborn"
  running,  \* s->running
  master,   \* s->master_fd
  owner,    \* whose file a descriptor is
  thread,   \* where s->read_thread is
  loaded,   \* the number it loaded from master_fd
  file,     \* whose file its read() is in
  queue,    \* queue[s]: chunks queued on s->tsfn
  heard,    \* heard[s]: the last chunk the callback was given
  shell,    \* shell[s]: the child process
  keepers,  \* sessions of which another program holds the pty's slave open
  hungup,   \* daemon sessions whose stream is over
  made, taken  \* chunks printed, and read from the pty or socket

threadVars == <<thread, loaded, file, taken>>
worldVars  == <<shell, keepers, hungup, made>>
vars == <<js, nextId, sessions, kind, running, master, owner, threadVars,
          queue, heard, worldVars>>

Idle == [at |-> "idle", s |-> 0, rest |-> {}]

Init ==
  /\ js = Idle /\ nextId = 1 /\ sessions = {}
  /\ kind = [s \in Ids |-> "unborn"]
  /\ running = [s \in Ids |-> FALSE]
  /\ master = [s \in Ids |-> None]
  /\ owner = [d \in Descriptors |-> Free]
  /\ thread = [s \in Ids |-> "none"]
  /\ loaded = [s \in Ids |-> None] /\ file = [s \in Ids |-> Free]
  /\ queue = [s \in Ids |-> <<>>] /\ heard = [s \in Ids |-> 0]
  /\ shell = [s \in Ids |-> "none"] /\ keepers = {} /\ hungup = {}
  /\ made = [s \in Ids |-> 0] /\ taken = [s \in Ids |-> 0]

FreeNumbers == {d \in Descriptors : owner[d] = Free}
LowestFree  == Min(FreeNumbers)

-----------------------------------------------------------------------------
(* The JS thread: napi functions and callbacks, one at a time. *)

\* startPty takes a number first, so that a failure consumes it, and then a
\* descriptor: a socket, or the master of a pty.  There may be none to have.
StartPty(k) ==
  /\ js = Idle /\ nextId \in Ids
  /\ nextId' = nextId + 1
  /\ \/ /\ FreeNumbers # {}
        /\ js' = [Idle EXCEPT !.at = "start", !.s = nextId]
        /\ kind' = [kind EXCEPT ![nextId] = k]
        /\ master' = [master EXCEPT ![nextId] = LowestFree]
        /\ owner' = [owner EXCEPT ![LowestFree] = nextId]
     \/ UNCHANGED <<js, kind, master, owner>>
  /\ UNCHANGED <<sessions, running, threadVars, queue, heard, worldVars>>

\* grantpt, unlockpt and ptsname, then fork or, where that fails, posix_spawn.
ForkShell ==
  /\ js.at = "start" /\ kind[js.s] = "local"
  /\ \/ /\ shell' = [shell EXCEPT ![js.s] = "running"]
        /\ js' = [js EXCEPT !.at = "tsfn"]
     \/ js' = [js EXCEPT !.at = "giveup"] /\ UNCHANGED shell
  /\ UNCHANGED <<nextId, sessions, kind, running, master, owner, threadVars, queue,
                 heard, keepers, hungup, made>>

\* Without a daemon there is no stream.
Connect ==
  /\ js.at = "start" /\ kind[js.s] = "daemon"
  /\ \/ js' = [js EXCEPT !.at = "tsfn"] /\ UNCHANGED hungup
     \/ js' = [js EXCEPT !.at = "giveup"] /\ hungup' = hungup \cup {js.s}
  /\ UNCHANGED <<nextId, sessions, kind, running, master, owner, threadVars, queue,
                 heard, shell, keepers, made>>

\* With its threadsafe function the session goes into the map, and its read
\* thread starts.  Without it a child that runs already has to go.
CreateTsfnOrClose ==  \* mutant: the failing path forgets the child
  /\ js.at = "tsfn"
  /\ \/ /\ running' = [running EXCEPT ![js.s] = TRUE]
        /\ sessions' = sessions \cup {js.s}
        /\ thread' = [thread EXCEPT ![js.s] = "test"]
        /\ js' = Idle
     \/ /\ js' = [js EXCEPT !.at = "giveup"]
        /\ UNCHANGED <<running, sessions, thread>>
  /\ UNCHANGED <<nextId, kind, master, owner, loaded, file, taken, queue, heard,
                 worldVars>>

CreateTsfn ==
  /\ js.at = "tsfn"
  /\ \/ /\ running' = [running EXCEPT ![js.s] = TRUE]
        /\ sessions' = sessions \cup {js.s}
        /\ thread' = [thread EXCEPT ![js.s] = "test"]
        /\ js' = Idle
     \/ /\ js' = [js EXCEPT !.at = IF kind[js.s] = "local" THEN "abandon" ELSE "giveup"]
        /\ UNCHANGED <<running, sessions, thread>>
  /\ UNCHANGED <<nextId, kind, master, owner, loaded, file, taken, queue, heard,
                 worldVars>>

\* SIGKILL and waitpid.
AbandonChild ==
  /\ js.at = "abandon"
  /\ shell' = [shell EXCEPT ![js.s] = "reaped"]
  /\ js' = [js EXCEPT !.at = "giveup"]
  /\ UNCHANGED <<nextId, sessions, kind, running, master, owner, threadVars, queue,
                 heard, keepers, hungup, made>>

\* startPty returns -1; the daemon's end sees the socket closed.
GiveUpStart ==
  /\ js.at = "giveup"
  /\ hungup' = IF kind[js.s] = "daemon" THEN hungup \cup {js.s} ELSE hungup
  /\ owner' = [owner EXCEPT ![master[js.s]] = Free]
  /\ master' = [master EXCEPT ![js.s] = None]
  /\ js' = Idle
  /\ UNCHANGED <<nextId, sessions, kind, running, threadVars, queue, heard, shell,
                 keepers, made>>

\* The event loop runs the callback for the oldest chunk of some session.
CallJs(s) ==
  /\ js = Idle /\ queue[s] # <<>>
  /\ heard' = [heard EXCEPT ![s] = Head(queue[s])]
  /\ queue' = [queue EXCEPT ![s] = Tail(@)]
  /\ UNCHANGED <<js, nextId, sessions, kind, running, master, owner, threadVars,
                 worldVars>>

\* Is the terminal's other end still there?
SlaveOpen(s) == shell[s] = "running" \/ s \in keepers
StreamOver(s) == IF kind[s] = "local" THEN ~SlaveOpen(s) ELSE s \in hungup

\* writePty: write() blocks as long as the other end holds as much as it can.
WritePty(s) ==
  /\ js = Idle /\ s \in sessions
  /\ js' = [Idle EXCEPT !.at = "write", !.s = s]
  /\ UNCHANGED <<nextId, sessions, kind, running, master, owner, threadVars,
                 queue, heard, worldVars>>

WriteReturns ==
  /\ js.at = "write"
  /\ js' = Idle
  /\ UNCHANGED <<nextId, sessions, kind, running, master, owner, threadVars,
                 queue, heard, worldVars>>

\* stopPty erases the session from the map and destroys it; with no argument
\* or a negative one it does so for each session there is, in their order.
Destroying(s, rest) ==
  /\ sessions' = sessions \ {s}
  /\ js' = [at |-> "kill", s |-> s, rest |-> rest]

StopPty(s) ==
  /\ js = Idle /\ s \in sessions
  /\ Destroying(s, {})
  /\ UNCHANGED <<nextId, kind, running, master, owner, threadVars, queue, heard,
                 worldVars>>

StopAll ==
  /\ js = Idle /\ sessions # {}
  /\ Destroying(Min(sessions), sessions \ {Min(sessions)})
  /\ UNCHANGED <<nextId, kind, running, master, owner, threadVars, queue, heard,
                 worldVars>>

\* destroy_session_locked, on the JS thread: running = false, then a local
\* child is killed and waited for.
KillChildNoWait ==  \* mutant: no waitpid
  /\ js.at = "kill"
  /\ running' = [running EXCEPT ![js.s] = FALSE]
  /\ shell' = [shell EXCEPT ![js.s] = IF @ = "running" THEN "zombie" ELSE @]
  /\ js' = [js EXCEPT !.at = "close"]
  /\ UNCHANGED <<nextId, sessions, kind, master, owner, threadVars, queue, heard,
                 keepers, hungup, made>>

KillChild ==
  /\ js.at = "kill"
  /\ running' = [running EXCEPT ![js.s] = FALSE]
  /\ shell' = [shell EXCEPT ![js.s] = IF kind[js.s] = "local" THEN "reaped" ELSE @]
  /\ js' = [js EXCEPT !.at = "close"]
  /\ UNCHANGED <<nextId, sessions, kind, master, owner, threadVars, queue, heard,
                 keepers, hungup, made>>

CloseWithoutShutdown ==  \* mutant
  /\ js.at = "close"
  /\ owner' = [owner EXCEPT ![master[js.s]] = Free]
  /\ master' = [master EXCEPT ![js.s] = None]
  /\ js' = [js EXCEPT !.at = "join"]
  /\ UNCHANGED <<nextId, sessions, kind, running, threadVars, queue, heard,
                 worldVars>>

\* A socket is shut down, which ends a read() in progress; then close().
CloseMaster ==
  /\ js.at = "close"
  /\ hungup' = IF kind[js.s] = "daemon" THEN hungup \cup {js.s} ELSE hungup
  /\ owner' = [owner EXCEPT ![master[js.s]] = Free]
  /\ master' = [master EXCEPT ![js.s] = None]
  /\ js' = [js EXCEPT !.at = "join"]
  /\ UNCHANGED <<nextId, sessions, kind, running, threadVars, queue, heard,
                 shell, keepers, made>>

\* join, then release with napi_tsfn_abort: queued chunks are never delivered.
\* stopPty goes on with the next session it noted, or returns.
ReleaseWithoutJoin ==  \* mutant: detach()
  /\ js.at = "join"
  /\ queue' = [queue EXCEPT ![js.s] = <<>>]
  /\ js' = Idle
  /\ UNCHANGED <<nextId, sessions, kind, running, master, owner, threadVars,
                 heard, worldVars>>

ReleaseWithoutAbort ==  \* mutant: napi_tsfn_release
  /\ js.at = "join" /\ thread[js.s] = "ended"
  /\ js' = Idle
  /\ UNCHANGED <<nextId, sessions, kind, running, master, owner, threadVars,
                 queue, heard, worldVars>>

JoinAndRelease ==
  /\ js.at = "join" /\ thread[js.s] = "ended"
  /\ queue' = [queue EXCEPT ![js.s] = <<>>]
  /\ IF js.rest = {}
       THEN js' = Idle /\ UNCHANGED sessions
       ELSE Destroying(Min(js.rest), js.rest \ {Min(js.rest)})
  /\ UNCHANGED <<nextId, kind, running, master, owner, threadVars, heard,
                 worldVars>>

-----------------------------------------------------------------------------
(* ReadThreadWorker of session s. *)

TestRunning(s) ==
  /\ thread[s] = "test"
  /\ thread' = [thread EXCEPT ![s] = IF running[s] THEN "load" ELSE "ended"]
  /\ UNCHANGED <<js, nextId, sessions, kind, running, master, owner, loaded, file,
                 taken, queue, heard, worldVars>>

LoadMaster(s) ==
  /\ thread[s] = "load"
  /\ loaded' = [loaded EXCEPT ![s] = master[s]]
  /\ thread' = [thread EXCEPT ![s] = IF master[s] = None THEN "ended" ELSE "call"]
  /\ UNCHANGED <<js, nextId, sessions, kind, running, master, owner, file, taken,
                 queue, heard, worldVars>>

\* read() finds the file by its number, and keeps it to the end.
CallRead(s) ==
  /\ thread[s] = "call"
  /\ file' = [file EXCEPT ![s] = owner[loaded[s]]]
  /\ thread' = [thread EXCEPT ![s] =
                  IF owner[loaded[s]] = Free THEN "ended" ELSE "read"]
  /\ loaded' = [loaded EXCEPT ![s] = None]
  /\ UNCHANGED <<js, nextId, sessions, kind, running, master, owner, taken, queue,
                 heard, worldVars>>

Enqueued(s, chunk) ==
  queue' = [queue EXCEPT ![s] = IF Len(@) < QueueSize THEN Append(@, chunk) ELSE @]

\* The chunk goes to the queue, or is dropped when the queue is full.
ReadChunk(s) ==
  /\ thread[s] = "read" /\ file[s] = s /\ taken[s] < made[s]
  /\ taken' = [taken EXCEPT ![s] = @ + 1]
  /\ Enqueued(s, taken[s] + 1)
  /\ thread' = [thread EXCEPT ![s] = "test"]
  /\ file' = [file EXCEPT ![s] = Free]
  /\ UNCHANGED <<js, nextId, sessions, kind, running, master, owner, loaded,
                 heard, worldVars>>

ReadEnd(s) ==
  /\ thread[s] = "read" /\ file[s] = s
  /\ taken[s] = made[s] /\ StreamOver(s)
  /\ thread' = [thread EXCEPT ![s] = "ended"]
  /\ file' = [file EXCEPT ![s] = Free]
  /\ UNCHANGED <<js, nextId, sessions, kind, running, master, owner, loaded, taken,
                 queue, heard, worldVars>>

\* The number has become another file's: its data is taken, or it ends.
ReadOther(s) ==
  /\ thread[s] = "read" /\ file[s] # s
  /\ \/ Enqueued(s, Stolen) /\ thread' = [thread EXCEPT ![s] = "test"]
     \/ thread' = [thread EXCEPT ![s] = "ended"] /\ UNCHANGED queue
  /\ file' = [file EXCEPT ![s] = Free]
  /\ UNCHANGED <<js, nextId, sessions, kind, running, master, owner, loaded, taken,
                 heard, worldVars>>

ReadThread(s) == TestRunning(s) \/ LoadMaster(s) \/ CallRead(s) \/ ReadChunk(s)
                 \/ ReadEnd(s)

-----------------------------------------------------------------------------
(* The rest of the process, the shells and the daemon. *)

OtherOpens ==
  /\ FreeNumbers # {}
  /\ owner' = [owner EXCEPT ![LowestFree] = Other]
  /\ UNCHANGED <<js, nextId, sessions, kind, running, master, threadVars, queue,
                 heard, worldVars>>

OtherCloses(d) ==
  /\ owner[d] = Other
  /\ owner' = [owner EXCEPT ![d] = Free]
  /\ UNCHANGED <<js, nextId, sessions, kind, running, master, threadVars, queue,
                 heard, worldVars>>

Connected(s) == kind[s] = "daemon" /\ s \notin hungup /\ ~(js.at = "start" /\ js.s = s)
Attached(s)  == Connected(s) \/ (kind[s] = "local" /\ SlaveOpen(s))

Prints(s) ==
  /\ Attached(s) /\ made[s] < MaxChunks
  /\ MapThenSumSet(LAMBDA i : made[i], Ids) < MaxPrinted
  /\ made' = [made EXCEPT ![s] = @ + 1]
  /\ UNCHANGED <<js, nextId, sessions, kind, running, master, owner, threadVars,
                 queue, heard, shell, keepers, hungup>>

\* The shell exits; its status waits for stopPty's waitpid.
ShellExits(s) ==
  /\ shell[s] = "running"
  /\ shell' = [shell EXCEPT ![s] = "zombie"]
  /\ UNCHANGED <<js, nextId, sessions, kind, running, master, owner, threadVars,
                 queue, heard, keepers, hungup, made>>

\* A program started in the background keeps the slave open, for a while.
Background(s) ==
  /\ \/ shell[s] = "running" /\ keepers' = keepers \cup {s}
     \/ s \in keepers /\ keepers' = keepers \ {s}
  /\ UNCHANGED <<js, nextId, sessions, kind, running, master, owner, threadVars,
                 queue, heard, shell, hungup, made>>

\* kh_term_daemon's connection process ends.
DaemonHangsUp(s) ==
  /\ Connected(s)
  /\ hungup' = hungup \cup {s}
  /\ UNCHANGED <<js, nextId, sessions, kind, running, master, owner, threadVars,
                 queue, heard, shell, keepers, made>>

-----------------------------------------------------------------------------
StartSteps == ForkShell \/ Connect \/ CreateTsfn \/ AbandonChild \/ GiveUpStart
StopSteps == KillChild \/ CloseMaster \/ JoinAndRelease

Next ==
  \/ \E k \in {"local", "daemon"} : StartPty(k)
  \/ StartSteps \/ StopAll \/ StopSteps \/ WriteReturns \/ OtherOpens
  \/ \E s \in Ids : \/ CallJs(s) \/ WritePty(s) \/ StopPty(s)
                    \/ ReadThread(s) \/ ReadOther(s)
                    \/ Prints(s) \/ ShellExits(s) \/ Background(s)
                    \/ DaemonHangsUp(s)
  \/ \E d \in Descriptors : OtherCloses(d)

Spec == Init /\ [][Next]_vars

\* The threads run, and kh_term_daemon drains its socket (KhTermSession's
\* RelayDrains).  Nothing obliges a local program to read its terminal or to
\* end, or some other file that a thread reads by mistake to have data.
FairSpec ==
  /\ Spec
  /\ WF_vars(StartSteps) /\ WF_vars(StopSteps)
  /\ \A s \in Ids : WF_vars(ReadThread(s))
  /\ WF_vars(WriteReturns /\ (kind[js.s] = "daemon" \/ StreamOver(js.s)))
-----------------------------------------------------------------------------
(* Properties. *)

ThreadAlive(s) == thread[s] \notin {"none", "ended"}

\* A read thread never outlives its session object, and the file it is in is
\* never another session's, although it loads master_fd without a lock: the JS
\* thread joins it (napi_init.cpp:259-261) before it can start or free another.
ReadersAreOwn ==
  \A s \in Ids : ThreadAlive(s) =>
    /\ s \in sessions \/ (js.at \in {"kill", "close", "join"} /\ js.s = s)
    /\ thread[s] = "read" => file[s] \in {s, Other}

\* Once stopPty is through with a session, or startPty gave one up, its child is
\* reaped, its descriptor closed, its thread ended and its queue empty
\* (napi_init.cpp:240-266 and the failures of 333-433).
StoppedIsGone ==
  \A s \in Ids \ sessions : s < nextId /\ s # js.s /\ s \notin js.rest =>
    /\ shell[s] \in {"none", "reaped"}
    /\ s \notin {owner[d] : d \in Descriptors}
    /\ ~ThreadAlive(s) /\ queue[s] = <<>>

\* The service the page relies on: fresh numbers, the session's own output in
\* order and no callback once stopPty took the session out of the map.  A chunk
\* of another file that a thread read by mistake is never heard.  A number counts
\* as handed out when startPty returns.
Starting == js.at \in {"start", "tsfn", "abandon", "giveup"}
Service == INSTANCE PtyService WITH
  nextId <- (IF Starting THEN js.s ELSE nextId), live <- sessions
ImplementsService == Service!ServiceSpec

\* The app's only UI thread comes back from startPty, writePty and stopPty, unless a local
\* program does not read its terminal, a background program holds the slave of a
\* session being stopped, or the thread fell into some other file's read().
Excused ==
  \/ js.at = "write" /\ kind[js.s] = "local"
  \/ js.at = "join" /\ (js.s \in keepers \/ file[js.s] = Other)
UiReturns == js.at # "idle" ~> (js.at = "idle" \/ Excused)
=============================================================================
