---------------------------- MODULE KhTermSession ----------------------------
(***************************************************************************)
(* One terminal session: a client on the abstract socket \0kh_term_socket, *)
(* the kh_term_daemon process forked for its connection, and the shell on  *)
(* the pty behind it (khsl/kh_term_daemon/main.cpp; the interactive client *)
(* of khsl/khsl/main.c).                                                   *)
(*                                                                         *)
(* Typed keys are the numbers 1, 2, 3 ... in the order they are typed and  *)
(* so are the bytes the shell prints; the bytes of the window size that a  *)
(* khsl client sends first are all WSB.  Reads take what is there, up to   *)
(* BufSize bytes; the connection process writes without blocking, so that  *)
(* a write keeps the bytes that fit and the code drops the others.         *)
(***************************************************************************)
EXTENDS Naturals, Sequences

CONSTANTS
  MaxKeys,      \* bound on the keys typed
  MaxPrinted,   \* bound on the bytes the shell prints
  SockCap,      \* bytes a direction of the unix socket holds
  PtyCap,       \* bytes a direction of the pty holds
  BufSize,      \* char buffer[4096] of the relay loop
  WsLen,        \* sizeof(struct winsize)
  SendsWinsize  \* the client sends its window size first (khsl does)

ASSUME SessionAssumption ==
  /\ MaxKeys \in Nat /\ MaxPrinted \in Nat
  /\ {SockCap, PtyCap, BufSize, WsLen} \subseteq Nat \ {0}
  /\ SockCap >= WsLen
  /\ SendsWinsize \in BOOLEAN

WSB == 0

VARIABLES
  client,   \* "hello" (connected), "up" (relaying) or "closed"
  typed,    \* keys the client wrote to the socket
  shown,    \* bytes the client read from it
  c2d, d2c, \* the socket's two directions
  conn,     \* where the connection process is
  winsize,  \* what it took as the initial window size
  running,  \* its loop flag
  ready,    \* the descriptors with POLLIN after the last poll
  buf,      \* its buffer
  eagain,   \* errno = EAGAIN, of whichever call failed last
  ptyIn, ptyOut, \* the pty's two directions
  shell,    \* "none", "running", "exited" or "killed"
  got,      \* bytes the shell read
  printed   \* bytes the shell printed

clientVars == <<client, typed, shown>>
connVars   == <<conn, winsize, running, ready, buf, eagain>>
shellVars  == <<shell, got, printed>>
vars == <<clientVars, c2d, d2c, connVars, ptyIn, ptyOut, shellVars>>

ConnOver == conn \in {"done", "sigpipe"}  \* its descriptors are closed

\* What a non-blocking write into a queue keeps: the bytes that fit.
Least(a, b) == IF a <= b THEN a ELSE b
Fits(bytes, queue, cap) == Least(Len(bytes), cap - Len(queue))
Upto(s, n) == SubSeq(s, 1, n)
After(s, n) == SubSeq(s, n + 1, Len(s))

\* What read(fd, buffer, sizeof(buffer)) takes of a queue.
ReadSizePastBuffer(queue) == Least(BufSize + 1, Len(queue))  \* mutant
ReadSize(queue) == Least(BufSize, Len(queue))

Init ==
  /\ client = (IF SendsWinsize THEN "hello" ELSE "up")
  /\ typed = 0 /\ shown = <<>>
  /\ c2d = <<>> /\ d2c = <<>> /\ ptyIn = <<>> /\ ptyOut = <<>>
  /\ conn = "winsize" /\ winsize = "unset" /\ running = TRUE
  /\ ready = {} /\ buf = <<>> /\ eagain = FALSE
  /\ shell = "none" /\ got = <<>> /\ printed = 0

-----------------------------------------------------------------------------
(* The client.  Its socket is blocking: a write waits for room.  A write to a
   socket the daemon closed kills it (SIGPIPE), as ClientLeave does. *)

ClientHelloShort ==  \* mutant: the two ends disagree on the struct's size
  /\ client = "hello" /\ ~ConnOver
  /\ c2d' = c2d \o [i \in 1 .. WsLen - 1 |-> WSB]
  /\ client' = "up"
  /\ UNCHANGED <<typed, shown, d2c, connVars, ptyIn, ptyOut, shellVars>>

ClientHello ==
  /\ client = "hello" /\ ~ConnOver
  /\ c2d' = c2d \o [i \in 1 .. WsLen |-> WSB]
  /\ client' = "up"
  /\ UNCHANGED <<typed, shown, d2c, connVars, ptyIn, ptyOut, shellVars>>

ClientType ==
  /\ client = "up" /\ ~ConnOver
  /\ typed < MaxKeys /\ Len(c2d) < SockCap
  /\ typed' = typed + 1
  /\ c2d' = Append(c2d, typed')
  /\ UNCHANGED <<client, shown, d2c, connVars, ptyIn, ptyOut, shellVars>>

ClientShow ==
  /\ client = "up" /\ d2c # <<>>
  /\ shown' = Append(shown, Head(d2c))
  /\ d2c' = Tail(d2c)
  /\ UNCHANGED <<client, typed, c2d, connVars, ptyIn, ptyOut, shellVars>>

\* End of file on the socket: the relay loop breaks and the client returns.
ClientSeesEnd ==
  /\ client = "up" /\ ConnOver /\ d2c = <<>>
  /\ client' = "closed"
  /\ UNCHANGED <<typed, shown, c2d, d2c, connVars, ptyIn, ptyOut, shellVars>>

\* The window is closed, stdin ends, or the client is killed.
ClientLeave ==
  /\ client # "closed"
  /\ client' = "closed"
  /\ UNCHANGED <<typed, shown, c2d, d2c, connVars, ptyIn, ptyOut, shellVars>>

-----------------------------------------------------------------------------
(* The connection process, up to the fork of the shell. *)

\* A blocking read of WsLen bytes: whatever is there, of whatever kind.
ReadWinsize ==
  /\ conn = "winsize"
  /\ c2d # <<>> \/ client = "closed"
  /\ LET n == Least(WsLen, Len(c2d)) IN
     /\ c2d' = After(c2d, n)
     /\ winsize' = IF n < WsLen THEN "default"
                   ELSE IF \A i \in 1 .. n : c2d[i] = WSB THEN "client"
                   ELSE "garbage"
  /\ conn' = "fork"
  /\ UNCHANGED <<clientVars, d2c, running, ready, buf, eagain, ptyIn, ptyOut,
                 shellVars>>

ForkPty ==
  /\ conn = "fork"
  /\ \/ conn' = "poll" /\ shell' = "running"
     \/ conn' = "done" /\ UNCHANGED shell   \* forkpty failed: close, exit(1)
  /\ UNCHANGED <<clientVars, c2d, d2c, winsize, running, ready, buf, eagain,
                 ptyIn, ptyOut, got, printed>>

-----------------------------------------------------------------------------
(* The relay loop. *)

ShellGone == shell \in {"exited", "killed"}

\* poll() also returns for POLLHUP, which a pty master raises for ever, and
\* without POLLIN, once the last slave is closed; the loop looks only at POLLIN.
Poll ==
  /\ conn = "poll" /\ running
  /\ c2d # <<>> \/ client = "closed" \/ ptyOut # <<>> \/ ShellGone
  /\ ready' = {fd \in {"client", "master"} :
                 \/ fd = "client" /\ (c2d # <<>> \/ client = "closed")
                 \/ fd = "master" /\ ptyOut # <<>>}
  /\ conn' = "readClient"
  /\ UNCHANGED <<clientVars, c2d, d2c, winsize, running, buf, eagain, ptyIn,
                 ptyOut, shellVars>>

\* n <= 0 ends the loop only if errno is not EAGAIN.  read() = 0 leaves errno
\* alone, so at the client's end of file it is the errno of an earlier call.
EofIgnored == TRUE  \* mutant: only n < 0 ends the loop
EofMistakenForRetry == eagain

\* A client that closed with unread output may give ECONNRESET instead.
ReadClient ==
  /\ conn = "readClient"
  /\ \/ /\ "client" \in ready /\ c2d # <<>>
        /\ buf' = Upto(c2d, ReadSize(c2d))
        /\ c2d' = After(c2d, ReadSize(c2d))
        /\ conn' = "writePty"
        /\ UNCHANGED <<running, eagain>>
     \/ /\ "client" \in ready /\ c2d = <<>>
        /\ \/ running' = (running /\ EofMistakenForRetry) /\ UNCHANGED eagain
           \/ d2c # <<>> /\ running' = FALSE /\ eagain' = FALSE
        /\ conn' = "readPty"
        /\ UNCHANGED <<buf, c2d>>
     \/ /\ "client" \notin ready
        /\ conn' = "readPty"
        /\ UNCHANGED <<buf, c2d, running, eagain>>
  /\ UNCHANGED <<clientVars, d2c, winsize, ready, ptyIn, ptyOut, shellVars>>

\* write(master_fd): what does not fit is dropped; with no room at all it fails
\* with EAGAIN, and with no slave left open with EIO.  The result is ignored.
WritePtyBlocking ==  \* mutant: the master without O_NONBLOCK
  /\ conn = "writePty"
  /\ ShellGone \/ Len(ptyIn) + Len(buf) <= PtyCap
  /\ ptyIn' = IF ShellGone THEN ptyIn ELSE ptyIn \o buf
  /\ buf' = <<>>
  /\ conn' = "readPty"
  /\ UNCHANGED <<clientVars, c2d, d2c, winsize, running, ready, eagain, ptyOut,
                 shellVars>>

WritePty ==
  /\ conn = "writePty"
  /\ IF ShellGone
       THEN eagain' = FALSE /\ UNCHANGED ptyIn
       ELSE LET n == Fits(buf, ptyIn, PtyCap) IN
            /\ ptyIn' = ptyIn \o Upto(buf, n)
            /\ eagain' = (eagain \/ n = 0)
  /\ buf' = <<>>
  /\ conn' = "readPty"
  /\ UNCHANGED <<clientVars, c2d, d2c, winsize, running, ready, ptyOut, shellVars>>

ReadPty ==
  /\ conn = "readPty"
  /\ IF "master" \in ready
       THEN /\ buf' = Upto(ptyOut, ReadSize(ptyOut))
            /\ ptyOut' = After(ptyOut, ReadSize(ptyOut))
            /\ conn' = "writeClient"
       ELSE /\ conn' = "poll"
            /\ UNCHANGED <<buf, ptyOut>>
  /\ UNCHANGED <<clientVars, c2d, d2c, winsize, running, ready, eagain, ptyIn,
                 shellVars>>

WriteClientOneShort ==  \* mutant: n - 1 bytes of the buffer are written
  /\ conn = "writeClient"
  /\ buf' = <<>>
  /\ IF client = "closed"
       THEN conn' = "sigpipe" /\ UNCHANGED <<d2c, eagain>>
       ELSE LET n == Fits(Upto(buf, Len(buf) - 1), d2c, SockCap) IN
            /\ d2c' = d2c \o Upto(buf, n)
            /\ eagain' = (eagain \/ n = 0)
            /\ conn' = "poll"
  /\ UNCHANGED <<clientVars, c2d, winsize, running, ready, ptyIn, ptyOut,
                 shellVars>>

\* write(client_fd): as WritePty; SIGPIPE is not ignored, so that writing to a
\* closed client kills the process before it could kill and reap the shell.
WriteClient ==
  /\ conn = "writeClient"
  /\ buf' = <<>>
  /\ IF client = "closed"
       THEN conn' = "sigpipe" /\ UNCHANGED <<d2c, eagain>>
       ELSE LET n == Fits(buf, d2c, SockCap) IN
            /\ d2c' = d2c \o Upto(buf, n)
            /\ eagain' = (eagain \/ n = 0)
            /\ conn' = "poll"
  /\ UNCHANGED <<clientVars, c2d, winsize, running, ready, ptyIn, ptyOut,
                 shellVars>>

\* After the loop: close both, SIGKILL the shell, wait for it, exit.
EndSession ==
  /\ conn = "poll" /\ ~running
  /\ conn' = "done"
  /\ shell' = IF shell = "running" THEN "killed" ELSE shell
  /\ UNCHANGED <<clientVars, c2d, d2c, winsize, running, ready, buf, eagain,
                 ptyIn, ptyOut, got, printed>>

-----------------------------------------------------------------------------
(* The shell, with the programs it runs. *)

ShellRead ==
  /\ shell = "running" /\ ~ConnOver /\ ptyIn # <<>>
  /\ got' = Append(got, Head(ptyIn))
  /\ ptyIn' = Tail(ptyIn)
  /\ UNCHANGED <<clientVars, c2d, d2c, connVars, ptyOut, shell, printed>>

ShellPrint ==
  /\ shell = "running" /\ ~ConnOver
  /\ printed < MaxPrinted /\ Len(ptyOut) < PtyCap
  /\ printed' = printed + 1
  /\ ptyOut' = Append(ptyOut, printed')
  /\ UNCHANGED <<clientVars, c2d, d2c, connVars, ptyIn, shell, got>>

\* `exit', or the end of the program exec'ed in its place.
ShellExit ==
  /\ shell = "running" /\ ~ConnOver
  /\ shell' = "exited"
  /\ UNCHANGED <<clientVars, c2d, d2c, connVars, ptyIn, ptyOut, got, printed>>

\* The master is closed while the shell runs: the kernel hangs the pty up.
HangUp ==
  /\ shell = "running" /\ ConnOver
  /\ shell' = "exited"
  /\ UNCHANGED <<clientVars, c2d, d2c, connVars, ptyIn, ptyOut, got, printed>>

-----------------------------------------------------------------------------
Client == ClientHello \/ ClientType \/ ClientShow \/ ClientSeesEnd \/ ClientLeave
Relay  == Poll \/ ReadClient \/ WritePty \/ ReadPty \/ WriteClient \/ EndSession
Conn   == ReadWinsize \/ ForkPty \/ Relay
Shell  == ShellRead \/ ShellPrint \/ ShellExit \/ HangUp

Next == Client \/ Conn \/ Shell

Spec == Init /\ [][Next]_vars

\* The kernel schedules the connection process, hangs a closed pty up, and
\* the client's own loop sees the end of its socket.  Nothing obliges a user
\* to type or to leave, or a program to read, print or exit.
FairSpec == /\ Spec
            /\ WF_vars(Conn)
            /\ WF_vars(HangUp)
            /\ WF_vars(ClientShow) /\ WF_vars(ClientSeesEnd)
-----------------------------------------------------------------------------
(* Properties. *)

TypeOK ==
  /\ client \in {"hello", "up", "closed"}
  /\ typed \in 0 .. MaxKeys /\ printed \in 0 .. MaxPrinted
  /\ c2d \in Seq(0 .. MaxKeys) /\ Len(c2d) <= SockCap
  /\ d2c \in Seq(1 .. MaxPrinted) /\ Len(d2c) <= SockCap
  /\ ptyIn \in Seq(0 .. MaxKeys) /\ Len(ptyIn) <= PtyCap
  /\ ptyOut \in Seq(1 .. MaxPrinted) /\ Len(ptyOut) <= PtyCap
  /\ got \in Seq(0 .. MaxKeys) /\ shown \in Seq(1 .. MaxPrinted)
  /\ conn \in {"winsize", "fork", "poll", "readClient", "writePty", "readPty",
               "writeClient", "done", "sigpipe"}
  /\ winsize \in {"unset", "client", "default", "garbage"}
  /\ running \in BOOLEAN /\ eagain \in BOOLEAN
  /\ ready \subseteq {"client", "master"}
  /\ buf \in Seq(0 .. MaxKeys) \cup Seq(1 .. MaxPrinted) /\ Len(buf) <= BufSize
  /\ shell \in {"none", "running", "exited", "killed"}

\* What the two directions hold, from the reader's end to the writer's.
\* The window size is in front of the keys until the daemon has taken it.
Front == IF conn = "winsize" THEN Least(WsLen, Len(c2d)) ELSE 0
KeysInFlight == ptyIn \o (IF conn = "writePty" THEN buf ELSE <<>>) \o After(c2d, Front)
OutputInFlight == d2c \o (IF conn = "writeClient" THEN buf ELSE <<>>) \o ptyOut

\* The relay implements the terminal's promise: keys and output stay in order,
\* are never duplicated, and are dropped only by a write that found the other
\* side's queue full or the other side gone (main.cpp:228-254).
Pipe == INSTANCE TerminalPipe WITH
  KeyQueue <- PtyCap, ScreenQueue <- SockCap,
  program <- ~ShellGone,
  keys <- (IF ConnOver \/ ShellGone THEN <<>> ELSE KeysInFlight),
  echo <- (IF client = "closed" THEN <<>>
           ELSE IF ConnOver THEN d2c ELSE OutputInFlight),
  joined <- ~ConnOver, screen <- client # "closed"
ImplementsPipe == Pipe!PipeSpec

\* The initial window size is the client's own or the default: the eight bytes
\* the daemon takes before anything else (main.cpp:173-178) are never keys.
WinsizeIsClients == winsize # "garbage"

\* Whatever the client and the shell do not read, the connection process never
\* waits on one of them: all that is in the socket and in the pty is taken out,
\* however often more comes (main.cpp:214-253; a user types finitely many keys).
RelayDrains == /\ []<>(ConnOver \/ c2d = <<>>)
               /\ []<>(ConnOver \/ ptyOut = <<>>)

\* A client that leaves takes its shell with it, unless a write met a full
\* queue: EAGAIN then stays in errno and hides the end of file (main.cpp:240).
LeavingEndsShell ==
  (client = "closed" /\ ~eagain) ~> (shell # "running" \/ eagain)

\* `exit' leaves KHSL (KHSL_README.md:91): the client returns once its shell has.
ExitLeavesKhsl == shell = "exited" ~> client = "closed"
=============================================================================
