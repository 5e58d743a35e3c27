------------------------------ MODULE KhslClient ------------------------------
(***************************************************************************)
(* The khsl command (khsl/khsl/main.c): its words, the user it runs as, the *)
(* command it becomes, and, without a command, the client that joins the    *)
(* user's terminal to a session of kh_term_daemon (KhTermSession), with the *)
(* terminal in raw mode for as long.                                        *)
(*                                                                          *)
(* A word is what the parser tells apart; a read or a write of several      *)
(* bytes is several steps of one byte each.  The daemon's side is           *)
(* KhTermSession's: its Conn and Shell.                                     *)
(***************************************************************************)
EXTENDS KhTermSession

CONSTANTS MaxWords,  \* bound on the words of a command line
          MaxStruck  \* bound on the keys struck in the user's terminal

ASSUME KhslAssumption == MaxWords \in Nat /\ MaxStruck \in 0 .. MaxKeys

Flags    == {"--help", "--version"}
Valued   == {"--user", "--cd"}
Starters == {"--exec", "--"}      \* a command follows
Refused  == {"--install", "--bogus"}  \* not implemented, and not known
Words == Flags \cup Valued \cup Starters \cup Refused \cup {"word"}

VARIABLES
  args,     \* argv, without the program's name
  pos,      \* i of parse_args
  opts,     \* khsl_opts_t
  at,       \* where khsl is
  user,     \* whom it runs as: "root", "self", "shell" or "named"
  ended,    \* how it ended, "no" before
  stdin,    \* what stdin is: a "tty", a "pipe", or a "file" or socket
  tty,      \* its mode: as khsl "found" it, or "raw"
  struck,   \* keys struck so far
  keyboard, \* those in the terminal's queue; the terminal may hang up
  stdinOver,\* no more keys will come
  inReady, outReady, \* POLLIN of stdin and of the socket
  pending,  \* keys in its buffer, to be written to the socket
  late      \* history: the session ended before all struck keys were sent

parseVars == <<args, pos, opts, user>>
userVars  == <<struck, keyboard, stdinOver>>
loopVars  == <<inReady, outReady, pending>>
khslVars  == <<parseVars, at, ended, stdin, tty, userVars, loopVars>>

NoOpts == [help |-> FALSE, version |-> FALSE, user |-> FALSE, cd |-> FALSE,
           command |-> <<>>]

KhslInit ==
  /\ Init /\ SendsWinsize
  /\ args \in UNION {[1 .. n -> Words] : n \in 0 .. MaxWords}
  /\ pos = 1 /\ opts = NoOpts
  /\ at = "parse" /\ user \in {"root", "self"} /\ ended = "no"
  /\ stdin \in {"tty", "pipe", "file"} /\ tty = "found"
  /\ struck = 0 /\ keyboard = <<>> /\ stdinOver = FALSE
  /\ inReady = FALSE /\ outReady = FALSE /\ pending = <<>> /\ late = FALSE

\* khsl is over: the socket is closed with the process.
Ends(how) == at' = "over" /\ ended' = how

-----------------------------------------------------------------------------
(* parse_args: one turn of its loop. *)

Word == args[pos]

Usage == Ends("usage") /\ UNCHANGED <<pos, opts>>

ParseFlag ==
  /\ Word \in Flags
  /\ opts' = IF Word = "--help" THEN [opts EXCEPT !.help = TRUE]
                                ELSE [opts EXCEPT !.version = TRUE]
  /\ pos' = pos + 1
  /\ UNCHANGED <<at, ended>>

ParseValuedAsFlag ==  \* mutant: the value is read as a word of its own
  /\ Word \in Valued
  /\ IF pos = Len(args) THEN Usage
     ELSE /\ opts' = IF Word = "--user" THEN [opts EXCEPT !.user = TRUE]
                                        ELSE [opts EXCEPT !.cd = TRUE]
          /\ pos' = pos + 1
          /\ UNCHANGED <<at, ended>>

\* The next word is the value, whatever it looks like.
ParseValued ==
  /\ Word \in Valued
  /\ IF pos = Len(args) THEN Usage
     ELSE /\ opts' = IF Word = "--user" THEN [opts EXCEPT !.user = TRUE]
                                        ELSE [opts EXCEPT !.cd = TRUE]
          /\ pos' = pos + 2
          /\ UNCHANGED <<at, ended>>

\* -e and --: the rest is the command.
ParseStarter ==
  /\ Word \in Starters
  /\ IF pos = Len(args) THEN Usage
     ELSE /\ opts' = [opts EXCEPT !.command = SubSeq(args, pos + 1, Len(args))]
          /\ at' = "parsed"
          /\ UNCHANGED <<pos, ended>>

ParseRefused == Word \in Refused /\ Usage

\* The first word that is no option is the command's own.
ParseCommand ==
  /\ Word = "word"
  /\ opts' = [opts EXCEPT !.command = SubSeq(args, pos, Len(args))]
  /\ at' = "parsed"
  /\ UNCHANGED <<pos, ended>>

Parse ==
  /\ at = "parse"
  /\ \/ pos <= Len(args) /\ (\/ ParseFlag \/ ParseValued \/ ParseStarter
                             \/ ParseRefused \/ ParseCommand)
     \/ pos > Len(args) /\ at' = "parsed" /\ UNCHANGED <<pos, opts, ended>>
  /\ UNCHANGED <<vars, args, user, stdin, tty, userVars, loopVars>>

-----------------------------------------------------------------------------
(* main, up to the session. *)

\* Help and version come before anything else.  Root becomes the user named by
\* -u or KHSL_USER, or `shell', and stays root where there is none such.
DropPrivileges ==
  /\ at = "parsed"
  /\ \/ opts.help /\ Ends("help") /\ UNCHANGED user
     \/ ~opts.help /\ opts.version /\ Ends("version") /\ UNCHANGED user
     \/ /\ ~opts.help /\ ~opts.version
        /\ \/ user = "root" /\ user' \in (IF opts.user THEN {"named"} ELSE {"named", "shell"})
           \/ UNCHANGED user
        /\ at' = "cd" /\ UNCHANGED ended
  /\ UNCHANGED <<vars, args, pos, opts, stdin, tty, userVars, loopVars>>

ChangeDirectory ==
  /\ at = "cd"
  /\ \/ at' = "command" /\ UNCHANGED ended
     \/ opts.cd /\ Ends("cdfailed")
  /\ UNCHANGED <<vars, parseVars, stdin, tty, userVars, loopVars>>

\* execvp of the command; without one, the banner and the session, for which
\* the words are of no more use.
RunCommand ==
  /\ at = "command"
  /\ \/ /\ opts.command # <<>> /\ (Ends("exec") \/ Ends("noexec"))
        /\ UNCHANGED <<args, pos, opts, user>>
     \/ /\ opts.command = <<>> /\ at' = "connect" /\ UNCHANGED ended
        /\ args' = <<>> /\ pos' = 1 /\ opts' = NoOpts /\ user' = "self"
  /\ UNCHANGED <<vars, stdin, tty, userVars, loopVars>>

\* Without a daemon khsl becomes the host's shell.
Connect ==
  /\ at = "connect"
  /\ \/ at' = "hello" /\ UNCHANGED ended
     \/ Ends("localsh")
  /\ UNCHANGED <<vars, parseVars, stdin, tty, userVars, loopVars>>

\* The window size, and raw mode for a terminal.
Hello ==
  /\ at = "hello" /\ ClientHello
  /\ tty' = (IF stdin = "tty" THEN "raw" ELSE tty) /\ at' = "poll"
  /\ UNCHANGED <<parseVars, ended, stdin, userVars, loopVars>>

-----------------------------------------------------------------------------
(* The relay between the terminal and the socket. *)

\* POLLIN tells the end of a file and of the socket.  Of a pipe that nobody
\* writes any more it tells nothing: poll() returns for its POLLHUP, for ever,
\* and the loop, which does not look at that, goes round.
KhslPoll ==
  /\ at = "poll"
  /\ inReady' = (keyboard # <<>> \/ (stdinOver /\ stdin = "file"))
  /\ outReady' = (d2c # <<>> \/ ConnOver)
  /\ inReady' \/ outReady' \/ stdinOver
  /\ at' = "stdin"
  /\ UNCHANGED <<vars, parseVars, ended, stdin, tty, userVars, pending>>

\* The loop is left: the mode it found comes back, and main returns.
LeaveRawOn ==  \* mutant: the mode is put back for the end of stdin only
  /\ Ends("returned") /\ client' = "closed"
  /\ tty' = IF stdinOver THEN "found" ELSE tty
  /\ UNCHANGED <<typed, shown, c2d, d2c, connVars, ptyIn, ptyOut, shellVars>>

Leave ==
  /\ Ends("returned") /\ client' = "closed"
  /\ tty' = "found"
  /\ UNCHANGED <<typed, shown, c2d, d2c, connVars, ptyIn, ptyOut, shellVars>>

ReadStdin ==
  /\ at = "stdin"
  /\ \/ /\ inReady /\ keyboard # <<>>
        /\ pending' = Upto(keyboard, ReadSize(keyboard))
        /\ keyboard' = After(keyboard, ReadSize(keyboard))
        /\ at' = "send" /\ UNCHANGED <<vars, ended, tty>>
     \/ /\ inReady /\ keyboard = <<>>
        /\ Leave /\ UNCHANGED <<keyboard, pending>>
     \/ /\ ~inReady
        /\ at' = "sock" /\ UNCHANGED <<vars, ended, tty, keyboard, pending>>
  /\ UNCHANGED <<parseVars, stdin, struck, stdinOver, inReady, outReady>>

SendKeysTwice ==  \* mutant: a key that was written stays in the buffer
  /\ at = "send"
  /\ \/ /\ pending # <<>> /\ ~ConnOver /\ Len(c2d) < SockCap
        /\ c2d' = Append(c2d, Head(pending)) /\ typed' = typed + 1
        /\ pending' \in {pending, Tail(pending)}
        /\ UNCHANGED <<client, at, ended>>
     \/ /\ pending = <<>> /\ at' = "sock"
        /\ UNCHANGED <<client, c2d, typed, pending, ended>>
  /\ UNCHANGED <<shown, d2c, connVars, ptyIn, ptyOut, shellVars>>
  /\ UNCHANGED <<parseVars, stdin, tty, userVars, inReady, outReady>>

\* write(sock) waits for room.  The session's end is not looked for before it:
\* the write then raises SIGPIPE, and the terminal stays as it is.
SendKeys ==
  /\ at = "send"
  /\ \/ /\ pending # <<>> /\ ~ConnOver /\ Len(c2d) < SockCap
        /\ c2d' = Append(c2d, Head(pending)) /\ typed' = typed + 1
        /\ pending' = Tail(pending)
        /\ UNCHANGED <<client, at, ended>>
     \/ /\ pending # <<>> /\ ConnOver
        /\ Ends("sigpipe") /\ client' = "closed"
        /\ UNCHANGED <<c2d, typed, pending>>
     \/ /\ pending = <<>> /\ at' = "sock"
        /\ UNCHANGED <<client, c2d, typed, pending, ended>>
  /\ UNCHANGED <<shown, d2c, connVars, ptyIn, ptyOut, shellVars>>
  /\ UNCHANGED <<parseVars, stdin, tty, userVars, inReady, outReady>>

\* A read of the socket, shown byte by byte, or its end.
ReadSocket ==
  /\ at = "sock"
  /\ \/ /\ outReady /\ d2c # <<>> /\ ClientShow
        /\ at' \in (IF d2c' = <<>> THEN {"poll"} ELSE {"sock", "poll"})
        /\ UNCHANGED <<ended, tty>>
     \/ outReady /\ d2c = <<>> /\ Leave
     \/ ~outReady /\ at' = "poll" /\ UNCHANGED <<vars, ended, tty>>
  /\ UNCHANGED <<parseVars, stdin, userVars, loopVars>>

-----------------------------------------------------------------------------
(* The user, and the end of the terminal. *)

Strike ==
  /\ at \notin {"parse", "parsed", "cd", "command", "connect", "over"}
  /\ ~stdinOver /\ struck < MaxStruck
  /\ struck' = struck + 1 /\ keyboard' = Append(keyboard, struck')
  /\ UNCHANGED <<vars, parseVars, at, ended, stdin, tty, stdinOver, loopVars>>

\* The end of a pipe or a file: in raw mode ^D is a key like any other.
StdinEnds ==
  /\ at \in {"poll", "send", "sock"} /\ stdin # "tty" /\ ~stdinOver
  /\ stdinOver' = TRUE
  /\ UNCHANGED <<vars, parseVars, at, ended, stdin, tty, struck, keyboard, loopVars>>

\* A signal, or the hang-up of the terminal: it is not there any more.
Killed ==
  /\ client = "up" /\ at # "over"
  /\ Ends("killed") /\ ClientLeave
  /\ UNCHANGED <<parseVars, stdin, tty, userVars, loopVars>>

-----------------------------------------------------------------------------
KhslLoop == KhslPoll \/ ReadStdin \/ SendKeys \/ ReadSocket

KhslSteps == \/ Parse \/ DropPrivileges \/ ChangeDirectory \/ RunCommand
             \/ Connect \/ Hello \/ KhslLoop
             \/ Strike \/ StdinEnds \/ Killed

\* Keys that can no longer be sent.
Stranded == ConnOver /\ keyboard \o pending # <<>>

KhslNext ==
  /\ \/ KhslSteps
     \/ (Conn \/ Shell) /\ UNCHANGED khslVars
  /\ late' = (late \/ Stranded')

KhslSpec == KhslInit /\ [][KhslNext]_<<vars, khslVars, late>>
-----------------------------------------------------------------------------
(* Properties. *)

\* What a command line means: the words that are looked at are the first one and
\* the one after every flag, or after the value of every option that takes one.
LookedAt ==
  LET seen[p \in 1 .. Len(args)] ==
        \/ p = 1
        \/ seen[p - 1] /\ args[p - 1] \in Flags
        \/ p > 2 /\ seen[p - 2] /\ args[p - 2] \in Valued
  IN {p \in 1 .. Len(args) : seen[p]}

Misused == {p \in LookedAt : \/ args[p] \in Refused
                             \/ args[p] \in Valued \cup Starters /\ p = Len(args)}

Asked(set) == \E p \in LookedAt : args[p] \in set

\* khsl runs the command its words name, verbatim, and nothing where a word was
\* refused or help was asked for: no value of an option is taken for an option
\* or a command, and no word of the command for an option (main.c:459-545).
RunsWhatWasAsked ==
  /\ ended = "usage" => Misused # {}
  /\ ended \in {"exec", "noexec"} =>
       /\ Misused = {} /\ ~Asked(Flags)
       /\ \E p \in LookedAt : opts.command =
            SubSeq(args, IF args[p] \in Starters THEN p + 1 ELSE p, Len(args))
  /\ at \in {"cd", "command"} => (opts.command = <<>> <=> ~Asked(Starters \cup {"word"}))

\* The end of a session gives the user the prompt and the terminal back, as it
\* was, if no key was still on its way then: such a key costs a SIGPIPE
\* (main.c:649-668).
EndGivesTerminalBack ==
  (ConnOver /\ at \in {"poll", "stdin", "send", "sock"})
    ~> (ended # "no" /\ (tty = "found" \/ late \/ ended = "killed"))

\* khsl is a client as kh_term_daemon expects one (main.c:622-668).
ImplementsSession == Spec
=============================================================================
