---------------------------- MODULE TerminalPipe ----------------------------
(***************************************************************************)
(* What a KHSL terminal promises to the two ends it joins: a keyboard and  *)
(* a screen on one side, a shell on the other.  Two FIFO byte pipes, never *)
(* reordered and never duplicated, which give bytes up only to a backlog,  *)
(* the receiving end having a full queue of bytes it did not take, or to   *)
(* an end that is no longer there.                                         *)
(* kh_term_daemon's relay (module KhTermSession) is shown to implement it. *)
(***************************************************************************)
EXTENDS Naturals, Sequences

CONSTANTS KeyQueue,   \* bytes the shell side can hold before keys are given up
          ScreenQueue \* bytes the screen side can hold before output is given up

Queues == KeyQueue \in Nat \ {0} /\ ScreenQueue \in Nat \ {0}

VARIABLES
  typed,    \* how many keys were typed: key k is the k-th one
  keys,     \* keys on their way to the shell, oldest first
  got,      \* keys the shell received
  printed,  \* how many bytes the shell printed
  echo,     \* printed bytes on their way to the screen
  shown,    \* bytes the screen received
  joined,   \* the shell and the keyboard are joined
  program,  \* a program is there to read the keys
  screen    \* somebody is looking at the screen

pipeVars == <<typed, keys, got, printed, echo, shown, joined, program, screen>>

PipeInit ==
  /\ typed = 0 /\ printed = 0
  /\ keys = <<>> /\ got = <<>> /\ echo = <<>> /\ shown = <<>>
  /\ joined = TRUE /\ program = TRUE /\ screen = TRUE

Type == /\ joined /\ screen
        /\ typed' = typed + 1
        /\ keys' = IF program THEN Append(keys, typed') ELSE keys
        /\ UNCHANGED <<got, printed, echo, shown, joined, program, screen>>

Receive == /\ joined /\ program /\ keys # <<>>
           /\ got' = Append(got, Head(keys))
           /\ keys' = Tail(keys)
           /\ UNCHANGED <<typed, printed, echo, shown, joined, program, screen>>

\* Beyond the first limit bytes, a run of bytes is given up.
Overflow(queue, limit, rest) ==
  \E j \in limit + 1 .. Len(queue) :
     rest = SubSeq(queue, 1, limit) \o SubSeq(queue, j + 1, Len(queue))

GiveUpKeys == /\ Overflow(keys, KeyQueue, keys')
              /\ UNCHANGED <<typed, got, printed, echo, shown, joined, program, screen>>

PrintByte == /\ joined /\ program
             /\ printed' = printed + 1
             /\ echo' = IF screen THEN Append(echo, printed') ELSE echo
             /\ UNCHANGED <<typed, keys, got, shown, joined, program, screen>>

Show == /\ screen /\ echo # <<>>
        /\ shown' = Append(shown, Head(echo))
        /\ echo' = Tail(echo)
        /\ UNCHANGED <<typed, keys, got, printed, joined, program, screen>>

GiveUpOutput == /\ screen
                /\ Overflow(echo, ScreenQueue, echo')
                /\ UNCHANGED <<typed, keys, got, printed, shown, joined, program, screen>>

\* The session is over, and the program perhaps with it: undelivered keys are
\* gone, and so is the output that had not yet reached the screen's own queue.
Part == /\ joined /\ joined' = FALSE
        /\ keys' = <<>> /\ program' \in {program, FALSE}
        /\ \E k \in 0 .. Len(echo) : echo' = SubSeq(echo, 1, k)
        /\ UNCHANGED <<typed, got, printed, shown, screen>>

LeaveProgram == /\ program /\ program' = FALSE
                /\ keys' = <<>>
                /\ UNCHANGED <<typed, got, printed, echo, shown, joined, screen>>

LeaveScreen == /\ screen /\ screen' = FALSE
               /\ echo' = <<>>
               /\ UNCHANGED <<typed, keys, got, printed, shown, joined, program>>

PipeNext == \/ Type \/ Receive \/ GiveUpKeys
            \/ PrintByte \/ Show \/ GiveUpOutput
            \/ Part \/ LeaveProgram \/ LeaveScreen

PipeSpec == PipeInit /\ [][PipeNext]_pipeVars
-----------------------------------------------------------------------------
(* Properties. *)

PipeTypeOK ==
  /\ typed \in Nat /\ printed \in Nat
  /\ keys \in Seq(1 .. typed) /\ got \in Seq(1 .. typed)
  /\ echo \in Seq(1 .. printed) /\ shown \in Seq(1 .. printed)
  /\ {joined, program, screen} \subseteq BOOLEAN

Rising(s) == \A i, j \in 1 .. Len(s) : i < j => s[i] < s[j]

\* Both are in order, and what arrived is older than what is on its way.
Ordered(arrived, coming) ==
  /\ Rising(arrived) /\ Rising(coming)
  /\ \A i \in 1 .. Len(arrived), j \in 1 .. Len(coming) : arrived[i] < coming[j]

\* A key or a printed byte arrives at most once and in order, however many
\* were given up on the way (main.cpp:235-253 keeps the order of each queue).
PipeInOrder == Ordered(got, keys) /\ Ordered(shown, echo)

=============================================================================
