---------------------------- MODULE MCKhslClient ----------------------------
(* A finite instance of KhslClient for TLC: one session with any client whose
   keys all the queues together cannot hold, or one with khsl and fewer keys. *)
EXTENDS KhslClient

CONSTANT KhslPrinted  \* bound on the bytes printed to a khsl client

VARIABLE whose  \* "any" or "khsl"

all == <<vars, khslVars, late, whose>>

AnyClient == args = <<>> /\ user = "self" /\ stdin = "tty"

\* What stdin is matters in a session only, and there the words no longer do.
SessionInit ==
  /\ KhslInit /\ whose \in {"any", "khsl"}
  /\ whose = "any" => AnyClient
  /\ args # <<>> => stdin = "tty"

SessionNext ==
  /\ UNCHANGED whose
  /\ \/ whose = "any" /\ Client /\ UNCHANGED <<khslVars, late>>
     \/ whose = "any" /\ (Conn \/ Shell) /\ UNCHANGED <<khslVars, late>>
     \/ whose = "khsl" /\ KhslNext /\ printed' <= KhslPrinted

\* khsl's own steps, as the kernel schedules them; its terminal takes what it
\* writes.
SessionSpec ==
  /\ SessionInit /\ [][SessionNext]_all
  /\ WF_all(SessionNext /\ Conn) /\ WF_all(SessionNext /\ HangUp)
  /\ WF_all(SessionNext /\ whose = "any" /\ (ClientShow \/ ClientSeesEnd))
  /\ WF_all(SessionNext /\ KhslLoop)
=============================================================================
