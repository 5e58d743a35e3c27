------------------------------ MODULE MCShell ------------------------------
(***************************************************************************)
(* The user's two ways through the files, for TLC: the file manager's       *)
(* window, and the shell, with its jobs and with the ring that remembers    *)
(* their statuses.  They share no state: a behaviour has one of the three.  *)
(***************************************************************************)
EXTENDS FileNavigation, BashJobs, BashStatuses, TLC

CONSTANTS b1, b2,    \* buckets
          MaxSaved   \* bound: statuses saved and not deleted

VARIABLE part  \* "files", "jobs" or "statuses"

\* All the pids but one in one chain.
MCHash == [p \in SavedPids |-> IF p = 14 THEN b2 ELSE b1]

MCInit == /\ part \in {"files", "jobs", "statuses"}
          /\ Init /\ JobsInit /\ StatusesInit

MCNext ==
  /\ UNCHANGED part
  /\ \/ part = "files" /\ Next /\ UNCHANGED <<jobsVars, statusVars>>
     \/ part = "jobs" /\ JobsNext /\ UNCHANGED <<vars, statusVars>>
     \/ /\ part = "statuses" /\ StatusesNext /\ npid' <= MaxSaved
        /\ UNCHANGED <<vars, jobsVars>>

MCSpec == MCInit /\ [][MCNext]_<<vars, jobsVars, statusVars, part>>

Symmetry == Permutations(Pids)
=============================================================================
