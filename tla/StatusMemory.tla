---------------------------- MODULE StatusMemory ----------------------------
(***************************************************************************)
(* What bash promises of the children whose jobs it has forgotten (jobs.c,  *)
(* the list of exited background pids): the last Room of them are known by  *)
(* pid with their status, until a new child takes the pid.                  *)
(***************************************************************************)
EXTENDS Integers, Sequences

CONSTANTS Pids, Statuses,
          Room  \* CHILD_MAX

VARIABLES memory,  \* the last Room statuses saved, the oldest first
          found    \* what the last search returned

Unknown == -1
NoPid   == -1
Gone    == [pid |-> NoPid, status |-> Unknown]
Blank   == [i \in 1 .. Room |-> Gone]

Entries(m, pid) == {i \in 1 .. Room : m[i].pid = pid}
Lookup(m, pid)  ==
  IF Entries(m, pid) = {} THEN Unknown
                          ELSE m[CHOOSE i \in Entries(m, pid) : TRUE].status
Remember(m, pid, status) == Append(Tail(m), [pid |-> pid, status |-> status])
Forget(m, pid) == [i \in 1 .. Room |-> IF m[i].pid = pid THEN Gone ELSE m[i]]

MemoryInit == memory = Blank /\ found = Unknown

\* A pid is saved once: a new child with it had the older one forgotten.
Save(pid, status) == /\ Entries(memory, pid) = {}
                     /\ memory' = Remember(memory, pid, status) /\ UNCHANGED found
Recycle(pid) == memory' = Forget(memory, pid) /\ UNCHANGED found
Search(pid)  == found' = Lookup(memory, pid) /\ UNCHANGED memory
Clear        == memory' = Blank /\ UNCHANGED found

MemoryNext ==
  \/ \E pid \in Pids : Recycle(pid) \/ Search(pid) \/ \E s \in Statuses : Save(pid, s)
  \/ Clear

MemorySpec == MemoryInit /\ [][MemoryNext]_<<memory, found>>
=============================================================================
