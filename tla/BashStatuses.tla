---------------------------- MODULE BashStatuses ----------------------------
(***************************************************************************)
(* The table behind bash's memory of exited background processes (jobs.c:   *)
(* 740-975): cells used in turn as a ring, and chained into hash buckets by *)
(* indices in both directions.  A cell is taken out of its chain before it  *)
(* is used again.  The ring has Ring cells from the first use on.           *)
(***************************************************************************)
EXTENDS Integers, Sequences, Functions

CONSTANTS SavedPids, SavedStatuses, Ring,
          Buckets, Hash  \* the bucket of a pid

FreePid == -1

ASSUME HashAssumption ==
  /\ Ring \in Nat \ {0} /\ Hash \in [SavedPids -> Buckets]
  /\ FreePid \notin SavedPids

VARIABLES
  nalloc,   \* cells allocated: none before the first use
  head,     \* the cell used next
  npid,     \* counts the saved, but not those that are overwritten
  storage,  \* the cells: a pid, its status, the cells before and after
  bucket,   \* the first cell of each chain
  answer    \* what bgp_search returned last

statusVars == <<nalloc, head, npid, storage, bucket, answer>>

Cells == 0 .. Ring - 1
NoCell == -1
NoStatus == -1
FreeCell == [pid |-> FreePid, status |-> NoStatus, next |-> NoCell, prev |-> NoCell]

StatusesInit ==
  /\ nalloc = 0 /\ head = 0 /\ npid = 0 /\ answer = NoStatus
  /\ storage = [c \in Cells |-> FreeCell] /\ bucket = [b \in Buckets |-> 0]

-----------------------------------------------------------------------------
(* The table as a record t of storage, buckets and head.  An older cell     *)
(* keeps its status, which nobody reads.                                    *)

Table == [cells |-> storage, first |-> bucket, head |-> head]

\* The first use, or wrapping around.
ResizedRing(t) ==
  IF nalloc = 0 THEN [cells |-> [c \in Cells |-> FreeCell],
                      first |-> [b \in Buckets |-> NoCell], head |-> 0]
  ELSE IF t.head >= nalloc THEN [t EXCEPT !.head = 0] ELSE t

Link(t, cell, field, to) ==
  IF cell = NoCell THEN t
  ELSE IF field = "next" THEN [t EXCEPT !.cells[cell].next = to]
                         ELSE [t EXCEPT !.cells[cell].prev = to]

DelindexInside(t, c) ==  \* mutant: the head of a chain is not moved on
  LET cell == t.cells[c]
      linked == Link(Link(t, cell.next, "prev", cell.prev), cell.prev, "next", cell.next)
  IN IF cell.pid = FreePid THEN t
     ELSE [linked EXCEPT !.cells[c] = [FreeCell EXCEPT !.status = cell.status]]

\* Taken out of its chain, in the middle or at its head.
Delindex(t, c) ==
  LET cell == t.cells[c]
      after == Link(t, cell.next, "prev", cell.prev)
      linked == IF cell.prev # NoCell THEN Link(after, cell.prev, "next", cell.next)
                ELSE [after EXCEPT !.first[Hash[cell.pid]] = cell.next]
  IN IF cell.pid = FreePid THEN t
     ELSE [linked EXCEPT !.cells[c] = [FreeCell EXCEPT !.status = cell.status]]

\* The next cell, cleared, and the head behind it: the cell is head - 1 then.
Getindex(t) ==
  LET r == ResizedRing(t)
  IN [Delindex(r, r.head) EXCEPT !.head = r.head + 1]

\* A cell that is still the first of the chain it goes to is skipped.
CellFor(t, b) ==
  LET once == Getindex(t)
  IN IF once.head - 1 = once.first[b]
       THEN Getindex([once EXCEPT !.cells[once.head - 1].pid = FreePid]) ELSE once

InFront(t, pid, status) ==
  LET c == t.head - 1  b == Hash[pid]
      linked == Link(t, t.first[b], "prev", c)
  IN [linked EXCEPT !.cells[c] = [pid |-> pid, status |-> status,
                                  next |-> t.first[b], prev |-> NoCell],
                    !.first[b] = c]

\* The cell of a pid: its chain is followed, at most through all the cells.
Find(pid) ==
  LET walk[n \in 0 .. Ring] ==
        IF n = 0 THEN bucket[Hash[pid]]
        ELSE LET c == walk[n - 1]
             IN IF c = NoCell \/ storage[c].pid = pid THEN c ELSE storage[c].next
  IN walk[Ring]

Put(t) == storage' = t.cells /\ bucket' = t.first /\ head' = t.head
-----------------------------------------------------------------------------
(* The operations, with SIGCHLD blocked. *)

\* bgp_add, when a background job leaves the table.  make_child had an older
\* entry of the pid deleted.
Add(pid, status) ==
  /\ \A c \in Cells : storage[c].pid # pid
  /\ Put(InFront(CellFor(Table, Hash[pid]), pid, status))
  /\ nalloc' = Ring /\ npid' = npid + 1
  /\ UNCHANGED answer

\* bgp_delete, for every child that is made.
Delete(pid) ==
  /\ IF nalloc = 0 \/ npid = 0 \/ Find(pid) = NoCell
       THEN UNCHANGED <<storage, bucket, head, npid>>
       ELSE Put(Delindex(Table, Find(pid))) /\ npid' = npid - 1
  /\ UNCHANGED <<nalloc, answer>>

\* bgp_search, for `wait'.
BgpSearch(pid) ==
  /\ answer' = IF nalloc = 0 \/ npid = 0 \/ Find(pid) = NoCell THEN NoStatus
               ELSE storage[Find(pid)].status
  /\ UNCHANGED <<nalloc, head, npid, storage, bucket>>

\* `wait' without arguments: the cells are freed, the buckets stay as they are.
BgpClear ==
  /\ nalloc' = 0 /\ head' = 0 /\ npid' = 0
  /\ storage' = [c \in Cells |-> FreeCell]
  /\ UNCHANGED <<bucket, answer>>

StatusesNext ==
  \/ \E pid \in SavedPids :
       \/ Delete(pid) \/ BgpSearch(pid)
       \/ \E s \in SavedStatuses : Add(pid, s)
  \/ BgpClear

StatusesSpec == StatusesInit /\ [][StatusesNext]_statusVars
-----------------------------------------------------------------------------
\* The cells from the oldest to the newest.
Remembered ==
  [i \in 1 .. Ring |->
     LET cell == storage[(head + i - 1) % Ring]
     IN IF cell.pid = FreePid THEN [pid |-> FreePid, status |-> NoStatus]
        ELSE [pid |-> cell.pid, status |-> cell.status]]

Memory == INSTANCE StatusMemory WITH Pids <- SavedPids, Statuses <- SavedStatuses,
            Room <- Ring, memory <- Remembered, found <- answer

\* The ring and its chains remember the last statuses, and a search finds
\* what was saved for its pid and nothing else, however additions, deletions and
\* overwriting mix in the chains (jobs.c:801-962).
ImplementsMemory == Memory!MemorySpec
=============================================================================
