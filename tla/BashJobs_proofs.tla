--------------------------- MODULE BashJobs_proofs ---------------------------
(***************************************************************************)
(* The current and the previous job of bash's job table, for any number of  *)
(* processes, of jobs and of signals: no walk through the table, by SIGCHLD *)
(* or by the shell, leaves one of them at a job that is gone.  What `wait'  *)
(* says of a pid, however often the pid comes again.  And the ring of the   *)
(* statuses that are remembered, for any size and any hash: it and its      *)
(* chains are the memory that StatusMemory says.                            *)
(***************************************************************************)
EXTENDS BashJobs, BashStatuses, SequenceTheorems, FiniteSetTheorems,
        WellFoundedInduction, TLAPS

\* What a table is, and what CurrentIsAJob says of any of them.
IsTable(t) == {"jobs", "cur", "prev", "saved"} \subseteq DOMAIN t
CurrentOK(t) == IF t.cur = NoJob THEN t.prev = NoJob ELSE Has(t, t.cur) /\ Has(t, t.prev)
Good(t) == IsTable(t) /\ DOMAIN t.jobs \subseteq Slots /\ CurrentOK(t)

\* The two tables have jobs in the same slots, and the same ones chosen.
Alike(t, u) ==
  /\ IsTable(u) /\ DOMAIN u.jobs = DOMAIN t.jobs
  /\ u.cur = t.cur /\ u.prev = t.prev

\* waitchld's last stopped job is one of the table while it runs, for the steps
\* that delete jobs wait for its end; a pipeline that is not in the table yet is
\* one of those that were made.
WaitchldOK ==
  /\ reaping \in [on : BOOLEAN, block : BOOLEAN, last : Slots \cup {NoJob}, set : BOOLEAN]
  /\ reaping.on /\ reaping.last # NoJob => Has(table, reaping.last)
  /\ shell \in {"piping", "notify"} => ~reaping.on
SlotsOK ==
  /\ made \in 0 .. MaxJobs /\ DOMAIN table.jobs \subseteq 1 .. made
  /\ shell \in {"made", "piping"} => made > 0 /\ DOMAIN table.jobs \subseteq 1 .. made - 1

TableInv == Good(table) /\ WaitchldOK /\ SlotsOK

-----------------------------------------------------------------------------
(* The least and the largest of some slots. *)

LEMMA LeastIsFirst ==
  ASSUME NEW S, S \subseteq Nat, S # {}
  PROVE  \E n \in S : \A m \in S : n <= m
<1>1. PICK n \in S : \A m \in S : ~(<<m, n>> \in OpToRel(<, Nat))
  BY WFMin, NatLessThanWellFounded, Zenon
<1>2. \A m \in S : ~(m < n) BY <1>1, Zenon DEF OpToRel
<1> QED BY <1>2

LEMMA SmallestIsOne ==
  ASSUME NEW S, S \subseteq Slots
  PROVE  Smallest(S) = NoJob \/ Smallest(S) \in S
<1>1. CASE S = {} BY <1>1 DEF Smallest
<1>2. CASE S # {}
  <2>1. S \subseteq Nat BY DEF Slots
  <2>2. \E n \in S : \A m \in S : n <= m BY <1>2, <2>1, LeastIsFirst
  <2> QED BY <1>2, <2>2 DEF Smallest
<1> QED BY <1>1, <1>2

LEMMA LargestIsOne ==
  ASSUME NEW S, S \subseteq Slots
  PROVE  IF S = {} THEN Largest(S) = NoJob
                   ELSE Largest(S) \in S /\ \A k \in S : k <= Largest(S)
<1>1. CASE S = {} BY <1>1 DEF Largest
<1>2. CASE S # {}
  <2> DEFINE T == {n \in Nat : \A k \in S : k <= n}
  <2>1. S \subseteq Nat /\ MaxJobs \in T
    BY JobsAssumption DEF Slots
  <2>2. PICK n \in T : \A m \in T : n <= m
    <3>1. T \subseteq Nat /\ T # {} BY <2>1
    <3> QED BY <3>1, LeastIsFirst
  <2>3. n \in S
    <3> SUFFICES ASSUME n \notin S PROVE FALSE
      OBVIOUS
    <3>1. \A k \in S : k <= n - 1
      BY <2>1, <2>2
    <3>2. n - 1 \in Nat
      <4>1. PICK k \in S : k \in Slots
        BY <1>2
      <4>2. k \in Nat /\ k > 0
        BY <4>1, JobsAssumption DEF Slots
      <4> QED BY <2>2, <3>1, <4>1, <4>2
    <3> QED BY <2>2, <3>1, <3>2
  <2>4. \E j \in S : \A k \in S : k <= j
    BY <2>2, <2>3
  <2> QED BY <1>2, <2>4 DEF Largest
<1> QED BY <1>1, <1>2

LEMMA NewestIsAJob ==
  ASSUME NEW t, DOMAIN t.jobs \subseteq Slots, NEW below, NEW state
  PROVE  Newest(t, below, state) = NoJob \/ In(t, Newest(t, below, state), state)
<1> DEFINE S == {j \in DOMAIN t.jobs : j < below /\ In(t, j, state)}
<1>1. S \subseteq Slots
  OBVIOUS
<1>2. Newest(t, below, state) = NoJob \/ Newest(t, below, state) \in S
  BY <1>1, LargestIsOne DEF Newest
<1> QED BY <1>2

-----------------------------------------------------------------------------
(* What the walks through the table leave. *)

\* set_current_job, for a job of the table.
LEMMA SetCurrentGood ==
  ASSUME NEW t, IsTable(t), DOMAIN t.jobs \subseteq Slots, NEW job, Has(t, job)
  PROVE  /\ Good(SetCurrent(t, job))
         /\ DOMAIN SetCurrent(t, job).jobs = DOMAIN t.jobs
<1> DEFINE moved == IF t.cur # job THEN [t EXCEPT !.prev = t.cur, !.cur = job] ELSE t
           older == Newest(t, job, "stopped")
           runs  == Newest(t, IF In(t, job, "running") THEN job ELSE MaxJobs + 1, "running")
           other == IF In(t, job, "stopped") /\ older # NoJob THEN older
                    ELSE IF runs # NoJob THEN runs ELSE job
<1>1. /\ IsTable(moved) /\ moved.jobs = t.jobs /\ moved.cur = job
  BY DEF IsTable
<1>2. (older = NoJob \/ Has(t, older)) /\ (runs = NoJob \/ Has(t, runs))
  BY NewestIsAJob DEF In
<1>3. Has(t, other)
  BY <1>2
<1>4. job # NoJob
  BY DEF Has, Slots, NoJob
<1>5. SetCurrent(t, job) = IF moved.prev # job /\ In(t, moved.prev, "stopped") THEN moved
                           ELSE [moved EXCEPT !.prev = other]
  BY DEF SetCurrent
<1> HIDE DEF moved, other
<1>6. CASE moved.prev # job /\ In(t, moved.prev, "stopped")
  BY <1>1, <1>4, <1>5, <1>6 DEF Good, CurrentOK, Has, In
<1>7. CASE ~(moved.prev # job /\ In(t, moved.prev, "stopped"))
  <2> DEFINE u == [moved EXCEPT !.prev = other]
  <2>1. IsTable(u) /\ u.jobs = t.jobs /\ u.cur = job /\ u.prev = other
    BY <1>1 DEF IsTable
  <2> HIDE DEF u
  <2>2. Good(u) /\ DOMAIN u.jobs = DOMAIN t.jobs
    BY <1>3, <1>4, <2>1 DEF Good, CurrentOK, Has
  <2> QED BY <1>5, <1>7, <2>2 DEF u
<1> QED BY <1>6, <1>7

\* reset_current, whatever was chosen before.
LEMMA ResetCurrentGood ==
  ASSUME NEW t, IsTable(t), DOMAIN t.jobs \subseteq Slots
  PROVE  Good(ResetCurrent(t)) /\ DOMAIN ResetCurrent(t).jobs = DOMAIN t.jobs
<1> DEFINE candidate ==
        IF In(t, t.cur, "stopped") THEN t.cur
        ELSE IF In(t, t.prev, "stopped") THEN t.prev
        ELSE IF Newest(t, MaxJobs + 1, "stopped") # NoJob
          THEN Newest(t, MaxJobs + 1, "stopped")
        ELSE Newest(t, MaxJobs + 1, "running")
<1>1. candidate = NoJob \/ Has(t, candidate)
  <2>1. \A state : Newest(t, MaxJobs + 1, state) = NoJob \/ Has(t, Newest(t, MaxJobs + 1, state))
    BY NewestIsAJob DEF In
  <2> QED BY <2>1 DEF In
<1>2. ResetCurrent(t) = IF candidate # NoJob THEN SetCurrent(t, candidate)
                        ELSE [t EXCEPT !.cur = NoJob, !.prev = NoJob]
  BY DEF ResetCurrent
<1> HIDE DEF candidate
<1>3. CASE candidate # NoJob
  BY <1>1, <1>2, <1>3, SetCurrentGood
<1>4. CASE candidate = NoJob
  <2> DEFINE u == [t EXCEPT !.cur = NoJob, !.prev = NoJob]
  <2>1. IsTable(u) /\ u.jobs = t.jobs /\ u.cur = NoJob /\ u.prev = NoJob
    BY DEF IsTable
  <2> HIDE DEF u
  <2>2. Good(u) /\ DOMAIN u.jobs = DOMAIN t.jobs
    BY <2>1 DEF Good, CurrentOK
  <2> QED BY <1>2, <1>4, <2>2 DEF u
<1> QED BY <1>3, <1>4

\* delete_job.
LEMMA DeletedGood ==
  ASSUME NEW t, Good(t), NEW j, NEW save
  PROVE  Good(Deleted(t, j, save)) /\ DOMAIN Deleted(t, j, save).jobs = DOMAIN t.jobs \ {j}
<1> DEFINE w == Without(t, j, save)
<1>1. IsTable(w) /\ DOMAIN w.jobs = DOMAIN t.jobs \ {j} /\ w.cur = t.cur /\ w.prev = t.prev
  BY DEF Good, IsTable, Without
<1>2. DOMAIN w.jobs \subseteq Slots
  BY <1>1 DEF Good
<1>3. Deleted(t, j, save) = IF j \in {t.cur, t.prev} THEN ResetCurrent(w) ELSE w
  BY DEF Deleted
<1> HIDE DEF w
<1>4. CASE j \in {t.cur, t.prev}
  BY <1>1, <1>2, <1>3, <1>4, ResetCurrentGood
<1>5. CASE j \notin {t.cur, t.prev}
  <2>1. CurrentOK(w)
    BY <1>1, <1>5 DEF Good, CurrentOK, Has
  <2> QED BY <1>1, <1>2, <1>3, <1>5, <2>1 DEF Good
<1> QED BY <1>4, <1>5

LEMMA AlikeGood ==
  ASSUME NEW t, NEW u, Good(t), Alike(t, u)
  PROVE  Good(u)
BY DEF Good, Alike, CurrentOK, Has
-----------------------------------------------------------------------------
(* cleanup_dead_jobs walks the slots from the first on. *)

Turn(f, t, j) ==
  IF j = 0 THEN t
  ELSE LET u == f[j - 1]
       IN IF In(u, j, "dead") /\ u.jobs[j].notified THEN Deleted(u, j, TRUE) ELSE u

\* The tables it passes through, slot by slot.
LEMMA TurnsExist ==
  ASSUME NEW t, NEW N \in Nat
  PROVE  \E f : f = [j \in 0 .. N |-> Turn(f, t, j)]
<1> DEFINE Made(n) == \E f : DOMAIN f = 0 .. n /\ \A j \in 0 .. n : f[j] = Turn(f, t, j)
           S == {n \in Nat : ~Made(n)}
<1>1. Made(0)
  <2> DEFINE f == [j \in 0 .. 0 |-> t]
  <2>1. DOMAIN f = 0 .. 0 /\ \A j \in 0 .. 0 : f[j] = Turn(f, t, j)
    BY DEF Turn
  <2> QED BY <2>1
<1>2. ASSUME NEW n \in Nat, Made(n) PROVE Made(n + 1)
  <2>1. PICK f : DOMAIN f = 0 .. n /\ \A j \in 0 .. n : f[j] = Turn(f, t, j)
    BY <1>2
  <2> DEFINE next == Turn(f, t, n + 1)
             g == [j \in 0 .. n + 1 |-> IF j \in 0 .. n THEN f[j] ELSE next]
  <2>2. \A j \in 0 .. n : g[j] = f[j]
    OBVIOUS
  <2>3. g[n + 1] = next /\ DOMAIN g = 0 .. n + 1
    OBVIOUS
  <2> HIDE DEF g
  <2>4. ASSUME NEW j \in 0 .. n + 1 PROVE Turn(g, t, j) = Turn(f, t, j)
    <3>1. j # 0 => g[j - 1] = f[j - 1]
      BY <2>2
    <3> QED BY <3>1 DEF Turn
  <2>5. ASSUME NEW j \in 0 .. n + 1 PROVE g[j] = Turn(g, t, j)
    <3>1. CASE j \in 0 .. n BY <2>1, <2>2, <2>4, <3>1
    <3>2. CASE j = n + 1 BY <2>3, <2>4, <3>2
    <3> QED BY <3>1, <3>2
  <2> QED BY <2>3, <2>5
<1> HIDE DEF Made
<1>3. S = {}
  <2> SUFFICES ASSUME S # {} PROVE FALSE
    OBVIOUS
  <2>1. PICK n \in S : \A m \in S : n <= m
    BY LeastIsFirst
  <2>2. n \in Nat /\ ~Made(n) /\ n # 0
    BY <1>1, <2>1
  <2>3. n - 1 \in Nat /\ n - 1 \notin S
    BY <2>1, <2>2
  <2>4. Made((n - 1) + 1)
    BY <1>2, <2>3
  <2>5. (n - 1) + 1 = n
    BY <2>2
  <2> QED BY <2>2, <2>4, <2>5
<1>4. PICK f : DOMAIN f = 0 .. N /\ \A j \in 0 .. N : f[j] = Turn(f, t, j)
  BY <1>3 DEF Made
<1> DEFINE g == [j \in 0 .. N |-> f[j]]
<1>5. \A j \in 0 .. N : g[j] = f[j]
  OBVIOUS
<1>6. g = [j \in 0 .. N |-> Turn(f, t, j)]
  BY <1>4
<1> HIDE DEF g
<1>7. ASSUME NEW j \in 0 .. N PROVE Turn(g, t, j) = Turn(f, t, j)
  <2>1. j # 0 => g[j - 1] = f[j - 1]
    BY <1>5
  <2> QED BY <2>1 DEF Turn
<1>8. g = [j \in 0 .. N |-> Turn(g, t, j)]
  BY <1>6, <1>7
<1> QED BY <1>8

LEMMA CleanedUpGood ==
  ASSUME NEW t, Good(t)
  PROVE  Good(CleanedUp(t)) /\ DOMAIN CleanedUp(t).jobs \subseteq DOMAIN t.jobs
<1> DEFINE upTo == CHOOSE f : f = [j \in 0 .. MaxJobs |-> Turn(f, t, j)]
           Fine(u) == Good(u) /\ DOMAIN u.jobs \subseteq DOMAIN t.jobs
           S == {j \in 0 .. MaxJobs : ~Fine(upTo[j])}
<1>1. MaxJobs \in Nat
  BY JobsAssumption
<1>2. upTo = [j \in 0 .. MaxJobs |-> Turn(upTo, t, j)]
  BY <1>1, TurnsExist
<1>3. CleanedUp(t) = upTo[MaxJobs]
  BY DEF CleanedUp, Turn
<1> HIDE DEF upTo
<1>4. \A j \in 0 .. MaxJobs : upTo[j] = Turn(upTo, t, j)
  BY <1>2
<1>5. ASSUME NEW u, NEW j, Fine(u) PROVE Fine(Deleted(u, j, TRUE))
  <2>1. Good(Deleted(u, j, TRUE)) /\ DOMAIN Deleted(u, j, TRUE).jobs = DOMAIN u.jobs \ {j}
    BY <1>5, DeletedGood
  <2> QED BY <1>5, <2>1
<1> HIDE DEF Fine
<1>6. S = {}
  <2> SUFFICES ASSUME S # {} PROVE FALSE
    OBVIOUS
  <2>1. PICK n \in S : \A m \in S : n <= m
    <3>1. S \subseteq Nat BY <1>1
    <3> QED BY <3>1, LeastIsFirst
  <2>2. n \in 0 .. MaxJobs /\ ~Fine(upTo[n]) /\ upTo[n] = Turn(upTo, t, n)
    BY <1>4, <2>1
  <2>3. CASE n = 0
    <3>1. Fine(t) BY DEF Fine
    <3> QED BY <2>2, <2>3, <3>1 DEF Turn
  <2>4. CASE n # 0
    <3>1. n - 1 \in 0 .. MaxJobs /\ n - 1 \notin S
      BY <1>1, <2>1, <2>2, <2>4
    <3>2. Fine(upTo[n - 1])
      BY <3>1
    <3> QED BY <1>5, <2>2, <2>4, <3>2 DEF Turn
  <2> QED BY <2>3, <2>4
<1>7. Fine(upTo[MaxJobs])
  BY <1>1, <1>6
<1> QED BY <1>3, <1>7 DEF Fine
-----------------------------------------------------------------------------
(* What leaves the table as good as it was. *)

LEMMA SameJobsAlike ==
  ASSUME NEW t, IsTable(t), NEW jobs, DOMAIN jobs = DOMAIN t.jobs
  PROVE  Alike(t, [t EXCEPT !.jobs = jobs])
BY DEF IsTable, Alike

LEMMA NotifiedAlike ==
  ASSUME NEW t, IsTable(t)
  PROVE  Alike(t, Notified(t))
BY DEF IsTable, Alike, Notified

LEMMA StatusSetAlike ==
  ASSUME NEW t, IsTable(t), NEW j
  PROVE  Alike(t, StatusSet(t, j).t)
BY DEF IsTable, Alike, StatusSet

LEMMA SetRunningAlike ==
  ASSUME NEW t, IsTable(t), NEW j
  PROVE  Alike(t, SetRunning(t, j))
BY DEF IsTable, Alike, SetRunning

LEMMA AlikeAlike ==
  ASSUME NEW t, NEW u, NEW v, Alike(t, u), Alike(u, v)
  PROVE  Alike(t, v)
BY DEF Alike

LEMMA SavedAlike ==
  ASSUME NEW t, IsTable(t), NEW saved
  PROVE  Alike(t, [t EXCEPT !.saved = saved])
BY DEF IsTable, Alike

\* A pid that is used again.
LEMMA RecycledGood ==
  ASSUME NEW t, Good(t), NEW p
  PROVE  Good(Recycled(t, p)) /\ DOMAIN Recycled(t, p).jobs \subseteq DOMAIN t.jobs
<1> DEFINE j == JobOf(t, p)
           jobs == [t.jobs EXCEPT ![j].procs =
                      [i \in DOMAIN @ |-> IF @[i].pid = p THEN [@[i] EXCEPT !.pid = ZeroPid] ELSE @[i]]]
           u == CASE j = NoJob        -> t
                  [] In(t, j, "dead") -> Deleted(t, j, FALSE)
                  [] OTHER            -> [t EXCEPT !.jobs = jobs]
<1>1. Good(Deleted(t, j, FALSE)) /\ DOMAIN Deleted(t, j, FALSE).jobs = DOMAIN t.jobs \ {j}
  BY DeletedGood
<1>2. Alike(t, [t EXCEPT !.jobs = jobs])
  <2>1. DOMAIN jobs = DOMAIN t.jobs
    OBVIOUS
  <2> HIDE DEF jobs
  <2> QED BY <2>1, SameJobsAlike DEF Good
<1>3. Good([t EXCEPT !.jobs = jobs]) /\ DOMAIN [t EXCEPT !.jobs = jobs].jobs = DOMAIN t.jobs
  <2> HIDE DEF jobs
  <2> QED BY <1>2, AlikeGood DEF Alike
<1>4. Recycled(t, p) = [u EXCEPT !.saved = Status!Forget(u.saved, p)]
  BY DEF Recycled
<1>5. Good(u) /\ DOMAIN u.jobs \subseteq DOMAIN t.jobs
  <2> HIDE DEF j, jobs
  <2> QED BY <1>1, <1>3
<1> HIDE DEF u
<1>6. Alike(u, Recycled(t, p))
  BY <1>4, <1>5, SavedAlike DEF Good
<1> QED BY <1>5, <1>6, AlikeGood DEF Alike

\* The end of waitchld.
LEMMA CurrentSetGood ==
  ASSUME NEW t, Good(t), NEW r, r.last # NoJob => Has(t, r.last)
  PROVE  Good(CurrentSet(t, r)) /\ DOMAIN CurrentSet(t, r).jobs = DOMAIN t.jobs
BY SetCurrentGood, ResetCurrentGood DEF CurrentSet, Good

\* A step of the shell while waitchld is off, which adds no job.
LEMMA QuietStep ==
  ASSUME TableInv, ~reaping.on, UNCHANGED <<reaping, made>>,
         shell' \notin {"made", "piping"},
         Good(table)', DOMAIN table'.jobs \subseteq DOMAIN table.jobs
  PROVE  TableInv'
BY DEF TableInv, WaitchldOK, SlotsOK

\* One waitpid records what it hears of and may be the last.
LEMMA WaitpidKeeps ==
  ASSUME TableInv, NEW p, WaitpidChild(p)
  PROVE  TableInv'
<1> DEFINE making == \E i \in DOMAIN pipeline.procs : pipeline.procs[i].pid = p
           j == IF making THEN NoJob ELSE LiveJobOf(table, p)
           procs == [i \in DOMAIN Procs(table, j) |->
                       IF Alive(Procs(table, j)[i]) THEN Told(p, Procs(table, j)[i])
                                                    ELSE Procs(table, j)[i]]
           told == [table EXCEPT !.jobs[j].procs = procs]
           s == IF j = NoJob THEN [t |-> table, set |-> FALSE] ELSE StatusSet(told, j)
           r == IF j = NoJob THEN reaping
                ELSE [reaping EXCEPT !.set = @ \/ s.set,
                        !.last = CASE In(s.t, j, "stopped")          -> j
                                   [] In(s.t, j, "dead") /\ @ = j -> NoJob
                                   [] OTHER                          -> @]
           left == IF sigchld > 0 THEN sigchld - 1 ELSE 0
           over == reaping.block /\ left = 0
<1>1. /\ reaping.on /\ UNCHANGED <<shell, made>>
      /\ table' = IF over THEN CurrentSet(s.t, r) ELSE s.t
      /\ reaping' = IF over THEN Off ELSE r
  BY DEF WaitpidChild
<1>2. Good(table) /\ IsTable(table)
  BY DEF TableInv, Good
<1>3. j = NoJob \/ Has(table, j)
  <2>1. LiveJobOf(table, p) = NoJob \/ LiveJobOf(table, p) \in DOMAIN table.jobs
    <3> DEFINE L == {k \in DOMAIN table.jobs :
                       \E i \in DOMAIN Procs(table, k) :
                          Procs(table, k)[i].pid = p /\ Alive(Procs(table, k)[i])}
    <3>1. L \subseteq Slots
      BY <1>2 DEF Good
    <3>2. Smallest(L) = NoJob \/ Smallest(L) \in L
      BY <3>1, SmallestIsOne
    <3> QED BY <3>2 DEF LiveJobOf
  <2> QED BY <2>1 DEF Has
<1>4. Alike(table, told)
  <2> HIDE DEF procs, j
  <2> QED BY <1>2 DEF IsTable, Alike
<1> HIDE DEF told, j, making
<1>5. Alike(table, s.t)
  <2>1. CASE j = NoJob
    BY <1>2, <2>1 DEF Alike
  <2>2. CASE j # NoJob
    <3>1. Alike(told, StatusSet(told, j).t)
      BY <1>4, StatusSetAlike DEF Alike
    <3> QED BY <1>4, <2>2, <3>1, AlikeAlike
  <2> QED BY <2>1, <2>2
<1>6. Good(s.t) /\ DOMAIN s.t.jobs = DOMAIN table.jobs
  BY <1>2, <1>5, AlikeGood DEF Alike
<1>7. s.set \in BOOLEAN
  BY DEF StatusSet
<1> HIDE DEF s
<1>8. /\ r \in [on : BOOLEAN, block : BOOLEAN, last : Slots \cup {NoJob}, set : BOOLEAN]
      /\ r.on = TRUE /\ (r.last # NoJob => Has(table, r.last))
  <2>1. reaping \in [on : BOOLEAN, block : BOOLEAN, last : Slots \cup {NoJob}, set : BOOLEAN]
        /\ reaping.on /\ (reaping.last # NoJob => Has(table, reaping.last))
    BY <1>1 DEF TableInv, WaitchldOK
  <2>2. CASE j = NoJob
    BY <2>1, <2>2
  <2>3. CASE j # NoJob
    <3> DEFINE last == CASE In(s.t, j, "stopped") -> j
                         [] In(s.t, j, "dead") /\ reaping.last = j -> NoJob
                         [] OTHER -> reaping.last
               set == reaping.set \/ s.set
    <3>1. last \in {j, NoJob, reaping.last} /\ set \in BOOLEAN
      OBVIOUS
    <3>2. j \in Slots
      BY <1>2, <1>3, <2>3 DEF Good, Has
    <3>3. r = [reaping EXCEPT !.set = set, !.last = last]
      BY <2>3
    <3> HIDE DEF last, set
    <3>4. last \in Slots \cup {NoJob} /\ (last # NoJob => Has(table, last))
      BY <1>3, <2>1, <2>3, <3>1, <3>2
    <3> QED BY <2>1, <3>1, <3>3, <3>4
  <2> QED BY <2>2, <2>3
<1> HIDE DEF r, over
<1>9. /\ Good(CurrentSet(s.t, r)) /\ DOMAIN CurrentSet(s.t, r).jobs = DOMAIN table.jobs
  BY <1>6, <1>8, CurrentSetGood DEF Has
<1>10. Good(table)' /\ DOMAIN table'.jobs = DOMAIN table.jobs
  BY <1>1, <1>6, <1>9
<1>11. WaitchldOK'
  <2>1. shell \notin {"piping", "notify"}
    BY <1>1 DEF TableInv, WaitchldOK
  <2>2. CASE over
    BY <1>1, <2>1, <2>2 DEF WaitchldOK, Off
  <2>3. CASE ~over
    <3>1. reaping' = r
      BY <1>1, <2>3
    <3> QED BY <1>1, <1>8, <1>10, <2>1, <3>1 DEF WaitchldOK, Has
  <2> QED BY <2>2, <2>3
<1>12. SlotsOK'
  BY <1>1, <1>10 DEF TableInv, SlotsOK
<1> QED BY <1>10, <1>11, <1>12 DEF TableInv
-----------------------------------------------------------------------------
(* The other steps. *)

LEMMA TableInvInit ==
  JobsInit => TableInv
<1> SUFFICES ASSUME JobsInit PROVE TableInv
  OBVIOUS
<1>1. DOMAIN table.jobs = {} /\ table.cur = NoJob /\ table.prev = NoJob /\ IsTable(table)
  BY DEF JobsInit, IsTable
<1>2. Good(table)
  BY <1>1 DEF Good, CurrentOK
<1>3. WaitchldOK
  BY DEF JobsInit, WaitchldOK, Off
<1>4. SlotsOK
  BY <1>1, JobsAssumption DEF JobsInit, SlotsOK
<1> QED BY <1>2, <1>3, <1>4 DEF TableInv

\* What moves a process, and the steps of the shell that leave the table alone.
LEMMA SameTable ==
  ASSUME TableInv, UNCHANGED <<table, reaping, made>>,
         shell' = shell \/ (~reaping.on /\ shell' \notin {"made", "piping"})
  PROVE  TableInv'
BY DEF TableInv, WaitchldOK, SlotsOK, Good, IsTable, CurrentOK, Has

\* waitchld begins or ends.
LEMMA SigchldKeeps ==
  ASSUME TableInv, SigchldHandler
  PROVE  TableInv'
<1>1. CASE shell = "notify"
  <2>1. UNCHANGED <<table, shell, reaping, made>>
    BY <1>1 DEF SigchldHandler
  <2> QED BY <2>1, SameTable
<1>2. CASE shell # "notify"
  <2>1. /\ UNCHANGED <<table, shell, made>> /\ shell # "piping"
        /\ reaping' = [Off EXCEPT !.on = TRUE]
    BY <1>2 DEF SigchldHandler, Blocked
  <2>2. WaitchldOK'
    BY <1>2, <2>1 DEF WaitchldOK, Off
  <2> QED BY <2>1, <2>2 DEF TableInv, SlotsOK, Good, IsTable, CurrentOK, Has
<1> QED BY <1>1, <1>2

LEMMA WaitchldEnds ==
  ASSUME TableInv, WaitpidNothing \/ WaitpidNoChild
  PROVE  TableInv'
<1>1. UNCHANGED <<shell, made>> /\ reaping.on /\ reaping' = Off
  BY DEF WaitpidNothing, WaitpidNoChild
<1>2. /\ Good(CurrentSet(table, reaping))
      /\ DOMAIN CurrentSet(table, reaping).jobs = DOMAIN table.jobs
  BY <1>1, CurrentSetGood DEF TableInv, WaitchldOK
<1>3. Good(table)' /\ DOMAIN table'.jobs = DOMAIN table.jobs
  BY <1>2 DEF WaitpidNothing, WaitpidNoChild, TableInv
<1>4. WaitchldOK'
  BY <1>1 DEF WaitchldOK, Off
<1> QED BY <1>1, <1>3, <1>4 DEF TableInv, SlotsOK

\* A pipeline that is waited for, or any child: waitchld begins, and blocks.
LEMMA WaitBegins ==
  ASSUME TableInv, WaitBlocks \/ AnyBlocks
  PROVE  TableInv'
<1>1. /\ UNCHANGED <<table, made>> /\ shell' = "wait"
      /\ reaping' = [Off EXCEPT !.on = TRUE, !.block = TRUE]
  BY DEF WaitBlocks, AnyBlocks
<1>2. WaitchldOK'
  BY <1>1 DEF WaitchldOK, Off
<1> QED BY <1>1, <1>2 DEF TableInv, SlotsOK, Good, IsTable, CurrentOK, Has

\* A process more: the pipeline that is being made has no slot yet.
LEMMA ForkKeeps ==
  ASSUME TableInv, NEW p, NEW length, NEW async, Fork(p, length, async)
  PROVE  TableInv'
<1>1. Good(table)' /\ DOMAIN table'.jobs \subseteq DOMAIN table.jobs
  BY RecycledGood DEF Fork, TableInv
<1>2. ~reaping.on /\ UNCHANGED reaping
  BY DEF Fork, Ready, TableInv, WaitchldOK
<1>3. WaitchldOK'
  BY <1>2 DEF TableInv, WaitchldOK
<1>4. SlotsOK'
  <2>1. CASE Ready /\ made < MaxJobs /\ made' = made + 1
    <3>1. made' \in 0 .. MaxJobs /\ made' > 0 /\ made' - 1 = made
      BY <2>1, JobsAssumption DEF TableInv, SlotsOK
    <3>2. DOMAIN table'.jobs \subseteq 1 .. made
      BY <1>1 DEF TableInv, SlotsOK
    <3> QED BY <3>1, <3>2 DEF SlotsOK
  <2>2. CASE shell = "piping" /\ UNCHANGED <<made, shell>>
    BY <1>1, <2>2 DEF TableInv, SlotsOK
  <2> QED BY <2>1, <2>2 DEF Fork
<1> QED BY <1>1, <1>3, <1>4 DEF TableInv

\* The pipeline goes behind the last job, in a slot that is there.
LEMMA StopPipelineKeeps ==
  ASSUME TableInv, StopPipeline
  PROVE  TableInv'
<1> DEFINE t    == CleanedUp(table)
           slot == Largest(DOMAIN t.jobs) + 1
           job  == [procs |-> pipeline.procs, state |-> StateOf(pipeline.procs),
                    fg |-> ~pipeline.async, async |-> pipeline.async, notified |-> FALSE]
           jobs == [j \in DOMAIN t.jobs \cup {slot} |-> IF j = slot THEN job ELSE t.jobs[j]]
           u    == [t EXCEPT !.jobs = jobs]
<1>1. /\ ~reaping.on /\ UNCHANGED <<reaping, made>> /\ shell' \in {"ready", "wait"}
      /\ table' = u \/ table' = ResetCurrent(u)
      /\ shell \in {"made", "piping"}
  BY DEF StopPipeline
<1>2. Good(t) /\ DOMAIN t.jobs \subseteq DOMAIN table.jobs
  BY CleanedUpGood DEF TableInv
<1>3. made \in 1 .. MaxJobs /\ DOMAIN t.jobs \subseteq 1 .. made - 1
  BY <1>1, <1>2 DEF TableInv, SlotsOK
<1> HIDE DEF t
<1>4. slot \in 1 .. made
  <2>1. IF DOMAIN t.jobs = {} THEN Largest(DOMAIN t.jobs) = NoJob
                              ELSE Largest(DOMAIN t.jobs) \in DOMAIN t.jobs
    BY <1>2, LargestIsOne DEF Good
  <2>2. CASE DOMAIN t.jobs = {}
    BY <1>3, <2>1, <2>2 DEF NoJob
  <2>3. CASE DOMAIN t.jobs # {}
    <3>1. Largest(DOMAIN t.jobs) \in 1 .. made - 1
      BY <1>3, <2>1, <2>3
    <3> QED BY <1>3, <3>1
  <2> QED BY <2>2, <2>3
<1> HIDE DEF slot, job
<1>5. IsTable(u) /\ DOMAIN u.jobs = DOMAIN t.jobs \cup {slot} /\ u.cur = t.cur /\ u.prev = t.prev
  <2>1. DOMAIN jobs = DOMAIN t.jobs \cup {slot}
    OBVIOUS
  <2> HIDE DEF jobs
  <2> QED BY <1>2, <2>1 DEF Good, IsTable
<1> HIDE DEF u
<1>6. DOMAIN u.jobs \subseteq 1 .. made /\ DOMAIN u.jobs \subseteq Slots
  <2>1. DOMAIN u.jobs \subseteq 1 .. made
    BY <1>3, <1>4, <1>5
  <2>2. 1 .. made \subseteq Slots
    BY <1>3, JobsAssumption DEF Slots
  <2> QED BY <2>1, <2>2
<1>7. Good(u)
  BY <1>2, <1>5, <1>6 DEF Good, CurrentOK, Has
<1>8. Good(ResetCurrent(u)) /\ DOMAIN ResetCurrent(u).jobs = DOMAIN u.jobs
  BY <1>5, <1>6, ResetCurrentGood
<1>9. Good(table)' /\ DOMAIN table'.jobs \subseteq 1 .. made
  BY <1>1, <1>6, <1>7, <1>8
<1>10. WaitchldOK'
  BY <1>1 DEF TableInv, WaitchldOK
<1>11. SlotsOK'
  BY <1>1, <1>9 DEF TableInv, SlotsOK
<1> QED BY <1>9, <1>10, <1>11 DEF TableInv

\* The user is told, and the dead jobs leave.
LEMMA ToldGood ==
  ASSUME NEW t, Good(t)
  PROVE  /\ Good(Notified(t)) /\ DOMAIN Notified(t).jobs = DOMAIN t.jobs
         /\ Good(CleanedUp(Notified(t)))
         /\ DOMAIN CleanedUp(Notified(t)).jobs \subseteq DOMAIN t.jobs
<1>1. Alike(t, Notified(t))
  BY NotifiedAlike DEF Good
<1>2. Good(Notified(t)) /\ DOMAIN Notified(t).jobs = DOMAIN t.jobs
  BY <1>1, AlikeGood DEF Alike
<1> QED BY <1>2, CleanedUpGood

LEMMA WaitEndsKeeps ==
  ASSUME TableInv, WaitEnds \/ NotifyEnds
  PROVE  TableInv'
<1>1. /\ ~reaping.on /\ UNCHANGED <<reaping, made>> /\ shell' \in {"ready", "waitall"}
      /\ table' = CleanedUp(Notified(table))
  BY DEF WaitEnds, NotifyEnds, TableInv, WaitchldOK
<1>2. Good(table)' /\ DOMAIN table'.jobs \subseteq DOMAIN table.jobs
  BY <1>1, ToldGood DEF TableInv
<1> QED BY <1>1, <1>2, QuietStep

LEMMA WaitAllKeeps ==
  ASSUME TableInv, WaitAll
  PROVE  TableInv'
<1>1. ~reaping.on /\ UNCHANGED <<reaping, made>> /\ shell' \in {"ready", "wait"}
  BY DEF WaitAll, Ready
<1>2. CASE UNCHANGED table
  BY <1>1, <1>2, SameTable
<1>3. CASE ~UNCHANGED table
  <2> DEFINE t == DeadTold(table)
             u == CleanedUp(t)
  <2>1. table' = [u EXCEPT !.saved = Status!Blank]
    BY <1>3 DEF WaitAll
  <2>2. Good(t) /\ DOMAIN t.jobs = DOMAIN table.jobs
    <3>1. Alike(table, t)
      BY DEF TableInv, Good, IsTable, Alike, DeadTold
    <3> QED BY <3>1, AlikeGood DEF TableInv, Alike
  <2> HIDE DEF t
  <2>3. Good(u) /\ DOMAIN u.jobs \subseteq DOMAIN table.jobs
    BY <2>2, CleanedUpGood
  <2> HIDE DEF u
  <2>4. Alike(u, table')
    BY <2>1, <2>3, SavedAlike DEF Good
  <2>5. Good(table)' /\ DOMAIN table'.jobs \subseteq DOMAIN table.jobs
    BY <2>3, <2>4, AlikeGood DEF Alike
  <2> QED BY <1>1, <2>5, QuietStep
<1> QED BY <1>2, <1>3

\* wait -n tells of one job.
LEMMA TellOneOfKeeps ==
  ASSUME TableInv, NEW jobs, NEW next, next \notin {"made", "piping"},
         ~reaping.on, TellOneOf(jobs, next)
  PROVE  TableInv'
<1>1. UNCHANGED <<reaping, made>> /\ shell' \notin {"made", "piping"}
  BY DEF TellOneOf
<1>2. CASE UNCHANGED table
  BY <1>1, <1>2, SameTable
<1>3. CASE table' = Deleted(Notified(table), Smallest(jobs), TRUE)
  <2>1. Good(Notified(table)) /\ DOMAIN Notified(table).jobs = DOMAIN table.jobs
    BY ToldGood DEF TableInv
  <2> DEFINE told == Notified(table)
             gone == Smallest(jobs)
  <2> HIDE DEF told, gone
  <2>2. Good(Deleted(told, gone, TRUE)) /\ DOMAIN Deleted(told, gone, TRUE).jobs = DOMAIN told.jobs \ {gone}
    BY <2>1, DeletedGood DEF told
  <2>3. Good(table)' /\ DOMAIN table'.jobs \subseteq DOMAIN table.jobs
    BY <1>3, <2>1, <2>2 DEF told, gone
  <2> QED BY <1>1, <2>3, QuietStep
<1> QED BY <1>2, <1>3 DEF TellOneOf

\* A stopped job goes on.
LEMMA FgKeeps ==
  ASSUME TableInv, NEW j, Fg(j)
  PROVE  TableInv'
<1> DEFINE started == [table EXCEPT !.jobs[j].notified = FALSE]
           chosen  == SetCurrent(started, j)
           front   == [chosen EXCEPT !.jobs[j].fg = TRUE]
           going   == SetRunning(front, j)
           told    == [going EXCEPT !.jobs[j].notified = TRUE]
<1>1. /\ ~reaping.on /\ UNCHANGED <<reaping, made>> /\ shell' = "wait"
      /\ table' = told \/ table' = front
      /\ Has(table, j)
  BY DEF Fg, Ready
<1>2. Good(table)
  BY DEF TableInv
<1>3. Alike(table, started)
  BY <1>2 DEF Good, IsTable, Alike
<1> HIDE DEF started
<1>4. Good(chosen) /\ DOMAIN chosen.jobs = DOMAIN table.jobs
  <2>1. IsTable(started) /\ DOMAIN started.jobs \subseteq Slots /\ Has(started, j)
    BY <1>1, <1>2, <1>3 DEF Good, Alike, Has
  <2> QED BY <1>3, <2>1, SetCurrentGood DEF Alike
<1> HIDE DEF chosen
<1>5. Alike(chosen, front)
  BY <1>4 DEF Good, IsTable, Alike
<1> HIDE DEF front
<1>6. Alike(front, going)
  BY <1>5, SetRunningAlike DEF Alike
<1> HIDE DEF going
<1>7. Alike(going, told)
  BY <1>6 DEF IsTable, Alike
<1> HIDE DEF told
<1>8. Alike(chosen, table')
  <2>1. Alike(chosen, told)
    BY <1>5, <1>6, <1>7, AlikeAlike
  <2> QED BY <1>1, <1>5, <2>1
<1>9. Good(table)' /\ DOMAIN table'.jobs \subseteq DOMAIN table.jobs
  BY <1>4, <1>8, AlikeGood DEF Alike
<1> QED BY <1>1, <1>9, QuietStep

LEMMA ResumeKeeps ==
  ASSUME TableInv, NEW j, Resume(j)
  PROVE  TableInv'
<1> DEFINE going == SetRunning(table, j)
           t     == [going EXCEPT !.jobs[j].fg = FALSE, !.jobs[j].notified = TRUE]
<1>1. /\ ~reaping.on /\ UNCHANGED <<reaping, made>> /\ shell' = "ready"
      /\ table' = ResetCurrent(t) \/ table' = t
  BY DEF Resume, Ready
<1>2. Good(table)
  BY DEF TableInv
<1>3. Alike(table, going)
  BY <1>2, SetRunningAlike DEF Good
<1> HIDE DEF going
<1>4. Alike(going, t)
  BY <1>3 DEF IsTable, Alike
<1> HIDE DEF t
<1>5. Good(t) /\ DOMAIN t.jobs = DOMAIN table.jobs
  <2>1. Alike(table, t)
    BY <1>3, <1>4, AlikeAlike
  <2> QED BY <1>2, <2>1, AlikeGood DEF Alike
<1>6. Good(ResetCurrent(t)) /\ DOMAIN ResetCurrent(t).jobs = DOMAIN t.jobs
  BY <1>5, ResetCurrentGood DEF Good
<1>7. Good(table)' /\ DOMAIN table'.jobs \subseteq DOMAIN table.jobs
  BY <1>1, <1>5, <1>6
<1> QED BY <1>1, <1>7, QuietStep

LEMMA DisownKeeps ==
  ASSUME TableInv, NEW j, Disown(j)
  PROVE  TableInv'
<1>1. /\ ~reaping.on /\ UNCHANGED <<reaping, made>> /\ shell' = "ready"
      /\ table' = Deleted(table, j, TRUE)
  BY DEF Disown, Ready
<1>2. Good(Deleted(table, j, TRUE)) /\ DOMAIN Deleted(table, j, TRUE).jobs = DOMAIN table.jobs \ {j}
  BY DeletedGood DEF TableInv
<1>3. Good(table)' /\ DOMAIN table'.jobs \subseteq DOMAIN table.jobs
  BY <1>1, <1>2
<1> QED BY <1>1, <1>3, QuietStep

LEMMA ListJobsKeeps ==
  ASSUME TableInv, ListJobs
  PROVE  TableInv'
<1> DEFINE t == CleanedUp(table)
           jobs == [j \in DOMAIN t.jobs |-> [t.jobs[j] EXCEPT !.notified = TRUE]]
<1>1. /\ ~reaping.on /\ UNCHANGED <<reaping, made>> /\ shell' = "ready"
      /\ table' = [t EXCEPT !.jobs = jobs]
  BY DEF ListJobs, Ready
<1>2. Good(t) /\ DOMAIN t.jobs \subseteq DOMAIN table.jobs
  BY CleanedUpGood DEF TableInv
<1> HIDE DEF t
<1>3. DOMAIN jobs = DOMAIN t.jobs
  OBVIOUS
<1> HIDE DEF jobs
<1>4. Alike(t, table')
  BY <1>1, <1>2, <1>3, SameJobsAlike DEF Good
<1>5. Good(table)' /\ DOMAIN table'.jobs \subseteq DOMAIN table.jobs
  BY <1>2, <1>4, AlikeGood DEF Alike
<1> QED BY <1>1, <1>5, QuietStep

LEMMA TableInvStep ==
  ASSUME TableInv, [JobsNext]_jobsVars
  PROVE  TableInv'
<1>1. ASSUME NEW p \in Pids, Exit(p) \/ Suspend(p) \/ Continue(p) PROVE TableInv'
  <2>1. UNCHANGED <<table, reaping, made, shell>>
    BY <1>1 DEF Exit, Suspend, Continue, Changes
  <2> QED BY <2>1, SameTable
<1>2. ASSUME NEW p \in Pids, WaitpidChild(p) PROVE TableInv'
  BY <1>2, WaitpidKeeps
<1>3. CASE SigchldHandler
  BY <1>3, SigchldKeeps
<1>4. CASE WaitpidNothing \/ WaitpidNoChild
  BY <1>4, WaitchldEnds
<1>5. ASSUME NEW p \in Pids, NEW length \in 1 .. MaxLength, NEW async \in BOOLEAN,
             Fork(p, length, async)
      PROVE  TableInv'
  BY <1>5, ForkKeeps
<1>6. CASE StopPipeline
  BY <1>6, StopPipelineKeeps
<1>7. CASE WaitBlocks \/ AnyBlocks
  BY <1>7, WaitBegins
<1>8. CASE WaitEnds \/ NotifyEnds
  BY <1>8, WaitEndsKeeps
<1>9. CASE WaitAll
  BY <1>9, WaitAllKeeps
<1>10. CASE Builtins
  <2>1. ASSUME NEW p \in Pids, WaitPid(p) PROVE TableInv'
    <3>1. UNCHANGED <<table, reaping, made>> /\ ~reaping.on /\ shell' \in {"wait", "ready"}
      BY <2>1 DEF WaitPid, Ready
    <3> QED BY <3>1, SameTable
  <2>2. ASSUME NEW j \in Slots, Fg(j) \/ Resume(j) \/ Disown(j) PROVE TableInv'
    BY <2>2, FgKeeps, ResumeKeeps, DisownKeeps
  <2>3. CASE WaitAny
    BY <2>3, TellOneOfKeeps DEF WaitAny, Ready
  <2>4. CASE ListJobs
    BY <2>4, ListJobsKeeps
  <2> QED BY <1>10, <2>1, <2>2, <2>3, <2>4 DEF Builtins
<1>11. CASE AnyWoken
  BY <1>11, TellOneOfKeeps DEF AnyWoken
<1>12. CASE AnyChecks \/ AnyWakes
  <2>1. UNCHANGED <<table, reaping, made>> /\ ~reaping.on /\ shell' \in {"next", "ready", "woken"}
    BY <1>12 DEF AnyChecks, AnyWakes
  <2> QED BY <2>1, SameTable
<1>13. CASE NotifyBegins
  <2>1. UNCHANGED <<table, reaping, made>> /\ ~reaping.on /\ shell' = "notify"
    BY <1>13 DEF NotifyBegins, Ready
  <2> QED BY <2>1, SameTable
<1>14. CASE UNCHANGED jobsVars
  BY <1>14, SameTable DEF jobsVars
<1> QED BY <1>1, <1>2, <1>3, <1>4, <1>5, <1>6, <1>7, <1>8, <1>9, <1>10, <1>11, <1>12,
           <1>13, <1>14 DEF JobsNext

\* fg and bg without a job never follow js.j_current or js.j_previous to a slot
\* that is free, whatever SIGCHLD, the prompt and the builtins delete
\* (jobs.c:1386-1443, 3421-3513).
THEOREM CurrentIsInTable == JobsSpec => []CurrentIsAJob
<1>1. TableInv /\ [JobsNext]_jobsVars => TableInv'
  BY TableInvStep
<1>2. TableInv => CurrentIsAJob
  BY DEF TableInv, Good, CurrentOK, CurrentIsAJob
<1> QED BY <1>1, <1>2, TableInvInit, PTL DEF JobsSpec

-----------------------------------------------------------------------------
(* The statuses, of the jobs and of those that are remembered. *)

\* The processes of a job are of one number, and the dead ones have it as status.
Process == [pid : Pids \cup {ZeroPid}, running : BOOLEAN, status : Int]
JobFields == {"procs", "state", "fg", "async", "notified"}
JobStates == {"running", "stopped", "dead"}
OfOne(procs, num, m) == \A i \in DOMAIN procs :
  /\ procs[i].pid \in Pids => num[procs[i].pid] = m
  /\ ~Alive(procs[i]) => procs[i].status = m
JobOK(job, num) ==
  /\ JobFields \subseteq DOMAIN job /\ job.state \in JobStates
  /\ job.procs \in Seq(Process) /\ job.procs # <<>>
  /\ \E m \in Nat : OfOne(job.procs, num, m)
  /\ job.state = "dead" => \A i \in DOMAIN job.procs : ~Alive(job.procs[i])

\* A pid is in one job, or of the pipeline, or remembered, or unknown.
Holds(t, j, p) == \E i \in DOMAIN Procs(t, j) : Procs(t, j)[i].pid = p
SavedFor(t, p) == {i \in 1 .. Room : t.saved[i].pid = p}
OnePlace(t, new) ==
  /\ \A p \in Pids : \A j, k \in DOMAIN t.jobs : Holds(t, j, p) /\ Holds(t, k, p) => j = k
  /\ \A p \in Pids : \A j \in DOMAIN t.jobs :
       Holds(t, j, p) => p \notin new /\ SavedFor(t, p) = {}
  /\ new \subseteq Pids /\ \A p \in new : SavedFor(t, p) = {}

\* What is remembered is the number of the pid's last child, but for one disowned.
Memo == [pid : Pids \cup {ZeroPid, NO_PID}, status : Int]
SavedOK(t, num, w) ==
  /\ t.saved \in Seq(Memo) /\ Len(t.saved) = Room
  /\ \A i \in 1 .. Room : t.saved[i].pid \in Pids /\ w[t.saved[i].pid] # "disowned" =>
                            t.saved[i].status = num[t.saved[i].pid]

\* A status that is owed is remembered, or will be when its job is deleted.
Background(job) == job.async /\ ~job.fg
OwedKept(t, w) == \A p \in Pids : w[p] = "owed" =>
  \/ SavedFor(t, p) # {}
  \/ \E j \in DOMAIN t.jobs : Last(t, j).pid = p /\ Background(t.jobs[j])

\* There is room for the statuses of n pipelines: for those in the table too.
RoomLeft(t, n) == \E k \in 0 .. Room :
  /\ k + Cardinality(DOMAIN t.jobs) <= n
  /\ \A i \in 1 .. Room - k : t.saved[i] = Status!Gone

Fields(t) == IsTable(t) /\ DOMAIN t.jobs \subseteq Slots
TableOK(t, num, w, new, n) ==
  /\ \A j \in DOMAIN t.jobs : JobOK(t.jobs[j], num)
  /\ OnePlace(t, new) /\ SavedOK(t, num, w) /\ OwedKept(t, w) /\ RoomLeft(t, n)

-----------------------------------------------------------------------------
LEMMA RoomIs == Room \in Nat /\ Room > 0 /\ MaxJobs \in Nat
BY JobsAssumption

LEMMA SlotsFinite == IsFiniteSet(Slots)
<1>1. 1 \in Int /\ MaxJobs \in Int BY RoomIs
<1>2. IsFiniteSet(1 .. MaxJobs) BY <1>1, FS_Interval
<1> QED BY <1>2 DEF Slots

\* The processes of a job are there, the last one too.
LEMMA ProcsAre ==
  ASSUME NEW num, NEW job, JobOK(job, num)
  PROVE  /\ Len(job.procs) \in Nat \ {0} /\ DOMAIN job.procs = 1 .. Len(job.procs)
         /\ Len(job.procs) \in DOMAIN job.procs
         /\ \A i \in DOMAIN job.procs : job.procs[i] \in Process
<1>1. job.procs \in Seq(Process) /\ job.procs # <<>>
  BY DEF JobOK
<1>2. Len(job.procs) \in Nat \ {0}
  BY <1>1, EmptySeq
<1>3. job.procs \in [1 .. Len(job.procs) -> Process]
  BY <1>1, LenProperties
<1> QED BY <1>2, <1>3

\* TableOK is about the jobs and what is saved.
LEMMA SameOK ==
  ASSUME NEW t, NEW u, NEW num, NEW w, NEW new, NEW n, TableOK(t, num, w, new, n),
         u.jobs = t.jobs, u.saved = t.saved
  PROVE  TableOK(u, num, w, new, n)
BY DEF TableOK, OnePlace, Holds, Procs, SavedFor, SavedOK, OwedKept, Last, RoomLeft

LEMMA SetCurrentSame ==
  ASSUME NEW t, IsTable(t), NEW job
  PROVE  LET u == SetCurrent(t, job)
         IN IsTable(u) /\ u.jobs = t.jobs /\ u.saved = t.saved
<1> DEFINE moved == IF t.cur # job THEN [t EXCEPT !.prev = t.cur, !.cur = job] ELSE t
           older == Newest(t, job, "stopped")
           runs  == Newest(t, IF In(t, job, "running") THEN job ELSE MaxJobs + 1, "running")
           other == IF In(t, job, "stopped") /\ older # NoJob THEN older
                    ELSE IF runs # NoJob THEN runs ELSE job
<1>1. IsTable(moved) /\ moved.jobs = t.jobs /\ moved.saved = t.saved
  BY DEF IsTable
<1>2. SetCurrent(t, job) = IF moved.prev # job /\ In(t, moved.prev, "stopped") THEN moved
                           ELSE [moved EXCEPT !.prev = other]
  BY DEF SetCurrent
<1> HIDE DEF moved, other
<1> QED BY <1>1, <1>2 DEF IsTable

LEMMA ResetCurrentSame ==
  ASSUME NEW t, IsTable(t)
  PROVE  LET u == ResetCurrent(t)
         IN IsTable(u) /\ u.jobs = t.jobs /\ u.saved = t.saved
<1>1. \A job : LET u == SetCurrent(t, job)
               IN IsTable(u) /\ u.jobs = t.jobs /\ u.saved = t.saved
  BY SetCurrentSame
<1>2. LET u == [t EXCEPT !.cur = NoJob, !.prev = NoJob]
      IN IsTable(u) /\ u.jobs = t.jobs /\ u.saved = t.saved
  BY DEF IsTable
<1> QED BY <1>1, <1>2 DEF ResetCurrent

LEMMA SmallestIsIn ==
  ASSUME NEW S, S \subseteq Slots, S # {}
  PROVE  Smallest(S) \in S
<1>1. S \subseteq Nat BY DEF Slots
<1>2. \E n \in S : \A m \in S : n <= m BY <1>1, LeastIsFirst
<1> QED BY <1>2 DEF Smallest

\* find_job finds the job that holds the pid.
LEMMA JobOfIs ==
  ASSUME NEW t, DOMAIN t.jobs \subseteq Slots, NEW p
  PROVE  \/ JobOf(t, p) = NoJob /\ \A j \in DOMAIN t.jobs : ~Holds(t, j, p)
         \/ JobOf(t, p) \in DOMAIN t.jobs /\ Holds(t, JobOf(t, p), p)
<1> DEFINE S == {j \in DOMAIN t.jobs : Holds(t, j, p)}
<1>1. S \subseteq Slots OBVIOUS
<1>2. JobOf(t, p) = Smallest(S) BY DEF JobOf, Holds
<1>3. S = {} => JobOf(t, p) = NoJob BY <1>2 DEF Smallest
<1>4. S # {} => JobOf(t, p) \in S BY <1>1, <1>2, SmallestIsIn
<1> QED BY <1>3, <1>4

LEMMA LastIsHeld ==
  ASSUME NEW t, NEW num, NEW j, JobOK(t.jobs[j], num)
  PROVE  Holds(t, j, Last(t, j).pid) /\ Last(t, j) \in Process
BY ProcsAre DEF Holds, Last, Procs

\* The statuses that are taken off the list of those owed are of pids that are not saved.
LEMMA UnowedOK ==
  ASSUME NEW t, NEW num, NEW w, NEW new, NEW n, TableOK(t, num, w, new, n),
         NEW pids, \A p \in pids \cap Pids : SavedFor(t, p) = {}
  PROVE  TableOK(t, num, Unowed(w, pids), new, n)
<1> DEFINE v == Unowed(w, pids)
<1>1. \A p \in Pids : v[p] = IF p \in pids THEN "none" ELSE w[p]
  BY DEF Unowed
<1> HIDE DEF v
<1>2. OwedKept(t, v)
  BY <1>1 DEF TableOK, OwedKept
<1>3. \A i \in 1 .. Room : t.saved[i].pid \in Pids => t.saved[i].pid \notin pids
  BY DEF SavedFor
<1>4. SavedOK(t, num, v)
  BY <1>1, <1>3 DEF TableOK, SavedOK
<1> QED BY <1>2, <1>4 DEF TableOK, v

LEMMA DisownedOK ==
  ASSUME NEW t, NEW num, NEW w, NEW new, NEW n, TableOK(t, num, w, new, n), NEW q,
         NEW v, v = [p \in Pids |-> IF p = q THEN "disowned" ELSE w[p]]
  PROVE  TableOK(t, num, v, new, n)
<1>1. \A p \in Pids : v[p] = IF p = q THEN "disowned" ELSE w[p]
  OBVIOUS
<1>2. OwedKept(t, v)
  BY <1>1 DEF TableOK, OwedKept
<1>3. SavedOK(t, num, v)
  BY <1>1 DEF TableOK, SavedOK
<1> QED BY <1>2, <1>3 DEF TableOK
-----------------------------------------------------------------------------
(* delete_job. *)

\* What is remembered moves up, the oldest goes.
LEMMA RememberIs ==
  ASSUME NEW m \in Seq(Memo), Len(m) = Room, NEW entry \in Memo
  PROVE  LET u == Status!Remember(m, entry.pid, entry.status)
         IN /\ u \in Seq(Memo) /\ Len(u) = Room /\ u[Room] = entry
            /\ \A i \in 1 .. Room - 1 : u[i] = m[i + 1]
<1> DEFINE u == Append(Tail(m), entry)
<1>1. m # <<>> BY RoomIs, EmptySeq
<1>2. /\ Tail(m) \in Seq(Memo) /\ Len(Tail(m)) = Room - 1
      /\ \A i \in 1 .. Room - 1 : Tail(m)[i] = m[i + 1]
  BY <1>1, HeadTailProperties
<1>3. /\ u \in Seq(Memo) /\ Len(u) = Room - 1 + 1 /\ u[Room - 1 + 1] = entry
      /\ \A i \in 1 .. Room - 1 : u[i] = Tail(m)[i]
  <2> HIDE DEF Memo
  <2>1. entry \in Memo OBVIOUS
  <2> QED BY <1>2, <2>1, AppendProperties
<1>4. Room - 1 + 1 = Room BY RoomIs
<1>5. entry = [pid |-> entry.pid, status |-> entry.status] BY DEF Memo
<1>6. Status!Remember(m, entry.pid, entry.status) = u BY <1>5 DEF Status!Remember
<1> QED BY <1>2, <1>3, <1>4, <1>6

LEMMA WithoutOK ==
  ASSUME NEW t, NEW num, NEW w, NEW new, NEW n, TableOK(t, num, w, new, n), Fields(t),
         n \in Int, n <= Room, NEW j \in DOMAIN t.jobs, NEW save,
         LET last == Last(t, j).pid
         IN \/ save /\ (t.jobs[j].state = "dead" \/ (last \in Pids => w[last] = "disowned"))
            \/ ~save /\ (last \in Pids => w[last] # "owed")
  PROVE  TableOK(Without(t, j, save), num, w, new, n)
<1> DEFINE u == Without(t, j, save)
           last == Last(t, j)
           saves == save /\ Background(t.jobs[j])
<1>1. /\ IsTable(t) /\ DOMAIN t.jobs \subseteq Slots /\ JobOK(t.jobs[j], num)
      /\ OnePlace(t, new) /\ SavedOK(t, num, w) /\ OwedKept(t, w) /\ RoomLeft(t, n)
  BY DEF TableOK, Fields
<1>2. Holds(t, j, last.pid) /\ last \in Process
  BY <1>1, LastIsHeld
<1> DEFINE entry == [pid |-> last.pid, status |-> last.status]
<1>3. /\ DOMAIN u.jobs = DOMAIN t.jobs \ {j}
      /\ \A k \in DOMAIN u.jobs : u.jobs[k] = t.jobs[k]
  BY <1>1 DEF Without, IsTable
<1>4. u.saved = IF saves THEN Status!Remember(t.saved, entry.pid, entry.status) ELSE t.saved
  BY <1>1 DEF Without, IsTable, Background
<1> HIDE DEF u
<1>5. \A k \in DOMAIN u.jobs : /\ k \in DOMAIN t.jobs /\ k # j
                               /\ Procs(u, k) = Procs(t, k) /\ Last(u, k) = Last(t, k)
                               /\ \A p : Holds(u, k, p) <=> Holds(t, k, p)
  BY <1>3 DEF Procs, Last, Holds
<1>6. \A k \in DOMAIN u.jobs : JobOK(u.jobs[k], num)
  BY <1>3 DEF TableOK
<1>7. entry \in Memo /\ entry.pid = last.pid /\ entry.status = last.status
  BY <1>2 DEF Process, Memo
<1>8. t.saved \in Seq(Memo) /\ Len(t.saved) = Room
  BY <1>1 DEF SavedOK
<1> HIDE DEF entry
<1>9. saves => /\ u.saved \in Seq(Memo) /\ Len(u.saved) = Room /\ u.saved[Room] = entry
               /\ \A i \in 1 .. Room - 1 : u.saved[i] = t.saved[i + 1]
  <2> HIDE DEF saves
  <2>1. LET v == Status!Remember(t.saved, entry.pid, entry.status)
        IN /\ v \in Seq(Memo) /\ Len(v) = Room /\ v[Room] = entry
           /\ \A i \in 1 .. Room - 1 : v[i] = t.saved[i + 1]
    BY <1>7, <1>8, RememberIs
  <2> QED BY <1>4, <2>1
<1> HIDE DEF last, saves
<1>10. PICK k \in 0 .. Room : /\ k + Cardinality(DOMAIN t.jobs) <= n
                              /\ \A i \in 1 .. Room - k : t.saved[i] = Status!Gone
  BY <1>1 DEF RoomLeft
<1>11. /\ IsFiniteSet(DOMAIN t.jobs) /\ Cardinality(DOMAIN t.jobs) \in Nat
       /\ Cardinality(DOMAIN u.jobs) = Cardinality(DOMAIN t.jobs) - 1
       /\ Cardinality(DOMAIN t.jobs) # 0
  <2>1. IsFiniteSet(Slots) BY SlotsFinite
  <2>2. IsFiniteSet(DOMAIN t.jobs) BY <1>1, <2>1, FS_Subset
  <2>3. DOMAIN t.jobs # {} OBVIOUS
  <2>4. Cardinality(DOMAIN t.jobs) \in Nat BY <2>2, FS_CardinalityType
  <2>5. Cardinality(DOMAIN t.jobs) # 0 BY <2>2, <2>3, FS_EmptySet
  <2>6. Cardinality(DOMAIN t.jobs \ {j}) = Cardinality(DOMAIN t.jobs) - 1
    BY <2>2, FS_RemoveElement
  <2> QED BY <1>3, <2>2, <2>4, <2>5, <2>6
<1>12. k < Room /\ t.saved[1] = Status!Gone
  <2>1. k < Room BY <1>10, <1>11, RoomIs
  <2>2. 1 \in 1 .. Room - k BY <2>1, <1>10, RoomIs
  <2> QED BY <1>10, <2>1, <2>2
<1>13. Status!Gone.pid \notin Pids
  BY JobsAssumption DEF Status!Gone, Status!NoPid, NO_PID
<1>14. RoomLeft(u, n)
  <2>1. CASE saves
    <3>1. k + 1 \in 0 .. Room /\ (k + 1) + Cardinality(DOMAIN u.jobs) <= n
      BY <1>10, <1>11, <1>12, RoomIs
    <3>2. ASSUME NEW i \in 1 .. Room - (k + 1) PROVE u.saved[i] = Status!Gone
      <4>1. i \in 1 .. Room - 1 /\ i + 1 \in 1 .. Room - k BY <1>10, RoomIs
      <4> QED BY <1>9, <1>10, <2>1, <4>1
    <3> QED BY <3>1, <3>2 DEF RoomLeft
  <2>2. CASE ~saves
    BY <1>4, <1>10, <1>11, <2>2 DEF RoomLeft
  <2> QED BY <2>1, <2>2
\* What is saved now was saved before, or is the last process of the job.
<1>15. \A i \in 1 .. Room : (u.saved[i] = entry /\ saves) \/ \E h \in 1 .. Room : u.saved[i] = t.saved[h]
  <2>1. CASE saves
    <3> SUFFICES ASSUME NEW i \in 1 .. Room, i # Room
                 PROVE  \E h \in 1 .. Room : u.saved[i] = t.saved[h]
      BY <1>9, <2>1
    <3>1. i \in 1 .. Room - 1 /\ i + 1 \in 1 .. Room BY RoomIs
    <3> QED BY <1>9, <2>1, <3>1
  <2>2. CASE ~saves BY <1>4, <2>2
  <2> QED BY <2>1, <2>2
<1>16. \A p \in Pids : SavedFor(t, p) = {} => SavedFor(u, p) = {} \/ (p = last.pid /\ saves)
  <2> SUFFICES ASSUME NEW p \in Pids, SavedFor(t, p) = {}, NEW i \in 1 .. Room, u.saved[i].pid = p
               PROVE  p = last.pid /\ saves
    BY DEF SavedFor
  <2>1. \A h \in 1 .. Room : t.saved[h].pid # p BY DEF SavedFor
  <2> QED BY <1>7, <1>15, <2>1
<1>17. OnePlace(u, new)
  <2>1. \A p \in Pids : \A g \in DOMAIN u.jobs : Holds(u, g, p) => p # last.pid
    BY <1>1, <1>2, <1>5 DEF OnePlace
  <2>2. \A p \in new : last.pid \in Pids => p # last.pid
    BY <1>1, <1>2 DEF OnePlace
  <2>3. \A p \in Pids : \A g, h \in DOMAIN u.jobs : Holds(u, g, p) /\ Holds(u, h, p) => g = h
    BY <1>1, <1>5 DEF OnePlace
  <2>4. \A p \in Pids : \A g \in DOMAIN u.jobs : Holds(u, g, p) => p \notin new /\ SavedFor(u, p) = {}
    BY <1>1, <1>5, <1>16, <2>1 DEF OnePlace
  <2>5. ASSUME NEW p \in new PROVE SavedFor(u, p) = {}
    BY <1>1, <1>16, <2>2, <2>5 DEF OnePlace
  <2> QED BY <1>1, <2>3, <2>4, <2>5 DEF OnePlace
<1>18. SavedOK(u, num, w)
  <2>1. u.saved \in Seq(Memo) /\ Len(u.saved) = Room
    BY <1>4, <1>8, <1>9
  <2>2. ASSUME saves, last.pid \in Pids, w[last.pid] # "disowned"
        PROVE  last.status = num[last.pid]
    <3>1. t.jobs[j].state = "dead" BY <2>2 DEF saves, last
    <3>2. PICK m \in Nat : OfOne(t.jobs[j].procs, num, m) BY <1>1 DEF JobOK
    <3>3. Len(Procs(t, j)) \in DOMAIN Procs(t, j) BY <1>1, ProcsAre DEF Procs
    <3>4. ~Alive(last) BY <1>1, <3>1, <3>3 DEF JobOK, Procs, last, Last
    <3> QED BY <2>2, <3>2, <3>3, <3>4 DEF OfOne, Procs, last, Last
  <2>3. ASSUME NEW i \in 1 .. Room, u.saved[i].pid \in Pids, w[u.saved[i].pid] # "disowned"
        PROVE  u.saved[i].status = num[u.saved[i].pid]
    <3>1. CASE u.saved[i] = entry /\ saves BY <1>7, <2>2, <2>3, <3>1
    <3>2. ASSUME NEW h \in 1 .. Room, u.saved[i] = t.saved[h]
          PROVE  u.saved[i].status = num[u.saved[i].pid]
      BY <1>1, <2>3, <3>2 DEF SavedOK
    <3> QED BY <1>15, <3>1, <3>2
  <2> QED BY <2>1, <2>3 DEF SavedOK
<1>19. OwedKept(u, w)
  <2> SUFFICES ASSUME NEW p \in Pids, w[p] = "owed"
               PROVE  \/ SavedFor(u, p) # {}
                      \/ \E g \in DOMAIN u.jobs : Last(u, g).pid = p /\ Background(u.jobs[g])
    BY DEF OwedKept
  <2>1. CASE SavedFor(t, p) # {}
    <3>1. PICK i \in 1 .. Room : t.saved[i].pid = p BY <2>1 DEF SavedFor
    <3>2. CASE ~saves BY <1>4, <2>1, <3>2 DEF SavedFor
    <3>3. CASE saves
      <4>1. i # 1 BY <1>12, <1>13, <3>1
      <4>2. i - 1 \in 1 .. Room - 1 /\ i - 1 \in 1 .. Room /\ (i - 1) + 1 = i BY <4>1, RoomIs
      <4>3. u.saved[i - 1] = t.saved[i] BY <1>9, <3>3, <4>2
      <4> QED BY <3>1, <4>2, <4>3 DEF SavedFor
    <3> QED BY <3>2, <3>3
  <2>2. ASSUME NEW g \in DOMAIN t.jobs, Last(t, g).pid = p, Background(t.jobs[g])
        PROVE  \/ SavedFor(u, p) # {}
               \/ \E h \in DOMAIN u.jobs : Last(u, h).pid = p /\ Background(u.jobs[h])
    <3>1. CASE g # j
      <4>1. g \in DOMAIN u.jobs BY <1>3, <3>1
      <4> QED BY <1>3, <1>5, <2>2, <4>1
    <3>2. CASE g = j
      <4>1. saves BY <2>2, <3>2 DEF saves, last
      <4>2. u.saved[Room].pid = p BY <1>7, <1>9, <2>2, <3>2, <4>1 DEF last
      <4>3. Room \in 1 .. Room BY RoomIs
      <4> QED BY <4>2, <4>3 DEF SavedFor
    <3> QED BY <3>1, <3>2
  <2> QED BY <1>1, <2>1, <2>2 DEF OwedKept
<1> QED BY <1>6, <1>14, <1>17, <1>18, <1>19 DEF TableOK, u

LEMMA DeletedOK ==
  ASSUME NEW t, NEW num, NEW w, NEW new, NEW n, TableOK(t, num, w, new, n), Fields(t),
         n \in Int, n <= Room, NEW j \in DOMAIN t.jobs, NEW save,
         LET last == Last(t, j).pid
         IN \/ save /\ (t.jobs[j].state = "dead" \/ (last \in Pids => w[last] = "disowned"))
            \/ ~save /\ (last \in Pids => w[last] # "owed")
  PROVE  TableOK(Deleted(t, j, save), num, w, new, n)
<1> DEFINE u == Without(t, j, save)
<1>1. TableOK(u, num, w, new, n) BY WithoutOK
<1>2. IsTable(u) BY DEF Fields, IsTable, Without
<1>3. Deleted(t, j, save) = IF j \in {t.cur, t.prev} THEN ResetCurrent(u) ELSE u
  BY DEF Deleted
<1> HIDE DEF u
<1>4. TableOK(ResetCurrent(u), num, w, new, n)
  BY <1>1, <1>2, ResetCurrentSame, SameOK
<1> QED BY <1>1, <1>3, <1>4

LEMMA CleanedUpOK ==
  ASSUME NEW t, NEW num, NEW w, NEW new, NEW n, TableOK(t, num, w, new, n), Good(t),
         n \in Int, n <= Room
  PROVE  TableOK(CleanedUp(t), num, w, new, n)
<1> DEFINE upTo == CHOOSE f : f = [j \in 0 .. MaxJobs |-> Turn(f, t, j)]
           Fine(u) == Good(u) /\ TableOK(u, num, w, new, n)
           S == {j \in 0 .. MaxJobs : ~Fine(upTo[j])}
<1>1. MaxJobs \in Nat
  BY JobsAssumption
<1>2. upTo = [j \in 0 .. MaxJobs |-> Turn(upTo, t, j)]
  BY <1>1, TurnsExist
<1>3. CleanedUp(t) = upTo[MaxJobs]
  BY DEF CleanedUp, Turn
<1> HIDE DEF upTo
<1>4. \A j \in 0 .. MaxJobs : upTo[j] = Turn(upTo, t, j)
  BY <1>2
<1>5. ASSUME NEW u, NEW j, Fine(u), In(u, j, "dead") PROVE Fine(Deleted(u, j, TRUE))
  <2>1. j \in DOMAIN u.jobs /\ u.jobs[j].state = "dead" BY <1>5 DEF In, Has
  <2>2. Fields(u) BY <1>5 DEF Good, Fields
  <2>3. TableOK(Deleted(u, j, TRUE), num, w, new, n) BY <1>5, <2>1, <2>2, DeletedOK
  <2> QED BY <1>5, <2>3, DeletedGood
<1> HIDE DEF Fine
<1>6. S = {}
  <2> SUFFICES ASSUME S # {} PROVE FALSE
    OBVIOUS
  <2>1. PICK k \in S : \A m \in S : k <= m
    <3>1. S \subseteq Nat BY <1>1
    <3> QED BY <3>1, LeastIsFirst
  <2>2. k \in 0 .. MaxJobs /\ ~Fine(upTo[k]) /\ upTo[k] = Turn(upTo, t, k)
    BY <1>4, <2>1
  <2>3. CASE k = 0
    <3>1. Fine(t) BY DEF Fine
    <3> QED BY <2>2, <2>3, <3>1 DEF Turn
  <2>4. CASE k # 0
    <3>1. k - 1 \in 0 .. MaxJobs /\ k - 1 \notin S
      BY <1>1, <2>1, <2>2, <2>4
    <3>2. Fine(upTo[k - 1])
      BY <3>1
    <3> QED BY <1>5, <2>2, <2>4, <3>2 DEF Turn
  <2> QED BY <2>3, <2>4
<1>7. Fine(upTo[MaxJobs])
  BY <1>1, <1>6
<1> QED BY <1>3, <1>7 DEF Fine
-----------------------------------------------------------------------------
(* What leaves the jobs where they are. *)

\* A job that changed: its processes are the same, but for pids that are given up.
Becomes(job, new, w) ==
  /\ Len(new.procs) = Len(job.procs)
  /\ \A i \in 1 .. Len(job.procs) : new.procs[i].pid \in {job.procs[i].pid, ZeroPid}
  /\ LET last == Len(job.procs)
     IN job.procs[last].pid \in Pids /\ w[job.procs[last].pid] = "owed" /\ Background(job) =>
          new.procs[last].pid = job.procs[last].pid /\ Background(new)

LEMMA BecomesOK ==
  ASSUME NEW t, NEW u, NEW num, NEW w, NEW new, NEW n, TableOK(t, num, w, new, n),
         DOMAIN u.jobs = DOMAIN t.jobs, u.saved = t.saved,
         \A j \in DOMAIN t.jobs : JobOK(u.jobs[j], num) /\ Becomes(t.jobs[j], u.jobs[j], w)
  PROVE  TableOK(u, num, w, new, n)
<1>1. ASSUME NEW j \in DOMAIN t.jobs, NEW p \in Pids, Holds(u, j, p) PROVE Holds(t, j, p)
  <2>1. /\ DOMAIN t.jobs[j].procs = 1 .. Len(t.jobs[j].procs)
        /\ DOMAIN u.jobs[j].procs = 1 .. Len(u.jobs[j].procs)
    BY ProcsAre DEF TableOK
  <2>2. p # ZeroPid BY JobsAssumption
  <2> QED BY <1>1, <2>1, <2>2 DEF Holds, Becomes, Procs
<1>2. \A p : SavedFor(u, p) = SavedFor(t, p)
  BY DEF SavedFor
<1>3. OnePlace(u, new)
  BY <1>1, <1>2 DEF OnePlace, TableOK
<1>4. OwedKept(u, w)
  <2> SUFFICES ASSUME NEW p \in Pids, w[p] = "owed", NEW j \in DOMAIN t.jobs,
                      Last(t, j).pid = p, Background(t.jobs[j])
               PROVE  Last(u, j).pid = p /\ Background(u.jobs[j])
    BY <1>2 DEF OwedKept, TableOK
  <2>1. Becomes(t.jobs[j], u.jobs[j], w) OBVIOUS
  <2> QED BY <2>1 DEF Becomes, Last, Procs
<1>5. SavedOK(u, num, w) /\ RoomLeft(u, n)
  BY DEF SavedOK, RoomLeft, TableOK
<1> QED BY <1>3, <1>4, <1>5 DEF TableOK

\* The same job, told or started: only its state and its flags change.
LEMMA FlagsOK ==
  ASSUME NEW t, NEW u, NEW num, NEW w, NEW new, NEW n, TableOK(t, num, w, new, n),
         DOMAIN u.jobs = DOMAIN t.jobs, u.saved = t.saved,
         \A j \in DOMAIN t.jobs :
            /\ JobFields \subseteq DOMAIN u.jobs[j]
            /\ u.jobs[j].procs = t.jobs[j].procs /\ u.jobs[j].state = t.jobs[j].state
            /\ Last(t, j).pid \in Pids /\ w[Last(t, j).pid] = "owed" /\ Background(t.jobs[j]) =>
                 Background(u.jobs[j])
  PROVE  TableOK(u, num, w, new, n)
<1> SUFFICES ASSUME NEW j \in DOMAIN t.jobs
             PROVE  JobOK(u.jobs[j], num) /\ Becomes(t.jobs[j], u.jobs[j], w)
  BY BecomesOK
<1>1. JobOK(t.jobs[j], num) BY DEF TableOK
<1>2. JobOK(u.jobs[j], num) BY <1>1 DEF JobOK
<1>3. Becomes(t.jobs[j], u.jobs[j], w) BY DEF Becomes, Last, Procs
<1> QED BY <1>2, <1>3

LEMMA NotifiedOK ==
  ASSUME NEW t, NEW num, NEW w, NEW new, NEW n, TableOK(t, num, w, new, n), IsTable(t)
  PROVE  TableOK(Notified(t), num, w, new, n)
<1>1. \A j \in DOMAIN t.jobs : JobFields \subseteq DOMAIN t.jobs[j]
  BY DEF TableOK, JobOK
<1> DEFINE told(job) == [job EXCEPT !.notified = job.notified \/ job.state # "running"]
           jobs == [j \in DOMAIN t.jobs |-> told(t.jobs[j])]
<1>2. ASSUME NEW job, JobFields \subseteq DOMAIN job
      PROVE  /\ JobFields \subseteq DOMAIN told(job) /\ told(job).procs = job.procs
             /\ told(job).state = job.state /\ (Background(job) => Background(told(job)))
  BY <1>2 DEF JobFields, Background
<1>3. Notified(t) = [t EXCEPT !.jobs = jobs] BY DEF Notified
<1>4. \A j \in DOMAIN t.jobs : jobs[j] = told(t.jobs[j]) OBVIOUS
<1>5. DOMAIN jobs = DOMAIN t.jobs OBVIOUS
<1> HIDE DEF jobs, told
<1>6. Notified(t).jobs = jobs /\ Notified(t).saved = t.saved BY <1>3 DEF IsTable
<1> HIDE DEF Notified
<1> QED BY <1>1, <1>2, <1>4, <1>5, <1>6, FlagsOK

LEMMA DeadToldOK ==
  ASSUME NEW t, NEW num, NEW w, NEW new, NEW n, TableOK(t, num, w, new, n), IsTable(t)
  PROVE  TableOK(DeadTold(t), num, w, new, n)
<1>1. \A j \in DOMAIN t.jobs : JobFields \subseteq DOMAIN t.jobs[j]
  BY DEF TableOK, JobOK
<1> DEFINE told(job) == [job EXCEPT !.notified = job.notified \/ job.state = "dead"]
           jobs == [j \in DOMAIN t.jobs |-> told(t.jobs[j])]
<1>2. ASSUME NEW job, JobFields \subseteq DOMAIN job
      PROVE  /\ JobFields \subseteq DOMAIN told(job) /\ told(job).procs = job.procs
             /\ told(job).state = job.state /\ (Background(job) => Background(told(job)))
  BY <1>2 DEF JobFields, Background
<1>3. DeadTold(t) = [t EXCEPT !.jobs = jobs] BY DEF DeadTold
<1>4. \A j \in DOMAIN t.jobs : jobs[j] = told(t.jobs[j]) OBVIOUS
<1>5. DOMAIN jobs = DOMAIN t.jobs OBVIOUS
<1> HIDE DEF jobs, told
<1>6. DeadTold(t).jobs = jobs /\ DeadTold(t).saved = t.saved BY <1>3 DEF IsTable
<1> QED BY <1>1, <1>2, <1>4, <1>5, <1>6, FlagsOK

\* One job that is not the other ones.
LEMMA OneJobOK ==
  ASSUME NEW t, NEW num, NEW w, NEW new, NEW n, TableOK(t, num, w, new, n), IsTable(t),
         NEW j \in DOMAIN t.jobs, NEW job, JobOK(job, num), Becomes(t.jobs[j], job, w)
  PROVE  LET u == [t EXCEPT !.jobs = [t.jobs EXCEPT ![j] = job]]
         IN TableOK(u, num, w, new, n)
<1> DEFINE jobs == [t.jobs EXCEPT ![j] = job]
           u == [t EXCEPT !.jobs = jobs]
<1>1. u.jobs = jobs /\ u.saved = t.saved BY DEF IsTable
<1>2. DOMAIN jobs = DOMAIN t.jobs /\ \A k \in DOMAIN t.jobs : jobs[k] = IF k = j THEN job ELSE t.jobs[k]
  OBVIOUS
<1> HIDE DEF jobs, u
<1>3. ASSUME NEW k \in DOMAIN t.jobs PROVE Becomes(t.jobs[k], t.jobs[k], w)
  BY DEF Becomes
<1>4. \A k \in DOMAIN t.jobs : JobOK(u.jobs[k], num) /\ Becomes(t.jobs[k], u.jobs[k], w)
  BY <1>1, <1>2, <1>3 DEF TableOK
<1>5. TableOK(u, num, w, new, n) BY <1>1, <1>2, <1>4, BecomesOK
<1> QED BY <1>5 DEF u, jobs

-----------------------------------------------------------------------------
(* A pid that is used again. *)

LEMMA ForgetOK ==
  ASSUME NEW t, NEW num, NEW w, NEW new, NEW n, TableOK(t, num, w, new, n), IsTable(t),
         NEW p \in Pids, \A j \in DOMAIN t.jobs : ~Holds(t, j, p),
         NEW num2, \A q \in Pids : q # p => num2[q] = num[q],
         NEW w2, w2[p] = "none", \A q \in Pids : q # p => w2[q] = w[q],
         NEW new2, new2 \subseteq new \cup {p}
  PROVE  TableOK([t EXCEPT !.saved = Status!Forget(t.saved, p)], num2, w2, new2, n)
<1> DEFINE saved == Status!Forget(t.saved, p)
           u == [t EXCEPT !.saved = saved]
<1>1. /\ OnePlace(t, new) /\ SavedOK(t, num, w) /\ OwedKept(t, w) /\ RoomLeft(t, n)
  BY DEF TableOK
<1>2. Status!Gone \in Memo /\ Status!Gone.pid \notin Pids
  BY JobsAssumption DEF Status!Gone, Status!NoPid, Status!Unknown, NO_PID, Memo
<1>3. saved = [i \in 1 .. Room |-> IF t.saved[i].pid = p THEN Status!Gone ELSE t.saved[i]]
  BY DEF Status!Forget
<1>4. u.saved = saved /\ u.jobs = t.jobs BY DEF IsTable
<1> HIDE DEF saved, u
<1>5. \A i \in 1 .. Room : saved[i] = IF t.saved[i].pid = p THEN Status!Gone ELSE t.saved[i]
  BY <1>3
<1>6. saved \in Seq(Memo) /\ Len(saved) = Room
  <2>1. \A i \in 1 .. Room : t.saved[i] \in Memo
    BY <1>1, ElementOfSeq DEF SavedOK
  <2>2. saved \in [1 .. Room -> Memo] BY <1>2, <1>3, <1>5, <2>1
  <2> HIDE DEF Memo
  <2> QED BY <2>2, RoomIs
<1>7. SavedFor(u, p) = {} /\ \A q \in Pids : q # p => SavedFor(u, q) = SavedFor(t, q)
  <2>1. ASSUME NEW i \in 1 .. Room, u.saved[i].pid = p PROVE FALSE
    BY <1>2, <1>4, <1>5, <2>1
  <2>2. ASSUME NEW q \in Pids, q # p, NEW i \in 1 .. Room
        PROVE  u.saved[i].pid = q <=> t.saved[i].pid = q
    BY <1>2, <1>4, <1>5, <2>2
  <2> QED BY <2>1, <2>2 DEF SavedFor
<1>8. ASSUME NEW j \in DOMAIN t.jobs
      PROVE  /\ Procs(u, j) = Procs(t, j) /\ Last(u, j) = Last(t, j)
             /\ \A q : Holds(u, j, q) <=> Holds(t, j, q)
  BY <1>4 DEF Procs, Last, Holds
<1>9. ASSUME NEW j \in DOMAIN u.jobs PROVE JobOK(u.jobs[j], num2)
  <2>1. JobOK(t.jobs[j], num) BY <1>4 DEF TableOK
  <2>2. PICK m \in Nat : OfOne(t.jobs[j].procs, num, m) BY <2>1 DEF JobOK
  <2>3. OfOne(t.jobs[j].procs, num2, m)
    BY <1>4, <2>2 DEF OfOne, Holds, Procs
  <2> QED BY <1>4, <2>1, <2>3 DEF JobOK
<1>10. OnePlace(u, new2)
  <2>1. \A q \in Pids : \A j, k \in DOMAIN u.jobs : Holds(u, j, q) /\ Holds(u, k, q) => j = k
    BY <1>1, <1>4, <1>8 DEF OnePlace
  <2>2. \A q \in Pids : \A j \in DOMAIN u.jobs : Holds(u, j, q) => q \notin new2 /\ SavedFor(u, q) = {}
    BY <1>1, <1>4, <1>7, <1>8 DEF OnePlace
  <2>3. \A q \in new2 : q \in Pids /\ SavedFor(u, q) = {}
    BY <1>1, <1>7 DEF OnePlace
  <2> QED BY <2>1, <2>2, <2>3 DEF OnePlace
<1>11. SavedOK(u, num2, w2)
  <2>1. ASSUME NEW i \in 1 .. Room, u.saved[i].pid \in Pids, w2[u.saved[i].pid] # "disowned"
        PROVE  u.saved[i].status = num2[u.saved[i].pid]
    <3>1. t.saved[i].pid # p /\ u.saved[i] = t.saved[i]
      BY <1>2, <1>4, <1>5, <2>1
    <3> QED BY <1>1, <2>1, <3>1 DEF SavedOK
  <2> QED BY <1>4, <1>6, <2>1 DEF SavedOK
<1>12. OwedKept(u, w2)
  <2> SUFFICES ASSUME NEW q \in Pids, w2[q] = "owed"
               PROVE  \/ SavedFor(u, q) # {}
                      \/ \E g \in DOMAIN u.jobs : Last(u, g).pid = q /\ Background(u.jobs[g])
    BY DEF OwedKept
  <2>1. q # p OBVIOUS
  <2> QED BY <1>1, <1>4, <1>7, <1>8, <2>1 DEF OwedKept
<1>13. RoomLeft(u, n)
  <2>1. PICK k \in 0 .. Room : /\ k + Cardinality(DOMAIN t.jobs) <= n
                               /\ \A i \in 1 .. Room - k : t.saved[i] = Status!Gone
    BY <1>1 DEF RoomLeft
  <2>2. \A i \in 1 .. Room - k : i \in 1 .. Room BY <2>1, RoomIs
  <2>3. \A i \in 1 .. Room - k : u.saved[i] = Status!Gone BY <1>4, <1>5, <2>1, <2>2
  <2> QED BY <1>4, <2>1, <2>3 DEF RoomLeft
<1> QED BY <1>9, <1>10, <1>11, <1>12, <1>13 DEF TableOK, u, saved

\* delete_old_job and bgp_delete.
LEMMA RecycledOK ==
  ASSUME NEW t, NEW num, NEW w, NEW new, NEW n, TableOK(t, num, w, new, n), Fields(t),
         n \in Int, n <= Room,
         NEW p \in Pids, NEW num2, \A q \in Pids : q # p => num2[q] = num[q],
         NEW new2, new2 \subseteq new \cup {p}
  PROVE  LET j == JobOf(t, p)
             lost == IF In(t, j, "dead") THEN {Last(t, j).pid} ELSE {}
         IN TableOK(Recycled(t, p), num2, Unowed(w, lost \cup {p}), new2, n)
<1> DEFINE j == JobOf(t, p)
           lost == IF In(t, j, "dead") THEN {Last(t, j).pid} ELSE {}
           w2 == Unowed(w, lost \cup {p})
           renamed == [i \in DOMAIN t.jobs[j].procs |->
                         IF t.jobs[j].procs[i].pid = p
                           THEN [t.jobs[j].procs[i] EXCEPT !.pid = ZeroPid]
                           ELSE t.jobs[j].procs[i]]
           job == [t.jobs[j] EXCEPT !.procs = renamed]
           u == IF j = NoJob THEN t
                ELSE IF In(t, j, "dead") THEN Deleted(t, j, FALSE)
                ELSE [t EXCEPT !.jobs = [t.jobs EXCEPT ![j] = job]]
<1> SUFFICES TableOK(Recycled(t, p), num2, w2, new2, n)
  OBVIOUS
<1>1. IsTable(t) /\ DOMAIN t.jobs \subseteq Slots BY DEF Fields
<1>2. NoJob \notin DOMAIN t.jobs BY <1>1 DEF Slots, NoJob
<1>4. Recycled(t, p) = [u EXCEPT !.saved = Status!Forget(u.saved, p)]
  <2> DEFINE other == [t EXCEPT !.jobs = [t.jobs EXCEPT ![j] = job]]
             x == CASE j = NoJob -> t [] In(t, j, "dead") -> Deleted(t, j, FALSE) [] OTHER -> other
  <2>1. Recycled(t, p) = [x EXCEPT !.saved = Status!Forget(x.saved, p)]
    BY DEF Recycled
  <2>2. j = NoJob => ~In(t, j, "dead") BY <1>2 DEF In, Has
  <2>3. x = u
    <3> HIDE DEF other, j
    <3> QED BY <2>2 DEF other
  <2> QED BY <2>1, <2>3
<1> HIDE DEF u
<1>3. \/ j = NoJob /\ \A k \in DOMAIN t.jobs : ~Holds(t, k, p)
      \/ j \in DOMAIN t.jobs /\ Holds(t, j, p)
  BY <1>1, JobOfIs
<1>5. w2[p] = "none" /\ \A q \in Pids : q # p => w2[q] = IF q \in lost THEN "none" ELSE w[q]
  BY DEF Unowed
<1> HIDE DEF j, w2
<1>6. ASSUME NEW v, TableOK(u, num, v, new, n), IsTable(u),
             \A q \in Pids : q # p => v[q] = IF q \in lost THEN "none" ELSE w[q],
             \A k \in DOMAIN u.jobs : ~Holds(u, k, p)
      PROVE  TableOK(Recycled(t, p), num2, w2, new2, n)
  <2>1. \A q \in Pids : q # p => w2[q] = v[q] BY <1>5, <1>6
  <2> HIDE DEF u, lost
  <2> QED BY <1>4, <1>5, <1>6, <2>1, ForgetOK
<1>7. CASE j = NoJob
  <2>1. lost = {} BY <1>2, <1>7 DEF In, Has
  <2>2. u = t BY <1>7 DEF u
  <2> HIDE DEF lost
  <2> QED BY <1>1, <1>2, <1>3, <1>6, <1>7, <2>1, <2>2
<1>8. CASE j # NoJob
  <2>1. j \in DOMAIN t.jobs /\ Holds(t, j, p) BY <1>3, <1>8
  <2>2. \A k \in DOMAIN t.jobs : k # j => ~Holds(t, k, p)
    BY <2>1 DEF TableOK, OnePlace
  <2>3. SavedFor(t, p) = {} BY <2>1 DEF TableOK, OnePlace
  <2>4. JobOK(t.jobs[j], num) BY <2>1 DEF TableOK
  <2>5. CASE In(t, j, "dead")
    <3> DEFINE v == Unowed(w, lost)
    <3>1. lost = {Last(t, j).pid} BY <2>5
    <3>2. Holds(t, j, Last(t, j).pid) BY <2>4, LastIsHeld
    <3>3. \A q \in lost \cap Pids : SavedFor(t, q) = {}
      BY <2>1, <3>1, <3>2 DEF TableOK, OnePlace
    <3>4. TableOK(t, num, v, new, n) BY <3>3, UnowedOK
    <3>5. \A q \in Pids : v[q] = IF q \in lost THEN "none" ELSE w[q] BY DEF Unowed
    <3>6. Last(t, j).pid \in Pids => v[Last(t, j).pid] # "owed" BY <3>1, <3>5
    <3> HIDE DEF v
    <3>7. u = Deleted(t, j, FALSE) BY <1>8, <2>5 DEF u
    <3>8. TableOK(u, num, v, new, n) BY <2>1, <3>4, <3>6, <3>7, DeletedOK
    <3> DEFINE x == Without(t, j, FALSE)
    <3>9. IsTable(x) /\ x.jobs = [k \in DOMAIN t.jobs \ {j} |-> t.jobs[k]]
      BY <1>1 DEF Without, IsTable
    <3> HIDE DEF x
    <3>10. IsTable(u) /\ u.jobs = x.jobs
      BY <3>7, <3>9, ResetCurrentSame DEF Deleted, x
    <3>11. ASSUME NEW k \in DOMAIN u.jobs PROVE ~Holds(u, k, p)
      <4>1. k \in DOMAIN t.jobs /\ k # j /\ u.jobs[k] = t.jobs[k] BY <3>9, <3>10
      <4> QED BY <2>2, <4>1 DEF Holds, Procs
    <3> HIDE DEF lost
    <3> QED BY <1>6, <3>5, <3>8, <3>10, <3>11
  <2>6. CASE ~In(t, j, "dead")
    <3> DEFINE v == Unowed(w, {p})
    <3>1. lost = {} BY <2>6
    <3>2. TableOK(t, num, v, new, n) BY <2>3, UnowedOK
    <3>3. \A q \in Pids : v[q] = IF q = p THEN "none" ELSE w[q] BY DEF Unowed
    <3> HIDE DEF v
    <3>4. u = [t EXCEPT !.jobs = [t.jobs EXCEPT ![j] = job]] BY <1>8, <2>6 DEF u
    <3> DEFINE old == t.jobs[j].procs
    <3>5. /\ Len(old) \in Nat \ {0} /\ DOMAIN old = 1 .. Len(old)
          /\ \A i \in DOMAIN old : old[i] \in Process
      BY <2>4, ProcsAre
    <3>6. \A i \in DOMAIN old :
             /\ renamed[i] \in Process /\ renamed[i].running = old[i].running
             /\ renamed[i].status = old[i].status
             /\ renamed[i].pid = IF old[i].pid = p THEN ZeroPid ELSE old[i].pid
      <4> SUFFICES ASSUME NEW i \in DOMAIN old
                   PROVE  /\ renamed[i] \in Process /\ renamed[i].running = old[i].running
                          /\ renamed[i].status = old[i].status
                          /\ renamed[i].pid = IF old[i].pid = p THEN ZeroPid ELSE old[i].pid
        OBVIOUS
      <4>1. old[i] \in Process BY <3>5
      <4>2. renamed[i] = IF old[i].pid = p THEN [old[i] EXCEPT !.pid = ZeroPid] ELSE old[i]
        OBVIOUS
      <4> HIDE DEF renamed, old
      <4>3. CASE old[i].pid = p BY <4>1, <4>2, <4>3 DEF Process
      <4>4. CASE old[i].pid # p BY <4>1, <4>2, <4>4
      <4> QED BY <4>3, <4>4
    <3>7. renamed \in Seq(Process) /\ Len(renamed) = Len(old) /\ DOMAIN renamed = DOMAIN old
      <4>1. renamed = [i \in 1 .. Len(old) |-> renamed[i]] BY <3>5
      <4> HIDE DEF renamed, old, Process
      <4>2. renamed \in [1 .. Len(old) -> Process] BY <3>5, <3>6, <4>1
      <4> QED BY <3>5, <4>2
    <3>8. /\ JobFields \subseteq DOMAIN job /\ job.procs = renamed /\ job.state = t.jobs[j].state
          /\ job.async = t.jobs[j].async /\ job.fg = t.jobs[j].fg
      <4> HIDE DEF renamed
      <4> QED BY <2>4 DEF JobOK, JobFields
    <3> HIDE DEF renamed, job, old
    <3>9. JobOK(job, num)
      <4>1. PICK m \in Nat : OfOne(old, num, m) BY <2>4 DEF JobOK, old
      <4>2. \A i \in DOMAIN old : Alive(renamed[i]) <=> Alive(old[i]) BY <3>6 DEF Alive, Stops
      <4>3. OfOne(renamed, num, m)
        <5>1. ZeroPid \notin Pids BY JobsAssumption
        <5> QED BY <3>6, <3>7, <4>1, <4>2, <5>1 DEF OfOne
      <4>4. job.state # "dead"
        BY <2>1, <2>6, <3>8 DEF In, Has
      <4>5. renamed # <<>> BY <3>5, <3>7, EmptySeq
      <4>6. job.state \in JobStates BY <2>4, <3>8 DEF JobOK
      <4> QED BY <3>7, <3>8, <4>3, <4>4, <4>5, <4>6 DEF JobOK
    <3>10. Becomes(t.jobs[j], job, v)
      <4>1. \A i \in 1 .. Len(old) : job.procs[i].pid \in {old[i].pid, ZeroPid}
        BY <3>5, <3>6, <3>8
      <4>2. Len(old) \in DOMAIN old BY <3>5
      <4>3. old[Len(old)].pid \in Pids /\ v[old[Len(old)].pid] = "owed" =>
              job.procs[Len(old)].pid = old[Len(old)].pid
        BY <3>3, <3>6, <3>8, <4>2
      <4> QED BY <3>7, <3>8, <4>1, <4>3 DEF Becomes, Background, old
    <3>11. TableOK(u, num, v, new, n)
      BY <1>1, <2>1, <3>2, <3>4, <3>9, <3>10, OneJobOK
    <3>12. IsTable(u) /\ u.jobs = [t.jobs EXCEPT ![j] = job] BY <1>1, <3>4 DEF IsTable
    <3> HIDE DEF u
    <3>13. ASSUME NEW k \in DOMAIN u.jobs PROVE ~Holds(u, k, p)
      <4>1. k \in DOMAIN t.jobs BY <3>12
      <4>2. CASE k # j
        <5>1. u.jobs[k] = t.jobs[k] BY <3>12, <4>1, <4>2
        <5> QED BY <2>2, <4>1, <4>2, <5>1 DEF Holds, Procs
      <4>3. CASE k = j
        <5>1. u.jobs[k] = job BY <2>1, <3>12, <4>3
        <5>2. p # ZeroPid BY JobsAssumption
        <5> QED BY <3>6, <3>7, <3>8, <5>1, <5>2 DEF Holds, Procs
      <4> QED BY <4>2, <4>3
    <3> HIDE DEF lost
    <3> QED BY <1>6, <3>1, <3>3, <3>11, <3>12, <3>13
  <2> QED BY <2>5, <2>6
<1> QED BY <1>7, <1>8
-----------------------------------------------------------------------------
(* What waitpid says, and jobs that are started again. *)

LEMMA OneFlagOK ==
  ASSUME NEW t, NEW num, NEW w, NEW new, NEW n, TableOK(t, num, w, new, n), IsTable(t),
         NEW j \in DOMAIN t.jobs, NEW job, JobFields \subseteq DOMAIN job,
         job.procs = t.jobs[j].procs, job.state = t.jobs[j].state,
         Last(t, j).pid \in Pids /\ w[Last(t, j).pid] = "owed" /\ Background(t.jobs[j]) =>
           Background(job)
  PROVE  LET u == [t EXCEPT !.jobs = [t.jobs EXCEPT ![j] = job]]
         IN TableOK(u, num, w, new, n)
<1>1. JobOK(t.jobs[j], num) BY DEF TableOK
<1>2. JobOK(job, num) BY <1>1 DEF JobOK
<1>3. Becomes(t.jobs[j], job, w) BY DEF Becomes, Last, Procs
<1> QED BY <1>2, <1>3, OneJobOK

LEMMA StateOfIs ==
  ASSUME NEW procs
  PROVE  /\ StateOf(procs) \in JobStates
         /\ StateOf(procs) = "dead" <=> \A i \in DOMAIN procs : ~Alive(procs[i])
BY DEF StateOf, JobStates, Alive

LEMMA ToldIs ==
  ASSUME NEW p, NEW proc \in Process, child[p].job \in Nat
  PROVE  LET q == Told(p, proc)
         IN /\ q \in Process /\ q.pid = proc.pid
            /\ ~Alive(q) => \/ proc.pid = p /\ q.status = child[p].job
                            \/ ~Alive(proc) /\ q.status = proc.status
<1>1. CASE proc.pid # p BY <1>1 DEF Told
<1>2. CASE proc.pid = p
  <2> DEFINE said(r, s) == [proc EXCEPT !.running = r, !.status = s]
  <2>1. ASSUME NEW r \in BOOLEAN, NEW s \in Int
        PROVE  /\ said(r, s) \in Process /\ said(r, s).pid = proc.pid
               /\ said(r, s).running = r /\ said(r, s).status = s
    BY DEF Process
  <2>2. \/ Told(p, proc) = said(FALSE, child[p].job)
        \/ Told(p, proc) = said(FALSE, Stopped)
        \/ Told(p, proc) = said(TRUE, Running)
    BY <1>2 DEF Told
  <2>3. Stopped \in Int /\ Running \in Int BY DEF Stopped, Running
  <2>4. child[p].job \in Int OBVIOUS
  <2> HIDE DEF said
  <2>5. CASE Told(p, proc) = said(FALSE, child[p].job)
    BY <1>2, <2>1, <2>4, <2>5
  <2>6. CASE Told(p, proc) = said(FALSE, Stopped)
    BY <1>2, <2>1, <2>3, <2>6 DEF Alive, Stops
  <2>7. CASE Told(p, proc) = said(TRUE, Running)
    <3>1. said(TRUE, Running).running = TRUE BY <2>1, <2>3
    <3>2. Alive(Told(p, proc)) BY <2>7, <3>1, Zenon DEF Alive
    <3>3. said(TRUE, Running) \in Process /\ said(TRUE, Running).pid = proc.pid BY <2>1, <2>3
    <3> QED BY <2>7, <3>2, <3>3
  <2> QED BY <2>2, <2>5, <2>6, <2>7
<1> QED BY <1>1, <1>2

\* A sequence of processes, each in its place.
LEMMA MappedProcs ==
  ASSUME NEW old \in Seq(Process), NEW procs, procs = [i \in DOMAIN old |-> procs[i]],
         \A i \in DOMAIN old : procs[i] \in Process
  PROVE  procs \in Seq(Process) /\ Len(procs) = Len(old) /\ DOMAIN procs = DOMAIN old
<1> HIDE DEF Process
<1>1. Len(old) \in Nat /\ DOMAIN old = 1 .. Len(old) BY LenProperties
<1>2. procs \in [1 .. Len(old) -> Process] BY <1>1
<1> QED BY <1>1, <1>2

LEMMA HeardOK ==
  ASSUME NEW t, NEW num, NEW w, NEW new, NEW n, TableOK(t, num, w, new, n), IsTable(t),
         NEW p \in Pids, NEW j \in DOMAIN t.jobs, num[p] = child[p].job, num[p] \in Nat,
         \E i \in DOMAIN Procs(t, j) : Procs(t, j)[i].pid = p /\ Alive(Procs(t, j)[i]),
         NEW procs,
         procs = [i \in DOMAIN Procs(t, j) |->
                    IF Alive(Procs(t, j)[i]) THEN Told(p, Procs(t, j)[i]) ELSE Procs(t, j)[i]]
  PROVE  LET u == StatusSet([t EXCEPT !.jobs[j].procs = procs], j).t
         IN IsTable(u) /\ TableOK(u, num, w, new, n)
<1> DEFINE old == Procs(t, j)
           told == [t.jobs[j] EXCEPT !.procs = procs]
           goesOn == StateOf(procs) = "running" /\ told.state # "stopped"
           stops == \E i \in DOMAIN procs : Stops(procs[i])
           state == IF goesOn THEN told.state ELSE IF stops THEN "stopped" ELSE StateOf(procs)
           job == [told EXCEPT !.notified = FALSE, !.state = state,
                               !.fg = @ /\ (goesOn \/ ~stops)]
           u == [t EXCEPT !.jobs = [t.jobs EXCEPT ![j] = job]]
           said == [t EXCEPT !.jobs[j].procs = procs]
           v == StatusSet(said, j).t
<1> SUFFICES IsTable(v) /\ TableOK(v, num, w, new, n)
  OBVIOUS
<1>1. /\ JobOK(t.jobs[j], num) /\ JobFields \subseteq DOMAIN t.jobs[j]
      /\ t.jobs[j].state \in JobStates
  BY DEF TableOK, JobOK
<1>2. /\ old \in Seq(Process) /\ Len(old) \in Nat \ {0} /\ DOMAIN old = 1 .. Len(old)
      /\ \A i \in DOMAIN old : old[i] \in Process
  BY <1>1, ProcsAre DEF JobOK, Procs
<1>3. told.procs = procs /\ told.state = t.jobs[j].state /\ JobFields \subseteq DOMAIN told
      /\ told.async = t.jobs[j].async /\ told.fg = t.jobs[j].fg
  BY <1>1 DEF JobFields
<1> HIDE DEF told
<1>4. v = [said EXCEPT !.jobs[j] = job]
  <2>1. IsTable(said) /\ said.jobs[j] = told BY DEF IsTable, told
  <2> HIDE DEF said
  <2> QED BY <1>3, <2>1 DEF StatusSet
<1>5. said = [t EXCEPT !.jobs = [t.jobs EXCEPT ![j] = told]] BY DEF told
<1> HIDE DEF said
<1> HIDE DEF v
<1>6. /\ JobFields \subseteq DOMAIN job /\ job.procs = procs /\ job.state = state
      /\ Background(t.jobs[j]) => Background(job)
  <2> HIDE DEF state, stops, goesOn
  <2> QED BY <1>3 DEF JobFields, Background
<1> HIDE DEF job
<1>7. IsTable(v) /\ v.jobs = [t.jobs EXCEPT ![j] = job] /\ v.saved = t.saved
  <2>1. IsTable(said) /\ said.jobs = [t.jobs EXCEPT ![j] = told] /\ said.saved = t.saved
    BY <1>5 DEF IsTable
  <2>2. IsTable(v) /\ v.jobs = [said.jobs EXCEPT ![j] = job] /\ v.saved = said.saved
    BY <1>4, <2>1 DEF IsTable
  <2>3. [[t.jobs EXCEPT ![j] = told] EXCEPT ![j] = job] = [t.jobs EXCEPT ![j] = job]
    OBVIOUS
  <2> QED BY <2>1, <2>2, <2>3
<1>8. ASSUME NEW i \in DOMAIN old
      PROVE  /\ procs[i] \in Process /\ procs[i].pid = old[i].pid
             /\ ~Alive(procs[i]) => \/ old[i].pid = p /\ procs[i].status = num[p]
                                    \/ ~Alive(old[i]) /\ procs[i].status = old[i].status
  <2>1. procs[i] = IF Alive(old[i]) THEN Told(p, old[i]) ELSE old[i] OBVIOUS
  <2> HIDE DEF old
  <2> QED BY <1>2, <2>1, ToldIs
<1>9. procs \in Seq(Process) /\ Len(procs) = Len(old) /\ DOMAIN procs = DOMAIN old
  <2>1. procs = [i \in DOMAIN old |-> procs[i]] OBVIOUS
  <2> HIDE DEF old
  <2> QED BY <1>2, <1>8, <2>1, MappedProcs
<1>10. t.jobs[j].state # "dead"
  BY <1>1 DEF JobOK, Procs
<1>11. state \in JobStates /\ (state = "dead" => \A i \in DOMAIN procs : ~Alive(procs[i]))
  BY <1>1, <1>3, <1>10, StateOfIs DEF JobStates
<1>12. \E m \in Nat : OfOne(procs, num, m)
  <2>1. PICK m \in Nat : OfOne(old, num, m) BY <1>1 DEF JobOK, Procs
  <2>2. num[p] = m BY <2>1 DEF OfOne
  <2>3. OfOne(procs, num, m) BY <1>8, <1>9, <2>1, <2>2 DEF OfOne
  <2> QED BY <2>3
<1> HIDE DEF state, old
<1>13. JobOK(job, num)
  <2>1. procs # <<>> BY <1>2, <1>9, EmptySeq
  <2> QED BY <1>6, <1>9, <1>11, <1>12, <2>1 DEF JobOK
<1>14. Becomes(t.jobs[j], job, w)
  <2>1. Len(old) \in DOMAIN old BY <1>2
  <2> QED BY <1>2, <1>6, <1>8, <1>9, <2>1 DEF Becomes, old, Procs
<1>15. TableOK(u, num, w, new, n) BY <1>13, <1>14, OneJobOK
<1>16. u.jobs = v.jobs /\ u.saved = v.saved BY <1>7 DEF IsTable
<1> QED BY <1>7, <1>15, <1>16, SameOK

LEMMA SetRunningOK ==
  ASSUME NEW t, NEW num, NEW w, NEW new, NEW n, TableOK(t, num, w, new, n), IsTable(t),
         NEW j \in DOMAIN t.jobs
  PROVE  /\ IsTable(SetRunning(t, j)) /\ TableOK(SetRunning(t, j), num, w, new, n)
         /\ DOMAIN SetRunning(t, j).jobs = DOMAIN t.jobs
         /\ \A k \in DOMAIN t.jobs : Last(SetRunning(t, j), k).pid = Last(t, k).pid
<1> DEFINE old == t.jobs[j].procs
           procs == [i \in DOMAIN old |-> [old[i] EXCEPT !.running = @ \/ Stops(old[i])]]
           job == [[t.jobs[j] EXCEPT !.state = "running"] EXCEPT !.procs = procs]
           u == [t EXCEPT !.jobs = [t.jobs EXCEPT ![j] = job]]
           v == SetRunning(t, j)
<1>1. JobOK(t.jobs[j], num) /\ JobFields \subseteq DOMAIN t.jobs[j]
  BY DEF TableOK, JobOK
<1>2. /\ old \in Seq(Process) /\ Len(old) \in Nat \ {0} /\ DOMAIN old = 1 .. Len(old)
      /\ \A i \in DOMAIN old : old[i] \in Process
  BY <1>1, ProcsAre DEF JobOK
<1>3. /\ JobFields \subseteq DOMAIN job /\ job.procs = procs /\ job.state = "running"
      /\ job.async = t.jobs[j].async /\ job.fg = t.jobs[j].fg
  <2> HIDE DEF procs
  <2> QED BY <1>1 DEF JobFields
<1>4. IsTable(v) /\ v.saved = t.saved /\ v.jobs = [t.jobs EXCEPT ![j] = job]
  <2> DEFINE first == [t.jobs EXCEPT ![j] = [t.jobs[j] EXCEPT !.state = "running"]]
             second == [first EXCEPT ![j] = [first[j] EXCEPT !.procs = procs]]
  <2>1. first[j] = [t.jobs[j] EXCEPT !.state = "running"] OBVIOUS
  <2>2. first[j].procs = old BY <1>1, <2>1 DEF JobFields
  <2>3. second = [t.jobs EXCEPT ![j] = job]
    <3> HIDE DEF procs
    <3> QED OBVIOUS
  <2>4. IsTable(v) /\ v.saved = t.saved /\ v.jobs = second
    BY <2>2 DEF SetRunning, IsTable, Procs
  <2> QED BY <2>3, <2>4
<1> HIDE DEF v
<1>5. ASSUME NEW i \in DOMAIN old
      PROVE  /\ procs[i] \in Process /\ procs[i].pid = old[i].pid
             /\ procs[i].status = old[i].status /\ (Alive(old[i]) => Alive(procs[i]))
  <2>1. procs[i] = [old[i] EXCEPT !.running = old[i].running \/ Stops(old[i])] OBVIOUS
  <2>2. old[i] \in Process BY <1>2
  <2> HIDE DEF procs, old
  <2> QED BY <2>1, <2>2 DEF Process, Alive, Stops
<1>6. procs \in Seq(Process) /\ Len(procs) = Len(old) /\ DOMAIN procs = DOMAIN old
  <2>1. procs = [i \in DOMAIN old |-> procs[i]] OBVIOUS
  <2> HIDE DEF procs, old
  <2> QED BY <1>2, <1>5, <2>1, MappedProcs
<1> HIDE DEF procs, job
<1>7. JobOK(job, num)
  <2>1. PICK m \in Nat : OfOne(old, num, m) BY <1>1 DEF JobOK
  <2>2. OfOne(procs, num, m) BY <1>5, <1>6, <2>1 DEF OfOne
  <2>3. procs # <<>> BY <1>2, <1>6, EmptySeq
  <2> QED BY <1>3, <1>6, <2>2, <2>3 DEF JobOK, JobStates
<1>8. Becomes(t.jobs[j], job, w)
  <2>1. Len(old) \in DOMAIN old BY <1>2
  <2> QED BY <1>2, <1>3, <1>5, <1>6, <2>1 DEF Becomes, Background
<1>9. TableOK(u, num, w, new, n) BY <1>7, <1>8, OneJobOK
<1>10. u.jobs = v.jobs /\ u.saved = v.saved BY <1>4 DEF IsTable
<1>11. TableOK(v, num, w, new, n) BY <1>9, <1>10, SameOK
<1>12. ASSUME NEW k \in DOMAIN t.jobs PROVE Last(v, k).pid = Last(t, k).pid
  <2>1. CASE k # j BY <1>4, <2>1 DEF Last, Procs
  <2>2. CASE k = j
    <3>1. v.jobs[k] = job BY <1>4, <2>2
    <3>2. Len(old) \in DOMAIN old BY <1>2
    <3> QED BY <1>3, <1>5, <1>6, <2>2, <3>1, <3>2 DEF Last, Procs
  <2> QED BY <2>1, <2>2
<1>13. DOMAIN v.jobs = DOMAIN t.jobs BY <1>4
<1> QED BY <1>4, <1>11, <1>12, <1>13 DEF v

-----------------------------------------------------------------------------
(* A pipeline becomes a job; all is forgotten. *)

\* The job's pids were in no other place, and nothing more is owed than its status.
Brings(job, new, w, w2) ==
  /\ \A i \in DOMAIN job.procs : job.procs[i].pid \in Pids => job.procs[i].pid \in new
  /\ \A q \in Pids : q \notin new => w2[q] = w[q]
  /\ \A q \in new : w2[q] = "owed" =>
       w[q] = "owed" \/ (q = job.procs[Len(job.procs)].pid /\ Background(job))

LEMMA AddedOK ==
  ASSUME NEW t, NEW num, NEW w, NEW new, NEW n, TableOK(t, num, w, new, n), Fields(t),
         n \in Int, NEW slot, slot \notin DOMAIN t.jobs, NEW job, JobOK(job, num),
         NEW w2, Brings(job, new, w, w2), NEW jobs,
         jobs = [j \in DOMAIN t.jobs \cup {slot} |-> IF j = slot THEN job ELSE t.jobs[j]]
  PROVE  TableOK([t EXCEPT !.jobs = jobs], num, w2, {}, n + 1)
<1> DEFINE u == [t EXCEPT !.jobs = jobs]
<1>1. /\ IsTable(t) /\ DOMAIN t.jobs \subseteq Slots
      /\ OnePlace(t, new) /\ SavedOK(t, num, w) /\ OwedKept(t, w) /\ RoomLeft(t, n)
      /\ \A j \in DOMAIN t.jobs : JobOK(t.jobs[j], num)
  BY DEF TableOK, Fields
<1>2. u.jobs = jobs /\ u.saved = t.saved BY <1>1 DEF IsTable
<1>3. /\ DOMAIN u.jobs = DOMAIN t.jobs \cup {slot} /\ u.jobs[slot] = job
      /\ \A j \in DOMAIN t.jobs : u.jobs[j] = t.jobs[j]
  BY <1>2
<1> HIDE DEF u
<1>4. \A j \in DOMAIN u.jobs : JobOK(u.jobs[j], num)
  BY <1>1, <1>3
<1>5. \A j \in DOMAIN t.jobs : /\ Last(u, j) = Last(t, j)
                               /\ \A p : Holds(u, j, p) <=> Holds(t, j, p)
  BY <1>3 DEF Last, Holds, Procs
<1>6. \A p \in Pids : Holds(u, slot, p) => p \in new
  BY <1>3 DEF Holds, Procs, Brings
<1>7. \A p : SavedFor(u, p) = SavedFor(t, p) BY <1>2 DEF SavedFor
<1>8. OnePlace(u, {})
  <2>1. \A p \in Pids : \A j \in DOMAIN t.jobs : Holds(u, j, p) => p \notin new
    BY <1>1, <1>5 DEF OnePlace
  <2>2. \A p \in Pids : \A j, k \in DOMAIN u.jobs : Holds(u, j, p) /\ Holds(u, k, p) => j = k
    BY <1>1, <1>3, <1>5, <1>6, <2>1 DEF OnePlace
  <2>3. \A p \in Pids : \A j \in DOMAIN u.jobs : Holds(u, j, p) => SavedFor(u, p) = {}
    BY <1>1, <1>3, <1>5, <1>6, <1>7 DEF OnePlace
  <2> QED BY <2>2, <2>3 DEF OnePlace
<1>9. SavedOK(u, num, w2)
  <2>1. ASSUME NEW i \in 1 .. Room, t.saved[i].pid \in Pids PROVE t.saved[i].pid \notin new
    BY <1>1, <2>1 DEF OnePlace, SavedFor
  <2> QED BY <1>1, <1>2, <2>1 DEF SavedOK, Brings
<1>10. OwedKept(u, w2)
  <2> SUFFICES ASSUME NEW q \in Pids, w2[q] = "owed"
               PROVE  \/ SavedFor(u, q) # {}
                      \/ \E g \in DOMAIN u.jobs : Last(u, g).pid = q /\ Background(u.jobs[g])
    BY DEF OwedKept
  <2>1. CASE w[q] = "owed" BY <1>1, <1>3, <1>5, <1>7, <2>1 DEF OwedKept
  <2>2. CASE w[q] # "owed"
    <3>1. q = job.procs[Len(job.procs)].pid /\ Background(job) BY <2>2 DEF Brings
    <3>2. Last(u, slot).pid = q BY <1>3, <3>1 DEF Last, Procs
    <3> QED BY <1>3, <3>1, <3>2
  <2> QED BY <2>1, <2>2
<1>11. RoomLeft(u, n + 1)
  <2>1. PICK k \in 0 .. Room : /\ k + Cardinality(DOMAIN t.jobs) <= n
                               /\ \A i \in 1 .. Room - k : t.saved[i] = Status!Gone
    BY <1>1 DEF RoomLeft
  <2>2. /\ Cardinality(DOMAIN t.jobs) \in Nat
        /\ Cardinality(DOMAIN u.jobs) = Cardinality(DOMAIN t.jobs) + 1
    <3>1. IsFiniteSet(Slots) BY SlotsFinite
    <3>2. IsFiniteSet(DOMAIN t.jobs) BY <1>1, <3>1, FS_Subset
    <3> QED BY <1>3, <3>2, FS_CardinalityType, FS_AddElement
  <2>3. k + Cardinality(DOMAIN u.jobs) <= n + 1 BY <2>1, <2>2, RoomIs
  <2> QED BY <1>2, <2>1, <2>3 DEF RoomLeft
<1> QED BY <1>4, <1>8, <1>9, <1>10, <1>11 DEF TableOK, u

LEMMA BlankOK ==
  ASSUME NEW t, NEW num, NEW w, NEW new, NEW n, TableOK(t, num, w, new, n), IsTable(t),
         NEW w2, \A q \in Pids : w2[q] = "owed" =>
                    w[q] = "owed" /\ \E k \in DOMAIN t.jobs : Last(t, k).pid = q
  PROVE  TableOK([t EXCEPT !.saved = Status!Blank], num, w2, new, n)
<1> DEFINE u == [t EXCEPT !.saved = Status!Blank]
<1>1. /\ OnePlace(t, new) /\ SavedOK(t, num, w) /\ OwedKept(t, w) /\ RoomLeft(t, n)
      /\ \A j \in DOMAIN t.jobs : JobOK(t.jobs[j], num)
  BY DEF TableOK
<1>2. Status!Gone \in Memo /\ Status!Gone.pid \notin Pids
  BY JobsAssumption DEF Status!Gone, Status!NoPid, Status!Unknown, NO_PID, Memo
<1>3. u.saved = Status!Blank /\ u.jobs = t.jobs BY DEF IsTable
<1>4. \A i \in 1 .. Room : u.saved[i] = Status!Gone BY <1>3 DEF Status!Blank
<1>5. u.saved \in Seq(Memo) /\ Len(u.saved) = Room
  <2>1. Status!Blank \in [1 .. Room -> Memo] BY <1>2 DEF Status!Blank
  <2> HIDE DEF Memo
  <2> QED BY <1>3, <2>1, RoomIs
<1> HIDE DEF u
<1>6. \A p \in Pids : SavedFor(u, p) = {} BY <1>2, <1>4 DEF SavedFor
<1>7. \A j \in DOMAIN t.jobs : /\ Last(u, j) = Last(t, j)
                               /\ \A p : Holds(u, j, p) <=> Holds(t, j, p)
  BY <1>3 DEF Last, Holds, Procs
<1>8. OnePlace(u, new) BY <1>1, <1>3, <1>6, <1>7 DEF OnePlace
<1>9. SavedOK(u, num, w2) BY <1>2, <1>4, <1>5 DEF SavedOK
<1>10. OwedKept(u, w2)
  <2> SUFFICES ASSUME NEW q \in Pids, w2[q] = "owed"
               PROVE  \E g \in DOMAIN u.jobs : Last(u, g).pid = q /\ Background(u.jobs[g])
    BY DEF OwedKept
  <2>1. PICK k \in DOMAIN t.jobs : Last(t, k).pid = q OBVIOUS
  <2>2. Holds(t, k, q) BY <1>1, <2>1, LastIsHeld
  <2>3. SavedFor(t, q) = {} BY <1>1, <2>2 DEF OnePlace
  <2> QED BY <1>1, <1>3, <1>7, <2>3 DEF OwedKept
<1>11. RoomLeft(u, n)
  <2>1. PICK k \in 0 .. Room : k + Cardinality(DOMAIN t.jobs) <= n BY <1>1 DEF RoomLeft
  <2>2. \A i \in 1 .. Room - k : i \in 1 .. Room BY <2>1, RoomIs
  <2> QED BY <1>3, <1>4, <2>1, <2>2 DEF RoomLeft
<1>12. \A j \in DOMAIN u.jobs : JobOK(u.jobs[j], num) BY <1>1, <1>3
<1> QED BY <1>8, <1>9, <1>10, <1>11, <1>12 DEF TableOK, u
-----------------------------------------------------------------------------
(* The statuses, whatever the shell and its children do. *)

Numbers == [p \in Pids |-> child[p].job]
Forming == {pipeline.procs[i].pid : i \in DOMAIN pipeline.procs}
Making  == shell \in {"made", "piping"}
InTable == IF Making THEN made - 1 ELSE made

ChildStates == {"free", "running", "stopped", "zombie"}
Children == [Pids -> [st : ChildStates, news : BOOLEAN, job : Nat]]
Words == [Pids -> {"none", "owed", "disowned"}]

\* The processes of the pipeline that is being made are of its number.
PipelineOK ==
  /\ {"procs", "length", "async"} \subseteq DOMAIN pipeline
  /\ pipeline.procs \in Seq(Process) /\ OfOne(pipeline.procs, Numbers, made)
  /\ Making => pipeline.procs # <<>>

StatusInv ==
  /\ child \in Children /\ word \in Words /\ PipelineOK
  /\ TableOK(table, Numbers, word, Forming, InTable)

JobsInv == TableInv /\ StatusInv

LEMMA InTableIs ==
  ASSUME TableInv, MaxJobs <= Room
  PROVE  InTable \in Int /\ InTable <= Room /\ made \in Nat
BY RoomIs DEF TableInv, SlotsOK, InTable, Making

LEMMA StatusInvInit ==
  ASSUME JobsInit
  PROVE  StatusInv
<1>1. child \in Children BY DEF JobsInit, Children, ChildStates, NoJob
<1>2. word \in Words BY DEF JobsInit, Words
<1>3. pipeline.procs = <<>> /\ DOMAIN pipeline = {"procs", "length", "async"}
  BY DEF JobsInit
<1>4. pipeline.procs \in Seq(Process) BY <1>3, EmptySeq
<1>5. Forming = {} BY <1>3 DEF Forming
<1>6. PipelineOK BY <1>3, <1>4 DEF PipelineOK, OfOne, Making, JobsInit
<1>7. DOMAIN table.jobs = {} /\ table.saved = Status!Blank BY DEF JobsInit
<1>8. Status!Gone \in Memo /\ Status!Gone.pid \notin Pids
  BY JobsAssumption DEF Status!Gone, Status!NoPid, Status!Unknown, NO_PID, Memo
<1>9. \A i \in 1 .. Room : table.saved[i] = Status!Gone BY <1>7 DEF Status!Blank
<1>10. table.saved \in Seq(Memo) /\ Len(table.saved) = Room
  <2>1. Status!Blank \in [1 .. Room -> Memo] BY <1>8 DEF Status!Blank
  <2> HIDE DEF Memo
  <2> QED BY <1>7, <2>1, RoomIs
<1>11. SavedOK(table, Numbers, word) BY <1>8, <1>9, <1>10 DEF SavedOK
<1>12. OwedKept(table, word) BY DEF JobsInit, OwedKept
<1>13. OnePlace(table, Forming) BY <1>5, <1>7 DEF OnePlace
<1>14. RoomLeft(table, InTable)
  <2>1. InTable = 0 BY DEF InTable, Making, JobsInit
  <2>2. Cardinality(DOMAIN table.jobs) = 0 BY <1>7, FS_EmptySet
  <2>3. 0 \in 0 .. Room /\ 0 + Cardinality(DOMAIN table.jobs) <= InTable BY <2>1, <2>2, RoomIs
  <2>4. \A i \in 1 .. Room - 0 : table.saved[i] = Status!Gone BY <1>9, RoomIs
  <2> QED BY <2>3, <2>4 DEF RoomLeft
<1> QED BY <1>1, <1>2, <1>6, <1>7, <1>11, <1>12, <1>13, <1>14 DEF StatusInv, TableOK

\* A step that only changes the table and what is owed.
LEMMA TableStep ==
  ASSUME StatusInv, UNCHANGED <<pipeline, made>>, child' \in Children, Numbers' = Numbers,
         InTable' = InTable, Making' => Making, word' \in Words,
         TableOK(table', Numbers, word', Forming, InTable)
  PROVE  StatusInv'
<1>1. Forming' = Forming BY DEF Forming
<1>2. PipelineOK' BY DEF StatusInv, PipelineOK
<1> QED BY <1>1, <1>2 DEF StatusInv

\* A step of the shell that makes no pipeline, or of waitchld.
LEMMA ShellStep ==
  ASSUME StatusInv, UNCHANGED <<child, pipeline, made>>,
         shell' = shell \/ (~Making /\ shell' \notin {"made", "piping"}), word' \in Words,
         TableOK(table', Numbers, word', Forming, InTable)
  PROVE  StatusInv'
<1>1. Numbers' = Numbers /\ InTable' = InTable /\ (Making' => Making)
  BY DEF Numbers, InTable, Making
<1>2. child' \in Children BY DEF StatusInv
<1> QED BY <1>1, <1>2, TableStep

LEMMA SameStatus ==
  ASSUME StatusInv, UNCHANGED <<child, pipeline, made, table, word>>,
         shell' = shell \/ (~Making /\ shell' \notin {"made", "piping"})
  PROVE  StatusInv'
BY ShellStep DEF StatusInv

\* What moves children, by their pids.
LEMMA ChangesKeep ==
  ASSUME StatusInv, NEW p \in Pids, NEW state \in ChildStates, Changes(p, state)
  PROVE  StatusInv'
<1>1. /\ child' = [child EXCEPT ![p].st = state, ![p].news = TRUE]
      /\ UNCHANGED <<shell, pipeline, table, made, word>>
  BY DEF Changes
<1>2. child' \in Children /\ Numbers' = Numbers
  BY <1>1 DEF StatusInv, Children, Numbers
<1>3. InTable' = InTable /\ (Making' => Making) BY <1>1 DEF InTable, Making
<1> QED BY <1>1, <1>2, <1>3, TableStep DEF StatusInv

LEMMA ContinuedKeeps ==
  ASSUME StatusInv, NEW procs
  PROVE  /\ Continued_(procs) \in Children
         /\ [p \in Pids |-> Continued_(procs)[p].job] = Numbers
<1>1. ASSUME NEW p \in Pids
      PROVE  /\ Continued_(procs)[p] \in [st : ChildStates, news : BOOLEAN, job : Nat]
             /\ Continued_(procs)[p].job = child[p].job
  <2>1. Continued_(procs)[p] \in {child[p], [child[p] EXCEPT !.st = "running", !.news = TRUE]}
    BY DEF Continued_
  <2>2. child[p] \in [st : ChildStates, news : BOOLEAN, job : Nat]
    BY DEF StatusInv, Children
  <2> QED BY <2>1, <2>2 DEF ChildStates
<1>2. Continued_(procs) = [p \in Pids |-> Continued_(procs)[p]] BY DEF Continued_
<1> QED BY <1>1, <1>2 DEF Children, Numbers

LEMMA CurrentSetSame ==
  ASSUME NEW t, IsTable(t), NEW r
  PROVE  CurrentSet(t, r).jobs = t.jobs /\ CurrentSet(t, r).saved = t.saved
BY SetCurrentSame, ResetCurrentSame DEF CurrentSet

LEMMA WaitpidStatus ==
  ASSUME JobsInv, NEW p \in Pids, WaitpidChild(p)
  PROVE  StatusInv'
<1> DEFINE making == \E i \in DOMAIN pipeline.procs : pipeline.procs[i].pid = p
           j == IF making THEN NoJob ELSE LiveJobOf(table, p)
           procs == [i \in DOMAIN Procs(table, j) |->
                       IF Alive(Procs(table, j)[i]) THEN Told(p, Procs(table, j)[i])
                                                    ELSE Procs(table, j)[i]]
           said == [table EXCEPT !.jobs[j].procs = procs]
           s == IF j = NoJob THEN [t |-> table, set |-> FALSE] ELSE StatusSet(said, j)
           r == IF j = NoJob THEN reaping
                ELSE [reaping EXCEPT !.set = @ \/ s.set,
                        !.last = CASE In(s.t, j, "stopped")          -> j
                                   [] In(s.t, j, "dead") /\ @ = j -> NoJob
                                   [] OTHER                          -> @]
           left == IF sigchld > 0 THEN sigchld - 1 ELSE 0
           over == reaping.block /\ left = 0
           forming == [i \in DOMAIN pipeline.procs |-> Told(p, pipeline.procs[i])]
<1>1. /\ UNCHANGED <<shell, made, word>>
      /\ table' = IF over THEN CurrentSet(s.t, r) ELSE s.t
      /\ pipeline' = IF making THEN [pipeline EXCEPT !.procs = forming] ELSE pipeline
  BY DEF WaitpidChild
<1>2. child' \in Children /\ Numbers' = Numbers
  <2>1. child' = [child EXCEPT ![p].news = FALSE, ![p].st = IF @ = "zombie" THEN "free" ELSE @]
    BY DEF WaitpidChild
  <2> QED BY <2>1 DEF JobsInv, StatusInv, Children, ChildStates, Numbers
<1>3. /\ IsTable(table) /\ DOMAIN table.jobs \subseteq Slots
      /\ child \in Children /\ word \in Words /\ PipelineOK
      /\ TableOK(table, Numbers, word, Forming, InTable)
  BY DEF JobsInv, TableInv, Good, StatusInv
<1>4. Numbers[p] = child[p].job /\ Numbers[p] \in Nat
  BY <1>3 DEF Numbers, Children
<1>5. j # NoJob => j \in DOMAIN table.jobs /\ \E i \in DOMAIN Procs(table, j) :
                      Procs(table, j)[i].pid = p /\ Alive(Procs(table, j)[i])
  <2> DEFINE L == {k \in DOMAIN table.jobs :
                     \E i \in DOMAIN Procs(table, k) :
                        Procs(table, k)[i].pid = p /\ Alive(Procs(table, k)[i])}
  <2>1. L \subseteq Slots BY <1>3
  <2>2. LiveJobOf(table, p) = Smallest(L) BY DEF LiveJobOf
  <2>3. L = {} => LiveJobOf(table, p) = NoJob BY <2>2 DEF Smallest
  <2>4. L # {} => LiveJobOf(table, p) \in L BY <2>1, <2>2, SmallestIsIn
  <2> QED BY <2>3, <2>4
<1>6. IsTable(s.t) /\ TableOK(s.t, Numbers, word, Forming, InTable)
  <2>1. CASE j = NoJob BY <1>3, <2>1
  <2>2. CASE j # NoJob
    <3>1. s.t = StatusSet(said, j).t BY <2>2
    <3>2. j \in DOMAIN table.jobs /\ \E i \in DOMAIN Procs(table, j) :
                      Procs(table, j)[i].pid = p /\ Alive(Procs(table, j)[i])
      BY <1>5, <2>2
    <3>3. procs = [i \in DOMAIN Procs(table, j) |->
                     IF Alive(Procs(table, j)[i]) THEN Told(p, Procs(table, j)[i])
                                                  ELSE Procs(table, j)[i]]
      OBVIOUS
    <3> HIDE DEF s, procs, j
    <3>4. LET u == StatusSet([table EXCEPT !.jobs[j].procs = procs], j).t
          IN IsTable(u) /\ TableOK(u, Numbers, word, Forming, InTable)
      BY <1>3, <1>4, <3>2, <3>3, HeardOK
    <3> QED BY <3>1, <3>4
  <2> QED BY <2>1, <2>2
<1> HIDE DEF s, r, over
<1>7. TableOK(CurrentSet(s.t, r), Numbers, word, Forming, InTable)
  BY <1>6, CurrentSetSame, SameOK
<1>8. TableOK(table', Numbers, word', Forming, InTable)
  BY <1>1, <1>6, <1>7
<1>9. InTable' = InTable /\ (Making' => Making) BY <1>1 DEF InTable, Making
<1>10. CASE ~making
  <2>1. UNCHANGED <<pipeline, made>> /\ word' \in Words BY <1>1, <1>3, <1>10
  <2> QED BY <1>2, <1>8, <1>9, <2>1, TableStep DEF JobsInv
<1>11. CASE making
  <2> DEFINE old == pipeline.procs
  <2>1. /\ {"procs", "length", "async"} \subseteq DOMAIN pipeline
        /\ old \in Seq(Process) /\ OfOne(old, Numbers, made) /\ (Making => old # <<>>)
    BY <1>3 DEF PipelineOK
  <2>2. DOMAIN old = 1 .. Len(old) /\ \A i \in DOMAIN old : old[i] \in Process
    BY <2>1, ElementOfSeq, LenProperties
  <2>3. {"procs", "length", "async"} \subseteq DOMAIN pipeline' /\ pipeline'.procs = forming
    <3> HIDE DEF forming
    <3> QED BY <1>1, <1>11, <2>1
  <2>4. ASSUME NEW i \in DOMAIN old
        PROVE  /\ forming[i] \in Process /\ forming[i].pid = old[i].pid
               /\ ~Alive(forming[i]) => forming[i].status = made
    <3>1. forming[i] = Told(p, old[i]) OBVIOUS
    <3>2. old[i] \in Process BY <2>2
    <3> HIDE DEF old, forming
    <3>3. child[p].job \in Nat BY <1>4
    <3>4. old[i].pid = p => Numbers[p] = made BY <2>1 DEF OfOne
    <3>5. ~Alive(old[i]) => old[i].status = made BY <2>1 DEF OfOne
    <3> QED BY <1>4, <3>1, <3>2, <3>3, <3>4, <3>5, ToldIs
  <2>5. forming \in Seq(Process) /\ Len(forming) = Len(old) /\ DOMAIN forming = DOMAIN old
    <3>1. forming = [i \in DOMAIN old |-> forming[i]] OBVIOUS
    <3> HIDE DEF old, forming
    <3> QED BY <2>1, <2>4, <3>1, MappedProcs
  <2> HIDE DEF forming
  <2>6. OfOne(forming, Numbers, made) BY <2>1, <2>4, <2>5 DEF OfOne
  <2>7. Making' => forming # <<>> BY <1>9, <2>1, <2>5, EmptySeq
  <2>8. PipelineOK' BY <1>1, <1>2, <2>3, <2>5, <2>6, <2>7 DEF PipelineOK
  <2>9. Forming' = Forming BY <2>3, <2>4, <2>5 DEF Forming
  <2> QED BY <1>1, <1>2, <1>3, <1>8, <1>9, <2>8, <2>9 DEF StatusInv
<1> QED BY <1>10, <1>11

LEMMA ForkStatus ==
  ASSUME JobsInv, MaxJobs <= Room, NEW p \in Pids, NEW length, NEW async,
         Fork(p, length, async)
  PROVE  StatusInv'
<1> DEFINE proc == [pid |-> p, running |-> TRUE, status |-> Running]
           old == pipeline.procs
<1>1. /\ Fields(table) /\ child \in Children /\ word \in Words /\ PipelineOK
      /\ TableOK(table, Numbers, word, Forming, InTable)
      /\ made \in Nat /\ InTable \in Int /\ InTable <= Room
  BY InTableIs DEF JobsInv, TableInv, Good, Fields, StatusInv
<1>2. /\ child' = [child EXCEPT ![p] = [st |-> "running", news |-> FALSE, job |-> made']]
      /\ table' = Recycled(table, p)
  BY DEF Fork
<1>3. \/ /\ Ready /\ made' = made + 1 /\ shell' \in {"made", "piping"}
         /\ pipeline' = [procs |-> <<proc>>, length |-> length, async |-> async]
      \/ /\ shell = "piping" /\ UNCHANGED <<made, shell>>
         /\ pipeline' = [pipeline EXCEPT !.procs = Append(pipeline.procs, proc)]
  BY DEF Fork
<1>4. made' \in Nat BY <1>1, <1>3
<1>5. child' \in Children /\ Numbers'[p] = made' /\ \A q \in Pids : q # p => Numbers'[q] = Numbers[q]
  BY <1>1, <1>2, <1>4 DEF Children, ChildStates, Numbers
<1>6. InTable' = InTable /\ Making'
  BY <1>1, <1>3 DEF InTable, Making, Ready
<1>7. proc \in Process /\ proc.pid = p /\ Alive(proc)
  <2>1. proc \in Process BY DEF Process, Running
  <2>2. Alive(proc) BY DEF Alive
  <2> QED BY <2>1, <2>2
<1> HIDE DEF proc
<1>8. /\ {"procs", "length", "async"} \subseteq DOMAIN pipeline'
      /\ pipeline'.procs \in Seq(Process) /\ pipeline'.procs # <<>>
      /\ \A i \in DOMAIN pipeline'.procs :
           \/ pipeline'.procs[i] = proc
           \/ /\ made' = made
              /\ \E h \in DOMAIN old : pipeline'.procs[i] = old[h]
  <2>1. CASE /\ Ready /\ made' = made + 1
             /\ pipeline' = [procs |-> <<proc>>, length |-> length, async |-> async]
    <3>1. <<proc>> \in Seq(Process) /\ <<proc>> # <<>> /\ \A i \in DOMAIN <<proc>> : <<proc>>[i] = proc
      <4> HIDE DEF Process
      <4> QED BY <1>7
    <3> QED BY <2>1, <3>1
  <2>2. CASE /\ UNCHANGED made
             /\ pipeline' = [pipeline EXCEPT !.procs = Append(pipeline.procs, proc)]
    <3>1. {"procs", "length", "async"} \subseteq DOMAIN pipeline /\ old \in Seq(Process)
      BY <1>1 DEF PipelineOK
    <3> DEFINE more == Append(old, proc)
    <3>2. pipeline'.procs = more /\ {"procs", "length", "async"} \subseteq DOMAIN pipeline'
      <4> HIDE DEF more
      <4>1. pipeline' = [pipeline EXCEPT !.procs = more] BY <2>2 DEF more
      <4> QED BY <3>1, <4>1
    <3>3. /\ more \in Seq(Process) /\ more # <<>> /\ Len(more) = Len(old) + 1
          /\ \A i \in 1 .. Len(old) : more[i] = old[i]
          /\ more[Len(old) + 1] = proc
      <4> HIDE DEF Process
      <4> QED BY <1>7, <3>1, AppendProperties
    <3>4. Len(old) \in Nat /\ DOMAIN old = 1 .. Len(old) /\ DOMAIN more = 1 .. Len(old) + 1
      BY <3>1, <3>3, LenProperties
    <3> HIDE DEF more, old
    <3>5. ASSUME NEW i \in DOMAIN more PROVE more[i] = proc \/ \E h \in DOMAIN old : more[i] = old[h]
      <4>1. i \in 1 .. Len(old) \/ i = Len(old) + 1 BY <3>4
      <4> QED BY <3>3, <3>4, <4>1
    <3> QED BY <2>2, <3>2, <3>3, <3>5
  <2> QED BY <1>3, <2>1, <2>2
<1>9. Forming' \subseteq Forming \cup {p}
  <2> SUFFICES ASSUME NEW i \in DOMAIN pipeline'.procs
               PROVE  pipeline'.procs[i].pid \in Forming \cup {p}
    BY DEF Forming
  <2> QED BY <1>7, <1>8 DEF Forming
<1>10. OfOne(pipeline.procs, Numbers, made)' 
  <2> SUFFICES ASSUME NEW i \in DOMAIN pipeline'.procs
               PROVE  /\ pipeline'.procs[i].pid \in Pids => Numbers'[pipeline'.procs[i].pid] = made'
                      /\ ~Alive(pipeline'.procs[i]) => pipeline'.procs[i].status = made'
    BY DEF OfOne
  <2>1. CASE pipeline'.procs[i] = proc BY <1>5, <1>7, <2>1
  <2>2. CASE pipeline'.procs[i] # proc
    <3>1. PICK h \in DOMAIN old : pipeline'.procs[i] = old[h] /\ made' = made BY <1>8, <2>2
    <3>2. OfOne(old, Numbers, made) BY <1>1 DEF PipelineOK
    <3> QED BY <1>5, <3>1, <3>2 DEF OfOne
  <2> QED BY <2>1, <2>2
<1>11. PipelineOK' BY <1>8, <1>10 DEF PipelineOK
<1> DEFINE j == JobOf(table, p)
           lost == IF In(table, j, "dead") THEN {Last(table, j).pid} ELSE {}
<1>12. word' = Unowed(word, lost \cup {p}) BY DEF Fork
<1>13. word' \in Words BY <1>1, <1>12 DEF Words, Unowed
<1>14. TableOK(Recycled(table, p), Numbers', word', Forming', InTable)
  BY <1>1, <1>5, <1>9, <1>12, RecycledOK
<1> QED BY <1>2, <1>5, <1>6, <1>11, <1>13, <1>14 DEF StatusInv
\* The pipeline goes behind the last job, and its last status is owed if it is in
\* the background.
LEMMA StopPipelineStatus ==
  ASSUME JobsInv, MaxJobs <= Room, StopPipeline
  PROVE  StatusInv'
<1> DEFINE t    == CleanedUp(table)
           slot == Largest(DOMAIN t.jobs) + 1
           procs == pipeline.procs
           last == procs[Len(procs)].pid
           job  == [procs |-> pipeline.procs, state |-> StateOf(pipeline.procs),
                    fg |-> ~pipeline.async, async |-> pipeline.async, notified |-> FALSE]
           jobs == [j \in DOMAIN t.jobs \cup {slot} |-> IF j = slot THEN job ELSE t.jobs[j]]
           u    == [t EXCEPT !.jobs = jobs]
<1>1. /\ Good(table) /\ child \in Children /\ word \in Words /\ PipelineOK
      /\ TableOK(table, Numbers, word, Forming, InTable)
      /\ made \in Nat /\ InTable \in Int /\ InTable <= Room
  BY InTableIs DEF JobsInv, TableInv, StatusInv
<1>2. /\ Making /\ UNCHANGED <<child, made>> /\ shell' \in {"ready", "wait"}
      /\ pipeline' = [procs |-> <<>>, length |-> 0, async |-> FALSE]
      /\ \/ /\ pipeline.async /\ table' = ResetCurrent(u)
            /\ word' = [word EXCEPT ![last] = "owed"]
         \/ table' = u /\ word' = word
  BY DEF StopPipeline, Making
<1>3. Good(t) /\ TableOK(t, Numbers, word, Forming, InTable)
  BY <1>1, CleanedUpGood, CleanedUpOK
<1>4. Fields(t) BY <1>3 DEF Good, Fields
<1> HIDE DEF t
<1>5. slot \notin DOMAIN t.jobs
  <2>1. IF DOMAIN t.jobs = {} THEN Largest(DOMAIN t.jobs) = NoJob
        ELSE Largest(DOMAIN t.jobs) \in DOMAIN t.jobs /\ \A k \in DOMAIN t.jobs : k <= Largest(DOMAIN t.jobs)
    BY <1>3, LargestIsOne DEF Good
  <2>2. DOMAIN t.jobs \subseteq Nat BY <1>3 DEF Good, Slots
  <2> HIDE DEF slot
  <2>3. CASE DOMAIN t.jobs = {} BY <2>3
  <2>4. CASE DOMAIN t.jobs # {}
    <3>1. Largest(DOMAIN t.jobs) \in Nat BY <2>1, <2>2, <2>4
    <3>2. \A k \in DOMAIN t.jobs : k # Largest(DOMAIN t.jobs) + 1 BY <2>1, <2>2, <2>4, <3>1
    <3> QED BY <3>2 DEF slot
  <2> QED BY <2>3, <2>4
<1>6. /\ procs \in Seq(Process) /\ procs # <<>> /\ OfOne(procs, Numbers, made)
  BY <1>1, <1>2 DEF PipelineOK
<1>7. Len(procs) \in DOMAIN procs
  <2> HIDE DEF procs
  <2>1. Len(procs) \in Nat \ {0} /\ DOMAIN procs = 1 .. Len(procs)
    BY <1>6, EmptySeq, LenProperties
  <2> QED BY <2>1
<1>8. /\ JobFields \subseteq DOMAIN job /\ job.procs = procs /\ job.state = StateOf(procs)
      /\ pipeline.async => Background(job)
  BY DEF JobFields, Background
<1> HIDE DEF job, slot
<1>9. JobOK(job, Numbers)
  BY <1>1, <1>6, <1>8, StateOfIs DEF JobOK
<1>10. \A i \in DOMAIN job.procs : job.procs[i].pid \in Forming
  BY <1>8 DEF Forming
<1>11. last \in Forming /\ last \in Pids
  BY <1>1, <1>7 DEF Forming, TableOK, OnePlace
<1>12. word' \in Words /\ \A q \in Pids : q # last => word'[q] = word[q]
  BY <1>1, <1>2, <1>11 DEF Words
<1>13. word'[last] = "owed" => word[last] = "owed" \/ Background(job)
  BY <1>2, <1>8
<1>14. \A q \in Pids : q \notin Forming => word'[q] = word[q]
  BY <1>11, <1>12
<1>15. \A q \in Forming : word'[q] = "owed" =>
         word[q] = "owed" \/ (q = job.procs[Len(job.procs)].pid /\ Background(job))
  <2>1. Forming \subseteq Pids BY <1>1 DEF TableOK, OnePlace
  <2> QED BY <1>8, <1>12, <1>13, <2>1
<1> HIDE DEF procs, last
<1>16. TableOK(u, Numbers, word', {}, InTable + 1)
  <2>1. jobs = [j \in DOMAIN t.jobs \cup {slot} |-> IF j = slot THEN job ELSE t.jobs[j]]
    OBVIOUS
  <2>2. Brings(job, Forming, word, word') BY <1>10, <1>14, <1>15 DEF Brings
  <2>3. InTable \in Int BY <1>1
  <2>4. TableOK(t, Numbers, word, Forming, InTable) BY <1>3
  <2> HIDE DEF jobs, u
  <2>5. TableOK([t EXCEPT !.jobs = jobs], Numbers, word', {}, InTable + 1)
    BY <1>4, <1>5, <1>9, <2>1, <2>2, <2>3, <2>4, AddedOK
  <2> QED BY <2>5 DEF u
<1>17. IsTable(u) BY <1>4 DEF Fields, IsTable
<1> HIDE DEF u
<1>18. TableOK(table', Numbers, word', {}, InTable + 1)
  BY <1>2, <1>16, <1>17, ResetCurrentSame, SameOK
<1>19. Forming' = {} BY <1>2 DEF Forming
<1>20. InTable' = InTable + 1 /\ ~Making' BY <1>1, <1>2 DEF InTable, Making
<1>21. Numbers' = Numbers /\ child' \in Children BY <1>1, <1>2 DEF Numbers
<1>22. PipelineOK'
  <2>1. pipeline'.procs = <<>> /\ DOMAIN pipeline' = {"procs", "length", "async"} BY <1>2
  <2>2. pipeline'.procs \in Seq(Process) BY <2>1, EmptySeq
  <2> QED BY <1>20, <2>1, <2>2 DEF PipelineOK, OfOne
<1> QED BY <1>12, <1>18, <1>19, <1>20, <1>21, <1>22 DEF StatusInv

\* The user is told of the jobs.
LEMMA CleanedStatus ==
  ASSUME JobsInv, MaxJobs <= Room, WaitEnds \/ NotifyEnds
  PROVE  StatusInv'
<1>1. /\ UNCHANGED <<child, pipeline, made, word>> /\ shell' \in {"ready", "waitall"}
      /\ ~Making /\ table' = CleanedUp(Notified(table))
  BY DEF WaitEnds, NotifyEnds, Making
<1>2. /\ Good(table) /\ IsTable(table) /\ word \in Words
      /\ TableOK(table, Numbers, word, Forming, InTable) /\ InTable \in Int /\ InTable <= Room
  BY InTableIs DEF JobsInv, TableInv, Good, StatusInv
<1>3. Good(Notified(table)) /\ TableOK(Notified(table), Numbers, word, Forming, InTable)
  BY <1>2, NotifiedOK, ToldGood
<1>4. TableOK(CleanedUp(Notified(table)), Numbers, word, Forming, InTable)
  BY <1>2, <1>3, CleanedUpOK
<1> QED BY <1>1, <1>2, <1>4, ShellStep DEF JobsInv

LEMMA ListStatus ==
  ASSUME JobsInv, MaxJobs <= Room, ListJobs
  PROVE  StatusInv'
<1> DEFINE t == CleanedUp(table)
           jobs == [j \in DOMAIN t.jobs |-> [t.jobs[j] EXCEPT !.notified = TRUE]]
           u == [t EXCEPT !.jobs = jobs]
<1>1. /\ UNCHANGED <<child, pipeline, made, word>> /\ shell' = "ready" /\ ~Making /\ table' = u
  BY DEF ListJobs, Ready, Making
<1>2. /\ Good(table) /\ word \in Words
      /\ TableOK(table, Numbers, word, Forming, InTable) /\ InTable \in Int /\ InTable <= Room
  BY InTableIs DEF JobsInv, TableInv, StatusInv
<1>3. Good(t) /\ TableOK(t, Numbers, word, Forming, InTable)
  BY <1>2, CleanedUpGood, CleanedUpOK
<1> HIDE DEF t
<1>4. ASSUME NEW j \in DOMAIN t.jobs
      PROVE  /\ JobFields \subseteq DOMAIN jobs[j] /\ jobs[j].procs = t.jobs[j].procs
             /\ jobs[j].state = t.jobs[j].state /\ (Background(t.jobs[j]) => Background(jobs[j]))
  <2>1. JobFields \subseteq DOMAIN t.jobs[j] BY <1>3 DEF TableOK, JobOK
  <2> QED BY <2>1 DEF JobFields, Background
<1>5. DOMAIN jobs = DOMAIN t.jobs OBVIOUS
<1> HIDE DEF jobs
<1>6. u.jobs = jobs /\ u.saved = t.saved BY <1>3 DEF Good, IsTable
<1>7. TableOK(u, Numbers, word, Forming, InTable)
  <2> HIDE DEF u
  <2> QED BY <1>3, <1>4, <1>5, <1>6, FlagsOK
<1> QED BY <1>1, <1>2, <1>7, ShellStep DEF JobsInv

\* All is forgotten, but what the jobs that are left will say.
LEMMA WaitAllStatus ==
  ASSUME JobsInv, MaxJobs <= Room, WaitAll
  PROVE  StatusInv'
<1>1. /\ UNCHANGED <<child, pipeline, made>> /\ shell' \in {"ready", "wait"} /\ ~Making
  BY DEF WaitAll, Ready, Making
<1>2. CASE UNCHANGED <<table, word>>
  BY <1>1, <1>2, SameStatus DEF JobsInv
<1>3. CASE ~UNCHANGED <<table, word>>
  <2> DEFINE told == DeadTold(table)
             t == CleanedUp(told)
             u == [t EXCEPT !.saved = Status!Blank]
             gone == {p \in Pids : \A k \in DOMAIN table'.jobs : Last(table', k).pid # p}
  <2>1. table' = u /\ word' = Unowed(word, gone) BY <1>3 DEF WaitAll
  <2>2. /\ Good(table) /\ IsTable(table) /\ word \in Words
        /\ TableOK(table, Numbers, word, Forming, InTable) /\ InTable \in Int /\ InTable <= Room
    BY InTableIs DEF JobsInv, TableInv, Good, StatusInv
  <2>3. Good(told) /\ TableOK(told, Numbers, word, Forming, InTable)
    <3>1. Alike(table, told) BY <2>2 DEF IsTable, Alike, DeadTold
    <3> QED BY <2>2, <3>1, AlikeGood, DeadToldOK
  <2> HIDE DEF told
  <2>4. Good(t) /\ TableOK(t, Numbers, word, Forming, InTable)
    BY <2>2, <2>3, CleanedUpGood, CleanedUpOK
  <2> HIDE DEF t
  <2>5. IsTable(t) /\ table'.jobs = t.jobs BY <2>1, <2>4 DEF Good, IsTable
  <2>6. word' \in Words /\ \A q \in Pids : word'[q] = IF q \in gone THEN "none" ELSE word[q]
    BY <2>1, <2>2 DEF Words, Unowed
  <2>7. ASSUME NEW q \in Pids, word'[q] = "owed"
        PROVE  word[q] = "owed" /\ \E k \in DOMAIN t.jobs : Last(t, k).pid = q
    <3>1. q \notin gone /\ word[q] = "owed" BY <2>6, <2>7
    <3>2. PICK k \in DOMAIN table'.jobs : Last(table', k).pid = q BY <3>1
    <3> QED BY <2>5, <3>1, <3>2 DEF Last, Procs
  <2> HIDE DEF gone
  <2>8. TableOK(u, Numbers, word', Forming, InTable)
    BY <2>4, <2>5, <2>7, BlankOK
  <2> QED BY <1>1, <2>1, <2>6, <2>8, ShellStep DEF JobsInv
<1> QED BY <1>2, <1>3

\* One of the dead jobs is told and leaves.
LEMMA TellOneOfStatus ==
  ASSUME JobsInv, MaxJobs <= Room, NEW jobs, jobs \subseteq Dead,
         NEW next, next \notin {"made", "piping"}, ~Making, TellOneOf(jobs, next)
  PROVE  StatusInv'
<1>1. UNCHANGED <<child, pipeline, made, word>> /\ shell' \notin {"made", "piping"}
  BY DEF TellOneOf
<1>2. CASE UNCHANGED table
  BY <1>1, <1>2, SameStatus DEF JobsInv
<1>3. CASE ~UNCHANGED table
  <2> DEFINE told == Notified(table)
             gone == Smallest(jobs)
  <2>1. jobs # {} /\ table' = Deleted(told, gone, TRUE) BY <1>3 DEF TellOneOf
  <2>2. /\ Good(table) /\ IsTable(table) /\ word \in Words
        /\ TableOK(table, Numbers, word, Forming, InTable) /\ InTable \in Int /\ InTable <= Room
    BY InTableIs DEF JobsInv, TableInv, Good, StatusInv
  <2>3. gone \in DOMAIN table.jobs /\ table.jobs[gone].state = "dead"
    <3>1. jobs \subseteq Slots BY <2>2 DEF Dead, Good
    <3>2. gone \in jobs BY <2>1, <3>1, SmallestIsIn
    <3> QED BY <3>2 DEF Dead, In, Has
  <2>4. Good(told) /\ TableOK(told, Numbers, word, Forming, InTable)
    BY <2>2, NotifiedOK, ToldGood
  <2>5. gone \in DOMAIN told.jobs /\ told.jobs[gone].state = "dead"
    <3>1. JobFields \subseteq DOMAIN table.jobs[gone] BY <2>2, <2>3 DEF TableOK, JobOK
    <3> HIDE DEF gone
    <3>2. /\ DOMAIN told.jobs = DOMAIN table.jobs
          /\ told.jobs[gone] = [table.jobs[gone] EXCEPT !.notified = @ \/ table.jobs[gone].state # "running"]
      BY <2>2, <2>3 DEF Notified, IsTable
    <3> QED BY <2>3, <3>1, <3>2 DEF JobFields
  <2>6. Fields(told) BY <2>4 DEF Good, Fields
  <2> HIDE DEF told, gone
  <2>7. TableOK(Deleted(told, gone, TRUE), Numbers, word, Forming, InTable)
    BY <2>2, <2>4, <2>5, <2>6, DeletedOK
  <2> QED BY <1>1, <2>1, <2>2, <2>7, ShellStep DEF JobsInv
<1> QED BY <1>2, <1>3

LEMMA DisownStatus ==
  ASSUME JobsInv, MaxJobs <= Room, NEW j, Disown(j)
  PROVE  StatusInv'
<1> DEFINE last == Last(table, j).pid
           w == [p \in Pids |-> IF p = last THEN "disowned" ELSE word[p]]
<1>1. /\ UNCHANGED <<child, pipeline, made>> /\ shell' = "ready" /\ ~Making
      /\ j \in DOMAIN table.jobs /\ table' = Deleted(table, j, TRUE) /\ word' = w
  BY DEF Disown, Ready, Making, Has
<1>2. /\ Fields(table) /\ word \in Words
      /\ TableOK(table, Numbers, word, Forming, InTable) /\ InTable \in Int /\ InTable <= Room
  BY InTableIs DEF JobsInv, TableInv, Good, Fields, StatusInv
<1>3. w \in Words /\ (last \in Pids => w[last] = "disowned") BY <1>2 DEF Words
<1>4. TableOK(table, Numbers, w, Forming, InTable)
  <2>1. w = [p \in Pids |-> IF p = last THEN "disowned" ELSE word[p]] OBVIOUS
  <2> HIDE DEF w, last
  <2> QED BY <1>2, <2>1, DisownedOK
<1> HIDE DEF w
<1>5. TableOK(Deleted(table, j, TRUE), Numbers, w, Forming, InTable)
  BY <1>1, <1>2, <1>3, <1>4, DeletedOK
<1> QED BY <1>1, <1>3, <1>5, ShellStep DEF JobsInv

\* A job in the foreground, whose status nobody is owed.
LEMMA FgStatus ==
  ASSUME JobsInv, NEW j, Fg(j)
  PROVE  StatusInv'
<1> DEFINE last == Last(table, j).pid
           w == Unowed(word, {last})
           with(t, job) == [t EXCEPT !.jobs = [t.jobs EXCEPT ![j] = job]]
           started == with(table, [table.jobs[j] EXCEPT !.notified = FALSE])
           chosen  == SetCurrent(started, j)
           front   == with(chosen, [chosen.jobs[j] EXCEPT !.fg = TRUE])
           going   == SetRunning(front, j)
           told    == with(going, [going.jobs[j] EXCEPT !.notified = TRUE])
           OK(t)   == /\ IsTable(t) /\ j \in DOMAIN t.jobs /\ Last(t, j).pid = last
                      /\ TableOK(t, Numbers, w, Forming, InTable)
<1>1. /\ UNCHANGED <<pipeline, made>> /\ shell' = "wait" /\ ~Making /\ j \in DOMAIN table.jobs
      /\ table' = told \/ table' = front
      /\ child' = child \/ child' = Continued_(Procs(table, j))
      /\ word' = w
  BY DEF Fg, Ready, Making, Has
<1>2. /\ IsTable(table) /\ word \in Words /\ child \in Children
      /\ TableOK(table, Numbers, word, Forming, InTable)
  BY DEF JobsInv, TableInv, Good, StatusInv
<1>3. w \in Words /\ (last \in Pids => w[last] # "owed") BY <1>2 DEF Words, Unowed
<1>4. OK(table)
  <2>1. JobOK(table.jobs[j], Numbers) BY <1>1, <1>2 DEF TableOK
  <2>2. Holds(table, j, last) BY <2>1, LastIsHeld
  <2>3. \A p \in {last} \cap Pids : SavedFor(table, p) = {}
    BY <1>1, <1>2, <2>2 DEF TableOK, OnePlace
  <2>4. TableOK(table, Numbers, w, Forming, InTable) BY <1>2, <2>3, UnowedOK
  <2> QED BY <1>1, <1>2, <2>4
<1> HIDE DEF w, last
<1>5. ASSUME NEW t, OK(t), NEW job, JobFields \subseteq DOMAIN job,
             job.procs = t.jobs[j].procs, job.state = t.jobs[j].state
      PROVE  OK(with(t, job))
  <2>1. TableOK(with(t, job), Numbers, w, Forming, InTable)
    BY <1>3, <1>5, OneFlagOK
  <2>2. IsTable(with(t, job)) /\ with(t, job).jobs = [t.jobs EXCEPT ![j] = job]
    BY <1>5 DEF IsTable
  <2>3. j \in DOMAIN with(t, job).jobs /\ with(t, job).jobs[j] = job BY <1>5, <2>2
  <2>4. Last(with(t, job), j).pid = last BY <1>5, <2>3 DEF Last, Procs
  <2> QED BY <2>1, <2>2, <2>3, <2>4
<1>6. ASSUME NEW t, OK(t) PROVE JobFields \subseteq DOMAIN t.jobs[j]
  BY <1>6 DEF TableOK, JobOK
<1> HIDE DEF OK
<1>7. ASSUME NEW job, JobFields \subseteq DOMAIN job, NEW b
      PROVE  LET n == [job EXCEPT !.notified = b] f == [job EXCEPT !.fg = b]
             IN /\ JobFields \subseteq DOMAIN n /\ n.procs = job.procs /\ n.state = job.state
                /\ JobFields \subseteq DOMAIN f /\ f.procs = job.procs /\ f.state = job.state
  BY <1>7 DEF JobFields
<1> HIDE DEF with
<1>8. OK(started) BY <1>4, <1>5, <1>6, <1>7
<1> HIDE DEF started
<1>9. OK(chosen)
  <2>1. IsTable(started) BY <1>8 DEF OK
  <2>2. IsTable(chosen) /\ chosen.jobs = started.jobs /\ chosen.saved = started.saved
    BY <2>1, SetCurrentSame
  <2> HIDE DEF chosen
  <2> QED BY <1>8, <2>2, SameOK DEF OK, Last, Procs
<1> HIDE DEF chosen
<1>10. OK(front) BY <1>5, <1>6, <1>7, <1>9
<1> HIDE DEF front
<1>11. OK(going) BY <1>10, SetRunningOK DEF OK
<1> HIDE DEF going
<1>12. OK(told) BY <1>5, <1>6, <1>7, <1>11
<1> HIDE DEF told
<1>13. TableOK(table', Numbers, w, Forming, InTable) BY <1>1, <1>10, <1>12 DEF OK
<1>14. child' \in Children /\ Numbers' = Numbers
  BY <1>1, <1>2, ContinuedKeeps DEF JobsInv, Numbers
<1>15. InTable' = InTable /\ (Making' => Making) BY <1>1 DEF InTable, Making
<1> QED BY <1>1, <1>3, <1>13, <1>14, <1>15, TableStep DEF JobsInv

LEMMA ResumeStatus ==
  ASSUME JobsInv, NEW j, Resume(j)
  PROVE  StatusInv'
<1> DEFINE going == SetRunning(table, j)
           job == [[going.jobs[j] EXCEPT !.fg = FALSE] EXCEPT !.notified = TRUE]
           t == [going EXCEPT !.jobs = [going.jobs EXCEPT ![j] = job]]
<1>1. /\ UNCHANGED <<pipeline, made, word>> /\ shell' = "ready" /\ ~Making
      /\ j \in DOMAIN table.jobs
      /\ child' = Continued_(Procs(table, j))
  BY DEF Resume, Ready, Making, In, Has
<1>2. /\ IsTable(table) /\ word \in Words /\ child \in Children
      /\ TableOK(table, Numbers, word, Forming, InTable)
  BY DEF JobsInv, TableInv, Good, StatusInv
<1>3. /\ IsTable(going) /\ TableOK(going, Numbers, word, Forming, InTable)
      /\ j \in DOMAIN going.jobs
  BY <1>1, <1>2, SetRunningOK
<1>4. table' = ResetCurrent(t) \/ table' = t
  <2> DEFINE x == [going EXCEPT !.jobs[j].fg = FALSE, !.jobs[j].notified = TRUE]
  <2>1. table' = ResetCurrent(x) \/ table' = x BY DEF Resume
  <2> HIDE DEF going
  <2>2. x = t
    <3> DEFINE a == [going.jobs[j] EXCEPT !.fg = FALSE]
               b == [going.jobs EXCEPT ![j] = a]
    <3>1. b[j] = a BY <1>3
    <3>2. x = [going EXCEPT !.jobs = [b EXCEPT ![j] = [b[j] EXCEPT !.notified = TRUE]]]
      BY <1>3 DEF IsTable
    <3>3. [b EXCEPT ![j] = job] = [going.jobs EXCEPT ![j] = job] OBVIOUS
    <3> QED BY <3>1, <3>2, <3>3
  <2> QED BY <2>1, <2>2
<1> HIDE DEF going
<1>5. /\ JobFields \subseteq DOMAIN job /\ job.procs = going.jobs[j].procs
      /\ job.state = going.jobs[j].state
      /\ Background(going.jobs[j]) => Background(job)
  <2>1. JobFields \subseteq DOMAIN going.jobs[j] BY <1>3 DEF TableOK, JobOK
  <2> QED BY <2>1 DEF JobFields, Background
<1> HIDE DEF job
<1>6. IsTable(t) /\ TableOK(t, Numbers, word, Forming, InTable)
  <2>1. TableOK(t, Numbers, word, Forming, InTable) BY <1>3, <1>5, OneFlagOK
  <2> QED BY <1>3, <2>1 DEF IsTable
<1> HIDE DEF t
<1>7. TableOK(table', Numbers, word, Forming, InTable)
  BY <1>4, <1>6, ResetCurrentSame, SameOK
<1>8. child' \in Children /\ Numbers' = Numbers
  BY <1>1, ContinuedKeeps DEF JobsInv, Numbers
<1>9. InTable' = InTable /\ (Making' => Making) BY <1>1 DEF InTable, Making
<1> QED BY <1>1, <1>2, <1>7, <1>8, <1>9, TableStep DEF JobsInv

LEMMA StatusInvStep ==
  ASSUME JobsInv, MaxJobs <= Room, [JobsNext]_jobsVars
  PROVE  StatusInv'
<1> USE DEF JobsInv
<1>1. ASSUME NEW p \in Pids, Exit(p) \/ Suspend(p) \/ Continue(p) PROVE StatusInv'
  BY <1>1, ChangesKeep DEF Exit, Suspend, Continue, ChildStates
<1>2. ASSUME NEW p \in Pids, WaitpidChild(p) PROVE StatusInv'
  BY <1>2, WaitpidStatus
<1>3. CASE SigchldHandler \/ WaitBlocks
  BY <1>3, SameStatus DEF SigchldHandler, WaitBlocks
<1>4. CASE WaitpidNothing \/ WaitpidNoChild
  <2>1. IsTable(table) /\ TableOK(table, Numbers, word, Forming, InTable) /\ word \in Words
    BY DEF TableInv, Good, StatusInv
  <2>2. TableOK(CurrentSet(table, reaping), Numbers, word, Forming, InTable)
    BY <2>1, CurrentSetSame, SameOK
  <2>3. CASE WaitpidNothing BY <2>1, <2>2, <2>3, ShellStep DEF WaitpidNothing
  <2>4. CASE WaitpidNoChild BY <2>4, SameStatus DEF WaitpidNoChild
  <2> QED BY <1>4, <2>3, <2>4
<1>5. ASSUME NEW p \in Pids, NEW length \in 1 .. MaxLength, NEW async \in BOOLEAN,
             Fork(p, length, async)
      PROVE  StatusInv'
  BY <1>5, ForkStatus
<1>6. CASE StopPipeline
  BY <1>6, StopPipelineStatus
<1>7. CASE WaitEnds \/ NotifyEnds
  BY <1>7, CleanedStatus
<1>8. CASE WaitAll
  BY <1>8, WaitAllStatus
<1>9. ASSUME NEW p \in Pids, WaitPid(p) PROVE StatusInv'
  BY <1>9, SameStatus DEF WaitPid, Ready, Making
<1>10. ASSUME NEW j \in Slots, Fg(j) \/ Resume(j) \/ Disown(j) PROVE StatusInv'
  BY <1>10, FgStatus, ResumeStatus, DisownStatus
<1>11. CASE WaitAny
  BY <1>11, TellOneOfStatus DEF WaitAny, Ready, Making, Dead
<1>12. CASE AnyWoken
  BY <1>12, TellOneOfStatus DEF AnyWoken, Making
<1>13. CASE ListJobs
  BY <1>13, ListStatus
<1>14. CASE AnyChecks \/ AnyBlocks \/ AnyWakes \/ NotifyBegins
  BY <1>14, SameStatus DEF AnyChecks, AnyBlocks, AnyWakes, NotifyBegins, Ready, Making
<1>15. CASE UNCHANGED jobsVars
  BY <1>15, SameStatus DEF jobsVars
<1> QED BY <1>1, <1>2, <1>3, <1>4, <1>5, <1>6, <1>7, <1>8, <1>9, <1>10, <1>11, <1>12, <1>13,
           <1>14, <1>15 DEF JobsNext, Builtins

\* What the invariant says of `wait pid'.
LEMMA AnswersTheLast ==
  ASSUME JobsInv
  PROVE  WaitTellsTheLast
<1> SUFFICES ASSUME NEW p \in Pids, ~In(table, JobOf(table, p), "running"), word[p] # "disowned"
             PROVE  \/ Answer(p) \in {Stopped, child[p].job}
                    \/ Answer(p) = Status!Unknown /\ word[p] = "none"
  BY DEF WaitTellsTheLast
<1> DEFINE j == JobOf(table, p)
<1>1. /\ DOMAIN table.jobs \subseteq Slots /\ OnePlace(table, Forming)
      /\ SavedOK(table, Numbers, word) /\ OwedKept(table, word) /\ word \in Words
      /\ \A k \in DOMAIN table.jobs : JobOK(table.jobs[k], Numbers)
  BY DEF JobsInv, TableInv, Good, StatusInv, TableOK
<1>2. \/ j = NoJob /\ \A k \in DOMAIN table.jobs : ~Holds(table, k, p)
      \/ j \in DOMAIN table.jobs /\ Holds(table, j, p)
  BY <1>1, JobOfIs
<1>3. NoJob \notin DOMAIN table.jobs BY <1>1 DEF Slots, NoJob
<1>4. Numbers[p] = child[p].job BY DEF Numbers
<1>5. Answer(p) = IF j # NoJob THEN JobStatus(j) ELSE Status!Lookup(table.saved, p)
  BY DEF Answer
<1> HIDE DEF j
<1>6. CASE j # NoJob
  <2>1. j \in DOMAIN table.jobs /\ Holds(table, j, p) /\ JobOK(table.jobs[j], Numbers)
    BY <1>1, <1>2, <1>6
  <2>2. ~In(table, j, "running") BY DEF j
  <2>3. CASE In(table, j, "stopped") BY <1>5, <1>6, <2>3 DEF JobStatus
  <2>4. CASE ~In(table, j, "stopped")
    <3>1. table.jobs[j].state = "dead"
      BY <2>1, <2>2, <2>4 DEF JobOK, JobStates, In, Has
    <3>2. PICK m \in Nat : OfOne(table.jobs[j].procs, Numbers, m) BY <2>1 DEF JobOK
    <3>3. Numbers[p] = m BY <2>1, <3>2 DEF OfOne, Holds, Procs
    <3>4. Len(table.jobs[j].procs) \in DOMAIN table.jobs[j].procs BY <2>1, ProcsAre
    <3>5. Last(table, j).status = m
      BY <2>1, <3>1, <3>2, <3>4 DEF JobOK, OfOne, Last, Procs
    <3> QED BY <1>4, <1>5, <1>6, <2>4, <3>3, <3>5 DEF JobStatus
  <2> QED BY <2>3, <2>4
<1>7. CASE j = NoJob
  <2> DEFINE S == SavedFor(table, p)
  <2>1. Status!Entries(table.saved, p) = S BY DEF Status!Entries, SavedFor
  <2>2. CASE S = {}
    <3>1. Answer(p) = Status!Unknown BY <1>5, <1>7, <2>1, <2>2 DEF Status!Lookup
    <3>2. word[p] # "owed"
      <4> SUFFICES ASSUME word[p] = "owed" PROVE FALSE
        OBVIOUS
      <4>1. PICK k \in DOMAIN table.jobs : Last(table, k).pid = p
        BY <1>1, <2>2 DEF OwedKept
      <4>2. Holds(table, k, p) BY <1>1, <4>1, LastIsHeld
      <4> QED BY <1>2, <1>3, <1>7, <4>2
    <3>3. word[p] = "none" BY <1>1, <3>2 DEF Words
    <3> QED BY <3>1, <3>3
  <2>3. CASE S # {}
    <3> DEFINE i == CHOOSE i \in S : TRUE
    <3>1. i \in S BY <2>3
    <3>2. Answer(p) = table.saved[i].status
      BY <1>5, <1>7, <2>1, <2>3 DEF Status!Lookup
    <3> HIDE DEF i
    <3>3. i \in 1 .. Room /\ table.saved[i].pid = p BY <3>1 DEF SavedFor
    <3>4. table.saved[i].status = Numbers[p] BY <1>1, <3>3 DEF SavedOK
    <3> QED BY <1>4, <3>2, <3>4
  <2> QED BY <2>2, <2>3
<1> QED BY <1>6, <1>7

\* `wait pid' tells the status of the last child with the pid and loses none that it owes, for
\* any processes, any pids that come again, and whatever deletes jobs in between; what is
\* assumed is that bash remembers as many statuses as pipelines are started: it forgets the
\* oldest ones after CHILD_MAX (jobs.c:822-962, 1264-1283, 2585-2645).
THEOREM StatusIsTheLast ==
  ASSUME MaxJobs <= Room
  PROVE  JobsSpec => []WaitTellsTheLast
<1>1. JobsInit => JobsInv
  BY TableInvInit, StatusInvInit DEF JobsInv
<1>2. JobsInv /\ [JobsNext]_jobsVars => JobsInv'
  BY TableInvStep, StatusInvStep DEF JobsInv
<1>3. JobsInv => WaitTellsTheLast
  BY AnswersTheLast
<1> QED BY <1>1, <1>2, <1>3, PTL DEF JobsSpec
-----------------------------------------------------------------------------
(* BashStatuses: the ring, and the chains through it. *)

CellLinks == Cells \cup {NoCell}
Tables ==
  [cells : [Cells -> [pid : SavedPids \cup {FreePid}, status : SavedStatuses \cup {NoStatus},
                      next : CellLinks, prev : CellLinks]],
   first : [Buckets -> CellLinks], head : 0 .. Ring]

\* How young a cell is, when h is used next.
Youth(h) == [c \in Cells |-> IF c >= h THEN c - h + 1 ELSE c + Ring - h + 1]

\* The cells in use, and those of a chain.
Used(t)     == {c \in Cells : t.cells[c].pid # FreePid}
Chain(t, b) == {c \in Used(t) : Hash[t.cells[c].pid] = b}

Youngest(c, S, y) == IF S = {} THEN c = NoCell ELSE c \in S /\ \A d \in S : y[d] <= y[c]
Oldest(c, S, y)   == IF S = {} THEN c = NoCell ELSE c \in S /\ \A d \in S : y[d] >= y[c]
Older(c, S, y)    == {d \in S : y[d] < y[c]}
Younger(c, S, y)  == {d \in S : y[d] > y[c]}

\* A chain begins with its youngest cell and goes from each to the one before it.
Chained(t, y) == \A b \in Buckets :
  /\ Youngest(t.first[b], Chain(t, b), y)
  /\ \A c \in Chain(t, b) : /\ Youngest(t.cells[c].next, Older(c, Chain(t, b), y), y)
                            /\ Oldest(t.cells[c].prev, Younger(c, Chain(t, b), y), y)

OncePerPid(t) ==
  \A c, d \in Used(t) : t.cells[c].pid = t.cells[d].pid => c = d

Ordered(y) == y \in [Cells -> 1 .. Ring] /\ \A c, d \in Cells : y[c] = y[d] => c = d

StatusesInv ==
  /\ Table \in Tables /\ nalloc \in {0, Ring} /\ npid \in Nat
  /\ nalloc = 0 => Used(Table) = {} /\ head = 0
  /\ nalloc # 0 => Chained(Table, Youth(head))
  /\ OncePerPid(Table) /\ Cardinality(Used(Table)) <= npid

-----------------------------------------------------------------------------
\* One link is written and the rest of the table stays.
LEMMA LinkSets ==
  ASSUME NEW t \in Tables, NEW c \in CellLinks, NEW to \in CellLinks, NEW f \in {"next", "prev"}
  PROVE  LET r == Link(t, c, f, to) IN
         /\ r \in Tables /\ r.first = t.first /\ r.head = t.head
         /\ \A x \in Cells :
              /\ r.cells[x].pid = t.cells[x].pid /\ r.cells[x].status = t.cells[x].status
              /\ r.cells[x].next = IF x = c /\ f = "next" THEN to ELSE t.cells[x].next
              /\ r.cells[x].prev = IF x = c /\ f = "prev" THEN to ELSE t.cells[x].prev
<1> DEFINE r == Link(t, c, f, to)
<1>1. NoCell \notin Cells BY HashAssumption DEF NoCell, Cells
<1>2. CASE c = NoCell BY <1>1, <1>2 DEF Link
<1>3. CASE c # NoCell
  <2>1. c \in Cells BY <1>3 DEF CellLinks
  <2>2. t = [cells |-> t.cells, first |-> t.first, head |-> t.head] BY DEF Tables
  <2> DEFINE old == t.cells[c]
             new == IF f = "next" THEN [old EXCEPT !.next = to] ELSE [old EXCEPT !.prev = to]
  <2>3. r = [cells |-> [t.cells EXCEPT ![c] = new], first |-> t.first, head |-> t.head]
    BY <1>3, <2>1, <2>2 DEF Link, Tables
  <2>4. /\ new \in [pid : SavedPids \cup {FreePid}, status : SavedStatuses \cup {NoStatus},
                    next : CellLinks, prev : CellLinks]
        /\ new.pid = old.pid /\ new.status = old.status
        /\ new.next = IF f = "next" THEN to ELSE old.next
        /\ new.prev = IF f = "prev" THEN to ELSE old.prev
    <3>1. old \in [pid : SavedPids \cup {FreePid}, status : SavedStatuses \cup {NoStatus},
                    next : CellLinks, prev : CellLinks]
      BY <2>1 DEF Tables
    <3> HIDE DEF old
    <3> QED BY <3>1
  <2> HIDE DEF new
  <2>5. [t.cells EXCEPT ![c] = new] \in
          [Cells -> [pid : SavedPids \cup {FreePid}, status : SavedStatuses \cup {NoStatus},
                    next : CellLinks, prev : CellLinks]]
    BY <2>1, <2>4 DEF Tables
  <2>6. r \in Tables BY <2>3, <2>5 DEF Tables
  <2>7. \A x \in Cells : r.cells[x] = IF x = c THEN new ELSE t.cells[x]
    BY <2>1, <2>3 DEF Tables
  <2> QED BY <2>3, <2>4, <2>6, <2>7
<1> QED BY <1>2, <1>3

LEMMA LinkNext ==
  ASSUME NEW t \in Tables, NEW c \in CellLinks, NEW to \in CellLinks
  PROVE  LET r == Link(t, c, "next", to) IN
         /\ r \in Tables /\ r.first = t.first /\ r.head = t.head
         /\ \A x \in Cells :
              /\ r.cells[x].pid = t.cells[x].pid /\ r.cells[x].status = t.cells[x].status
              /\ r.cells[x].next = IF x = c THEN to ELSE t.cells[x].next
              /\ r.cells[x].prev = t.cells[x].prev
<1> DEFINE f == "next"
<1>1. f \in {"next", "prev"} /\ f # "prev" OBVIOUS
<1> HIDE DEF f
<1>2. LET r == Link(t, c, f, to) IN
      /\ r \in Tables /\ r.first = t.first /\ r.head = t.head
      /\ \A x \in Cells :
           /\ r.cells[x].pid = t.cells[x].pid /\ r.cells[x].status = t.cells[x].status
           /\ r.cells[x].next = IF x = c /\ f = "next" THEN to ELSE t.cells[x].next
           /\ r.cells[x].prev = IF x = c /\ f = "prev" THEN to ELSE t.cells[x].prev
  BY <1>1, LinkSets
<1> QED BY <1>2 DEF f

LEMMA LinkPrev ==
  ASSUME NEW t \in Tables, NEW c \in CellLinks, NEW to \in CellLinks
  PROVE  LET r == Link(t, c, "prev", to) IN
         /\ r \in Tables /\ r.first = t.first /\ r.head = t.head
         /\ \A x \in Cells :
              /\ r.cells[x].pid = t.cells[x].pid /\ r.cells[x].status = t.cells[x].status
              /\ r.cells[x].next = t.cells[x].next
              /\ r.cells[x].prev = IF x = c THEN to ELSE t.cells[x].prev
<1> DEFINE f == "prev"
<1>1. f \in {"next", "prev"} /\ f # "next" OBVIOUS
<1> HIDE DEF f
<1>2. LET r == Link(t, c, f, to) IN
      /\ r \in Tables /\ r.first = t.first /\ r.head = t.head
      /\ \A x \in Cells :
           /\ r.cells[x].pid = t.cells[x].pid /\ r.cells[x].status = t.cells[x].status
           /\ r.cells[x].next = IF x = c /\ f = "next" THEN to ELSE t.cells[x].next
           /\ r.cells[x].prev = IF x = c /\ f = "prev" THEN to ELSE t.cells[x].prev
  BY <1>1, LinkSets
<1> QED BY <1>2 DEF f

LEMMA UsedIsCell ==
  ASSUME NEW t \in Tables, NEW c \in Cells
  PROVE  /\ t.cells[c].next \in CellLinks /\ t.cells[c].prev \in CellLinks
         /\ t.cells[c].pid \in SavedPids \cup {FreePid}
         /\ t.cells[c].status \in SavedStatuses \cup {NoStatus}
         /\ c \in Used(t) => t.cells[c].pid \in SavedPids /\ Hash[t.cells[c].pid] \in Buckets
<1>1. t.cells[c] \in [pid : SavedPids \cup {FreePid}, status : SavedStatuses \cup {NoStatus},
                      next : CellLinks, prev : CellLinks]
  BY DEF Tables
<1>2. /\ t.cells[c].next \in CellLinks /\ t.cells[c].prev \in CellLinks
      /\ t.cells[c].pid \in SavedPids \cup {FreePid}
      /\ t.cells[c].status \in SavedStatuses \cup {NoStatus}
  BY <1>1
<1> QED BY <1>2, HashAssumption DEF Used

\* pshash_delindex of a cell in use.
LEMMA DelindexEffect ==
  ASSUME NEW t \in Tables, NEW c \in Used(t), t.cells[c].next # c, t.cells[c].prev # c
  PROVE  LET r == Delindex(t, c)  n == t.cells[c].next  p == t.cells[c].prev IN
         /\ r \in Tables /\ r.head = t.head
         /\ \A x \in Cells :
              /\ r.cells[x].pid = IF x = c THEN FreePid ELSE t.cells[x].pid
              /\ r.cells[x].status = t.cells[x].status
              /\ x # c => /\ r.cells[x].next = IF x = p THEN n ELSE t.cells[x].next
                          /\ r.cells[x].prev = IF x = n THEN p ELSE t.cells[x].prev
         /\ \A b \in Buckets : r.first[b] = IF p = NoCell /\ b = Hash[t.cells[c].pid] THEN n
                                            ELSE t.first[b]
<1> DEFINE n == t.cells[c].next
           p == t.cells[c].prev
           b == Hash[t.cells[c].pid]
           after == Link(t, n, "prev", p)
           linked == IF p # NoCell THEN Link(after, p, "next", n)
                     ELSE [after EXCEPT !.first[b] = n]
           free == [FreeCell EXCEPT !.status = t.cells[c].status]
           r == Delindex(t, c)
<1>1. c \in Cells /\ n \in CellLinks /\ p \in CellLinks /\ b \in Buckets /\ NoCell \notin Cells
      /\ t.cells[c].pid # FreePid /\ t.cells[c].status \in SavedStatuses \cup {NoStatus}
  BY UsedIsCell, HashAssumption DEF Used, NoCell, Cells
<1>2. /\ after \in Tables /\ after.first = t.first /\ after.head = t.head
      /\ \A x \in Cells :
           /\ after.cells[x].pid = t.cells[x].pid /\ after.cells[x].status = t.cells[x].status
           /\ after.cells[x].next = t.cells[x].next
           /\ after.cells[x].prev = IF x = n THEN p ELSE t.cells[x].prev
  BY <1>1, LinkPrev
<1> HIDE DEF after
<1>3. /\ linked \in Tables /\ linked.head = t.head
      /\ \A x \in Cells :
           /\ linked.cells[x].pid = t.cells[x].pid /\ linked.cells[x].status = t.cells[x].status
           /\ linked.cells[x].next = IF x = p THEN n ELSE t.cells[x].next
           /\ linked.cells[x].prev = IF x = n THEN p ELSE t.cells[x].prev
      /\ \A k \in Buckets : linked.first[k] = IF p = NoCell /\ k = b THEN n ELSE t.first[k]
  <2>1. CASE p # NoCell
    BY <1>1, <1>2, <2>1, LinkNext
  <2>2. CASE p = NoCell
    <3>1. after = [cells |-> after.cells, first |-> after.first, head |-> after.head]
      BY <1>2 DEF Tables
    <3>2. linked = [cells |-> after.cells, first |-> [t.first EXCEPT ![b] = n],
                    head |-> t.head]
      BY <1>2, <2>2, <3>1
    <3>3. /\ [t.first EXCEPT ![b] = n] \in [Buckets -> CellLinks]
          /\ \A k \in Buckets : [t.first EXCEPT ![b] = n][k] = IF k = b THEN n ELSE t.first[k]
      BY <1>1 DEF Tables
    <3>4. linked \in Tables BY <1>2, <3>2, <3>3 DEF Tables
    <3> HIDE DEF linked
    <3> QED BY <1>1, <1>2, <2>2, <3>2, <3>3, <3>4
  <2> QED BY <2>1, <2>2
<1>4. r = [linked EXCEPT !.cells[c] = free]
  BY <1>1 DEF Delindex, after
<1> HIDE DEF linked
<1>5. linked = [cells |-> linked.cells, first |-> linked.first, head |-> linked.head]
  BY <1>3 DEF Tables
<1>6. r = [cells |-> [linked.cells EXCEPT ![c] = free], first |-> linked.first,
           head |-> linked.head]
  BY <1>4, <1>5
<1>7. /\ free \in [pid : SavedPids \cup {FreePid}, status : SavedStatuses \cup {NoStatus},
                   next : CellLinks, prev : CellLinks]
      /\ free.pid = FreePid /\ free.status = t.cells[c].status
  BY <1>1 DEF FreeCell, CellLinks
<1> HIDE DEF free, r
<1>8. /\ [linked.cells EXCEPT ![c] = free] \in
           [Cells -> [pid : SavedPids \cup {FreePid}, status : SavedStatuses \cup {NoStatus},
                      next : CellLinks, prev : CellLinks]]
      /\ \A x \in Cells :
           [linked.cells EXCEPT ![c] = free][x] = IF x = c THEN free ELSE linked.cells[x]
  BY <1>1, <1>3, <1>7 DEF Tables
<1>9. r \in Tables BY <1>3, <1>6, <1>8 DEF Tables
<1> QED BY <1>1, <1>3, <1>6, <1>7, <1>8, <1>9 DEF r

\* A cell less: the others of its chain are linked as before, around it.
LEMMA DelindexChained ==
  ASSUME NEW t \in Tables, NEW y, Ordered(y), Chained(t, y), NEW c \in Used(t)
  PROVE  LET r == Delindex(t, c) IN
         /\ r \in Tables /\ r.head = t.head /\ Chained(r, y) /\ Used(r) = Used(t) \ {c}
         /\ \A x \in Used(r) : /\ r.cells[x].pid = t.cells[x].pid
                               /\ r.cells[x].status = t.cells[x].status
<1> DEFINE r == Delindex(t, c)
           n == t.cells[c].next
           p == t.cells[c].prev
           own == Hash[t.cells[c].pid]
<1>1. /\ c \in Cells /\ n \in CellLinks /\ p \in CellLinks /\ own \in Buckets /\ c \in Chain(t, own)
      /\ NoCell \notin Cells /\ Used(t) \subseteq Cells
      /\ \A b : Chain(t, b) \subseteq Cells
  BY UsedIsCell, HashAssumption DEF Used, NoCell, Cells, Chain
<1>2. /\ Youngest(n, Older(c, Chain(t, own), y), y)
      /\ Oldest(p, Younger(c, Chain(t, own), y), y)
      /\ \A x \in Cells : y[x] \in Int /\ y[x] >= 1
      /\ \A x, z \in Cells : y[x] = y[z] => x = z
  BY <1>1, HashAssumption DEF Chained, Ordered
<1>3. n # c /\ p # c
  BY <1>1, <1>2 DEF Youngest, Oldest, Older, Younger
<1>4. /\ r \in Tables /\ r.head = t.head
      /\ \A x \in Cells :
           /\ r.cells[x].pid = IF x = c THEN FreePid ELSE t.cells[x].pid
           /\ r.cells[x].status = t.cells[x].status
           /\ x # c => /\ r.cells[x].next = IF x = p THEN n ELSE t.cells[x].next
                       /\ r.cells[x].prev = IF x = n THEN p ELSE t.cells[x].prev
      /\ \A b \in Buckets : r.first[b] = IF p = NoCell /\ b = own THEN n ELSE t.first[b]
  BY <1>3, DelindexEffect
<1> HIDE DEF r, own
<1>5. Used(r) = Used(t) \ {c}
  BY <1>1, <1>4 DEF Used
<1>6. \A b \in Buckets : Chain(r, b) = Chain(t, b) \ {c}
  BY <1>1, <1>4, <1>5 DEF Chain
<1>7. \A b \in Buckets : b # own => c \notin Chain(t, b)
  BY DEF Chain, own
<1>8. ASSUME NEW b \in Buckets, NEW x \in Chain(r, b)
      PROVE  /\ Youngest(r.cells[x].next, Older(x, Chain(r, b), y), y)
             /\ Oldest(r.cells[x].prev, Younger(x, Chain(r, b), y), y)
  <2>1. /\ x \in Chain(t, b) /\ x # c /\ x \in Cells
        /\ Youngest(t.cells[x].next, Older(x, Chain(t, b), y), y)
        /\ Oldest(t.cells[x].prev, Younger(x, Chain(t, b), y), y)
    BY <1>1, <1>6, <1>8 DEF Chained
  <2>2. /\ r.cells[x].next = IF x = p THEN n ELSE t.cells[x].next
        /\ r.cells[x].prev = IF x = n THEN p ELSE t.cells[x].prev
    BY <1>4, <2>1
  <2>3. CASE b # own
    <3>1. x # p /\ x # n
      BY <1>1, <1>2, <2>1, <2>3 DEF Youngest, Oldest, Older, Younger, Chain
    <3>2. Chain(r, b) = Chain(t, b) BY <1>6, <1>7, <2>3
    <3> QED BY <2>1, <2>2, <3>1, <3>2
  <2>4. CASE b = own
    <3>1. Youngest(r.cells[x].next, Older(x, Chain(r, b), y), y)
      <4>1. Older(x, Chain(r, b), y) = Older(x, Chain(t, b), y) \ {c}
        BY <1>6, <2>1 DEF Older
      <4>2. CASE x = p
        <5>1. Older(x, Chain(t, b), y) \ {c} = Older(c, Chain(t, b), y)
          BY <1>1, <1>2, <2>1, <2>4, <4>2 DEF Oldest, Older, Younger
        <5> QED BY <1>2, <2>2, <2>4, <4>1, <4>2, <5>1
      <4>3. CASE x # p
        <5>1. t.cells[x].next # c
          BY <1>1, <1>2, <2>1, <2>4, <4>3 DEF Youngest, Oldest, Older, Younger
        <5> QED BY <2>1, <2>2, <4>1, <4>3, <5>1 DEF Youngest
      <4> QED BY <4>2, <4>3
    <3>2. Oldest(r.cells[x].prev, Younger(x, Chain(r, b), y), y)
      <4>1. Younger(x, Chain(r, b), y) = Younger(x, Chain(t, b), y) \ {c}
        BY <1>6, <2>1 DEF Younger
      <4>2. CASE x = n
        <5>1. Younger(x, Chain(t, b), y) \ {c} = Younger(c, Chain(t, b), y)
          BY <1>1, <1>2, <2>1, <2>4, <4>2 DEF Youngest, Older, Younger
        <5> QED BY <1>2, <2>2, <2>4, <4>1, <4>2, <5>1
      <4>3. CASE x # n
        <5>1. t.cells[x].prev # c
          BY <1>1, <1>2, <2>1, <2>4, <4>3 DEF Youngest, Oldest, Older, Younger
        <5> QED BY <2>1, <2>2, <4>1, <4>3, <5>1 DEF Oldest
      <4> QED BY <4>2, <4>3
    <3> QED BY <3>1, <3>2
  <2> QED BY <2>3, <2>4
<1>9. ASSUME NEW b \in Buckets
      PROVE  Youngest(r.first[b], Chain(r, b), y)
  <2>1. Youngest(t.first[b], Chain(t, b), y) BY DEF Chained
  <2>2. CASE b # own
    BY <1>4, <1>6, <1>7, <2>1, <2>2
  <2>3. CASE b = own /\ p = NoCell
    <3>1. Younger(c, Chain(t, b), y) = {}
      BY <1>1, <1>2, <2>3 DEF Oldest, Younger
    <3>2. Chain(t, b) \ {c} = Older(c, Chain(t, b), y)
      BY <1>1, <1>2, <3>1 DEF Older, Younger
    <3> QED BY <1>2, <1>4, <1>6, <2>3, <3>2
  <2>4. CASE b = own /\ p # NoCell
    <3>1. t.first[b] # c
      BY <1>1, <1>2, <2>1, <2>4 DEF Youngest, Oldest, Younger
    <3> QED BY <1>4, <1>6, <2>1, <2>4, <3>1 DEF Youngest
  <2> QED BY <2>2, <2>3, <2>4
<1>10. Chained(r, y) BY <1>8, <1>9 DEF Chained
<1> QED BY <1>1, <1>4, <1>5, <1>10 DEF r

-----------------------------------------------------------------------------
(* A cell is taken and put at the front of a chain. *)

LEMMA YouthOrdered ==
  ASSUME NEW h \in 0 .. Ring
  PROVE  /\ Ordered(Youth(h))
         /\ \A c \in Cells : Youth(h)[c] = IF c >= h THEN c - h + 1 ELSE c + Ring - h + 1
<1>1. \A c \in Cells : Youth(h)[c] = IF c >= h THEN c - h + 1 ELSE c + Ring - h + 1
  BY DEF Youth
<1>2. /\ \A c \in Cells : Youth(h)[c] \in 1 .. Ring
      /\ \A c, d \in Cells : Youth(h)[c] = Youth(h)[d] => c = d
  BY <1>1, HashAssumption DEF Cells
<1> QED BY <1>1, <1>2 DEF Ordered, Youth

\* The chains depend on which cell is older, and not on by how much.
LEMMA ChainedReordered ==
  ASSUME NEW t, NEW y, NEW z, Chained(t, y),
         \A c, d \in Used(t) : y[c] < y[d] <=> z[c] < z[d],
         \A c \in Used(t) : y[c] \in Int /\ z[c] \in Int
  PROVE  Chained(t, z)
<1>1. \A b : Chain(t, b) \subseteq Used(t) BY DEF Chain
<1>2. \A c, d \in Used(t) : (y[d] <= y[c] <=> z[d] <= z[c]) /\ (y[d] > y[c] <=> z[d] > z[c])
  OBVIOUS
<1>3. ASSUME NEW b \in Buckets, NEW c \in Chain(t, b)
      PROVE  /\ Older(c, Chain(t, b), z) = Older(c, Chain(t, b), y)
             /\ Younger(c, Chain(t, b), z) = Younger(c, Chain(t, b), y)
  BY <1>1, <1>2 DEF Older, Younger
<1>4. ASSUME NEW S \in SUBSET Used(t), NEW c
      PROVE  (Youngest(c, S, y) => Youngest(c, S, z)) /\ (Oldest(c, S, y) => Oldest(c, S, z))
  BY <1>2 DEF Youngest, Oldest
<1>5. ASSUME NEW b \in Buckets
      PROVE  Youngest(t.first[b], Chain(t, b), z)
  BY <1>1, <1>4 DEF Chained
<1>6. ASSUME NEW b \in Buckets, NEW c \in Chain(t, b)
      PROVE  /\ Youngest(t.cells[c].next, Older(c, Chain(t, b), z), z)
             /\ Oldest(t.cells[c].prev, Younger(c, Chain(t, b), z), z)
  <2>1. /\ Older(c, Chain(t, b), y) \in SUBSET Used(t)
        /\ Younger(c, Chain(t, b), y) \in SUBSET Used(t)
    BY <1>1 DEF Older, Younger
  <2> QED BY <1>3, <1>4, <2>1 DEF Chained
<1> QED BY <1>5, <1>6 DEF Chained

\* The cell that is used next: the one behind the last one, or the first.
NextCell == IF head >= Ring THEN 0 ELSE head

\* bgp_resize.
LEMMA ResizedOK ==
  ASSUME StatusesInv
  PROVE  LET r == ResizedRing(Table) IN
         /\ r \in Tables /\ r.head = NextCell /\ NextCell \in Cells
         /\ Chained(r, Youth(NextCell)) /\ Used(r) = Used(Table)
         /\ \A x \in Used(r) : /\ r.cells[x].pid = storage[x].pid
                               /\ r.cells[x].status = storage[x].status
<1> DEFINE r == ResizedRing(Table)
<1>1. /\ Table \in Tables /\ head \in 0 .. Ring /\ NextCell \in Cells
      /\ Table.head = head /\ Table.cells = storage /\ Table.first = bucket
  <2>1. Table \in Tables BY DEF StatusesInv
  <2>2. Table.head = head /\ Table.cells = storage /\ Table.first = bucket BY DEF Table
  <2>3. Table.head \in 0 .. Ring BY <2>1 DEF Tables
  <2>4. head \in Int /\ 0 <= head /\ head <= Ring BY <2>2, <2>3, HashAssumption
  <2>5. NextCell \in Cells BY <2>4, HashAssumption DEF NextCell, Cells
  <2> QED BY <2>1, <2>2, <2>3, <2>5
<1>2. CASE nalloc = 0
  <2>1. /\ r = [cells |-> [c \in Cells |-> FreeCell], first |-> [b \in Buckets |-> NoCell],
               head |-> 0]
        /\ Used(Table) = {} /\ NextCell = 0
    BY <1>2, HashAssumption DEF ResizedRing, StatusesInv, NextCell
  <2>2. FreeCell \in [pid : SavedPids \cup {FreePid}, status : SavedStatuses \cup {NoStatus},
                      next : CellLinks, prev : CellLinks]
    BY DEF FreeCell, CellLinks
  <2>3. r \in Tables BY <2>1, <2>2, HashAssumption DEF Tables, CellLinks
  <2>4. Used(r) = {} BY <2>1 DEF Used, FreeCell
  <2>5. r.head = 0 /\ \A b \in Buckets : r.first[b] = NoCell BY <2>1
  <2> HIDE DEF r
  <2>6. Chained(r, Youth(NextCell))
    BY <2>4, <2>5 DEF Chained, Chain, Youngest
  <2> QED BY <1>1, <2>1, <2>3, <2>4, <2>5, <2>6 DEF r
<1>3. CASE nalloc # 0
  <2>1. nalloc = Ring /\ Chained(Table, Youth(head)) BY <1>3 DEF StatusesInv
  <2>2. CASE head < Ring
    <3>1. r = Table /\ NextCell = head BY <1>1, <1>3, <2>1, <2>2, HashAssumption DEF ResizedRing, NextCell
    <3> QED BY <1>1, <2>1, <3>1
  <2>3. CASE ~(head < Ring)
    <3>1. head = Ring /\ NextCell = 0 BY <1>1, <2>3, HashAssumption DEF NextCell
    <3>2. r = [cells |-> storage, first |-> bucket, head |-> 0]
      BY <1>1, <1>3, <2>1, <3>1, HashAssumption DEF ResizedRing, Table
    <3>3. /\ r \in Tables /\ r.cells = Table.cells /\ r.first = Table.first /\ r.head = 0
      BY <1>1, <3>2, HashAssumption DEF Tables
    <3>4. Youth(head) = Youth(0)
      BY <3>1, HashAssumption DEF Youth, Cells
    <3> HIDE DEF r
    <3>5. Used(r) = Used(Table) /\ \A b : Chain(r, b) = Chain(Table, b)
      BY <3>3 DEF Used, Chain
    <3>6. Chained(r, Youth(0)) BY <2>1, <3>3, <3>4, <3>5 DEF Chained
    <3> QED BY <1>1, <3>1, <3>3, <3>5, <3>6 DEF r
  <2> QED BY <2>2, <2>3
<1> QED BY <1>2, <1>3

\* bgp_getindex.
LEMMA GetindexOK ==
  ASSUME StatusesInv
  PROVE  LET g == Getindex(Table) IN
         /\ g \in Tables /\ g.head = NextCell + 1 /\ NextCell \in Cells
         /\ Chained(g, Youth(NextCell + 1)) /\ Used(g) = Used(Table) \ {NextCell}
         /\ \A x \in Used(g) : /\ g.cells[x].pid = storage[x].pid
                               /\ g.cells[x].status = storage[x].status
<1> DEFINE r == ResizedRing(Table)
           d == Delindex(r, NextCell)
           g == Getindex(Table)
           c == NextCell
<1>1. /\ r \in Tables /\ r.head = c /\ c \in Cells
      /\ Chained(r, Youth(c)) /\ Used(r) = Used(Table)
      /\ \A x \in Used(r) : /\ r.cells[x].pid = storage[x].pid
                            /\ r.cells[x].status = storage[x].status
  BY ResizedOK
<1>2. g = [d EXCEPT !.head = c + 1]
  BY <1>1 DEF Getindex
<1>3. c \in 0 .. Ring /\ c + 1 \in 0 .. Ring /\ c + 1 \in Int /\ c + 1 \in 0 .. Ring
  BY <1>1, HashAssumption DEF Cells
<1> HIDE DEF r, g, c
<1>4. /\ d \in Tables /\ Chained(d, Youth(c)) /\ Used(d) = Used(r) \ {c}
      /\ \A x \in Used(d) : /\ d.cells[x].pid = r.cells[x].pid
                            /\ d.cells[x].status = r.cells[x].status
  <2>1. CASE c \in Used(r)
    BY <1>1, <1>3, <2>1, YouthOrdered, DelindexChained DEF c
  <2>2. CASE c \notin Used(r)
    <3>1. r.cells[c].pid = FreePid BY <1>1, <2>2 DEF Used
    <3>2. d = r BY <3>1 DEF Delindex, c
    <3> QED BY <1>1, <2>2, <3>2
  <2> QED BY <2>1, <2>2
<1> HIDE DEF d
<1>5. /\ g \in Tables /\ g.cells = d.cells /\ g.first = d.first /\ g.head = c + 1
  <2>1. d = [cells |-> d.cells, first |-> d.first, head |-> d.head] BY <1>4 DEF Tables
  <2>2. g = [cells |-> d.cells, first |-> d.first, head |-> c + 1] BY <1>2, <2>1
  <2> QED BY <1>3, <1>4, <2>2 DEF Tables
<1>6. Used(g) = Used(d) /\ \A b : Chain(g, b) = Chain(d, b)
  BY <1>5 DEF Used, Chain
<1>7. Chained(g, Youth(c))
  BY <1>4, <1>5, <1>6 DEF Chained
<1>8. Chained(g, Youth(c + 1))
  <2>1. \A x \in Cells : /\ Youth(c)[x] = IF x >= c THEN x - c + 1 ELSE x + Ring - c + 1
                         /\ Youth(c + 1)[x] = IF x >= c + 1 THEN x - (c + 1) + 1
                                              ELSE x + Ring - (c + 1) + 1
    BY <1>3, YouthOrdered
  <2>2. \A x \in Used(g) : x \in Cells /\ x # c
    BY <1>4, <1>6 DEF Used
  <2>3. \A x \in Used(g) : Youth(c + 1)[x] = Youth(c)[x] - 1 /\ Youth(c)[x] \in Int
    <3> TAKE x \in Used(g)
    <3>1. x \in Cells /\ x # c BY <2>2
    <3>2. x \in Int /\ c \in Int /\ Ring \in Int BY <1>1, <3>1, HashAssumption DEF Cells
    <3>3. (x >= c + 1 <=> x >= c) BY <3>1, <3>2
    <3> QED BY <2>1, <3>1, <3>2, <3>3
  <2>4. \A x, z \in Used(g) : Youth(c)[x] < Youth(c)[z] <=> Youth(c + 1)[x] < Youth(c + 1)[z]
    BY <2>3
  <2>5. \A x \in Used(g) : Youth(c)[x] \in Int /\ Youth(c + 1)[x] \in Int
    BY <2>3
  <2> QED BY <1>7, <2>4, <2>5, ChainedReordered
<1> QED BY <1>1, <1>4, <1>5, <1>6, <1>8 DEF g, c

\* The taken cell, which none is younger than, becomes the first of the pid's chain.
LEMMA InFrontChained ==
  ASSUME NEW t \in Tables, NEW y, Ordered(y), Chained(t, y),
         NEW c \in Cells \ Used(t), t.head = c + 1, \A x \in Cells : y[x] <= y[c],
         NEW pid \in SavedPids, NEW status \in SavedStatuses
  PROVE  LET r == InFront(t, pid, status) IN
         /\ r \in Tables /\ r.head = c + 1 /\ Chained(r, y) /\ Used(r) = Used(t) \cup {c}
         /\ r.cells[c].pid = pid /\ r.cells[c].status = status
         /\ \A x \in Used(t) : /\ r.cells[x].pid = t.cells[x].pid
                               /\ r.cells[x].status = t.cells[x].status
<1> DEFINE b == Hash[pid]
           f == t.first[b]
           linked == Link(t, f, "prev", c)
           new == [pid |-> pid, status |-> status, next |-> f, prev |-> NoCell]
           r == InFront(t, pid, status)
<1>1. /\ b \in Buckets /\ f \in CellLinks /\ NoCell \notin Cells /\ pid # FreePid
      /\ Used(t) \subseteq Cells /\ \A k : Chain(t, k) \subseteq Used(t)
      /\ t.head - 1 = c
  BY HashAssumption DEF NoCell, Cells, Tables, Used, Chain
<1>2. /\ linked \in Tables /\ linked.first = t.first /\ linked.head = t.head
      /\ \A x \in Cells :
           /\ linked.cells[x].pid = t.cells[x].pid /\ linked.cells[x].status = t.cells[x].status
           /\ linked.cells[x].next = t.cells[x].next
           /\ linked.cells[x].prev = IF x = f THEN c ELSE t.cells[x].prev
  <2>1. c \in CellLinks BY DEF CellLinks
  <2> QED BY <1>1, <2>1, LinkPrev
<1>3. r = [linked EXCEPT !.cells[c] = new, !.first[b] = c]
  BY <1>1 DEF InFront
<1> HIDE DEF linked, r
<1>4. r = [cells |-> [linked.cells EXCEPT ![c] = new], first |-> [t.first EXCEPT ![b] = c],
           head |-> t.head]
  <2>1. linked = [cells |-> linked.cells, first |-> linked.first, head |-> linked.head]
    BY <1>2 DEF Tables
  <2>2. r = [cells |-> [linked.cells EXCEPT ![c] = new],
             first |-> [linked.first EXCEPT ![b] = c], head |-> linked.head]
    BY <1>3, <2>1
  <2> QED BY <1>2, <2>2
<1>5. /\ new \in [pid : SavedPids \cup {FreePid}, status : SavedStatuses \cup {NoStatus},
                  next : CellLinks, prev : CellLinks]
      /\ new.pid = pid /\ new.status = status /\ new.next = f /\ new.prev = NoCell
  BY <1>1 DEF CellLinks
<1> HIDE DEF new
<1>6. /\ [linked.cells EXCEPT ![c] = new] \in
           [Cells -> [pid : SavedPids \cup {FreePid}, status : SavedStatuses \cup {NoStatus},
                      next : CellLinks, prev : CellLinks]]
      /\ \A x \in Cells :
           [linked.cells EXCEPT ![c] = new][x] = IF x = c THEN new ELSE linked.cells[x]
  BY <1>2, <1>5 DEF Tables
<1>7. /\ [t.first EXCEPT ![b] = c] \in [Buckets -> CellLinks]
      /\ \A k \in Buckets : [t.first EXCEPT ![b] = c][k] = IF k = b THEN c ELSE t.first[k]
  BY <1>1 DEF Tables, CellLinks
<1>8. r \in Tables BY <1>4, <1>6, <1>7 DEF Tables
<1>9. /\ \A x \in Cells :
           /\ r.cells[x].pid = IF x = c THEN pid ELSE t.cells[x].pid
           /\ r.cells[x].status = IF x = c THEN status ELSE t.cells[x].status
           /\ r.cells[x].next = IF x = c THEN f ELSE t.cells[x].next
           /\ r.cells[x].prev = IF x = c THEN NoCell ELSE IF x = f THEN c ELSE t.cells[x].prev
      /\ \A k \in Buckets : r.first[k] = IF k = b THEN c ELSE t.first[k]
      /\ r.head = c + 1
  BY <1>2, <1>4, <1>5, <1>6, <1>7
<1> HIDE DEF b
<1>10. Used(r) = Used(t) \cup {c}
  BY <1>1, <1>9 DEF Used
<1>11. \A k \in Buckets : Chain(r, k) = IF k = b THEN Chain(t, k) \cup {c} ELSE Chain(t, k)
  <2>1. \A k \in Buckets : c \notin Chain(t, k) BY <1>1
  <2> QED BY <1>1, <1>9, <1>10, <2>1 DEF Chain, b
<1>12. /\ \A x \in Cells : y[x] \in Int
       /\ \A x \in Used(t) : y[x] < y[c]
  <2>1. \A x \in Cells : y[x] \in Int BY HashAssumption DEF Ordered
  <2>2. \A x, z \in Cells : y[x] = y[z] => x = z BY DEF Ordered
  <2> QED BY <1>1, <2>1, <2>2
<1>13. ASSUME NEW k \in Buckets
       PROVE  Youngest(r.first[k], Chain(r, k), y)
  <2>1. CASE k = b
    BY <1>1, <1>9, <1>11, <1>12, <2>1 DEF Youngest
  <2>2. CASE k # b
    BY <1>9, <1>11, <2>2 DEF Chained
  <2> QED BY <2>1, <2>2
<1>14. ASSUME NEW k \in Buckets, NEW x \in Chain(r, k)
       PROVE  /\ Youngest(r.cells[x].next, Older(x, Chain(r, k), y), y)
              /\ Oldest(r.cells[x].prev, Younger(x, Chain(r, k), y), y)
  <2>1. CASE x = c
    <3>1. k = b BY <1>1, <1>11, <2>1
    <3>2. Older(x, Chain(r, k), y) = Chain(t, b)
      BY <1>1, <1>11, <1>12, <2>1, <3>1 DEF Older
    <3>3. Younger(x, Chain(r, k), y) = {}
      BY <1>1, <1>11, <1>12, <2>1, <3>1 DEF Younger
    <3> QED BY <1>1, <1>9, <2>1, <3>2, <3>3 DEF Chained, Youngest, Oldest
  <2>2. CASE x # c
    <3>1. x \in Chain(t, k) /\ x \in Used(t) /\ x \in Cells
      BY <1>1, <1>11, <2>2
    <3>2. /\ Youngest(t.cells[x].next, Older(x, Chain(t, k), y), y)
          /\ Oldest(t.cells[x].prev, Younger(x, Chain(t, k), y), y)
      BY <3>1 DEF Chained
    <3>3. Older(x, Chain(r, k), y) = Older(x, Chain(t, k), y)
      BY <1>11, <1>12, <3>1 DEF Older
    <3>4. CASE k # b
      <4>1. x # f
        BY <1>1, <3>1, <3>4 DEF Chained, Youngest, Chain
      <4>2. Chain(r, k) = Chain(t, k) BY <1>11, <3>4
      <4> QED BY <1>9, <2>2, <3>1, <3>2, <4>1, <4>2
    <3>5. CASE k = b
      <4>1. Younger(x, Chain(r, k), y) = Younger(x, Chain(t, k), y) \cup {c}
        BY <1>11, <1>12, <3>1, <3>5 DEF Younger
      <4>2. Youngest(f, Chain(t, k), y) BY <3>5 DEF Chained
      <4>3. CASE x = f
        <5>1. Younger(x, Chain(t, k), y) = {}
          BY <1>1, <1>12, <3>1, <4>2, <4>3 DEF Younger, Youngest
        <5> QED BY <1>9, <1>12, <2>2, <3>1, <3>2, <3>3, <4>1, <4>3, <5>1 DEF Oldest
      <4>4. CASE x # f
        <5>1. f \in Younger(x, Chain(t, k), y)
          <6>1. f \in Chain(t, k) /\ y[x] <= y[f] /\ f \in Cells
            BY <1>1, <3>1, <4>2 DEF Youngest
          <6>2. y[x] # y[f] BY <3>1, <4>4, <6>1 DEF Ordered
          <6> QED BY <1>12, <3>1, <6>1, <6>2 DEF Younger
        <5>2. \A z \in Younger(x, Chain(t, k), y) : y[c] >= y[z] /\ z \in Used(t)
          BY <1>1, <1>12 DEF Younger
        <5>3. Oldest(t.cells[x].prev, Younger(x, Chain(r, k), y), y)
          BY <1>12, <3>2, <4>1, <5>1, <5>2 DEF Oldest
        <5> QED BY <1>9, <2>2, <3>1, <3>2, <3>3, <4>4, <5>3
      <4> QED BY <4>3, <4>4
    <3> QED BY <3>4, <3>5
  <2> QED BY <2>1, <2>2
<1>15. Chained(r, y) BY <1>13, <1>14 DEF Chained
<1> QED BY <1>1, <1>8, <1>9, <1>10, <1>15 DEF r

-----------------------------------------------------------------------------
(* A walk along a chain finds the cell of a pid. *)

WalkTurn(f, pid, n) ==
  IF n = 0 THEN bucket[Hash[pid]]
  ELSE LET c == f[n - 1]
       IN IF c = NoCell \/ storage[c].pid = pid THEN c ELSE storage[c].next

LEMMA WalkExists ==
  ASSUME NEW pid, NEW N \in Nat
  PROVE  \E f : f = [n \in 0 .. N |-> WalkTurn(f, pid, n)]
<1> DEFINE Made(n) == \E f : DOMAIN f = 0 .. n /\ \A i \in 0 .. n : f[i] = WalkTurn(f, pid, i)
           S == {n \in Nat : ~Made(n)}
<1>1. Made(0)
  <2> DEFINE f == [i \in 0 .. 0 |-> bucket[Hash[pid]]]
  <2>1. DOMAIN f = 0 .. 0 /\ \A i \in 0 .. 0 : f[i] = WalkTurn(f, pid, i)
    BY DEF WalkTurn
  <2> QED BY <2>1
<1>2. ASSUME NEW n \in Nat, Made(n) PROVE Made(n + 1)
  <2>1. PICK f : DOMAIN f = 0 .. n /\ \A i \in 0 .. n : f[i] = WalkTurn(f, pid, i)
    BY <1>2
  <2> DEFINE next == WalkTurn(f, pid, n + 1)
             g == [i \in 0 .. n + 1 |-> IF i \in 0 .. n THEN f[i] ELSE next]
  <2>2. \A i \in 0 .. n : g[i] = f[i]
    OBVIOUS
  <2>3. g[n + 1] = next /\ DOMAIN g = 0 .. n + 1
    OBVIOUS
  <2> HIDE DEF g
  <2>4. ASSUME NEW i \in 0 .. n + 1 PROVE WalkTurn(g, pid, i) = WalkTurn(f, pid, i)
    <3>1. i # 0 => g[i - 1] = f[i - 1]
      BY <2>2
    <3> QED BY <3>1 DEF WalkTurn
  <2>5. ASSUME NEW i \in 0 .. n + 1 PROVE g[i] = WalkTurn(g, pid, i)
    <3>1. CASE i \in 0 .. n BY <2>1, <2>2, <2>4, <3>1
    <3>2. CASE i = n + 1 BY <2>3, <2>4, <3>2
    <3> QED BY <3>1, <3>2
  <2> QED BY <2>3, <2>5
<1> HIDE DEF Made
<1>3. S = {}
  <2> SUFFICES ASSUME S # {} PROVE FALSE
    OBVIOUS
  <2>1. PICK n \in S : \A m \in S : n <= m
    BY LeastIsFirst
  <2>2. n \in Nat /\ ~Made(n) /\ n # 0
    BY <1>1, <2>1
  <2>3. n - 1 \in Nat /\ n - 1 \notin S
    BY <2>1, <2>2
  <2>4. Made((n - 1) + 1)
    BY <1>2, <2>3
  <2>5. (n - 1) + 1 = n
    BY <2>2
  <2> QED BY <2>2, <2>4, <2>5
<1>4. PICK f : DOMAIN f = 0 .. N /\ \A i \in 0 .. N : f[i] = WalkTurn(f, pid, i)
  BY <1>3 DEF Made
<1> DEFINE g == [i \in 0 .. N |-> f[i]]
<1>5. \A i \in 0 .. N : g[i] = f[i]
  OBVIOUS
<1>6. g = [i \in 0 .. N |-> WalkTurn(f, pid, i)]
  BY <1>4
<1> HIDE DEF g
<1>7. ASSUME NEW i \in 0 .. N PROVE WalkTurn(g, pid, i) = WalkTurn(f, pid, i)
  <2>1. i # 0 => g[i - 1] = f[i - 1]
    BY <1>5
  <2> QED BY <2>1 DEF WalkTurn
<1>8. g = [i \in 0 .. N |-> WalkTurn(g, pid, i)]
  BY <1>6, <1>7
<1> QED BY <1>8

\* Each step goes to an older cell of the chain, and not past one with the pid.
LEMMA FindFinds ==
  ASSUME StatusesInv, nalloc # 0, NEW pid \in SavedPids
  PROVE  /\ Find(pid) = NoCell \/ (Find(pid) \in Used(Table) /\ storage[Find(pid)].pid = pid)
         /\ (\E c \in Used(Table) : storage[c].pid = pid) => Find(pid) # NoCell
<1> DEFINE walk == CHOOSE f : f = [n \in 0 .. Ring |-> WalkTurn(f, pid, n)]
           b == Hash[pid]
           S == Chain(Table, b)
           y == Youth(head)
           Fine(n) == /\ walk[n] # NoCell => walk[n] \in S
                      /\ walk[n] # NoCell /\ storage[walk[n]].pid # pid
                           => y[walk[n]] <= Ring - n
                      /\ \A c \in S : storage[c].pid = pid
                           => walk[n] # NoCell /\ y[c] <= y[walk[n]]
           Bad == {n \in 0 .. Ring : ~Fine(n)}
<1>1. walk = [n \in 0 .. Ring |-> WalkTurn(walk, pid, n)]
  <2>1. Ring \in Nat BY HashAssumption
  <2> QED BY <2>1, WalkExists
<1>2. Find(pid) = walk[Ring]
  BY DEF Find, WalkTurn
<1> HIDE DEF walk
<1>3. /\ b \in Buckets /\ Ring \in Nat \ {0} /\ head \in 0 .. Ring
      /\ Table.cells = storage /\ Table.first = bucket /\ S \subseteq Used(Table)
      /\ Used(Table) \subseteq Cells
      /\ Chained(Table, y) /\ pid # FreePid
  <2>1. Table.head = head /\ Table.cells = storage /\ Table.first = bucket BY DEF Table
  <2>2. head \in 0 .. Ring BY <2>1 DEF StatusesInv, Tables
  <2> QED BY <2>1, <2>2, HashAssumption DEF StatusesInv, Chain, Used
<1>4. /\ Ordered(y) /\ \A c \in Cells : y[c] \in 1 .. Ring
      /\ \A c, d \in Cells : y[c] = y[d] => c = d
  <2>1. Ordered(y) BY <1>3, YouthOrdered
  <2> QED BY <2>1 DEF Ordered
<1>5. \A c \in Used(Table) : storage[c].pid = pid => c \in S
  BY <1>3 DEF Chain
<1> HIDE DEF y
<1>6. /\ Youngest(bucket[b], S, y)
      /\ \A c \in S : Youngest(storage[c].next, Older(c, S, y), y)
  BY <1>3 DEF Chained
<1>7. NoCell \notin Cells BY DEF NoCell, Cells
<1> HIDE DEF b, S
<1>8. \A n \in 0 .. Ring : walk[n] = WalkTurn(walk, pid, n)
  BY <1>1
<1>9. Fine(0)
  <2>1. walk[0] = bucket[b] BY <1>3, <1>8 DEF WalkTurn, b
  <2>2. CASE S = {}
    <3>1. walk[0] = NoCell BY <1>6, <2>1, <2>2 DEF Youngest
    <3> QED BY <2>2, <3>1
  <2>3. CASE S # {}
    <3>1. walk[0] \in S /\ \A c \in S : y[c] <= y[walk[0]]
      BY <1>6, <2>1, <2>3 DEF Youngest
    <3>2. walk[0] # NoCell /\ y[walk[0]] <= Ring - 0 BY <1>3, <1>4, <1>7, <3>1
    <3> QED BY <3>1, <3>2
  <2> QED BY <2>2, <2>3
<1>10. ASSUME NEW n \in 1 .. Ring, Fine(n - 1) PROVE Fine(n)
  <2> DEFINE c == walk[n - 1]
  <2>1. walk[n] = IF c = NoCell \/ storage[c].pid = pid THEN c ELSE storage[c].next
    BY <1>3, <1>8 DEF WalkTurn
  <2>2. CASE c = NoCell \/ storage[c].pid = pid
    BY <1>10, <2>1, <2>2
  <2>3. CASE ~(c = NoCell \/ storage[c].pid = pid)
    <3> DEFINE d == storage[c].next
    <3>1. c \in S /\ y[c] <= Ring - (n - 1) /\ walk[n] = d /\ c \in Cells
      BY <1>3, <1>10, <2>1, <2>3
    <3>2. Youngest(d, Older(c, S, y), y) BY <1>6, <3>1
    <3>3. ASSUME NEW k \in S, storage[k].pid = pid PROVE d # NoCell /\ y[k] <= y[d]
      <4>1. k \in Cells /\ y[k] <= y[c] /\ k # c BY <1>3, <1>10, <2>3, <3>3
      <4>2. k \in Older(c, S, y) BY <1>4, <3>1, <3>3, <4>1 DEF Older
      <4>3. d \in Older(c, S, y) /\ y[k] <= y[d] BY <3>2, <4>2 DEF Youngest
      <4> QED BY <1>3, <1>7, <4>3 DEF Older
    <3>4. d # NoCell => d \in S /\ y[d] < y[c] BY <3>2 DEF Youngest, Older
    <3> HIDE DEF c, d
    <3>5. walk[n] # NoCell => walk[n] \in S BY <3>1, <3>4
    <3>6. walk[n] # NoCell => y[walk[n]] <= Ring - n
      <4> SUFFICES ASSUME d # NoCell PROVE y[d] <= Ring - n
        BY <3>1
      <4>1. y[d] \in Int /\ y[c] \in Int BY <1>3, <1>4, <3>1, <3>4
      <4> QED BY <1>3, <3>1, <3>4, <4>1
    <3> QED BY <3>1, <3>3, <3>5, <3>6
  <2> QED BY <2>2, <2>3
<1> HIDE DEF Fine
<1>11. Bad = {}
  <2> SUFFICES ASSUME Bad # {} PROVE FALSE
    OBVIOUS
  <2>1. PICK n \in Bad : \A m \in Bad : n <= m
    <3>1. Bad \subseteq Nat BY <1>3
    <3> QED BY <3>1, LeastIsFirst
  <2>2. n \in 0 .. Ring /\ ~Fine(n) /\ n # 0 BY <1>9, <2>1
  <2>3. n \in 1 .. Ring /\ n - 1 \in 0 .. Ring BY <1>3, <2>2
  <2>4. n - 1 \notin Bad BY <2>1, <2>2
  <2> QED BY <1>10, <2>2, <2>3, <2>4
<1>12. Fine(Ring) BY <1>3, <1>11
<1>13. walk[Ring] # NoCell => walk[Ring] \in S /\ storage[walk[Ring]].pid = pid
  <2> SUFFICES ASSUME walk[Ring] # NoCell, storage[walk[Ring]].pid # pid PROVE FALSE
    BY <1>12 DEF Fine
  <2>1. walk[Ring] \in Cells /\ y[walk[Ring]] <= Ring - Ring BY <1>3, <1>12 DEF Fine
  <2> QED BY <1>3, <1>4, <2>1
<1>14. (\E c \in Used(Table) : storage[c].pid = pid) => walk[Ring] # NoCell
  BY <1>5, <1>12 DEF Fine
<1> QED BY <1>2, <1>3, <1>13, <1>14

-----------------------------------------------------------------------------
(* Every operation keeps the chains. *)

\* What an addition does: the oldest cell is the one that is used.
LEMMA AddEffect ==
  ASSUME StatusesInv, NEW pid \in SavedPids, NEW s \in SavedStatuses, Add(pid, s)
  PROVE  /\ Table' \in Tables /\ head' = NextCell + 1 /\ NextCell \in Cells
         /\ Chained(Table', Youth(head')) /\ nalloc' = Ring
         /\ Used(Table)' = (Used(Table) \ {NextCell}) \cup {NextCell}
         /\ storage'[NextCell].pid = pid /\ storage'[NextCell].status = s
         /\ \A x \in Used(Table) \ {NextCell} : /\ storage'[x].pid = storage[x].pid
                                             /\ storage'[x].status = storage[x].status
<1> DEFINE g == Getindex(Table)
           r == InFront(g, pid, s)
           c == NextCell
<1>1. /\ g \in Tables /\ g.head = c + 1 /\ c \in Cells
      /\ Chained(g, Youth(c + 1)) /\ Used(g) = Used(Table) \ {c}
      /\ \A x \in Used(g) : /\ g.cells[x].pid = storage[x].pid
                            /\ g.cells[x].status = storage[x].status
  BY GetindexOK
<1> HIDE DEF g, c
<1>2. c \in 0 .. Ring - 1 /\ c + 1 \in 0 .. Ring /\ (c + 1) - 1 = c
  BY <1>1, HashAssumption DEF Cells
<1>3. g.head - 1 # g.first[Hash[pid]]
  <2>1. Hash[pid] \in Buckets BY HashAssumption
  <2>2. g.first[Hash[pid]] # c
    BY <1>1, <1>2, <2>1 DEF Chained, Youngest, Chain, NoCell
  <2> QED BY <1>1, <1>2, <2>2
<1>4. CellFor(Table, Hash[pid]) = g
  BY <1>3 DEF CellFor, g
<1>5. /\ Ordered(Youth(c + 1)) /\ \A x \in Cells : Youth(c + 1)[x] <= Youth(c + 1)[c]
  <2>1. Ordered(Youth(c + 1)) BY <1>2, YouthOrdered
  <2>2. Youth(c + 1)[c] = Ring
    <3>1. Youth(c + 1)[c] = c + Ring - (c + 1) + 1 BY <1>1, <1>2, YouthOrdered
    <3> QED BY <1>2, <3>1, HashAssumption
  <2>3. \A x \in Cells : Youth(c + 1)[x] \in 1 .. Ring BY <2>1 DEF Ordered
  <2> QED BY <2>1, <2>2, <2>3, HashAssumption
<1>6. /\ r \in Tables /\ r.head = c + 1 /\ Chained(r, Youth(c + 1)) /\ Used(r) = Used(g) \cup {c}
      /\ r.cells[c].pid = pid /\ r.cells[c].status = s
      /\ \A x \in Used(g) : /\ r.cells[x].pid = g.cells[x].pid
                            /\ r.cells[x].status = g.cells[x].status
  <2>1. c \in Cells \ Used(g) BY <1>1
  <2> QED BY <1>1, <1>5, <2>1, InFrontChained
<1> HIDE DEF r
<1>7. storage' = r.cells /\ bucket' = r.first /\ head' = r.head /\ nalloc' = Ring
  BY <1>4 DEF Add, Put, r
<1>8. Table' = r
  BY <1>6, <1>7 DEF Table, Tables
<1> QED BY <1>1, <1>6, <1>7, <1>8 DEF c

LEMMA TableIs ==
  ASSUME StatusesInv
  PROVE  /\ Table.cells = storage /\ Table.head = head /\ Table.first = bucket
         /\ head \in 0 .. Ring /\ Ring \in Nat \ {0} /\ Used(Table) \subseteq Cells
         /\ IsFiniteSet(Used(Table)) /\ Cardinality(Used(Table)) \in Nat
         /\ \A x \in Cells : x \in Used(Table) <=> storage[x].pid # FreePid
<1>1. Table.head = head /\ Table.cells = storage /\ Table.first = bucket BY DEF Table
<1>2. head \in 0 .. Ring BY <1>1 DEF StatusesInv, Tables
<1>3. Used(Table) \subseteq Cells BY DEF Used
<1>4. IsFiniteSet(Cells) BY FS_Interval, HashAssumption DEF Cells
<1>5. IsFiniteSet(Used(Table)) BY <1>3, <1>4, FS_Subset
<1>6. Cardinality(Used(Table)) \in Nat BY <1>5, FS_CardinalityType
<1> QED BY <1>1, <1>2, <1>3, <1>5, <1>6, HashAssumption DEF Used

\* A cell is deleted that has the pid, or there is none.
LEMMA DeleteEffect ==
  ASSUME StatusesInv, NEW pid \in SavedPids, Delete(pid)
  PROVE  \/ /\ UNCHANGED <<nalloc, head, npid, storage, bucket>>
            /\ \A x \in Used(Table) : storage[x].pid # pid
         \/ \E d \in Used(Table) :
              /\ storage[d].pid = pid /\ nalloc # 0 /\ nalloc' = nalloc /\ npid > 0
              /\ npid' = npid - 1 /\ head' = head /\ Table' \in Tables
              /\ Chained(Table', Youth(head')) /\ Used(Table)' = Used(Table) \ {d}
              /\ \A x \in Used(Table) \ {d} : /\ storage'[x].pid = storage[x].pid
                                              /\ storage'[x].status = storage[x].status
<1> DEFINE d == Find(pid)
<1>1. CASE nalloc = 0 \/ npid = 0 \/ d = NoCell
  <2>1. UNCHANGED <<nalloc, head, npid, storage, bucket>> BY <1>1 DEF Delete
  <2>2. \A x \in Used(Table) : storage[x].pid # pid
    <3>1. CASE nalloc = 0 BY <3>1 DEF StatusesInv
    <3>2. CASE npid = 0
      <4>1. Cardinality(Used(Table)) = 0 BY <3>2, TableIs DEF StatusesInv
      <4> QED BY <4>1, TableIs, FS_EmptySet
    <3>3. CASE nalloc # 0 /\ d = NoCell BY <3>3, FindFinds
    <3> QED BY <1>1, <3>1, <3>2, <3>3
  <2> QED BY <2>1, <2>2
<1>2. CASE ~(nalloc = 0 \/ npid = 0 \/ d = NoCell)
  <2> DEFINE r == Delindex(Table, d)
  <2>1. d \in Used(Table) /\ storage[d].pid = pid BY <1>2, FindFinds
  <2>2. /\ Ordered(Youth(head)) /\ Chained(Table, Youth(head)) /\ Table \in Tables
        /\ npid > 0
    BY <1>2, YouthOrdered, TableIs DEF StatusesInv
  <2>3. /\ r \in Tables /\ r.head = Table.head /\ Chained(r, Youth(head))
        /\ Used(r) = Used(Table) \ {d}
        /\ \A x \in Used(r) : /\ r.cells[x].pid = Table.cells[x].pid
                              /\ r.cells[x].status = Table.cells[x].status
    BY <2>1, <2>2, DelindexChained
  <2>4. /\ storage' = r.cells /\ bucket' = r.first /\ head' = r.head
        /\ npid' = npid - 1 /\ nalloc' = nalloc
    BY <1>2 DEF Delete, Put
  <2> HIDE DEF r, d
  <2>5. Table' = r BY <2>3, <2>4 DEF Table, Tables
  <2>6. Table.head = head /\ Table.cells = storage BY TableIs
  <2> QED BY <1>2, <2>1, <2>2, <2>3, <2>4, <2>5, <2>6
<1> QED BY <1>1, <1>2

LEMMA StatusesInvInit == StatusesInit => StatusesInv
<1> SUFFICES ASSUME StatusesInit PROVE StatusesInv
  OBVIOUS
<1>1. /\ nalloc = 0 /\ head = 0 /\ npid = 0 /\ Ring \in Nat \ {0}
      /\ storage = [c \in Cells |-> FreeCell] /\ bucket = [b \in Buckets |-> 0]
  BY HashAssumption DEF StatusesInit
<1>2. /\ FreeCell \in [pid : SavedPids \cup {FreePid}, status : SavedStatuses \cup {NoStatus},
                       next : CellLinks, prev : CellLinks]
      /\ 0 \in CellLinks /\ 0 \in 0 .. Ring
  BY <1>1 DEF FreeCell, CellLinks, Cells
<1>3. Table = [cells |-> storage, first |-> bucket, head |-> head] BY DEF Table
<1>4. storage \in [Cells -> [pid : SavedPids \cup {FreePid},
                             status : SavedStatuses \cup {NoStatus},
                             next : CellLinks, prev : CellLinks]] /\ bucket \in [Buckets -> CellLinks]
  BY <1>1, <1>2
<1>5. Table \in Tables BY <1>1, <1>2, <1>3, <1>4 DEF Tables
<1>6. Used(Table) = {} BY <1>1, <1>3 DEF Used, FreeCell
<1>7. Cardinality(Used(Table)) = 0 BY <1>6, FS_EmptySet
<1> QED BY <1>1, <1>5, <1>6, <1>7 DEF StatusesInv, OncePerPid

LEMMA AddKeepsStatuses ==
  ASSUME StatusesInv, NEW pid \in SavedPids, NEW s \in SavedStatuses, Add(pid, s)
  PROVE  StatusesInv'
<1> DEFINE c == NextCell
           U == Used(Table)
           V == Used(Table')
<1>1. /\ Table' \in Tables /\ head' = c + 1 /\ c \in Cells
      /\ Chained(Table', Youth(head')) /\ nalloc' = Ring
      /\ V = (U \ {c}) \cup {c}
      /\ storage'[c].pid = pid /\ storage'[c].status = s
      /\ \A x \in U \ {c} : storage'[x].pid = storage[x].pid
  BY AddEffect
<1>2. npid' = npid + 1 /\ npid \in Nat /\ \A x \in Cells : storage[x].pid # pid
  BY DEF Add, StatusesInv
<1>3. /\ Table'.cells = storage' /\ U \subseteq Cells /\ IsFiniteSet(U) /\ Cardinality(U) \in Nat
      /\ Table.cells = storage /\ Ring # 0 /\ Cardinality(U) <= npid
  BY TableIs DEF Table, StatusesInv
<1> HIDE DEF c, U, V
<1>4. Cardinality(V) <= npid'
  <2>1. IsFiniteSet(U \ {c}) /\ Cardinality(U \ {c}) <= Cardinality(U)
    <3>1. U \ {c} \in SUBSET U OBVIOUS
    <3> QED BY <1>3, <3>1, FS_Subset
  <2>2. Cardinality(V) = Cardinality(U \ {c}) + 1
    BY <1>1, <2>1, FS_AddElement
  <2>3. Cardinality(U \ {c}) \in Nat BY <2>1, FS_CardinalityType
  <2> QED BY <1>2, <1>3, <2>1, <2>2, <2>3
<1>5. OncePerPid(Table)' 
  <2> SUFFICES ASSUME NEW x \in V, NEW z \in V, storage'[x].pid = storage'[z].pid
               PROVE  x = z
    BY <1>3 DEF OncePerPid, V
  <2>1. \A w \in V : w = c \/ (w \in U \ {c} /\ storage'[w].pid = storage[w].pid /\ w \in Cells)
    BY <1>1, <1>3
  <2>2. \A v, w \in U : storage[v].pid = storage[w].pid => v = w
    BY <1>3 DEF StatusesInv, OncePerPid, U
  <2> QED BY <1>1, <1>2, <2>1, <2>2
<1>6. nalloc' # 0 /\ npid' \in Nat BY <1>1, <1>2, <1>3
<1> QED BY <1>1, <1>4, <1>5, <1>6 DEF StatusesInv, V

LEMMA DeleteKeepsStatuses ==
  ASSUME StatusesInv, NEW pid \in SavedPids, Delete(pid)
  PROVE  StatusesInv'
<1>1. CASE UNCHANGED <<nalloc, head, npid, storage, bucket>>
  <2>1. Table' = Table /\ nalloc' = nalloc /\ npid' = npid /\ head' = head
    BY <1>1 DEF Table
  <2> QED BY <2>1 DEF StatusesInv
<1>2. CASE ~UNCHANGED <<nalloc, head, npid, storage, bucket>>
  <2>1. PICK d \in Used(Table) :
          /\ storage[d].pid = pid /\ nalloc # 0 /\ nalloc' = nalloc /\ npid > 0
          /\ npid' = npid - 1 /\ head' = head /\ Table' \in Tables
          /\ Chained(Table', Youth(head')) /\ Used(Table)' = Used(Table) \ {d}
          /\ \A x \in Used(Table) \ {d} : /\ storage'[x].pid = storage[x].pid
                                          /\ storage'[x].status = storage[x].status
    BY <1>2, DeleteEffect
  <2>2. /\ Table'.cells = storage' /\ Table.cells = storage /\ IsFiniteSet(Used(Table))
        /\ Cardinality(Used(Table)) \in Nat /\ Cardinality(Used(Table)) <= npid /\ npid \in Nat
    BY TableIs DEF Table, StatusesInv
  <2>3. Cardinality(Used(Table')) <= npid'
    <3>1. Cardinality(Used(Table) \ {d}) = Cardinality(Used(Table)) - 1
      BY <2>2, FS_RemoveElement
    <3> QED BY <2>1, <2>2, <3>1
  <2>4. OncePerPid(Table')
    BY <2>1, <2>2 DEF StatusesInv, OncePerPid
  <2>5. npid' \in Nat /\ nalloc' \in {0, Ring} /\ nalloc' # 0
    BY <2>1, <2>2 DEF StatusesInv
  <2> QED BY <2>1, <2>3, <2>4, <2>5 DEF StatusesInv
<1> QED BY <1>1, <1>2

LEMMA ClearKeepsStatuses == StatusesInv /\ BgpClear => StatusesInv'
<1> SUFFICES ASSUME StatusesInv, BgpClear PROVE StatusesInv'
  OBVIOUS
<1>1. /\ nalloc' = 0 /\ head' = 0 /\ npid' = 0 /\ Ring \in Nat \ {0}
      /\ storage' = [c \in Cells |-> FreeCell] /\ bucket' = bucket
  BY HashAssumption DEF BgpClear
<1>2. /\ FreeCell \in [pid : SavedPids \cup {FreePid}, status : SavedStatuses \cup {NoStatus},
                       next : CellLinks, prev : CellLinks]
      /\ 0 \in 0 .. Ring
  BY <1>1 DEF FreeCell, CellLinks
<1>3. Table' = [cells |-> storage', first |-> bucket, head |-> 0] BY <1>1 DEF Table
<1>4. /\ storage' \in [Cells -> [pid : SavedPids \cup {FreePid},
                                status : SavedStatuses \cup {NoStatus},
                                next : CellLinks, prev : CellLinks]]
      /\ bucket \in [Buckets -> CellLinks]
  BY <1>1, <1>2, TableIs DEF StatusesInv, Tables
<1>5. Table' \in Tables BY <1>2, <1>3, <1>4 DEF Tables
<1>6. Used(Table') = {} BY <1>1, <1>3 DEF Used, FreeCell
<1>7. Cardinality(Used(Table')) = 0 BY <1>6, FS_EmptySet
<1> QED BY <1>1, <1>5, <1>6, <1>7 DEF StatusesInv, OncePerPid

LEMMA StatusesInvStep == StatusesInv /\ [StatusesNext]_statusVars => StatusesInv'
<1> SUFFICES ASSUME StatusesInv, [StatusesNext]_statusVars PROVE StatusesInv'
  OBVIOUS
<1>1. CASE UNCHANGED <<nalloc, head, npid, storage, bucket>>
  <2>1. Table' = Table /\ nalloc' = nalloc /\ npid' = npid /\ head' = head
    BY <1>1 DEF Table
  <2> QED BY <2>1 DEF StatusesInv
<1>2. CASE UNCHANGED statusVars BY <1>1, <1>2 DEF statusVars
<1>3. ASSUME NEW pid \in SavedPids, BgpSearch(pid) PROVE StatusesInv'
  BY <1>1, <1>3 DEF BgpSearch
<1> QED BY <1>2, <1>3, AddKeepsStatuses, DeleteKeepsStatuses, ClearKeepsStatuses
        DEF StatusesNext

-----------------------------------------------------------------------------
(* The ring as the memory that it is. *)

At(h, i) == IF h + i - 1 < Ring THEN h + i - 1 ELSE h + i - 1 - Ring
Seen(cell) == IF cell.pid = FreePid THEN [pid |-> FreePid, status |-> NoStatus]
              ELSE [pid |-> cell.pid, status |-> cell.status]

LEMMA AtIsThere ==
  ASSUME NEW h \in 0 .. Ring, NEW i \in 1 .. Ring
  PROVE  (h + i - 1) % Ring = At(h, i) /\ At(h, i) \in Cells
<1>1. h \in Int /\ i \in Int /\ 0 <= h /\ h <= Ring /\ 1 <= i /\ i <= Ring /\ Ring \in Nat \ {0}
  BY HashAssumption
<1>2. At(h, i) \in Cells BY <1>1 DEF At, Cells
<1>3. (h + i - 1) % Ring = At(h, i)
  <2>1. CASE h + i - 1 < Ring BY <1>1, <2>1 DEF At
  <2>2. CASE ~(h + i - 1 < Ring) BY <1>1, <2>2 DEF At
  <2> QED BY <2>1, <2>2
<1> QED BY <1>2, <1>3

LEMMA RingIs ==
  ASSUME NEW h \in 0 .. Ring, NEW cells
  PROVE  /\ [i \in 1 .. Ring |->
               LET cell == cells[(h + i - 1) % Ring]
               IN IF cell.pid = FreePid THEN [pid |-> FreePid, status |-> NoStatus]
                  ELSE [pid |-> cell.pid, status |-> cell.status]]
              = [i \in 1 .. Ring |-> Seen(cells[At(h, i)])]
         /\ \A i \in 1 .. Ring : At(h, i) \in Cells
<1>1. \A i \in 1 .. Ring : (h + i - 1) % Ring = At(h, i) /\ At(h, i) \in Cells
  BY AtIsThere
<1> QED BY <1>1 DEF Seen

LEMMA RememberedIs ==
  ASSUME StatusesInv
  PROVE  /\ Remembered = [i \in 1 .. Ring |-> Seen(storage[At(head, i)])]
         /\ \A i \in 1 .. Ring : At(head, i) \in Cells
BY TableIs, RingIs DEF Remembered

LEMMA RememberedNext ==
  ASSUME StatusesInv'
  PROVE  /\ Remembered' = [i \in 1 .. Ring |-> Seen(storage'[At(head', i)])]
         /\ \A x \in Cells : x \in Used(Table)' <=> storage'[x].pid # FreePid
<1>1. /\ Table'.head = head' /\ Table'.cells = storage' /\ Table' \in Tables
  BY DEF StatusesInv, Table
<1>2. head' \in 0 .. Ring BY <1>1 DEF Tables
<1>3. Remembered' = [i \in 1 .. Ring |-> Seen(storage'[At(head', i)])]
  BY <1>2, RingIs DEF Remembered
<1> QED BY <1>1, <1>3 DEF Used

\* A pid is seen where its cell is.
LEMMA SeenPid ==
  ASSUME StatusesInv, NEW pid \in SavedPids, NEW i \in 1 .. Ring
  PROVE  /\ Remembered[i].pid = pid <=> storage[At(head, i)].pid = pid
         /\ Remembered[i].pid = pid => /\ At(head, i) \in Used(Table)
                                       /\ Remembered[i].status = storage[At(head, i)].status
<1>1. Remembered[i] = Seen(storage[At(head, i)]) /\ At(head, i) \in Cells
  BY RememberedIs
<1>2. pid # FreePid BY HashAssumption
<1> QED BY <1>1, <1>2, TableIs DEF Seen

\* Every cell is seen.
LEMMA CellSeen ==
  ASSUME NEW h \in 0 .. Ring, NEW c \in Cells
  PROVE  \E i \in 1 .. Ring : At(h, i) = c
<1>1. h \in Int /\ 0 <= h /\ h <= Ring /\ c \in Int /\ 0 <= c /\ c < Ring /\ Ring \in Nat \ {0}
  BY HashAssumption DEF Cells
<1> DEFINE i == IF c >= h THEN c - h + 1 ELSE c + Ring - h + 1
<1>2. i \in 1 .. Ring /\ At(h, i) = c BY <1>1 DEF At
<1> QED BY <1>2

LEMMA AddIsSave ==
  ASSUME StatusesInv, NEW pid \in SavedPids, NEW s \in SavedStatuses, Add(pid, s)
  PROVE  Memory!Save(pid, s)
<1> DEFINE c == NextCell
           rec == [pid |-> pid, status |-> s]
           old == Remembered
           new == Append(Tail(old), rec)
           T == {Seen(storage[x]) : x \in Cells} \cup {rec}
<1>1. /\ c \in Cells /\ head' = c + 1 /\ Used(Table)' = (Used(Table) \ {c}) \cup {c}
      /\ storage'[c].pid = pid /\ storage'[c].status = s
      /\ \A x \in Used(Table) \ {c} : /\ storage'[x].pid = storage[x].pid
                                      /\ storage'[x].status = storage[x].status
  BY AddEffect
<1>2. StatusesInv' BY AddKeepsStatuses
<1>3. /\ old = [i \in 1 .. Ring |-> Seen(storage[At(head, i)])]
      /\ \A i \in 1 .. Ring : At(head, i) \in Cells
      /\ Remembered' = [i \in 1 .. Ring |-> Seen(storage'[At(head', i)])]
  BY <1>2, RememberedIs, RememberedNext
<1>4. /\ Ring \in Nat \ {0} /\ head \in 0 .. Ring /\ pid # FreePid
      /\ \A x \in Cells : x \in Used(Table) <=> storage[x].pid # FreePid
      /\ \A x \in Cells : x \in Used(Table)' <=> storage'[x].pid # FreePid
  BY <1>2, TableIs, RememberedNext, HashAssumption
<1>5. \A x \in Cells : Seen(storage'[x]) = IF x = c THEN rec ELSE Seen(storage[x])
  <2> TAKE x \in Cells
  <2>1. CASE x = c BY <1>1, <1>4, <2>1 DEF Seen
  <2>2. CASE x # c
    <3>1. x \in Used(Table)' <=> x \in Used(Table) BY <1>1, <2>2
    <3> QED BY <1>1, <1>4, <2>2, <3>1 DEF Seen
  <2> QED BY <2>1, <2>2
<1>6. \A i \in 1 .. Ring :
        At(head', i) = IF i = Ring THEN c ELSE At(head, i + 1)
  <2> TAKE i \in 1 .. Ring
  <2>1. /\ i \in Int /\ 1 <= i /\ i <= Ring /\ head \in Int /\ 0 <= head /\ head <= Ring
        /\ c = (IF head >= Ring THEN 0 ELSE head) /\ head' = c + 1
    BY <1>1, <1>4 DEF NextCell
  <2> HIDE DEF c
  <2> QED BY <1>4, <2>1 DEF At
<1>7. \A i \in 1 .. Ring : i # Ring => At(head, i + 1) # c
  <2> TAKE i \in 1 .. Ring
  <2>1. /\ i \in Int /\ 1 <= i /\ i <= Ring /\ head \in Int /\ 0 <= head /\ head <= Ring
        /\ c = (IF head >= Ring THEN 0 ELSE head)
    BY <1>1, <1>4 DEF NextCell
  <2> HIDE DEF c
  <2> QED BY <1>4, <2>1 DEF At
<1>8. /\ old \in Seq(T) /\ Len(old) = Ring /\ rec \in T /\ old # <<>>
  <2>1. \A i \in 1 .. Ring : Seen(storage[At(head, i)]) \in T BY <1>3
  <2> HIDE DEF T
  <2>2. old \in [1 .. Ring -> T] BY <1>3, <2>1
  <2>3. old \in Seq(T) /\ Len(old) = Ring BY <1>4, <2>2
  <2>4. rec \in T BY DEF T
  <2> QED BY <1>4, <2>3, <2>4
<1> HIDE DEF T, rec, c
<1>9. /\ Tail(old) \in Seq(T) /\ Len(Tail(old)) = Ring - 1
      /\ \A i \in 1 .. Ring - 1 : Tail(old)[i] = old[i + 1]
  BY <1>8, HeadTailProperties
<1>10. /\ new \in Seq(T) /\ Len(new) = Ring /\ new[Ring] = rec
       /\ \A i \in 1 .. Ring - 1 : new[i] = old[i + 1]
  <2>1. /\ new \in Seq(T) /\ Len(new) = Len(Tail(old)) + 1
        /\ \A i \in 1 .. Len(Tail(old)) : new[i] = Tail(old)[i]
        /\ new[Len(Tail(old)) + 1] = rec
    BY <1>8, <1>9, AppendProperties
  <2>2. (Ring - 1) + 1 = Ring BY <1>4
  <2> HIDE DEF new
  <2> QED BY <1>9, <2>1, <2>2
<1>11. \A i \in 1 .. Ring : Remembered'[i] = new[i]
  <2> HIDE DEF old, new
  <2> TAKE i \in 1 .. Ring
  <2>1. CASE i = Ring
    <3>1. At(head', i) = c BY <1>6, <2>1
    <3>2. Remembered'[i] = Seen(storage'[c]) BY <1>3, <3>1
    <3> QED BY <1>1, <1>5, <1>10, <2>1, <3>2
  <2>2. CASE i # Ring
    <3>1. i \in 1 .. Ring - 1 /\ i + 1 \in 1 .. Ring BY <1>4, <2>2
    <3>2. At(head', i) = At(head, i + 1) /\ At(head, i + 1) # c /\ At(head, i + 1) \in Cells
      BY <1>3, <1>6, <1>7, <2>2, <3>1
    <3>3. Remembered'[i] = Seen(storage'[At(head, i + 1)]) BY <1>3, <3>2
    <3>4. Remembered'[i] = Seen(storage[At(head, i + 1)]) BY <1>5, <3>2, <3>3
    <3>5. old[i + 1] = Seen(storage[At(head, i + 1)]) BY <1>3, <3>1
    <3> QED BY <1>10, <3>1, <3>4, <3>5
  <2> QED BY <2>1, <2>2
<1>12. Remembered' = new
  <2>1. new = [i \in 1 .. Ring |-> new[i]]
    <3> HIDE DEF new
    <3> QED BY <1>10
  <2> HIDE DEF new
  <2>2. DOMAIN Remembered' = 1 .. Ring /\ Remembered' = [i \in 1 .. Ring |-> Remembered'[i]]
    BY <1>3
  <2> QED BY <1>11, <2>1, <2>2
<1>13. Memory!Entries(Remembered, pid) = {}
  <2>1. \A x \in Cells : storage[x].pid # pid BY DEF Add
  <2>2. \A i \in 1 .. Ring : Remembered[i].pid # pid BY <1>3, <2>1, SeenPid
  <2> QED BY <2>2 DEF Memory!Entries
<1>14. answer' = answer BY DEF Add
<1> QED BY <1>12, <1>13, <1>14 DEF Memory!Save, Memory!Remember, rec

LEMMA DeleteIsRecycle ==
  ASSUME StatusesInv, NEW pid \in SavedPids, Delete(pid)
  PROVE  Memory!Recycle(pid)
<1>1. StatusesInv' BY DeleteKeepsStatuses
<1>2. /\ Remembered = [i \in 1 .. Ring |-> Seen(storage[At(head, i)])]
      /\ \A i \in 1 .. Ring : At(head, i) \in Cells
      /\ Remembered' = [i \in 1 .. Ring |-> Seen(storage'[At(head', i)])]
  BY <1>1, RememberedIs, RememberedNext
<1>3. /\ \A i \in 1 .. Ring : Remembered[i].pid = pid <=> storage[At(head, i)].pid = pid
      /\ pid # FreePid
      /\ \A x \in Cells : x \in Used(Table) <=> storage[x].pid # FreePid
      /\ \A x \in Cells : x \in Used(Table)' <=> storage'[x].pid # FreePid
  BY <1>1, SeenPid, TableIs, RememberedNext, HashAssumption
<1>4. answer' = answer BY DEF Delete
<1>5. \A i \in 1 .. Ring :
        Seen(storage'[At(head', i)]) = IF Remembered[i].pid = pid THEN Memory!Gone ELSE Remembered[i]
  <2>1. CASE /\ UNCHANGED <<nalloc, head, npid, storage, bucket>>
             /\ \A x \in Used(Table) : storage[x].pid # pid
    BY <1>2, <1>3, <2>1
  <2>2. ASSUME NEW d \in Used(Table), storage[d].pid = pid, head' = head,
               Used(Table)' = Used(Table) \ {d},
               \A x \in Used(Table) \ {d} : /\ storage'[x].pid = storage[x].pid
                                            /\ storage'[x].status = storage[x].status
        PROVE  \A i \in 1 .. Ring :
                 Seen(storage'[At(head', i)]) = IF Remembered[i].pid = pid THEN Memory!Gone
                                                ELSE Remembered[i]
    <3> TAKE i \in 1 .. Ring
    <3> DEFINE x == At(head, i)
    <3>1. /\ x \in Cells /\ At(head', i) = x /\ Remembered[i] = Seen(storage[x])
          /\ Remembered[i].pid = pid <=> storage[x].pid = pid
          /\ d \in Cells
      BY <1>2, <1>3, <2>2 DEF Used
    <3> HIDE DEF x
    <3>2. CASE x = d
      <4>1. storage'[x].pid = FreePid BY <1>3, <2>2, <3>1, <3>2
      <4>2. Seen(storage'[x]) = Memory!Gone
        BY <4>1 DEF Seen, Memory!Gone, Memory!NoPid, Memory!Unknown, FreePid, NoStatus
      <4> QED BY <2>2, <3>1, <3>2, <4>2
    <3>3. CASE x # d
      <4>1. storage[x].pid # pid
        BY <1>3, <2>2, <3>1, <3>3, TableIs DEF StatusesInv, OncePerPid
      <4>2. Seen(storage'[x]) = Seen(storage[x])
        <5>1. CASE x \in Used(Table) BY <2>2, <3>3, <5>1 DEF Seen
        <5>2. CASE x \notin Used(Table) BY <1>3, <2>2, <3>1, <5>2 DEF Seen
        <5> QED BY <5>1, <5>2
      <4> QED BY <3>1, <4>1, <4>2
    <3> QED BY <3>2, <3>3
  <2> QED BY <2>1, <2>2, DeleteEffect
<1>6. Remembered' = Memory!Forget(Remembered, pid)
  BY <1>2, <1>5 DEF Memory!Forget
<1> QED BY <1>4, <1>6 DEF Memory!Recycle

LEMMA SearchIsSearch ==
  ASSUME StatusesInv, NEW pid \in SavedPids, BgpSearch(pid)
  PROVE  Memory!Search(pid)
<1> DEFINE d == Find(pid)
           E == Memory!Entries(Remembered, pid)
<1>1. Remembered' = Remembered /\ answer' = IF nalloc = 0 \/ npid = 0 \/ d = NoCell THEN NoStatus
                                            ELSE storage[d].status
  BY DEF BgpSearch, Remembered
<1>2. E = {i \in 1 .. Ring : Remembered[i].pid = pid} BY DEF Memory!Entries
<1>3. \A i \in E : /\ At(head, i) \in Used(Table) /\ storage[At(head, i)].pid = pid
                   /\ Remembered[i].status = storage[At(head, i)].status
  BY <1>2, SeenPid
<1>4. answer' = Memory!Lookup(Remembered, pid)
  <2>1. CASE nalloc = 0 \/ npid = 0 \/ d = NoCell
    <3>1. \A x \in Used(Table) : storage[x].pid # pid
      <4>1. CASE nalloc = 0 BY <4>1 DEF StatusesInv
      <4>2. CASE npid = 0
        <5>1. Cardinality(Used(Table)) = 0 BY <4>2, TableIs DEF StatusesInv
        <5> QED BY <5>1, TableIs, FS_EmptySet
      <4>3. CASE nalloc # 0 /\ d = NoCell BY <4>3, FindFinds
      <4> QED BY <2>1, <4>1, <4>2, <4>3
    <3>2. E = {} BY <1>3, <3>1
    <3> QED BY <1>1, <2>1, <3>2 DEF Memory!Lookup, Memory!Unknown, NoStatus
  <2>2. CASE ~(nalloc = 0 \/ npid = 0 \/ d = NoCell)
    <3>1. d \in Used(Table) /\ storage[d].pid = pid BY <2>2, FindFinds
    <3>2. d \in Cells BY <3>1, TableIs
    <3>3. PICK i \in 1 .. Ring : At(head, i) = d BY <3>2, TableIs, CellSeen
    <3>4. i \in E BY <1>2, <3>1, <3>3, SeenPid
    <3> DEFINE k == CHOOSE k \in E : TRUE
    <3>5. k \in E BY <3>4
    <3>6. Memory!Lookup(Remembered, pid) = Remembered[k].status
      BY <3>4 DEF Memory!Lookup
    <3> HIDE DEF k, E, d
    <3>7. At(head, k) = d
      BY <1>3, <3>1, <3>5, TableIs DEF StatusesInv, OncePerPid
    <3> QED BY <1>1, <1>3, <2>2, <3>5, <3>6, <3>7
  <2> QED BY <2>1, <2>2
<1> QED BY <1>1, <1>4 DEF Memory!Search

LEMMA BlankIs ==
  ASSUME NEW h \in 0 .. Ring
  PROVE  [i \in 1 .. Ring |-> Seen([c \in Cells |-> FreeCell][At(h, i)])] = Memory!Blank
<1>1. \A i \in 1 .. Ring : At(h, i) \in Cells
  BY AtIsThere
<1>2. \A i \in 1 .. Ring : Seen([c \in Cells |-> FreeCell][At(h, i)]) = Memory!Gone
  BY <1>1 DEF Seen, FreeCell, Memory!Gone, Memory!NoPid, Memory!Unknown, FreePid, NoStatus
<1> QED BY <1>1, <1>2 DEF Memory!Blank

\* The ring with its chains is the memory that bash promises: the last Ring statuses, each under
\* its pid until the pid is a new child's, whatever is added, deleted, overwritten or cleared
\* in between (jobs.c:740-975).
THEOREM RingIsMemory == StatusesSpec => ImplementsMemory
<1>1. StatusesInit => Memory!MemoryInit
  <2> SUFFICES ASSUME StatusesInit PROVE Memory!MemoryInit
    OBVIOUS
  <2>1. StatusesInv /\ storage = [c \in Cells |-> FreeCell]
    BY StatusesInvInit DEF StatusesInit
  <2>2. Remembered = Memory!Blank BY <2>1, BlankIs, RememberedIs, TableIs
  <2> QED BY <2>2 DEF StatusesInit, Memory!MemoryInit, Memory!Unknown, NoStatus
<1>2. StatusesInv /\ [StatusesNext]_statusVars => [Memory!MemoryNext]_<<Remembered, answer>>
  <2> SUFFICES ASSUME StatusesInv, [StatusesNext]_statusVars
               PROVE  [Memory!MemoryNext]_<<Remembered, answer>>
    OBVIOUS
  <2>1. CASE UNCHANGED statusVars BY <2>1 DEF statusVars, Remembered
  <2>2. ASSUME NEW pid \in SavedPids, Delete(pid) PROVE Memory!MemoryNext
    BY <2>2, DeleteIsRecycle DEF Memory!MemoryNext
  <2>3. ASSUME NEW pid \in SavedPids, BgpSearch(pid) PROVE Memory!MemoryNext
    BY <2>3, SearchIsSearch DEF Memory!MemoryNext
  <2>4. ASSUME NEW pid \in SavedPids, NEW s \in SavedStatuses, Add(pid, s)
        PROVE  Memory!MemoryNext
    BY <2>4, AddIsSave DEF Memory!MemoryNext
  <2>5. CASE BgpClear
    <3>1. StatusesInv' BY <2>5, ClearKeepsStatuses
    <3>2. /\ storage' = [c \in Cells |-> FreeCell] /\ answer' = answer
          /\ head' \in 0 .. Ring
      BY <2>5, HashAssumption DEF BgpClear
    <3>3. Remembered' = Memory!Blank BY <3>1, <3>2, BlankIs, RememberedNext
    <3> QED BY <3>2, <3>3 DEF Memory!MemoryNext, Memory!Clear
  <2> QED BY <2>1, <2>2, <2>3, <2>4, <2>5 DEF StatusesNext
<1> QED BY <1>1, <1>2, StatusesInvInit, StatusesInvStep, PTL
        DEF StatusesSpec, ImplementsMemory, Memory!MemorySpec
=============================================================================
