------------------------------ MODULE BashJobs ------------------------------
(***************************************************************************)
(* The job table of an interactive bash with job control, the shell of a    *)
(* KHSL session (bash-5.2/jobs.c): pipelines become jobs, SIGCHLD reaps     *)
(* their processes at any point where it is not blocked, and fg, bg, wait,  *)
(* disown and the prompt look at the table in between.  Pids are used       *)
(* again as soon as they are reaped.                                        *)
(***************************************************************************)
EXTENDS Integers, Sequences, FiniteSets

CONSTANTS Pids,
          MaxJobs,   \* bound: pipelines started
          MaxLength, \* bound: processes of a pipeline
          MaxLost,   \* bound: signals that find the handler queueing
          Room       \* statuses remembered (CHILD_MAX)

ZeroPid == 0  \* of a process whose pid a new child has taken
NO_PID  == -1 \* of no process

ASSUME JobsAssumption ==
  /\ MaxJobs \in Nat \ {0} /\ MaxLength \in Nat \ {0}
  /\ MaxLost \in Nat /\ Room \in Nat \ {0}
  /\ ZeroPid \notin Pids /\ NO_PID \notin Pids

VARIABLES
  child,    \* the kernel's children: state, a change not yet waited for, job
  pending,  \* SIGCHLD is pending
  shell,       \* where the shell is
  pipeline, \* the_pipeline, which is being made, and how it will be run
  table,    \* the jobs, js.j_current and js.j_previous, the statuses saved
  sigchld,  \* signals taken by the handler and not yet by waitchld
  reaping,  \* waitchld: off, or its flag and its locals
  waiting,  \* the job that wait_for waits for, and for whom
  made,     \* history: pipelines made
  word      \* history: for each pid, whether `wait' owes its status

jobsVars == <<child, pending, shell, pipeline, table, sigchld, reaping, waiting, made, word>>

NoJob == 0
Slots == 1 .. MaxJobs
Stopped == -2  Running == -3  \* statuses that are no exit
Status == INSTANCE StatusMemory WITH
            Statuses <- 1 .. MaxJobs, memory <- table.saved, found <- ZeroPid

Off == [on |-> FALSE, block |-> FALSE, last |-> NoJob, set |-> FALSE]
NoOne == [for |-> "none", job |-> NoJob]

JobsInit ==
  /\ child = [p \in Pids |-> [st |-> "free", news |-> FALSE, job |-> NoJob]]
  /\ pending = FALSE /\ shell = "ready"
  /\ pipeline = [procs |-> <<>>, length |-> 0, async |-> FALSE]
  /\ table = [jobs |-> <<>>, cur |-> NoJob, prev |-> NoJob, saved |-> Status!Blank]
  /\ sigchld = 0 /\ reaping = Off /\ waiting = NoOne
  /\ made = 0 /\ word = [p \in Pids |-> "none"]

-----------------------------------------------------------------------------
(* Processes and jobs.  t stands for a table. *)

Stops(proc) == proc.status = Stopped
Alive(proc) == proc.running \/ Stops(proc)

Has(t, j)      == j \in DOMAIN t.jobs
In(t, j, state) == Has(t, j) /\ t.jobs[j].state = state
Procs(t, j)    == t.jobs[j].procs
Last(t, j)     == Procs(t, j)[Len(Procs(t, j))]

Largest(S)  == IF S = {} THEN NoJob ELSE CHOOSE j \in S : \A k \in S : k <= j
Smallest(S) == IF S = {} THEN NoJob ELSE CHOOSE j \in S : \A k \in S : j <= k

\* find_job: the first with the pid; find_process: the first where it lives.
JobOf(t, pid) ==
  Smallest({j \in DOMAIN t.jobs : \E i \in DOMAIN Procs(t, j) : Procs(t, j)[i].pid = pid})
LiveJobOf(t, pid) ==
  Smallest({j \in DOMAIN t.jobs :
              \E i \in DOMAIN Procs(t, j) : Procs(t, j)[i].pid = pid /\ Alive(Procs(t, j)[i])})

\* The state of a pipeline from its processes'.
StateOf(procs) ==
  IF \E i \in DOMAIN procs : procs[i].running THEN "running"
  ELSE IF \E i \in DOMAIN procs : Stops(procs[i]) THEN "stopped" ELSE "dead"

\* most_recent_job_in_state.
Newest(t, below, state) == Largest({j \in DOMAIN t.jobs : j < below /\ In(t, j, state)})

\* set_current_job: the previous job is the old current one if it is stopped, or
\* else the newest stopped or running one that is older.
SetCurrent(t, job) ==
  LET moved == IF t.cur # job THEN [t EXCEPT !.prev = t.cur, !.cur = job] ELSE t
      older == Newest(t, job, "stopped")
      runs  == Newest(t, IF In(t, job, "running") THEN job ELSE MaxJobs + 1, "running")
  IN CASE moved.prev # job /\ In(t, moved.prev, "stopped") -> moved
       [] OTHER ->
            [moved EXCEPT !.prev = IF In(t, job, "stopped") /\ older # NoJob THEN older
                                   ELSE IF runs # NoJob THEN runs ELSE job]

\* reset_current: the current job if it is stopped, or the previous one, or the
\* most recent one that is stopped, or the newest that runs.
ResetCurrent(t) ==
  LET candidate ==
        IF In(t, t.cur, "stopped") THEN t.cur
        ELSE IF In(t, t.prev, "stopped") THEN t.prev
        ELSE IF Newest(t, MaxJobs + 1, "stopped") # NoJob
          THEN Newest(t, MaxJobs + 1, "stopped")
        ELSE Newest(t, MaxJobs + 1, "running")
  IN IF candidate # NoJob THEN SetCurrent(t, candidate)
                          ELSE [t EXCEPT !.cur = NoJob, !.prev = NoJob]

\* delete_job: a background job's status is saved, and the two jobs are chosen
\* again when it was one of them.
Without(t, j, save) ==
  LET job == t.jobs[j]
  IN [t EXCEPT !.saved = IF save /\ job.async /\ ~job.fg
                           THEN Status!Remember(@, Last(t, j).pid, Last(t, j).status)
                           ELSE @,
               !.jobs = [k \in DOMAIN t.jobs \ {j} |-> t.jobs[k]]]

DeletedCurrentOnly(t, j, save) ==  \* mutant: the previous job is not looked at
  LET without == Without(t, j, save)
  IN IF j = t.cur THEN ResetCurrent(without) ELSE without

Deleted(t, j, save) ==
  LET without == Without(t, j, save)
  IN IF j \in {t.cur, t.prev} THEN ResetCurrent(without) ELSE without

\* cleanup_dead_jobs: those the user was told of, from the first slot on.
CleanedUp(t) ==
  LET upTo[j \in 0 .. MaxJobs] ==
        IF j = 0 THEN t
        ELSE LET u == upTo[j - 1]
             IN IF In(u, j, "dead") /\ u.jobs[j].notified THEN Deleted(u, j, TRUE) ELSE u
  IN upTo[MaxJobs]

\* notify_of_job_status: the dead and the stopped are reported.
Notified(t) ==
  [t EXCEPT !.jobs = [j \in DOMAIN t.jobs |->
     [t.jobs[j] EXCEPT !.notified = @ \/ t.jobs[j].state # "running"]]]

\* mark_dead_jobs_as_notified.
DeadTold(t) ==
  [t EXCEPT !.jobs = [j \in DOMAIN t.jobs |->
     [t.jobs[j] EXCEPT !.notified = @ \/ t.jobs[j].state = "dead"]]]

\* set_job_status_and_cleanup: a running job changes when none of it runs any more.
StatusSet(t, j) ==
  LET job == t.jobs[j]
      goesOn == StateOf(job.procs) = "running" /\ job.state # "stopped"
      stops == \E i \in DOMAIN job.procs : Stops(job.procs[i])
      state == IF goesOn THEN job.state ELSE IF stops THEN "stopped" ELSE StateOf(job.procs)
  IN [t |-> [t EXCEPT !.jobs[j] = [job EXCEPT !.notified = FALSE, !.state = state,
                                               !.fg = @ /\ (goesOn \/ ~stops)]],
      set |-> ~goesOn /\ state # "dead"]

-----------------------------------------------------------------------------
(* The kernel: a child changes its state and SIGCHLD is sent; waitpid tells  *)
(* each change once.                                                         *)

Changes(p, state) ==
  /\ child' = [child EXCEPT ![p].st = state, ![p].news = TRUE] /\ pending' = TRUE
  /\ UNCHANGED <<shell, pipeline, table, sigchld, reaping, waiting, made, word>>

Exit(p)    == child[p].st \in {"running", "stopped"} /\ Changes(p, "zombie")
Suspend(p) == child[p].st = "running" /\ Changes(p, "stopped")

\* killpg (.., SIGCONT).
Continued_(procs) ==
  [p \in Pids |-> IF child[p].st = "stopped" /\ \E i \in DOMAIN procs : procs[i].pid = p
                    THEN [child[p] EXCEPT !.st = "running", !.news = TRUE] ELSE child[p]]

-----------------------------------------------------------------------------
(* SIGCHLD and waitchld. *)

Blocked == shell \in {"wait", "piping"}

\* sigchld_handler: while notify_of_job_status queues it only counts.
SigchldHandler ==
  /\ pending /\ ~Blocked /\ ~reaping.on
  /\ pending' = FALSE
  /\ IF shell = "notify"
       THEN sigchld < MaxLost /\ sigchld' = sigchld + 1 /\ UNCHANGED reaping
       ELSE sigchld' = sigchld + 1 /\ reaping' = [Off EXCEPT !.on = TRUE]
  /\ UNCHANGED <<child, shell, pipeline, table, waiting, made, word>>

\* The end of waitchld.
CurrentSet(t, r) == IF ~r.set THEN t
                    ELSE IF r.last # NoJob THEN SetCurrent(t, r.last) ELSE ResetCurrent(t)

\* What waitpid says of a child, recorded in its process: in the pipeline that is
\* being made, or in a job.
Told(p, proc) ==
  IF proc.pid # p THEN proc
  ELSE CASE child[p].st = "zombie"  -> [proc EXCEPT !.running = FALSE, !.status = child[p].job]
         [] child[p].st = "stopped" -> [proc EXCEPT !.running = FALSE, !.status = Stopped]
         [] OTHER                   -> [proc EXCEPT !.running = TRUE, !.status = Running]

\* One waitpid that returns a child; SIGCHLD that was counted makes it go on.
WaitpidChild(p) ==
  /\ reaping.on /\ child[p].news
  /\ child' = [child EXCEPT ![p].news = FALSE,
                            ![p].st = IF @ = "zombie" THEN "free" ELSE @]
  /\ LET making == \E i \in DOMAIN pipeline.procs : pipeline.procs[i].pid = p
         j == IF making THEN NoJob ELSE LiveJobOf(table, p)
         told == [table EXCEPT !.jobs[j].procs =
                    [i \in DOMAIN Procs(table, j) |->
                       IF Alive(Procs(table, j)[i]) THEN Told(p, Procs(table, j)[i])
                                                    ELSE Procs(table, j)[i]]]
         s == IF j = NoJob THEN [t |-> table, set |-> FALSE] ELSE StatusSet(told, j)
         r == IF j = NoJob THEN reaping
              ELSE [reaping EXCEPT !.set = @ \/ s.set,
                      !.last = CASE In(s.t, j, "stopped")          -> j
                                 [] In(s.t, j, "dead") /\ @ = j -> NoJob
                                 [] OTHER                          -> @]
         left == IF sigchld > 0 THEN sigchld - 1 ELSE 0
         over == reaping.block /\ left = 0
     IN /\ pipeline' = IF making THEN [pipeline EXCEPT !.procs =
                           [i \in DOMAIN @ |-> Told(p, @[i])]] ELSE pipeline
        /\ sigchld' = left
        /\ table' = IF over THEN CurrentSet(s.t, r) ELSE s.t
        /\ reaping' = IF over THEN Off ELSE r
  /\ UNCHANGED <<pending, shell, waiting, made, word>>

\* One that finds nothing, and does not wait for it.
WaitpidNothing ==
  /\ reaping.on /\ \A p \in Pids : ~child[p].news
  /\ ~reaping.block \/ sigchld > 0
  /\ sigchld' = IF sigchld > 0 THEN sigchld - 1 ELSE 0
  /\ table' = CurrentSet(table, reaping) /\ reaping' = Off
  /\ UNCHANGED <<child, pending, shell, pipeline, waiting, made, word>>

\* There is no child at all: the others' jobs are dead already.
WaitpidNoChild ==
  /\ reaping.on /\ reaping.block /\ \A p \in Pids : child[p].st = "free"
  /\ reaping' = Off
  /\ UNCHANGED <<child, pending, shell, pipeline, table, sigchld, waiting, made, word>>

-----------------------------------------------------------------------------
(* The shell makes a pipeline. *)

Ready == shell = "ready" /\ ~reaping.on

\* kill -CONT with the number of a process, which the table hears of from waitpid.
Continue(p) == Ready /\ child[p].st = "stopped" /\ Changes(p, "running")

\* The last processes of the jobs that left the table without being saved.
Unowed(w, pids) == [p \in Pids |-> IF p \in pids THEN "none" ELSE w[p]]

ForkedOnly(t, p) ==  \* mutant: an old status of the pid stays
  LET j == JobOf(t, p)
  IN CASE j = NoJob          -> t
       [] In(t, j, "dead") -> Deleted(t, j, FALSE)
       [] OTHER              -> [t EXCEPT !.jobs[j].procs =
            [i \in DOMAIN @ |-> IF @[i].pid = p THEN [@[i] EXCEPT !.pid = ZeroPid] ELSE @[i]]]

\* delete_old_job and bgp_delete: the pid may be one the table knows.
Recycled(t, p) ==
  LET j == JobOf(t, p)
      u == CASE j = NoJob          -> t
             [] In(t, j, "dead") -> Deleted(t, j, FALSE)
             [] OTHER              -> [t EXCEPT !.jobs[j].procs =
                  [i \in DOMAIN @ |-> IF @[i].pid = p THEN [@[i] EXCEPT !.pid = ZeroPid] ELSE @[i]]]
  IN [u EXCEPT !.saved = Status!Forget(@, p)]

\* make_child, the first of a pipeline or another one.  SIGCHLD stays blocked
\* while a pipeline of several is made.
Fork(p, length, async) ==
  /\ child[p].st = "free"
  /\ \/ /\ Ready /\ made < MaxJobs /\ made' = made + 1
        /\ pipeline' = [procs |-> <<[pid |-> p, running |-> TRUE, status |-> Running]>>,
                        length |-> length, async |-> async]
        /\ shell' = IF length = 1 THEN "made" ELSE "piping"
     \/ /\ shell = "piping" /\ Len(pipeline.procs) < pipeline.length
        /\ length = pipeline.length /\ async = pipeline.async
        /\ pipeline' = [pipeline EXCEPT !.procs =
                           Append(@, [pid |-> p, running |-> TRUE, status |-> Running])]
        /\ UNCHANGED <<made, shell>>
  /\ child' = [child EXCEPT ![p] = [st |-> "running", news |-> FALSE, job |-> made']]
  /\ table' = Recycled(table, p)
  /\ LET j == JobOf(table, p)
         lost == IF In(table, j, "dead") THEN {Last(table, j).pid} ELSE {}
     IN word' = Unowed(word, lost \cup {p})
  /\ UNCHANGED <<pending, sigchld, reaping, waiting>>

\* stop_pipeline: the pipeline is put behind the last job.
StopPipeline ==
  /\ ~reaping.on
  /\ shell = "made" \/ (shell = "piping" /\ Len(pipeline.procs) = pipeline.length)
  /\ LET t    == CleanedUp(table)
         slot == Largest(DOMAIN t.jobs) + 1
         last == pipeline.procs[Len(pipeline.procs)].pid
         job  == [procs |-> pipeline.procs, state |-> StateOf(pipeline.procs),
                  fg |-> ~pipeline.async, async |-> pipeline.async, notified |-> FALSE]
         u    == [t EXCEPT !.jobs = [j \in DOMAIN @ \cup {slot} |->
                                       IF j = slot THEN job ELSE @[j]]]
     IN IF pipeline.async
          THEN /\ table' = ResetCurrent(u) /\ shell' = "ready"
               /\ word' = [word EXCEPT ![last] = "owed"] /\ UNCHANGED waiting
          ELSE /\ table' = u /\ shell' = "wait"
               /\ waiting' = [for |-> "one", job |-> slot]
               /\ UNCHANGED word
  /\ pipeline' = [procs |-> <<>>, length |-> 0, async |-> FALSE]
  /\ UNCHANGED <<child, pending, sigchld, reaping, made>>

-----------------------------------------------------------------------------
(* wait_for, with SIGCHLD blocked: for a process, and for its job. *)

StillRuns == \/ Procs(table, waiting.job)[1].running
             \/ In(table, waiting.job, "running")

WaitBlocks ==
  /\ shell = "wait" /\ ~reaping.on /\ waiting.for # "next" /\ StillRuns
  /\ reaping' = [Off EXCEPT !.on = TRUE, !.block = TRUE]
  /\ UNCHANGED <<child, pending, shell, pipeline, table, sigchld, waiting, made, word>>

\* The status of a job is its last process's; a stopped job is told as stopped.
JobStatus(j) == IF In(table, j, "stopped") THEN Stopped ELSE Last(table, j).status

\* What `wait pid' says, of a child in the table or of one that is remembered.
Answer(p) == IF JobOf(table, p) # NoJob THEN JobStatus(JobOf(table, p))
                                        ELSE Status!Lookup(table.saved, p)

\* The job is dead or stopped: the user is told, and dead jobs leave the table.
WaitEnds ==
  /\ shell = "wait" /\ ~reaping.on /\ waiting.for # "next" /\ ~StillRuns
  /\ table' = CleanedUp(Notified(table))
  /\ shell' = IF waiting.for = "all" THEN "waitall" ELSE "ready"
  /\ waiting' = NoOne
  /\ UNCHANGED <<child, pending, pipeline, sigchld, reaping, made, word>>

\* `wait pid': a child in the table, or one that is remembered.
WaitPid(p) ==
  /\ Ready
  /\ LET j == JobOf(table, p)
     IN IF j # NoJob
          THEN /\ shell' = "wait" /\ waiting' = [for |-> "one", job |-> j]
          ELSE shell' = "ready" /\ UNCHANGED waiting
  /\ UNCHANGED <<child, pending, pipeline, table, sigchld, reaping, made, word>>

BackgroundRunning == {j \in DOMAIN table.jobs : In(table, j, "running") /\ ~table.jobs[j].fg}

\* `wait': one running background job after the other, and then all is forgotten.
WaitAll ==
  /\ Ready \/ (shell = "waitall" /\ ~reaping.on)
  /\ LET j == Smallest(BackgroundRunning)
     IN IF j # NoJob
          THEN /\ shell' = "wait" /\ UNCHANGED <<table, word>>
               /\ waiting' = [for |-> "all", job |-> JobOf(table, Last(table, j).pid)]
          ELSE /\ shell' = "ready" /\ UNCHANGED waiting
               /\ table' = [CleanedUp(DeadTold(table)) EXCEPT !.saved = Status!Blank]
               /\ word' = Unowed(word, {p \in Pids : \A k \in DOMAIN table'.jobs :
                                            Last(table', k).pid # p})
  /\ UNCHANGED <<child, pending, pipeline, sigchld, reaping, made>>

\* `wait -n': one of the jobs is told and leaves the table, or else it goes to the
\* next step.  SIGCHLD is blocked in each step and not between them.
TellOneOf(jobs, next) ==
  /\ IF jobs # {} THEN /\ table' = Deleted(Notified(table), Smallest(jobs), TRUE)
                       /\ shell' = "ready"
                  ELSE shell' = next /\ UNCHANGED table
  /\ UNCHANGED <<child, pending, pipeline, sigchld, reaping, waiting, made, word>>

Dead == {j \in DOMAIN table.jobs : In(table, j, "dead")}

WaitAny  == Ready /\ TellOneOf({j \in Dead : ~table.jobs[j].notified}, "any")
AnyWoken == shell = "woken" /\ ~reaping.on /\ TellOneOf(Dead, "any")

\* There must be a job to wait for, and then whatever child is waited for.
AnyChecks ==
  /\ shell = "any" /\ ~reaping.on
  /\ shell' = IF BackgroundRunning # {} THEN "next" ELSE "ready"
  /\ UNCHANGED <<child, pending, pipeline, table, sigchld, reaping, waiting, made, word>>

AnyBlocks ==
  /\ shell = "next" /\ ~reaping.on
  /\ shell' = "wait" /\ waiting' = [NoOne EXCEPT !.for = "next"]
  /\ reaping' = [Off EXCEPT !.on = TRUE, !.block = TRUE]
  /\ UNCHANGED <<child, pending, pipeline, table, sigchld, made, word>>

AnyWakes ==
  /\ shell = "wait" /\ waiting.for = "next" /\ ~reaping.on
  /\ shell' = "woken" /\ waiting' = NoOne
  /\ UNCHANGED <<child, pending, pipeline, table, sigchld, reaping, made, word>>

-----------------------------------------------------------------------------
(* The other builtins, and the prompt. *)

\* set_job_running.
SetRunning(t, j) ==
  [t EXCEPT !.jobs[j].state = "running",
            !.jobs[j].procs = [i \in DOMAIN @ |-> [@[i] EXCEPT !.running = @ \/ Stops(Procs(t, j)[i])]]]

\* fg: start_job in the foreground, and wait_for it.
Fg(j) ==
  /\ Ready /\ Has(table, j) /\ ~In(table, j, "dead")
  /\ LET chosen == SetCurrent([table EXCEPT !.jobs[j].notified = FALSE], j)
         front  == [chosen EXCEPT !.jobs[j].fg = TRUE]
     IN IF In(table, j, "stopped")
          THEN /\ table' = [SetRunning(front, j) EXCEPT !.jobs[j].notified = TRUE]
               /\ child' = Continued_(Procs(table, j))
               /\ pending' = (pending \/ child' # child)
          ELSE table' = front /\ UNCHANGED <<child, pending>>
  /\ shell' = "wait"
  /\ waiting' = [for |-> "one", job |-> JobOf(table, Last(table, j).pid)]
  /\ word' = Unowed(word, {Last(table, j).pid})
  /\ UNCHANGED <<pipeline, sigchld, reaping, made>>

\* A stopped job goes on in the background: bg, or kill with SIGCONT, which leaves
\* the current job as it is.
Resume(j) ==
  /\ Ready /\ In(table, j, "stopped")
  /\ child' = Continued_(Procs(table, j)) /\ pending' = (pending \/ child' # child)
  /\ LET t == [SetRunning(table, j) EXCEPT !.jobs[j].fg = FALSE, !.jobs[j].notified = TRUE]
     IN table' = ResetCurrent(t) \/ table' = t
  /\ shell' = "ready"
  /\ UNCHANGED <<pipeline, sigchld, reaping, waiting, made, word>>

\* disown: what is saved of a job that runs on is its status so far.
Disown(j) ==
  /\ Ready /\ Has(table, j)
  /\ table' = Deleted(table, j, TRUE) /\ shell' = "ready"
  /\ LET last == Last(table, j)
     IN word' = [p \in Pids |-> IF p = last.pid THEN "disowned" ELSE word[p]]
  /\ UNCHANGED <<child, pending, pipeline, sigchld, reaping, waiting, made>>

\* jobs: every job that is listed counts as told.
ListJobs ==
  /\ Ready /\ shell' = "ready"
  /\ LET t == CleanedUp(table)
     IN table' = [t EXCEPT !.jobs = [j \in DOMAIN @ |-> [@[j] EXCEPT !.notified = TRUE]]]
  /\ UNCHANGED <<child, pending, pipeline, sigchld, reaping, waiting, made, word>>

\* Before the prompt: notify_and_cleanup, during whose first half the handler
\* only counts.
NotifyBegins ==
  /\ Ready /\ shell' = "notify"
  /\ UNCHANGED <<child, pending, pipeline, table, sigchld, reaping, waiting, made, word>>

NotifyEnds ==
  /\ shell = "notify" /\ shell' = "ready"
  /\ table' = CleanedUp(Notified(table))
  /\ UNCHANGED <<child, pending, pipeline, sigchld, reaping, waiting, made, word>>

Builtins ==
  \/ \E p \in Pids : WaitPid(p)
  \/ \E j \in Slots : Fg(j) \/ Resume(j) \/ Disown(j)
  \/ WaitAny \/ ListJobs

JobsNext ==
  \/ \E p \in Pids : Exit(p) \/ Suspend(p) \/ Continue(p) \/ WaitpidChild(p)
  \/ SigchldHandler \/ WaitpidNothing \/ WaitpidNoChild
  \/ \E p \in Pids, length \in 1 .. MaxLength, async \in BOOLEAN : Fork(p, length, async)
  \/ StopPipeline \/ WaitBlocks \/ WaitEnds \/ WaitAll \/ Builtins
  \/ AnyWoken \/ AnyChecks \/ AnyBlocks \/ AnyWakes
  \/ NotifyBegins \/ NotifyEnds

JobsSpec == JobsInit /\ [][JobsNext]_jobsVars
-----------------------------------------------------------------------------
(* Properties. *)

\* `+' and `-' are jobs of the table, or there are neither: whatever SIGCHLD, the
\* prompt and the builtins delete, fg and bg never follow an index to a job that
\* is gone (jobs.c:1386-1443, 3421-3513).
CurrentIsAJob ==
  IF table.cur = NoJob THEN table.prev = NoJob
                       ELSE Has(table, table.cur) /\ Has(table, table.prev)

\* `wait pid' tells the status of the last child with that pid, never of one that
\* had it before, and it tells one of every background job that neither came to
\* the foreground nor was disowned (jobs.c:822-962, 1264-1283, 2585-2645).
WaitTellsTheLast ==
  Ready => \A p \in Pids :
    ~In(table, JobOf(table, p), "running") /\ word[p] # "disowned" =>
      \/ Answer(p) \in {Stopped, child[p].job}
      \/ Answer(p) = Status!Unknown /\ word[p] = "none"

\* At the prompt the shell has seen every change of its children: it "learns
\* immediately whenever a job changes state" (doc/bash.1:5481).
LearnsImmediately ==
  shell = "ready" /\ ~pending /\ ~reaping.on => \A p \in Pids : ~child[p].news
=============================================================================
