---------------------------- MODULE GuestCgroups ----------------------------
(***************************************************************************)
(* How the connection processes of kh_term_daemon put their sessions under  *)
(* KHSL's limits (main.cpp:45-71, 211): each makes the memory and the       *)
(* cpuset group if they are not there and writes its child's number into    *)
(* both.  The groups are the kernel's, shared by all, and outlive the       *)
(* processes; a cpuset takes no process before its cpus and its mems are    *)
(* set.  A write that fails is printed, and the session goes on; of the      *)
(* failures, those that the others' steps cause are modelled.               *)
(***************************************************************************)
CONSTANT Relays  \* connection processes that are in apply_cgroups or beyond

VARIABLES
  pc,      \* pc[r]: where r is
  memory,  \* the memory group: "absent", "made" or "limited"
  cpuset,  \* what the cpuset group has: "absent", or a set of "cpus", "mems"
  inside,  \* inside[r]: the groups r's child was put into
  early,   \* history: the relays that found a cpuset which was being set up
  broken   \* history: a process was cut off while it set the cpuset up

cgroupVars == <<pc, memory, cpuset, inside, early, broken>>

CgroupSteps == {"off", "memory", "limit", "joinMemory", "access", "mkdir", "cpus",
                "mems", "join", "applied"}
SettingUp(r) == pc[r] \in {"cpus", "mems"}

CgroupsInit ==
  /\ pc = [r \in Relays |-> "off"] /\ inside = [r \in Relays |-> {}]
  /\ memory = "absent" /\ cpuset = {"absent"}
  /\ early = {} /\ broken = FALSE

At(r, here, next) == pc[r] = here /\ pc' = [pc EXCEPT ![r] = next]
Join(r, group) == inside' = [inside EXCEPT ![r] = @ \cup {group}]

\* The child of forkpty runs already; apply_cgroups has its number.
Apply(r) ==
  /\ At(r, "off", "memory")
  /\ UNCHANGED <<memory, cpuset, inside, early, broken>>

-----------------------------------------------------------------------------
(* The memory group: it takes processes as soon as it is there. *)

MakeMemory(r) ==
  /\ At(r, "memory", "limit")
  /\ memory' = IF memory = "absent" THEN "made" ELSE memory
  /\ UNCHANGED <<cpuset, inside, early, broken>>

LimitMemory(r) ==
  /\ At(r, "limit", "joinMemory")
  /\ memory' = "limited"
  /\ UNCHANGED <<cpuset, inside, early, broken>>

JoinMemory(r) ==
  /\ At(r, "joinMemory", "access")
  /\ Join(r, "memory")
  /\ UNCHANGED <<memory, cpuset, early, broken>>

-----------------------------------------------------------------------------
(* The cpuset group. *)

Access(r) ==
  /\ pc[r] = "access"
  /\ pc' = [pc EXCEPT ![r] = IF "absent" \in cpuset THEN "mkdir" ELSE "join"]
  /\ early' = IF \E q \in Relays : SettingUp(q) THEN early \cup {r} ELSE early
  /\ UNCHANGED <<memory, cpuset, inside, broken>>

\* Of two that saw no group one makes it; the other goes on to join it.
Mkdir(r) ==
  /\ pc[r] = "mkdir"
  /\ IF "absent" \in cpuset
       THEN cpuset' = {} /\ pc' = [pc EXCEPT ![r] = "cpus"] /\ UNCHANGED early
       ELSE /\ pc' = [pc EXCEPT ![r] = "join"] /\ UNCHANGED cpuset
            /\ early' = IF \E q \in Relays : SettingUp(q) THEN early \cup {r} ELSE early
  /\ UNCHANGED <<memory, inside, broken>>

CopyCpusAndJoin(r) ==  \* mutant: the mems are left for the kernel to fill in
  /\ At(r, "cpus", "join")
  /\ cpuset' = cpuset \cup {"cpus"}
  /\ UNCHANGED <<memory, inside, early, broken>>

\* The root group's cpus, and then its mems.
CopyCpus(r) ==
  /\ At(r, "cpus", "mems")
  /\ cpuset' = cpuset \cup {"cpus"}
  /\ UNCHANGED <<memory, inside, early, broken>>

CopyMems(r) ==
  /\ At(r, "mems", "join")
  /\ cpuset' = cpuset \cup {"mems"}
  /\ UNCHANGED <<memory, inside, early, broken>>

JoinCpuset(r) ==
  /\ At(r, "join", "applied")
  /\ IF {"cpus", "mems"} \subseteq cpuset THEN Join(r, "cpuset") ELSE UNCHANGED inside
  /\ UNCHANGED <<memory, cpuset, early, broken>>

\* The session is over or its connection process is killed; a new one takes its
\* place.  The groups stay.
End(r) ==
  /\ pc[r] # "off" /\ pc' = [pc EXCEPT ![r] = "off"]
  /\ inside' = [inside EXCEPT ![r] = {}] /\ early' = early \ {r}
  /\ broken' = (broken \/ SettingUp(r))
  /\ UNCHANGED <<memory, cpuset>>

RebootGroups ==
  /\ pc' = [r \in Relays |-> "off"] /\ inside' = [r \in Relays |-> {}]
  /\ memory' = "absent" /\ cpuset' = {"absent"}
  /\ early' = {} /\ broken' = FALSE

CgroupsNext ==
  \/ \E r \in Relays :
       \/ Apply(r) \/ MakeMemory(r) \/ LimitMemory(r) \/ JoinMemory(r)
       \/ Access(r) \/ Mkdir(r) \/ CopyCpus(r) \/ CopyMems(r) \/ JoinCpuset(r)
       \/ End(r)
  \/ RebootGroups

CgroupsSpec == CgroupsInit /\ [][CgroupsNext]_cgroupVars
-----------------------------------------------------------------------------
\* A session runs under both limits once its connection process is through, unless
\* that process came upon a cpuset group another was still setting up, or one was
\* cut off there: mkdir tells exactly one that the group is its to set up, and it
\* is never set up again (main.cpp:60-70).
LimitedUnlessRaced ==
  \A r \in Relays :
    pc[r] = "applied" /\ r \notin early /\ ~broken
      => inside[r] = {"memory", "cpuset"} /\ memory = "limited"
=============================================================================
