-------------------------- MODULE GuestEntry_proofs --------------------------
(***************************************************************************)
(* What holds of the way into the guest and of its limits for every set of  *)
(* sessions, of names and of connection processes, and every number of loop *)
(* devices.                                                                 *)
(***************************************************************************)
EXTENDS GuestEntry, GuestCgroups, TLAPS

EntryTypeOK ==
  /\ at \in [Sessions -> Steps] /\ user \in [Sessions -> Users \cup {"none", "root"}]
  /\ userfile \in Users \cup {"absent", "empty"}
  /\ accounts \in [Users -> {"none", "made", "ready"}]

\* What a registration has done so far.
NameEntered == \A s \in Sessions :
  at[s] \in {"add", "password", "record", "write"} => user[s] \in Users
AccountMade == \A s \in Sessions :
  at[s] \in {"password", "record", "write"} => accounts[user[s]] # "none"
PasswordSet == \A s \in Sessions :
  at[s] \in {"record", "write"} => accounts[user[s]] = "ready"

RegistrationInv ==
  /\ EntryTypeOK /\ NameEntered /\ AccountMade /\ PasswordSet
  /\ DefaultUserIsReady /\ OneRegistrar

\* Nobody is there yet.
LEMMA RegistrationInvInit == Init => RegistrationInv
BY UsersAssumption DEF Init, RegistrationInv, EntryTypeOK, NameEntered, AccountMade, PasswordSet,
   DefaultUserIsReady, OneRegistrar, Steps

\* A step that leaves the accounts alone, and moves one session to a place outside
\* the registration, keeps what the others have registered.
LEMMA OutsideKeeps ==
  ASSUME RegistrationInv, NEW s \in Sessions,
         NEW step \in Steps \ {"add", "password", "record", "write"},
         at' = [at EXCEPT ![s] = step],
         \E u \in Users \cup {"none", "root"} : user' = [user EXCEPT ![s] = u],
         UNCHANGED <<userfile, accounts>>
  PROVE  RegistrationInv'
BY DEF RegistrationInv, EntryTypeOK, NameEntered, AccountMade, PasswordSet,
   DefaultUserIsReady, OneRegistrar

\* A step that touches none of it.
LEMMA StutterKeeps ==
  ASSUME RegistrationInv, UNCHANGED <<at, user, userfile, accounts>>
  PROVE  RegistrationInv'
BY DEF RegistrationInv, EntryTypeOK, NameEntered, AccountMade, PasswordSet,
   DefaultUserIsReady, OneRegistrar

\* The steps of a registration: each acts on the account of the session's own name.
LEMMA RegistrationKeeps ==
  ASSUME RegistrationInv, NEW s \in Sessions, Registration(s)
  PROVE  RegistrationInv'
<1> USE DEF RegistrationInv, EntryTypeOK, NameEntered, AccountMade, PasswordSet,
            DefaultUserIsReady, OneRegistrar, Goto, Steps, recordVars
<1>1. CASE EnterName(s) BY <1>1 DEF EnterName
<1>2. CASE AddUser(s)
  <2>1. CASE Goto(s, "name") /\ UNCHANGED accounts BY <1>2, <2>1 DEF AddUser
  <2>2. CASE /\ accounts[user[s]] = "none"
             /\ accounts' = [accounts EXCEPT ![user[s]] = "made"]
    \* Nobody else can be past its useradd with this name: its account was none.
    <3>1. UNCHANGED <<user, recordVars>> BY <1>2 DEF AddUser
    <3>2. user[s] \in Users BY <1>2 DEF AddUser
    <3>3. \A t \in Sessions : at[t] \in {"password", "record", "write"} => user[t] # user[s]
      BY <2>2
    <3>4. CASE Goto(s, "password") BY <2>2, <3>1, <3>2, <3>3, <3>4
    <3>5. CASE Goto(s, "name") BY <2>2, <3>1, <3>2, <3>3, <3>5
    <3> QED BY <1>2, <2>2, <3>4, <3>5 DEF AddUser
  <2> QED BY <1>2, <2>1, <2>2 DEF AddUser
<1>3. CASE SetPassword(s) BY <1>3 DEF SetPassword
<1>4. CASE Record(s) BY <1>4, UsersAssumption DEF Record
<1>5. CASE Write(s) BY <1>5, UsersAssumption DEF Write
<1> QED BY <1>1, <1>2, <1>3, <1>4, <1>5 DEF Registration

\* Every other step of a session, of the script and of the device leaves the
\* registered accounts as they are.
LEMMA RegistrationInvStep == RegistrationInv /\ [Next]_vars => RegistrationInv'
<1> SUFFICES ASSUME RegistrationInv, [Next]_vars PROVE RegistrationInv'
  OBVIOUS
<1> USE DEF Goto, Steps, isolationVars, recordVars
<1>t. EntryTypeOK BY DEF RegistrationInv
<1>1. CASE UNCHANGED vars BY <1>1, StutterKeeps DEF vars, entryVars
<1>2. ASSUME NEW s \in Sessions, Connect(s) \/ EntrySteps(s) \/ Leave(s)
      PROVE  RegistrationInv'
  <2>u. user[s] \in Users \cup {"none", "root"} BY <1>t DEF EntryTypeOK
  <2>s. user = [user EXCEPT ![s] = user[s]] BY <1>t DEF EntryTypeOK
  <2>1. CASE Connect(s) BY <2>1, <2>u, <2>s, OutsideKeeps DEF Connect
  <2>2. CASE CheckDevices(s) BY <2>2, <2>u, <2>s, OutsideKeeps DEF CheckDevices
  <2>3. CASE Mount(s) BY <2>3, <2>u, <2>s, OutsideKeeps DEF Mount
  <2>4. CASE TryLoop(s)
    <3>1. CASE UNCHANGED at BY <2>4, <3>1, StutterKeeps DEF TryLoop
    <3>2. CASE Goto(s, "probe") BY <2>4, <3>2, <2>u, <2>s, OutsideKeeps DEF TryLoop
    <3> QED BY <2>4, <3>1, <3>2 DEF TryLoop
  <2>5. CASE Probe(s)
    <3>1. CASE Goto(s, "host") /\ UNCHANGED user
      BY <2>5, <3>1, <2>u, <2>s, OutsideKeeps DEF Probe
    <3>2. CASE Goto(s, "isolate") /\
               \E u \in Users \cup {"none", "root"} : user' = [user EXCEPT ![s] = u]
      BY <2>5, <3>2, OutsideKeeps DEF Probe
    <3> QED BY <2>5, <3>1, <3>2, <1>t DEF Probe, EntryTypeOK
  <2>6. CASE Isolate(s)
    <3>1. UNCHANGED <<user, userfile, accounts>> BY <2>6 DEF Isolate
    <3>2. CASE Goto(s, "bindOwn") BY <3>1, <3>2, <2>u, <2>s, OutsideKeeps
    <3>3. CASE Goto(s, "bindShared") BY <3>1, <3>3, <2>u, <2>s, OutsideKeeps
    <3>4. CASE Goto(s, "bindHost") BY <3>1, <3>4, <2>u, <2>s, OutsideKeeps
    <3> QED BY <2>6, <3>2, <3>3, <3>4 DEF Isolate
  <2>7. CASE EnterGuest(s)
    <3>1. CASE Goto(s, "login") BY <2>7, <3>1, <2>u, <2>s, OutsideKeeps DEF EnterGuest
    <3>2. CASE Goto(s, "host") BY <2>7, <3>2, <2>u, <2>s, OutsideKeeps DEF EnterGuest
    <3> QED BY <2>7, <3>1, <3>2 DEF EnterGuest
  <2>8. CASE Login(s)
    <3>1. UNCHANGED <<userfile, accounts>> BY <2>8 DEF Login
    <3>2. CASE Goto(s, "name") /\ UNCHANGED user BY <3>1, <3>2, <2>u, <2>s, OutsideKeeps
    <3>3. CASE Goto(s, "guest") /\ UNCHANGED user BY <3>1, <3>3, <2>u, <2>s, OutsideKeeps
    <3>4. CASE Over(s) BY <3>1, <3>4, OutsideKeeps DEF Over
    <3> QED BY <2>8, <3>2, <3>3, <3>4 DEF Login
  <2>9. CASE Leave(s) BY <2>9, OutsideKeeps DEF Leave, Over
  <2> QED BY <1>2, <2>1, <2>2, <2>3, <2>4, <2>5, <2>6, <2>7, <2>8, <2>9 DEF EntrySteps
<1>3. ASSUME NEW s \in Sessions, Registration(s) PROVE RegistrationInv'
  BY <1>3, RegistrationKeeps
<1>4. CASE UNCHANGED entryVars BY <1>4, StutterKeeps DEF entryVars
<1>5. CASE Reboot
  BY <1>5, UsersAssumption DEF Reboot, RegistrationInv, EntryTypeOK, NameEntered, AccountMade,
     PasswordSet, DefaultUserIsReady, OneRegistrar
<1> QED BY <1>1, <1>2, <1>3, <1>4, <1>5 DEF Next

\* The default user can always log in, whatever registrations ran at once, were
\* cut off, or were restarted (main.cpp:416-438).
THEOREM DefaultUserCanLogIn == Spec => []DefaultUserIsReady
<1>1. RegistrationInv => DefaultUserIsReady BY DEF RegistrationInv
<1> QED BY RegistrationInvInit, RegistrationInvStep, <1>1, PTL DEF Spec

\* No two sessions register one account (main.cpp:412-430).
THEOREM RegistrationsApart == Spec => []OneRegistrar
<1>1. RegistrationInv => OneRegistrar BY DEF RegistrationInv
<1> QED BY RegistrationInvInit, RegistrationInvStep, <1>1, PTL DEF Spec

\* The file is empty only while a record is being written, or after one was cut off.
RecordInv == userfile = "empty" => torn \/ \E t \in Sessions : at[t] = "write"

LEMMA RecordInvStep == EntryTypeOK /\ RecordInv /\ [Next]_vars => RecordInv'
<1> SUFFICES ASSUME EntryTypeOK, RecordInv, [Next]_vars PROVE RecordInv'
  OBVIOUS
<1> USE DEF RecordInv, recordVars, Goto
<1>1. CASE UNCHANGED <<at, recordVars>> BY <1>1
<1>2. ASSUME NEW s \in Sessions, NEW step, at[s] # "write", UNCHANGED recordVars, Goto(s, step)
      PROVE  RecordInv'
  BY <1>2 DEF EntryTypeOK
<1>3. ASSUME NEW s \in Sessions, Connect(s) \/ EntrySteps(s) PROVE RecordInv'
  <2>1. UNCHANGED recordVars /\ at[s] # "write"
    BY <1>3 DEF EntrySteps, Connect, CheckDevices, Mount, TryLoop, Probe, Isolate,
       EnterGuest, Login, Binding
  <2>2. UNCHANGED at \/ \E step : Goto(s, step)
    BY <1>3 DEF EntrySteps, Connect, CheckDevices, Mount, TryLoop, Probe, Isolate,
       EnterGuest, Login, Over
  <2> QED BY <1>1, <1>2, <2>1, <2>2
<1>4. ASSUME NEW s \in Sessions, Registration(s) PROVE RecordInv'
  <2>1. CASE EnterName(s) \/ AddUser(s) \/ SetPassword(s)
    BY <1>2, <2>1 DEF EnterName, AddUser, SetPassword
  <2>2. CASE Record(s) BY <2>2 DEF Record, EntryTypeOK
  <2>3. CASE Write(s)
    <3>1. userfile' # "empty"
      BY <2>3, UsersAssumption DEF Write, EntryTypeOK
    <3> QED BY <3>1
  <2> QED BY <1>4, <2>1, <2>2, <2>3 DEF Registration
<1>5. ASSUME NEW s \in Sessions, Leave(s) PROVE RecordInv'
  BY <1>5 DEF Leave, Over, EntryTypeOK
<1>6. CASE UNCHANGED entryVars BY <1>6 DEF entryVars
<1>7. CASE Reboot BY <1>7 DEF Reboot
<1> QED BY <1>1, <1>3, <1>4, <1>5, <1>6, <1>7 DEF Next, vars, entryVars

\* However many registrations run, are cut off or follow each other, root is given to a
\* session that has no user only by a record in the middle of its writing, or cut off
\* there and not made good (main.cpp:269, 311-319, 438).
THEOREM RootIsATornRecord == Spec => RootOnlyIfTorn
<1>1. Init => RecordInv BY UsersAssumption DEF Init, RecordInv
<1>2. RegistrationInv => EntryTypeOK BY DEF RegistrationInv
<1>3. ASSUME RegistrationInv, RecordInv, [Next]_vars
      PROVE  [\A s \in Sessions : user[s] # "root" /\ user'[s] = "root"
                => torn \/ \E t \in Sessions : at[t] = "write"]_vars
  <2> SUFFICES ASSUME NEW s \in Sessions, user[s] # "root", user'[s] = "root"
               PROVE  userfile = "empty"
    BY <1>3 DEF RecordInv
  <2>1. CASE UNCHANGED user BY <2>1
  <2>2. ASSUME NEW t \in Sessions, Probe(t) PROVE userfile = "empty"
    BY <1>3, <2>2, UsersAssumption DEF Probe, RegistrationInv, EntryTypeOK
  <2>3. ASSUME NEW t \in Sessions, Over(t) PROVE userfile = "empty"
    BY <1>3, <2>3 DEF Over, RegistrationInv, EntryTypeOK
  <2>4. ASSUME NEW t \in Sessions, EnterName(t) PROVE userfile = "empty"
    BY <1>3, <2>4, UsersAssumption DEF EnterName, RegistrationInv, EntryTypeOK
  <2>5. CASE Reboot BY <2>5 DEF Reboot
  <2>6. ASSUME NEW t \in Sessions, Connect(t) \/ EntrySteps(t) \/ Registration(t) \/ Leave(t)
        PROVE  UNCHANGED user \/ Probe(t) \/ Over(t) \/ EnterName(t)
    BY <2>6 DEF Connect, EntrySteps, Registration, Leave, CheckDevices, Mount, TryLoop,
       Isolate, EnterGuest, Login, AddUser, SetPassword, Record, Write
  <2> QED BY <1>3, <2>1, <2>2, <2>3, <2>4, <2>5, <2>6 DEF Next, vars, entryVars
<1> QED BY RegistrationInvInit, RegistrationInvStep, RecordInvStep, <1>1, <1>2, <1>3,
           PTL DEF Spec, RootOnlyIfTorn

-----------------------------------------------------------------------------
(* The host's mounts. *)

\* Who mounts where the host may see it has said so.
SharersWarned == \A s \in Sessions : at[s] \in {"bindShared", "bindHost"} => warned

IsolationInv == SharersWarned /\ HostStaysClean

\* One session that moves on keeps it if a place among the host's mounts comes
\* with a warning.
LEMMA MoveKeeps ==
  ASSUME IsolationInv, EntryTypeOK, NEW s \in Sessions, NEW step,
         at' = [at EXCEPT ![s] = step],
         step \in {"bindShared", "bindHost"} => warned',
         warned => warned', hostBinds' => hostBinds \/ warned
  PROVE  IsolationInv'
BY DEF IsolationInv, SharersWarned, HostStaysClean, EntryTypeOK

LEMMA IsolationInvStep == EntryTypeOK /\ IsolationInv /\ [Next]_vars => IsolationInv'
<1> SUFFICES ASSUME EntryTypeOK, IsolationInv, [Next]_vars PROVE IsolationInv'
  OBVIOUS
<1> USE DEF Goto, isolationVars
<1>1. CASE UNCHANGED <<at, isolationVars>>
  BY <1>1 DEF IsolationInv, SharersWarned, HostStaysClean
<1>2. ASSUME NEW s \in Sessions, Connect(s) \/ EntrySteps(s) \/ Leave(s)
      PROVE  IsolationInv'
  <2>1. CASE Connect(s) BY <2>1, MoveKeeps DEF Connect
  <2>2. CASE CheckDevices(s) BY <2>2, MoveKeeps DEF CheckDevices
  <2>3. CASE Mount(s)
    <3>1. CASE Goto(s, "probe") BY <2>3, <3>1, MoveKeeps DEF Mount
    <3>2. CASE Goto(s, "losetup") BY <2>3, <3>2, MoveKeeps DEF Mount
    <3> QED BY <2>3, <3>1, <3>2 DEF Mount
  <2>4. CASE TryLoop(s)
    <3>1. CASE Goto(s, "probe") BY <2>4, <3>1, MoveKeeps DEF TryLoop
    <3>2. CASE UNCHANGED at BY <2>4, <3>2, <1>1 DEF TryLoop
    <3> QED BY <2>4, <3>1, <3>2 DEF TryLoop
  <2>5. CASE Probe(s) BY <2>5, MoveKeeps DEF Probe
  <2>6. CASE Isolate(s)
    <3>1. CASE Goto(s, "bindOwn") /\ UNCHANGED warned BY <2>6, <3>1, MoveKeeps DEF Isolate
    <3>2. CASE Goto(s, "bindShared") /\ warned' = TRUE BY <2>6, <3>2, MoveKeeps DEF Isolate
    <3>3. CASE Goto(s, "bindHost") /\ warned' = TRUE BY <2>6, <3>3, MoveKeeps DEF Isolate
    <3> QED BY <2>6, <3>1, <3>2, <3>3 DEF Isolate
  <2>7. CASE EnterGuest(s)
    <3>1. warned' = warned /\ (hostBinds' => hostBinds \/ warned)
      BY <2>7 DEF EnterGuest, Binding, IsolationInv, SharersWarned
    <3>2. CASE Goto(s, "login") BY <3>1, <3>2, MoveKeeps
    <3>3. CASE Goto(s, "host") BY <3>1, <3>3, MoveKeeps
    <3> QED BY <2>7, <3>2, <3>3 DEF EnterGuest
  <2>8. CASE Login(s)
    <3>1. UNCHANGED isolationVars BY <2>8 DEF Login
    <3>2. \E step \in {"name", "guest", "idle"} : Goto(s, step) BY <2>8 DEF Login, Over
    <3> QED BY <3>1, <3>2, MoveKeeps
  <2>9. CASE Leave(s) BY <2>9, MoveKeeps DEF Leave, Over
  <2> QED BY <1>2, <2>1, <2>2, <2>3, <2>4, <2>5, <2>6, <2>7, <2>8, <2>9 DEF EntrySteps
<1>3. ASSUME NEW s \in Sessions, Registration(s) PROVE IsolationInv'
  <2>1. UNCHANGED isolationVars
    BY <1>3 DEF Registration, EnterName, AddUser, SetPassword, Record, Write
  <2>2. \E step \in {"name", "add", "password", "record", "write", "login"} : Goto(s, step)
    BY <1>3 DEF Registration, EnterName, AddUser, SetPassword, Record, Write
  <2> QED BY <2>1, <2>2, MoveKeeps
<1>4. CASE Reboot BY <1>4 DEF Reboot, IsolationInv, SharersWarned, HostStaysClean
<1> QED BY <1>1, <1>2, <1>3, <1>4 DEF Next, vars, entryVars

\* A session's pseudo file systems never come to the host unannounced, however many
\* sessions mount, fail to and leave (main.cpp:328-365).
THEOREM HostClean == Spec => []HostStaysClean
<1>1. Init => IsolationInv BY DEF Init, IsolationInv, SharersWarned, HostStaysClean
<1>2. RegistrationInv => EntryTypeOK BY DEF RegistrationInv
<1>3. IsolationInv => HostStaysClean BY DEF IsolationInv
<1> QED BY RegistrationInvInit, RegistrationInvStep, IsolationInvStep, <1>1, <1>2, <1>3,
           PTL DEF Spec

-----------------------------------------------------------------------------
(* The limits. *)

CgroupsTypeOK ==
  /\ pc \in [Relays -> CgroupSteps] /\ inside \in [Relays -> SUBSET {"memory", "cpuset"}]
  /\ memory \in {"absent", "made", "limited"} /\ cpuset \subseteq {"absent", "cpus", "mems"}
  /\ early \subseteq Relays /\ broken \in BOOLEAN

\* Behind the write of the limit there is one, and behind that of the number the
\* child is in the group.
MemoryLimited == \A r \in Relays :
  /\ pc[r] \notin {"off", "memory", "limit"} => memory = "limited"
  /\ pc[r] \in {"access", "mkdir", "cpus", "mems", "join", "applied"} => "memory" \in inside[r]

\* A cpuset group that is there and not whole is being set up, and one that did not
\* come upon it in that state finds it whole; a process cut off breaks that.
SomeoneSetsUp == \E r \in Relays : SettingUp(r)
CpusetWhole == {"cpus", "mems"} \subseteq cpuset /\ "absent" \notin cpuset

CpusetInv ==
  /\ SomeoneSetsUp => "absent" \notin cpuset
  /\ \A r \in Relays : pc[r] = "mems" => "cpus" \in cpuset
  /\ ~broken /\ "absent" \notin cpuset => CpusetWhole \/ SomeoneSetsUp
  /\ ~broken => \A r \in Relays \ early :
       /\ pc[r] = "join" => CpusetWhole
       /\ pc[r] = "applied" => "cpuset" \in inside[r]

LimitsInv == CgroupsTypeOK /\ MemoryLimited /\ CpusetInv

LEMMA LimitsInvInit == CgroupsInit => LimitsInv
BY DEF CgroupsInit, LimitsInv, CgroupsTypeOK, CgroupSteps, MemoryLimited, CpusetInv,
   SomeoneSetsUp, CpusetWhole, SettingUp

\* One step of one connection process, or of the device.
LEMMA LimitsInvStep == LimitsInv /\ [CgroupsNext]_cgroupVars => LimitsInv'
<1> SUFFICES ASSUME LimitsInv, [CgroupsNext]_cgroupVars PROVE LimitsInv'
  OBVIOUS
<1> USE DEF LimitsInv, CgroupsTypeOK, CgroupSteps, MemoryLimited, CpusetInv, SomeoneSetsUp,
            CpusetWhole, SettingUp, At, Join
<1>1. CASE UNCHANGED cgroupVars BY <1>1 DEF cgroupVars
<1>2. ASSUME NEW r \in Relays, Apply(r) PROVE LimitsInv' BY <1>2 DEF Apply
<1>3. ASSUME NEW r \in Relays, MakeMemory(r) PROVE LimitsInv' BY <1>3 DEF MakeMemory
<1>4. ASSUME NEW r \in Relays, LimitMemory(r) PROVE LimitsInv' BY <1>4 DEF LimitMemory
<1>5. ASSUME NEW r \in Relays, JoinMemory(r) PROVE LimitsInv' BY <1>5 DEF JoinMemory
<1>6. ASSUME NEW r \in Relays, Access(r) PROVE LimitsInv' BY <1>6 DEF Access
<1>7. ASSUME NEW r \in Relays, Mkdir(r) PROVE LimitsInv' BY <1>7 DEF Mkdir
<1>8. ASSUME NEW r \in Relays, CopyCpus(r) PROVE LimitsInv' BY <1>8 DEF CopyCpus
<1>9. ASSUME NEW r \in Relays, CopyMems(r) PROVE LimitsInv' BY <1>9 DEF CopyMems
<1>10. ASSUME NEW r \in Relays, JoinCpuset(r) PROVE LimitsInv' BY <1>10 DEF JoinCpuset
<1>11. ASSUME NEW r \in Relays, End(r) PROVE LimitsInv' BY <1>11 DEF End
<1>12. CASE RebootGroups BY <1>12 DEF RebootGroups
<1> QED BY <1>1, <1>2, <1>3, <1>4, <1>5, <1>6, <1>7, <1>8, <1>9, <1>10, <1>11, <1>12
        DEF CgroupsNext

\* However many connection processes make and join the groups at once, only those
\* that meet one in the middle of setting the cpuset up go without a limit
\* (main.cpp:45-71).
THEOREM SessionsAreLimited == CgroupsSpec => []LimitedUnlessRaced
<1>1. LimitsInv => LimitedUnlessRaced
  BY DEF LimitsInv, CgroupsTypeOK, MemoryLimited, CpusetInv, LimitedUnlessRaced
<1> QED BY LimitsInvInit, LimitsInvStep, <1>1, PTL DEF CgroupsSpec

-----------------------------------------------------------------------------
(* The image. *)

\* Until two raced, one at most is about to mount, nothing is mounted then, and
\* nothing is mounted twice.
MountInv ==
  ~raced =>
    /\ Len(stack) <= 1
    /\ MountingScript => stack = <<>> /\ \A s \in Sessions : ~Mounting(s)
    /\ \A s \in Sessions : Mounting(s) =>
         stack = <<>> /\ \A t \in Sessions : Mounting(t) => t = s

LEMMA OneMounted == ASSUME NEW d PROVE Len(Append(<<>>, d)) = 1
<1>1. <<>> \in Seq({d}) /\ d \in {d} OBVIOUS
<1> QED BY <1>1

\* A session that is not mounting afterwards, whatever it did, has mounted once at
\* most; one that goes on mounting has mounted nothing.
LEMMA SessionKeepsMountInv ==
  ASSUME MountInv, EntryTypeOK, NEW s \in Sessions, NEW step \in Steps,
         at' = [at EXCEPT ![s] = step], UNCHANGED <<script, raced>>,
         step \in {"mount", "losetup"} => Mounting(s) /\ stack' = stack,
         stack' # stack => Mounting(s) /\ \E d : stack' = Append(stack, d)
  PROVE  MountInv'
<1>1. ~raced /\ stack' # stack => Len(stack') = 1
  BY OneMounted DEF MountInv
<1> QED BY <1>1 DEF MountInv, MountingScript, Mounting, EntryTypeOK

LEMMA MountInvStep == EntryTypeOK /\ MountInv /\ [Next]_vars => MountInv'
<1> SUFFICES ASSUME EntryTypeOK, MountInv, [Next]_vars PROVE MountInv'
  OBVIOUS
<1> USE DEF Goto, Steps, isolationVars, recordVars
<1>1. CASE UNCHANGED <<at, script, stack, raced>>
  BY <1>1 DEF MountInv, MountingScript, Mounting
<1>2. ASSUME NEW s \in Sessions, Connect(s) \/ EntrySteps(s) \/ Registration(s) \/ Leave(s)
      PROVE  MountInv'
  <2>1. CASE CheckDevices(s)
    BY <2>1 DEF CheckDevices, MountInv, MountingScript, Mounting, Mounted, EntryTypeOK
  <2>2. CASE Mount(s)
    <3>1. CASE Goto(s, "probe") /\ \E d \in Loops : MountLoop(d)
      BY <2>2, <3>1, SessionKeepsMountInv DEF Mount, MountLoop, Mounting
    <3>2. CASE Goto(s, "losetup") /\ UNCHANGED stack
      BY <2>2, <3>2, SessionKeepsMountInv DEF Mount, Mounting
    <3> QED BY <2>2, <3>1, <3>2 DEF Mount
  <2>3. CASE TryLoop(s)
    <3>1. UNCHANGED <<script, raced>> /\ Mounting(s) BY <2>3 DEF TryLoop, Mounting
    <3>2. CASE stack' = Append(stack, dev[s]) /\ Goto(s, "probe")
      BY <3>1, <3>2, SessionKeepsMountInv
    <3>3. CASE UNCHANGED stack /\ UNCHANGED at BY <3>1, <3>3, <1>1
    <3>4. CASE UNCHANGED stack /\ Goto(s, "probe") BY <3>1, <3>4, SessionKeepsMountInv
    <3> QED BY <2>3, <3>2, <3>3, <3>4 DEF TryLoop
  <2>4. CASE \/ Connect(s) \/ Probe(s) \/ Isolate(s) \/ EnterGuest(s) \/ Login(s)
             \/ Registration(s) \/ Leave(s)
    <3>1. UNCHANGED imageVars
      BY <2>4 DEF Connect, Probe, Isolate, EnterGuest, Login, Registration, EnterName,
         AddUser, SetPassword, Record, Write, Leave, Over
    <3>2. \E step \in Steps \ {"mount", "losetup"} : Goto(s, step)
      BY <2>4 DEF Connect, Probe, Isolate, EnterGuest, Login, Registration, EnterName,
         AddUser, SetPassword, Record, Write, Leave, Over
    <3> QED BY <3>1, <3>2, SessionKeepsMountInv DEF imageVars
  <2> QED BY <1>2, <2>1, <2>2, <2>3, <2>4 DEF EntrySteps
<1>3. ASSUME ScriptNext(\E s \in Sessions : Mounting(s)), UNCHANGED entryVars PROVE MountInv'
  <2>0. UNCHANGED at BY <1>3 DEF entryVars
  <2> USE DEF MountInv, MountingScript, Mounting, ScriptSteps
  <2>1. CASE \/ StartScript \/ MakeImage \/ Format \/ Unpack \/ Tar \/ Configure \/ StopScript
    BY <2>0, <2>1 DEF StartScript, MakeImage, Format, Unpack, Tar, Configure, StopScript
  <2>2. CASE CheckMount(\E s \in Sessions : Mounting(s))
    BY <2>0, <2>2 DEF CheckMount, Mounted
  <2>3. CASE MountDirectly
    <3>1. UNCHANGED raced /\ MountingScript BY <2>3 DEF MountDirectly
    <3>2. CASE script' = "losetup" /\ UNCHANGED stack BY <2>0, <3>1, <3>2
    <3>3. CASE script' = "unpack" /\ \E d : stack' = Append(stack, d)
      BY <2>0, <3>1, <3>3, OneMounted
    <3> QED BY <2>3, <3>2, <3>3 DEF MountDirectly, MountLoop
  <2>4. CASE Losetup
    <3>1. UNCHANGED raced /\ MountingScript BY <2>4 DEF Losetup
    <3>2. CASE script' = "failed" /\ UNCHANGED stack BY <2>0, <3>1, <3>2
    <3>3. CASE script' = "unpack" /\ \E d : stack' = Append(stack, d)
      BY <2>0, <3>1, <3>3, OneMounted
    <3> QED BY <2>4, <3>2, <3>3 DEF Losetup
  <2> QED BY <1>3, <2>1, <2>2, <2>3, <2>4 DEF ScriptNext
<1>4. CASE Reboot BY <1>4 DEF Reboot, RebootImage, MountInv, MountingScript, Mounting
<1> QED BY <1>1, <1>2, <1>3, <1>4 DEF Next, vars, imageVars, entryVars

\* Sessions and the script that look for the mount one after the other mount the
\* image once (main.cpp:271-287, khsl_init_ubuntu.sh:59-99).
THEOREM MountedOnce == Spec => []QuietMount
<1>1. Init => MountInv
  BY DEF Init, ImageInit, MountInv, MountingScript, Mounting
<1>2. RegistrationInv => EntryTypeOK BY DEF RegistrationInv
<1>3. MountInv => QuietMount BY DEF MountInv, QuietMount
<1> QED BY RegistrationInvInit, RegistrationInvStep, MountInvStep, <1>1, <1>2, <1>3,
           PTL DEF Spec

\* The script behind its mount finds the image mounted, and content that is not
\* whole is either none or being unpacked, unless an extraction was cut off.
ContentInv ==
  /\ stack \in Seq(Int) /\ dev \in [Sessions -> Int]
  /\ script \in {"unpack", "tar", "configure", "completed"} => stack # <<>>
  /\ ~cutOff /\ script # "tar" => content \in {"empty", "full"}
  /\ ~cutOff /\ script \in {"configure", "completed"} => content = "full"

\* Another mount on top.
LEMMA MountedStaysMounted ==
  ASSUME NEW mounts \in Seq(Int), NEW d \in Int
  PROVE  Append(mounts, d) \in Seq(Int) /\ Append(mounts, d) # <<>>
<1>1. Append(mounts, d) \in Seq(Int) OBVIOUS
<1>2. Len(Append(mounts, d)) = Len(mounts) + 1 /\ Len(mounts) \in Nat OBVIOUS
<1>3. Len(<<>>) = 0 OBVIOUS
<1> QED BY <1>1, <1>2, <1>3

LEMMA MountLoopMounts ==
  ASSUME stack \in Seq(Int), NEW d \in Loops, MountLoop(d)
  PROVE  stack' \in Seq(Int) /\ stack' # <<>>
BY MountedStaysMounted, LoopAssumption DEF MountLoop, Loops

\* Sessions mount, and leave the script and its files alone.
LEMMA ContentInvEntry ==
  ASSUME ContentInv, NEW s \in Sessions,
         Connect(s) \/ EntrySteps(s) \/ Registration(s) \/ Leave(s)
  PROVE  ContentInv'
<1> USE DEF ContentInv
<1>1. CASE CheckDevices(s) BY <1>1 DEF CheckDevices
<1>2. CASE Mount(s)
  <2>1. CASE \E d \in Loops : MountLoop(d) BY <1>2, <2>1, MountLoopMounts DEF Mount
  <2>2. CASE UNCHANGED stack BY <1>2, <2>2 DEF Mount
  <2> QED BY <1>2, <2>1, <2>2 DEF Mount
<1>3. CASE TryLoop(s)
  <2>1. dev' \in [Sessions -> Int] BY <1>3, LoopAssumption DEF TryLoop
  <2>2. stack' = Append(stack, dev[s]) \/ stack' = stack BY <1>3 DEF TryLoop
  <2>3. stack' \in Seq(Int) /\ (stack # <<>> => stack' # <<>>)
    BY <2>2, MountedStaysMounted
  <2> QED BY <1>3, <2>1, <2>3 DEF TryLoop
<1>4. CASE \/ Connect(s) \/ Probe(s) \/ Isolate(s) \/ EnterGuest(s) \/ Login(s)
           \/ Registration(s) \/ Leave(s)
  <2>1. UNCHANGED imageVars /\ (UNCHANGED dev \/ dev' = [dev EXCEPT ![s] = 0])
    BY <1>4 DEF Connect, Probe, Isolate, EnterGuest, Login, Registration, EnterName,
       AddUser, SetPassword, Record, Write, Leave, Over
  <2> QED BY <2>1 DEF imageVars
<1> QED BY <1>1, <1>2, <1>3, <1>4 DEF EntrySteps

\* The script unpacks behind its mount, and goes on only past a command that worked.
LEMMA ContentInvScript ==
  ASSUME ContentInv, NEW others, ScriptNext(others), UNCHANGED dev
  PROVE  ContentInv'
<1> USE DEF ContentInv
<1>1. CASE StartScript BY <1>1 DEF StartScript, ScriptSteps
<1>2. CASE MakeImage BY <1>2 DEF MakeImage
<1>3. CASE Format BY <1>3 DEF Format
<1>4. CASE CheckMount(others) BY <1>4 DEF CheckMount, Mounted
<1>5. CASE MountDirectly
  <2>1. CASE \E d \in Loops : MountLoop(d) BY <1>5, <2>1, MountLoopMounts DEF MountDirectly
  <2>2. CASE script' = "losetup" /\ UNCHANGED stack BY <1>5, <2>2 DEF MountDirectly
  <2> QED BY <1>5, <2>1, <2>2 DEF MountDirectly
<1>6. CASE Losetup
  <2>1. CASE script' = "unpack"
    <3>1. \E d \in Loops : stack' = Append(stack, d) BY <1>6, <2>1 DEF Losetup
    <3>2. stack' \in Seq(Int) /\ stack' # <<>>
      BY <3>1, MountedStaysMounted, LoopAssumption DEF Loops
    <3> QED BY <1>6, <2>1, <3>2 DEF Losetup
  <2>2. CASE script' = "failed" /\ UNCHANGED stack BY <1>6, <2>2 DEF Losetup
  <2> QED BY <1>6, <2>1, <2>2 DEF Losetup
<1>7. CASE Unpack BY <1>7 DEF Unpack, HasShell
<1>8. CASE Tar BY <1>8 DEF Tar
<1>9. CASE Configure BY <1>9 DEF Configure
<1>10. CASE StopScript BY <1>10 DEF StopScript, ScriptSteps
<1> QED BY <1>1, <1>2, <1>3, <1>4, <1>5, <1>6, <1>7, <1>8, <1>9, <1>10 DEF ScriptNext

LEMMA ContentInvStep == ContentInv /\ [Next]_vars => ContentInv'
<1> SUFFICES ASSUME ContentInv, [Next]_vars PROVE ContentInv'
  OBVIOUS
<1>1. CASE UNCHANGED vars BY <1>1 DEF ContentInv, vars, imageVars, entryVars
<1>2. ASSUME NEW s \in Sessions, Connect(s) \/ EntrySteps(s) \/ Registration(s) \/ Leave(s)
      PROVE  ContentInv'
  BY <1>2, ContentInvEntry
<1>3. CASE ScriptNext(\E s \in Sessions : Mounting(s)) /\ UNCHANGED entryVars
  BY <1>3, ContentInvScript DEF entryVars
<1>4. CASE Reboot
  <2>1. <<>> \in Seq(Int) OBVIOUS
  <2>2. stack' = <<>> /\ script' = "off" /\ content' = content
    BY <1>4 DEF Reboot, RebootImage
  <2>3. dev' \in [Sessions -> Int] BY <1>4 DEF Reboot
  <2>4. ~cutOff' => ~cutOff /\ script # "tar" BY <1>4 DEF Reboot, RebootImage
  <2> QED BY <2>1, <2>2, <2>3, <2>4 DEF ContentInv
<1> QED BY <1>1, <1>2, <1>3, <1>4 DEF Next

\* Whatever was stopped before it, other than an extraction, and whatever the sessions
\* mount meanwhile: a script that says it is done has mounted the image and unpacked
\* all of the guest (khsl_init_ubuntu.sh:5, 62-108).
THEOREM CompletedIsWhole == Spec => []CleanRunCompletes
<1>1. Init => ContentInv
  BY DEF Init, ImageInit, ContentInv
<1>2. ContentInv => CleanRunCompletes BY DEF ContentInv, CleanRunCompletes, Mounted
<1> QED BY <1>1, ContentInvStep, <1>2, PTL DEF Spec
=============================================================================
