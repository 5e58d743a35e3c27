----------------------------- MODULE GuestEntry -----------------------------
(***************************************************************************)
(* How a session of kh_term_daemon enters the guest, in the child of the    *)
(* connection process's forkpty (main.cpp:262-465): it mounts the image if  *)
(* nobody has, enters it, and logs in as the default user, whom the first   *)
(* session registers.  Sessions run side by side, with the script of        *)
(* GuestImage, and end at any point when their client leaves.               *)
(***************************************************************************)
EXTENDS GuestImage

CONSTANTS Sessions,
          Users  \* names a user may enter

ASSUME UsersAssumption == {"none", "root", "absent", "empty"} \cap Users = {}

VARIABLES
  at,       \* at[s]: where session s is
  dev,      \* dev[s]: the loop device it tries
  user,     \* user[s]: its default_user; in a registration, $username
  hostBinds,\* /proc, /sys or /dev are mounted in the image as the host sees it
  warned,   \* history: a session went on without a namespace of its own
  userfile, \* /var/lib/khsl_default_user: "absent", "empty" or a user
  torn,     \* history: a record was cut off, and none was written since
  accounts  \* accounts[u]: "none", "made" or "ready", with a password

isolationVars == <<hostBinds, warned>>
recordVars == <<userfile, torn>>
entryVars == <<at, dev, user, isolationVars, recordVars, accounts>>
vars == <<imageVars, entryVars>>

Steps == {"idle", "check", "mount", "losetup", "probe", "isolate", "bindOwn",
          "bindShared", "bindHost", "login",
          "name", "add", "password", "record", "write", "guest", "host"}

\* What it mounts goes to its own namespace, a shared copy, or the host's.
Binding == {"bindOwn", "bindShared", "bindHost"}

Mounting(s) == at[s] \in {"mount", "losetup"}

Init ==
  /\ ImageInit
  /\ at = [s \in Sessions |-> "idle"] /\ dev = [s \in Sessions |-> 0]
  /\ user = [s \in Sessions |-> "none"]
  /\ hostBinds = FALSE /\ warned = FALSE
  /\ userfile = "absent" /\ torn = FALSE /\ accounts = [u \in Users |-> "none"]

Goto(s, step) == at' = [at EXCEPT ![s] = step]

\* The session's processes are gone, and with them their variables and the mounts
\* of a namespace of their own.
Over(s) == /\ Goto(s, "idle")
           /\ user' = [user EXCEPT ![s] = "none"] /\ dev' = [dev EXCEPT ![s] = 0]

-----------------------------------------------------------------------------
(* The image. *)

Connect(s) ==
  /\ at[s] = "idle" /\ Goto(s, "check")
  /\ UNCHANGED <<imageVars, dev, user, recordVars, accounts, isolationVars>>

\* The device numbers of the directory and of its parent tell a mount.
CheckMountNever(s) ==  \* mutant: a mount is not noticed
  /\ at[s] = "check"
  /\ Goto(s, IF image # "absent" THEN "mount" ELSE "probe")
  /\ raced' = (raced \/ MountingScript \/ \E t \in Sessions : Mounting(t))
  /\ UNCHANGED <<image, content, attached, stack, script, force, cutOff, dev, user,
                 recordVars, accounts, isolationVars>>

CheckDevices(s) ==
  /\ at[s] = "check"
  /\ IF Mounted \/ image = "absent"
       THEN Goto(s, "probe") /\ UNCHANGED raced
       ELSE /\ Goto(s, "mount")
            /\ raced' = (raced \/ MountingScript \/ \E t \in Sessions : Mounting(t))
  /\ UNCHANGED <<image, content, attached, stack, script, force, cutOff, dev, user,
                 recordVars, accounts, isolationVars>>

Mount(s) ==
  /\ at[s] = "mount"
  /\ \/ Goto(s, "probe") /\ \E d \in Loops : MountLoop(d)
     \/ Goto(s, "losetup") /\ UNCHANGED <<attached, stack>>
  /\ UNCHANGED <<image, content, script, force, cutOff, raced, dev, user, recordVars,
                 accounts, isolationVars>>

\* One turn of `for i in 0 .. 9': losetup may fail, and a device whose mount fails
\* stays attached.
TryLoop(s) ==
  /\ at[s] = "losetup"
  /\ \/ /\ dev[s] \notin attached /\ image = "ext4"
        /\ attached' = attached \cup {dev[s]} /\ stack' = Append(stack, dev[s])
        /\ Goto(s, "probe") /\ dev' = [dev EXCEPT ![s] = 0]
     \/ /\ attached' \in {attached, attached \cup {dev[s]}} /\ UNCHANGED stack
        /\ IF dev[s] < LastLoop
             THEN dev' = [dev EXCEPT ![s] = @ + 1] /\ UNCHANGED at
             ELSE dev' = [dev EXCEPT ![s] = 0] /\ Goto(s, "probe")
  /\ UNCHANGED <<image, content, script, force, cutOff, raced, user, recordVars,
                 accounts, isolationVars>>

-----------------------------------------------------------------------------
(* The guest. *)

ProbeAsRoot(s) ==  \* mutant: no file, too, leaves the initial "root"
  /\ at[s] = "probe"
  /\ IF Mounted /\ HasShell
       THEN /\ Goto(s, "isolate")
            /\ user' = [user EXCEPT ![s] = IF userfile \in Users THEN userfile ELSE "root"]
       ELSE Goto(s, "host") /\ UNCHANGED user
  /\ UNCHANGED <<imageVars, dev, recordVars, accounts, isolationVars>>

\* A shell in the image makes it the guest; its default user is read before the
\* chroot.  An empty file leaves the initial "root".
Probe(s) ==
  /\ at[s] = "probe"
  /\ IF Mounted /\ HasShell
       THEN /\ Goto(s, "isolate")
            /\ user' = [user EXCEPT ![s] = CASE userfile = "absent" -> "none"
                                             [] userfile = "empty"  -> "root"
                                             [] OTHER               -> userfile]
       ELSE Goto(s, "host") /\ UNCHANGED user
  /\ UNCHANGED <<imageVars, dev, recordVars, accounts, isolationVars>>

IsolateUnshareOnly(s) ==  \* mutant: the copy of the host's mounts stays shared
  /\ at[s] = "isolate"
  /\ \/ Goto(s, "bindShared") /\ UNCHANGED warned
     \/ Goto(s, "bindHost") /\ warned' = TRUE
  /\ UNCHANGED <<imageVars, dev, user, hostBinds, recordVars, accounts>>

\* A mount namespace of its own: a copy of the host's, which then stops sharing
\* mounts with it.  A failure is printed, and the session goes on.
Isolate(s) ==
  /\ at[s] = "isolate"
  /\ \/ Goto(s, "bindOwn") /\ UNCHANGED warned
     \/ (Goto(s, "bindShared") \/ Goto(s, "bindHost")) /\ warned' = TRUE
  /\ UNCHANGED <<imageVars, dev, user, hostBinds, recordVars, accounts>>

\* proc, sys, dev and dev/pts, of which any may fail, and then chroot: without it,
\* the host's shell.  Whether the host sees what a copy that shares mounts is
\* up to the device.
EnterGuest(s) ==
  /\ at[s] \in Binding
  /\ hostBinds' \in {hostBinds} \cup (IF at[s] = "bindOwn" THEN {} ELSE {TRUE})
  /\ Goto(s, "login") \/ Goto(s, "host")
  /\ UNCHANGED <<imageVars, dev, user, warned, recordVars, accounts>>

\* Registration, su, or root's shell; exec may find none, su no such user.
Login(s) ==
  /\ at[s] = "login"
  /\ \/ /\ \/ user[s] = "none" /\ Goto(s, "name")
           \/ user[s] = "root" /\ Goto(s, "guest")
           \/ user[s] \in Users /\ accounts[user[s]] # "none" /\ Goto(s, "guest")
        /\ UNCHANGED <<dev, user>>
     \/ Over(s)
  /\ UNCHANGED <<imageVars, hostBinds, warned, recordVars, accounts>>

-----------------------------------------------------------------------------
(* The registration script of the first session. *)

\* A name that is taken is asked for again.
EnterName(s) ==
  /\ at[s] = "name"
  /\ \E u \in Users : accounts[u] = "none" /\ user' = [user EXCEPT ![s] = u]
  /\ Goto(s, "add")
  /\ UNCHANGED <<imageVars, dev, recordVars, accounts, isolationVars>>

AddUserAnyway(s) ==  \* mutant: the result of useradd is not looked at
  /\ at[s] = "add"
  /\ \/ accounts' = [accounts EXCEPT ![user[s]] = IF @ = "none" THEN "made" ELSE @]
     \/ UNCHANGED accounts
  /\ Goto(s, "password")
  /\ UNCHANGED <<imageVars, dev, user, recordVars, isolationVars>>

\* useradd -m may fail before it makes the account or after, at the home directory:
\* another name is asked for.
AddUser(s) ==
  /\ at[s] = "add"
  /\ \/ /\ accounts[user[s]] = "none"
        /\ accounts' = [accounts EXCEPT ![user[s]] = "made"]
        /\ Goto(s, "password") \/ Goto(s, "name")
     \/ Goto(s, "name") /\ UNCHANGED accounts
  /\ UNCHANGED <<imageVars, dev, user, recordVars, isolationVars>>

SetPasswordOnce(s) ==  \* mutant: the loop is left whatever chpasswd says
  /\ at[s] = "password"
  /\ \/ accounts' = [accounts EXCEPT ![user[s]] = "ready"]
     \/ UNCHANGED accounts
  /\ Goto(s, "record")
  /\ UNCHANGED <<imageVars, dev, user, recordVars, isolationVars>>

\* Two equal passwords that chpasswd takes; they are asked for until then.
SetPassword(s) ==
  /\ at[s] = "password"
  /\ accounts' = [accounts EXCEPT ![user[s]] = "ready"] /\ Goto(s, "record")
  /\ UNCHANGED <<imageVars, dev, user, recordVars, isolationVars>>

\* `echo > file' empties the file and then writes it.
Record(s) ==
  /\ at[s] = "record" /\ userfile' = "empty" /\ Goto(s, "write")
  /\ UNCHANGED <<imageVars, dev, user, torn, accounts, isolationVars>>

Write(s) ==
  /\ at[s] = "write" /\ userfile' = user[s] /\ torn' = FALSE /\ Goto(s, "login")
  /\ UNCHANGED <<imageVars, dev, user, accounts, isolationVars>>

-----------------------------------------------------------------------------
\* The client leaves or the shell exits: all of the session's processes end.
Leave(s) ==
  /\ at[s] # "idle" /\ Over(s) /\ torn' = (torn \/ at[s] = "write")
  /\ UNCHANGED <<imageVars, hostBinds, warned, userfile, accounts>>

Reboot ==
  /\ RebootImage
  /\ at' = [s \in Sessions |-> "idle"] /\ dev' = [s \in Sessions |-> 0]
  /\ user' = [s \in Sessions |-> "none"]
  /\ hostBinds' = FALSE /\ warned' = FALSE
  /\ torn' = (torn \/ \E s \in Sessions : at[s] = "write")
  /\ UNCHANGED <<userfile, accounts>>

EntrySteps(s) ==
  \/ CheckDevices(s) \/ Mount(s) \/ TryLoop(s) \/ Probe(s)
  \/ Isolate(s) \/ EnterGuest(s) \/ Login(s)

Registration(s) ==
  EnterName(s) \/ AddUser(s) \/ SetPassword(s) \/ Record(s) \/ Write(s)

Next ==
  \/ \E s \in Sessions : Connect(s) \/ EntrySteps(s) \/ Registration(s) \/ Leave(s)
  \/ ScriptNext(\E s \in Sessions : Mounting(s)) /\ UNCHANGED entryVars
  \/ Reboot

Spec == Init /\ [][Next]_vars
-----------------------------------------------------------------------------
(* Properties. *)

\* Whoever is the default user can log in: the account was made and has a
\* password before its name is recorded, wherever a registration is cut off and
\* however many run at once (main.cpp:416-438).
DefaultUserIsReady == userfile \in Users => accounts[userfile] = "ready"

\* The pseudo file systems of a session stay its own: the host has none of them in
\* the image unless a warning said so, of this session or of another, whatever
\* order they come and go in (main.cpp:328-365).
HostStaysClean == hostBinds => warned

\* Two registrations at once never share an account: each sets the password of
\* the one it made (main.cpp:412-430).
OneRegistrar ==
  \A s, t \in Sessions :
    {at[s], at[t]} \subseteq {"password", "record", "write"} /\ user[s] = user[t]
      => s = t

\* A session is root's without having asked for a user only while a record is being
\* written, or after one that was cut off there and that no other has made good:
\* neither a guest without a user nor one that is registered any number of times
\* gives a session the initial "root" (main.cpp:269, 311-319, 438).
RootOnlyIfTorn ==
  [][\A s \in Sessions : user[s] # "root" /\ user'[s] = "root"
       => torn \/ \E t \in Sessions : at[t] = "write"]_vars
=============================================================================
