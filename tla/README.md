# KHSL: models, checks and proofs

This directory holds the TLA+ development of KHSL, the Linux guest of KaihongOS
(`khsl/`), its terminal app (`kh_terminal/`), the setup utility of the board's
U-Boot (`oh_bios/`) and the file manager (`filemanager/`).  Every definition is
translated from the source; `PROJECT.json` names the lines.

## 1. The system

```
 terminal page (web view)      terminal-app.js: tabs, one xterm each
        | bridge               Index.ets: startSession, writePty, stopPty, output
 native module (C++)           napi_init.cpp: sessions, read threads, descriptors
        | pty / abstract unix socket \0kh_term_socket
 kh_term_daemon (C++)          main.cpp: one process per connection, relay, guest entry
        | pty
 bash in the Ubuntu guest      (chroot in its own PID and mount namespaces; jobs.c)

 khsl (C)                      main.c: the same socket from any shell
 U-Boot BIOS (C)               hotkey window -> setup menu -> environment, BCB, reset
 file manager (ArkTS)          navigation history, asynchronous listings
```

| Component | State | Operations | Hard behaviour |
|---|---|---|---|
| Terminal session relay (`kh_term_daemon/main.cpp:168-261`, `khsl/main.c:614-668`) | socket and pty queues, relay buffer, loop flag, `errno`, window size | send and read the window size, fork, poll, read, write, end of file, kill and reap | two ends and the relay interleave; non-blocking partial writes; POLLHUP; SIGPIPE; stale `errno` |
| Native PTY sessions (`napi_init.cpp`) | session map, `running`, `master_fd`, thread, thread-safe function and its queue | startPty, writePty, stopPty (one or all), read thread, callback | unlocked `master_fd`; descriptors closed and reused; join on the UI thread; bounded queue |
| Terminal tabs (`terminal-app.js`, `Index.ets`) | array of tabs, tab strip, active tab, session of each tab, output on its way | new tab, settings tab, click, cycle, close, output, leaving the page | output arriving while tabs open, move and close |
| Terminal preferences (`terminal-app.js:961-1303, 1609-1799, 2873-3709`, `Index.ets:37-79`) | the preferences, the form's snapshot, two stores and one file, the options of every terminal | load, edit, wheel, save, discard, reset, flush, relaunch | two stores that can miss a save; values written in one place and normalised in another; terminals that are hidden when they are changed |
| Hotkey window (`kh_bios_hotkey.c`) | `f10_match`, seconds left, bytes of two ports | drain, poll one key, tick | two readers with different rules over bytes that arrive at any moment |
| BIOS menu and boot choice (`kh_bios*.c`) | page and selection, `bios_ctx`, environment in RAM and on disk, BCB | move, edit, save, discard, fastboot/rockusb, CLI, boot, reset | power cuts and failed writes between save, BCB and reset; one static context for several menus |
| khsl command line (`khsl/main.c`) | options, user, terminal mode, keys on their way | parse, drop privileges, run, fall back | raw mode left behind; SIGPIPE |
| Guest entry (`kh_term_daemon/main.cpp:45-71, 262-465`) | host mount table, loop devices, default user, cgroups | limit, mount, unshare, chroot, first-user registration, exec | connections race for the mount, the first user and the control groups; every step may fail and go on |
| GNU bash, the jobs of the interactive shell (`bash-5.2/jobs.c`) | job table, current and previous job, statuses of exited children, signals taken and queued | fork, SIGCHLD, wait, fg, bg, disown, jobs, the prompt | SIGCHLD at any point where it is not blocked; indices into a table that shrinks; pids used again |
| Guest image script (`khsl_init_ubuntu.sh`) | image file, its format, mount, root file system | create, format, mount, extract | a crash between steps and the rerun |
| File manager (`filemanager/.../Index.ets`) | history and index, path, listing | navigate, back, forward, up, address bar, list | a listing that returns after the next navigation |

Interactions: the page calls the native module through the bridge and hears
output through callbacks on the same JS thread; the native module and `khsl` speak
to `kh_term_daemon` over the socket with no framing, only the first eight bytes
are the window size; the daemon's processes share the host's mount table; the
BIOS shares the environment with the U-Boot command line and the bootloader
message with the recovery system.

What makes each component correct:

* relay: keys and output keep their order, are never repeated, and are lost only
  to a full queue or a shell that is gone; the relay never waits for a peer; a session ends with its
  client and with its shell;
* native sessions: a read thread never uses another session's descriptor or
  outlives its session; a stopped session leaves no child, descriptor or output;
  the UI thread comes back;
* preferences: what was saved comes back, and every terminal looks as they say;
* tabs: one tab in front, a strip that agrees with the tabs, one tab per session,
  each tab its own output, a terminal and a pty that fit the pane in front;
* hotkey window: the documented keys enter, no other key does, the window closes;
* menu: edits stay in the menu until they are saved, and are saved whole; each
  choice of a recovery leads to one recovery;
* khsl: the command that was asked for runs, and the terminal comes back as it was;
* shell: `+` and `-` are jobs of the table, `wait` tells the status of the last child
  that had a pid, whatever is reaped, forgotten and used again in between;
* guest entry: one mount of the image, a default user who can log in, registrations
  that do not mix, a host that stays clean, sessions under their limits; image script: a run that says it is done has made a whole guest,
  also after one that was stopped; file manager: path, history and listing agree.

## 2. Modules

| Module | Models | Uses |
|---|---|---|
| `TerminalPipe` | what a session promises: two pipes that give bytes up only beyond a full queue, or to a program that is gone | |
| `KhTermSession` | client, connection process and shell, byte by byte | implements `TerminalPipe` |
| `KhslClient` | the `khsl` command, and its session as such a client | extends `KhTermSession` and implements it |
| `PtyService` | what the page relies on of the native module | |
| `PtySessions` | sessions, read threads, JS thread, descriptors | implements `PtyService` |
| `TerminalTabs` | the page's tabs over the service | extends `PtyService` |
| `TerminalPrefs` | the page's preferences, their form and stores | |
| `TerminalApp` | the page as a whole | composes `TerminalTabs` and `TerminalPrefs` |
| `TerminalGeometry` | sizes of panes, terminals and ptys | extends `TerminalApp` |
| `KhBios` | setup menu, environment, BCB, resets, power cuts | |
| `BiosHotkey` | hotkey window over two ports | |
| `KhBiosEntry` | the board from power-on | composes `BiosHotkey` and `KhBios` |
| `GuestImage` | the image, its script, loop devices and mounts | |
| `GuestEntry` | sessions on their way into the guest | extends `GuestImage` |
| `GuestCgroups` | the two control groups of the sessions | |
| `BashJobs` | the shell's job table | uses `StatusMemory` |
| `StatusMemory` | what the shell promises to remember of exited children | |
| `BashStatuses` | the ring and hash chains it remembers them in | implements `StatusMemory` |
| `BrowserHistory` | what Back, Forward and a visit promise | |
| `FileNavigation` | the file manager's window | implements `BrowserHistory` |
| `TerminalPipe_proofs`, `PtySessions_proofs`, `GuestEntry_proofs` (with the image and the control groups), `FileNavigation_proofs` | theorems (section 5) | extend the module they are about |
| `KhTermSession_proofs` | theorems about the session and `khsl` | extends `KhslClient` |
| `TerminalApp_proofs` | theorems about tabs, look, preferences and sizes | extends `TerminalGeometry` |
| `BashJobs_proofs` | theorems about the jobs and the ring of statuses | extends `BashJobs` and `BashStatuses` |
| `KhBios_proofs` | theorems about the hotkey window, the menu and the board | extends `KhBiosEntry` |
| `MCKhslClient`, `MCTerminalApp`, `MCGuestEntry`, `MCShell` | instances for TLC: constraints, symmetry, and parts that share no state side by side | |

How they correspond to the code:

* **`KhTermSession`**.  `conn` is the program counter of the connection process:
  `winsize` (`main.cpp:170`), `fork` (`:183`), then the relay loop's `poll`,
  `readClient`, `writePty`, `readPty`, `writeClient`; `done` after the clean-up,
  `sigpipe` when the write to a closed client kills the process.  Keys are
  numbered in the order typed, so that order and repetition are visible; the
  window size's bytes are all 0.  Reads take what is there up to `BufSize`,
  writes keep what fits.  `eagain` is the one fact about `errno` the loop uses; once the
  shell is gone a write to the master fails with EIO.  Seen as
  `TerminalPipe`'s, the keys on their way are the pty's queue, the buffer and what is in
  the socket behind the window size (`Front`), and `program` says whether anything is left
  that reads them.
* **`KhslClient`**.  `args` is a sequence of words, one for each way the parser treats
  one; `at` walks from `parse_args` through the change of user to the command, the
  daemon's session, or the host's shell.  In a session it replaces `KhTermSession`'s
  client: raw mode, `poll`, reads, and writes of one byte at a time.  `stdin` is a terminal, a
  pipe or a file: a closed pipe gives POLLHUP without POLLIN, which `khsl` does not test
  (`main.c:654`), a file that has ended is readable.  The socket and the connection process are `KhTermSession`'s.  A key
  that is written after the daemon's end was closed raises SIGPIPE, which ends `khsl`
  before the terminal's mode is restored (`late` says that there was such a key).
* **`PtySessions`**.  `js` is the JS thread: idle, in a blocking `write()`, at
  one of the steps of `startPty` (fork or connect, thread-safe function, and after a
  failure kill and reap, close) or of `destroy_session_locked` (kill and reap, close,
  join and release).  A read thread is at the test of `running`, the load of `master_fd`,
  the entry of `read()` or in it.  `owner` is the process's descriptor table: a
  closed number can be taken again by a file elsewhere in the process
  (`OtherOpens`); `read()` holds the file it entered, not the number.  For the page a
  session's number is handed out when `startPty` returns (`Starting`).
* **`TerminalTabs`** keeps the array `tabs`, the DOM's `strip`, `active`, the
  `outbox` of output posted to the page and not yet run, and `screen`, what each
  terminal was given.  `createTab` is called synchronously by `startPty`'s return,
  so that starting a session and its tab are one step.  A new launch starts again
  from nothing.
* **`TerminalPrefs`** keeps of the 60 preferences one of each way they are handled.
  `local` is the page's `localStorage`, which `Index.ets` does not switch on (`dom`);
  `native` and `disk` are the app's store in memory and in its file, `reach` says that
  the process could open it.  A save writes both stores, and the file follows when the
  flush ends, if it does.  `__wtLoadPrefs` takes the app's store first.
* **`TerminalApp`** adds `look`, the options of every terminal.  Its steps conjoin a step
  of the tabs and one of the preferences: a new tab goes where the preferences say, the
  form lives as long as the settings tab, and the handlers that call
  `applyPrefsToRuntime` set the look of every shell.  What the form displays and the
  profile of a new tab are left out.
* **`TerminalGeometry`** adds the size of the window and, for each tab, the grid its
  terminal was fitted to and the one its pty was told.  A grid stands for a pane's size
  and a font.  `layoutTermForTab` returns early for a tab that is not in front, whose
  pane has no size; `switchTab`, `createTab` and the debounced resize leave timers
  that lay out whatever is in front when they fire; a change of the font lays out at
  once, of the tabs it finds.
* **`KhBios`**.  `shown`/`dirty` are `bios_ctx`, `env` the environment in RAM,
  `stored` the one on the disk.  `Save` and `ExitSaved` are two steps because the
  power may fail between them; the five pages share `Up`, `Down`, `Back`.  The
  menu's tables are filtered by the board's `Features` as the code filters them.
  The command line's own `setenv`/`saveenv` is not modelled: the properties speak
  of the menu's writes.
* **`KhBiosEntry`** runs the window of `BiosHotkey` at the first power-on and hands its
  outcome to `KhBios`; windows after a reset are `KhBios`'s own, with either outcome.
* **`BiosHotkey`**.  Each step takes one byte.  The drain reads all of the UART,
  then all of the USB keyboard; `kh_bios_poll_key` takes a key, USB first, and
  gives up an escape sequence as soon as a byte is missing.
* **`GuestImage`** and **`GuestEntry`**.  The script's and each session's `at` are
  program counters over the commands; the check of the mount and the mount are two
  steps, so that others come between.  `content` counts how far the archive was
  unpacked, in the order of its names (`etc/` before `usr/bin/bash`).  One turn of
  the daemon's shell loop over ten devices is one step.  A session's local variables
  are reset when it ends, as is the script's `force`.  `raced`, `cutOff` and `torn` (a record of the default user was cut off, and none written
  since) are history variables for the properties.  `useradd`, `losetup` and `mount` may
  fail before or after they have changed something.  All processes share the host's mounts: the
  image is mounted before a session leaves them.  `Isolate` is `unshare` and the
  `mount` that makes the copy private, each of which may fail with a warning, so that
  `EnterGuest` binds in its own copy, in a shared one or on the host; `hostBinds` says
  that the host saw it.
* **`GuestCgroups`**.  `pc` walks through `apply_cgroups`, a write to a file at a time.
  A cpuset takes no process before its cpus and mems are set: of the failed writes,
  which the code prints and passes over, those that come of the other processes' steps
  are modelled.  The groups live as long as the device runs.
* **`BashJobs`**.  A process is a pid and what the table says of it; the status of a
  process is the number of its job.  `shell` is where the main program is, `reaping`
  the state of `waitchld`, called from the signal handler or by `wait_for` with SIGCHLD
  blocked; between a fork and the end of `stop_pipeline`, in `wait_for` and in the
  prompt's notification the handler waits or only counts, as in the code.  A pid is
  free again once it is reaped.  One call of `waitpid` is one step.  `wait -n` is three
  steps, because SIGCHLD is unblocked between them.
* **`BashStatuses`**.  Cells with the links of the hash chains as in `bgpids.storage`,
  with the constant `Hash` for `pshash_getbucket`; a search follows the chain, and the refinement
  reads the ring from its head on, the oldest cell first.
* **`FileNavigation`**.  A place is a node of the tree, a name of the start page or a
  path; `LoadFiles` is `loadFilesFromPath` up to its `await`, `ListingArrives` the
  rest, and `loads` counts the calls in between.  The path, its text in the address
  bar and the record in the history are one value.

Abstractions common to all: the contents of a message are its number; logging,
drawing and wording are left out; a call that may fail is a choice.

## 3. Runs

| Run | Question | Bounds | States |
|---|---|---|---|
| `session` (`MCKhslClient`) | does the relay keep order in every interleaving, does it always drain, does a leaving client end its shell? does `khsl` run what it was asked, is it such a client, does the terminal come back? | 4 keys, 4 bytes of output, socket 3, pty 1, buffer 2, window size 2 bytes; for `khsl` 3 words, 2 keys, 2 bytes of output | 234 000 |
| `session_exit` | does `exit` leave KHSL? (**no**) | 2 keys, 2 bytes | |
| `session_app` | does a client without a window size keep its keys? (**no**) | 3 keys | |
| `native_sessions` | do threads and descriptors stay with their sessions, is nothing left of a session stopped or given up, does the UI thread come back? | 2 sessions, 2 chunks, queue of 1, 2 descriptors | 713 000 |
| `tabs` (`MCTerminalApp`) | do tabs, strip, sessions, preferences and stores agree, through launches? does the terminal in front fit? | 3 sessions, 4 tabs, 2 chunks; 3 versions of the preferences, 1 menu entry, 3 font sizes; 2 window sizes, 3 timers, 2 tabs | 398 000 |
| `bios_menu` (`KhBiosEntry`) | do B and F10 count, and nothing else, does the window close? do edits stay in the menu, are they saved whole? | 2 keys on each port, 2 seconds; all features, faults anywhere | 303 000 |
| `bios_once` | is a recovery "once" served once? (**no**) | no faults | |
| `hotkey_f10` | does F10 always enter? (**no**) | one F10 on USB | |
| `guest` (`MCGuestEntry`) | one mount, whole guests, default users who can log in, root only by a torn record, a clean host, whatever is cut off? are sessions limited? | 2 sessions, 2 names, 2 loop devices; 3 connection processes for the limits | 1 911 000 |
| `guest_rerun` | does a finished script mean a whole guest? (**no**) | 1 session | |
| `shell` (`MCShell`) | do `+` and `-` stay jobs, does `wait` tell the right status, does the ring remember? do path, history and listing agree? | 2 pids, 2 pipelines of up to 2; ring of 3, 4 pids in 2 buckets, 2 statuses; history of 4, 2 directories, 2 listings of each under way | 1 080 000 |
| `shell_notify` | does the prompt know of every change? (**no**) | 2 pids, 2 pipelines, one signal counted | |

Some runs check several parts side by side: a behaviour of `guest` is one of the way
into the guest or one of the limits, one of `shell` of the jobs, of the ring or of the
file window, one of `session` has any client or `khsl`, and one of `tabs` has output
and preferences or has sizes (`part`, `whose` and `sizes` never change).

Why the bounds suffice.  *Relay*: a buffer of 2, a pty of 1 and a socket of 3
make every write fit, fit partly and not fit; 4 keys overflow all of them
together.  *khsl*: three words are an option, its value and what follows; fewer keys
are struck there, since the queues' own overflow is explored with any client.
*Sessions*: two are needed for one to take the other's descriptor, two
descriptors for a number to be free or taken; a queue of 1 overflows with the
second chunk.  *Tabs*: three sessions and a settings tab give every position of
closed and active tab (first, middle, last) and of the tab that a chunk is for; two
chunks, whose order counts, are of two tabs.  Preferences are
explored with two tabs (two shells, or a shell and the form) and one change at a time,
and output and many tabs with every position of new tabs (`Few` in `MCTerminalApp`):
two stores, the form and the page can hold three different versions, one of them from a
release that wrote other values; the kinds of menu entry are treated alike, so that one
is enough.  *Sizes*: two tabs are one in front and one behind,
three timers let an old one fire after a newer switch; of the preferences only the font
changes (`OnlySize`).  *Hotkey*: a second key is needed to
continue what a first one left in `f10_match`; `Delay = 1` gives a second that is
followed by another and the last.  *Menu*: nothing is bounded, the state is finite.
*Guest*: two sessions and the script race for one mount, two devices let both win;
the second name lets a registration follow another; three connection processes are one
that sets a group up, one that meets it half-made and one that comes after; there is no
other bound, reboots and reruns go on for ever.  *Jobs*: two pids and two pipelines
reuse a pid while the table, or the memory of statuses, still knows the first child,
and let either job be current, previous, first or last to end; a pipeline of two tells
a job from its processes.  `MaxLost = 0` keeps the lost signal of `shell_notify` out of
the run (it was explored with 1 as well, and the properties held).  `Room` equals the
number of jobs, so that the memory of `BashJobs` never overflows: overwriting is the
matter of `BashStatuses`, whose ring of 3 is written round and round, with three pids in
one chain and one in another.  Pids are interchangeable (`Symmetry`), as the code only
compares them.  *Files*: a history of 4 has places on both sides of the
index; two directories and two listings each arrive in every order.
Every bound is a constant in a guard or a constraint named in the cfg.

Deadlock checking is off everywhere because the systems may stop: a client leaves,
a session ends, all tabs are closed, the window is over, or a bound is reached.

### Disagreements with the documents

1. `session_exit`: the relay tests only POLLIN on the pty master; when the shell
   exits Linux raises POLLHUP without it.  The loop spins and the client stays,
   although `KHSL_README.md:91` says that `exit` leaves KHSL.
2. `session_app`: the terminal app's daemon profile sends no window size; the
   daemon takes the first keys for it (`main.cpp:173-178`).
3. `bios_once`: the once flag is cleared in RAM after the environment was saved,
   so that every later Save & Exit asks for a recovery again.
4. `hotkey_f10`: an F10 that arrives between the drain and `kh_bios_poll_key` is
   read as Esc and the board boots (`README.md:310`).
5. `guest_rerun`: a script stopped in `tar` leaves `bin/bash` behind; the rerun skips
   the extraction and prints "Initialization completed!" (`KHSL_README.md:24`).
6. `shell_notify`: a SIGCHLD that arrives while bash notifies of finished jobs before
   the prompt is counted and not taken up again (`jobs.c:4253`); the job keeps its old
   state until another child changes, although the shell "learns immediately whenever a
   job changes state" (`doc/bash.1:5481`).

Seen while modelling and not run: the app's store wins over the page's even when it
missed the last save (closed, `putSync` failed, or killed before the flush), so that an
older version comes back (`SavedComesBack` excepts this case); discarding in a settings
tab that was closed and opened again goes back to the unsaved edits it found
(`terminal-app.js:2908`); nothing calls `kh_bios_boot_system`, so that a
default Recovery does not write the BCB at every boot (`doc/08-U-Boot-BIOS.md:23`);
two sessions that look for the mount together mount the image twice, through two loop
devices; a loop device whose mount fails stays attached (`main.cpp:282`); a registration
cut off between emptying and writing `khsl_default_user` makes every later session
root's until another registration writes it (`RootOnlyIfTorn` says that nothing else does);
an account whose `useradd` failed at the home directory stays, without a password; a session may join the cpuset group before it is set up, and nobody sets it up
once its creator was cut off (`main.cpp:60`); `khsl --cd` and `--user` have no effect on
an interactive session, which the daemon starts; `khsl` with a closed pipe on its standard
input spins on POLLHUP until the session ends (`khsl/main.c:654`); keys that reach the pty
after the shell's exit are lost, whether or not its queue is full (`main.cpp:242`); the corrections of the grid by
`_core.cell` never happen with the vendored xterm.js (`terminal-app.js:2202-2262`); a
listing that is awaited while the user goes on overwrites the newer one.  In bash:
`kill -CONT %job` leaves the current job as it is, so that `+` may run while another job
is stopped (`jobs.c:3714-3722`; the comment at `3474-3480` says otherwise); a job
that stops before it is in the table is stopped and not current; `disown` of a
running job saves the status it has so far, which `wait` then tells
(`builtins/jobs.def:290`); `wait -n` may miss a job that ends between its check and its
wait (`jobs.c:3307-3328`); forgetting a pid leaves a hole in the ring, so that fewer than
CHILD_MAX statuses may be remembered.  The properties of
the passing runs say what holds nevertheless, and under which condition.

## 4. Fairness

* `KhTermSession`: weak fairness of the connection process (a process the kernel
  schedules; all its writes are non-blocking), of the kernel's hang-up, and of the
  client's own loop.  None of the user and of the shell: the drain property holds
  although neither reads.
* `KhslClient`: weak fairness of the steps `khsl` takes by itself (`KhslLoop`), and of
  the connection process; no key need be struck and no input end.
* `PtySessions`: weak fairness of the steps of `startPty` and `stopPty` and of each read
  thread (threads the kernel schedules; `connect()` to the abstract socket returns), and of a `write()` to the daemon, which drains
  its socket (`session`'s `RelayDrains`).  A local program need not read or end:
  `Excused` names the three situations in which the code really waits on one.
* `KhBiosEntry`: weak fairness of the window's steps, and strong fairness of the end
  of a second: `get_timer` advances whatever the loop does, so that a second does
  not go on through infinitely many turns.

## 5. Proofs

Every theorem holds for all values of the constants, the bounds included.

### Terminal session and khsl

`TerminalPipe_proofs`: `PipeKeepsOrder`, that is `PipeSpec => []PipeInOrder`, for every
queue size.  The sequences delivered and in flight, concatenated, increase strictly;
that needs also a bound by the last number made, so that a new byte is above all of
them, which is the inductive invariant.  Lemmas say that appending a larger number,
cutting a part out and moving the head of one sequence to the end of another keep a
sequence increasing.

`KhTermSession_proofs`, the session: `SessionTypeOK`, and for a client that sends its
window size `WinsizeNeverKeys` and `RelayKeepsOrder`, that is `Spec => ImplementsPipe`.
`SessionInv` adds to the types what the buffer holds before each of the two writes (keys,
or output), and that a client which has not sent its window size has sent nothing, so
that the size has room.  `WinsizeInv` adds that the window size is in front of the
socket's queue as long as the connection process has not read, or that the queue of a
client that left is empty.  `PipeInv` adds that nobody reads before the window size was
sent, and that no shell has gone before there was one (`NoShellYet`).  One lemma per step then says which step of `TerminalPipe` it is: a read moves bytes
from one part of the concatenation to the next and is none, a write is none or gives up
what a full queue, or a shell that is gone, did not take (`WriteGivesUp`), the shell's exit
is the program's (`ExitIsLeave`), the end of the session cuts off what is
not in the screen's queue.  They rest on lemmas about sequences: cut and joined again,
joined in either order, appended to and taken from at the ends (`CutAndJoin`, `JoinJoin`,
`AppendOfConcat`, `HeadOfConcat`).  `SendsWinsize` is needed: of another client the first
keys are lost without any backlog (`session_app`).  With `PipeKeepsOrder` this is the
order of keys and output, for all sizes.  Assumption: `SessionAssumption`.

`KhTermSession_proofs`, khsl: `KhslKeepsToSession` (khsl is a client of the session) from
`KhslInv`: khsl says hello once and relays only afterwards, and the keys struck are sent,
in its buffer or in the terminal's queue, in their order.  `KhslSaysItsSize` and
`KhslKeepsOrder` follow from it, with the two invariants above.  `WordsMeanWhatTheySay`
(`RunsWhatWasAsked`), for command lines of any length: `WordsInv` says of the words behind
`pos` that none was refused, that the options are those of the flags among them and that
no command began there; and, once `parse_args` is through, that the command is what
follows the first word that starts one.  What counts as looked at is a recursive function
over the words (`LookedIn`); that it satisfies its equation is `TurnsExist`, by a least
counterexample.  Assumptions: `SessionAssumption`, `KhslAssumption` (no more keys are
struck than the session counts).

### Native sessions and the page

`PtySessions_proofs`: `ThreadsStayOwn` (`ReadersAreOwn`), `NothingIsLeft`
(`StoppedIsGone`) and `SessionsServe` (the module implements `PtyService`).  The first two
are not inductive: that a number loaded from `master_fd` is not another session's yet
depends on who may open a descriptor, and when.  `SessionsInv` adds that `stopPty` works
on one session it took out of the map (`StopsOne`), that `master_fd` and the table of
descriptors agree as long as a session's is open (`OwnDescriptor`), that a number once
loaded is the session's own, or free, or a file's elsewhere (`LoadedIsOwn`): to take it,
another session needs the JS thread, which waits in `join`; that a session being
stopped has lost its child before its descriptor (`GoneIsGone`); that the session being
started has the newest number and is not in the map yet (`StartsNewest`); and which
sessions may have a child that was not waited for (`Unreaped`).  `ServiceInv` adds the
order of a session's output: what was heard, what is queued and what the thread has just
read follow one another, and a thread in `read()` has the file of its own session.
`LeastIsOne` says that the least of some numbers is one of them, from the
well-foundedness of `<`.  Assumption: `SessionsAssumption`.

`TerminalApp_proofs`, for any number of tabs: `OneTabInFront` (`FrontTab`),
`StripFollowsTabs` (`StripMatchesTabs`), `SessionsHaveTabs` (`OneTabPerSession`),
`TabsShowOwnOutput` (`OwnOutput`).  `TabsInv` says that the keys of tabs differ and are
below the next one, that one tab at most is the form, that a live session and its tab
belong to each other, that the output posted for a session is in order and newer than what
its terminal has, that terminals not yet made are blank, and that the strip follows the
array.  A tab is inserted and removed by two operators on sequences that are first shown
to be what the code's loops over the strip do (`InsertShellTabInserts`,
`IndexIsFirst`).  `TerminalsLookAlike` (`LookIsPrefs`) from `AppInv`, which adds
that the preferences stay a record with a position in it; the lemmas say which terminals
there are after a step (`ShellKeysInserted`, `ShellKeysRemoved`) and which steps
apply the preferences to all of them.  `TerminalsFit` (`FitsWhenQuiet`) from `GeometryInv`.

`PrefsReadBack` (`ReadBackAlike`) and `LastSaveComesBack` (`SavedComesBack`), whatever an
older release left in the stores: `PrefsInv` says that the preferences are `Proper` (what
`normalizePrefs` gives), that the stores and the snapshot hold raw preferences or nothing,
and that what was saved is proper and in the page's store where there is one.
`ReadIsProper` shows that whatever is read becomes proper, `ProperReadsBack` that what is
proper is read back as it is.  The loop of `normalizeNewTabMenuItems` over the entries is a
recursive function: that it can be run through (`MenuTurnsExist`), and what it has kept
after each turn, is shown by the least turn where it would fail.  Assumptions:
`FontAssumption`, `MenuAssumption`, `StoreAssumption` (an older release stored preferences
of the same shape, and a lost store is none of them).

### BIOS

`KhBios_proofs`: for every feature mask, with and without faults, `EnvironmentIsStored`,
`MenuShowsStored` and `SavesWhatIsShown`.  The invariant `MenuInv` conjoins the first two:
a menu that is run copies the environment in RAM, which shows what the disk holds only
because nothing but `Save` writes it.  `SelectionStaysOnPage` (`SelectionOnPage`) from
`PageInv`: a filtered table has as many lines as it has visible items, by cardinality, and
always one, since some items need no feature.  `EntryLeadsToMenu`
(`EntrySpec => Spec`): the hotkey window in front of the menu opens it as a window
after a reset does.  `BOpensTheMenu` (`BEnters`) and `OthersNeverOpenIt`
(`NoFalseHotkey`), for any number of keys and every interleaving of the two ports:
`BInv` says that while only B is pressed, bytes and keys agree in number and one that was
read is known to the drain; `NoOpenerInv` says that in the bytes of the other keys a 2 is
followed by a 0 and a 1 by a 9 (`Apart`), and what of it may still be ahead of a match
that has begun (`Follows`).  Assumption: `WindowAssumption`.

### Guest and shell

`GuestEntry_proofs`: for every set of sessions, names and connection processes and any
number of loop devices.  `DefaultUserCanLogIn` (`DefaultUserIsReady`) and
`RegistrationsApart` (`OneRegistrar`) from `RegistrationInv`: past `useradd` a session's
name has an account, past `chpasswd` one with a password, and only one session is past
the `useradd` of a name.  `RootIsATornRecord` (`RootOnlyIfTorn`) from `RecordInv`: the
user file is empty only while a record is being written, or after one was cut off.
`HostClean` (`HostStaysClean`): who is about to bind on the
host has been warned.  `MountedOnce` (`QuietMount`) from `MountInv`: until two raced, one
at most is about to mount, and nothing is mounted then.  `CompletedIsWhole`
(`CleanRunCompletes`) from `ContentInv`: behind its mount the script finds the image
mounted, and content that is neither none nor whole is being unpacked, unless an
extraction was cut off.  `SessionsAreLimited` (`LimitedUnlessRaced`) from `LimitsInv`: a
cpuset group that is there and not whole has somebody setting it up, unless that one was
cut off.  Assumptions: `UsersAssumption` (a name is none of the markers of the user
file), `LoopAssumption`.

`BashJobs_proofs`: for any number of pids, pipelines and uncounted signals,
`CurrentIsInTable` (`CurrentIsAJob`).  `TableInv` adds that the last stopped job
`waitchld` has seen is in the table as long as it runs, which holds because whoever
deletes jobs waits for its end, and that a pipeline being made is not in the table yet.  What a
step does to the table is a composition of a few operators; each keeps a table
`Good` (`SetCurrentGood`, `ResetCurrentGood`, `DeletedGood`) or changes neither its slots
nor its choice (`Alike`).  `CleanedUp` is a recursive function over the slots: that it
satisfies its equation (`TurnsExist`) and that all its values are good (`CleanedUpGood`) is
shown by the least slot where it would not, from the well-foundedness of `<`, in place of
induction.

`StatusIsTheLast` (`WaitTellsTheLast`): `wait` tells the status of the last child that had
the pid, through forks that use a pid again, the handler, `bg`, `fg`, `disown`, `wait` and
the clean-up of dead jobs.  `StatusInv` is what relates the table, the remembered statuses
and the children: the processes of a job are children of one pipeline (`JobOK`), a pid is
in one job at most, or in the pipeline being made, or remembered (`OnePlace`); what is
remembered of a pid is its last child's number, unless it was disowned (`SavedOK`); a
status that is owed is remembered, or will be when its job is deleted (`OwedKept`); and
there is room for the statuses of all pipelines in the table (`RoomLeft`).  Each operation
on the table has a lemma that it keeps `TableOK`, the five together (`WithoutOK`,
`ForgetOK`, `RecycledOK`, `HeardOK`, `AddedOK`; `CleanedUpOK` by a least slot).  The
theorem's hypothesis is `MaxJobs <= Room`: there are no more pipelines than CHILD_MAX,
since bash forgets the oldest status when the ring is full.  Assumption: `JobsAssumption`
(bounds, and that the two numbers that stand for no process are nobody's pid).

`RingIsMemory` (`BashStatuses` implements `StatusMemory`), for every size of the ring and
every hash function: `StatusesInv` says that a chain leads from its bucket through all
cells of its pids, the youngest first, by links in both directions (`Chained`, where
`Youth` orders the cells from the head, the oldest, on), that a pid has one cell at most
(`OncePerPid`), and that `npid` counts no fewer cells than are used.  A search that follows
the chain therefore finds the one cell of its pid, and overwriting the oldest cell unlinks
the last of its chain.  Assumption: `HashAssumption`.

### File manager

`FileNavigation_proofs`: for every set of places, however long the history,
`HereIsInHistory` (`HistoryIsHere`) and `WindowIsBrowser`: the window implements
`BrowserHistory`, where what is behind and ahead are the parts of `pathHistory` on the
two sides of the index.  `NavInv` says that the history is a sequence of places, the
index points into it and to the place shown, and neighbours differ; one lemma each for
a visit, Back and Forward shows that the step keeps it and is the browser's, from four
facts about parts of a sequence.  `ListingIsOfHere` (`QuietListing`): `QuietInv` adds that
of a user who went on only when nothing was awaited, only the place shown can be awaited.
No assumption is used.

### Only model-checked

The liveness properties, which are outside the prover's reach, as ENABLED is:
`RelayDrains`, `LeavingEndsShell`, `EndGivesTerminalBack`, `UiReturns` and `WindowCloses`.
Every invariant, every other action property and every refinement of the passing runs is
a theorem.

## 6. Plan

Order: the terminal path first (relay, native sessions, tabs), since every user of
KHSL depends on it and its concurrency is untested; then the BIOS, where a wrong
step costs a boot; then the way into the guest; then the file manager.  All of these
are built.  What is left:

1. The text path: UTF-8 decoded per chunk, from `read()` to the page.
2. Bash: the terminal's process groups (`give_terminal_to`), which tie `fg` and `^Z` to
   the pty of `KhTermSession`.

## 7. Not modelled

* `khsl_core.cpp`: not compiled.  xterm.js and the copies of the U-Boot
  tree: third-party or duplicates.
* GNU bash besides its jobs: 167 000 lines of a vendored program, the lexer, parser,
  expansion, variables, readline and builtins among them, which no code of KHSL calls
  into and which run in one thread.  The jobs are modelled because KHSL's sessions end,
  and its users wait, by way of SIGCHLD.  Of the jobs, the terminal's process groups,
  traps, coprocesses, process substitutions and saved pipelines are left out.  A stopped
  child is continued from outside (`kill -CONT`) only between two commands.
* Rendering, clipboard and scrolling of the page, what the settings form shows, drawing
  of the BIOS, window buttons of the apps: no state other components depend on.
* `resizePty` (an ioctl and a signal), memory (chunks queued when a session is
  stopped come back with `env == nullptr` and are not freed), the volume key of the
  hotkey window (it enters from any point of the loop), USB start-up.
* The file manager's look-up of drives and its window buttons.  A typed path that reads
  like a node of the tree would be highlighted as one by Back; the model's do not.
* `khsl`'s banner, prompt and environment.  A loss of written data at a
  reboot; `hdc` shells in mount namespaces of their own.
* `kh_bios check` from the command line opens another hotkey window; the model runs
  the menu from the command line directly.

Running: `tlc -config X.cfg M` for the runs in `PROJECT.json`, `tlapm M_proofs.tla` for
the proofs.
