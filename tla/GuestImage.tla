----------------------------- MODULE GuestImage -----------------------------
(***************************************************************************)
(* The image of the Ubuntu guest and what becomes of it: the script         *)
(* khsl/distribution/khsl_init_ubuntu.sh, which may be stopped and run      *)
(* again at any point, and the host's loop devices and mounts, which the    *)
(* sessions of kh_term_daemon share (module GuestEntry).                    *)
(***************************************************************************)
EXTENDS Integers, Sequences

CONSTANT LastLoop  \* /dev/block/loop0 .. LastLoop are tried (9)

ASSUME LoopAssumption == LastLoop \in Nat

Loops == 0 .. LastLoop

VARIABLES
  image,    \* the image file: "absent", "raw" or "ext4"
  content,  \* its files, in the archive's order: "empty", "early" (etc/ and
            \* more), "late" (usr/bin/bash too) or "full"
  attached, \* the loop devices the image is attached to
  stack,    \* those mounted on /data/khsl/rootfs, the top one last
  script,   \* where the script is
  force,    \* its FORCE_EXTRACT
  cutOff,   \* history: the script was stopped in the middle of an extraction
  raced     \* history: two checked the mount before either had mounted

imageVars == <<image, content, attached, stack, script, force, cutOff, raced>>

ScriptSteps == {"image", "format", "check", "mount", "losetup",
                "unpack", "tar", "configure"}
MountingScript == script \in {"mount", "losetup"}

Mounted  == stack # <<>>
HasShell == content \in {"late", "full"}

ImageInit ==
  /\ image = "absent" /\ content = "empty" /\ attached = {} /\ stack = <<>>
  /\ script = "off" /\ force = FALSE /\ cutOff = FALSE /\ raced = FALSE

\* `mount -o loop' takes a device that is free; it fails where there is none.
MountLoop(d) == /\ image = "ext4" /\ d \in Loops \ attached
                /\ attached' = attached \cup {d} /\ stack' = Append(stack, d)

-----------------------------------------------------------------------------
(* The script, with set -e: a command that fails ends it. *)

StartScript ==
  /\ script \notin ScriptSteps
  /\ script' = "image"
  /\ UNCHANGED <<image, content, attached, stack, force, cutOff, raced>>

\* dd, for an image that does not exist.
MakeImage ==
  /\ script = "image"
  /\ IF image = "absent" THEN image' = "raw" /\ script' = "format"
                         ELSE script' = "check" /\ UNCHANGED image
  /\ UNCHANGED <<content, attached, stack, force, cutOff, raced>>

Format ==
  /\ script = "format"
  /\ image' = "ext4" /\ force' = TRUE /\ script' = "check"
  /\ UNCHANGED <<content, attached, stack, cutOff, raced>>

\* `mount | grep', and then a mount of its own.
CheckMount(others) ==
  /\ script = "check"
  /\ script' = IF Mounted THEN "unpack" ELSE "mount"
  /\ raced' = (raced \/ (~Mounted /\ others))
  /\ UNCHANGED <<image, content, attached, stack, force, cutOff>>

MountDirectly ==
  /\ script = "mount"
  /\ \/ script' = "unpack" /\ \E d \in Loops : MountLoop(d)
     \/ script' = "losetup" /\ UNCHANGED <<attached, stack>>
  /\ UNCHANGED <<image, content, force, cutOff, raced>>

\* The first free device of ten; losetup fails if somebody was faster.
LosetupGoingOn ==  \* mutant: without set -e
  /\ script = "losetup"
  /\ \E d \in Loops \ attached :
       /\ \A e \in Loops \ attached : d <= e
       /\ attached' = attached \cup {d}
       /\ \/ image = "ext4" /\ stack' = Append(stack, d)
          \/ UNCHANGED stack
  /\ script' = "unpack"
  /\ UNCHANGED <<image, content, force, cutOff, raced>>

Losetup ==
  /\ script = "losetup"
  /\ \E d \in Loops \ attached :
       /\ \A e \in Loops \ attached : d <= e
       /\ attached' = attached \cup {d}
       /\ \/ image = "ext4" /\ stack' = Append(stack, d) /\ script' = "unpack"
             /\ UNCHANGED force
          \/ script' = "failed" /\ force' = FALSE /\ UNCHANGED stack
  /\ UNCHANGED <<image, content, cutOff, raced>>

Unpack ==
  /\ script = "unpack"
  /\ script' = IF ~force /\ HasShell THEN "configure" ELSE "tar"
  /\ UNCHANGED <<image, content, attached, stack, force, cutOff, raced>>

\* The archive is unpacked in its order, over what is there.
Tar ==
  /\ script = "tar"
  /\ content' = CASE content = "empty" -> "early"
                  [] content = "early" -> "late"
                  [] OTHER             -> "full"
  /\ script' = IF content' = "full" THEN "configure" ELSE "tar"
  /\ UNCHANGED <<image, attached, stack, force, cutOff, raced>>

\* resolv.conf, hosts and the APT sources; "Initialization completed!".
Configure ==
  /\ script = "configure"
  /\ script' = "completed" /\ force' = FALSE
  /\ UNCHANGED <<image, content, attached, stack, cutOff, raced>>

\* A command fails, the script is killed, or its terminal is gone.
StopScript ==
  /\ script \in ScriptSteps
  /\ script' = "failed" /\ force' = FALSE
  /\ cutOff' = (cutOff \/ script = "tar")
  /\ UNCHANGED <<image, content, attached, stack, raced>>

\* The device starts again: mounts and loop devices are gone.
RebootImage ==
  /\ attached' = {} /\ stack' = <<>>
  /\ script' = "off" /\ force' = FALSE
  /\ cutOff' = (cutOff \/ script = "tar") /\ raced' = FALSE
  /\ UNCHANGED <<image, content>>

ScriptNext(others) ==
  \/ StartScript \/ MakeImage \/ Format \/ CheckMount(others) \/ MountDirectly
  \/ Losetup \/ Unpack \/ Tar \/ Configure \/ StopScript
-----------------------------------------------------------------------------
(* Properties. *)

\* Those who look for the mount one after the other mount the image once; the
\* code's check and mount are not atomic (main.cpp:271-287, khsl_init_ubuntu.sh:62-99).
QuietMount == ~raced => Len(stack) <= 1

\* A script that says "Initialization completed!" has mounted the image and put
\* all of the guest into it, unless an earlier one was stopped while unpacking:
\* set -e lets no failed step be passed over (khsl_init_ubuntu.sh:5, 62-108).
CleanRunCompletes ==
  script = "completed" /\ ~cutOff => Mounted /\ content = "full"

\* "Initialization completed!" means that the guest is unpacked
\* (distribution/KHSL_README.md:24).
CompletedIsFull == script = "completed" => content = "full"
=============================================================================
