----------------------------- MODULE KhBiosEntry -----------------------------
(***************************************************************************)
(* The BIOS from power-on (oh_bios/uboot_bios/core/kh_bios.c): its hotkey   *)
(* window, byte by byte (BiosHotkey), decides between the setup menu and    *)
(* the boot (KhBios).  Keys are followed through the first window; those    *)
(* after a reset are KhBios's own, with any outcome.                        *)
(***************************************************************************)
EXTENDS KhBios

CONSTANTS Delay, UartKeys, UsbKeys, MaxPresses

VARIABLES at, sec, uart, usb, wire, match, enter, pressed,
          counting \* the first window is open

Window == INSTANCE BiosHotkey

ASSUME WindowAssumption ==
  /\ Delay \in Nat /\ MaxPresses \in Nat
  /\ UartKeys \cup UsbKeys \subseteq DOMAIN Window!Bytes

windowVars == <<at, sec, uart, usb, wire, match, enter, pressed>>
all == <<vars, windowVars, counting>>

EntryInit == Init /\ Window!Init /\ counting = TRUE

\* The window is over: what it holds is of no more use (kh_bios_flush_input).
Forget ==
  /\ counting' = FALSE
  /\ at' = at /\ sec' = Delay /\ uart' = <<>> /\ usb' = <<>> /\ wire' = <<>>
  /\ match' = 0 /\ enter' = FALSE /\ pressed' = [p \in Window!Ports |-> <<>>]

\* kh_bios_boot_check
BootCheck ==
  /\ counting /\ Window!Over /\ Forget
  /\ IF at = "entered" THEN Hotkey ELSE WindowEnds

EntryNext ==
  \/ counting /\ Window!Next /\ UNCHANGED <<vars, counting>>
  \/ BootCheck
  \/ ~counting /\ Next /\ UNCHANGED <<windowVars, counting>>

\* The loop runs and time passes: the timer ends each second at last.
EntrySpec ==
  /\ EntryInit /\ [][EntryNext]_all
  /\ WF_all(EntryNext /\ Window!Reads)
  /\ WF_all(EntryNext /\ Window!Tick)
  /\ SF_all(EntryNext /\ Window!Tick /\ (sec' # sec \/ at' = "expired"))
-----------------------------------------------------------------------------
(* Properties. *)

\* A user who presses nothing but B, on either keyboard or on both, is never
\* turned away, and no B that was read is lost: the window ends without the
\* menu only if none of them was read (kh_bios_hotkey.c:214-237, 346-347).
BEnters == counting => Window!BEnters

\* Only an F10, a B or a Down (whose last byte is a B) opens the menu: the bytes
\* of other keys never add up to the sequence of F10, although two readers that
\* take some of them unfed, on two ports, share f10_match, and the boot goes on
\* whatever else was pressed (kh_bios.c:40, kh_bios_hotkey.c:142-154).
NoFalseHotkey ==
  [][phase' = "menu" /\ counting
       => Window!AllPressed \cap {"F10", "B", "Down"} # {}]_all

\* The window closes and the board goes on, with whatever was pressed
\* (doc/08-U-Boot-BIOS.md:19, 33).
WindowCloses == Window!WindowCloses
=============================================================================
