----------------------------- MODULE BiosHotkey -----------------------------
(***************************************************************************)
(* The BIOS's hotkey window (oh_bios/uboot_bios/core/kh_bios_hotkey.c):     *)
(* kh_bios_wait_f10 reads the UART and the USB keyboard by turns, byte by   *)
(* byte, with two readers (the drain for F10 and B, then kh_bios_poll_key), *)
(* while bytes arrive at any moment.  The UART brings the bytes of a key    *)
(* one at a time, the USB driver all of them at once.                       *)
(***************************************************************************)
EXTENDS Naturals, Sequences

CONSTANTS Delay,     \* seconds of the window
          UartKeys,  \* keys that may be pressed on the serial terminal
          UsbKeys,   \* keys that may be pressed on the USB keyboard
          MaxPresses \* bound on the keys pressed on each

Bytes == [F10 |-> <<"ESC", "[", "2", "1", "~">>, B |-> <<"B">>,
          Down |-> <<"ESC", "[", "B">>, Enter |-> <<"CR">>, Esc |-> <<"ESC">>,
          F8 |-> <<"ESC", "[", "1", "9", "~">>, F9 |-> <<"ESC", "[", "2", "0", "~">>]

VARIABLES
  at,      \* where kh_bios_wait_f10 is, at the end its outcome
  sec,     \* seconds left to count
  uart, usb,\* bytes the UART and the USB keyboard driver hold
  wire,    \* bytes of the key on its way over the serial line
  match,   \* f10_match, shared by all the readers
  enter,   \* the drain's local flag
  pressed  \* history: pressed[p]: the keys pressed on port p

vars == <<at, sec, uart, usb, wire, match, enter, pressed>>

Ports == {"uart", "usb"}

Init ==
  /\ at = "uart" /\ sec = Delay
  /\ uart = <<>> /\ usb = <<>> /\ wire = <<>>
  /\ match = 0 /\ enter = FALSE
  /\ pressed = [p \in Ports |-> <<>>]

Over == at \in {"entered", "cancelled", "expired"}

-----------------------------------------------------------------------------
(* The user and the two ports. *)

PressUart == \E k \in UartKeys :
  /\ ~Over /\ wire = <<>> /\ Len(pressed["uart"]) < MaxPresses
  /\ wire' = Bytes[k]
  /\ pressed' = [pressed EXCEPT !["uart"] = Append(@, k)]
  /\ UNCHANGED <<at, sec, uart, usb, match, enter>>

Transmit ==
  /\ ~Over /\ wire # <<>>
  /\ uart' = Append(uart, Head(wire)) /\ wire' = Tail(wire)
  /\ UNCHANGED <<at, sec, usb, match, enter, pressed>>

PressUsb == \E k \in UsbKeys :
  /\ ~Over /\ Len(pressed["usb"]) < MaxPresses
  /\ usb' = usb \o Bytes[k]
  /\ pressed' = [pressed EXCEPT !["usb"] = Append(@, k)]
  /\ UNCHANGED <<at, sec, uart, wire, match, enter>>

-----------------------------------------------------------------------------
(* esc_state_feed *)

F10Sequence == Bytes["F10"]
Completes(c) == c = F10Sequence[match + 1] /\ match + 1 = Len(F10Sequence)

FeedWithoutReset(c) ==  \* mutant: a byte that does not fit is passed over
  match' = IF Completes(c) THEN 0
           ELSE IF c = F10Sequence[match + 1] THEN match + 1 ELSE match

Feed(c) == match' = IF Completes(c) THEN 0
                    ELSE IF c = F10Sequence[match + 1] THEN match + 1
                    ELSE IF c = F10Sequence[1] THEN 1 ELSE 0

-----------------------------------------------------------------------------
(* bios_drain_enter_keys: all of the UART, then all of the USB keyboard. *)

DrainUart ==
  /\ at = "uart"
  /\ IF uart # <<>>
       THEN /\ Feed(Head(uart))
            /\ enter' = (enter \/ Head(uart) = "B" \/ Completes(Head(uart)))
            /\ uart' = Tail(uart) /\ UNCHANGED at
       ELSE at' = "usb" /\ UNCHANGED <<uart, match, enter>>
  /\ UNCHANGED <<sec, usb, wire, pressed>>

DrainUsb ==
  /\ at = "usb"
  /\ IF usb # <<>>
       THEN /\ Feed(Head(usb))
            /\ enter' = (enter \/ Head(usb) = "B" \/ Completes(Head(usb)))
            /\ usb' = Tail(usb) /\ UNCHANGED at
       ELSE /\ at' = IF enter THEN "entered" ELSE "poll"
            /\ UNCHANGED <<usb, match, enter>>
  /\ UNCHANGED <<sec, uart, wire, pressed>>

-----------------------------------------------------------------------------
(* kh_bios_poll_key: one key, of the USB keyboard first. *)

NextByte == IF usb # <<>> THEN Head(usb) ELSE Head(uart)
TakeByte == IF usb # <<>> THEN usb' = Tail(usb) /\ UNCHANGED uart
                          ELSE uart' = Tail(uart) /\ UNCHANGED usb
NoByte == usb = <<>> /\ uart = <<>>

PollForgettingB ==  \* mutant: B is known to the drain only
  /\ at = "poll"
  /\ IF NoByte
       THEN at' = "tick" /\ UNCHANGED <<uart, usb, match>>
       ELSE /\ TakeByte /\ Feed(NextByte)
            /\ at' = CASE Completes(NextByte) -> "entered"
                       [] NextByte = "ESC"    -> "escape"
                       [] NextByte = "CR"     -> "cancelled"
                       [] OTHER               -> "tick"
  /\ UNCHANGED <<sec, wire, enter, pressed>>

Poll ==
  /\ at = "poll"
  /\ IF NoByte
       THEN at' = "tick" /\ UNCHANGED <<uart, usb, match>>
       ELSE /\ TakeByte /\ Feed(NextByte)
            /\ at' = CASE Completes(NextByte) \/ NextByte = "B" -> "entered"
                       [] NextByte = "ESC" -> "escape"
                       [] NextByte = "CR"  -> "cancelled"   \* KH_KEY_ENTER
                       [] OTHER            -> "tick"
  /\ UNCHANGED <<sec, wire, enter, pressed>>

\* After an ESC: nothing more yet, or a byte that is not "[", is KH_KEY_ESC.
\* These bytes do not go through esc_state_feed.
PollEscape ==
  /\ at = "escape"
  /\ IF NoByte
       THEN at' = "cancelled" /\ UNCHANGED <<uart, usb>>
       ELSE /\ TakeByte
            /\ at' = IF NextByte = "[" THEN "bracket" ELSE "cancelled"
  /\ UNCHANGED <<sec, wire, match, enter, pressed>>

PollBracket ==
  /\ at = "bracket"
  /\ IF NoByte
       THEN at' = "cancelled" /\ UNCHANGED <<uart, usb>>
       ELSE /\ TakeByte
            /\ at' = IF NextByte = "B" THEN "tick" ELSE "cancelled"
  /\ UNCHANGED <<sec, wire, match, enter, pressed>>

\* The millisecond's delay: the second goes on, or is over, or was the last.
TickStuck ==  \* mutant: sec-- is forgotten
  /\ at = "tick" /\ at' = "uart" /\ enter' = FALSE
  /\ UNCHANGED <<sec, uart, usb, wire, match, pressed>>

Tick ==
  /\ at = "tick"
  /\ \/ at' = "uart" /\ UNCHANGED sec
     \/ sec > 0 /\ sec' = sec - 1 /\ at' = "uart"
     \/ sec = 0 /\ at' = "expired" /\ UNCHANGED sec
  /\ UNCHANGED <<uart, usb, wire, match, enter, pressed>>

-----------------------------------------------------------------------------
Reads == DrainUart \/ DrainUsb \/ Poll \/ PollEscape \/ PollBracket

Next == PressUart \/ Transmit \/ PressUsb \/ Reads \/ Tick

Spec == Init /\ [][Next]_vars

-----------------------------------------------------------------------------
(* Properties. *)

Pressed(p) == {pressed[p][i] : i \in DOMAIN pressed[p]}
AllPressed == Pressed("uart") \cup Pressed("usb")

\* A window that ends without the menu, though nothing but B was pressed, has
\* expired before any of them was read (kh_bios_hotkey.c:214-237, 346-347).
BEnters ==
  AllPressed \subseteq {"B"} /\ at \in {"cancelled", "expired"} =>
    /\ at = "expired"
    /\ Len(usb) = Len(pressed["usb"])
    /\ Len(uart) + Len(wire) = Len(pressed["uart"])

\* The window closes, with whatever was pressed (doc/08-U-Boot-BIOS.md:19, 33).
WindowCloses == <>Over

\* "USB keyboard F10: enters the BIOS" (README.md:310): it never boots instead.
F10Enters == AllPressed = {"F10"} => at # "cancelled"
=============================================================================
