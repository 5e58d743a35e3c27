---------------------------- MODULE MCGuestEntry ----------------------------
(***************************************************************************)
(* GuestEntry for TLC: sessions are interchangeable, and so are names.  The *)
(* limits of GuestCgroups share no state with the way into the guest: a     *)
(* behaviour has one of the two.                                            *)
(***************************************************************************)
EXTENDS GuestEntry, GuestCgroups, TLC

VARIABLE part  \* "entry" or "limits"

MCInit == part \in {"entry", "limits"} /\ Init /\ CgroupsInit

MCNext ==
  /\ UNCHANGED part
  /\ \/ part = "entry" /\ Next /\ UNCHANGED cgroupVars
     \/ part = "limits" /\ CgroupsNext /\ UNCHANGED vars

MCSpec == MCInit /\ [][MCNext]_<<vars, cgroupVars, part>>

Symmetry == Permutations(Sessions) \cup Permutations(Users) \cup Permutations(Relays)
=============================================================================
