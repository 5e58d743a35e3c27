------------------------------- MODULE KhBios -------------------------------
(***************************************************************************)
(* The setup menu of the U-Boot BIOS and the boot choices it makes          *)
(* (oh_bios/uboot_bios/core): what the user edits, what the environment in  *)
(* RAM and on the disk holds, the bootloader message (BCB) that makes the   *)
(* next boot a recovery, and the resets and power cuts between them.        *)
(***************************************************************************)
EXTENDS Naturals, Sequences, FiniteSets

CONSTANTS Features, \* the board's feature mask
          Faults    \* whether power is cut and writes to the disk fail

AllFeatures == {"BOOT_MENU", "HW_MENU", "SECURITY", "FASTBOOT", "ROCKUSB"}
ASSUME FeaturesAssumption == Features \subseteq AllFeatures /\ Faults \in BOOLEAN

VARIABLES
  phase,  \* "window", "menu", "saved", "cli", "boot", "os" or "recovery"
  caller, \* who runs the menu: "check" (at power-on) or "command" (the CLI)
  page,   \* the page shown
  sel,    \* its selected line, from 0
  stored, \* the environment on the disk
  env,    \* the environment in RAM
  shown,  \* bios_ctx: the settings as the pages show them
  dirty,  \* bios_ctx.dirty
  bcb,    \* the next boot is a recovery
  served  \* history: the stored "once" has had its recovery

menuVars == <<caller, page, sel>>
vars == <<phase, menuVars, stored, env, shown, dirty, bcb, served>>

Settings == [default : {"normal", "recovery"}, once : BOOLEAN,
             gmac0 : BOOLEAN, gmac1 : BOOLEAN]

Fresh  == [default |-> "normal", once |-> FALSE, gmac0 |-> TRUE, gmac1 |-> TRUE]
Zeroed == [default |-> "normal", once |-> FALSE, gmac0 |-> FALSE, gmac1 |-> FALSE]

Init ==
  /\ phase = "window" /\ caller = "check" /\ page = "main" /\ sel = 0
  /\ stored = Fresh /\ env = Fresh /\ shown = Zeroed /\ dirty = FALSE
  /\ bcb = FALSE /\ served = FALSE

-----------------------------------------------------------------------------
(* The tables of kh_bios_menu.c: an item needs a feature of the board. *)

MainTable ==
  << [feat |-> {}, does |-> "info"],
     [feat |-> {"BOOT_MENU"}, does |-> "boot"],
     [feat |-> {"HW_MENU"}, does |-> "hardware"],
     [feat |-> {"SECURITY"}, does |-> "security"],
     [feat |-> {}, does |-> "advanced"],
     [feat |-> {}, does |-> "save"],
     [feat |-> {}, does |-> "discard"] >>

AdvTable ==
  << [feat |-> {"FASTBOOT"}, does |-> "download"],
     [feat |-> {"ROCKUSB"}, does |-> "download"],
     [feat |-> {}, does |-> "cli"] >>

FeatOk(item) == item.feat \subseteq Features
Visible(table) == {i \in DOMAIN table : FeatOk(table[i])}

\* The item on a line, from 0, has as many visible ones in front of it.
OnLine(table, line, what) == \E i \in Visible(table) :
  table[i].does = what /\ Cardinality({j \in Visible(table) : j < i}) = line

Lines == CASE page = "main"     -> Cardinality(Visible(MainTable))
           [] page = "boot"     -> 3
           [] page = "hardware" -> 2
           [] page = "advanced" -> Cardinality(Visible(AdvTable))
           [] page = "security" -> 1

Chosen(what) ==
  /\ phase = "menu"
  /\ \/ page = "main" /\ OnLine(MainTable, sel, what)
     \/ page = "advanced" /\ OnLine(AdvTable, sel, what)

-----------------------------------------------------------------------------
(* Power-on, reset and boot. *)

\* A cold reset: the environment is read from the disk again.
ResetFrom(disk) ==
  /\ phase' = "window" /\ caller' = "check" /\ page' = "main" /\ sel' = 0
  /\ stored' = disk /\ env' = disk
  /\ shown' = Zeroed /\ dirty' = FALSE

\* kh_bios_run loads bios_ctx from the environment.
RunMenuUnloaded(by) ==  \* mutant: bios_ctx keeps what an earlier menu left
  /\ phase' = "menu" /\ caller' = by /\ page' = "main" /\ sel' = 0
  /\ dirty' = FALSE
  /\ UNCHANGED <<stored, env, shown, bcb, served>>

RunMenu(by) ==
  /\ phase' = "menu" /\ caller' = by /\ page' = "main" /\ sel' = 0
  /\ shown' = env /\ dirty' = FALSE
  /\ UNCHANGED <<stored, env, bcb, served>>

Hotkey == phase = "window" /\ RunMenu("check")

WindowEnds ==
  /\ phase = "window" /\ phase' = "boot"
  /\ UNCHANGED <<menuVars, stored, env, shown, dirty, bcb, served>>

\* bootcmd looks at the BCB alone: no caller of kh_bios_boot_system exists.
Boot ==
  /\ phase = "boot"
  /\ phase' = IF bcb THEN "recovery" ELSE "os"
  /\ served' = (served \/ (bcb /\ stored.once))
  /\ UNCHANGED <<menuVars, stored, env, shown, dirty, bcb>>

\* The recovery system clears the BCB when it is done.
RecoveryDone == phase = "recovery" /\ bcb' = FALSE /\ ResetFrom(stored)
                /\ UNCHANGED served

Reboot == phase \in {"os", "cli"} /\ ResetFrom(stored) /\ UNCHANGED <<bcb, served>>

PowerCut == Faults /\ phase # "window" /\ ResetFrom(stored) /\ UNCHANGED <<bcb, served>>

-----------------------------------------------------------------------------
(* The menu. *)

Up == /\ phase = "menu" /\ sel > 0 /\ sel' = sel - 1
      /\ UNCHANGED <<phase, caller, page, stored, env, shown, dirty, bcb, served>>

DownPast == /\ phase = "menu" /\ sel < Lines /\ sel' = sel + 1  \* mutant: off by one
            /\ UNCHANGED <<phase, caller, page, stored, env, shown, dirty, bcb, served>>

Down == /\ phase = "menu" /\ sel < Lines - 1 /\ sel' = sel + 1
        /\ UNCHANGED <<phase, caller, page, stored, env, shown, dirty, bcb, served>>

GoTo(p, line) ==
  /\ page' = p /\ sel' = line
  /\ UNCHANGED <<phase, caller, stored, env, shown, dirty, bcb, served>>

\* The boot page starts on the default that is set.
OpenPage == \E p \in {"boot", "hardware", "security", "advanced"} :
  /\ Chosen(p)
  /\ GoTo(p, IF p = "boot" /\ shown.default = "recovery" THEN 1 ELSE 0)

ShowInfo == Chosen("info") /\ UNCHANGED vars

Back == /\ phase = "menu" /\ page # "main"   \* Esc, and on "security" Enter too
        /\ GoTo("main", 0)

\* Enter on the boot page.
EditBoot ==
  /\ phase = "menu" /\ page = "boot"
  /\ dirty' = TRUE
  /\ shown' = CASE sel = 0 -> [shown EXCEPT !.default = "normal"]
                [] sel = 1 -> [shown EXCEPT !.default = "recovery"]
                [] OTHER   -> [shown EXCEPT !.once = ~@]
  /\ served' = IF sel = 2 THEN FALSE ELSE served
  /\ UNCHANGED <<phase, menuVars, stored, env, bcb>>

EditHardwareNow ==  \* mutant: the toggle also goes to the environment
  /\ phase = "menu" /\ page = "hardware"
  /\ dirty' = TRUE
  /\ shown' = IF sel = 0 THEN [shown EXCEPT !.gmac0 = ~@] ELSE [shown EXCEPT !.gmac1 = ~@]
  /\ env' = [env EXCEPT !.gmac0 = shown'.gmac0, !.gmac1 = shown'.gmac1]
  /\ UNCHANGED <<phase, menuVars, stored, bcb, served>>

\* Enter on the hardware page: the board has no hw_toggle_item of its own.
EditHardware ==
  /\ phase = "menu" /\ page = "hardware"
  /\ dirty' = TRUE
  /\ shown' = IF sel = 0 THEN [shown EXCEPT !.gmac0 = ~@] ELSE [shown EXCEPT !.gmac1 = ~@]
  /\ UNCHANGED <<phase, menuVars, stored, env, bcb, served>>

\* Fastboot and Rockusb end the menu: the boot goes on, or the CLI does.
Download ==
  /\ Chosen("download")
  /\ phase' = IF caller = "check" THEN "boot" ELSE "cli"
  /\ UNCHANGED <<menuVars, stored, env, shown, dirty, bcb, served>>

EnterCli == /\ Chosen("cli")     \* cli_loop does not return
            /\ phase' = "cli"
            /\ UNCHANGED <<menuVars, stored, env, shown, dirty, bcb, served>>

CliMenu == phase = "cli" /\ RunMenu("command")

SaveWithoutOnce ==  \* mutant: one of the settings is set after the save
  /\ Chosen("save")
  /\ env' = shown /\ dirty' = FALSE
  /\ stored' \in {[shown EXCEPT !.once = env.once], stored}
  /\ phase' = "saved"
  /\ UNCHANGED <<menuVars, shown, bcb, served>>

\* ctx_save_all: the RAM environment, then the disk; a failure goes unnoticed.
Save ==
  /\ Chosen("save")
  /\ env' = shown /\ dirty' = FALSE
  /\ stored' \in {env'} \cup (IF Faults THEN {stored} ELSE {})
  /\ phase' = "saved"
  /\ UNCHANGED <<menuVars, shown, bcb, served>>

\* kh_bios_exit_reboot(true): the once flag is cleared in RAM only, then the
\* BCB is written (its failure is ignored), then the reset.
ExitSaved ==
  /\ phase = "saved"
  /\ IF env.default = "recovery" \/ env.once
       THEN bcb' \in {TRUE} \cup (IF Faults THEN {bcb} ELSE {})
       ELSE UNCHANGED bcb
  /\ ResetFrom(stored)
  /\ UNCHANGED served

\* Esc on the main page, and "Discard Changes and Exit".
ExitDiscarding ==
  /\ phase = "menu" /\ page = "main"
  /\ ResetFrom(stored)
  /\ UNCHANGED <<bcb, served>>

-----------------------------------------------------------------------------
Next ==
  \/ Hotkey \/ WindowEnds \/ Boot \/ RecoveryDone \/ Reboot \/ PowerCut
  \/ Up \/ Down \/ OpenPage \/ ShowInfo \/ Back \/ EditBoot \/ EditHardware
  \/ Download \/ EnterCli \/ CliMenu \/ Save \/ ExitSaved \/ ExitDiscarding

Spec == Init /\ [][Next]_vars
-----------------------------------------------------------------------------
(* Properties. *)

\* The selected line is one of the page's, whatever features the board has and
\* from whichever page one comes: an item past the end would do nothing, or, on
\* the advanced page, enter the CLI (kh_bios_menu.c:62-75, 104-117).
SelectionOnPage == phase = "menu" => sel < Lines

\* A menu in which nothing was edited shows what the disk holds, also one run
\* from the command line of another that was left with edits
\* (kh_bios_ui.c:29-36, bios_ctx is one static variable).
CleanMenuIsStored == phase = "menu" /\ ~dirty => shown = stored

\* Edits reach the environment in RAM by `save' alone: leaving for the command
\* line, where saveenv would write it to the disk, carries none of them along.
EnvIsStored == phase # "saved" => env = stored

\* Whatever way the menu is left, and wherever the power is cut, the disk holds
\* all of the settings the user saved last or none of his edits.
SavedAsShown == [][stored' # stored => Chosen("save") /\ stored' = shown]_vars

\* "Boot Recovery once": one recovery for each time it is chosen
\* (kh_bios_ui.c:130, doc/08-U-Boot-BIOS.md:22).
RecoveryOnce ==
  [][bcb' /\ ~bcb /\ stored.default = "normal" /\ env.default = "normal"
       => ~served]_vars
=============================================================================
