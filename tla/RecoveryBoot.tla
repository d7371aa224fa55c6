---------------------------- MODULE RecoveryBoot ----------------------------
(***************************************************************************)
(* The boot protocol of Open Recovery: main() of recovery.c with get_args, *)
(* finish_recovery, erase_root and the package and firmware installers it  *)
(* drives, together with the two parties it shares flash with, the boot    *)
(* loader and the main system.  The parties communicate only through what  *)
(* survives a reset: the bootloader control block (BCB) in the MISC        *)
(* partition, the command files, the package and the intent file on CACHE, *)
(* and the contents of the partitions.  Power may be lost between any two  *)
(* steps; the header comment of recovery.c promises that the FACTORY RESET *)
(* and OTA INSTALL scenarios are "safely restartable at any point".        *)
(*                                                                         *)
(* Two builds of the same program run one after the other: the lite build  *)
(* (in the recovery image) takes the command, and then tries to replace    *)
(* itself by the full build on the SD card, which has a command file of    *)
(* its own.                                                                *)
(*                                                                         *)
(* Lines of text are abstracted to sets of options; file contents other    *)
(* than the command files to what the protocol distinguishes.              *)
(***************************************************************************)
EXTENDS Naturals

CONSTANTS
    Requests,    \* the option sets the main system may ask for
    Faults,      \* which device errors may happen: subset of FaultKinds
    Bootstrap,   \* TRUE where /etc/bootstrap exists (mark file instead of BCB)
    MaxRequests, \* bound: commands the main system writes
    MaxCrashes,  \* bound: power losses
    MaxMenuOps   \* bound: menu items the user runs

\* OPTIONS of recovery.c
Option == {"send_intent", "update_package", "wipe_data", "wipe_cache"}

FaultKinds == {"misc", "format"}

ASSUME RequestsAssumption == Requests \subseteq SUBSET Option
ASSUME FaultsAssumption == Faults \subseteq FaultKinds
ASSUME BootstrapAssumption == Bootstrap \in BOOLEAN
ASSUME BoundsAssumption == /\ MaxRequests \in Nat
                           /\ MaxCrashes \in Nat
                           /\ MaxMenuOps \in Nat

VARIABLES
    \* --- flash, survives a reset
    bcb,      \* the bootloader message: command and options after "recovery"
    cmd,      \* per build, the options in its COMMAND_FILE ({}: no file)
    pkg,      \* the OTA package is on CACHE
    intent,   \* INTENT_FILE has been written
    cache,    \* CACHE holds a file system, raw bytes, or an update image
    data,     \* DATA holds user files, is half erased, or is empty
    system,   \* SYSTEM holds the old, a half-written, or the new version
    radio,    \* the radio/hboot firmware: old or new
    \* --- volatile
    node,     \* who is running
    byKey,    \* the next boot was asked to enter recovery (reboot reason, key)
    pc,       \* control location in main() and what it calls
    site,     \* which call of set_bootloader_message is under way
    cont,     \* where erase_root / finish_recovery return to
    opt,      \* the options getopt_long found
    status,   \* main's status
    pending,  \* update_data: a firmware image is remembered
    \* --- bounds and history
    requests, crashes, menuOps,
    excuse    \* events after which the header comment's promise is off

flash    == <<bcb, cmd, pkg, intent, cache, data, system, radio>>
volatile == <<node, byKey, pc, site, cont, opt, status, pending>>
bounds   == <<requests, crashes, menuOps>>
vars     == <<flash, volatile, bounds, excuse>>

Builds    == {"lite", "full"}
Nodes     == Builds \cup {"bootloader", "main"}
Sites     == {"args", "sdcard", "finish", "fw1", "fw2"}
Locations == {"off", "get_args", "bcb_erase", "bcb_write", "command", "install",
              "installing", "unlink", "erase_data", "erasing_data",
              "erase_cache", "erasing_cache", "switch", "after", "prompt",
              "fin_unlink", "menu", "sd_install", "sd_installing", "firmware",
              "fw_raw", "fw_image", "finish", "reboot"}
Returns   == {"switch", "after", "menu", "firmware", "finish", "reboot"}
Causes    == {"torn", "reported", "switched", "menu", "misc", "format"}

\* struct bootloader_message: the recovery field is the set of options that
\* follow its first line.  A zeroed and an erased (0xFF) block both read as
\* Blank: neither names a command, neither begins with "recovery".
Message == [command : {"none", "boot-recovery", "update"}, args : SUBSET Option]
Blank   == [command |-> "none", args |-> {}]

Running == node \in Builds
At(loc) == Running /\ pc = loc

TypeOK ==
    /\ bcb \in Message
    /\ cmd \in [Builds -> SUBSET Option]
    /\ pkg \in BOOLEAN
    /\ intent \in BOOLEAN
    /\ cache \in {"fs", "raw", "image"}
    /\ data \in {"user", "partial", "empty"}
    /\ system \in {"old", "partial", "new"}
    /\ radio \in {"old", "new"}
    /\ node \in Nodes
    /\ byKey \in BOOLEAN
    /\ pc \in Locations
    /\ site \in Sites
    /\ cont \in Returns
    /\ opt \in SUBSET Option
    /\ status \in {"success", "error"}
    /\ pending \in BOOLEAN
    /\ requests \in 0..MaxRequests
    /\ crashes \in 0..MaxCrashes
    /\ menuOps \in 0..MaxMenuOps
    /\ excuse \in SUBSET Causes

Init ==
    /\ bcb = Blank
    /\ cmd = [b \in Builds |-> {}]
    /\ pkg = FALSE
    /\ intent = FALSE
    /\ cache = "fs"
    /\ data = "user"
    /\ system = "old"
    /\ radio = "old"
    /\ node = "main"
    /\ byKey = FALSE
    /\ pc = "off"
    /\ site = "args"
    /\ cont = "menu"
    /\ opt = {}
    /\ status = "success"
    /\ pending = FALSE
    /\ requests = 0
    /\ crashes = 0
    /\ menuOps = 0
    /\ excuse = {}

-----------------------------------------------------------------------------
(* The main system and the boot loader: outside this repository, modelled  *)
(* from the flow comments of recovery.c, firmware.c and bootloader.h.       *)

\* Everything a process keeps in memory is gone when control passes on.
Forget(n, loc) ==
    /\ node' = n
    /\ pc' = loc
    /\ site' = "args"
    /\ cont' = "menu"
    /\ opt' = {}
    /\ status' = "success"
    /\ pending' = FALSE

\* The main system writes a command for build b (downloading the package
\* first if the command installs one).
MainWritesCommand(b, r) ==
    /\ node = "main"
    /\ cache = "fs"
    /\ requests < MaxRequests
    /\ requests' = requests + 1
    /\ cmd' = [cmd EXCEPT ![b] = r]
    /\ pkg' = (pkg \/ "update_package" \in r)
    /\ UNCHANGED <<bcb, intent, cache, data, system, radio, volatile, crashes,
                   menuOps, excuse>>

\* "main system reboots into recovery": by a reboot reason or a key, or on a
\* bootstrap phone by creating the mark (sdcard/sbin/reboot).
MainRebootsIntoRecovery ==
    /\ node = "main"
    /\ Forget("bootloader", "off")
    /\ \/ byKey' = TRUE /\ bcb' = bcb
       \/ /\ Bootstrap /\ cache = "fs"
          /\ byKey' = FALSE /\ bcb' = [command |-> "boot-recovery", args |-> {}]
    /\ UNCHANGED <<cmd, pkg, intent, cache, data, system, radio, bounds, excuse>>

\* The boot loader (btsh's check_boot_to_or on a bootstrap phone).
BootRecovery ==
    /\ node = "bootloader"
    /\ bcb.command = "boot-recovery" \/ (byKey /\ bcb.command = "none")
    /\ Forget("lite", "get_args")
    /\ byKey' = FALSE
    /\ UNCHANGED <<flash, bounds, excuse>>

BootMain ==
    /\ node = "bootloader"
    /\ bcb.command = "none" /\ ~byKey
    /\ Forget("main", "off")
    /\ UNCHANGED <<flash, byKey, bounds, excuse>>

\* Radio/Hboot update flow, steps 1-9 of the comment in firmware.c: flashing a
\* valid image may succeed or fail, an invalid header is refused, and the
\* command becomes "boot-recovery" with the recovery field kept.
BootUpdatesFirmware ==
    /\ node = "bootloader"
    /\ bcb.command = "update"
    /\ \/ cache = "image" /\ radio' = "new"
       \/ radio' = radio
    /\ bcb' = [bcb EXCEPT !.command = "boot-recovery"]
    /\ UNCHANGED <<cmd, pkg, intent, cache, data, system, volatile, bounds, excuse>>

-----------------------------------------------------------------------------
(* bootloader.c                                                            *)

\* Slips in MessageAt the properties must notice: the flash command goes out
\* with the first firmware message; finish_recovery does not reset the command.
MessageAt_FlashFirst(s) ==
    CASE s = "args"   -> [command |-> "boot-recovery", args |-> opt]
      [] s = "sdcard" -> [command |-> "boot-recovery", args |-> {}]
      [] s = "finish" -> Blank
      [] OTHER        -> [command |-> "update", args |-> {"wipe_cache"}]
MessageAt_NoReset(s) ==
    CASE s \in {"args", "finish"} -> [command |-> "boot-recovery", args |-> opt]
      [] s = "sdcard" -> [command |-> "boot-recovery", args |-> {}]
      [] s = "fw1"    -> [command |-> "boot-recovery", args |-> {"wipe_cache"}]
      [] s = "fw2"    -> [command |-> "update", args |-> {"wipe_cache"}]

\* What each call site passes to set_bootloader_message.
MessageAt(s) ==
    CASE s = "args"   -> [command |-> "boot-recovery", args |-> opt]
      [] s = "sdcard" -> [command |-> "boot-recovery", args |-> {}]
      [] s = "finish" -> Blank
      [] s = "fw1"    -> [command |-> "boot-recovery",
                          args |-> {"wipe_cache"} \cup (opt \cap {"send_intent"})]
      [] s = "fw2"    -> [command |-> "update",
                          args |-> {"wipe_cache"} \cup (opt \cap {"send_intent"})]

\* Where the caller goes on when the call returns 0.
AfterMessage(s) ==
    CASE s = "args"   -> "command"
      [] s = "sdcard" -> "sd_install"
      [] s = "finish" -> "fin_unlink"
      [] s = "fw1"    -> "fw_raw"
      [] s = "fw2"    -> "reboot"

\* Only maybe_install_firmware_update looks at the result: it gives up before
\* the image is written, or cleans CACHE up after.
AfterMessageFailed(s) ==
    CASE s = "fw1" -> "finish"
      [] s = "fw2" -> "erase_cache"
      [] OTHER     -> AfterMessage(s)

\* Slip: the comparison forgets the newline and never matches.
MarkFor_Never(m) == Blank

\* With /etc/bootstrap the message is one mark file, present exactly for a
\* plain "boot-recovery" without options.
MarkFor(m) == IF m.command = "boot-recovery" /\ m.args = {} THEN m ELSE Blank

\* write_block erases the block of MISC that holds the message ...
EraseMessage ==
    /\ ~Bootstrap
    /\ At("bcb_erase")
    /\ bcb' = Blank
    /\ pc' = "bcb_write"
    /\ UNCHANGED <<cmd, pkg, intent, cache, data, system, radio, node, byKey,
                   site, cont, opt, status, pending, bounds, excuse>>

\* ... and then writes the new contents.
WriteMessage ==
    /\ ~Bootstrap
    /\ At("bcb_write")
    /\ bcb' = MessageAt(site)
    /\ pc' = AfterMessage(site)
    /\ UNCHANGED <<cmd, pkg, intent, cache, data, system, radio, node, byKey,
                   site, cont, opt, status, pending, bounds, excuse>>

\* Slip: the mark is created but not removed.
WriteMark_Keeps ==
    /\ Bootstrap
    /\ At("bcb_erase")
    /\ bcb' = IF MarkFor(MessageAt(site)) # Blank THEN MessageAt(site) ELSE bcb
    /\ pc' = AfterMessage(site)
    /\ UNCHANGED <<cmd, pkg, intent, cache, data, system, radio, node, byKey,
                   site, cont, opt, status, pending, bounds, excuse>>

\* On a bootstrap phone the mark is created or removed, never erased.
WriteMark ==
    /\ Bootstrap
    /\ At("bcb_erase")
    /\ bcb' = IF cache = "fs" THEN MarkFor(MessageAt(site)) ELSE bcb
    /\ pc' = AfterMessage(site)
    /\ UNCHANGED <<cmd, pkg, intent, cache, data, system, radio, node, byKey,
                   site, cont, opt, status, pending, bounds, excuse>>

\* MISC cannot be found, opened, read or written: -1 with the block as it was,
\* or already erased.
MessageFails ==
    /\ "misc" \in Faults
    /\ ~Bootstrap
    /\ At("bcb_erase") \/ At("bcb_write")
    /\ pc' = AfterMessageFailed(site)
    /\ cont' = IF site = "fw2" THEN "finish" ELSE cont
    /\ excuse' = excuse \cup {"misc"}
    /\ UNCHANGED <<flash, node, byKey, site, opt, status, pending, bounds>>

\* write_update_for_bootloader destroys whatever CACHE held: an invalid header
\* goes first, then image and bitmaps ...
WriteUpdateBegins ==
    /\ At("fw_raw")
    /\ cache' = "raw"
    /\ cmd' = [b \in Builds |-> {}]
    /\ pkg' = FALSE
    /\ intent' = FALSE
    /\ bcb' = IF Bootstrap THEN Blank ELSE bcb
    /\ pc' = "fw_image"
    /\ UNCHANGED <<data, system, radio, node, byKey, site, cont, opt, status,
                   pending, bounds, excuse>>

\* ... and the valid header last.  "The update image is fully written, so now
\* we can instruct the bootloader to install it."
WriteUpdateEnds ==
    /\ At("fw_image")
    /\ cache' = "image"
    /\ pc' = "bcb_erase"
    /\ site' = "fw2"
    /\ UNCHANGED <<bcb, cmd, pkg, intent, data, system, radio, node, byKey, cont,
                   opt, status, pending, bounds, excuse>>

\* CACHE cannot be unmounted or written: "attempt to clean cache up, at least".
WriteUpdateFails ==
    /\ At("fw_raw") \/ At("fw_image")
    /\ pc' = "erase_cache"
    /\ cont' = "finish"
    /\ UNCHANGED <<flash, node, byKey, site, opt, status, pending, bounds, excuse>>

-----------------------------------------------------------------------------
(* recovery.c: arguments                                                   *)

\* The options of a build's command file, if CACHE can be mounted.
CommandFile(b) == IF cache = "fs" THEN cmd[b] ELSE {}

\* Slips: argv[0] is taken for an option; the arguments are not written back.
GetArgs_CountsName ==
    /\ At("get_args")
    /\ node = "lite"
    /\ opt' = {"recovery"} \cup (IF bcb.args # {} THEN bcb.args ELSE CommandFile("lite"))
    /\ site' = "args"
    /\ pc' = "bcb_erase"
    /\ UNCHANGED <<flash, node, byKey, cont, status, pending, bounds, excuse>>
GetArgs_NoWriteBack ==
    /\ At("get_args")
    /\ node = "lite"
    /\ opt' = IF bcb.args # {} THEN bcb.args ELSE CommandFile("lite")
    /\ pc' = "command"
    /\ UNCHANGED <<flash, node, byKey, site, cont, status, pending, bounds, excuse>>

\* get_args (lite): options from the message, else from the command file; then
\* "write the arguments we have back into the bootloader control block".
GetArgs ==
    /\ At("get_args")
    /\ node = "lite"
    /\ opt' = IF bcb.args # {} THEN bcb.args ELSE CommandFile("lite")
    /\ site' = "args"
    /\ pc' = "bcb_erase"
    /\ UNCHANGED <<flash, node, byKey, cont, status, pending, bounds, excuse>>

\* The full build "only checks for its own command file".
GetCmdFileArgs ==
    /\ At("get_args")
    /\ node = "full"
    /\ opt' = CommandFile("full")
    /\ pc' = "command"
    /\ UNCHANGED <<flash, node, byKey, site, cont, status, pending, bounds, excuse>>

\* Where main continues after the command: lite first tries to switch.
AfterCommand == IF node = "lite" THEN "switch" ELSE "after"

\* Slip: wipe_cache, which --wipe_data implies, is tested before wipe_data.
Dispatch_CacheFirst ==
    /\ At("command")
    /\ \/ /\ "update_package" \in opt
          /\ pc' = "install"
          /\ UNCHANGED status
       \/ /\ "update_package" \notin opt /\ opt \cap {"wipe_data", "wipe_cache"} # {}
          /\ pc' = "erase_cache"
          /\ UNCHANGED status
       \/ /\ opt \cap {"update_package", "wipe_data", "wipe_cache"} = {}
          /\ pc' = AfterCommand
          /\ status' = "error"
    /\ cont' = AfterCommand
    /\ UNCHANGED <<flash, node, byKey, site, opt, pending, bounds, excuse>>

\* update_package, then wipe_data, then wipe_cache; none is an error.
Dispatch ==
    /\ At("command")
    /\ \/ /\ "update_package" \in opt
          /\ pc' = "install"
          /\ UNCHANGED status
       \/ /\ "update_package" \notin opt /\ "wipe_data" \in opt
          /\ pc' = "erase_data"
          /\ UNCHANGED status
       \/ /\ opt \cap {"update_package", "wipe_data"} = {} /\ "wipe_cache" \in opt
          /\ pc' = "erase_cache"
          /\ UNCHANGED status
       \/ /\ opt \cap {"update_package", "wipe_data", "wipe_cache"} = {}
          /\ pc' = AfterCommand
          /\ status' = "error"
    /\ cont' = AfterCommand
    /\ UNCHANGED <<flash, node, byKey, site, opt, pending, bounds, excuse>>

-----------------------------------------------------------------------------
(* install.c as main() sees it                                             *)

\* install_package opens the package and the update binary starts writing.
InstallBegins ==
    /\ \/ At("install") /\ pkg /\ pc' = "installing"
       \/ At("sd_install") /\ pc' = "sd_installing"
    /\ system' = "partial"
    /\ UNCHANGED <<bcb, cmd, pkg, intent, cache, data, radio, node, byKey, site,
                   cont, opt, status, pending, bounds, excuse>>

\* Slip: the result of install_package is dropped.
AfterInstall_Dropped(ok) ==
    /\ UNCHANGED <<status, cont>>
    /\ \/ pc \in {"install", "installing"} /\ pc' = "unlink" /\ UNCHANGED site
       \/ pc \notin {"install", "installing"} /\ pc' = "bcb_erase" /\ site' = "finish"

\* Where the two callers of install_package go on.  From the menu, success
\* with the text hidden leaves the menu; otherwise finish_recovery(NULL) runs
\* at the top of the menu loop.
AfterInstall(ok) ==
    IF pc \in {"install", "installing"}
    THEN /\ pc' = "unlink"
         /\ status' = IF ok THEN status ELSE "error"
         /\ UNCHANGED <<site, cont>>
    ELSE /\ UNCHANGED status
         /\ \/ /\ pc' = "bcb_erase" /\ site' = "finish" /\ cont' = "menu"
            \/ /\ ok /\ pc' = "firmware"
               /\ UNCHANGED <<site, cont>>

\* The update binary exits with 0; it may have announced a firmware image,
\* which remember_firmware_update keeps if there is none yet.
InstallSucceeds ==
    /\ At("installing") \/ At("sd_installing")
    /\ system' = "new"
    /\ pending' \in {pending, TRUE}
    /\ AfterInstall(TRUE)
    /\ UNCHANGED <<bcb, cmd, pkg, intent, cache, data, radio, node, byKey, opt,
                   bounds, excuse>>

\* The package is missing or bad, the update binary fails half way, or its
\* firmware image cannot be kept ("Multiple firmware images").
InstallFails ==
    /\ \/ (At("install") \/ At("sd_install")) /\ system' = system
       \/ (At("installing") \/ At("sd_installing")) /\ system' \in {"partial", "new"}
    /\ AfterInstall(FALSE)
    /\ excuse' = IF pc \in {"sd_install", "sd_installing"}
                 THEN excuse \cup {"reported"} ELSE excuse
    /\ UNCHANGED <<bcb, cmd, pkg, intent, cache, data, radio, node, byKey, opt,
                   pending, bounds>>

\* main() removes the package after the attempt, whatever came of it.
UnlinkPackage ==
    /\ At("unlink")
    /\ pkg' = FALSE
    /\ pc' = AfterCommand
    /\ UNCHANGED <<bcb, cmd, intent, cache, data, system, radio, node, byKey, site,
                   cont, opt, status, pending, bounds, excuse>>

-----------------------------------------------------------------------------
(* erase_root / format_root_device                                         *)

EraseDataBegins ==
    /\ At("erase_data")
    /\ data' = "partial"
    /\ pc' = "erasing_data"
    /\ UNCHANGED <<bcb, cmd, pkg, intent, cache, system, radio, node, byKey, site,
                   cont, opt, status, pending, bounds, excuse>>

EraseDataEnds ==
    /\ At("erasing_data")
    /\ data' = "empty"
    /\ pc' = "erase_cache"
    /\ UNCHANGED <<bcb, cmd, pkg, intent, cache, system, radio, node, byKey, site,
                   cont, opt, status, pending, bounds, excuse>>

\* Erasing CACHE block by block loses its files in no particular order.
EraseCacheBegins ==
    /\ At("erase_cache")
    /\ \E kept \in SUBSET Builds : cmd' = [b \in Builds |-> IF b \in kept THEN cmd[b] ELSE {}]
    /\ pkg' \in {pkg, FALSE}
    /\ intent' \in {intent, FALSE}
    /\ bcb' \in IF Bootstrap THEN {bcb, Blank} ELSE {bcb}
    /\ cache' = IF cache = "fs" THEN "fs" ELSE "raw"
    /\ pc' = "erasing_cache"
    /\ UNCHANGED <<data, system, radio, node, byKey, site, cont, opt, status,
                   pending, bounds, excuse>>

EraseCacheEnds ==
    /\ At("erasing_cache")
    /\ cmd' = [b \in Builds |-> {}]
    /\ pkg' = FALSE
    /\ intent' = FALSE
    /\ bcb' = IF Bootstrap THEN Blank ELSE bcb
    /\ cache' = "fs"
    /\ pc' = cont
    /\ UNCHANGED <<data, system, radio, node, byKey, site, cont, opt, status,
                   pending, bounds, excuse>>

\* format_root_device cannot unmount, find or open the partition: nothing is
\* erased.  Only main() looks at the result.
EraseFails ==
    /\ "format" \in Faults
    /\ \/ At("erase_data") /\ pc' = "erase_cache"
       \/ At("erase_cache") /\ pc' = cont
    /\ status' = IF cont \in {"switch", "after"} THEN "error" ELSE status
    /\ excuse' = excuse \cup {"format"}
    /\ UNCHANGED <<flash, node, byKey, site, cont, opt, pending, bounds>>

-----------------------------------------------------------------------------
(* recovery.c: switching to the full build, the menu, finish_recovery       *)

\* install_package(FULL_PACKAGE_FILE): its script kills this process and starts
\* the full build, with nothing of this one's memory ...
SwitchToFull ==
    /\ At("switch")
    /\ Forget("full", "get_args")
    /\ excuse' = IF status = "error" THEN excuse \cup {"switched"} ELSE excuse
    /\ UNCHANGED <<flash, byKey, bounds>>

\* ... or the package is missing, fails, or returns without the switch.
StayLite ==
    /\ At("switch")
    /\ pc' = "after"
    /\ UNCHANGED <<flash, node, byKey, site, cont, opt, status, pending, bounds,
                   excuse>>

\* The menu comes up after a failure, and in the lite build also when the
\* text is visible.
AfterSwitch ==
    /\ At("after")
    /\ \/ (status = "error" \/ node = "lite") /\ pc' = "prompt"
       \/ status = "success" /\ pc' = "firmware"
    /\ excuse' = IF status = "error" THEN excuse \cup {"reported"} ELSE excuse
    /\ UNCHANGED <<flash, node, byKey, site, cont, opt, status, pending, bounds>>

\* The first turn of the menu loop calls finish_recovery(NULL).
PromptAndWait ==
    /\ At("prompt")
    /\ pc' = "bcb_erase"
    /\ site' = "finish"
    /\ cont' = "menu"
    /\ UNCHANGED <<flash, node, byKey, opt, status, pending, bounds, excuse>>

\* finish_recovery(send_intent), called by main.
FinishRecovery ==
    /\ At("finish")
    /\ intent' = (intent \/ ("send_intent" \in opt /\ cache = "fs"))
    /\ pc' = "bcb_erase"
    /\ site' = "finish"
    /\ cont' = "reboot"
    /\ UNCHANGED <<bcb, cmd, pkg, cache, data, system, radio, node, byKey, opt,
                   status, pending, bounds, excuse>>

\* "Remove the command file, so recovery won't repeat indefinitely."
UnlinkCommand ==
    /\ At("fin_unlink")
    /\ cmd' = [cmd EXCEPT ![node] = IF cache = "fs" THEN {} ELSE @]
    /\ pc' = cont
    /\ UNCHANGED <<bcb, pkg, intent, cache, data, system, radio, node, byKey, site,
                   cont, opt, status, pending, bounds, excuse>>

MenuReboot ==
    /\ At("menu")
    /\ pc' = "firmware"
    /\ UNCHANGED <<flash, node, byKey, site, cont, opt, status, pending, bounds,
                   excuse>>

\* wipe_data / wipe cache: back to the menu, or on to the reboot if the text
\* was hidden meanwhile.
MenuWipe ==
    /\ At("menu")
    /\ menuOps < MaxMenuOps
    /\ menuOps' = menuOps + 1
    /\ pc' \in {"erase_data", "erase_cache"}
    /\ cont' \in {"menu", "firmware"}
    /\ excuse' = excuse \cup {"menu"}
    /\ UNCHANGED <<flash, node, byKey, site, opt, status, pending, requests, crashes>>

\* Slip: the boot message is not set before the package is installed.
MenuInstall_Unprotected ==
    /\ At("menu")
    /\ menuOps < MaxMenuOps
    /\ menuOps' = menuOps + 1
    /\ pc' = "sd_install"
    /\ UNCHANGED <<flash, node, byKey, site, cont, opt, status, pending, requests,
                   crashes, excuse>>

\* set_sdcard_update_bootloader_message, then install_package.
MenuInstall ==
    /\ At("menu")
    /\ menuOps < MaxMenuOps
    /\ menuOps' = menuOps + 1
    /\ pc' = "bcb_erase"
    /\ site' = "sdcard"
    /\ UNCHANGED <<flash, node, byKey, cont, opt, status, pending, requests, crashes,
                   excuse>>

\* Slip: CACHE is destroyed before the wipe instruction is out.
MaybeInstallFirmware_WipeLater ==
    /\ At("firmware")
    /\ \/ ~pending /\ pc' = "finish"
       \/ pending /\ pc' = "fw_raw"
    /\ UNCHANGED <<flash, node, byKey, site, cont, opt, status, pending, bounds, excuse>>

\* maybe_install_firmware_update: nothing pending, or the wipe instruction
\* goes out before CACHE is destroyed.
MaybeInstallFirmware ==
    /\ At("firmware")
    /\ \/ ~pending /\ pc' = "finish" /\ UNCHANGED site
       \/ pending /\ pc' = "bcb_erase" /\ site' = "fw1"
    /\ UNCHANGED <<flash, node, byKey, cont, opt, status, pending, bounds, excuse>>

Reboot ==
    /\ At("reboot")
    /\ Forget("bootloader", "off")
    /\ UNCHANGED <<flash, byKey, bounds, excuse>>

-----------------------------------------------------------------------------
\* Power is lost (7b: "pulling the battery, etc").
Crash ==
    /\ crashes < MaxCrashes
    /\ node # "bootloader"
    /\ crashes' = crashes + 1
    /\ excuse' = IF At("bcb_write") THEN excuse \cup {"torn"} ELSE excuse
    /\ byKey' = FALSE
    /\ Forget("bootloader", "off")
    /\ UNCHANGED <<flash, requests, menuOps>>

Loader == BootRecovery \/ BootMain \/ BootUpdatesFirmware

Bcb == EraseMessage \/ WriteMessage \/ WriteMark \/ MessageFails

Erase == \/ EraseDataBegins \/ EraseDataEnds
         \/ EraseCacheBegins \/ EraseCacheEnds \/ EraseFails

Install == InstallBegins \/ InstallSucceeds \/ InstallFails \/ UnlinkPackage

Firmware == \/ MaybeInstallFirmware
            \/ WriteUpdateBegins \/ WriteUpdateEnds \/ WriteUpdateFails

\* The steps of the recovery process up to the menu and after it.
Program == \/ GetArgs \/ GetCmdFileArgs \/ Dispatch
           \/ Bcb \/ Erase \/ Install \/ Firmware
           \/ SwitchToFull \/ StayLite \/ AfterSwitch
           \/ PromptAndWait \/ FinishRecovery \/ UnlinkCommand \/ Reboot

Request == \/ \E b \in Builds, r \in Requests : MainWritesCommand(b, r)
           \/ MainRebootsIntoRecovery

Next == Request \/ Loader \/ Program \/ MenuReboot \/ MenuWipe \/ MenuInstall \/ Crash

Spec == Init /\ [][Next]_vars

-----------------------------------------------------------------------------
(* Properties                                                               *)

\* The boot loader is told to flash an image only while a complete image, valid
\* header included, is on CACHE (steps 8b and 8c of OTA INSTALL).
UpdateImageComplete == bcb.command = "update" => cache = "image"

\* "We destroy the cache partition ... all we can really do afterwards is wipe
\* cache and reboot": the main system never meets a destroyed CACHE, however
\* often power was lost, unless a write of the BCB was torn, MISC or the format
\* failed, recovery stopped at its menu with the error icon, or the lite build
\* handed over to the full build after a failure.
CacheUsable == node = "main" /\ excuse = {} => cache = "fs"

\* FACTORY RESET is restartable: the main system never starts on half-erased
\* user data, under the same reservations.
NoHalfErasedData == node = "main" /\ excuse = {} => data # "partial"

\* OTA INSTALL is restartable: the main system never starts on a half-written
\* SYSTEM unless the failure was shown to the user.
NoHalfInstalledSystem == node = "main" /\ excuse = {} => system # "partial"

\* "These important scenarios must be safely restartable at any point"
\* (recovery.c:60), for both of them.
Restartable == NoHalfErasedData /\ NoHalfInstalledSystem

\* While a package chosen in the menu is being installed, a power loss leads
\* back into recovery (set_sdcard_update_bootloader_message).  The mark of a
\* bootstrap phone needs a file system on CACHE.
SdcardInstallProtected ==
    At("sd_installing") /\ "misc" \notin excuse /\ (Bootstrap => cache = "fs")
        => bcb.command = "boot-recovery"

\* What the proofs of the first two properties need.  The loader is told to flash
\* only by the last step before the reboot, and the image stays complete until
\* that step is taken.
FlashOrdered ==
    /\ bcb.command = "update" => /\ cache = "image"
                                 /\ node = "bootloader" \/ At("reboot")
    /\ (At("bcb_erase") \/ At("bcb_write")) /\ site = "fw2" => cache = "image"

\* The options that make recovery wipe CACHE and do nothing else before.
WipesCache(o) == "wipe_cache" \in o /\ "wipe_data" \notin o /\ "update_package" \notin o

\* A destroyed CACHE is always covered by a message that has it wiped, except
\* inside the rewriting of that message.
DestroyedCacheCovered ==
    /\ excuse = {} /\ (At("fw_raw") \/ At("fw_image")) =>
        bcb.command # "none" /\ WipesCache(bcb.args)
    /\ excuse = {} /\ cache # "fs" =>
        /\ node # "main"
        /\ node = "bootloader" \/ pc \in {"get_args", "bcb_erase", "bcb_write",
               "command", "erase_cache", "erasing_cache", "fw_image", "reboot"}
        /\ ~At("bcb_write") => bcb.command # "none" /\ WipesCache(bcb.args)
        /\ At("get_args") => node = "lite"
        /\ At("bcb_erase") \/ At("bcb_write") =>
               site = "fw2" \/ (site = "args" /\ WipesCache(opt))
        /\ At("command") => WipesCache(opt)

\* What a start of the lite build makes of the message: its options, else those
\* of the command file.
Restarted == IF bcb.args # {} THEN bcb.args ELSE CommandFile("lite")

\* Options that end in a failure that is shown: a package that is gone, or no
\* command at all.
Fruitless(o) == \/ "update_package" \in o /\ ~pkg
                \/ o \cap {"update_package", "wipe_data", "wipe_cache"} = {}

\* Options that finish what is half done, or fail and show it.
Repairs(o) ==
    /\ data = "partial" => \/ "wipe_data" \in o /\ "update_package" \notin o
                           \/ Fruitless(o)
    /\ system = "partial" => "update_package" \in o \/ Fruitless(o)

HalfDone == data = "partial" \/ system = "partial"

\* Half-erased data and a half-written SYSTEM never go without a message that
\* repairs them, except inside the rewriting of that message.
HalfDoneCovered ==
    excuse = {} /\ HalfDone =>
        /\ node = "bootloader" \/ node = "lite" \/ At("erasing_data")
        /\ Running => pc \in {"get_args", "bcb_erase", "bcb_write", "command", "install",
               "installing", "unlink", "switch", "after", "erase_data", "erasing_data",
               "sd_installing"}
        /\ ~At("bcb_write") => bcb.command = "boot-recovery" /\ Repairs(Restarted)
        /\ At("bcb_erase") \/ At("bcb_write") => site = "args" /\ Repairs(opt)
        /\ At("installing") \/ At("sd_installing") => data # "partial"
        /\ At("unlink") \/ At("switch") \/ At("after") => status = "error"

\* How the lite build comes to do something that can be left half done: the
\* message it has written back is still there, and the command file that would
\* be read instead of an empty message is not.
LiteCovered ==
    excuse = {} /\ node = "lite" =>
        /\ pc \in {"bcb_erase", "bcb_write"} /\ site = "args" /\ opt = {} =>
               CommandFile("lite") = {}
        /\ pc \in {"command", "install", "installing", "unlink", "erase_data", "erasing_data"} =>
               /\ bcb = [command |-> "boot-recovery", args |-> opt]
               /\ opt = {} => CommandFile("lite") = {}
        /\ pc \in {"install", "installing", "unlink"} => "update_package" \in opt
        /\ pc = "installing" => pkg
        /\ pc \in {"erase_data", "erasing_data"} =>
               "wipe_data" \in opt /\ "update_package" \notin opt
        /\ pc \in {"menu", "sd_install", "sd_installing"} => CommandFile("lite") = {}
        /\ pc \in {"bcb_erase", "bcb_write"} /\ site = "sdcard" => CommandFile("lite") = {}
        /\ pc \in {"sd_install", "sd_installing"} =>
               bcb = [command |-> "boot-recovery", args |-> {}]
        /\ pc = "switch" /\ status = "success" =>
               \/ bcb.command = "boot-recovery" /\ "update_package" \in bcb.args /\ ~pkg
               \/ cmd["full"] = {}

\* The full build writes no message before it acts.  It gets to act without an
\* excuse only after the lite build has installed and removed a package, and
\* then the lite build's message leads to a failure that is shown.
FullCovered ==
    excuse = {} /\ node = "full" =>
        LET Spent == bcb.command = "boot-recovery" /\ "update_package" \in bcb.args /\ ~pkg
        IN  /\ pc = "get_args" => Spent \/ cmd["full"] = {}
            /\ pc = "command" => Spent \/ opt = {}
            /\ pc \in {"install", "erase_data", "erasing_data"} => Spent
            /\ pc \notin {"installing", "switch", "prompt", "menu", "sd_install", "sd_installing"}
            /\ pc \in {"bcb_erase", "bcb_write"} => site # "args"
            /\ cont # "switch"
            /\ system # "partial"

\* Without an excuse the menu belongs to the lite build, and only the erase
\* asked for by the command or after a firmware image is under way.
MenuIsLite ==
    excuse = {} =>
        /\ (At("prompt") \/ At("menu")) => node = "lite"
        /\ (At("bcb_erase") \/ At("bcb_write")) /\ site = "sdcard" => node = "lite"
        /\ (At("bcb_erase") \/ At("bcb_write")) /\ site = "finish" =>
               cont = "reboot" \/ (cont = "menu" /\ node = "lite")
        /\ At("fin_unlink") => cont = "reboot" \/ (cont = "menu" /\ node = "lite")
        /\ At("erase_data") \/ At("erasing_data") \/ At("erase_cache") \/ At("erasing_cache") =>
               cont \in {"switch", "after", "finish"}

RestartCovered == HalfDoneCovered /\ LiteCovered /\ FullCovered /\ MenuIsLite

\* The message of set_sdcard_update_bootloader_message stays until the package
\* is installed.
SdcardOrdered ==
    (At("sd_install") \/ At("sd_installing")) /\ "misc" \notin excuse /\ (Bootstrap => cache = "fs")
        => bcb.command = "boot-recovery"

\* "after this, rebooting will restart the erase", without the reservation for
\* a torn BCB write.
ErasePromise == node = "main" /\ excuse \subseteq {"torn"} => data # "partial"

\* "Remove the command file, so recovery won't repeat indefinitely": once the
\* menu is up, no command is left for the lite build to run again.
CommandForgotten == At("menu") => cmd["lite"] = {}

\* The loader and the recovery process always take their next step, and the user
\* at the menu eventually chooses "Reboot System".
Fairness == /\ WF_vars(Loader)
            /\ WF_vars(Program)
            /\ WF_vars(MenuReboot)

LiveSpec == Spec /\ Fairness

\* The phone comes back to the main system: no sequence of power losses leaves it
\* rebooting into recovery for ever.
ReturnsToMain == node # "main" ~> node = "main"

\* Once get_args has put --wipe_data into the BCB, the user data does get erased,
\* or one of the reserved events has happened.
EraseCompletes ==
    (bcb.args \cap {"wipe_data", "update_package"} = {"wipe_data"})
        ~> (data = "empty" \/ excuse # {})
=============================================================================
