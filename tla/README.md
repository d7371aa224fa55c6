# Open Recovery: a TLA+ model

Open Recovery is a replacement for the recovery system of Motorola Android
phones: a program that the boot loader starts instead of the main system, that
wipes partitions, installs packages, patches files in place and offers menus and
scripts from the SD card. What makes it hard to get right is that it works on
flash memory whose power can be taken away at any time, that it talks to the
boot loader, to the main system and to shell scripts through files, a message
block and shared memory only, and that almost none of it can be tested without
a phone.

Beside it the repository carries the programs recovery depends on: a bootstrap
shell (`btsh`, an ash), the adb daemon with its host side, and the tools that
make patches. This directory models the logic of all of them. Paths below are relative to
`src/src/bootable/open_recovery/` unless they start with `src/`.

## 1. Inventory

| Component | State it keeps | Operations | What is hard |
|---|---|---|---|
| Boot protocol: `recovery.c` (main), `bootloader.c`, `firmware.c` | the bootloader control block (BCB) in MISC, the command and intent files on CACHE, the package, the remembered firmware image | `get_args`, the reset, the install, `finish_recovery`, `set_bootloader_message`, `maybe_install_firmware_update`, the switch from the lite to the full build | power loss between any two writes; the block is erased before it is written; two builds with two command files |
| Script runner: `install.c` `run_shell_script`, `imenu/` | pipe, child, page of shared memory with two trigger words | start, poll, print, show menu, answer, clean up; `imenu` fills, triggers, waits | three parties without a lock, output racing the exit, a page reused by the next menu |
| Menu: `recovery.c`, `ui.c`, `default_recovery_ui.c` | stack of menu files, scripts and selections, loaded entries, scroll window, tags | highlight, select, open, back, tag, run script, wipe and install with confirmation | menus rewritten by scripts while a selection is remembered; failed loads; display toggled by a key chord at any time |
| Incremental patching: `applypatch/applypatch.c`, `freecache.c`, `updater/install.c` | files and partitions, `.patch` outputs, one saved copy in /cache | check, make room, save, unlink, patch, rename, flash, clean | power loss with the only good contents in the copy; retries; the cleaner working where the copy lives |
| Patch formats: `bsdiff.c`, `bspatch.c`, `imgdiff.c`, `imgpatch.c` | suffix array, three streams, chunk lists | sort, scan, write, read back; cut, classify, merge, patch, rebuild | overlapping matches, parallel chunk lists, short writes nobody looks at |
| Package installer: `install.c` | command pipe of the update binary, firmware hand-over | `install_package`, `try_update_binary`, `handle_firmware_update` | commands of a child that dies, a pipe others keep open |
| Updater and edify: `updater/`, `edify/` | mounts, expression values | file-system and flash functions, evaluation | aborts from deep inside, functions that report success too early, `""` as failure |
| MTD access: `mtdutils/` | position, buffered block, bad blocks | read, write, erase, the three image programs | retries, bad and worn blocks, power loss inside a block |
| Roots: `roots.c`, `mtdutils/mounts.c` | kernel's table and the copy of it | mount, unmount, format | a bounded buffer, a copy that is stale, partial failure of several mounts |
| Screen: `ui.c` | layers, progress, text ring, colours, LED | draw, print, progress and LED threads | what is on the display against what was drawn, threads that outlive their purpose |
| Console: `console.c`, `ui.c` | child on a pseudo-terminal, key queue, rows with a window and a cursor | feed, read, force quit, escape sequences | full queue, output racing the exit, cursor at every edge |
| Zip: `minzip/` | sorted entries, hash table | open, look up, extract a directory | probing with tombstones, an error hidden by an inner variable |
| Shell: `btsh/` | job table, saved descriptors, traps and pending signals, variables with local frames, stack of inputs and aliases, command table | fork, wait, fg, bg; redirect and undo; trap, signal; set, local, unset; alias, eval, ".", break, return; hash, cd | signals between any two steps, children that end at any time, texts shared between owners, jumps through nested constructs |
| adb: `src/src/system/core/adb_bash` | sockets, transports with reference counts, event list, forwards, trackers, USB handles, socket pairs | packets, connect, forward, push, pull, sync, kick, reap, start and replace the server | several threads and processes, messages older than a restart, closes that race reads |
| Backup scripts: `src/sdcard/bin/nandroid-*.sh` | images with checksums on the SD card | backup, restore, delete | one step of several failing |

Interaction: the main system leaves a command file and reboots with the BCB
set; the boot loader reads the BCB; recovery copies the command into the BCB,
acts, resets the BCB, removes the file and reboots. An install runs the updater
of the package, which runs apply_patch, and may hand a firmware image back to
recovery, which passes it to the boot loader through a raw CACHE. The menu runs
scripts through the script runner; a script may put questions to the user
through imenu. A crash of the updater is a crash of the same phone: recovery
starts the same script again because the BCB still says so. Scripts and the
console are run by a shell; a host reaches the phone through adb, which starts
shells and transfers files while recovery runs.

`PROJECT.json` lists every component with its status and every hazard with its
line and the properties that cover it.

## 2. Modules

| Module | Models | Run |
|---|---|---|
| `RecoveryBoot` | boot protocol | `boot_*` |
| `ScriptRunner` | `run_shell_script` and `imenu` | `script_runner` |
| `MenuDialog` | abstract: a question is put once and answered once, with one of its entries | refined by `ScriptRunner` |
| `MenuStack` | `prompt_and_wait`, `create_menu`, selection and scrolling | `menu_stack` |
| `ApplyPatch` | `applypatch`, `applypatch_check`, `freecache` | `apply_*` |
| `AtomicUpdate` | abstract: every file is old or new, files go over in order, none is ever lost, and success is reported only when all are new | refined by `ApplyPatch` |
| `UiScreen` | display, progress bar, text overlay, lamp and its thread; colour properties | `screen` |
| `UiTerminal`, `ConsoleSession` | terminal of the console screen; `run_console` with the input and cursor threads and the shell | `screen` |
| `Volumes` | `roots.c` and `mounts.c` | `package` |
| `PackageInstall`, `Edify` | `install_package` and the update binary; the interpreter with the updater's functions | `package` |
| `MtdFlash` | `mtdutils.c`, `flash_image`, `dump_image`, `erase_image`, `write_raw_image` | `package` |
| `ZipReader` | `Zip.c`, `DirUtil.c`; `Hash.c` | `package`, `zip_extract` |
| `BsDiff`, `ImgDiff` | `bsdiff.c` and `bspatch.c`; `imgdiff.c` and `imgpatch.c` | `package` |
| `ShellJobs`, `ShellRedir`, `ShellTraps` | `jobs.c`; `redir.c` with the pipelines of `eval.c`; `trap.c` with `error.c` | `shell` |
| `ShellVars`, `ShellInput`, `ShellRun`, `ShellExec` | `var.c`; `input.c` with `alias.c`; control flow of `eval.c`; `exec.c` | `shell` |
| `AdbStreams`, `AdbTransport`, `AdbEvents` | sockets over packets; the threads of a transport; the event loop | `adb` |
| `AdbServer`, `AdbClient`, `AdbJdwp`, `AdbSync` | the server's books; clients that start and replace it; the debugger registry; file transfer | `adb` |
| `AdbUsb`, `AdbPairs` | USB handles on Linux; socket pairs on Windows | `adb` |
| `MCMenuStack`, `MCApplyPatch` | scripts and menus for TLC | |
| `MCScreen`, `MCInstall`, `MCPackage`, `MCShell`, `MCAdb` | the composed runs; `MCInstall` is the part of `MCPackage` that is proved about | |
| `RecoveryBootProofs`, `ScriptRunnerProofs`, `MenuStackProofs`, `ApplyPatchProofs`, `MCScreenProofs`, `MCInstallProofs`, `MCAdbProofs` | theorems and proofs | |

`MCScreen`, `MCPackage`, `MCShell` and `MCAdb` gather the parts of one subsystem
in one run. A variable `part` says which one a behaviour exercises, the others
keep an initial state; the properties are the conjunctions of those of the
parts. The parts do not share state: where one calls another, the caller's
module has the other's outcomes as a choice.

Operators whose names end in a suffix after an underscore (`Check_SkipsLast`,
`Wire_Slip`) are variants of the definition that follows them, with a slip a
programmer could make. They are used to test the properties: with the variant in
place of the definition TLC must report the property violated. `PROJECT.json`
lists 112 of them.

### RecoveryBoot

Flash: `bcb`, `cmd` (one command file per build), `pkg`, `intent`, `cache`
(`fs`, `raw`, `image`), `data`, `system`, `radio`. Volatile: `node` (who is
running: main, bootloader, lite, full), `byKey`, `pc`, `site` (which call of
`set_bootloader_message` is under way), `cont`, `opt` (parsed options),
`status`, `pending` (a remembered firmware image). `excuse` is a history
variable: it collects the events after which the code makes no promise (`torn`:
power lost between erase and write of the BCB, `reported`: the failure was
shown in the menu, `switched`: the lite build handed over after a failure,
`menu`: the user wiped from the menu, `misc`, `format`: these devices failed).

| Action | Code |
|---|---|
| `MainWritesCommand`, `MainRebootsIntoRecovery`, `BootMain`, `BootUpdatesFirmware` | external: main system and boot loader, from how recovery.c:60-98 and firmware.c:46-77 describe and use them |
| `BootRecovery` | external, with `check_boot_to_or` for bootstrap phones |
| `EraseMessage`, `WriteMessage`, `WriteMark`, `MessageFails` | `set_bootloader_message`: erase, write, the bootstrap mark, its error returns |
| `GetArgs`, `GetCmdFileArgs`, `Dispatch` | `get_args`, the full build's reading of its command file, the branches of `main` |
| `InstallBegins`, `InstallSucceeds`, `InstallFails`, `UnlinkPackage` | `install_package` and what `main` does with the result |
| `EraseDataBegins/Ends`, `EraseCacheBegins/Ends`, `EraseFails` | `erase_root`, `format_root_device` |
| `SwitchToFull`, `StayLite`, `AfterSwitch` | the switch at the end of the lite build's `main` |
| `PromptAndWait`, `MenuReboot`, `MenuWipe`, `MenuInstall` | the entries of the menu that write flash |
| `FinishRecovery`, `UnlinkCommand` | `finish_recovery` |
| `MaybeInstallFirmware`, `WriteUpdateBegins/Ends/Fails`, `Reboot` | `maybe_install_firmware_update`, `write_update_for_bootloader`, the reboot |
| `Crash` | loss of power: everything volatile is gone |

Message text is abstracted to the command and the set of options; file contents
to whether they are whole.

### ScriptRunner

Three processes: the runner (`rpc`), the script with its imenu (`sh`), the user.
Output is an amount: written, in the pipe, printed. The shared page is a record
with header, entries and the two triggers; stores to it are separate steps, in
the order of the code, because the two processes run on without a lock. Opening
the node, mapping it and `fork` may fail. An entry is tagged with the menu it
was written for, so an entry of an earlier menu can be told apart.

### MenuStack

A menu file is a sequence of entries with an action and a target; scripts may
replace a file by any of its `Versions`. State: `menu_files`, `menu_scripts`,
`menu_sel`, `menu_level`, the loaded entries (`shown`, `marked`, `shownFile`),
the window (`selected`, `menu_item_top`), `override` (the selection the next
menu starts with), `visible`. One action per case of `prompt_and_wait`, and one
for each stage of the confirmations. `assent` records how an irreversible action
came about.

### ApplyPatch

A file is its contents; a hash stands for the contents it is the hash of. The
script is external: it checks all files, makes room, patches them in order and
stops at the first failure, as scripts of the release tools do with `assert`.
(Edify goes on after a bare `apply_patch` that returns `""`; such a script could
overwrite the copy and is outside the model.) `fs`, `out`, `saved` and `junk`
survive a power loss. Each call that changes flash is a step of its own, and
writes that can be cut in half are two (`SaveBegins/Ends`, `FlashBegins/Ends`).

### Screen and console

`UiScreen` describes the surface drawn into (`mem`) and the page flipped to
(`shown`) by their layers; every function of `ui.c` holds `gUpdateMutex` from
its first to its last line, so a call is one action, and so is a round of the
progress thread. `UiTerminal` takes one chunk read from the shell as one action
and works its characters and escape sequences off in order; letters are kept as
the set of cells that are not blank. `ConsoleSession` interleaves `run_console`,
the input thread with its key queue, the shell on the pseudo-terminal and one
cursor thread per opened console. The lamp with its blinking thread is part of
`UiScreen`, and so are the parsing and the fall-back of the colour properties
(`ColorInit`, `ColorNext`).

### Volumes, packages and flash

`Volumes` keeps the kernel's table apart from the copy the recovery reads into
its buffer; scripts mount and unmount behind its back. `PackageInstall` has the
recovery and the update binary as two processes joined by a pipe of lines; the
binary may end in any way after any line and leave programs behind that hold the
pipe. `Edify` evaluates an expression as a recursive function over the state of
the updater, one branch per registered function; calls that act on the device
are recorded in order, and any of them may fail. `MtdFlash` takes one ioctl, read
or write as a step, so that power can fail between any two; blocks may be bad
from the start, wear out, or lose a bit. `ZipReader` has the
table of entries, the probing table (`HashInit`, `HashNext`) and the recursive extraction with every
system call a separate step that may fail. `BsDiff` sorts, scans, writes the
three streams and reads them back; offsets keep their byte-wise sign encoding,
with base and width as constants. `ImgDiff` cuts a file into chunks, finds those
it can rebuild, merges, and puts the target together again; a bsdiff patch is
the pair of contents it was made from, which `BsDiff` justifies.

### Shell

`ShellJobs` has the table of jobs, children that end, stop and continue on their
own, and subshells that inherit a table of jobs they have no children of.
`ShellTraps` lets a signal arrive between any two steps. `ShellRedir` has a table
of descriptors, `ShellVars` the blocks of memory that hold the texts and who may
free them, `ShellInput` the stack of inputs with the texts of aliases pushed in
front, `ShellRun` the constructs under way as a stack of frames with `evalskip`,
and `ShellExec` the command table against a search made afresh. Words, patterns
and arithmetic are left out: none of the properties depends on them.

### adb

`AdbStreams` has both ends of a transport with their sockets and the packets
between them; the cable may be pulled and the server restarted at any time.
`AdbTransport` has the three threads of a transport and its reference count,
`AdbEvents` the loop with its callbacks, `AdbServer` the list of transports,
forwards, trackers and waiting threads, `AdbClient` several commands that look for
or replace a server at once, `AdbJdwp` and `AdbSync` two services, `AdbUsb` the
threads of a USB device with the kick, and `AdbPairs` one direction of an emulated
socket pair at the granularity of its lock and its two events.

## 3. Runs

| Run | Result | Question and bounds |
|---|---|---|
| `boot_crash` | holds, 3.2 million states | Two requests, two power losses, one menu operation, MISC and format failures: `TypeOK`, `UpdateImageComplete`, `CacheUsable`, `Restartable`, `SdcardInstallProtected` |
| `boot_live` | holds | One request, two power losses, no failing devices: `ReturnsToMain`, `EraseCompletes` |
| `boot_bootstrap` | holds | The same on a bootstrap phone: `SdcardInstallProtected`, `ReturnsToMain` |
| `script_runner` | holds, 350 000 states | Two scripts, three menus, four units of output through a pipe of four read two at a time, up to one entry more than fit: `TypeOK`, `TailKept`, `LoopOrdered`, `MenusExact`, `ImplementsDialog`, `RunReturns` |
| `menu_stack` | holds, 170 000 states | Menus of the shapes the scripts of `src/sdcard/bin` write, four levels, three entries on the screen: `MenuTrue`, `ChoicesSafe`, `BackRestores` |
| `apply_patch` | holds, 15 000 states | Two files, one with two patches in its list and one with a single patch, and two partitions, two power losses, one failing call, one retry by the user, files found old, new or damaged, four kinds of left-over copy: `TypeOK`, `CheckPredictsApply`, `NothingTouched`, `ImplementsUpdate`, `UpdateCompletes` |
| `apply_retry` | violated | `Idempotent`: finding 1 |
| `screen` | holds, 417 000 states | `ScreenRight`, `SessionRight`, `NoStepBack`, `ScreenSettles` |
| `package` | holds, 433 000 states | `InstallSafe`, `ScriptHonest`, `ArchiveRight`, `FlashRight`, `VolumesSafe`, `InstallReturns` |
| `zip_extract` | violated | `ExtractTold`: finding 2 |
| `shell` | holds, 555 000 states | `ShellSafe`, `ShellSteps`, `ShellSettles` |
| `adb` | holds, 371 000 states | `TransfersRight`, `ThreadsSafe`, `RegistryTrue`, `AdbSettles` |

`Restartable` is `NoHalfErasedData` and `NoHalfInstalledSystem`; `LoopOrdered`
is `OutputAccounted` and `HandshakeOrdered`; `MenusExact` is `OwnItemsFirst` and
`FirstMenuExact`; `MenuTrue` and `ChoicesSafe` hold the invariants of the menu:
what is shown against the stack, the window and the tags, and what may be
selected or set off. The properties of the composed runs are conjunctions of the
properties of their parts, each stated with its comment in the part's module:

- `ScreenRight`: what has been flipped to is what the state says
  (`DisplayCurrent`), the overlay ends with the newest lines
  (`OverlayShowsTail`), the cursor is in its line and on the screen and every
  row it names exists, scrolling stops at the ends of the history, the title has
  the menu's colour unless set (`TitleFollowsMenu`), digits are read right.
- `SessionRight`: keys reach the shell in the order they were pressed, what the
  shell wrote before it was seen to end is printed but for the window at
  console.c:479, and no console closes over a shell that is not reaped.
  `NoStepBack`: a normal bar never moves back, and a title colour that was set is
  kept.
  `ScreenSettles`: a session whose shell is gone ends, cursor threads of closed
  consoles end, the lamp becomes what was last asked for.
- `InstallSafe`: what is kept for the boot loader is the first firmware command of
  a binary that ended well; a script runs over the whole tree of its package and
  nothing of an earlier one, and nothing extracted stays behind, but for an entry
  hidden by finding 2 and an `rm -rf` that failed, whose result the code ignores. `InstallReturns`: it ends once the binary and what it started
  have ended. `ScriptHonest`: nothing
  happens after an abort, the exit status tells how the script ended, `assert`
  guards what follows. `VolumesSafe`: no mount is stacked on another, only what
  is not mounted is formatted, success means mounted.
- `ArchiveRight`: the hash table is the set put in; the entries are sorted and
  an extraction creates exactly the tree that was asked for; the suffix array is
  sorted, every match is one, a patch makes the new file out of the old, a
  damaged one is refused or, cut inside a compressed stream, never ends, and
  the same through chunk lists, merges and a short write that nobody noticed.
- `FlashRight`: the new header on flash means that everything beyond the first
  block is there, unless a good block was given up as worn; an exit status of 0
  means that the image is on the good blocks in order; a dump is the contents up to
  a hard ECC error.
- `ShellSafe`, `ShellSteps`, `ShellSettles`: see the `...Safe` and `...Steps` of
  the seven shell modules: the list of current jobs is well formed and no child
  is forgotten; a descriptor saved while it was open comes back; a signal noted
  is known to be pending; no variable's text is freed twice or in use, and no
  character of an input is lost; break, continue and return stop at the
  construct they mean; a lookup finds what a search finds; waits end and inputs
  are read to their end.
- `TransfersRight`: data arrive in order, one packet in flight, end of file after
  the data, except on streams asked for while a CNXN of the other side is still
  unanswered (the named exception `early`: a stale CNXN mixes two sessions); a push
  or pull that reports success has moved the whole file and none is left half,
  except behind an unlink or a read that failed. `ThreadsSafe`: one thread at a time works through the sockets of a
  transport, a transport is freed after its threads, the buffer of a socket pair
  is a queue, a USB handle is freed after its threads and no writer misses the
  end of its transfer. `RegistryTrue`: pending events belong to registered
  descriptors, forwards and
  list entries belong to live transports, trackers have the newest list,
  debugger descriptors are accounted for, a client is served by its own version.
  `AdbSettles`: nobody waits for ever on what is gone.

Each of them was also checked part by part, and where a composed run would take
too long with a larger bound, a part alone with it: `AdbStreams` with three faults and
one packet of data (166 000 states);
`ShellJobs` with two outside events (229 000 states), `ShellRedir` with three
commands (3.6 million, safety only), `ShellTraps` with three events (760 000), `ShellVars` with six texts
(3 million), `ShellInput` with four events, `ShellRun` without `-e` (4.4
million), `ShellExec` with eight operations.

Why the bounds are enough. Two power losses include one during the recovery
from the other. A second request starts from every state the first one can
leave behind. The script constants keep the relations of the code: the pipe
holds more than one read, more arguments than array places exist, and three
menus make a long menu, a short one and one of a second script possible. Four
menu levels have a root, an inner level, and the level at which the depth test
acts; menus are longer than the screen. The patch script has a first, an inner
and a last file, files and partitions, a target apart from its source, and lists
with one and with two patches. The key queue holds two keys and three events
happen, so that keys wait behind each other and one is dropped. The cable is pulled
or the server restarted twice in all, with two streams; files have two blocks and
may exist before. The flash has four blocks of two units with images
of half a block to nearly all of them, so that a bad block in front of, inside
and behind the image occurs, and an image that no longer fits; two faults allow
one in each pass. All binary files of
up to four letters against all of up to five exercise every branch of the suffix
sort at its small-group bound of three. The shell's table grows once, descriptors
exist below and above the saving bound, inputs are longer than a read. Three
clients with different commands meet every order of looking, killing and
starting, also with a server of another version.

Deadlock is checked in the boot and menu runs (a menu that has been left is an
explicit `Stopped` step). It is not checked in the others, where the system really
stops: when the bounded number of scripts, events or operations is used up, and
when the update has ended.

### Fairness

`boot_live`, `boot_bootstrap`: weak fairness of the boot loader and of the
program, which are sequential code that always has a next step, and of
`MenuReboot`, since a user who never leaves the menu keeps the phone in
recovery. `Crash`, requests and the other menu entries are not fair.
`script_runner`: weak fairness of each process, scheduled by the kernel, and of
the user answering a menu. The polling loops sleep and do not exclude the
others. `RunReturns` has one exception, the failed mapping of hazard
install.c:415. `apply_patch`: weak fairness of the updater and of `Start` after
a power loss, which `RecoveryBoot` justifies; `Retry` is not fair. `screen`: of
`run_console`, of each cursor thread and of the LED thread, not of the user and
the shell. `package`: of the recovery's steps in an installation only; nothing is
assumed of the update binary and its programs, and `InstallReturns` says what
follows. `shell`: of the shell's own steps and of children running to their end,
not of users, signals and stops: the user's interrupt of a `wait` is not fair, and
neither is the next command of an interactive shell; only the shell that reads a
script, a subshell or a trap's action has its next command before it. `adb`: of the threads and of noticing a device
that is gone, not of users, devices and the programs at the ends of a stream.

## 4. Proofs

All theorems hold for every value of the constants that satisfies the named
assumptions: for any number of power losses, requests, menus, files, keys,
packets and devices. The invariants they use are stated in the modules of the
components and were checked by TLC before they were proved.

**RecoveryBootProofs.** `TypeCorrect`; `FlashesCompleteImage`
(`[]UpdateImageComplete`); `CacheRecovered` (`[]CacheUsable`);
`SdcardProtected` (`[]SdcardInstallProtected`); `RestartsSafely`
(`[]Restartable`). `CacheRecovered` and `RestartsSafely` assume that the phone is
no bootstrap phone, whose mark is a file on the very CACHE that is destroyed and
which is not written for a reset.
`UpdateImageComplete` is not inductive: a step that destroys the image says
nothing of the message. `FlashOrdered` adds that the flashing message exists
only from the last step before the reboot until the loader has acted, and that
the image is whole throughout the writing of that message.
`DestroyedCacheCovered` says, step by step, that a destroyed CACHE comes with a
message, or with parsed options about to become the message, that has it wiped.
`SdcardOrdered` follows the message from where it is written to the end of the
install. `RestartCovered` says at each place of `main` what finishes half-done
work, or fails and shows it: the options in the BCB, the command file that is read
when there are none, or the options parsed and about to be written back
(`HalfDoneCovered`). How the two builds come to be there with nothing excused is a
part of it each (`LiteCovered`, `FullCovered`): the full build writes no message
before it acts, and acts only after the lite build has used up a package, whose
message is still there.

**ScriptRunnerProofs.** `TypeCorrect`; `LoopStaysOrdered` (`[]LoopOrdered`);
`TailIsKept` (`[]TailKept`), from `OutputAccounted`, which relates what was
written, what is in the pipe and what was printed at each place of the loop;
`DialogImplemented` (`Spec => ImplementsDialog`), from `HandshakeOrdered`, which
fixes where both processes are for each value of the triggers. The three are
inductive together: typing of the printed amount needs the accounting.
`MenusAreExact` (`[]MenusExact`) adds `EntriesInPlace`: from the store of the last
entry until the runner has collected them, the entries of the imenu that waits
are in their places, and before a script's first menu the page is empty.

**MenuStackProofs.** `MenuStaysTrue` (`[]MenuTrue`), `ChoicesStaySafe`
(`[]ChoicesSafe`), `BackReturns` (`Spec => BackRestores`), for menus of any
shape, under hypotheses on what scripts write: `MenusKept` (the main menu stays,
a menu that may be removed leads nowhere but back and shows no tags, a menu lists
a tag once) and, for the last, `EntriesKept` (a rewritten menu keeps its entries
that open submenus in place). Without the first the code removes two levels
(`MCVanishing`, section 5). `MenuInv` adds to the two invariants where the
entries on the screen come from (`ShownFromFile`), that every open level below
the top has a menu that can be read again (`ParentsKept`), and that the entry acted
upon exists (`ChosenThere`). `BackReturns` needs `LeftThrough` besides: in every
version of a parent's file the remembered place is an entry for the level above it.

**ApplyPatchProofs.** `TypeCorrect`; `Invariance` of `IInv`; `UpdateImplemented`
(`Spec => ImplementsUpdate`); `LostTouchesNothing` (`Spec => NothingTouched`);
`CheckPredicts` (`[]CheckPredictsApply`).
Assumptions: the script patches no file twice and no new contents are a source
of another patch (`ScriptAssumption`), a left-over copy belongs to the first
file (`LeftOverAssumption`), and, as a hypothesis of all but the first, partitions
have one patch each (`SinglePatchPartitions`). The hypothesis is needed because
with a longer list the copy of a partition is used and truncated (see
`Recoverable` below). `IInv` consists of `TypeOK`, `CopyOrdered` (what the copy
holds at each place), `Checked` (every file still to be patched is patchable),
`InOrder` (which files are done), `NoNewCopies` and `Established` (what the
locals guarantee). Its core is the lemma `OneHollow`: at most one file at a time
depends on the copy, the one being patched, so that overwriting the copy for the
next file loses nothing. `CheckPredicts` holds for lists of any length and contents.
`CheckPredictsApply` names what apply_patch turns down after the check
(`Stuck`): a partition whose write was interrupted, and the file of finding 1, gone
and with a copy that fits the first of its list. The further hypothesis
`CheckedEnough` says that a file is not built from a partition and that a left-over
copy is not one of a partition. `PartitionCopies` says that a partition
depends on the copy only after its own write was interrupted.

**MCScreenProofs.** `SessionStaysRight` (`[]SessionRight`): keys in the queue, keys
taken and keys accepted are related by `KeysInOrder`, chunks by `ChunksCounted`,
and `ShellKnown` says for each place of `run_console` what is known of the child.
`NeverStepsBack` (`Spec => NoStepBack`), from `ScopeInRange`: the progress of a
scope never exceeds the scope, so that a new scope, which starts where the last
one would have ended, does not start before what is shown.
`DisplayStaysCurrent` (`[]Scr!DisplayCurrent`), from `SurfaceKnown`: while
`gPagesIdentical` is set the surface drawn into holds what the state says, which is
what allows `update_progress_locked` to draw the bar alone.
Assumptions: queue and bar have a size (`ScreenSizes`).

**MCAdbProofs.** `ThreadsStaySafe` (`[]ThreadsSafe`), with one invariant per part.
*Transport:* `StopOnce` follows the packet that stops a transport: it is sent once, as
the last packet of the output thread, and is in one place at a time; the main
thread has finished its walk when the input thread gets it. `RefsCounted` equates
references and threads. *USB:* for each handle, `Counted` relates references,
threads, the list and the release, and a writer that waits for no transfer has
been woken. *Socket pair:* `LockHeld`; `Regions` (region B lies below A, and there is
one only when A reaches the end); `BytesInPlace` (each byte of the stream is where
the regions say); `FlagsKnown` (the two flags are right except for the one that
the thread inside is about to set). A write fills A to the end and then B up to A,
a read empties A and makes B the new A; the proof follows the bytes through both,
for any buffer size and any cut into reads and writes. Assumptions: the buffer
holds something, devices are counted (`AdbSizes`).

`RegistryStaysTrue` (`[]RegistryTrue`), again with one invariant per part. *Events:*
`PendingSound` is inductive once every place of the list is known to be a
registered descriptor; that a list without repetition is as long as its set is
counted by ranks. *Server:* the list of transports is a chain of pointers, and
what a walk over it finds is the only chain from the head (`Follows`, `Ended`).
`Threaded` relates the chain to the transports on it, `NotPointedTo` says that
nothing points to one that was taken off, `PostedOnce` and `HungUp` that a
registration or removal is posted once and a forward hangs on the disconnect list
of its own transport. *Debuggers:* `QueuesApart`, `QueuesMarked` and `MarkedQueued`
count a descriptor at one place of one queue; the list that trackers are told is the
known pids in the order of the processes, and a process that is inserted or taken
away shifts the places behind it. *Clients:* `SessionsKnown` (a connection leads to
the server it was made to, numbers are not used again), `NobodyPastOld` (no
client gets past a server of another version), `ChildAwaited`, `SomebodyStarts` (a
port nobody owns is on its way to a new owner). Assumptions: descriptors are
counted, pids are numbers and a process has room for some of them, transports are
finitely many, versions differ from each other and from none (`AdbDescriptors`,
`AdbProcesses`, `AdbTransports`, `AdbVersions`).

**MCInstallProofs.** `InstallStaysSafe` (`[]InstallSafe`): at every moment what the
binary has written is what was obeyed followed by what is in the pipe, so that at
the end of a pipe nobody writes to everything was obeyed (`CommandsOrdered`, which
also says at each place of the two processes what has been extracted, stored and
reported). `TreeInv` does the same for the tree of an installation by script: what
is known of it at each place (`TreeKnown`), and that it is gone at the end unless a
sweep failed (`TreeSwept`); each `rm -rf` may fail and an extraction may report
success with a part of the tree, as finding 2 has it. `VolumesStaySafe` (`Spec => VolumesSafe`): the table always begins with
the root file system, which stays busy, and holds volumes of roots that can be
mounted or of scripts (`VolumesInv`). One lemma for a mount and one for an unmount
say what a call does to any table; the calls that go through several roots
compose them. A scan that fits the buffer is the table itself, which is where the
hypothesis of `VolumesSafe` is used. Assumption: buffer, pipe and scripts have a
size (`InstallSizes`).

`FlashStaysRight` (`[]FlashRight`), for every size of partition and block, every
image, every set of factory-bad and of failing blocks, any number of errors and of
power losses. The argument counts units: `Upto(b)` is the number of units on the
good blocks in front of block b, and the lemmas `UnitsBefore` and `Places` say
that it grows by a block at a good block and not at a bad one. `FlashInv` has
where each program may be (`ProgramsOrdered`), that the bad blocks were recorded in
ascending order and lie in front of the block written next (`BadAscending`), and,
while nothing was given up: the blocks in front of the one written next hold the
stream that the program writes, unit for unit, the block in `write_block`, the
context's buffer and what was handed over are what follows in it, and together
they account for what was read of the file (`DataInPlace`); the second pass of
`flash_image` starts with the body in place and ends with the first block
written (`PassesOrdered`); what `write_raw_image` has written is followed by erased
blocks (`TailErased`); a dump is the readable blocks in front of its place
(`DumpInPlace`). These conjuncts are not implied by `FlashRight`, which speaks of
the programs that have ended and of the header only: a header found in any state
between two ioctls says nothing unless the place of the block being written is
known. A step that touches the device changes only the block at w.pos; it is the
first good one, whose header cell then holds zeros, an erased unit or garbage, or
it is behind a first block that begins with zeros, or the body is already in
place (`HeaderOff`). `WriteStart` is an induction over the list of bad blocks,
carried out on the set of positions (`AllNumbers`), since `mtd_find_write_start` is
a recursive function. Assumptions (`FlashSizes`): there is a block and a unit in
it, an image is not empty, and its header differs from zeros, from an erased unit,
from garbage and from the old contents; the last is the case in which
`flash_image` has something to do.

**Only model-checked.** Liveness (`ReturnsToMain`, `EraseCompletes`,
`RunReturns`, `UpdateCompletes`, and the `...Settles` and `...Returns` of the
composed runs), which the prover does not handle. The rest of `ScreenRight`: the
terminal works a chunk off by a fold over its characters, and what a fold
computes needs induction over data. `ScriptHonest` and `ArchiveRight` for the
same reason: `Edify`, `BsDiff`, `ImgDiff` and the extraction are defined by
recursion, which keeps the prover from every property stated in `MCPackage`;
what can be proved is stated in `MCInstall`, which `MCPackage` extends.
`TransfersRight`, `ShellSafe` and `ShellSteps` are not proved.

## 5. Findings

1. `apply_retry`, applypatch/applypatch.c:591: a copy that fits the first patch is
   refused, so a power loss after the unlink makes the package inapplicable.
2. `zip_extract`, minzip/Zip.c:1124: an inner `ok` hides the outer one, and an
   extraction that failed half-way reports success.

### Statements of the code that do not hold

These are defined in the modules, and a configuration with the constants of the
named module and the statement as its only property shows a counterexample.

| Statement | Where | What the code says |
|---|---|---|
| `ErasePromise` | bootloader.c:161: the BCB is erased before it is rewritten; power lost in between makes the phone forget a reset that has begun (boot constants, two power losses) | "after this, rebooting will restart the erase", recovery.c:67 |
| `CommandForgotten` | recovery.c:367: a command executed by the lite build is not removed after the switch to the full build (no power loss needed) | "so recovery won't repeat indefinitely", recovery.c:365 |
| `OffersOwnItemsOnly` | imenu/imenu.c:68: a second, shorter menu shows entries of the first | src/CHANGELOG:143 |
| `ShowsTopOfStack` with `Versions <- MCVanishing` | recovery.c:1065: going back to a menu whose file is gone removes two levels | "if fail, remove the new menu", recovery.c:1063 |
| `Recoverable` | applypatch/applypatch.c:638: a retry truncates the only copy of a half-written partition | applypatch.c:632 |
| `SignalsWanted` (`AdbEvents`) | fdevent.c:467: the events that are wanted are cleared from the pending ones, and those no longer wanted are kept | the comment at fdevent.c:463-465 |
| `WaitTells` | btsh/jobs.c:639: `wait` returns an arbitrary status in an interactive shell | btsh/sh.1:1771 |

### Other disagreements met while modelling

The models do what the code does; the properties are stated around these cases,
each of which is named where the property excepts it.

Boot and menu:

- recovery.c:1322 unlinks the package before the BCB is reset; the comment at
  recovery.c:79 promises that a reboot attempts the install again.
- bootloader.c:117 writes the bootstrap mark only for a message without options,
  so a reset is not restarted on such a phone (recovery.c:66-67).
- recovery.c:305: arguments that outgrow the message are cut off by `strlcat`;
  recovery.c:249: a blank line in the command file passes NULL to `strdup`.
- install.c:475 and install.c:516 read at most 1024 bytes where the comments say
  "print the rest" and "one last check"; `TailKept` states exactly what is kept.
- install.c:414-415 announces that the interactive menu is disabled, but imenu
  can open the node and waits.
- recovery.c:1027 ignores ".." at the deepest level.
- recovery.c:616: a menu of 50 entries has no terminator (src/CHANGELOG:126
  promises that long menus are not truncated).
- recovery.c:1346: a failed install of the lite build is no longer visible once
  the full build has started.

Patching:

- applypatch/applypatch.c:648: the inner `enough_space` hides the outer one, so
  the source is always unlinked before the target exists, against the comments at
  499-501 and 514.
- applypatch/applypatch.c:354-381: `ParseSha1` rejects the `<digest>:<anything>`
  its comment allows.
- `apply_patch_check` accepts a copy that holds the target's contents, which
  `apply_patch` cannot use; and a copy left by one package may satisfy the check
  of another and be overwritten before it is used. Wiping CACHE from the menu
  destroys a copy an interrupted update depends on.
- imgdiff on an archive with two entries of one name, one of which cannot be
  rebuilt, turns the source chunk normal under the other one and writes a patch
  that fails; `ImgDiff` assumes names to be unique. imgpatch.c:80 ignores the
  result of a chunk; only the digest of the whole tells.
- bspatch.c:87-96: bzip2 answers BZ_OK without progress at the end of a truncated
  stream, and `FillBuffer` asks again for ever.
- bsdiff may miss the longest match (the comparison stops at the shorter rest),
  which costs size and not correctness.

Flash, volumes, packages:

- A torn write of the first block leaves the header's page, and the next
  `flash_image` says "header is the same, not flashing"; a worn first block in the
  second pass puts the header over the second block; an image shorter than a
  block dies in the second pass.
- One hard ECC error ends a dump early with status 0; `erase_image` tests
  `!erased` where an error is -1; `write_raw_image` succeeds although the closing
  write, the erase or the reading of the file failed.
- /proc/mounts is read into 2047 bytes and 32 volumes; the unknown root "CDROM:"
  makes `ensure_common_roots_*` fail always; CACHE is not unmounted before the
  reboot; the input thread unmounts concurrently with the main thread
  (ui.c:1032); the read-only fall-back counts as mounted.
- A program left behind by `run_program` holds the command pipe, and the
  installation waits for it; a long line becomes two commands.
- `apply_patch` and `apply_patch_check` use an aborted argument; the clean-up of
  `delete` counts the wrong index; an unknown file-system type aborts without a
  message; a program that fails gives a true value.
- firmware.c:121: when the last message cannot be written CACHE is formatted;
  whether the message of the step before is left depends on which call failed.
- An extraction never checks a CRC.
- install.c:159-188: the results of `rm -rf` are ignored, so files of an earlier
  package may be run by a script, or stay.

Screen: backspace over the start of a row does not give back its reserve; cursor
movement after a shift can name rows before the buffer; the characters from ':'
to '@' pass as hexadecimal digits; output between an empty read and the exit is
lost (console.c:479).

Shell:

- `wait` for a stopped job hangs, though its comment says "terminated or stopped";
  `bg` puts a finished job back on the list; `fg` of an inherited job in a subshell
  spins on ECHILD.
- A redirection of a closed descriptor is never undone, and a failed fork, of a
  pipeline or of a long here-document (redir.c:272), leaks the ends of the pipe.
- A pipeline given up because a fork failed keeps the terminal.
- A signal between the last look and `pendingsigs = 0` is forgotten; a trap removed
  while its signal is pending evaluates NULL; its text may be freed while it is read.
- A local of a variable made readonly in the function leaks out.
- The flag of a new alias is not initialised, and redefinition frees a text in use
  and omits the trailing blank that stops `alias a=b; alias a=a; a`.
- `eval` and "." run on to their end while a break is pending, and loops in them
  consume it; errors caught by `command eval` leave counters and redirections
  behind; `-e` ends the shell in a "." file even when tested.
- `command name` overwrites a function of that name; a function defined under a
  name hashed before a `cd` is lost.

adb:

- A half-closed stream loses data; a CNXN of an online device leaves connecting
  sockets waiting; `local_socket_enqueue` of a closed pair returns 1.
- `unregister_transport` drops a reference that only the threads hold; a bad header
  on USB ends the server; a local transport closes its descriptor twice.
- A CNXN of an earlier session that is still on its way brings the host online in
  the middle of the next, and streams asked for before the answer mix with those
  of the other session.
- file_sync_service.c:162-164: when unlink fails, the file is opened without
  truncation and keeps its old tail, and OKAY is told; a directory that cannot be
  opened is listed as empty; `sync` skips a link whose new target has the length of
  the old one.
- transport.c:317: `input_thread` ignores a failing write, so a USB writer runs on
  until it is kicked.
- A local read error sends DONE, and the truncated push succeeds; `sync_recv`
  returns 0 on a remote failure; `sync` writes all STATs before it reads a reply.
- `adb disconnect` unlinks a transport that is unlinked again when it is removed;
  the transport of a socket may be freed before its service is started; `usb_lock`
  and `transport_lock` are taken in both orders.
- A client's kill may hit the server another client has just started, and relies on
  the old one leaving within two seconds.
- The table of descriptors clears the size of an int when it grows; descriptors
  passed to a debugger are not closed; a pid of -1 matches entries still connecting.
- A waiting reader of a socket pair gets EPIPE although data were written, and a
  close with data left never wakes the event loop; usb_linux.c tests `res < 0`,
  which no timeout produces.

## 6. Not modelled, and the plan

Not modelled: codecs (inflate, deflate, bzip2), pixels and fonts, the shell's
grammar, expansion and arithmetic (parser, `expand.c`, `arith*`: text in, text
out, most of it generated), history editing, drawing on the
frame buffer, ptrace surgery (2nd-init), the toolboxes, the YAFFS2 tools, USB
backends other than Linux, the select variant of the event loop on Windows,
prebuilt trees. They have no state that outlives a call, or belong to vendored
programs that recovery uses as they are. `PROJECT.json` gives the reason for each.

Paths of modelled functions that are left out, each of which ends in an outcome the
model has by another path or touches nothing a property speaks of:

- boot, scripts and menu: a MISC that cannot be read in `get_args`
  (recovery.c:262); an erase that fails half way (it fails before it begins, or
  power is lost half way); read errors of the script's pipe other than EAGAIN
  (install.c:530); a tag file that cannot be removed (recovery.c:1018); a script that
  rewrites a menu other than the one it was started from; an empty menu.
- volumes and flash: a scan of the mounts that fails (roots.c:231), the SDDATA branch
  (roots.c:432), scripts that mount a root elsewhere (roots.c:299 looks up by mount
  point alone); plain read errors of the device (mtdutils.c:285) and of the image
  file (flash_image.c:108-126).
- archives: directories made before a failing one stay in the code; links to
  existing targets.
- terminal: parameters of "m" after the first, a sequence split over two reads, more
  than 64 bytes or 32 parameters.
- adb: a `write_packet` that fails in the output thread (transport.c:255, which then
  leaves without SYNC(0)), the retry after ETIMEDOUT (usb_linux.c:462), read-only USB
  handles (usb_linux.c:512), `sendmsg` errors to a live VM (jdwp_service.c:344).
- shell: a process out of descriptors (redir.c:383), `%func` directories, names with
  a slash and `hash name`.

Next, in this order:

1. Proofs: the parts of `ShellSafe` that need no recursion (job list,
   descriptors, command table) and the refinement of a set by the probing table
   of `ZipReader`.
2. Refinement of the one-step flash writes of `RecoveryBoot` and `ApplyPatch` by
   `MtdFlash`.
3. `Nandroid`: backup and restore with checksums, every step failing.
4. Here-documents in `ShellInput`, and the callbacks of special variables in
   `ShellVars`.
