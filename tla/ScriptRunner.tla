---------------------------- MODULE ScriptRunner ----------------------------
(***************************************************************************)
(* run_shell_script of install.c and the imenu program: recovery forks a   *)
(* shell, copies its standard output from a non-blocking pipe to the       *)
(* screen, and answers the menus that the script asks for with imenu.      *)
(* imenu and recovery talk through a structure in shared memory with two   *)
(* triggers and no lock.                                                   *)
(*                                                                         *)
(* Processes: the runner (recovery's only thread here), the script, which  *)
(* waits for each imenu it starts (as every script of the repository       *)
(* does), and the user.  Text is abstracted to amounts: one unit is a      *)
(* fraction of the 1024-byte buffer.  An entry of a menu is the pair of    *)
(* the menu's number and its own position.  The stores of imenu are taken  *)
(* in program order.                                                       *)
(***************************************************************************)
EXTENDS Naturals, Sequences

CONSTANTS
    ReadSize,   \* units one read() takes: the 1024 bytes of buffer
    PipeSize,   \* units the pipe holds before a writer blocks
    NumItems,   \* length of interactive_menu_struct.items (20)
    MaxArgs,    \* bound: entries a script passes to imenu
    MaxMenus,   \* bound: menus
    MaxOutput,  \* bound: units one script writes
    MaxRuns,    \* bound: scripts
    Faults      \* which calls may fail: subset of FaultKinds

FaultKinds == {"open", "map", "fork"}

ASSUME SizesAssumption == /\ ReadSize \in Nat \ {0}
                          /\ PipeSize \in Nat \ {0}
                          /\ NumItems \in Nat \ {0}
ASSUME BoundsAssumption == /\ MaxArgs \in Nat
                           /\ MaxMenus \in Nat
                           /\ MaxOutput \in Nat
                           /\ MaxRuns \in Nat
ASSUME FaultsAssumption == Faults \subseteq FaultKinds

VARIABLES
    shm,      \* the node INTERACTIVE_MENU_SHM and the structure in it
    mapped,   \* interactive_menu # NULL in recovery
    rpc,      \* the runner's location
    toUI,     \* its parameter stdoutToUI
    shown,    \* the entries on the screen while a menu is displayed
    chosen,   \* chosen_item of the menu displayed last
    pipe,     \* units in the pipe
    printed,  \* units of this script's output on the screen
    sh,       \* the script's location, inside imenu when it runs one
    args,     \* argc - 2 of the current imenu
    response, \* what the last imenu printed
    written,  \* units this script has written
    \* --- bounds and history
    runs, menus,
    asked,    \* menus this script has asked for
    drained   \* written when the runner last found the pipe empty

menuVars   == <<shm, shown, chosen, response>>
outputVars == <<pipe, printed, written, drained>>
boundVars  == <<runs, menus, asked>>
vars == <<menuVars, outputVars, boundVars, mapped, rpc, toUI, sh, args>>

Indices == 0..(NumItems - 1)
NoItem  == <<0, 0>>
Items   == {NoItem} \cup ((0..MaxMenus) \X (1..MaxArgs))

RunnerLocations == {"idle", "poll", "rest", "collect", "show", "clear", "answer",
                    "read", "wait", "last", "waitpid", "cleanup"}
ScriptLocations == {"none", "run", "open", "fill", "terminate", "reset",
                    "trigger", "spin", "exited"}

SharedMenu == [exists : BOOLEAN, in_trigger : BOOLEAN, out_trigger : Nat,
               header : 0..MaxMenus, items : [Indices -> Items]]

\* A node created by open(O_CREAT) and grown by ftruncate reads as zeros.
Zeroed == [exists |-> TRUE, in_trigger |-> FALSE, out_trigger |-> 0,
           header |-> 0, items |-> [i \in Indices |-> NoItem]]
Absent == [Zeroed EXCEPT !.exists = FALSE]

TypeOK ==
    /\ shm \in SharedMenu
    /\ mapped \in BOOLEAN
    /\ rpc \in RunnerLocations
    /\ toUI \in BOOLEAN
    /\ shown \in Seq(Items) /\ Len(shown) <= NumItems
    /\ chosen \in 0..NumItems
    /\ pipe \in 0..PipeSize
    /\ printed \in 0..MaxOutput
    /\ sh \in ScriptLocations
    /\ args \in 0..MaxArgs
    /\ response \in Nat
    /\ written \in 0..MaxOutput
    /\ runs \in 0..MaxRuns
    /\ menus \in 0..MaxMenus
    /\ asked \in Nat
    /\ drained \in 0..MaxOutput

Init ==
    /\ shm = Absent
    /\ mapped = FALSE
    /\ rpc = "idle"
    /\ toUI = FALSE
    /\ shown = <<>>
    /\ chosen = 0
    /\ pipe = 0
    /\ printed = 0
    /\ sh = "none"
    /\ args = 0
    /\ response = 0
    /\ written = 0
    /\ runs = 0
    /\ menus = 0
    /\ asked = 0
    /\ drained = 0

Least(a, b) == IF a <= b THEN a ELSE b

-----------------------------------------------------------------------------
(* The runner                                                              *)

\* The node after the parent's initialisation: it clears both triggers and
\* the first byte of the header and of the first entry, nothing else.
Opened(old) ==
    [exists |-> TRUE, in_trigger |-> FALSE, out_trigger |-> 0, header |-> 0,
     items |-> [old.items EXCEPT ![0] = NoItem]]

\* Everything before the loop: the pipe, the node and its mapping, fork.
RunScript(ui) ==
    /\ rpc = "idle"
    /\ runs < MaxRuns
    /\ toUI' = ui
    /\ rpc' = IF ui THEN "poll" ELSE "waitpid"
    /\ \/ ui /\ shm' = Opened(shm) /\ mapped' = TRUE
       \/ ui /\ "map" \in Faults /\ shm' = [shm EXCEPT !.exists = TRUE] /\ mapped' = FALSE
       \/ ui /\ "open" \in Faults /\ UNCHANGED <<shm, mapped>>
       \/ ~ui /\ UNCHANGED <<shm, mapped>>
    /\ \/ sh' = "run"
       \/ "fork" \in Faults /\ sh' = "exited"
    /\ pipe' = 0
    /\ printed' = 0
    /\ written' = 0
    /\ drained' = 0
    /\ asked' = 0
    /\ runs' = runs + 1
    /\ UNCHANGED <<shown, chosen, response, menus, args>>

\* Top of the loop.
Poll ==
    /\ rpc = "poll"
    /\ \/ /\ mapped /\ shm.in_trigger
          /\ shm' = [shm EXCEPT !.in_trigger = FALSE]
          /\ rpc' = "rest"
       \/ /\ ~(mapped /\ shm.in_trigger)
          /\ rpc' = "read"
          /\ UNCHANGED shm
    /\ UNCHANGED <<outputVars, boundVars, mapped, toUI, shown, chosen, sh, args, response>>

\* A slip: the number of units asked for is taken as the number read.
ReadOnce_Full ==
    /\ pipe' = pipe - Least(pipe, ReadSize)
    /\ printed' = printed + ReadSize

\* One read() of at most ReadSize units, printed with ui_print_raw.
ReadOnce ==
    /\ pipe' = pipe - Least(pipe, ReadSize)
    /\ printed' = printed + Least(pipe, ReadSize)

\* "first print the rest"
PrintRest ==
    /\ rpc = "rest"
    /\ ReadOnce
    /\ rpc' = "collect"
    /\ UNCHANGED <<menuVars, written, drained, boundVars, mapped, toUI, sh, args>>

\* The entries up to the first empty one.
Listed(items) ==
    LET n == CHOOSE n \in 0..NumItems :
                /\ \A j \in Indices : j < n => items[j] # NoItem
                /\ n \in Indices => items[n] = NoItem
    IN  [i \in 1..n |-> items[i - 1]]

CollectItems ==
    /\ rpc = "collect"
    /\ shown' = Listed(shm.items)
    /\ rpc' = "show"
    /\ UNCHANGED <<shm, chosen, response, outputVars, boundVars, mapped, toUI, sh, args>>

\* A slip: the index itself is returned.
ItemNumber_Index(index) == index

\* get_menu_selection returns an index from 0; show_interactive_menu adds one,
\* so that the number differs from "no answer".
ItemNumber(index) == index + 1

ShowInteractiveMenu(index) ==
    /\ rpc = "show"
    /\ index < Len(shown)
    /\ chosen' = ItemNumber(index)
    /\ rpc' = "clear"
    /\ UNCHANGED <<shm, shown, response, outputVars, boundVars, mapped, toUI, sh, args>>

ClearMenu ==
    /\ rpc = "clear"
    /\ shm' = [shm EXCEPT !.header = 0, !.items[0] = NoItem]
    /\ shown' = <<>>
    /\ rpc' = "answer"
    /\ UNCHANGED <<chosen, response, outputVars, boundVars, mapped, toUI, sh, args>>

Answer ==
    /\ rpc = "answer"
    /\ shm' = [shm EXCEPT !.out_trigger = chosen]
    /\ rpc' = "read"
    /\ UNCHANGED <<shown, chosen, response, outputVars, boundVars, mapped, toUI, sh, args>>

\* The read of the loop; an empty pipe gives EAGAIN, never end of file,
\* because recovery keeps the write end open.
Read ==
    /\ rpc = "read"
    /\ ReadOnce
    /\ rpc' = IF pipe > 0 THEN "poll" ELSE "wait"
    /\ drained' = IF pipe > 0 THEN drained ELSE written
    /\ UNCHANGED <<menuVars, written, boundVars, mapped, toUI, sh, args>>

WaitNoHang ==
    /\ rpc = "wait"
    /\ rpc' = IF sh = "exited" THEN "last" ELSE "poll"
    /\ UNCHANGED <<menuVars, outputVars, boundVars, mapped, toUI, sh, args>>

\* A slip: the loop ends as soon as the child is gone.
LastRead_Skipped ==
    /\ rpc = "last"
    /\ rpc' = "cleanup"
    /\ UNCHANGED <<menuVars, outputVars, boundVars, mapped, toUI, sh, args>>

\* "do one last check (race)"
LastRead ==
    /\ rpc = "last"
    /\ ReadOnce
    /\ rpc' = "cleanup"
    /\ UNCHANGED <<menuVars, written, drained, boundVars, mapped, toUI, sh, args>>

\* A script whose output does not go to the screen is only waited for.
WaitScript ==
    /\ rpc = "waitpid"
    /\ sh = "exited"
    /\ rpc' = "cleanup"
    /\ UNCHANGED <<menuVars, outputVars, boundVars, mapped, toUI, sh, args>>

\* A slip: the node outlives the script.
CleanUp_KeepsNode ==
    /\ rpc = "cleanup"
    /\ rpc' = "idle"
    /\ sh' = "none"
    /\ pipe' = 0
    /\ mapped' = (mapped /\ ~toUI)
    /\ UNCHANGED <<menuVars, printed, written, drained, boundVars, toUI, args>>

CleanUp ==
    /\ rpc = "cleanup"
    /\ rpc' = "idle"
    /\ sh' = "none"
    /\ pipe' = 0
    /\ shm' = IF toUI THEN Absent ELSE shm
    /\ mapped' = (mapped /\ ~toUI)
    /\ UNCHANGED <<shown, chosen, response, printed, written, drained, boundVars, toUI, args>>

Runner == \/ Poll \/ PrintRest \/ CollectItems \/ ClearMenu \/ Answer \/ Read
          \/ WaitNoHang \/ LastRead \/ WaitScript \/ CleanUp

User == \E index \in Indices : ShowInteractiveMenu(index)

-----------------------------------------------------------------------------
(* The script and the imenu processes it waits for                         *)

\* The shell writes; a full pipe blocks it.
Echo ==
    /\ sh = "run"
    /\ toUI
    /\ written < MaxOutput
    /\ pipe < PipeSize
    /\ pipe' = pipe + 1
    /\ written' = written + 1
    /\ UNCHANGED <<menuVars, printed, drained, boundVars, mapped, rpc, toUI, sh, args>>

ScriptExits ==
    /\ sh = "run"
    /\ sh' = "exited"
    /\ UNCHANGED <<menuVars, outputVars, boundVars, mapped, rpc, toUI, args>>

ImenuStarts(n) ==
    /\ sh = "run"
    /\ menus < MaxMenus
    /\ menus' = menus + 1
    /\ asked' = asked + 1
    /\ args' = n
    /\ sh' = "open"
    /\ UNCHANGED <<menuVars, outputVars, runs, mapped, rpc, toUI>>

\* Too few arguments, no node (output not on the screen), or no mapping:
\* imenu exits with status 1 and prints nothing.
ImenuRefused ==
    /\ sh = "open"
    /\ args = 0 \/ ~shm.exists \/ "map" \in Faults
    /\ sh' = "run"
    /\ UNCHANGED <<menuVars, outputVars, boundVars, mapped, rpc, toUI, args>>

ImenuOpens ==
    /\ sh = "open"
    /\ args > 0 /\ shm.exists
    /\ sh' = "fill"
    /\ UNCHANGED <<menuVars, outputVars, boundVars, mapped, rpc, toUI, args>>

\* The entries that fit: c runs from 2 while c < argc and c < NumItems + 1.
Filled == Least(args, NumItems - 1)

ImenuFills ==
    /\ sh = "fill"
    /\ shm' = [shm EXCEPT !.header = menus,
                          !.items = [i \in Indices |-> IF i < Filled
                                                       THEN <<menus, i + 1>>
                                                       ELSE shm.items[i]]]
    /\ sh' = "terminate"
    /\ UNCHANGED <<shown, chosen, response, outputVars, boundVars, mapped, rpc, toUI, args>>

\* A slip: the terminator overwrites the last entry.
Terminator_Early == Filled - 1

\* items[c] is cleared, and c is two more than the number of entries; beyond
\* the array the store falls into the unused rest of the mapped page.
Terminator == Filled + 2

ImenuTerminates ==
    /\ sh = "terminate"
    /\ shm' = [shm EXCEPT !.items = [i \in Indices |-> IF i = Terminator
                                                       THEN NoItem
                                                       ELSE shm.items[i]]]
    /\ sh' = "reset"
    /\ UNCHANGED <<shown, chosen, response, outputVars, boundVars, mapped, rpc, toUI, args>>

\* A slip: the last menu's answer is left in place.
ImenuResets_Not ==
    /\ sh = "reset"
    /\ sh' = "trigger"
    /\ UNCHANGED <<menuVars, outputVars, boundVars, mapped, rpc, toUI, args>>

ImenuResets ==
    /\ sh = "reset"
    /\ shm' = [shm EXCEPT !.out_trigger = 0]
    /\ sh' = "trigger"
    /\ UNCHANGED <<shown, chosen, response, outputVars, boundVars, mapped, rpc, toUI, args>>

ImenuTriggers ==
    /\ sh = "trigger"
    /\ shm' = [shm EXCEPT !.in_trigger = TRUE]
    /\ sh' = "spin"
    /\ UNCHANGED <<shown, chosen, response, outputVars, boundVars, mapped, rpc, toUI, args>>

\* It sleeps and looks again until there is a response, and prints it.
ImenuReturns ==
    /\ sh = "spin"
    /\ shm.out_trigger # 0
    /\ response' = shm.out_trigger
    /\ sh' = "run"
    /\ UNCHANGED <<shm, shown, chosen, outputVars, boundVars, mapped, rpc, toUI, args>>

Imenu == \/ ImenuRefused \/ ImenuOpens \/ ImenuFills \/ ImenuTerminates
         \/ ImenuResets \/ ImenuTriggers \/ ImenuReturns

Script == Echo \/ ScriptExits \/ Imenu \/ \E n \in 0..MaxArgs : ImenuStarts(n)

Next == Runner \/ User \/ Script \/ \E ui \in BOOLEAN : RunScript(ui)

Spec == Init /\ [][Next]_vars

\* Recovery and the script are scheduled, the user looks at the screen and
\* presses the key, and a script does not run forever.
Fairness == WF_vars(Runner) /\ WF_vars(User) /\ WF_vars(Script)

LiveSpec == Spec /\ Fairness

-----------------------------------------------------------------------------
(* Properties                                                              *)

\* What the script had written when the runner last found the pipe empty is
\* on the screen when run_shell_script returns, and of what it wrote between
\* that read and its exit at least one buffer is (the last check of the loop).
TailKept ==
    rpc = "idle" /\ runs > 0 => printed >= Least(written, drained + ReadSize)

\* Every unit the script wrote is on the screen or still in the pipe until the
\* pipe is closed, nothing is printed between finding the pipe empty and
\* looking at the child, and a script that does not write to the screen leaves
\* nothing behind.  (The invariant from which TailKept follows.)
OutputAccounted ==
    /\ drained <= printed /\ printed + pipe <= written
    /\ rpc # "idle" => printed + pipe = written
    /\ rpc \in {"wait", "last"} => printed = drained
    /\ rpc \in {"cleanup", "idle"} => printed >= Least(written, drained + ReadSize)
    /\ ~toUI => written = 0
    /\ rpc = "waitpid" => ~toUI

\* Every entry that imenu passed and that fits is offered, at its own place:
\* the runner neither reads the structure before imenu has filled it nor
\* clears it after the next imenu has.
OwnItemsFirst ==
    rpc = "show" => /\ Len(shown) >= Filled
                    /\ \A i \in 1..Filled : shown[i] = <<menus, i>>

\* The first menu of a script consists of its own entries only: nothing of an
\* earlier script's menus is left, because the node is removed after each run.
FirstMenuExact ==
    rpc = "show" /\ asked = 1 => Len(shown) = Filled

\* What a script asks is what the user sees (imenu.c, the collecting loop of
\* run_shell_script and its clean-up).
MenusExact == OwnItemsFirst /\ FirstMenuExact

\* The entries of the imenu that runs are in their places.
Offered == \A i \in Indices : i < Filled => shm.items[i] = <<menus, i + 1>>

\* Nothing is in the structure from place k on.
EmptyFrom(k) == \A i \in Indices : i >= k => shm.items[i] = NoItem

\* The structure between two steps: outside a run, and in one whose output is
\* not on the screen, there is no node; imenu writes only into a node that is
\* there; its entries stay from the moment it has stored them until the runner
\* has collected them; and up to its first menu a script finds no others.
\* (The invariant from which MenusExact follows.)
EntriesInPlace ==
    /\ rpc = "idle" \/ ~toUI => shm = Absent
    /\ sh \in {"fill", "terminate", "reset", "trigger", "spin"} => shm.exists
    /\ sh \in {"open", "fill", "terminate", "reset", "trigger", "spin"} => asked > 0
    /\ sh \in {"terminate", "reset", "trigger"} => Offered
    /\ shm.in_trigger \/ rpc \in {"rest", "collect"} => Offered
    /\ asked = 0 => EmptyFrom(0)
    /\ asked = 1 => EmptyFrom(Filled)

\* The order of the handshake: while the runner serves a menu imenu waits and
\* both triggers are down; a raised in_trigger means an imenu that waits with
\* its answer still cleared; an answer found by a waiting imenu is the one the
\* user gave last; and the loop ends only after the script has.  (The
\* invariant from which ImplementsDialog follows.)
HandshakeOrdered ==
    /\ rpc = "idle" => sh = "none"
    /\ rpc \in {"last", "cleanup"} => sh = "exited"
    /\ rpc \in {"rest", "collect", "show", "clear", "answer"}
          => sh = "spin" /\ ~shm.in_trigger /\ shm.out_trigger = 0
    /\ shm.in_trigger => sh = "spin" /\ shm.out_trigger = 0
    /\ sh = "trigger" => shm.out_trigger = 0
    /\ sh = "spin" /\ shm.out_trigger # 0 => chosen = shm.out_trigger
    /\ rpc \in {"clear", "answer"} => chosen # 0

\* Pipe and shared page together, as the polling loop of run_shell_script
\* relies on them: output is accounted for and the handshake is in order.
LoopOrdered == OutputAccounted /\ HandshakeOrdered

\* The dialogue as MenuDialog sees it.
phase ==
    IF sh # "spin" THEN "idle"
    ELSE IF rpc = "show" THEN "displayed"
    ELSE IF rpc \in {"clear", "answer"} \/ shm.out_trigger # 0 THEN "answered"
    ELSE "asked"
answer == IF phase = "answered" THEN chosen ELSE 0

Dialog == INSTANCE MenuDialog WITH MaxAnswer <- NumItems, reply <- response

\* The two triggers implement the dialogue: a menu is displayed once per
\* imenu, and an imenu returns the number the user picked for its own menu.
\* In particular an answer is not left over from an earlier menu.
ImplementsDialog == Dialog!Spec

\* run_shell_script returns: neither the polling loop nor a script that waits
\* in imenu or on a full pipe goes on forever.  The exception is a node that
\* recovery created and then failed to map: imenu finds it and waits in vain.
RunReturns == rpc # "idle" ~> rpc = "idle" \/ (shm.exists /\ ~mapped)

\* What the change log says of imenu run more than once in one script: a menu
\* offers the entries of its own imenu and no others.
OffersOwnItemsOnly == rpc = "show" => \A i \in 1..Len(shown) : shown[i][1] = menus
=============================================================================
