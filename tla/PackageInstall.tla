--------------------------- MODULE PackageInstall ---------------------------
(***************************************************************************)
(* install_package (install.c) and the update binary it starts (updater.c, *)
(* or one out of the package), which talk over a pipe: the binary writes   *)
(* one command a line, the recovery obeys until the pipe is at its end and *)
(* then asks how the binary ended.                                         *)
(***************************************************************************)
EXTENDS Integers, Sequences, FiniteSets

CONSTANTS
    PipeMax,    \* lines the pipe holds
    MaxLines    \* bound: lines a binary writes

VARIABLES
    pkg,        \* the package: what it holds and what is wrong with it
    dirs,       \* the elements of the extraction path: "none", "dir", "file"
    tree,       \* what is in the extraction directory: "old" files of an earlier
                \* installation, "part" or the "full" contents of this package
    ignored,    \* history: failures of the installation by script that nobody
                \* looked at, by the place where they happened
    ppc,        \* the recovery
    cpc,        \* the update binary: "none", "main", "run", "0" .. "7", "signal"
    pipe,       \* lines written and not read
    writers,    \* processes that hold the writing end
    written,    \* lines written so far
    obeyed,     \* commands obeyed so far, in order
    fw,         \* firmware_type and firmware_filename
    stored,     \* what remember_firmware_update keeps
    result

pvars == <<pkg, dirs, tree, ignored, ppc, cpc, pipe, writers, written, obeyed, fw, stored, result>>

None == [type |-> "none", file |-> "none"]
Fw(t, f) == [type |-> t, file |-> f]

\* What can be in a package: "or" is update-or.sh, "binary" an update binary,
\* script the edify script of the default updater, image a firmware image.
Plain == [zip |-> "good", or |-> FALSE, binary |-> "none", script |-> "good", image |-> "good"]
Kinds == {Plain} \cup {[Plain EXCEPT !.zip = "bad"], [Plain EXCEPT !.or = TRUE]}
      \cup {[Plain EXCEPT !.binary = b] : b \in {"good", "bad"}}
      \cup {[Plain EXCEPT !.script = x] : x \in {"missing", "unreadable", "wrong"}}
      \cup {[Plain EXCEPT !.binary = "good", !.image = x] : x \in {"missing", "bad"}}

\* Lines a binary writes: a command and its words.  A line too long for the
\* buffer arrives in two pieces, and the second is read as a command.
Line(c, n) == [cmd |-> c, words |-> n, fw |-> None]
UpdaterLines == {Line("progress", 2), Line("set_progress", 1), Line("ui_print", 1)}
BinaryLines ==
    {Line("blank", 0), Line("firmware", 1), Line("ui_print", 0), Line("words", 3)}
    \cup {[cmd |-> "firmware", words |-> 2, fw |-> f] :
             f \in {Fw("radio", "PACKAGE:image"), Fw("hboot", "/tmp/f")}}

-----------------------------------------------------------------------------
Ends(r) == ppc' = "done" /\ result' = r

\* install_package up to try_update_binary.
install_package ==
    /\ ppc = "start"
    /\ \/ Ends("corrupt")                                  \* not mounted, no such root
       \/ pkg.zip = "bad" /\ Ends("corrupt")
       \/ /\ pkg.zip = "good" /\ UNCHANGED result
          /\ ppc' = IF pkg.or THEN "clear" ELSE IF pkg.binary = "none" THEN "fork" ELSE "extract"
    /\ UNCHANGED <<pkg, dirs, tree, ignored, cpc, pipe, writers, written, obeyed, fw, stored>>

\* mzExtractZipEntryToFile of the update binary.
ExtractBinary ==
    /\ ppc = "extract"
    /\ IF pkg.binary = "bad" THEN Ends("error") ELSE ppc' = "fork" /\ UNCHANGED result
    /\ UNCHANGED <<pkg, dirs, tree, ignored, cpc, pipe, writers, written, obeyed, fw, stored>>

Fork_Slip ==
    /\ ppc = "fork" /\ ppc' = "read" /\ cpc' = IF pkg.binary = "none" THEN "main" ELSE "run"
    /\ writers' = {"child", "recovery"} /\ pipe' = <<>>
    /\ UNCHANGED <<pkg, dirs, tree, ignored, written, obeyed, fw, stored, result>>

Fork ==
    /\ ppc = "fork" /\ ppc' = "read" /\ cpc' = IF pkg.binary = "none" THEN "main" ELSE "run"
    /\ writers' = {"child"} /\ pipe' = <<>>
    /\ UNCHANGED <<pkg, dirs, tree, ignored, written, obeyed, fw, stored, result>>

(***************************************************************************)
(* One turn of the command loop.                                           *)
(***************************************************************************)
Obey_Slip(l) ==
    /\ obeyed' = Append(obeyed, l)
    /\ fw' = IF l.fw # None THEN l.fw ELSE fw

Obey(l) ==
    /\ obeyed' = Append(obeyed, l)
    /\ fw' = IF l.fw # None /\ fw = None THEN l.fw ELSE fw

ReadCommand ==
    /\ ppc = "read" /\ pipe # <<>> /\ pipe' = Tail(pipe) /\ Obey(Head(pipe))
    /\ UNCHANGED <<pkg, dirs, tree, ignored, ppc, cpc, writers, written, stored, result>>

EndOfCommands_Slip ==
    /\ ppc = "read" /\ pipe = <<>> /\ ppc' = "wait"
    /\ UNCHANGED <<pkg, dirs, tree, ignored, cpc, pipe, writers, written, obeyed, fw, stored, result>>

EndOfCommands ==
    /\ ppc = "read" /\ pipe = <<>> /\ writers = {} /\ ppc' = "wait"
    /\ UNCHANGED <<pkg, dirs, tree, ignored, cpc, pipe, writers, written, obeyed, fw, stored, result>>

\* waitpid, and the firmware only when the binary ended well.
handle_firmware_update(f) ==
    LET ok == f.file # "PACKAGE:image" \/ pkg.image = "good" IN
    \/ ok /\ stored' = f /\ Ends("success")
    \/ stored' = stored /\ Ends("error")          \* missing, unreadable, or too big to keep

WaitBinary_Slip ==
    /\ ppc = "wait" /\ cpc \in {"0", "1", "3", "4", "5", "6", "7", "signal"}
    /\ IF fw # None THEN handle_firmware_update(fw)
       ELSE UNCHANGED stored /\ Ends(IF cpc = "0" THEN "success" ELSE "error")
    /\ UNCHANGED <<pkg, dirs, tree, ignored, cpc, pipe, writers, written, obeyed, fw>>

WaitBinary ==
    /\ ppc = "wait" /\ cpc \in {"0", "1", "3", "4", "5", "6", "7", "signal"}
    /\ IF cpc # "0" THEN UNCHANGED stored /\ Ends("error")
       ELSE IF fw # None THEN handle_firmware_update(fw)
       ELSE UNCHANGED stored /\ Ends("success")
    /\ UNCHANGED <<pkg, dirs, tree, ignored, cpc, pipe, writers, written, obeyed, fw>>

(***************************************************************************)
(* handle_or_update: clear the directory, create it element by element,    *)
(* extract, run the script, clear it again.                                *)
(***************************************************************************)
\* rm -rf of the extraction directory.  It may leave some or all of what is
\* there (a read-only card, a shell that cannot be started); how it ended is not
\* looked at.
rm_rf ==
    \/ tree' = {} /\ dirs' = [dirs EXCEPT ![Len(dirs)] = "none"] /\ UNCHANGED ignored
    \/ /\ tree' \in SUBSET (tree \cup (IF "full" \in tree THEN {"part"} ELSE {}))
       /\ UNCHANGED dirs /\ ignored' = ignored \cup {ppc}

Clear_Slip ==
    /\ ppc = "clear" /\ ppc' = "mkdir" /\ UNCHANGED <<dirs, tree, ignored>>
    /\ UNCHANGED <<pkg, cpc, pipe, writers, written, obeyed, fw, stored, result>>

Clear ==
    /\ ppc = "clear" /\ ppc' = "mkdir" /\ rm_rf
    /\ UNCHANGED <<pkg, cpc, pipe, writers, written, obeyed, fw, stored, result>>

\* Elements up to the first one that is no directory are created, unless the
\* card is read-only; mkdir's own failure is not looked at.
mkdir_recursive ==
    /\ ppc = "mkdir"
    /\ LET file == {i \in DOMAIN dirs : dirs[i] = "file"} IN
       \/ /\ file # {} /\ Ends("error")
          /\ LET f == CHOOSE i \in file : \A j \in file : i <= j IN
             dirs' = [i \in DOMAIN dirs |-> IF i < f THEN "dir" ELSE dirs[i]]
       \/ /\ file = {} /\ ppc' = "unpack" /\ UNCHANGED result
          /\ dirs' \in {dirs, [i \in DOMAIN dirs |-> "dir"]}
    /\ UNCHANGED <<pkg, tree, ignored, cpc, pipe, writers, written, obeyed, fw, stored>>

\* mzExtractRecursive creates what is missing.  It may stop half way, and say so
\* or, when the data of an entry cannot be written (Zip.c:1124), not.
Unpack ==
    /\ ppc = "unpack"
    /\ \/ UNCHANGED <<tree, dirs, ignored>> /\ ppc' = "unpack failed"
       \/ /\ dirs' = [i \in DOMAIN dirs |-> "dir"]
          /\ \/ tree' = tree \cup {"full"} /\ ppc' = "script" /\ UNCHANGED ignored
             \/ tree' = tree \cup {"part"} /\ ppc' = "unpack failed" /\ UNCHANGED ignored
             \/ /\ tree' = tree \cup {"part"} /\ ppc' = "script"
                /\ ignored' = ignored \cup {"unpack"}
    /\ UNCHANGED <<pkg, cpc, pipe, writers, written, obeyed, fw, stored, result>>

\* The script's own outcome is not looked at.
RunScript ==
    /\ ppc = "script" /\ ppc' = "sweep"
    /\ UNCHANGED <<pkg, dirs, tree, ignored, cpc, pipe, writers, written, obeyed, fw, stored, result>>

Sweep_Slip ==
    /\ ppc \in {"sweep", "unpack failed"}
    /\ IF ppc = "sweep" THEN rm_rf /\ Ends("success")
       ELSE UNCHANGED <<dirs, tree, ignored>> /\ Ends("error")
    /\ UNCHANGED <<pkg, cpc, pipe, writers, written, obeyed, fw, stored>>

Sweep ==
    /\ ppc \in {"sweep", "unpack failed"} /\ rm_rf
    /\ IF ppc = "sweep" THEN Ends("success") ELSE Ends("error")
    /\ UNCHANGED <<pkg, cpc, pipe, writers, written, obeyed, fw, stored>>

-----------------------------------------------------------------------------
(***************************************************************************)
(* The update binary.  Main is main of updater.c up to Evaluate; a binary  *)
(* out of the package may do anything.  Processes it starts (run_program)  *)
(* inherit the pipe, and one left behind keeps it open.                    *)
(***************************************************************************)
Main ==
    /\ cpc = "main"
    /\ cpc' = CASE pkg.script = "missing"    -> "4"
                [] pkg.script = "unreadable" -> "5"
                [] pkg.script = "wrong"      -> "6"
                [] pkg.script = "good"       -> "run"
    /\ writers' = IF pkg.script = "good" THEN writers ELSE writers \ {"child"}
    /\ UNCHANGED <<pkg, dirs, tree, ignored, ppc, pipe, written, obeyed, fw, stored, result>>

Write(l) ==
    /\ cpc = "run" /\ Len(pipe) < PipeMax /\ Len(written) < MaxLines
    /\ l \in UpdaterLines \/ pkg.binary = "good"
    /\ pipe' = Append(pipe, l) /\ written' = Append(written, l)
    /\ UNCHANGED <<pkg, dirs, tree, ignored, ppc, cpc, writers, obeyed, fw, stored, result>>

StartProgram ==
    /\ cpc = "run" /\ writers' = writers \cup {"program"}
    /\ UNCHANGED <<pkg, dirs, tree, ignored, ppc, cpc, pipe, written, obeyed, fw, stored, result>>

ProgramEnds ==
    /\ "program" \in writers /\ writers' = writers \ {"program"}
    /\ UNCHANGED <<pkg, dirs, tree, ignored, ppc, cpc, pipe, written, obeyed, fw, stored, result>>

\* The script ends, aborts (and says so on the screen), or the binary dies.
BinaryEnds ==
    /\ cpc = "run" /\ cpc' \in {"0", "7", "signal"} /\ writers' = writers \ {"child"}
    /\ IF cpc' = "7" /\ pkg.binary = "none"
       THEN /\ Len(pipe) < PipeMax /\ pipe' = Append(pipe, Line("ui_print", 0))
            /\ written' = Append(written, Line("ui_print", 0))
       ELSE UNCHANGED <<pipe, written>>
    /\ UNCHANGED <<pkg, dirs, tree, ignored, ppc, obeyed, fw, stored, result>>

-----------------------------------------------------------------------------
Init ==
    /\ pkg \in Kinds
    /\ dirs \in {<<"dir", "dir">>, <<"none", "none">>, <<"file", "none">>, <<"dir", "file">>}
    /\ tree \in {{}, {"old"}} /\ (tree # {} \/ ~pkg.or => dirs = <<"dir", "dir">>)
    /\ ~pkg.or => tree = {}                       \* only update-or.sh looks there
    /\ ignored = {}
    /\ ppc = "start" /\ cpc = "none" /\ pipe = <<>> /\ writers = {} /\ written = <<>>
    /\ obeyed = <<>> /\ fw = None /\ stored = None /\ result = "none"

Recovery ==
    \/ install_package \/ ExtractBinary \/ Fork \/ ReadCommand \/ EndOfCommands
    \/ WaitBinary \/ Clear \/ mkdir_recursive \/ Unpack \/ RunScript \/ Sweep

Next ==
    \/ Recovery \/ Main \/ StartProgram \/ ProgramEnds \/ BinaryEnds
    \/ \E l \in UpdaterLines \cup BinaryLines : Write(l)

-----------------------------------------------------------------------------
\* Firmware f is what the first complete firmware command of s names.
FirstFirmware(s, f) ==
    \E k \in DOMAIN s : s[k].fw = f /\ \A l \in 1 .. k - 1 : s[l].fw = None

\* What the recovery keeps for the boot loader is the first complete firmware
\* command of a binary that ended well, read to its last line.
FirmwareFirst ==
    /\ stored # None => cpc = "0" /\ FirstFirmware(written, stored)
    /\ (result = "success" /\ ~pkg.or) =>
           /\ obeyed = written
           /\ (\A k \in DOMAIN written : written[k].fw = None) <=> stored = None

\* The update script finds the whole package in its directory and nothing of an
\* earlier installation, unless a failed entry was hidden from the installer or
\* its first rm -rf failed; and an installation by script leaves something
\* behind only when its last rm -rf failed, however it ended and whatever an
\* earlier one had left (mkdir_recursive returns without an rm -rf of its own).
ScriptComplete ==
    ppc = "script" => /\ "full" \in tree \/ "unpack" \in ignored
                      /\ "old" \notin tree \/ "clear" \in ignored
Installed == ppc = "done" /\ pkg.or /\ result # "corrupt"
TreeSwept ==
    /\ ScriptComplete
    /\ Installed /\ tree # {} => ignored \cap {"sweep", "unpack failed"} # {}

\* What keeps the commands in order: lines are written, read and obeyed, the
\* firmware is the first of those obeyed, and behind the end of the pipe there
\* is nobody left to write.
CommandsOrdered ==
    /\ written = obeyed \o pipe
    /\ IF fw = None THEN \A k \in DOMAIN obeyed : obeyed[k].fw = None
                    ELSE FirstFirmware(obeyed, fw)
    /\ cpc \in {"main", "run"} => "child" \in writers
    /\ (cpc = "none" \/ pkg.or) => written = <<>> /\ cpc = "none"
    /\ ppc \in {"start", "extract", "fork"} => cpc = "none"
    /\ ppc \in {"clear", "mkdir", "unpack", "unpack failed", "script", "sweep"} => pkg.or
    /\ ppc \in {"extract", "fork", "read", "wait"} => ~pkg.or
    /\ (ppc = "wait" \/ (result = "success" /\ ~pkg.or)) => pipe = <<>> /\ writers = {}
    /\ ppc # "done" => stored = None /\ result = "none"
    /\ stored # None => cpc = "0" /\ stored = fw /\ pipe = <<>>
    /\ (result = "success" /\ ~pkg.or) => cpc = "0" /\ stored = fw

\* What TreeSwept rests on: files lie in a directory, so that where an element of
\* the path is no directory there is nothing to sweep; and what the installer
\* meets of an earlier installation its first rm -rf has left.
TreeKnown ==
    /\ tree # {} => \A i \in DOMAIN dirs : dirs[i] = "dir"
    /\ (ppc \in {"mkdir", "unpack"} /\ "old" \in tree) => "clear" \in ignored

\* The installation ends once the binary and what it started have ended.
InstallReturns ==
    <>[](cpc \notin {"main", "run"} /\ "program" \notin writers) => <>(ppc = "done")

=============================================================================
