----------------------------- MODULE MCPackage -----------------------------
(***************************************************************************)
(* Everything between the menu entry "install" and the files of the        *)
(* package, model-checked part by part: to the volumes, the installer and  *)
(* the flash programs of MCInstall come the edify interpreter, the zip     *)
(* reader and its hash table, and the two patch formats.  A behaviour      *)
(* exercises one part, the others keep an initial state.                   *)
(***************************************************************************)
EXTENDS MCInstall

VARIABLES
    script, fails, st, exit,
    slots, live, dead, got, added, hops,
    zpc, table, at, seen, ok, files, ztree, mode, back, losses,
    old, new, bpc, I, V, h, scan, len, pos, last, ctrl, db, eb, damage, in, bout, oldpos, bret,
    zipped, src, tgt, dpc, i, S, T, patch, file, dout, sha, short, dret

MCParts == {"volumes", "install", "script", "hash", "zip", "flash", "bsdiff", "imgdiff"}

-----------------------------------------------------------------------------
\* The scripts: every builtin and every updater function, alone and with an
\* abort in an argument, behind every guard, under every control function.
Lit(s)   == [fn |-> "literal", args |-> <<>>, name |-> s]
Fn(f, a) == [fn |-> f, args |-> a, name |-> "fn"]
L     == Lit("t")
One   == Lit("1")
Abort == Fn("abort", <<>>)
File  == Fn("read_file", <<L>>)

Guards ==
    {L, Lit(""), Abort, Fn("abort", <<Abort>>), Fn("mount", <<L, L, L>>), Fn("format", <<L, L>>),
     Fn("format", <<Lit("MTD"), L>>), Fn("not", <<Fn("is_mounted", <<L>>)>>),
     Fn("assert", <<Fn("mount", <<L, L, L>>)>>), Fn("apply_patch", <<L, L, L, One, L, File>>),
     Fn("run_program", <<L>>), File}

Calls ==
    {Fn(f, <<a>>) :
        f \in {"is_mounted", "unmount", "delete", "set_progress", "package_extract_file", "getprop",
               "apply_patch_space", "ui_print", "sha1_check", "read_file", "sleep", "stdout",
               "symlink", "apply_patch_check", "not", "concat"},
        a \in {L, Abort}}
    \cup {Fn(f, <<L, a>>) :
        f \in {"delete", "show_progress", "package_extract_dir", "package_extract_file", "symlink",
               "file_getprop", "apply_patch_check", "eq", "ne", "and", "or", "less", "format",
               "is_substring", "write_raw_image", "delete_recursive"},
        a \in {L, Abort}}
    \cup {Fn(f, <<One, One, One, One, L>>) : f \in {"set_perm", "set_perm_recursive"}}
    \cup {Fn("greater", <<Lit("2"), One>>), Fn("sha1_check", <<File, Lit("sha")>>),
          Fn("set_perm", <<L>>), Fn("mount", <<L, Lit(""), L>>),
          Fn("apply_patch", <<L, L, L, One, L, Abort>>), Fn("ifelse", <<Abort, L>>),
          Fn("seq", <<Fn("mount", <<L, L, L>>), Fn("unmount", <<L>>)>>)}

MCScripts ==
    {Fn(f, <<a, b>>) : f \in {"seq", "and", "or", "assert", "delete", "ifelse"},
                       a \in Guards, b \in Guards \cup Calls}
    \cup {Fn("ifelse", <<a, b, Abort>>) : a, b \in Guards}

\* The characters '-', '/', 'a' and 'b' as 1 to 4, so that "a-" comes
\* between "a" and "a/".
MCListed == {<<3>>, <<3, 1>>, <<3, 2>>, <<3, 2, 3>>, <<3, 2, 4>>, <<3, 2, 4, 2>>,
             <<3, 2, 4, 2, 3>>, <<4>>}

\* Two items with one hash, one that wraps round, one in the way of both.
MCHash == [a |-> 1, b |-> 1, c |-> 7, d |-> 2]

Edi == INSTANCE Edify WITH Scripts <- MCScripts
Zip == INSTANCE ZipReader WITH tree <- ztree, Listed <- MCListed, Link <- {<<3, 2, 4>>},
           Slash <- 2, ZipDir <- <<3, 2>>, MaxEntries <- 3, MaxLosses <- 1,
           Items <- {"a", "b", "c", "d"}, HashOf <- MCHash, MaxOps <- 7

\* Headers alone, a part of a block, whole blocks, and more than fits when a
\* block is bad.
MCFlashImages == {<<9>>, <<9, 1>>, <<9, 1, 2>>, <<9, 1, 2, 3>>, <<9, 1, 2, 3, 4, 5, 6>>}

\* Images of plain bytes and gzip members, archives with a directory at the
\* end; streams of the two encoders imgdiff knows and of another one.
Cell(t, v, e) == [t |-> t, v |-> v, e |-> e]
Gzip(v, e, n) == <<Cell("g", 0, 0), Cell("d", v, e), Cell("f", n, 0)>>
Entry(name, v, e) == <<Cell("n", name, 0), Cell("d", v, e)>>
Pieces ==
    {<<Cell("n", 1, 0)>>, <<Cell("n", 2, 0)>>, Gzip(1, 6, 2), Gzip(2, 6, 2), Gzip(1, 9, 2),
     Gzip(1, 0, 2), Gzip(2, 0, 2), Gzip(1, 6, 3)}
MCImages == {<<>>} \cup Pieces \cup {a \o b : a, b \in Pieces}
Entries == {<<Cell("n", 1, 0)>>} \cup {Entry(n, v, 6) : n \in {11, 12}, v \in {1, 2}}
           \cup {Entry(n, 1, 0) : n \in {11, 12}}
MCZips ==
    LET Directory == <<Cell("n", 9, 0)>>
    IN  {Directory} \cup {a \o Directory : a \in Entries}
        \cup {p[1] \o p[2] \o Directory : p \in {q \in Entries \X Entries : q[1][1].v # q[2][1].v}}

Bsd == INSTANCE BsDiff WITH pc <- bpc, out <- bout, ret <- bret,
           Letters <- {0, 1}, Base <- 4, Width <- 3, Small <- 3, Slack <- 0, MaxOld <- 4, MaxNew <- 5
Img == INSTANCE ImgDiff WITH zip <- zipped, pc <- dpc, out <- dout, faults <- short, ret <- dret,
           Images <- MCImages, Zips <- MCZips, RawMax <- 1, Sizes <- {1, 3}, MaxFaults <- 1

edi == <<script, fails, st, exit>>
hsh == <<slots, live, dead, got, added, hops>>
zip == <<zpc, table, at, seen, ok, files, ztree, mode, back, losses>>
bsd == <<old, new, bpc, I, V, h, scan, len, pos, last, ctrl, db, eb, damage, in, bout, oldpos, bret>>
dif == <<zipped, src, tgt, dpc, i, S, T, patch, file, dout, sha, short, dret>>
below == <<edi, hsh, zip, bsd, dif>>

\* A part that does not take part starts in one of its initial states.
PackageInit ==
    /\ Init
    /\ Zip!HashInit /\ (part # "hash" => Len(slots) = 2)
    /\ Zip!Init
    /\ IF part # "bsdiff" THEN old = <<>> /\ new = <<>> ELSE TRUE
    /\ Bsd!Init
    /\ IF part # "imgdiff" THEN zipped = FALSE /\ src = <<>> /\ tgt = <<>> ELSE TRUE
    /\ Img!Init
    /\ IF part = "script" THEN Edi!Init
       ELSE script = L /\ fails = {} /\ st = Edi!Start /\ exit = -1

ScriptStep == part = "script" /\ Edi!Next /\ UNCHANGED <<vars, hsh, zip, bsd, dif>>
HashStep == part = "hash" /\ Zip!HashNext /\ UNCHANGED <<vars, edi, zip, bsd, dif>>
ZipStep == part = "zip" /\ Zip!Next /\ UNCHANGED <<vars, edi, hsh, bsd, dif>>
PatchStep == part = "bsdiff" /\ Bsd!Next /\ UNCHANGED <<vars, edi, hsh, zip, dif>>
ImagePatchStep == part = "imgdiff" /\ Img!Next /\ UNCHANGED <<vars, edi, hsh, zip, bsd>>

PackageNext ==
    \/ Next /\ UNCHANGED below
    \/ PatchStep \/ ImagePatchStep \/ ScriptStep \/ HashStep \/ ZipStep

\* The recovery is fair as in MCInstall.
PackageSpec ==
    /\ PackageInit /\ [][PackageNext]_<<vars, below>>
    /\ WF_<<vars, below>>(RecoveryGoesOn /\ UNCHANGED below)

-----------------------------------------------------------------------------
\* See Edify: an abort stops the script from anywhere, the exit status tells
\* of it, and nothing behind a failed assert acts on the device.
ScriptHonest == Edi!AbortIsFinal /\ Edi!ExitTells /\ Edi!AssertGuards

\* See ZipReader, BsDiff and ImgDiff: every entry of the archive is
\* found, in order, the extraction of a directory makes its entries and
\* nothing else, and a patch makes the new file out of the old one.
ArchiveRight ==
    /\ Zip!TableIsSet
    /\ Zip!TableSorted /\ Zip!ExtractMissesNone /\ Zip!ExtractExact /\ Zip!HelpersTell
    /\ Bsd!SuffixesSorted /\ Bsd!MatchReal /\ Bsd!PatchMakesNew
    /\ Img!TilesTarget /\ Img!NeverAwry /\ Img!RebuildsTarget

\* See ZipReader: "Returns true on success, false on failure".
ExtractTold == Zip!ExtractTold
=============================================================================
