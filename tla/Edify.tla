------------------------------- MODULE Edify -------------------------------
(***************************************************************************)
(* The edify interpreter (expr.c) and the functions the updater gives it   *)
(* (updater/install.c).  An expression is a record [fn, args, name]; its   *)
(* evaluation takes the state of the updater to a new one.  A value is a   *)
(* string, a blob, or Null, which aborts whatever asked for it; Null comes *)
(* with an error message, or without one.  Calls that act on the device    *)
(* are recorded in the order in which they happen.                         *)
(***************************************************************************)
EXTENDS Integers, Sequences, FiniteSets, SequencesExt

CONSTANTS Scripts    \* bound: the scripts evaluated, a set of expressions

VARIABLES
    script,    \* the script
    fails,     \* device operations that fail
    st,        \* the state of the updater
    exit       \* exit status of the updater, -1 before

evars == <<script, fails, st, exit>>

-----------------------------------------------------------------------------
Str(s)  == [type |-> "string", s |-> s]
Blob(s) == [type |-> "blob", s |-> s]        \* s = "none": a blob without data
Null    == [type |-> "null", s |-> "null"]
T     == Str("t")
Empty == Str("")
Truth(b) == IF b THEN T ELSE Empty

(***************************************************************************)
(* The state: v is the value of the last evaluation, err the error message *)
(* ("none" is NULL), log the calls on the device, mnt the mounted volumes, *)
(* and dead is set when the process has died of its own error.             *)
(***************************************************************************)
Start == [v |-> Empty, err |-> "none", log |-> <<>>, mnt |-> {}, dead |-> FALSE]

Give(x, v) == [x EXCEPT !.v = v]
Does(x, op) == [x EXCEPT !.log = Append(@, op)]
ErrorAbort(x, msg) == [Does(x, "abort") EXCEPT !.v = Null, !.err = msg]
Dies(x) == [x EXCEPT !.v = Null, !.dead = TRUE]
BooleanString(v) == v.s # ""

RECURSIVE EvaluateValue(_, _)

\* Evaluate: only strings.
Evaluate(x, e) ==
    LET y == EvaluateValue(x, e)
    IN  IF y.v.type = "blob" THEN ErrorAbort(y, "expecting string") ELSE y

(***************************************************************************)
(* ReadArgs, ReadVarArgs and their Value versions: one after the other, up *)
(* to the first Null.  The result is [x, a]: the state and the values.     *)
(***************************************************************************)
ReadWith(Ev(_, _), x, argv) ==
    FoldLeft(LAMBDA acc, e :
                 IF acc.x.v = Null THEN acc
                 ELSE LET y == Ev(acc.x, e) IN [x |-> y, a |-> Append(acc.a, y.v)],
             [x |-> Give(x, Empty), a |-> <<>>], argv)

ReadVarArgs(x, argv) == ReadWith(Evaluate, x, argv)
ReadValueVarArgs(x, argv) == ReadWith(EvaluateValue, x, argv)
Aborted(r) == r.x.v = Null

-----------------------------------------------------------------------------
(***************************************************************************)
(* expr.c                                                                  *)
(***************************************************************************)
Cat(a) == FoldLeft(LAMBDA s, v : s \o v.s, "", a)

ConcatFn(x, argv) ==
    LET r == ReadVarArgs(x, argv)
    IN  IF Aborted(r) THEN r.x ELSE Give(r.x, Str(Cat(r.a)))

IfElseFn(x, argv) ==
    IF Len(argv) \notin {2, 3} THEN ErrorAbort(x, "ifelse expects 2 or 3 arguments")
    ELSE LET c == Evaluate(x, argv[1])
         IN  IF c.v = Null THEN c
             ELSE IF BooleanString(c.v) THEN EvaluateValue(c, argv[2])
             ELSE IF Len(argv) = 3 THEN EvaluateValue(c, argv[3])
             ELSE c

AbortFn(x, argv) ==
    LET m == IF argv = <<>> THEN Give(x, Null) ELSE Evaluate(x, argv[1])
    IN  ErrorAbort(m, IF m.v = Null THEN "called abort()" ELSE m.v.s)

\* The arguments one by one, each before the next is evaluated.
AssertFn_Slip(x, argv) ==
    LET r == ReadVarArgs(x, argv)
    IN  IF Aborted(r) THEN r.x
        ELSE IF \E i \in DOMAIN r.a : ~BooleanString(r.a[i]) THEN ErrorAbort(r.x, "assert failed")
        ELSE Give(r.x, Empty)

AssertFn(x, argv) ==
    LET y == FoldLeft(LAMBDA acc, e :
                          IF acc.v = Null THEN acc
                          ELSE LET z == Evaluate(acc, e)
                               IN  IF z.v # Null /\ ~BooleanString(z.v)
                                   THEN ErrorAbort(z, "assert failed") ELSE z,
                      Give(x, Empty), argv)
    IN  IF y.v = Null THEN y ELSE Give(y, Empty)

StdoutFn(x, argv) ==
    LET r == ReadVarArgs(x, argv) IN IF Aborted(r) THEN r.x ELSE Give(r.x, Empty)

SleepFn(x, argv) == Evaluate(x, argv[1])

LogicalAndFn(x, argv) ==
    LET l == Evaluate(x, argv[1])
    IN  IF l.v = Null \/ ~BooleanString(l.v) THEN l ELSE EvaluateValue(l, argv[2])

LogicalOrFn(x, argv) ==
    LET l == Evaluate(x, argv[1])
    IN  IF l.v = Null \/ BooleanString(l.v) THEN l ELSE EvaluateValue(l, argv[2])

LogicalNotFn(x, argv) ==
    LET l == Evaluate(x, argv[1])
    IN  IF l.v = Null THEN l ELSE Give(l, Truth(~BooleanString(l.v)))

\* SubstringFn, EqualityFn, InequalityFn, and the two comparisons of integers
\* (what is no integer is not less and not greater).  The strings here are
\* such that one holds another only if it is the same or empty.
Compare(x, argv, Test(_, _)) ==
    LET r == ReadVarArgs(x, argv)
    IN  IF Aborted(r) THEN r.x ELSE Give(r.x, Truth(Test(r.a[1].s, r.a[2].s)))

Ints == [s \in {"1", "2"} |-> IF s = "1" THEN 1 ELSE 2]
LessThan(a, b) == a \in DOMAIN Ints /\ b \in DOMAIN Ints /\ Ints[a] < Ints[b]

LessThanIntFn(x, argv) ==
    IF Len(argv) # 2 THEN ErrorAbort(x, "expects 2 arguments") ELSE Compare(x, argv, LessThan)

\* Evaluates its second argument first.
GreaterThanIntFn(x, argv) ==
    IF Len(argv) # 2 THEN ErrorAbort(x, "expects 2 arguments")
    ELSE LessThanIntFn(x, <<argv[2], argv[1]>>)

SubstringFn(x, argv) == Compare(x, argv, LAMBDA needle, haystack : needle \in {"", haystack})
EqualityFn(x, argv) == Compare(x, argv, LAMBDA a, b : a = b)
InequalityFn(x, argv) == Compare(x, argv, LAMBDA a, b : a # b)

SequenceFn_Slip(x, argv) ==
    LET l == EvaluateValue(x, argv[1]) IN EvaluateValue(l, argv[2])

SequenceFn(x, argv) ==
    LET l == EvaluateValue(x, argv[1]) IN IF l.v = Null THEN l ELSE EvaluateValue(l, argv[2])

-----------------------------------------------------------------------------
(***************************************************************************)
(* updater/install.c.  A device operation that fails is reported by an     *)
(* empty string, never by Null.                                            *)
(***************************************************************************)
\* A function of n strings that acts on the device once.
Device(x, argv, n, op, Result(_)) ==
    IF Len(argv) # n THEN ErrorAbort(x, "wrong number of args")
    ELSE LET r == ReadVarArgs(x, argv)
         IN  IF Aborted(r) THEN r.x
             ELSE LET y == Does(r.x, op) IN Give(y, IF op \in fails THEN Empty ELSE Result(r.a))

NotEmpty(r) == Aborted(r) \/ \A i \in DOMAIN r.a : BooleanString(r.a[i])

MountFn(x, argv) ==
    IF Len(argv) # 3 THEN ErrorAbort(x, "wrong number of args")
    ELSE LET r == ReadVarArgs(x, argv)
         IN  IF Aborted(r) THEN r.x
             ELSE IF ~NotEmpty(r) THEN ErrorAbort(r.x, "can't be empty")
             ELSE IF "mount" \in fails THEN Give(Does(r.x, "mount"), Empty)
             ELSE [Give(Does(r.x, "mount"), r.a[3]) EXCEPT !.mnt = @ \cup {r.a[3].s}]

IsMountedFn(x, argv) ==
    IF Len(argv) # 1 THEN ErrorAbort(x, "wrong number of args")
    ELSE LET r == ReadVarArgs(x, argv)
         IN  IF Aborted(r) THEN r.x
             ELSE IF ~NotEmpty(r) THEN ErrorAbort(r.x, "can't be empty")
             ELSE Give(r.x, IF r.a[1].s \in r.x.mnt THEN r.a[1] ELSE Empty)

\* The outcome of umount itself is not looked at.
UnmountFn(x, argv) ==
    LET y == IsMountedFn(x, argv)
    IN  IF y.v = Null \/ y.v = Empty THEN y
        ELSE [Does(y, "unmount") EXCEPT !.mnt = IF "unmount" \in fails THEN @ ELSE @ \ {y.v.s}]

\* An unknown type aborts without a message.
FormatFn(x, argv) ==
    IF Len(argv) # 2 THEN ErrorAbort(x, "wrong number of args")
    ELSE LET r == ReadVarArgs(x, argv)
         IN  IF Aborted(r) THEN r.x
             ELSE IF ~NotEmpty(r) THEN ErrorAbort(r.x, "can't be empty")
             ELSE IF r.a[1].s # "MTD" THEN Give(Does(r.x, "abort"), Null)
             ELSE LET y == Does(r.x, "format")
                  IN  Give(y, IF "format" \in fails THEN Empty ELSE r.a[2])

\* A Null after another argument sends the clean-up loop, which counts the
\* wrong variable, freeing the same string for ever.
DeleteFn(x, argv) ==
    LET r == ReadVarArgs(x, argv)
    IN  IF Aborted(r) THEN IF Len(r.a) > 1 THEN Dies(r.x) ELSE r.x
        ELSE Give([r.x EXCEPT !.log = @ \o [i \in DOMAIN r.a |-> "delete"]],
                  Str(IF "delete" \in fails THEN "0" ELSE "1"))

ShowProgressFn(x, argv) == Device(x, argv, 2, "progress", LAMBDA a : a[1])
SetProgressFn(x, argv) == Device(x, argv, 1, "set_progress", LAMBDA a : a[1])
PackageExtractDirFn(x, argv) == Device(x, argv, 2, "extract", LAMBDA a : T)

PackageExtractFileFn(x, argv) ==
    IF Len(argv) = 1
    THEN LET r == ReadVarArgs(x, argv)
         IN  IF Aborted(r) THEN r.x
             ELSE Give(r.x, Blob(IF "extract" \in fails THEN "none" ELSE "data"))
    ELSE Device(x, argv, 2, "extract", LAMBDA a : T)

\* Links that cannot be made are passed over.
SymlinkFn(x, argv) ==
    IF argv = <<>> THEN ErrorAbort(x, "expects 1+ args")
    ELSE LET r == ReadVarArgs(x, argv)
         IN  IF Aborted(r) THEN r.x
             ELSE Give([r.x EXCEPT !.log = @ \o [i \in 1 .. Len(argv) - 1 |-> "symlink"]], Empty)

\* All arguments are read, and the numbers checked, before the first chown.
SetPermFn(x, argv, n) ==
    IF Len(argv) < n THEN ErrorAbort(x, "wrong number of args")
    ELSE LET r == ReadVarArgs(x, argv)
         IN  IF Aborted(r) THEN r.x
             ELSE IF \E i \in 1 .. n - 1 : r.a[i].s \notin DOMAIN Ints THEN ErrorAbort(r.x, "not valid")
             ELSE Give([r.x EXCEPT !.log = @ \o [i \in 1 .. Len(argv) - n + 1 |-> "perm"]], Empty)

GetPropFn(x, argv) == Device(x, argv, 1, "getprop", LAMBDA a : T)

\* A missing, large, unreadable or malformed file aborts.
FileGetPropFn(x, argv) ==
    LET r == ReadVarArgs(x, argv)
    IN  IF Aborted(r) THEN r.x
        ELSE IF "read" \in fails THEN ErrorAbort(r.x, "failed to read") ELSE Give(r.x, T)

ApplyPatchSpaceFn(x, argv) ==
    LET r == ReadVarArgs(x, argv)
    IN  IF Aborted(r) THEN r.x
        ELSE IF r.a[1].s \notin DOMAIN Ints THEN ErrorAbort(r.x, "can't parse")
        ELSE Give(r.x, Truth("space" \notin fails))

\* The patches come after the four strings, a digest and a blob each; a Null
\* among them is not noticed.
ApplyPatchFn(x, argv) ==
    IF Len(argv) < 6 \/ Len(argv) % 2 = 1 THEN ErrorAbort(x, "expected at least 6 args")
    ELSE LET r == ReadVarArgs(x, SubSeq(argv, 1, 4))
             p == ReadValueVarArgs(r.x, SubSeq(argv, 5, Len(argv)))
         IN  IF Aborted(r) THEN r.x
             ELSE IF r.a[4].s \notin DOMAIN Ints THEN ErrorAbort(r.x, "can't parse")
             ELSE IF Aborted(p) THEN Dies(p.x)
             ELSE IF \E i \in DOMAIN p.a : p.a[i].type # (IF i % 2 = 1 THEN "string" ELSE "blob")
             THEN ErrorAbort(p.x, "not blob")
             ELSE Give(Does(p.x, "apply"), Truth("apply" \notin fails))

ApplyPatchCheckFn(x, argv) ==
    IF argv = <<>> THEN ErrorAbort(x, "expected at least 1 arg")
    ELSE LET r == ReadVarArgs(x, SubSeq(argv, 1, 1))
             p == ReadVarArgs(r.x, SubSeq(argv, 2, Len(argv)))
         IN  IF Aborted(r) THEN r.x ELSE IF Aborted(p) THEN Dies(p.x)
             ELSE Give(p.x, Truth("check" \notin fails))

UIPrintFn(x, argv) ==
    LET r == ReadVarArgs(x, argv)
    IN  IF Aborted(r) THEN r.x ELSE Give(Does(r.x, "ui_print"), Str(Cat(r.a)))

\* A failing write is an empty string; failures to erase the rest and to close
\* are only printed.
WriteRawImageFn(x, argv) ==
    LET r == ReadVarArgs(x, argv)
    IN  IF Aborted(r) THEN r.x
        ELSE IF ~NotEmpty(r) THEN ErrorAbort(r.x, "can't be empty")
        ELSE Give(Does(r.x, "flash"), IF "flash" \in fails THEN Empty ELSE r.a[2])

\* The exit status, as a number: a program that fails is a true value.
RunProgramFn(x, argv) ==
    IF argv = <<>> THEN ErrorAbort(x, "expects at least 1 arg")
    ELSE LET r == ReadVarArgs(x, argv)
         IN  IF Aborted(r) THEN r.x
             ELSE Give(Does(r.x, "run"), Str(IF "run" \in fails THEN "256" ELSE "0"))

\* The digest of "data" is "sha"; a blob without data has none.
Sha1CheckFn(x, argv) ==
    IF argv = <<>> THEN ErrorAbort(x, "expects at least 1 arg")
    ELSE LET r == ReadValueVarArgs(x, argv)
         IN  IF Aborted(r) THEN r.x
             ELSE IF r.a[1] = Blob("none") THEN Give(r.x, Empty)
             ELSE IF Len(argv) = 1 THEN Give(r.x, Str("sha"))
             ELSE Give(r.x, IF \E i \in 2 .. Len(argv) : r.a[i] = Str("sha") THEN Str("sha") ELSE Empty)

ReadFileFn(x, argv) ==
    IF Len(argv) # 1 THEN ErrorAbort(x, "wrong number of args")
    ELSE LET r == ReadVarArgs(x, argv)
         IN  IF Aborted(r) THEN r.x
             ELSE IF "read" \in fails THEN ErrorAbort(r.x, "loading failed") ELSE Give(r.x, Blob("data"))

-----------------------------------------------------------------------------
\* RegisterBuiltins, RegisterInstallFunctions and FindFunction; the operators
\* of the grammar (parser.y) are built in.
EvaluateValue(x, e) ==
    LET a == e.args IN
    IF x.dead THEN x ELSE
    CASE e.fn = "literal"  -> Give(x, Str(e.name))
      [] e.fn = "concat"   -> ConcatFn(x, a)
      [] e.fn = "ifelse"   -> IfElseFn(x, a)
      [] e.fn = "abort"    -> AbortFn(x, a)
      [] e.fn = "assert"   -> AssertFn(x, a)
      [] e.fn = "stdout"   -> StdoutFn(x, a)
      [] e.fn = "sleep"    -> SleepFn(x, a)
      [] e.fn = "and"      -> LogicalAndFn(x, a)
      [] e.fn = "or"       -> LogicalOrFn(x, a)
      [] e.fn = "not"      -> LogicalNotFn(x, a)
      [] e.fn = "is_substring" -> SubstringFn(x, a)
      [] e.fn = "eq"       -> EqualityFn(x, a)
      [] e.fn = "ne"       -> InequalityFn(x, a)
      [] e.fn = "less"     -> LessThanIntFn(x, a)
      [] e.fn = "greater"  -> GreaterThanIntFn(x, a)
      [] e.fn = "seq"      -> SequenceFn(x, a)
      [] e.fn = "mount"    -> MountFn(x, a)
      [] e.fn = "is_mounted" -> IsMountedFn(x, a)
      [] e.fn = "unmount"  -> UnmountFn(x, a)
      [] e.fn = "format"   -> FormatFn(x, a)
      [] e.fn \in {"delete", "delete_recursive"} -> DeleteFn(x, a)
      [] e.fn = "show_progress" -> ShowProgressFn(x, a)
      [] e.fn = "set_progress" -> SetProgressFn(x, a)
      [] e.fn = "package_extract_dir" -> PackageExtractDirFn(x, a)
      [] e.fn = "package_extract_file" -> PackageExtractFileFn(x, a)
      [] e.fn = "symlink"  -> SymlinkFn(x, a)
      [] e.fn = "set_perm" -> SetPermFn(x, a, 4)
      [] e.fn = "set_perm_recursive" -> SetPermFn(x, a, 5)
      [] e.fn = "getprop"  -> GetPropFn(x, a)
      [] e.fn = "file_getprop" -> FileGetPropFn(x, a)
      [] e.fn = "apply_patch" -> ApplyPatchFn(x, a)
      [] e.fn = "apply_patch_check" -> ApplyPatchCheckFn(x, a)
      [] e.fn = "apply_patch_space" -> ApplyPatchSpaceFn(x, a)
      [] e.fn = "write_raw_image" -> WriteRawImageFn(x, a)
      [] e.fn = "ui_print" -> UIPrintFn(x, a)
      [] e.fn = "run_program" -> RunProgramFn(x, a)
      [] e.fn = "sha1_check" -> Sha1CheckFn(x, a)
      [] e.fn = "read_file" -> ReadFileFn(x, a)

\* The end of main in updater.c.
UpdaterMain ==
    /\ exit = -1
    /\ st' = Evaluate(Start, script)
    /\ exit' = IF st'.dead THEN 11 ELSE IF st'.v = Null THEN 7 ELSE 0
    /\ UNCHANGED <<script, fails>>

Init ==
    /\ script \in Scripts /\ st = Start /\ exit = -1
    /\ fails \in {{}, {"mount"}, {"format", "apply", "extract", "flash"}, {"read", "run"}, {"unmount", "space", "check"}}

Next == UpdaterMain

-----------------------------------------------------------------------------
\* Nothing that acts on the device happens after an abort, wherever in the
\* script it comes from.
AbortIsFinal ==
    \A i, j \in DOMAIN st.log : (i < j /\ st.log[i] = "abort") => st.log[j] = "abort"

\* The exit status tells: the updater succeeds only if nothing aborted.
ExitTells == exit = 0 => \A i \in DOMAIN st.log : st.log[i] # "abort"

\* An assertion stops at its first false argument: no later one is evaluated.
AssertGuards ==
    (exit # -1 /\ script.fn = "assert") =>
        \A first \in {Evaluate(Start, script.args[1])} :
            (first.v = Null \/ ~BooleanString(first.v)) =>
                st.log \in {first.log, Append(first.log, "abort")} /\ exit # 0

=============================================================================
