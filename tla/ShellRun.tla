------------------------------ MODULE ShellRun -----------------------------
(* How btsh evaluates commands (eval.c): the constructs under way as a stack *)
(* of frames, break, continue and return as the flag evalskip every frame    *)
(* looks at, errors as jumps to the innermost handler, and the shell's -e    *)
(* option.  What the commands are is left open.                              *)
EXTENDS Integers, Sequences, FiniteSets

CONSTANTS MaxDepth,     \* constructs nested in each other
          MaxCommands,  \* commands in a file or string
          MaxNest,      \* what caught errors may leave behind in the counters
          eflag, iflag  \* the options -e and -i

VARIABLES stack,     \* the constructs under way, cmdloop(1) first
          pc,        \* "eval": a node is to be evaluated; "done": one has been
          evalskip, skipcount, loopnest, funcnest, redirs, exitstatus,
          target,    \* the frame the last break, continue or return meant
          ranOn,     \* a command ran although others were being skipped
          caught     \* an error was caught half-way up the stack

vars == <<stack, pc, evalskip, skipcount, loopnest, funcnest, redirs, exitstatus, target, ranOn, caught>>
counters == <<evalskip, skipcount, loopnest, funcnest, redirs, target, caught>>

Top   == stack[Len(stack)]
Below == SubSeq(stack, 1, Len(stack) - 1)
Indices(kinds) == {i \in DOMAIN stack : stack[i].k \in kinds}
Last(S) == CHOOSE i \in S : \A j \in S : j <= i

---------------------------------------------------------------------------
Tests_Slip(f) ==
    \/ f.k \in {"and", "or", "if"} /\ f.left = 1
    \/ f.k \in {"not", "string"}

\* Whether the exit status of what a frame evaluates is looked at (EV_TESTED).
Tests(f) ==
    \/ f.k \in {"and", "or", "if"} /\ f.left = 1
    \/ f.k = "while" /\ f.left = 2
    \/ f.k \in {"not", "string"}

EvTested == IF Top.k \in {"file", "base"} THEN FALSE ELSE Tests(Top) \/ Top.tested

\* The commands of a file or string are read and run whatever evalskip says.
Running == pc = "eval" /\ ranOn' = (ranOn \/ evalskip # "no")

Frame(k, left, special) == [k |-> k, left |-> left, tested |-> EvTested, special |-> special]
Push(f) == Len(stack) < MaxDepth /\ stack' = Append(stack, f) /\ pc' = "eval"

\* -e: a command that failed and was not tested ends the shell.
Checked(tested, s) == pc' = IF eflag /\ s # 0 /\ ~tested THEN "errexit" ELSE "done"

---------------------------------------------------------------------------
\* A command without structure: a program, a builtin.
Simple(s) ==
    /\ Running /\ exitstatus' = s /\ Checked(EvTested, s)
    /\ UNCHANGED <<stack, counters>>

\* ; && || if ! case: nothing but the frame.
Open(k, left) ==
    /\ Running /\ Push(Frame(k, left, FALSE))
    /\ UNCHANGED <<exitstatus, counters>>

OpenRedir ==
    /\ Running /\ Push(Frame("redir", 0, FALSE))
    /\ redirs' = redirs + 1
    /\ UNCHANGED <<exitstatus, evalskip, skipcount, loopnest, funcnest, target, caught>>

OpenLoop(k) ==
    /\ Running /\ Push(Frame(k, IF k = "while" THEN 2 ELSE 1, FALSE))
    /\ loopnest' = loopnest + 1
    /\ UNCHANGED <<exitstatus, evalskip, skipcount, funcnest, redirs, target, caught>>

CallFunction ==
    /\ Running /\ Push(Frame("func", 0, FALSE))
    /\ funcnest' = funcnest + 1 /\ redirs' = redirs + 1
    /\ UNCHANGED <<exitstatus, evalskip, skipcount, loopnest, target, caught>>

\* eval and "."; behind "command" they are no special builtins.
CallBuiltin(k, special) ==
    /\ Running /\ Len(stack) + 1 < MaxDepth
    /\ stack' = stack \o <<Frame("builtin", 0, special), Frame(k, MaxCommands - 1, FALSE)>>
    /\ pc' = "eval" /\ redirs' = redirs + 1
    /\ UNCHANGED <<exitstatus, evalskip, skipcount, loopnest, funcnest, target, caught>>

Loops == Indices({"while", "for"})
\* The n-th loop from inside.
Enclosing(n) == IF Cardinality(Loops) < n THEN 0
                ELSE CHOOSE i \in Loops : Cardinality({j \in Loops : j >= i}) = n

breakcmd_Slip(kind, n) ==
    /\ Running /\ loopnest > 0
    /\ evalskip' = kind /\ skipcount' = n /\ target' = Enclosing(n)
    /\ exitstatus' = 0 /\ pc' = "done"
    /\ UNCHANGED <<stack, loopnest, funcnest, redirs, caught>>

\* Never more loops than there are; outside of loops nothing happens.
breakcmd(kind, n) ==
    LET m == IF n > loopnest THEN loopnest ELSE n
    IN /\ Running
       /\ IF m > 0 THEN evalskip' = kind /\ skipcount' = m /\ target' = Enclosing(m)
          ELSE UNCHANGED <<evalskip, skipcount, target>>
       /\ exitstatus' = 0 /\ pc' = "done"
       /\ UNCHANGED <<stack, loopnest, funcnest, redirs, caught>>

returncmd(s) ==
    /\ Running
    /\ LET funcs == Indices({"func"})
       IN IF funcnest > 0
          THEN evalskip' = "func" /\ target' = IF funcs = {} THEN 0 ELSE Last(funcs)
          ELSE evalskip' = "file" /\ target' = Last(Indices({"file", "base"}))
    /\ skipcount' = 1
    /\ exitstatus' = s /\ Checked(EvTested, s)
    /\ UNCHANGED <<stack, loopnest, funcnest, redirs, caught>>

---------------------------------------------------------------------------
\* A node has been evaluated: what its frame does next.
Leave(f) == pc = "done" /\ Top.k = f /\ stack' = Below
Go == stack' = [stack EXCEPT ![Len(stack)].left = @ - 1] /\ pc' = "eval"

evalbinary ==
    /\ pc = "done" /\ Top.k \in {"semi", "and", "or"}
    /\ IF Top.left = 1 /\ evalskip = "no"
             /\ (Top.k = "and" => exitstatus = 0) /\ (Top.k = "or" => exitstatus # 0)
       THEN Go
       ELSE stack' = Below /\ pc' = "done"
    /\ UNCHANGED <<exitstatus, ranOn, counters>>

evalif ==
    /\ pc = "done" /\ Top.k = "if"
    /\ \/ /\ Top.left = 1 /\ evalskip = "no"        \* then, or an else part
          /\ Go /\ UNCHANGED exitstatus
       \/ /\ Top.left = 1 /\ evalskip = "no" /\ exitstatus # 0
          /\ stack' = Below /\ pc' = "done" /\ exitstatus' = 0
       \/ /\ Top.left = 0 \/ evalskip # "no"
          /\ stack' = Below /\ pc' = "done" /\ UNCHANGED exitstatus
    /\ UNCHANGED <<ranOn, counters>>

evalnot ==
    /\ Leave("not") /\ pc' = "done" /\ exitstatus' = 1 - exitstatus
    /\ UNCHANGED <<ranOn, counters>>

evalcase ==
    /\ Leave("case") /\ pc' = "done" /\ UNCHANGED <<exitstatus, ranOn, counters>>

evalredir ==
    /\ Leave("redir") /\ pc' = "done" /\ redirs' = redirs - 1
    /\ UNCHANGED <<exitstatus, ranOn, evalskip, skipcount, loopnest, funcnest, target, caught>>

\* The skipping a loop sees: continue here, or one loop less to leave.
Skipping_Slip ==
    IF evalskip = "cont"  THEN [skip |-> "no", count |-> skipcount - 1, again |-> TRUE]
    ELSE IF evalskip = "break" /\ skipcount <= 1 THEN [skip |-> "no", count |-> skipcount - 1, again |-> FALSE]
    ELSE [skip |-> evalskip, count |-> IF evalskip = "break" THEN skipcount - 1 ELSE skipcount, again |-> FALSE]

Skipping ==
    IF evalskip = "cont" /\ skipcount <= 1 THEN [skip |-> "no", count |-> skipcount - 1, again |-> TRUE]
    ELSE IF evalskip = "break" /\ skipcount <= 1 THEN [skip |-> "no", count |-> skipcount - 1, again |-> FALSE]
    ELSE [skip |-> evalskip, again |-> FALSE,
          count |-> IF evalskip \in {"cont", "break"} THEN skipcount - 1 ELSE skipcount]

\* while, until and for: the test, the body, the skip flag after either.
evalloop ==
    /\ pc = "done" /\ Top.k \in {"while", "for"}
    /\ LET first == IF Top.k = "while" THEN 2 ELSE 1
           again == stack' = [stack EXCEPT ![Len(stack)].left = first] /\ pc' = "eval" /\ UNCHANGED loopnest
           leave == stack' = Below /\ pc' = "done" /\ loopnest' = loopnest - 1
       IN \/ /\ evalskip # "no"
             /\ evalskip' = Skipping.skip /\ skipcount' = Skipping.count
             /\ \/ Skipping.again /\ again
                \/ (~Skipping.again \/ Top.k = "for") /\ leave   \* the last word of a for
          \/ /\ evalskip = "no" /\ Top.left = 2
             /\ Go /\ UNCHANGED <<evalskip, skipcount, loopnest>>
          \/ /\ evalskip = "no" /\ Top.left = 1
             /\ again /\ UNCHANGED <<evalskip, skipcount>>
          \/ /\ evalskip = "no" /\ (Top.left = 2 \/ Top.k = "for")
             /\ leave /\ UNCHANGED <<evalskip, skipcount>>
    /\ \E s \in {0, exitstatus} : exitstatus' = s
    /\ target' = IF evalskip' = "no" THEN 0 ELSE target
    /\ UNCHANGED <<ranOn, funcnest, redirs, caught>>

\* The end of a function.
evalfunction ==
    /\ Leave("func") /\ funcnest' = funcnest - 1 /\ redirs' = redirs - 1
    /\ IF evalskip = "func" THEN evalskip' = "no" /\ skipcount' = 0 /\ target' = 0
       ELSE UNCHANGED <<evalskip, skipcount, target>>
    /\ Checked(Top.tested, exitstatus)
    /\ UNCHANGED <<exitstatus, ranOn, loopnest, caught>>

evalbuiltin ==
    /\ Leave("builtin") /\ redirs' = redirs - 1
    /\ Checked(Top.tested, exitstatus)
    /\ UNCHANGED <<exitstatus, ranOn, evalskip, skipcount, loopnest, funcnest, target, caught>>

\* evalstring reads on to the end of the string.
evalstring ==
    /\ pc = "done" /\ Top.k = "string"
    /\ \/ Top.left > 0 /\ Go
       \/ stack' = Below /\ pc' = "done"
    /\ UNCHANGED <<exitstatus, ranOn, counters>>

\* cmdloop reads on unless a return was made for it.
cmdloop ==
    /\ pc = "done" /\ Top.k \in {"file", "base"}
    /\ IF evalskip = "file"
       THEN /\ evalskip' = "no" /\ target' = 0
            /\ IF Top.k = "base" THEN pc' = "exit" /\ UNCHANGED stack ELSE pc' = "done" /\ stack' = Below
       ELSE /\ \/ Top.k = "base" /\ pc' = "eval" /\ UNCHANGED stack
               \/ Top.k = "file" /\ Top.left > 0 /\ Go
               \/ Top.k = "file" /\ stack' = Below /\ pc' = "done"
            /\ UNCHANGED <<evalskip, target>>
    /\ UNCHANGED <<exitstatus, ranOn, skipcount, loopnest, funcnest, redirs, caught>>

---------------------------------------------------------------------------
\* An error jumps to the innermost builtin that is not special and asked for no
\* more than errors; functions on the way pass it on (exraise, evalcommand).
Catchers == {i \in DOMAIN stack : stack[i].k = "builtin" /\ ~stack[i].special}

Raise(e) ==
    /\ pc = "eval" /\ loopnest + funcnest + redirs <= MaxNest
    /\ IF e = "ERROR" /\ Catchers # {}
       THEN LET i == Last(Catchers)
            IN /\ stack' = SubSeq(stack, 1, i - 1)
               /\ redirs' = redirs - 1
               /\ exitstatus' = 1 /\ Checked(stack[i].tested, 1)
               /\ caught' = (caught \/ \E j \in (i + 1)..Len(stack) :
                                stack[j].k \in {"redir", "func", "builtin", "while", "for"})
               /\ UNCHANGED <<evalskip, skipcount, loopnest, funcnest, target>>
       ELSE /\ IF iflag
               THEN /\ stack' = <<stack[1]>> /\ pc' = "done"    \* main(): reset() and cmdloop(1)
                    /\ evalskip' = "no" /\ loopnest' = 0 /\ funcnest' = 0 /\ redirs' = 0
                    /\ caught' = FALSE /\ target' = 0
               ELSE /\ pc' = "exit"
                    /\ UNCHANGED <<stack, evalskip, loopnest, funcnest, redirs, caught, target>>
            /\ exitstatus' = 1 /\ UNCHANGED skipcount
    /\ UNCHANGED ranOn

Init ==
    /\ stack = <<[k |-> "base", left |-> 0, tested |-> FALSE, special |-> FALSE]>>
    /\ pc = "eval" /\ evalskip = "no" /\ skipcount = 0 /\ loopnest = 0 /\ funcnest = 0
    /\ redirs = 0 /\ exitstatus = 0 /\ target = 0 /\ ranOn = FALSE /\ caught = FALSE

Next ==
    \/ \E s \in {0, 1} : Simple(s) \/ returncmd(s)
    \/ \E k \in {"semi", "and", "or", "if"} : Open(k, 1)
    \/ \E k \in {"not", "case"} : Open(k, 0)
    \/ OpenRedir \/ CallFunction
    \/ \E k \in {"while", "for"} : OpenLoop(k)
    \/ \E k \in {"string", "file"}, special \in BOOLEAN : CallBuiltin(k, special)
    \/ \E kind \in {"break", "cont"}, n \in 1..2 : breakcmd(kind, n)
    \/ evalbinary \/ evalif \/ evalnot \/ evalcase \/ evalredir \/ evalloop
    \/ evalfunction \/ evalbuiltin \/ evalstring \/ cmdloop
    \/ \E e \in {"ERROR", "INT"} : Raise(e)

---------------------------------------------------------------------------
(* The nesting of loops, functions and redirections is counted right however *)
(* they are left, until an error thrown inside one of them is caught by      *)
(* "command eval" or "command .", which leaves the counters behind.          *)
NestingKept ==
    ~caught => /\ loopnest = Cardinality(Loops)
               /\ funcnest = Cardinality(Indices({"func"}))
               /\ redirs = Cardinality(Indices({"redir", "func", "builtin"}))

(* Of what break, continue or return skip nothing runs, but for the rest of  *)
(* a file or string, which is read to its end.                               *)
SkippedDoesNotRun ==
    pc = "eval" /\ evalskip # "no" /\ ~ranOn /\ ~caught => Top.k \in {"file", "string"}

(* While commands are skipped the loops still to be left are those between   *)
(* here and the one that was meant, or the function or file that was meant   *)
(* is still under way, unless the rest of a file or string ran meanwhile.    *)
SkipAims ==
    evalskip # "no" /\ ~ranOn /\ ~caught =>
        /\ target \in DOMAIN stack
        /\ evalskip \in {"break", "cont"} => Cardinality({i \in Loops : i >= target}) = skipcount

\* The test of if and while, the left of && and ||, what ! negates, and eval.
LookedAt(f) == CASE f.k = "while" -> f.left = 2
                 [] f.k \in {"and", "or", "if"} -> f.left = 1
                 [] OTHER -> f.k \in {"not", "string"}

(* -e does not end the shell within a command whose failure is tested, nor   *)
(* within eval; a file read with "." is the exception.                       *)
ErrexitRight ==
    pc = "errexit" => \A i \in DOMAIN stack :
        LookedAt(stack[i]) => \E j \in DOMAIN stack : j > i /\ stack[j].k = "file"

RunSafe == NestingKept /\ SkippedDoesNotRun /\ SkipAims /\ ErrexitRight

(* Skipping ends at the very frame that break, continue or return meant.     *)
RunSteps ==
    evalskip # "no" /\ evalskip' = "no" /\ pc = "done" /\ ~ranOn /\ ~caught => Len(stack) = target
=============================================================================
