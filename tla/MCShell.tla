------------------------------ MODULE MCShell ------------------------------
(***************************************************************************)
(* btsh, model-checked part by part: a behaviour exercises one part, the   *)
(* others keep an initial state.                                           *)
(***************************************************************************)
EXTENDS Integers, Sequences, FiniteSets

VARIABLES
    part,
    jobtab, curjob, jobs_invalid, jrootshell, job_warning, jopts, tty, proc,
    jpc, janswer, jevents,
    fd, redirlist, rbefore, fd0_redirected, rpc, kids, rlost, commands,
    trap, sigmode, handler, gotsig, pendingsigs, suppressint, intpending,
    topts, trootshell, texitstatus, frames, mode, late, exits, used,
    vartab, localvars, vbefore, heap, next, misuse,
    ifiles, atab, alias, checkkwd, words, phase, loose, ievents,
    stack, upc, evalskip, skipcount, loopnest, funcnest, redirs, uexitstatus,
    target, ranOn, caught,
    cmdtable, path, builtinloc, cwd, xfiles, xanswer, funcs, xlost, xevents

\* Scripts of two lines and of one word without a newline, and aliases that
\* name themselves, each other, and hold a line break.
MCFiles  == {<<"a", "\n", "b", ";", "a", "\n">>, <<"a">>}
MCValues == {<<"a">>, <<"b", ";", "a">>, <<"b", "\n", "a">>}

\* Directories before and behind the current one, and the builtins in between.
MCPaths == {<<"/a", "/b">>, <<".", "/a">>, <<"/a", ".", "/b">>, <<"/a", "%builtin", ".">>, <<"/b">>}
MCFileSets == {{<<"p", "/b">>, <<"b", "/a">>}, {<<"p", "/a">>, <<"p", "/1">>, <<"p", "/b">>},
               {<<"p", "/b">>, <<"p", "/2">>, <<"b", "/2">>}}

Job == INSTANCE ShellJobs WITH Pids <- {1, 2}, Grow <- 2, Garbage <- {1, 2}, MaxEvents <- 1,
           rootshell <- jrootshell, opts <- jopts, pc <- jpc, answer <- janswer, events <- jevents
Red == INSTANCE ShellRedir WITH User <- {0, 1}, High <- 6, MaxFd <- 13, MaxCommands <- 2, MaxPipe <- 3,
           before <- rbefore, pc <- rpc, lost <- rlost
Tra == INSTANCE ShellTraps WITH MaxEvents <- 2, MaxStatus <- 1,
           opts <- topts, rootshell <- trootshell, exitstatus <- texitstatus
Var == INSTANCE ShellVars WITH Names <- {"x"}, Values <- {"", "a"}, MaxTexts <- 4, MaxCalls <- 2,
           before <- vbefore
Inp == INSTANCE ShellInput WITH Names <- {"a", "b"}, Files <- MCFiles, Values <- MCValues, BufSize <- 4,
           MaxDepth <- 2, MaxAliases <- 2, MaxEvents <- 3,
           files <- ifiles, events <- ievents
Run == INSTANCE ShellRun WITH MaxDepth <- 4, MaxCommands <- 2, MaxNest <- 4, eflag <- TRUE, iflag <- TRUE,
           pc <- upc, exitstatus <- uexitstatus
Exe == INSTANCE ShellExec WITH Names <- {"p", "b", "s"}, Builtins <- {"b"}, Special <- {"s"}, Paths <- MCPaths,
           Relative <- {"."}, Cwds <- {"/1", "/2"}, FileSets <- MCFileSets, MaxEvents <- 5,
           files <- xfiles, answer <- xanswer, lost <- xlost, events <- xevents

job == <<jobtab, curjob, jobs_invalid, jrootshell, job_warning, jopts, tty,
         proc, jpc, janswer, jevents>>
red == <<fd, redirlist, rbefore, fd0_redirected, rpc, kids, rlost, commands>>
tra == <<trap, sigmode, handler, gotsig, pendingsigs, suppressint, intpending,
         topts, trootshell, texitstatus, frames, mode, late, exits, used>>
var == <<vartab, localvars, vbefore, heap, next, misuse>>
inp == <<ifiles, atab, alias, checkkwd, words, phase, loose, ievents>>
run == <<stack, upc, evalskip, skipcount, loopnest, funcnest, redirs,
         uexitstatus, target, ranOn, caught>>
exe == <<cmdtable, path, builtinloc, cwd, xfiles, xanswer, funcs, xlost,
         xevents>>
vars == <<part, job, red, tra, var, inp, run, exe>>

\* A part that does not take part starts in one of its initial states.
Init ==
    /\ part \in {"jobs", "redir", "traps", "vars", "input", "run", "exec"}
    /\ Job!Init /\ (part # "jobs" => ~jopts.iflag)
    /\ Red!Init /\ (part # "redir" => \A d \in {0, 1} : fd[d] # Red!Closed)
    /\ Tra!Init /\ (part # "traps" => topts.script /\ trap["INT"] = "none" /\ \A s \in DOMAIN handler : handler[s] # "ign")
    /\ Var!Init /\ (part # "vars" => \A n \in DOMAIN vartab : ~vartab[n].in)
    /\ Inp!Init /\ (part # "input" => ifiles[1].unread = <<"a">>)
    /\ Run!Init
    /\ Exe!Init /\ (part # "exec" => path = <<"/b">> /\ cwd = "/1" /\ xfiles = {<<"p", "/b">>, <<"b", "/a">>})

JobsOnly == part = "jobs" /\ UNCHANGED <<part, red, tra, var, inp, run, exe>>
RedirOnly == part = "redir" /\ UNCHANGED <<part, job, tra, var, inp, run, exe>>
TrapsOnly == part = "traps" /\ UNCHANGED <<part, job, red, var, inp, run, exe>>
VarsOnly == part = "vars" /\ UNCHANGED <<part, job, red, tra, inp, run, exe>>
InputOnly == part = "input" /\ UNCHANGED <<part, job, red, tra, var, run, exe>>
RunOnly == part = "run" /\ UNCHANGED <<part, job, red, tra, var, inp, exe>>
ExecOnly == part = "exec" /\ UNCHANGED <<part, job, red, tra, var, inp, run>>

JobsStep == JobsOnly /\ Job!Next
RedirStep == RedirOnly /\ Red!Next
TrapsStep == TrapsOnly /\ Tra!Next
VarsStep == VarsOnly /\ Var!Next
InputStep == InputOnly /\ Inp!Next
RunStep == RunOnly /\ Run!Next
ExecStep == ExecOnly /\ Exe!Next

Next == JobsStep \/ RedirStep \/ TrapsStep \/ VarsStep \/ InputStep \/ RunStep \/ ExecStep

\* The shell goes on with what it is doing, a script with its next command, and
\* children that have started run to their end; nothing is assumed of the user
\* (neither commands nor interrupts), of signals and of stops.
ShellGoesOn ==
    \/ JobsOnly /\ Job!Shell
    \/ TrapsOnly /\ Tra!Shell
    \/ InputOnly /\ Inp!Shell
Fairness ==
    /\ WF_vars(ShellGoesOn)
    /\ WF_vars(JobsOnly /\ Job!Kernel(1)) /\ WF_vars(JobsOnly /\ Job!Kernel(2))

Spec == Init /\ [][Next]_vars /\ Fairness

-----------------------------------------------------------------------------
\* See ShellJobs, ShellRedir, ShellTraps, ShellVars, ShellInput, ShellRun and
\* ShellExec: jobs and their list, saved descriptors, signal handlers, the texts
\* of variables and aliases, the nesting of constructs and the command table
\* are what the code that uses them takes them for.
ShellSafe ==
    CASE part = "jobs" -> Job!JobsSafe      [] part = "redir" -> Red!RedirSafe
      [] part = "traps" -> Tra!TrapsSafe    [] part = "vars" -> Var!TextsOwned
      [] part = "input" -> Inp!InputSafe    [] part = "run" -> Run!RunSafe
      [] part = "exec" -> Exe!ExecSafe

ShellStep ==
    CASE part = "redir" -> Red!RedirUndone  [] part = "traps" -> Tra!TrapSteps
      [] part = "vars" -> Var!VarSteps      [] part = "input" -> Inp!InputSteps
      [] part = "run" -> Run!RunSteps       [] part = "exec" -> Exe!ExecSteps
      [] OTHER -> TRUE
\* See the same modules: redirections are undone, pending signals stay known,
\* local variables come back, files below the current one are left alone,
\* skipping ends where it was meant to, and functions are not lost.
ShellSteps == [][ShellStep]_vars

Owed ==
    CASE part = "jobs" -> Job!Waits  [] part = "traps" -> Tra!Unserved
      [] part = "input" -> Inp!Unread  [] OTHER -> FALSE
\* A wait for running processes ends, a signal pending in a shell that has a
\* next command is served, and the input is read to its end, aliases and all.
ShellSettles == Owed ~> ~Owed

\* See ShellJobs: what sh.1 says of wait.
WaitTells == part = "jobs" => Job!WaitTells
=============================================================================
