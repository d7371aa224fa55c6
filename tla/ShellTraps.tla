----------------------------- MODULE ShellTraps -----------------------------
(* Signals in btsh (trap.c, error.c): the trap table, the handlers the shell *)
(* installs, signals noted by onsig and acted on by dotrap, and interrupts   *)
(* held back by INTOFF.  A signal may arrive between any two steps.  The     *)
(* commands of a trap action are left out but for the traps they set, the    *)
(* status they leave and the signals that arrive meanwhile.                  *)
EXTENDS Integers, Sequences, FiniteSets

CONSTANTS MaxEvents,    \* signals, trap commands, changes of options and subshells, together
          MaxStatus     \* exit statuses 0..MaxStatus

\* One signal of each kind setsignal tells apart, in the order of their numbers.
Order == <<"INT", "TERM", "TSTP">>
Sigs  == {Order[i] : i \in DOMAIN Order}
EXIT  == "EXIT"

VARIABLES trap,        \* "none", "act" or "ign", for the signals and EXIT
          sigmode,     \* what the shell thinks the handler is
          handler,     \* what the kernel has
          gotsig, pendingsigs,
          suppressint, intpending,
          opts,        \* iflag, mflag, script (sflag == 0 or -c), jobctl
          rootshell,
          exitstatus,
          frames,      \* the dotrap calls under way, innermost last
          mode,        \* "run", "exiting" (in the exit trap), "dead", "crash"
          late,        \* signals that arrived after dotrap had looked for the last time
          exits,       \* runs of the exit trap
          used         \* how much of the bounds has been used

vars == <<trap, sigmode, handler, gotsig, pendingsigs, suppressint, intpending, opts, rootshell,
          exitstatus, frames, mode, late, exits, used>>

Top == frames[Len(frames)]
Running == mode \in {"run", "exiting"} /\ (frames # <<>> => Top.at = "action")
Alive == mode \in {"run", "exiting"}

---------------------------------------------------------------------------
\* setsignal as a function of the state: tr and o are the traps and options it sees.

Action(s, tr, o, root) ==
    CASE tr[s] = "act" -> "catch"
      [] tr[s] = "ign" -> "ign"
      [] tr[s] = "none" /\ root /\ s = "INT"  /\ (o.iflag \/ o.script) -> "catch"
      [] tr[s] = "none" /\ root /\ s = "TERM" /\ o.iflag -> "ign"
      [] tr[s] = "none" /\ root /\ s = "TSTP" /\ o.mflag -> "ign"
      [] OTHER -> "dfl"

\* What sigmode is taken for; an unknown one is looked up.
Known(h, s, o) ==
    IF h.sigmode[s] # "unknown" THEN h.sigmode[s]
    ELSE IF h.handler[s] # "ign" THEN "reset"
    ELSE IF o.mflag /\ s = "TSTP" THEN "ign" ELSE "hard"

setsignal(h, s, tr, o, root) ==
    LET a == Action(s, tr, o, root)
    IN IF Known(h, s, o) \in {"hard", a} THEN h
       ELSE [sigmode |-> [h.sigmode EXCEPT ![s] = a], handler |-> [h.handler EXCEPT ![s] = a]]

SetSignals(h, S, tr, o, root) ==
    [sigmode |-> [s \in Sigs |-> IF s \in S THEN setsignal(h, s, tr, o, root).sigmode[s] ELSE h.sigmode[s]],
     handler |-> [s \in Sigs |-> IF s \in S THEN setsignal(h, s, tr, o, root).handler[s] ELSE h.handler[s]]]

Handlers == [sigmode |-> sigmode, handler |-> handler]
Install(h) == sigmode' = h.sigmode /\ handler' = h.handler

ignoresig(h, s) == [sigmode |-> [h.sigmode EXCEPT ![s] = "hard"], handler |-> [h.handler EXCEPT ![s] = "ign"]]

---------------------------------------------------------------------------
\* Interrupts.  exraise(EXINT) unwinds to main, which enables interrupts again.

Unwind == /\ frames' = <<>> /\ suppressint' = 0 /\ mode' = "run"

\* No trap on SIGINT: an interactive shell unwinds, any other dies of the signal.
onint ==
    IF suppressint > 0
    THEN intpending' = TRUE /\ UNCHANGED <<frames, suppressint, mode>>
    ELSE /\ intpending' = FALSE
         /\ IF rootshell /\ opts.iflag /\ mode = "run" THEN Unwind
            ELSE mode' = "dead" /\ UNCHANGED <<frames, suppressint>>

INTOFF ==
    /\ Alive /\ suppressint < 2
    /\ suppressint' = suppressint + 1
    /\ UNCHANGED <<trap, sigmode, handler, gotsig, pendingsigs, intpending, opts, rootshell, exitstatus, frames, mode, late, exits, used>>

INTON_Slip ==
    /\ Alive /\ suppressint > 0
    /\ suppressint' = suppressint - 1
    /\ UNCHANGED <<trap, sigmode, handler, gotsig, pendingsigs, intpending, opts, rootshell, exitstatus, frames, mode, late, exits, used>>

\* Leaving the last critical section delivers what was held back.
INTON ==
    /\ Alive /\ suppressint > 0
    /\ IF suppressint = 1 /\ intpending
       THEN /\ intpending' = FALSE
            /\ IF rootshell /\ opts.iflag /\ mode = "run" THEN Unwind
               ELSE mode' = "dead" /\ suppressint' = 0 /\ UNCHANGED frames
       ELSE suppressint' = suppressint - 1 /\ UNCHANGED <<intpending, frames, mode>>
    /\ UNCHANGED <<trap, sigmode, handler, gotsig, pendingsigs, opts, rootshell, exitstatus, late, exits, used>>

\* error(): a pending interrupt is dropped; a builtin that is not special
\* survives (FORCEINTON), otherwise the shell unwinds or leaves.
exverror ==
    /\ Running
    /\ intpending' = FALSE
    /\ exitstatus' = MaxStatus
    /\ \/ suppressint' = 0 /\ UNCHANGED <<frames, mode>>
       \/ IF mode = "run" /\ rootshell /\ opts.iflag THEN Unwind
          ELSE mode' = "dead" /\ frames' = <<>> /\ suppressint' = 0
    /\ UNCHANGED <<trap, sigmode, handler, gotsig, pendingsigs, opts, rootshell, late, exits, used>>

\* The kernel delivers signal s.
Signal(s) ==
    /\ Alive /\ used.events < MaxEvents
    /\ used' = [used EXCEPT !.events = @ + 1]
    /\ IF handler[s] = "ign"
       THEN UNCHANGED <<gotsig, pendingsigs, intpending, frames, suppressint, mode, late>>
       ELSE IF handler[s] = "dfl"
       THEN mode' = "dead" /\ UNCHANGED <<gotsig, pendingsigs, intpending, frames, suppressint, late>>
       ELSE IF s = "INT" /\ trap[s] = "none"
       THEN onint /\ UNCHANGED <<gotsig, pendingsigs, late>>
       ELSE /\ gotsig' = gotsig \cup {s} /\ pendingsigs' = TRUE
            /\ late' = IF frames # <<>> /\ frames[Len(frames)].at = "leave" THEN late \cup {s} ELSE late
            /\ UNCHANGED <<intpending, frames, suppressint, mode>>
    /\ UNCHANGED <<trap, sigmode, handler, opts, rootshell, exitstatus, exits>>

---------------------------------------------------------------------------
\* Running commands and traps.

\* A command sets the status; evaltree then looks for signals, at whatever depth.
Command ==
    /\ Running /\ suppressint = 0
    /\ IF frames = <<>> THEN exitstatus' \in 0..MaxStatus
       ELSE Top.commands > 0 /\ exitstatus' \in 0..MaxStatus
    /\ LET f == IF frames = <<>> THEN frames ELSE [frames EXCEPT ![Len(frames)].commands = @ - 1]
       IN frames' = IF pendingsigs THEN Append(f, [at |-> "scan", sig |-> EXIT, saved |-> 0, commands |-> 0]) ELSE f
    /\ UNCHANGED <<trap, sigmode, handler, gotsig, pendingsigs, suppressint, intpending, opts, rootshell, mode, late, exits, used>>

First(S) == Order[CHOOSE i \in DOMAIN Order : Order[i] \in S /\ \A j \in 1..(i - 1) : Order[j] \notin S]

\* The next signal noted; the text of a trap that is gone is a null pointer.
dotrap_Slip ==
    /\ Alive /\ frames # <<>> /\ Top.at = "scan"
    /\ IF gotsig = {}
       THEN frames' = [frames EXCEPT ![Len(frames)].at = "leave"] /\ UNCHANGED <<gotsig, mode>>
       ELSE LET s == First(gotsig)
            IN /\ gotsig' = {}
               /\ IF trap[s] = "none" THEN mode' = "crash" /\ UNCHANGED frames
                  ELSE /\ frames' = [frames EXCEPT ![Len(frames)] =
                                         [at |-> "action", sig |-> s, saved |-> exitstatus,
                                          commands |-> IF trap[s] = "act" THEN 1 ELSE 0]]
                       /\ UNCHANGED mode
    /\ UNCHANGED <<trap, sigmode, handler, pendingsigs, suppressint, intpending, opts, rootshell, exitstatus, late, exits, used>>

dotrap ==
    /\ Alive /\ frames # <<>> /\ Top.at = "scan"
    /\ IF gotsig = {}
       THEN frames' = [frames EXCEPT ![Len(frames)].at = "leave"] /\ UNCHANGED <<gotsig, mode>>
       ELSE LET s == First(gotsig)
            IN /\ gotsig' = gotsig \ {s}
               /\ IF trap[s] = "none" THEN mode' = "crash" /\ UNCHANGED frames
                  ELSE /\ frames' = [frames EXCEPT ![Len(frames)] =
                                         [at |-> "action", sig |-> s, saved |-> exitstatus,
                                          commands |-> IF trap[s] = "act" THEN 1 ELSE 0]]
                       /\ UNCHANGED mode
    /\ UNCHANGED <<trap, sigmode, handler, pendingsigs, suppressint, intpending, opts, rootshell, exitstatus, late, exits, used>>

\* The action is done: the status is what it was before.
ActionDone ==
    /\ Alive /\ frames # <<>> /\ Top.at = "action" /\ Top.commands = 0 /\ suppressint = 0
    /\ exitstatus' = Top.saved
    /\ frames' = [frames EXCEPT ![Len(frames)].at = "scan"]
    /\ UNCHANGED <<trap, sigmode, handler, gotsig, pendingsigs, suppressint, intpending, opts, rootshell, mode, late, exits, used>>

\* Nothing was left when dotrap looked: it forgets that anything was pending.
DotrapDone ==
    /\ Alive /\ frames # <<>> /\ Top.at = "leave"
    /\ pendingsigs' = FALSE
    /\ frames' = SubSeq(frames, 1, Len(frames) - 1)
    /\ UNCHANGED <<trap, sigmode, handler, gotsig, suppressint, intpending, opts, rootshell, exitstatus, mode, late, exits, used>>

trapcmd(s, a) ==
    /\ Running /\ suppressint = 0 /\ used.events < MaxEvents /\ trap[s] # a
    /\ used' = [used EXCEPT !.events = @ + 1, !.exit = IF s = EXIT /\ a = "act" THEN @ + 1 ELSE @]
    /\ trap' = [trap EXCEPT ![s] = a]
    /\ Install(IF s = EXIT THEN Handlers ELSE setsignal(Handlers, s, trap', opts, rootshell))
    /\ UNCHANGED <<gotsig, pendingsigs, suppressint, intpending, opts, rootshell, exitstatus, frames, mode, late, exits>>

---------------------------------------------------------------------------
\* set -i, set -m: the signals that depend on the option are set again.
optschanged(o) ==
    /\ Running /\ suppressint = 0 /\ used.events < MaxEvents /\ rootshell
    /\ o.iflag # opts.iflag \/ o.mflag # opts.mflag
    /\ used' = [used EXCEPT !.events = @ + 1]
    /\ opts' = [opts EXCEPT !.iflag = o.iflag, !.mflag = o.mflag]
    /\ Install(SetSignals(Handlers,
                          (IF o.iflag # opts.iflag THEN {"INT", "TERM"} ELSE {})
                            \cup (IF o.mflag # opts.mflag THEN {"TSTP"} ELSE {}),
                          trap, opts', rootshell))
    /\ UNCHANGED <<trap, gotsig, pendingsigs, suppressint, intpending, rootshell, exitstatus, frames, mode, late, exits>>

clear_traps_Slip(tr, h, o) ==
    [tr |-> [s \in DOMAIN tr |-> IF tr[s] = "act" THEN "none" ELSE tr[s]], h |-> h]

\* Traps with an action go, those that ignore stay.
clear_traps(tr, h, o) ==
    LET t == [s \in DOMAIN tr |-> IF tr[s] = "act" THEN "none" ELSE tr[s]]
    IN [tr |-> t, h |-> SetSignals(h, {s \in Sigs : tr[s] = "act"}, t, o, FALSE)]

\* forkchild: from here on the model is the child.  What onsig noted is inherited.
forkchild(kind) ==
    /\ Running /\ suppressint = 0 /\ used.events < MaxEvents
    /\ used' = [used EXCEPT !.events = @ + 1]
    /\ LET c   == clear_traps(trap, Handlers, opts)
           job == rootshell /\ kind # "nojob" /\ opts.mflag
           h1  == IF job THEN SetSignals(c.h, {"TSTP"}, c.tr, opts, FALSE)
                  ELSE IF kind = "bg" THEN ignoresig(c.h, "INT") ELSE c.h
           h2  == IF rootshell /\ opts.iflag THEN SetSignals(h1, {"INT", "TERM"}, c.tr, opts, FALSE) ELSE h1
       IN trap' = c.tr /\ Install(h2)
    /\ rootshell' = FALSE
    /\ frames' = <<>> /\ mode' = "run" /\ exits' = 0
    /\ UNCHANGED <<gotsig, pendingsigs, suppressint, intpending, opts, exitstatus, late>>

\* exit: the exit trap is taken out of the table before it is run.
exitshell_Slip ==
    /\ Running /\ suppressint = 0
    /\ IF trap[EXIT] = "act"
       THEN /\ mode' = "exiting" /\ exits' = exits + 1
            /\ frames' = Append(frames, [at |-> "action", sig |-> EXIT, saved |-> exitstatus, commands |-> 1])
       ELSE mode' = "dead" /\ UNCHANGED <<exits, frames>>
    /\ exits < MaxEvents
    /\ UNCHANGED <<trap, sigmode, handler, gotsig, pendingsigs, suppressint, intpending, opts, rootshell, exitstatus, late, used>>

exitshell ==
    /\ Running /\ suppressint = 0
    /\ IF trap[EXIT] = "act"
       THEN /\ mode' = "exiting" /\ exits' = exits + 1
            /\ trap' = [trap EXCEPT ![EXIT] = "none"]
            /\ frames' = Append(frames, [at |-> "action", sig |-> EXIT, saved |-> exitstatus, commands |-> 1])
       ELSE mode' = "dead" /\ UNCHANGED <<trap, exits, frames>>
    /\ UNCHANGED <<sigmode, handler, gotsig, pendingsigs, suppressint, intpending, opts, rootshell, exitstatus, late, used>>

\* The exit trap has run.
ExitDone ==
    /\ mode = "exiting" /\ frames # <<>> /\ Top.at = "action" /\ Top.sig = EXIT /\ Top.commands = 0
    /\ mode' = "dead"
    /\ UNCHANGED <<trap, sigmode, handler, gotsig, pendingsigs, suppressint, intpending, opts, rootshell, exitstatus, frames, late, exits, used>>

---------------------------------------------------------------------------
Entry == [sigmode |-> [s \in Sigs |-> "unknown"], handler |-> [s \in Sigs |-> "dfl"]]

\* procargs and main have set the handlers the options call for, and a script
\* may have begun by setting traps.
Init ==
    /\ \E o \in [iflag : BOOLEAN, mflag : BOOLEAN, script : BOOLEAN], hard \in {{}} \cup {{s} : s \in Sigs},
           acts \in {{}, {"INT", "TERM"}} :
           /\ o.iflag = ~o.script /\ (o.mflag => o.iflag)
           /\ opts = o
           /\ trap = [s \in Sigs \cup {EXIT} |-> IF s \in acts THEN "act" ELSE "none"]
           /\ LET h == [Entry EXCEPT !.handler = [s \in Sigs |-> IF s \in hard THEN "ign" ELSE "dfl"]]
                  S == (IF o.iflag THEN {"INT", "TERM"} ELSE {}) \cup (IF o.mflag THEN {"TSTP"} ELSE {})
                         \cup (IF o.script THEN {"INT", "TSTP"} ELSE {})
                  k == SetSignals(h, S \cup acts, trap, o, TRUE)
              IN sigmode = k.sigmode /\ handler = k.handler
    /\ gotsig = {} /\ pendingsigs = FALSE /\ suppressint = 0 /\ intpending = FALSE
    /\ rootshell = TRUE /\ exitstatus = 0 /\ frames = <<>> /\ mode = "run" /\ late = {} /\ exits = 0
    /\ used = [events |-> 0, exit |-> 0]

\* A script, a subshell and the action of a trap have a next command; an
\* interactive shell waits for its user to type one.
Unprompted == frames # <<>> \/ opts.script \/ ~rootshell

Shell == INTON \/ (Unprompted /\ Command) \/ dotrap \/ ActionDone \/ DotrapDone \/ ExitDone

Next ==
    \/ Shell \/ (~Unprompted /\ Command) \/ INTOFF \/ exverror \/ exitshell
    \/ \E s \in Sigs : Signal(s)
    \/ \E s \in Sigs \cup {EXIT}, a \in {"none", "act", "ign"} : trapcmd(s, a)
    \/ \E o \in [iflag : BOOLEAN, mflag : BOOLEAN] : optschanged(o)
    \/ \E k \in {"fg", "bg", "nojob"} : forkchild(k)

---------------------------------------------------------------------------
(* sigmode is the kernel's handler; in the root shell it is the one the      *)
(* traps and options ask for, unless the signal was ignored from the start;  *)
(* and a subshell catches no signal it has no trap for, save interrupts.     *)
HandlersRight ==
    \A s \in Sigs :
        /\ sigmode[s] \in {"dfl", "catch", "ign"} => handler[s] = sigmode[s]
        /\ sigmode[s] = "hard" => handler[s] = "ign"
        /\ rootshell /\ sigmode[s] \in {"dfl", "catch", "ign"} => sigmode[s] = Action(s, trap, opts, TRUE)
        /\ handler[s] = "catch" /\ s # "INT" => trap[s] = "act"

(* An interrupt is held back only while interrupts are off (onint, INTON).   *)
InterruptHeld == intpending => suppressint > 0

(* A signal noted is known to be pending, or dotrap is about to look again;  *)
(* only one that arrives between dotrap's last look and its clearing of      *)
(* pendingsigs can be forgotten.                                             *)
SignalKnown == mode # "dead" /\ gotsig # {} => pendingsigs \/ gotsig \subseteq late

(* An exit trap runs at most once for every time it was set, even if it      *)
(* exits itself or is interrupted (exitshell).                               *)
ExitOnce == exits <= used.exit

TrapsSafe == HandlersRight /\ InterruptHeld /\ SignalKnown /\ ExitOnce

(* A signal that was ignored when the shell started stays ignored whatever   *)
(* trap says, though sigmode never records it (setsignal looks again each    *)
(* time; job control alone may take TSTP), and so does one that a background *)
(* job was made to ignore (S_HARD_IGN); and a signal that has been noted is  *)
(* taken out only to run its action.                                         *)
TrapSteps ==
    /\ \A s \in Sigs : handler[s] = "ign" /\ sigmode[s] = "unknown" =>
           handler'[s] = "ign" \/ (s = "TSTP" /\ opts'.mflag)
    /\ \A s \in Sigs : sigmode[s] = "hard" => sigmode'[s] = "hard" /\ handler'[s] = "ign"
    /\ \A s \in gotsig \ gotsig' :
           mode' = "crash" \/ \E i \in DOMAIN frames' : frames'[i].sig = s /\ frames'[i].at = "action"

\* What may not last: a signal noted and neither acted on nor forgotten, in a
\* shell that has a next command without its user.
Unserved == Alive /\ Unprompted /\ gotsig \ late # {} /\ suppressint = 0
=============================================================================
