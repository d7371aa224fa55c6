----------------------------- MODULE ShellJobs -----------------------------
(* The job table of btsh (jobs.c) and the callers in eval.c that fill it.    *)
(* The shell is one sequential process; its children run beside it, and it   *)
(* learns about them only through wait3.  Every step of the shell between    *)
(* two waits is one action.  The model also follows the shell into a         *)
(* subshell (forkchild), which inherits a table of jobs it has no children   *)
(* of.                                                                       *)
EXTENDS Integers, Sequences, FiniteSets

CONSTANTS Pids,      \* process ids, each given to one child
          Grow,      \* slots the table grows by (4 in the code)
          Garbage,   \* what prev_job may hold in a slot just allocated
          MaxEvents  \* how often, together, a child is stopped or continued from outside,
                     \* a fork fails, job control is switched or a subshell entered

VARIABLES jobtab,    \* the slots; a job's number is its index
          curjob,    \* head of the list through "prev", 0 for -1
          jobs_invalid, rootshell, job_warning,
          opts,      \* iflag and mflag
          tty,       \* foreground group of the terminal, 0 for the shell's
          proc,      \* the children, as the kernel knows them
          pc,        \* where the shell is
          answer,    \* what the last wait command returned
          events     \* how many of these there were

vars == <<jobtab, curjob, jobs_invalid, rootshell, job_warning, opts, tty, proc, pc, answer, events>>

Exits == {"exit", "term"}             \* how a child ends

---------------------------------------------------------------------------
\* The list of jobs: t is the pair of table and head.

Unlink(t, j) ==
    LET p == t.tab[j].prev
        pred == {i \in DOMAIN t.tab : t.tab[i].prev = j}
    IN IF t.cur = j THEN [t EXCEPT !.cur = p]
       ELSE IF pred = {} THEN t
       ELSE [t EXCEPT !.tab[CHOOSE i \in pred : \A k \in pred : i <= k].prev = p]

\* The last of the stopped jobs at the head of the list.
StoppedEnd(t) ==
    LET next[n \in 0..Len(t.tab)] ==
            IF n = 0 THEN t.cur
            ELSE LET i == next[n - 1]
                     q == t.tab[i].prev
                 IN IF q # 0 /\ t.tab[q].state = "stopped" THEN q ELSE i
    IN next[Len(t.tab)]

PutHead(t, j) == [tab |-> [t.tab EXCEPT ![j].prev = t.cur], cur |-> j]

set_curjob(t, j, mode) ==
    LET u == Unlink(t, j)
    IN CASE mode = "delete" -> [u EXCEPT !.tab[j].prev = 0]
         [] mode = "behind stopped" /\ u.cur # 0 /\ u.tab[u.cur].state = "stopped" ->
                LET e == StoppedEnd(u)
                IN [u EXCEPT !.tab = [@ EXCEPT ![j].prev = u.tab[e].prev, ![e].prev = j]]
         [] OTHER -> PutHead(u, j)

freejob_Slip(t, j) == [t EXCEPT !.tab[j].used = FALSE, !.tab[j].ps = <<>>]

freejob(t, j) == set_curjob([t EXCEPT !.tab[j].used = FALSE, !.tab[j].ps = <<>>], j, "delete")

Table == [tab |-> jobtab, cur |-> curjob]

\* A slot nobody has used holds whatever malloc returned.
Fresh(g) == [used |-> FALSE, state |-> "running", changed |-> FALSE, jobctl |-> FALSE,
             prev |-> g, ps |-> <<>>, size |-> 1, ps0 |-> "junk"]

jobctl == rootshell /\ opts.mflag

FreeAll(t) ==
    LET free[n \in 0..Len(t.tab)] ==
            IF n = 0 THEN t
            ELSE IF t.tab[n].used THEN freejob(free[n - 1], n) ELSE free[n - 1]
    IN free[Len(t.tab)]

FirstFree(tab) == CHOOSE i \in 1..(Len(tab) + 1) :
    /\ \A k \in 1..(i - 1) : tab[k].used
    /\ i <= Len(tab) => ~tab[i].used

\* The new job and the table it is in; g is the garbage in slots just allocated.
makejob(g, n) ==
    LET t == IF jobs_invalid THEN FreeAll(Table) ELSE Table
        j == FirstFree(t.tab)
        u == IF j <= Len(t.tab) THEN t
             ELSE [t EXCEPT !.tab = @ \o [i \in 1..Grow |-> Fresh(g)]]
        v == [u EXCEPT !.tab[j] = [@ EXCEPT !.state = "running", !.used = TRUE, !.changed = FALSE,
                                            !.ps = <<>>, !.size = n, !.jobctl = jobctl]]
    IN [job |-> j, t |-> set_curjob(v, j, "behind stopped")]

---------------------------------------------------------------------------
\* Learning what children did.

Signalled(s) == s \in {"stop", "term"}      \* an end by SIGINT or SIGPIPE counts as an exit

\* What showjob leaves behind; shown says whether the job is printed at all.
showjob(t, j, signalled, nofree) ==
    LET ps == t.tab[j].ps
        shown == ~signalled \/ \E i \in DOMAIN ps : Signalled(ps[i].status)
        u == IF shown THEN [t EXCEPT !.tab[j].changed = FALSE] ELSE t
    IN IF ps = <<>> THEN t
       ELSE IF t.tab[j].state = "done" /\ ~nofree THEN freejob(u, j) ELSE u

\* The status of process p is recorded wherever p is listed.
Record(job, p, st) ==
    [job EXCEPT !.ps = [i \in DOMAIN @ |-> IF @[i].pid = p THEN [@[i] EXCEPT !.status = st] ELSE @[i]],
                !.ps0 = IF job.size = 1 /\ \E i \in DOMAIN job.ps : job.ps[i].pid = p
                        THEN st ELSE @]

StateOf(job) ==
    IF \E i \in DOMAIN job.ps : job.ps[i].status = "run" THEN job.state
    ELSE IF \E i \in DOMAIN job.ps : job.ps[i].status = "stop" THEN "stopped" ELSE "done"

\* dowait once wait3 has returned child p with status st; job is the caller's, 0 for NULL.
dowait(t, p, st, job) ==
    LET tab1 == [j \in DOMAIN t.tab |-> IF t.tab[j].used THEN Record(t.tab[j], p, st) ELSE t.tab[j]]
        update[n \in 0..Len(tab1)] ==
            IF n = 0 THEN [t EXCEPT !.tab = tab1]
            ELSE LET u == update[n - 1]
                     s == StateOf(tab1[n])
                 IN IF ~tab1[n].used \/ s = tab1[n].state THEN u
                    ELSE IF s = "done" THEN set_curjob([u EXCEPT !.tab[n].state = s], n, "delete")
                    ELSE [u EXCEPT !.tab[n].state = s]
        u     == update[Len(tab1)]
        mine  == {j \in DOMAIN tab1 : tab1[j].used /\ \E i \in DOMAIN tab1[j].ps : tab1[j].ps[i].pid = p}
    IN IF mine = {} THEN u
       ELSE LET this == CHOOSE j \in mine : \A k \in mine : k <= j
            IN IF u.tab[this].state = "running" THEN u
               ELSE IF this = job THEN showjob(u, this, TRUE, TRUE)
               ELSE IF ~rootshell \/ ~opts.iflag THEN showjob(u, this, TRUE, FALSE)
               ELSE [u EXCEPT !.tab[this].changed = TRUE]

Child(p) == proc[p].st \notin {"free", "gone"}
Children == {p \in Pids : Child(p)}

\* What wait3 may return: the dead, and with WUNTRACED the newly stopped.
waitproc(job) ==
    {p \in Pids : \/ proc[p].st = "zombie"
                  \/ job # 0 /\ jobtab[job].jobctl /\ proc[p].st = "stopped" /\ ~proc[p].told}

StatusOf(p) == IF proc[p].st = "zombie" THEN proc[p].status ELSE "stop"

Reaped(p) == [proc EXCEPT ![p] = IF @.st = "zombie" THEN [@ EXCEPT !.st = "gone"] ELSE [@ EXCEPT !.told = TRUE]]

Wait3(job) ==
    \E p \in waitproc(job) :
        LET t == dowait(Table, p, StatusOf(p), job)
        IN /\ jobtab' = t.tab /\ curjob' = t.cur
           /\ proc' = Reaped(p)

At(s) == pc.at = s
Goto(s) == pc' = [at |-> s, job |-> 0, left |-> 0, mode |-> "fg"]
SetTable(t) == jobtab' = t.tab /\ curjob' = t.cur

\* error() comes back to the command loop of an interactive root shell and ends any other.
error == IF opts.iflag /\ rootshell THEN Goto("prompt") ELSE Goto("exit")

\* After a command the top-level loop of an interactive shell looks at the jobs.
Done == IF opts.iflag /\ rootshell THEN Goto("prompt") ELSE Goto("ready")

---------------------------------------------------------------------------
\* The command loop: showjobs before each prompt.

\* The first call of dowait decides gotpid, which is kept in pc.left.
ShowReap ==
    /\ pc.at \in {"prompt", "jobs"}
    /\ Wait3(0)
    /\ pc' = [pc EXCEPT !.left = 1]
    /\ UNCHANGED <<jobs_invalid, rootshell, job_warning, opts, tty, answer, events>>

Repairs == opts.mflag /\ (pc.left = 1 \/ Children # {}) /\ tty # 0

\* Every job in turn: the empty ones go, the changed ones are shown.
ShowAll(t, changed, silent) ==
    LET show[n \in 0..Len(t.tab)] ==
            IF n = 0 THEN t
            ELSE LET u == show[n - 1]
                     j == u.tab[n]
                 IN CASE ~j.used                -> u
                      [] j.used /\ j.ps = <<>>  -> freejob(u, n)
                      [] j.used /\ j.ps # <<>> /\ changed /\ ~j.changed -> u
                      [] j.used /\ j.ps # <<>> /\ silent /\ j.changed   -> [u EXCEPT !.tab[n].changed = FALSE]
                      [] OTHER                  -> showjob(u, n, FALSE, FALSE)
    IN show[Len(t.tab)]

\* jobscmd looks at the inherited table of a subshell too.
showjobs ==
    /\ pc.at \in {"prompt", "jobs"}
    /\ waitproc(0) = {}
    /\ tty' = IF Repairs THEN (IF rootshell THEN 0 ELSE -1) ELSE tty
    /\ SetTable(IF pc.mode = "pgid" THEN Table ELSE ShowAll(Table, At("prompt"), Repairs))
    /\ IF At("prompt") THEN Goto("ready") ELSE Done
    /\ UNCHANGED <<jobs_invalid, rootshell, job_warning, opts, proc, answer, events>>

\* Every command passes here: the warning about stopped jobs lasts for one of them.
NoAnswer == [got |-> "none", last |-> 0, size |-> 1]

Command ==
    /\ At("ready")
    /\ answer' = NoAnswer
    /\ job_warning' = IF job_warning = 2 THEN 1 ELSE 0

\* jobs [-p]: without arguments it lists, and so frees, like the prompt.
jobscmd(mode) ==
    /\ Command
    /\ pc' = [pc EXCEPT !.at = "jobs", !.mode = mode]
    /\ UNCHANGED <<jobtab, curjob, jobs_invalid, rootshell, opts, tty, proc, events>>

---------------------------------------------------------------------------
\* Starting jobs: evalpipe, evalsubshell, evalcommand and evalbackcmd.

Free == {p \in Pids : proc[p].st = "free"}

StartJob(n, mode, g) ==
    /\ Command
    /\ Cardinality(Free) >= n
    /\ LET m == makejob(g, n)
       IN SetTable(m.t) /\ pc' = [at |-> "build", job |-> m.job, left |-> n, mode |-> mode]
    /\ jobs_invalid' = FALSE
    /\ UNCHANGED <<rootshell, opts, tty, proc, events>>

\* forkparent in the shell; the child is born and goes its way.
forkshell ==
    /\ At("build") /\ pc.left > 0
    /\ LET p     == CHOOSE q \in Free : \A r \in Free : q <= r
           job   == jobtab[pc.job]
           grp   == IF job.ps = <<>> THEN p ELSE job.ps[1].pid
           own   == jobctl /\ pc.mode # "nojob"
       IN /\ proc' = [proc EXCEPT ![p] = [st |-> "born", status |-> "run", told |-> FALSE,
                                           pgrp |-> IF own THEN grp ELSE 0,
                                           takes |-> own /\ pc.mode = "fg", forsaken |-> FALSE]]
          /\ jobtab' = [jobtab EXCEPT ![pc.job].ps = Append(@, [pid |-> p, status |-> "run"]),
                                      ![pc.job].ps0 = IF job.size = 1 THEN "run" ELSE @]
    /\ IF pc.left > 1 THEN pc' = [pc EXCEPT !.left = @ - 1]
       ELSE IF pc.mode = "bg" THEN Done
       ELSE pc' = [pc EXCEPT !.at = "fg", !.left = 0]
    /\ UNCHANGED <<curjob, jobs_invalid, rootshell, job_warning, opts, tty, answer, events>>

\* fork or pipe fails: the job keeps the processes it has (forsaken is only there
\* for the properties).
ForkFails ==
    /\ At("build") /\ events < MaxEvents
    /\ events' = events + 1
    /\ error
    /\ proc' = [p \in Pids |-> IF \E i \in DOMAIN jobtab[pc.job].ps : jobtab[pc.job].ps[i].pid = p
                               THEN [proc[p] EXCEPT !.forsaken = TRUE] ELSE proc[p]]
    /\ UNCHANGED <<jobtab, curjob, jobs_invalid, rootshell, job_warning, opts, tty, answer>>

\* The other side of the fork of evalsubshell: from here on the model is the child.
forkchild(g) ==
    /\ events < MaxEvents /\ events' = events + 1
    /\ Command /\ rootshell
    /\ SetTable(makejob(g, 1).t)
    /\ rootshell' = FALSE /\ jobs_invalid' = TRUE
    /\ proc' = [p \in Pids |-> IF Child(p) THEN [proc[p] EXCEPT !.st = "foreign"] ELSE proc[p]]
    /\ tty' = IF jobctl THEN -1 ELSE tty
    /\ Goto("ready")
    /\ UNCHANGED <<opts>>

---------------------------------------------------------------------------
\* Waiting in the foreground.

Waiting == pc.at \in {"fg", "one", "all"}

FgWait ==
    /\ At("fg") /\ jobtab[pc.job].state = "running"
    /\ Wait3(pc.job)
    /\ UNCHANGED <<jobs_invalid, rootshell, job_warning, opts, tty, pc, answer, events>>

waitforjob_Slip ==
    /\ At("fg") /\ jobtab[pc.job].state # "running"
    /\ IF jobtab[pc.job].state = "done" THEN SetTable(freejob(Table, pc.job)) ELSE SetTable(Table)
    /\ Done
    /\ UNCHANGED <<jobs_invalid, rootshell, job_warning, opts, tty, proc, answer, events>>

\* The job is no longer running: the terminal comes back.
waitforjob ==
    LET j == pc.job
        job == jobtab[j]
    IN /\ At("fg") /\ job.state # "running"
       /\ tty' = IF job.jobctl THEN (IF rootshell THEN 0 ELSE -1) ELSE tty
       /\ SetTable(CASE job.state = "done" -> freejob(Table, j)
                     [] job.state = "stopped" /\ curjob # j -> set_curjob(Table, j, "head")
                     [] OTHER -> Table)
       /\ Done
       /\ UNCHANGED <<jobs_invalid, rootshell, job_warning, opts, proc, answer, events>>

---------------------------------------------------------------------------
\* fg, bg and wait name a job by number, as current or previous, by process or by pattern.

Listed == {j \in DOMAIN jobtab : jobtab[j].used /\ jobtab[j].ps # <<>>}

ByNumber(j) == IF ~jobs_invalid /\ j \in DOMAIN jobtab /\ jobtab[j].used THEN {j} ELSE {}

getjob ==
    UNION {ByNumber(j) : j \in DOMAIN jobtab}
      \cup ByNumber(curjob)
      \cup (IF curjob = 0 THEN {} ELSE ByNumber(jobtab[curjob].prev))
      \cup Listed                                   \* by its last process or by its text

\* A group is there as long as one of its members has not been reaped.
GroupAlive(g) == \E p \in Pids : (Child(p) \/ proc[p].st = "foreign") /\ proc[p].pgrp = g

Reachable(j) == \E i \in DOMAIN jobtab[j].ps : GroupAlive(jobtab[j].ps[i].pid)
GroupOf(j) == LET ps == jobtab[j].ps
                  i  == CHOOSE k \in DOMAIN ps : GroupAlive(ps[k].pid) /\ \A l \in 1..(k - 1) : ~GroupAlive(ps[l].pid)
              IN ps[i].pid

\* SIGCONT to the group of job j, and its entry as if nothing had been stopped.
restartjob(t, j) ==
    LET job == t.tab[j]
        stopped == {i \in DOMAIN job.ps : job.ps[i].status = "stop"}
    IN IF job.state = "done" \/ stopped = {} THEN t
       ELSE [t EXCEPT !.tab[j] = [@ EXCEPT !.state = "running",
                                           !.ps = [i \in DOMAIN @ |-> IF i \in stopped THEN [@[i] EXCEPT !.status = "run"] ELSE @[i]],
                                           !.ps0 = IF job.size = 1 THEN "run" ELSE @]]

Continued(j) ==
    IF jobtab[j].state = "done" THEN proc
    ELSE [p \in Pids |-> IF proc[p].st = "stopped" /\ proc[p].pgrp = GroupOf(j)
                         THEN [proc[p] EXCEPT !.st = "run", !.told = FALSE] ELSE proc[p]]

fgcmd(j) ==
    /\ Command /\ j \in getjob
    /\ IF jobtab[j].jobctl /\ opts.mflag /\ Reachable(j)
       THEN /\ tty' = GroupOf(j)
            /\ SetTable(restartjob(Table, j))
            /\ proc' = Continued(j)
            /\ pc' = [pc EXCEPT !.at = "fg", !.job = j]
       ELSE error /\ UNCHANGED <<jobtab, curjob, tty, proc>>
    /\ UNCHANGED <<jobs_invalid, rootshell, opts, events>>

bgcmd(j) ==
    /\ Command /\ j \in getjob
    /\ LET t == set_curjob(Table, j, "behind stopped")
       IN IF ~jobtab[j].jobctl THEN error /\ UNCHANGED <<jobtab, curjob, proc>>
          ELSE IF jobtab[j].state # "done" /\ ~Reachable(j) THEN error /\ SetTable(t) /\ UNCHANGED proc
          ELSE SetTable(restartjob(t, j)) /\ proc' = Continued(j) /\ Done
    /\ UNCHANGED <<jobs_invalid, rootshell, opts, tty, events>>

waitcmd(j) ==
    /\ Command
    /\ IF j = 0 THEN (IF jobs_invalid THEN Done ELSE pc' = [pc EXCEPT !.at = "all"])
       ELSE /\ j \in getjob
            /\ pc' = [pc EXCEPT !.at = "one", !.job = j,
                                !.left = IF jobtab[j].ps = <<>> THEN 0 ELSE jobtab[j].ps[Len(jobtab[j].ps)].pid]
    /\ UNCHANGED <<jobtab, curjob, jobs_invalid, rootshell, opts, tty, proc, events>>

Awaited == IF At("all") THEN {j \in DOMAIN jobtab : jobtab[j].used /\ jobtab[j].state = "running"}
           ELSE {pc.job} \cap {j \in DOMAIN jobtab : jobtab[j].state = "running"}

WaitMore ==
    /\ pc.at \in {"one", "all"} /\ Awaited # {}
    /\ Wait3(0)
    /\ UNCHANGED <<jobs_invalid, rootshell, job_warning, opts, tty, pc, answer, events>>

\* No child is left to wait for.
NoneLeft ==
    /\ pc.at \in {"one", "all"} /\ Awaited # {} /\ Children = {}
    /\ Done
    /\ UNCHANGED <<jobtab, curjob, jobs_invalid, rootshell, job_warning, opts, tty, proc, answer, events>>

\* The user interrupts: with a trap on SIGINT wait returns 130, without one
\* onint unwinds to the command loop or ends the shell.
Interrupt ==
    /\ pc.at \in {"one", "all"} /\ Awaited # {} /\ Children # {} /\ tty <= 0
    /\ Done \/ error
    /\ UNCHANGED <<jobtab, curjob, jobs_invalid, rootshell, job_warning, opts, tty, proc, answer, events>>

\* The word at ps[nprocs]: the first entry of a job freed on the way, else one behind the last.
StatusRead(job) == IF job.ps = <<>> THEN job.ps0 ELSE "junk"

WaitEnds_Slip ==
    /\ pc.at \in {"one", "all"} /\ Awaited = {}
    /\ SetTable(Table)
    /\ answer' = IF At("one") THEN [got |-> "junk", last |-> pc.left, size |-> jobtab[pc.job].size] ELSE answer
    /\ Done
    /\ UNCHANGED <<jobs_invalid, rootshell, job_warning, opts, tty, proc, events>>

WaitEnds ==
    /\ pc.at \in {"one", "all"} /\ Awaited = {}
    /\ SetTable(IF At("one") /\ ~opts.iflag THEN freejob(Table, pc.job) ELSE Table)
    /\ answer' = IF At("one")
                 THEN [got |-> StatusRead(jobtab[pc.job]), last |-> pc.left, size |-> jobtab[pc.job].size]
                 ELSE answer
    /\ Done
    /\ UNCHANGED <<jobs_invalid, rootshell, job_warning, opts, tty, proc, events>>

---------------------------------------------------------------------------
\* set -m and set +m, and leaving the shell.

setjobctl(on) ==
    /\ events < MaxEvents /\ events' = events + 1
    /\ Command /\ rootshell /\ on # opts.mflag
    /\ opts' = [opts EXCEPT !.mflag = on]
    /\ tty' = 0
    /\ Done
    /\ UNCHANGED <<jobtab, curjob, jobs_invalid, rootshell, proc>>

stoppedjobs == \E j \in DOMAIN jobtab : jobtab[j].used /\ jobtab[j].state = "stopped"

exitcmd ==
    /\ At("ready")
    /\ LET w == IF job_warning = 2 THEN 1 ELSE 0
       IN IF w = 0 /\ ~jobs_invalid /\ stoppedjobs
          THEN job_warning' = 2 /\ Done
          ELSE job_warning' = w /\ Goto("exit")
    /\ answer' = NoAnswer
    /\ UNCHANGED <<jobtab, curjob, jobs_invalid, rootshell, opts, tty, proc, events>>

---------------------------------------------------------------------------
\* The children.

\* forkchild in the child: a foreground job takes the terminal.
Starts(p) ==
    /\ proc[p].st = "born"
    /\ proc' = [proc EXCEPT ![p].st = "run"]
    /\ tty' = IF proc[p].takes THEN proc[p].pgrp ELSE tty
    /\ UNCHANGED <<jobtab, curjob, jobs_invalid, rootshell, job_warning, opts, pc, answer, events>>

Ends(p) ==
    /\ proc[p].st = "run"
    /\ \E s \in Exits : proc' = [proc EXCEPT ![p].st = "zombie", ![p].status = s]
    /\ UNCHANGED <<jobtab, curjob, jobs_invalid, rootshell, job_warning, opts, tty, pc, answer, events>>

\* A stop by the terminal or by kill, and a SIGCONT the shell did not send.
Stops(p) ==
    /\ events < MaxEvents
    /\ \/ proc[p].st = "run" /\ proc' = [proc EXCEPT ![p].st = "stopped", ![p].told = FALSE]
       \/ proc[p].st = "stopped" /\ proc' = [proc EXCEPT ![p].st = "run", ![p].told = FALSE]
    /\ events' = events + 1
    /\ UNCHANGED <<jobtab, curjob, jobs_invalid, rootshell, job_warning, opts, tty, pc, answer>>

\* A process that is the parent's, seen from the subshell.
ForeignEnds(p) ==
    /\ proc[p].st = "foreign"
    /\ proc' = [proc EXCEPT ![p].st = "gone"]
    /\ UNCHANGED <<jobtab, curjob, jobs_invalid, rootshell, job_warning, opts, tty, pc, answer, events>>

---------------------------------------------------------------------------
Init ==
    /\ jobtab = <<>> /\ curjob = 0
    /\ jobs_invalid = FALSE /\ rootshell = TRUE /\ job_warning = 0
    /\ \E i \in BOOLEAN : opts = [iflag |-> i, mflag |-> i]
    /\ tty = 0
    /\ proc = [p \in Pids |-> [st |-> "free", status |-> "run", told |-> FALSE, pgrp |-> 0, takes |-> FALSE,
                           forsaken |-> FALSE]]
    /\ pc = [at |-> "ready", job |-> 0, left |-> 0, mode |-> "fg"]
    /\ answer = NoAnswer
    /\ events = 0

Slots == 1..(Cardinality(Pids) + Grow)

Shell ==
    \/ ShowReap \/ showjobs \/ forkshell \/ ForkFails
    \/ FgWait \/ waitforjob \/ WaitMore \/ NoneLeft \/ WaitEnds

User ==
    \/ \E m \in {"fg", "pgid"} : jobscmd(m)
    \/ \E n \in 1..2, m \in {"fg", "bg", "nojob"}, g \in Garbage : StartJob(n, m, g)
    \/ \E g \in Garbage : forkchild(g)
    \/ \E j \in DOMAIN jobtab : fgcmd(j) \/ bgcmd(j) \/ waitcmd(j)
    \/ waitcmd(0)
    \/ \E on \in BOOLEAN : setjobctl(on)
    \/ exitcmd \/ Interrupt

Kernel(p) == Starts(p) \/ Ends(p)

Next == Shell \/ User \/ \E p \in Pids : Kernel(p) \/ Stops(p) \/ ForeignEnds(p)

---------------------------------------------------------------------------
\* The list of jobs, head first, as far as the table is long.
JobList ==
    LET at[n \in 0..Len(jobtab)] == IF n = 0 THEN curjob
                                    ELSE IF at[n - 1] = 0 THEN 0 ELSE jobtab[at[n - 1]].prev
    IN at

(* curjob and prev_job form one list without cycles that holds every job     *)
(* that is not done and no unused slot (set_curjob, freejob, dowait), though *)
(* the slots makejob allocates start with garbage in prev_job.  (A job that  *)
(* is done can be on it: bg puts it back.)                                   *)
JobsListed ==
    LET used == {j \in DOMAIN jobtab : jobtab[j].used}
        l    == JobList
        on   == {l[n] : n \in DOMAIN l} \ {0}
    IN /\ {j \in used : jobtab[j].state # "done"} \subseteq on
       /\ on \subseteq used
       /\ \A m, n \in DOMAIN l : m < n /\ l[n] # 0 => l[m] # l[n]
       /\ l[Len(jobtab)] = 0

(* No child is forgotten: a job the shell takes for running has a process it *)
(* can still wait for, whoever's wait it was that collected the others.      *)
ChildrenKnown ==
    ~jobs_invalid =>
    \A j \in DOMAIN jobtab :
        jobtab[j].used /\ jobtab[j].ps # <<>> =>
            /\ jobtab[j].state = "running" =>
                   \E i \in DOMAIN jobtab[j].ps : Child(jobtab[j].ps[i].pid) \/ proc[jobtab[j].ps[i].pid].st = "foreign"
            /\ jobtab[j].state = "done" =>
                   \A i \in DOMAIN jobtab[j].ps : proc[jobtab[j].ps[i].pid].st = "gone"

(* The job waited for in the foreground stays in the table until the wait is *)
(* over (SHOW_NO_FREE), and a script keeps no finished job (showjob).        *)
JobsKept ==
    /\ At("fg") => jobtab[pc.job].used /\ jobtab[pc.job].ps # <<>>
    /\ ~opts.iflag /\ At("ready") /\ rootshell => \A j \in DOMAIN jobtab : jobtab[j].used => jobtab[j].state # "done"

(* At the prompt the terminal is the shell's, unless a foreground pipeline   *)
(* was abandoned half-built (a fork failed) and a process of it has taken    *)
(* the terminal since; it may be gone by now, since showjobs takes the       *)
(* terminal back only when it finds a child.                                 *)
TerminalBack ==
    At("ready") /\ rootshell /\ tty # 0 =>
        \E p \in Pids : proc[p].forsaken /\ proc[p].takes /\ proc[p].pgrp = tty

(* wait in a script, on a job of one process, returns the status of that     *)
(* process although the job has been freed before the status is read.        *)
WaitAnswers ==
    rootshell /\ ~opts.iflag /\ answer.got # "none" /\ answer.size = 1 /\ answer.last # 0 /\ proc[answer.last].st = "gone"
        => answer.got = proc[answer.last].status

(* sh.1 says of wait: "return the exit status of the last process in the     *)
(* job", in any shell and for jobs of any size.  waitcmd reads one entry too *)
(* far.                                                                      *)
WaitTells ==
    rootshell /\ answer.got # "none" /\ answer.last # 0 /\ proc[answer.last].st = "gone"
        => answer.got = proc[answer.last].status

JobsSafe == JobsListed /\ ChildrenKnown /\ JobsKept /\ TerminalBack /\ WaitAnswers

\* What may not last: the shell waits although no process is stopped.
Waits == Waiting /\ rootshell /\ \A p \in Pids : proc[p].st # "stopped"
=============================================================================
