----------------------------- MODULE ShellRedir -----------------------------
(* The file descriptors of btsh: redirections that are saved and undone      *)
(* (redir.c), and the pipes a pipeline is wired with (eval.c).  A descriptor *)
(* holds the name of what it is open on; what is written there is left out.  *)
EXTENDS Integers, Sequences, FiniteSets

CONSTANTS User,      \* descriptors a script can name (0..9 in the code)
          High,      \* saved descriptors start here (10 in the code)
          MaxFd,     \* last descriptor of the model
          MaxCommands, \* redirected commands and pipelines
          MaxPipe    \* commands in a pipeline

Closed == <<"closed", 0>>
On(what) == <<what, 0>>
EMPTY  == -2
Fds    == 0..MaxFd

VARIABLES fd,         \* what every descriptor is open on
          redirlist,  \* saved descriptors, innermost command first
          before,     \* what the user descriptors were when each level was pushed
          fd0_redirected,
          pc,         \* redirections to do, or the state of a pipeline being built
          kids,       \* the descriptors each child of the pipeline was left with
          lost,       \* descriptors a failed fork left open
          commands    \* how many commands there were

vars == <<fd, redirlist, before, fd0_redirected, pc, kids, lost, commands>>

Open(f, d)     == d \in Fds /\ f[d] # Closed
LowestFree(f, from) == CHOOSE d \in from..MaxFd : f[d] = Closed /\ \A e \in from..(d - 1) : f[e] # Closed
Close(f, d)    == IF d \in Fds THEN [f EXCEPT ![d] = Closed] ELSE f

\* fcntl(from, F_DUPFD, to): the lowest free descriptor that is not below to.
copyfd(f, from, to) == [f EXCEPT ![LowestFree(f, to)] = f[from]]

---------------------------------------------------------------------------
\* One redirection: fd, and a file to open or a descriptor to copy (-1 closes).
Redir == [fd : User, kind : {"file", "here"}, from : {-1}] \cup [fd : User, kind : {"dup"}, from : User \cup {-1}]

\* Files are opened at the lowest free descriptor and moved to the right one.
MoveTo(f, at, d) == IF at = d THEN f ELSE Close(copyfd(f, at, d), at)

\* A pipe; a short text fits it, a child writes a longer one, and only the reading end
\* stays.  If the fork of that child fails, error() leaves both ends open for good.
openhere(f) == LowestFree(f, 0)
HereEnds(f) == {openhere(f), LowestFree([f EXCEPT ![openhere(f)] = On("here")], 0)}

\* The open may fail, which the caller decides, and so does a copy of a closed descriptor.
openredirect(f, n) ==
    IF n.kind = "file"
    THEN LET at == LowestFree(f, 0) IN MoveTo([f EXCEPT ![at] = On("file")], at, n.fd)
    ELSE IF n.kind = "here" THEN MoveTo([f EXCEPT ![openhere(f)] = On("here")], openhere(f), n.fd)
    ELSE IF n.from < 0 THEN f ELSE copyfd(f, n.from, n.fd)

Fails(f, n) == n.kind = "dup" /\ n.from >= 0 /\ ~Open(f, n.from)

NoneSaved == [d \in User |-> EMPTY]

\* redirect() with REDIR_PUSH for a command, without for exec.
redirect(push) ==
    /\ pc.at = "idle"
    /\ commands < MaxCommands /\ commands' = commands + 1
    /\ \E l \in {<<n>> : n \in Redir} \cup (Redir \X Redir) :
           pc' = [at |-> "redir", todo |-> l, push |-> push, prev |-> -1]
    /\ redirlist' = IF push THEN <<NoneSaved>> \o redirlist ELSE redirlist
    /\ before'    = IF push THEN <<[d \in User |-> fd[d]]>> \o before ELSE before
    /\ kids' = <<>>
    /\ UNCHANGED <<fd, fd0_redirected, lost>>

Rest    == pc' = IF Len(pc.todo) = 1 THEN [pc EXCEPT !.at = "idle", !.todo = <<>>] ELSE [pc EXCEPT !.todo = Tail(@)]
Trouble == pc' = [pc EXCEPT !.at = "error", !.todo = <<>>]

HereForkFails(f, n) ==
    /\ n.kind = "here" /\ lost = {} /\ lost' = HereEnds(f) \ User
    /\ fd' = [d \in Fds |-> IF d \in HereEnds(f) THEN On("here") ELSE f[d]]
    /\ Trouble
Counted(n) == fd0_redirected' = IF n.fd = 0 THEN fd0_redirected + 1 ELSE fd0_redirected

\* A copy of a descriptor to itself changes nothing.
SameFd ==
    /\ pc.at = "redir"
    /\ LET n == Head(pc.todo) IN n.kind = "dup" /\ n.from = n.fd
    /\ Rest
    /\ UNCHANGED <<fd, redirlist, before, fd0_redirected, kids, lost, commands>>

Do == /\ pc.at = "redir"
      /\ LET n == Head(pc.todo) IN ~(n.kind = "dup" /\ n.from = n.fd)

MustSave(n) == pc.push /\ redirlist[1][n.fd] = EMPTY

\* The descriptor is open and not saved yet: it moves out of the way.
SaveAndOpen ==
    /\ Do
    /\ LET n == Head(pc.todo)
           i == LowestFree(fd, High)
           f == Close(copyfd(fd, n.fd, High), n.fd)
       IN /\ MustSave(n) /\ Open(fd, n.fd)
          /\ redirlist' = [redirlist EXCEPT ![1][n.fd] = i]
          /\ Counted(n)
          /\ \/ ~Fails(f, n) /\ fd' = openredirect(f, n) /\ Rest /\ UNCHANGED lost
             \/ (Fails(f, n) \/ n.kind # "dup") /\ fd' = f /\ Trouble /\ UNCHANGED lost
             \/ HereForkFails(f, n)
    /\ UNCHANGED <<before, kids, commands>>

\* The descriptor is closed: it is opened first, and the copy made then is forgotten.
OpenClosed ==
    /\ Do
    /\ LET n == Head(pc.todo)
       IN /\ MustSave(n) /\ ~Open(fd, n.fd)
          /\ \/ /\ ~Fails(fd, n) /\ Open(openredirect(fd, n), n.fd)
                /\ fd' = copyfd(openredirect(fd, n), n.fd, High)
                /\ Counted(n) /\ Rest /\ UNCHANGED lost
             \/ /\ ~Fails(fd, n) /\ ~Open(openredirect(fd, n), n.fd)
                /\ fd' = openredirect(fd, n)
                /\ Trouble /\ UNCHANGED <<fd0_redirected, lost>>
             \/ /\ Fails(fd, n) \/ n.kind # "dup"
                /\ Trouble /\ UNCHANGED <<fd, fd0_redirected, lost>>
             \/ HereForkFails(fd, n) /\ UNCHANGED fd0_redirected
    /\ UNCHANGED <<redirlist, before, kids, commands>>

\* Saved already, or nothing to save for.
CloseAndOpen ==
    /\ Do
    /\ LET n == Head(pc.todo)
           f == Close(fd, n.fd)
       IN /\ ~MustSave(n)
          /\ Counted(n)
          /\ \/ ~Fails(f, n) /\ fd' = openredirect(f, n) /\ Rest /\ UNCHANGED lost
             \/ (Fails(f, n) \/ n.kind # "dup") /\ fd' = f /\ Trouble /\ UNCHANGED lost
             \/ HereForkFails(f, n)
    /\ UNCHANGED <<redirlist, before, kids, commands>>

---------------------------------------------------------------------------
RestoreOne_Slip(f, d, saved) == IF saved = EMPTY THEN f ELSE Close(copyfd(f, saved, d), saved)

\* Undoing: close, copy back, close the copy, in the order of the descriptors.
RestoreOne(f, d, saved) == IF saved = EMPTY THEN f ELSE Close(copyfd(Close(f, d), saved, d), saved)


RestoreAll(f, level) ==
    LET undo[d \in -1..MaxFd] ==
            IF d = -1 THEN f
            ELSE IF d \in User THEN RestoreOne(undo[d - 1], d, level[d]) ELSE undo[d - 1]
    IN undo[MaxFd]

popredir ==
    /\ pc.at = "idle" /\ redirlist # <<>>
    /\ fd' = RestoreAll(fd, Head(redirlist))
    /\ fd0_redirected' = fd0_redirected - (IF Head(redirlist)[0] = EMPTY THEN 0 ELSE 1)
    /\ redirlist' = Tail(redirlist) /\ before' = Tail(before)
    /\ UNCHANGED <<pc, kids, lost, commands>>

\* A builtin that is not special survives an error in its redirections.
Caught ==
    /\ pc.at = "error" /\ pc.push
    /\ fd' = RestoreAll(fd, Head(redirlist))
    /\ fd0_redirected' = fd0_redirected - (IF Head(redirlist)[0] = EMPTY THEN 0 ELSE 1)
    /\ redirlist' = Tail(redirlist) /\ before' = Tail(before)
    /\ pc' = [pc EXCEPT !.at = "idle"]
    /\ UNCHANGED <<kids, lost, commands>>

\* RESET after an error or an interrupt, which may come between two redirections.
Reset ==
    /\ pc.at \in {"error", "redir"}
    /\ LET undo[k \in 0..Len(redirlist)] == IF k = 0 THEN fd ELSE RestoreAll(undo[k - 1], redirlist[k])
       IN fd' = undo[Len(redirlist)]
    /\ fd0_redirected' = fd0_redirected - Cardinality({k \in DOMAIN redirlist : redirlist[k][0] # EMPTY})
    /\ redirlist' = <<>> /\ before' = <<>>
    /\ pc' = [pc EXCEPT !.at = "idle", !.todo = <<>>]
    /\ UNCHANGED <<kids, lost, commands>>

\* clearredir in a child about to exec: it keeps no saved descriptor.
clearredir(f) == [d \in Fds |-> IF \E k \in DOMAIN redirlist, u \in User : redirlist[k][u] = d THEN Closed ELSE f[d]]

---------------------------------------------------------------------------
\* Pipelines.  Pipe i joins command i to command i + 1.
Ends(i) == [read |-> <<"read", i>>, write |-> <<"write", i>>]

\* pipe() takes the lowest descriptors; neither end may stay below 3.
sh_pipe(f, i) ==
    LET r0 == LowestFree(f, 0)
        f0 == [f EXCEPT ![r0] = Ends(i).read]
        w0 == LowestFree(f0, 0)
        f1 == [f0 EXCEPT ![w0] = Ends(i).write]
        r1 == IF r0 < 3 THEN LowestFree(f1, 3) ELSE r0
        f2 == IF r0 < 3 THEN Close(copyfd(f1, r0, 3), r0) ELSE f1
        w1 == IF w0 < 3 THEN LowestFree(f2, 3) ELSE w0
        f3 == IF w0 < 3 THEN Close(copyfd(f2, w0, 3), w0) ELSE f2
    IN [f |-> f3, read |-> r1, write |-> w1]

NoPipe(f, prev) == [f |-> f, read |-> prev, write |-> -1]

Wire_Slip(f, prev, pip) ==
    LET a == IF prev > 0 THEN Close(copyfd(Close(f, 0), prev, 0), prev) ELSE f
    IN IF pip.write >= 0 THEN Close(copyfd(Close(a, 1), pip.write, 1), pip.write) ELSE a

\* What the child of the fork does with prevfd and the new pipe.
Wire(f, prev, pip) ==
    LET a == IF prev > 0 THEN Close(copyfd(Close(f, 0), prev, 0), prev) ELSE f
        b == Close(a, pip.read)
    IN IF pip.write < 0 THEN a
       ELSE IF pip.write = 1 THEN b
       ELSE Close(copyfd(Close(b, 1), pip.write, 1), pip.write)

evalpipe ==
    /\ pc.at = "idle"
    /\ commands < MaxCommands /\ commands' = commands + 1
    /\ \E n \in 2..MaxPipe : pc' = [at |-> "pipe", todo |-> [i \in 1..n |-> i], push |-> FALSE, prev |-> -1]
    /\ kids' = <<>>
    /\ UNCHANGED <<fd, redirlist, before, fd0_redirected, lost>>

\* One command of the pipeline: pipe, fork, and the parent drops what only the child needs.
PipeOne ==
    /\ pc.at = "pipe"
    /\ LET i    == Head(pc.todo)
           last == Len(pc.todo) = 1
           pip  == IF last THEN NoPipe(fd, pc.prev) ELSE sh_pipe(fd, i)
       IN /\ kids' = Append(kids, clearredir(Wire(pip.f, pc.prev, pip)))
          /\ fd' = Close(Close(pip.f, pc.prev), pip.write)
          /\ pc' = IF last THEN [pc EXCEPT !.at = "idle", !.todo = <<>>, !.prev = -1]
                   ELSE [pc EXCEPT !.todo = Tail(@), !.prev = pip.read]
    /\ UNCHANGED <<redirlist, before, fd0_redirected, lost, commands>>

\* No pipe is left: what the command before wrote to goes too.
PipeFails ==
    /\ pc.at = "pipe" /\ Len(pc.todo) > 1
    /\ fd' = Close(fd, pc.prev)
    /\ pc' = [pc EXCEPT !.at = "error", !.todo = <<>>, !.prev = -1]
    /\ kids' = <<>>
    /\ UNCHANGED <<redirlist, before, fd0_redirected, lost, commands>>

\* No process is left: error() leaves the pipes of the moment open for good.
PipeForkFails ==
    /\ pc.at = "pipe" /\ lost = {}
    /\ LET i   == Head(pc.todo)
           pip == IF Len(pc.todo) = 1 THEN NoPipe(fd, pc.prev) ELSE sh_pipe(fd, i)
       IN /\ fd' = pip.f
          /\ lost' = {pc.prev, pip.read, pip.write} \ {-1}
    /\ pc' = [pc EXCEPT !.at = "error", !.todo = <<>>, !.prev = -1]
    /\ kids' = <<>>
    /\ UNCHANGED <<redirlist, before, fd0_redirected, commands>>

Init ==
    /\ \E shut \in SUBSET User : fd = [d \in Fds |-> IF d \in User \ shut THEN On("tty") ELSE Closed]
    /\ redirlist = <<>> /\ before = <<>> /\ fd0_redirected = 0 /\ kids = <<>> /\ lost = {} /\ commands = 0
    /\ pc = [at |-> "idle", todo |-> <<>>, push |-> FALSE, prev |-> -1]

Next ==
    \/ \E push \in BOOLEAN : redirect(push)
    \/ SameFd \/ SaveAndOpen \/ OpenClosed \/ CloseAndOpen
    \/ popredir \/ Caught \/ Reset
    \/ evalpipe \/ PipeOne \/ PipeFails \/ PipeForkFails

---------------------------------------------------------------------------
(* Every saved descriptor is open on what its level found there, if it found *)
(* it open, and no two entries of the list share one, so that popredir can   *)
(* undo any level.                                                           *)
SavedIntact ==
    LET saved == {<<k, d>> \in (DOMAIN redirlist) \X User : redirlist[k][d] # EMPTY}
    IN \A x \in saved :
           /\ before[x[1]][x[2]] # Closed => fd[redirlist[x[1]][x[2]]] = before[x[1]][x[2]]
           /\ \A y \in saved : redirlist[x[1]][x[2]] = redirlist[y[1]][y[2]] => x = y

(* A background command gets /dev/null only when standard input is not       *)
(* redirected: as long as a level has saved descriptor 0 the count says so.  *)
Fd0Counted == fd0_redirected >= Cardinality({k \in DOMAIN redirlist : redirlist[k][0] # EMPTY})

(* Between commands no descriptor outside the user's and the saved ones is   *)
(* left open, neither a file nor the end of a pipe, but for the pipes of a   *)
(* pipeline or of a here-document whose fork failed.                         *)
NothingStray == pc.at = "idle" => \A d \in Fds : d \notin User \cup lost /\ d < High => fd[d] = Closed

(* Each command of a pipeline reads its pipe and writes the next, holds no   *)
(* other end (else a reader would never see the end), and no saved file.     *)
PipeWired ==
    LET n == Len(kids) + (IF pc.at = "pipe" THEN 1 ELSE 0)
    IN \A i \in DOMAIN kids :
        LET ends == {d \in Fds : kids[i][d] \in {<<"read", j>> : j \in 1..MaxPipe} \cup {<<"write", j>> : j \in 1..MaxPipe}}
            old  == {d \in lost : kids[i][d] = fd[d]}
        IN /\ i > 1 => kids[i][0] = Ends(i - 1).read
           /\ i < Len(kids) => kids[i][1] = Ends(i).write
           /\ ends \ old \subseteq ((IF i > 1 THEN {0} ELSE {}) \cup (IF i < n THEN {1} ELSE {}))

RedirSafe == SavedIntact /\ Fd0Counted /\ NothingStray /\ PipeWired

\* The outermost of the levels that saved descriptor d.
Outermost(d, n) == LET ks == {k \in 1..n : redirlist[k][d] # EMPTY} IN CHOOSE k \in ks : \A l \in ks : l <= k

(* Undoing one level or all of them gives back every descriptor that was     *)
(* saved when it was open, and closes its copy (popredir, RESET).            *)
RedirUndone ==
    LET n == Len(redirlist) - Len(redirlist')
    IN n > 0 => \A d \in User :
           /\ (\E k \in 1..n : redirlist[k][d] # EMPTY) =>
                  before[Outermost(d, n)][d] \in {Closed, fd'[d]}
           /\ \A k \in 1..n : redirlist[k][d] # EMPTY => fd'[redirlist[k][d]] = Closed
=============================================================================
