----------------------------- MODULE AdbClient -----------------------------
(***************************************************************************)
(* How adb commands find their server (adb_client.c, launch_server and     *)
(* adb_main of adb.c, adb_commandline): every connection first asks the    *)
(* running server for its version, starts one if there is none, and kills  *)
(* one of another version first.  Several clients do so at the same time.  *)
(* A command is the sequence of its connections: "once" gives up when one  *)
(* fails, "retry" (send_shellcommand) waits and starts over, "start" stops *)
(* when the server is up and "kill" only kills it.                         *)
(***************************************************************************)
EXTENDS Integers, Sequences

CONSTANTS Commands,    \* per client, a set of commands it may be given
          Version,     \* ADB_SERVER_VERSION of the clients
          Old,         \* version of a server left over from another release
          MaxServers   \* bound: servers ever started

VARIABLES
    server,   \* the server that owns the port: [id, version], id 0 if none
    pc, todo, \* each client's place in adb_connect, and its command
    sess,     \* the server its connection leads to
    child,    \* the server process it has forked: "none", "starting", "ok", "dead"
    served,   \* versions of the servers that took its requests
    count,    \* servers started
    killed    \* somebody ran kill-server

lvars == <<server, pc, todo, sess, child, served, count, killed>>

Clients == DOMAIN Commands
None == [id |-> 0, version |-> 0]
Goto(c, l) == pc' = [pc EXCEPT ![c] = l]

\* _adb_connect: a connection leads to the server that owns the port then.
Connected(c) == sess' = [sess EXCEPT ![c] = server]

\* The commands of adb_commandline, as far as they reach the server.
pm_command == <<"retry">>
delete_file == <<"retry">>
uninstall_app == pm_command
install_app == <<"once">> \o pm_command \o delete_file     \* a push first
adb_commandline(name) ==
    CASE name = "install" -> install_app
      [] name = "uninstall" -> uninstall_app
      [] name = "wait-for-device shell" -> <<"once", "once">>
      [] name = "kill-server" -> <<"kill">>
      [] name = "start-server" -> <<"start">>
      [] OTHER -> <<"once">>      \* a query, a shell, a file transfer

\* The next connection of the command, or its end.
Follow(c, rest) == IF rest = <<>> THEN "end" ELSE IF Head(rest) = "kill" THEN "killserver" ELSE "version"

\* A connection that failed ends the command, or send_shellcommand tries again.
GiveUp(c) == IF Head(todo[c]) = "retry" THEN "version" ELSE "fail"

-----------------------------------------------------------------------------
\* _adb_connect("host:version").
AskVersion(c) ==
    /\ pc[c] = "version" /\ Connected(c)
    /\ Goto(c, IF server = None THEN "launch" ELSE "answer")
    /\ UNCHANGED <<server, todo, child, served, count, killed>>

\* The answer; a server that is killed meanwhile never gives it.
ReadVersion_Slip(c) ==
    /\ pc[c] = "answer"
    /\ Goto(c, IF server.id # sess[c].id THEN GiveUp(c) ELSE "connect")
    /\ UNCHANGED <<server, todo, sess, child, served, count, killed>>

ReadVersion(c) ==
    /\ pc[c] = "answer"
    /\ Goto(c, IF server.id # sess[c].id THEN GiveUp(c)
               ELSE IF sess[c].version = Version THEN "connect" ELSE "kill")
    /\ UNCHANGED <<server, todo, sess, child, served, count, killed>>

\* "adb server is out of date.  killing...": whichever server owns the port
\* by now exits while the client sleeps.
KillOld_Slip(c) ==
    /\ pc[c] = "kill" /\ server' = None /\ Goto(c, "connect")
    /\ UNCHANGED <<todo, sess, child, served, count, killed>>

KillOld(c) ==
    /\ pc[c] = "kill" /\ server' = None /\ Goto(c, "launch")
    /\ UNCHANGED <<todo, sess, child, served, count, killed>>

\* launch_server forks; adb_main of the child takes the port and says OK, or
\* exits because the port is taken.
launch_server(c) ==
    /\ pc[c] = "launch" /\ Goto(c, "await") /\ child' = [child EXCEPT ![c] = "starting"]
    /\ UNCHANGED <<server, todo, sess, served, count, killed>>

adb_main(c) ==
    /\ child[c] = "starting" /\ count < MaxServers
    /\ IF server = None
       THEN /\ server' = [id |-> count + 1, version |-> Version] /\ count' = count + 1
            /\ child' = [child EXCEPT ![c] = "ok"]
       ELSE child' = [child EXCEPT ![c] = "dead"] /\ UNCHANGED <<server, count>>
    /\ UNCHANGED <<pc, todo, sess, served, killed>>

ReadOk(c) ==
    /\ pc[c] = "await" /\ child[c] \in {"ok", "dead"} /\ child' = [child EXCEPT ![c] = "none"]
    /\ Goto(c, IF child[c] = "ok" THEN "connect" ELSE GiveUp(c))
    /\ UNCHANGED <<server, todo, sess, served, count, killed>>

\* The request itself: "start-server" needs none.
ConnectService(c) ==
    /\ pc[c] = "connect"
    /\ LET next == Tail(todo[c])
       IN  IF Head(todo[c]) = "start" THEN todo' = [todo EXCEPT ![c] = next] /\ Goto(c, Follow(c, next))
                                           /\ UNCHANGED <<sess, served>>
           ELSE IF server = None THEN Goto(c, GiveUp(c)) /\ UNCHANGED <<todo, sess, served>>
           ELSE /\ Connected(c)
                /\ served' = [served EXCEPT ![c] = @ \cup {server.version}]
                /\ todo' = [todo EXCEPT ![c] = next] /\ Goto(c, Follow(c, next))
    /\ UNCHANGED <<server, child, count, killed>>

\* "adb kill-server".
KillServer(c) ==
    /\ pc[c] = "killserver" /\ server' = None /\ killed' = TRUE
    /\ todo' = [todo EXCEPT ![c] = Tail(@)] /\ Goto(c, Follow(c, Tail(todo[c])))
    /\ UNCHANGED <<sess, child, served, count>>

Init ==
    /\ server \in {None, [id |-> 1, version |-> Old], [id |-> 1, version |-> Version]} /\ count = 1
    /\ \E name \in [Clients -> UNION {Commands[c] : c \in Clients}] :
          /\ \A c \in Clients : name[c] \in Commands[c]
          /\ todo = [c \in Clients |-> adb_commandline(name[c])]
    /\ pc = [c \in Clients |-> Follow(c, todo[c])]
    /\ sess = [c \in Clients |-> None] /\ child = [c \in Clients |-> "none"]
    /\ served = [c \in Clients |-> {}] /\ killed = FALSE

Step(c) == \/ AskVersion(c) \/ ReadVersion(c) \/ KillOld(c) \/ launch_server(c) \/ adb_main(c)
           \/ ReadOk(c) \/ ConnectService(c) \/ KillServer(c)
Next == \E c \in Clients : Step(c)

-----------------------------------------------------------------------------
\* A request is only ever taken by a server of the client's own version,
\* however the starts and kills of the clients interleave.
ServedByOwnVersion == \A c \in Clients : served[c] \subseteq {Version}

\* What may not last: a client.
Running == \E c \in Clients : pc[c] \notin {"end", "fail"}

\* Once the commands are through and nobody asked for the contrary, a server
\* of the right version is left running.
ServerLeft == ~Running => killed \/ server.version = Version

\* What this rests on.  A connection leads to the server it was made to, whose
\* number is never used again; the server of another release is there from the
\* start or not at all, and nobody gets past it; a client waits for the server
\* it has forked; and a port nobody owns is on its way to a new owner.
SessionsKnown ==
    /\ server.id <= count
    /\ \A c \in Clients : sess[c].id <= count /\ (sess[c].id = server.id => sess[c] = server)
NobodyPastOld ==
    server.version = Old => \A c \in Clients :
        pc[c] \in {"version", "answer", "kill", "killserver"} /\ (pc[c] = "answer" => sess[c] = server)
ChildAwaited == \A c \in Clients : child[c] # "none" => pc[c] = "await"
SomebodyStarts ==
    server = None /\ ~killed =>
        \/ \A c \in Clients : pc[c] \in {"version", "killserver"}
        \/ \E c \in Clients : pc[c] = "launch" \/ (pc[c] = "await" /\ child[c] = "starting")

=============================================================================
