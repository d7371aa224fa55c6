------------------------------- MODULE MCAdb -------------------------------
(***************************************************************************)
(* adb, model-checked part by part: a behaviour exercises one part, the    *)
(* others keep an initial state.                                           *)
(***************************************************************************)
EXTENDS Integers, Sequences, FiniteSets

CONSTANTS
    MaxPackets, MaxSockets,                  \* see AdbTransport
    Size, MaxWritten,                        \* see AdbPairs
    MaxPlugs, MaxTransfers,                  \* see AdbUsb
    MaxFd, MaxCalls,                         \* see AdbEvents
    Vms, Pid, MaxOut, MaxFds, MaxTracks,     \* see AdbJdwp
    Transports, UsbTransports, Ports, MaxReconnect, MaxForwards,  \* see AdbServer
    Version, Old, MaxServers                 \* see AdbClient

\* A buffer of the socket pairs holds something, and devices are counted.
ASSUME AdbSizes == Size \in Nat \ {0} /\ MaxPlugs \in Nat

\* Descriptors are small numbers, and more than one.
ASSUME AdbDescriptors == MaxFd \in Nat \ {0}

\* Pids are numbers, and debuggers are counted.
ASSUME AdbProcesses == Pid \in [Vms -> Nat] /\ MaxFds \in Nat

\* Finitely many registrations, and the head of the list is none of them.
ASSUME AdbTransports == IsFiniteSet(Transports) /\ 0 \notin Transports

\* Versions differ, and no server has version 0.
ASSUME AdbVersions == Version # 0 /\ Old # 0 /\ Version # Old

VARIABLES
    part,
    sk, wire, state, nextId, scut, opened, early, faults,
    table, wants, events, pending, plist, selectN, called, calls,
    tremote, ref, kicked, token, toMain, toIn, outPc, inPc, mainPc, active,
    tconn, socks, posted, freed, tclosed, unregistered, tgot,
    cmd, ypc, at, n, skip, spc, cur, up, down, ycut, remote, local, kept,
    short, said, trouble,
    vm, sent, procs, fd, owner, trackers,
    conn, next, prev, queue, listener, need, last, missed, waiter, pick,
    unlinked, reconnects, requests,
    server, lpc, todo, sess, child, served, count, killed,
    buff, aStart, aEnd, bEnd, canRead, canWrite, evtRead, evtWrite, lock,
    closed, wpc, rpc, cpc, mode, written, got,
    plugged, plugs, h, ppc

\* Three clients at the same time.
MCCommands == <<{"devices", "install", "wait-for-device shell"}, {"uninstall", "kill-server"},
                {"start-server"}>>

\* The machines share a recycled pid.
MCPid == [v \in Vms |-> 7]

\* Two packets of output of a service; commands go without data of their own.
MCData == [host |-> 0, device |-> 2]

Str == INSTANCE AdbStreams WITH MaxStreams <- 2, MaxData <- MCData, MaxFaults <- 2,
           cut <- scut
Evt == INSTANCE AdbEvents WITH Fds <- 0 .. MaxFd
Tra == INSTANCE AdbTransport WITH remote <- tremote, conn <- tconn, closed <- tclosed,
           got <- tgot
Syn == INSTANCE AdbSync WITH Files <- 2, Links <- {2}, Blocks <- 2, Cap <- 2,
           MaxTrouble <- 2, cpc <- ypc, cut <- ycut
Jdw == INSTANCE AdbJdwp
Srv == INSTANCE AdbServer WITH Usb <- UsbTransports
Cli == INSTANCE AdbClient WITH Commands <- MCCommands, pc <- lpc
Pai == INSTANCE AdbPairs
Usb == INSTANCE AdbUsb

str == <<sk, wire, state, nextId, scut, opened, early, faults>>
evt == <<table, wants, events, pending, plist, selectN, called, calls>>
tra == <<tremote, ref, kicked, token, toMain, toIn, outPc, inPc, mainPc, active,
         tconn, socks, posted, freed, tclosed, unregistered, tgot>>
syn == <<cmd, ypc, at, n, skip, spc, cur, up, down, ycut, remote, local, kept,
         short, said, trouble>>
jdw == <<vm, sent, procs, fd, owner, trackers>>
srv == <<conn, next, prev, queue, listener, need, last, missed, waiter, pick,
         unlinked, reconnects, requests>>
cli == <<server, lpc, todo, sess, child, served, count, killed>>
pai == <<buff, aStart, aEnd, bEnd, canRead, canWrite, evtRead, evtWrite, lock,
         closed, wpc, rpc, cpc, mode, written, got>>
usb == <<plugged, plugs, h, ppc>>
vars == <<part, str, evt, tra, syn, jdw, srv, cli, pai, usb>>

\* A part that does not take part starts in one of its initial states.
Init ==
    /\ part \in {"streams", "events", "transport", "sync", "jdwp", "server", "client",
                 "pairs", "usb"}
    /\ Str!Init /\ Evt!Init /\ Tra!Init /\ Jdw!Init /\ Srv!Init /\ Usb!Init
    /\ Syn!Init /\ (part # "sync" => cmd = "ls" /\ DOMAIN remote = {})
    /\ Cli!Init /\ (part # "client" => server = Cli!None /\ todo = <<<<"once">>, <<"kill">>, <<"start">>>>)
    /\ Pai!Init /\ (part # "pairs" => mode = "loop")

StreamsOnly == part = "streams" /\ UNCHANGED <<part, evt, tra, syn, jdw, srv, cli, pai, usb>>
EventsOnly == part = "events" /\ UNCHANGED <<part, str, tra, syn, jdw, srv, cli, pai, usb>>
TransportOnly == part = "transport" /\ UNCHANGED <<part, str, evt, syn, jdw, srv, cli, pai, usb>>
SyncOnly == part = "sync" /\ UNCHANGED <<part, str, evt, tra, jdw, srv, cli, pai, usb>>
JdwpOnly == part = "jdwp" /\ UNCHANGED <<part, str, evt, tra, syn, srv, cli, pai, usb>>
ServerOnly == part = "server" /\ UNCHANGED <<part, str, evt, tra, syn, jdw, cli, pai, usb>>
ClientOnly == part = "client" /\ UNCHANGED <<part, str, evt, tra, syn, jdw, srv, pai, usb>>
PairsOnly == part = "pairs" /\ UNCHANGED <<part, str, evt, tra, syn, jdw, srv, cli, usb>>
UsbOnly == part = "usb" /\ UNCHANGED <<part, str, evt, tra, syn, jdw, srv, cli, pai>>

StreamsStep == StreamsOnly /\ Str!Next
EventsStep == EventsOnly /\ Evt!Next
TransportStep == TransportOnly /\ Tra!Next
SyncStep == SyncOnly /\ Syn!Next
JdwpStep == JdwpOnly /\ Jdw!Next
ServerStep == ServerOnly /\ Srv!Next
ClientStep == ClientOnly /\ Cli!Next
PairsStep == PairsOnly /\ Pai!Next
UsbStep == UsbOnly /\ Usb!Next

Next ==
    \/ StreamsStep \/ EventsStep \/ TransportStep \/ SyncStep \/ JdwpStep
    \/ ServerStep \/ ClientStep \/ PairsStep \/ UsbStep

\* Packets of a live connection are handled, threads go on whenever they can,
\* and a device that is gone is noticed; nothing is assumed of the user, the
\* devices and the programs at the ends of the streams.  One part acts in a
\* behaviour, so that the threads of different parts share a condition.
ThreadA ==
    \/ StreamsOnly /\ (Str!HandlePacket("host") \/ Str!Offline("host"))
    \/ TransportOnly /\ Tra!Out
    \/ SyncOnly /\ Syn!ClientStep
    \/ ClientOnly /\ Cli!Step(1)
    \/ ServerOnly /\ (Srv!WaitPick \/ Srv!WaitCheck)
    \/ PairsOnly /\ Pai!Writer
    \/ UsbOnly /\ Usb!Poll
ThreadB ==
    \/ StreamsOnly /\ (Str!HandlePacket("device") \/ Str!Offline("device"))
    \/ TransportOnly /\ Tra!In
    \/ SyncOnly /\ Syn!ServiceStep
    \/ ClientOnly /\ Cli!Step(2)
    \/ PairsOnly /\ Pai!Reader
    \/ UsbOnly /\ \E i \in 1 .. MaxPlugs : Usb!Reading(i)
ThreadC ==
    \/ TransportOnly /\ Tra!Main
    \/ PairsOnly /\ Pai!CloseSignal
    \/ ClientOnly /\ Cli!Step(3)
    \/ UsbOnly /\ \E i \in 1 .. MaxPlugs : Usb!Writing(i)
Fairness == WF_vars(ThreadA) /\ WF_vars(ThreadB) /\ WF_vars(ThreadC)

Spec == Init /\ [][Next]_vars /\ Fairness

-----------------------------------------------------------------------------
\* See AdbStreams and AdbSync: what one end of a stream read reaches the other
\* in order, one packet at a time and to its end; the file transfers on top
\* keep their requests and answers in step and do not report what is not there.
TransfersRight ==
    /\ Str!DataInOrder /\ Str!OneInFlight /\ Str!EofDelivers
    /\ Syn!PushTells /\ Syn!PullTells /\ Syn!InStep /\ Syn!NoHalfFile

\* See AdbTransport, AdbPairs and AdbUsb: the layers below keep their packets,
\* bytes and handles straight between their threads.
ThreadsSafe == Tra!OneCloser /\ Tra!FreedLast /\ Pai!BipFifo /\ Usb!HandleSafe

\* See AdbEvents, AdbServer, AdbJdwp and AdbClient: the list of pending events,
\* and what the server and the daemon tell of devices, forwards, debuggers and
\* of themselves, is how things are.
RegistryTrue ==
    /\ Evt!PendingSound
    /\ Srv!ForwardsLive /\ Srv!ListLive /\ Srv!TrackerCurrent
    /\ Jdw!JdwpTold /\ Jdw!FdsAccounted /\ Cli!ServedByOwnVersion /\ Cli!ServerLeft

Owed ==
    CASE part = "streams" -> Str!Waiting   [] part = "transport" -> Tra!Dying
      [] part = "sync" -> Syn!Busy         [] part = "server" -> Srv!WaitsInVain
      [] part = "client" -> Cli!Running    [] part = "pairs" -> Pai!WriterBlocked
      [] part = "usb" -> Usb!Stuck         [] OTHER -> FALSE
OwedNext ==
    CASE part = "streams" -> Str!HalfOpen  [] part = "pairs" -> Pai!ReaderBlocked
      [] OTHER -> FALSE

\* Nobody waits for ever: a connection that was asked for is answered or
\* closed, a stream closed at one end is closed at the other, a transport or a
\* handle whose device is gone is taken down, transfers, commands and
\* wait_for_state end, and no wake-up and no close of a socket pair gets lost.
AdbSettles == (Owed ~> ~Owed) /\ (OwedNext ~> ~OwedNext)
=============================================================================
