--------------------------- MODULE AdbTransport ---------------------------
(***************************************************************************)
(* One transport of adb (transport.c): the main thread with its socket     *)
(* pair, the thread that reads from the remote end (output_thread), the    *)
(* one that writes to it (input_thread), their reference count, and the    *)
(* remote sockets that all three can reach.                                *)
(***************************************************************************)
EXTENDS Integers, Sequences

CONSTANTS MaxPackets,   \* bound: packets the remote end sends
          MaxSockets    \* bound: remote sockets on the transport

VARIABLES
    remote,    \* "up", "down": whether reads from the remote end succeed
    ref,       \* ref_count
    kicked,
    token,     \* sync_token
    toMain,    \* socket pair, read by the main thread
    toIn,      \* socket pair, read by the input thread
    outPc, inPc, mainPc,
    active,    \* of input_thread
    conn,      \* connection_state
    socks,     \* remote sockets on the disconnect list
    posted,    \* remove_transport messages in the registration socket
    freed, closed,
    unregistered,  \* "adb disconnect" was called
    got            \* packets read from the remote end

tvars == <<remote, ref, kicked, token, toMain, toIn, outPc, inPc, mainPc, active, conn,
           socks, posted, freed, closed, unregistered, got>>

Sync(a, n) == [cmd |-> "SYNC", arg0 |-> a, arg1 |-> n]
Data == [cmd |-> "data", arg0 |-> 0, arg1 |-> 0]
Cnxn == [cmd |-> "CNXN", arg0 |-> 0, arg1 |-> 0]

Garbled == [cmd |-> "garbled", arg0 |-> 0, arg1 |-> 0]

\* Packets cross the socket pair as addresses, whole and in order.
write_packet(q, p) == Append(q, p)
read_packet(q) == Tail(q)

\* check_header and check_data: the magic, the length and the sum fit.
check(p) == p.cmd # "garbled"

\* kick_transport: the underlying device is disconnected, once.
remote_kick == remote' = "down"
Kick == kicked' = TRUE /\ IF kicked THEN UNCHANGED remote ELSE remote_kick

\* transport_unref: the last one closes the device and posts the removal.
remote_close == closed' = closed + 1
remove_transport == posted' = posted + 1
Unref ==
    /\ ref' = ref - 1
    /\ IF ref - 1 = 0 THEN remote_close /\ remove_transport
                      ELSE UNCHANGED <<closed, posted>>

-----------------------------------------------------------------------------
\* output_thread: announce the transport, ...
OutStart ==
    /\ outPc = "start" /\ outPc' = "pump"
    /\ token' = token + 1 /\ toMain' = write_packet(toMain, Sync(1, token + 1))
    /\ UNCHANGED <<remote, ref, kicked, toIn, inPc, mainPc, active, conn, socks, posted, freed,
                   closed, unregistered, got>>

\* ... hand on what remote_read of transport_usb.c or transport_local.c
\* delivers if its header and sum are right, ...
OutPump ==
    /\ outPc = "pump" /\ remote = "up" /\ got < MaxPackets
    /\ got' = got + 1
    /\ \E p \in {Data, Cnxn, Garbled} : check(p) /\ toMain' = write_packet(toMain, p)
    /\ UNCHANGED <<remote, ref, kicked, token, toIn, outPc, inPc, mainPc, active, conn, socks,
                   posted, freed, closed, unregistered>>

\* ... and after a failed read, or a packet over TCP that is not right, tell
\* the main thread and leave.
OutStop ==
    /\ outPc = "pump"
    /\ \/ remote = "down" /\ UNCHANGED got
       \/ remote = "up" /\ got < MaxPackets /\ ~check(Garbled) /\ got' = got + 1
    /\ outPc' = "kick" /\ toMain' = write_packet(toMain, Sync(0, 0))
    /\ UNCHANGED <<remote, ref, kicked, token, toIn, inPc, mainPc, active, conn, socks, posted,
                   freed, closed, unregistered>>

\* One over USB that is not right ends the whole process.
OutExit ==
    /\ outPc = "pump" /\ remote = "up" /\ got < MaxPackets /\ ~check(Garbled)
    /\ outPc' = "exit" /\ got' = got + 1
    /\ UNCHANGED <<remote, ref, kicked, token, toMain, toIn, inPc, mainPc, active, conn, socks,
                   posted, freed, closed, unregistered>>

OutLeave ==
    /\ outPc = "kick" /\ outPc' = "done"
    /\ Kick /\ Unref
    /\ UNCHANGED <<token, toMain, toIn, inPc, mainPc, active, conn, socks, freed, unregistered,
                   got>>

-----------------------------------------------------------------------------
\* input_thread: one packet from the main thread; it goes out only after the
\* SYNC with the current token has come back.
InRead ==
    /\ inPc = "loop" /\ toIn # <<>> /\ ~freed
    /\ toIn' = read_packet(toIn)
    /\ LET p == Head(toIn)
       IN  /\ active' = (active \/ (p.cmd = "SYNC" /\ p.arg0 = 1 /\ p.arg1 = token))
           /\ inPc' = IF p.cmd = "SYNC" /\ p.arg0 = 0 THEN "closeall" ELSE "loop"
    /\ UNCHANGED <<remote, ref, kicked, token, toMain, outPc, mainPc, conn, socks, posted, freed,
                   closed, unregistered, got>>

\* close_all_sockets closes the sockets of the transport one after the other,
\* from this thread.
InCloseAll ==
    /\ inPc = "closeall"
    /\ IF socks > 0 THEN socks' = socks - 1 /\ UNCHANGED inPc
                    ELSE inPc' = "kick" /\ UNCHANGED socks
    /\ UNCHANGED <<remote, ref, kicked, token, toMain, toIn, outPc, mainPc, active, conn, posted,
                   freed, closed, unregistered, got>>

InLeave ==
    /\ inPc = "kick" /\ inPc' = "done"
    /\ Kick /\ Unref
    /\ UNCHANGED <<token, toMain, toIn, outPc, mainPc, active, conn, socks, freed, unregistered,
                   got>>

-----------------------------------------------------------------------------
\* transport_socket_events and handle_packet in the main thread.  A SYNC goes
\* back to the input thread; the one that takes the transport offline, and a
\* CNXN while online, first run the disconnects (the walk below).
GoOffline_Slip ==
    /\ conn' = "offline" /\ mainPc' = "walk"
    /\ toIn' = write_packet(toIn, Sync(0, 0)) /\ UNCHANGED socks

GoOffline ==
    /\ conn' = "offline" /\ mainPc' = "offwalk"
    /\ UNCHANGED <<socks, toIn>>

MainPacket ==
    /\ mainPc = "idle" /\ toMain # <<>> /\ ~freed /\ toMain' = read_packet(toMain)
    /\ LET p == Head(toMain)
       IN  \/ /\ p.cmd = "SYNC" /\ p.arg0 = 1
              /\ toIn' = toIn \o <<p, Cnxn>> /\ UNCHANGED <<mainPc, conn, socks>>
           \/ p.cmd = "SYNC" /\ p.arg0 = 0 /\ GoOffline
           \/ /\ p.cmd = "CNXN"
              /\ mainPc' = IF conn = "online" THEN "walk" ELSE "idle"
              /\ conn' = "online" /\ UNCHANGED <<socks, toIn>>
           \/ /\ p.cmd = "data" /\ UNCHANGED <<conn, mainPc>>
              /\ IF conn = "online" /\ socks < MaxSockets
                 THEN socks' = socks + 1 /\ toIn' = write_packet(toIn, Data)
                 ELSE UNCHANGED <<socks, toIn>>
    /\ UNCHANGED <<remote, ref, kicked, token, outPc, inPc, active, posted, freed, closed,
                   unregistered, got>>

\* run_transport_disconnects, one socket at a time.
MainWalk ==
    /\ mainPc \in {"walk", "offwalk"}
    /\ IF socks > 0 THEN socks' = socks - 1 /\ UNCHANGED <<mainPc, toIn>>
       ELSE /\ mainPc' = "idle" /\ UNCHANGED socks
            /\ toIn' = IF mainPc = "offwalk" THEN write_packet(toIn, Sync(0, 0)) ELSE toIn
    /\ UNCHANGED <<remote, ref, kicked, token, toMain, outPc, inPc, active, conn, posted, freed,
                   closed, unregistered, got>>

\* transport_registration_func, action 0: both halves of the socket pair are
\* closed, the disconnects run once more, the transport is freed.
MainRemove ==
    /\ mainPc = "idle" /\ posted > 0 /\ ~freed
    /\ freed' = TRUE /\ socks' = 0 /\ posted' = posted - 1
    /\ UNCHANGED <<remote, ref, kicked, token, toMain, toIn, outPc, inPc, mainPc, active, conn,
                   closed, unregistered, got>>

\* unregister_transport, for "adb disconnect": gives up a reference that only
\* the two threads hold.
Unregister ==
    /\ mainPc = "idle" /\ ~freed /\ ~unregistered /\ unregistered' = TRUE
    /\ Kick /\ Unref
    /\ UNCHANGED <<token, toMain, toIn, outPc, inPc, mainPc, active, conn, socks, freed, got>>

Unplugged ==
    /\ remote = "up" /\ remote' = "down"
    /\ UNCHANGED <<ref, kicked, token, toMain, toIn, outPc, inPc, mainPc, active, conn, socks,
                   posted, freed, closed, unregistered, got>>

Init ==
    /\ remote = "up" /\ ref = 2 /\ kicked = FALSE /\ token = 1 /\ toMain = <<>> /\ toIn = <<>>
    /\ outPc = "start" /\ inPc = "loop" /\ mainPc = "idle" /\ active = FALSE /\ conn = "offline"
    /\ socks = 0 /\ posted = 0 /\ freed = FALSE /\ closed = 0 /\ unregistered = FALSE
    /\ got = 0

Runs == outPc # "exit"      \* the process
Out  == Runs /\ (OutStart \/ OutPump \/ OutStop \/ OutExit \/ OutLeave)
In   == Runs /\ (InRead \/ InCloseAll \/ InLeave)
Main == Runs /\ (MainPacket \/ MainWalk \/ MainRemove)
Next == Out \/ In \/ Main \/ (Runs /\ (Unregister \/ Unplugged))

-----------------------------------------------------------------------------
\* The main thread and the input thread never work through the sockets of a
\* transport at the same time: SYNC(0) reaches the input thread only when the
\* main thread is through, so no socket is closed by both.
OneCloser == ~unregistered => ~(mainPc \in {"walk", "offwalk"} /\ inPc = "closeall")

\* "The transport will not actually be closed until both threads exit"
\* (transport.c): it is closed and freed once, after both, as long as nobody
\* disconnects it by hand.
FreedLast ==
    /\ (freed \/ closed > 0) /\ ~unregistered => outPc = "done" /\ inPc = "done"
    /\ ~unregistered => closed <= 1 /\ ref >= 0

\* What the two rest on.  The stop, SYNC(0), is sent once, as the last packet of
\* the output thread, and is in one place at a time: on the way to the main
\* thread, with its walk, on the way to the input thread, or arrived there.
Stop(p)     == p.cmd = "SYNC" /\ p.arg0 = 0
NoStop(q)   == \A i \in 1 .. Len(q) : ~Stop(q[i])
LastStop(q) == q # <<>> /\ \A i \in 1 .. Len(q) : Stop(q[i]) <=> i = Len(q)
StopOnce ==
    \/ /\ outPc \in {"start", "pump", "exit"} /\ NoStop(toMain) /\ NoStop(toIn)
       /\ mainPc \in {"idle", "walk"} /\ inPc = "loop"
    \/ /\ outPc \in {"kick", "done"} /\ LastStop(toMain) /\ NoStop(toIn)
       /\ mainPc \in {"idle", "walk"} /\ inPc = "loop"
    \/ /\ outPc \in {"kick", "done"} /\ toMain = <<>> /\ NoStop(toIn)
       /\ mainPc = "offwalk" /\ inPc = "loop"
    \/ /\ outPc \in {"kick", "done"} /\ toMain = <<>> /\ LastStop(toIn)
       /\ mainPc = "idle" /\ inPc = "loop"
    \/ /\ outPc \in {"kick", "done"} /\ toMain = <<>>
       /\ mainPc = "idle" /\ inPc \in {"closeall", "kick", "done"}

\* Unless somebody disconnects by hand, the references are those of the two
\* threads, and only the last one closes the device and posts its removal.
RefsCounted ==
    ~unregistered =>
        /\ ref = (IF outPc = "done" THEN 0 ELSE 1) + (IF inPc = "done" THEN 0 ELSE 1)
        /\ closed = IF ref = 0 THEN 1 ELSE 0
        /\ posted + (IF freed THEN 1 ELSE 0) = closed /\ posted \in Nat

\* What may not last: a transport whose device is gone and that is still there.
Dying == Runs /\ remote = "down" /\ ~unregistered /\ ~freed

=============================================================================
