---------------------------- MODULE AdbStreams ----------------------------
(***************************************************************************)
(* The streams of adb: the sockets of the server on the host and of the    *)
(* daemon in the recovery (sockets.c), joined by the packets OPEN, OKAY,   *)
(* WRTE, CLSE and CNXN of one transport (handle_packet of adb.c).  The     *)
(* transport keeps the order of packets and loses them only when the cable *)
(* is pulled; the server can be restarted while the daemon goes on.        *)
(***************************************************************************)
EXTENDS Integers, Sequences, FiniteSets

CONSTANTS
    MaxStreams,  \* bound: connections made
    MaxData,     \* bound: packets of data each end sends in a stream
    MaxFaults    \* bound: restarts of the server, pulled cables, broken fds

VARIABLES
    sk,      \* sk[e][i]: the local socket with id i at end e
    wire,    \* wire[e]: packets on the way to end e
    state,   \* connection_state of the transport at each end
    nextId,  \* local_socket_next_id
    cut,     \* the ends that have not noticed yet that the cable was pulled
    opened,  \* connections made so far; numbers the streams
    early,   \* streams asked for before the answer to the server's own CNXN
    faults

svars == <<sk, wire, state, nextId, cut, opened, early, faults>>

Ends == {"host", "device"}
Other(e) == IF e = "host" THEN "device" ELSE "host"
Ids == 1 .. MaxStreams

\* sid numbers the stream; rd: FDE_READ is set; q: pkt_first, behind a fd
\* that would block; sent: packets made of what was read from the fd; out:
\* what was written to it; why: how the socket came to be closed.
None == [st |-> "none", sid |-> 0, peer |-> 0, rd |-> FALSE, q |-> <<>>, sent |-> 0,
         out |-> <<>>, why |-> "none"]

Flag(b) == IF b THEN 1 ELSE 0
Packet(c, a, b, d) == [cmd |-> c, arg0 |-> a, arg1 |-> b, data |-> d]
Listed(s) == s.st \in {"connecting", "open"}

\* send_packet; nothing arrives through a cable that is pulled.
Send(e, ps) == IF cut # {} THEN wire[Other(e)] ELSE wire[Other(e)] \o ps

\* local_socket_close_locked: the remote socket that is the peer sends CLSE
\* (it has lost its own peer by then, so arg0 is 0), and the socket stays on
\* the closing list while there is something left to write.
close_locked(s, why) ==
    [s EXCEPT !.st = IF s.st = "closing" \/ s.q = <<>> THEN "gone" ELSE "closing",
              !.q = IF s.st = "closing" THEN <<>> ELSE s.q,
              !.peer = 0, !.rd = FALSE, !.why = IF s.why = "none" THEN why ELSE s.why]

CloseMessage(s) == IF s.peer = 0 THEN <<>> ELSE <<Packet("CLSE", 0, s.peer, <<>>)>>

-----------------------------------------------------------------------------
\* create_local_socket, and the OPEN of connect_to_remote.
create_local_socket(n) == [None EXCEPT !.st = "connecting", !.sid = n]
connect_to_remote(i, n) == <<Packet("OPEN", i, 0, <<n>>)>>

\* A CNXN is on the way: the server's own is not answered yet.
Unanswered == \E e \in Ends : \E k \in DOMAIN wire[e] : wire[e][k].cmd = "CNXN"

\* smart_socket_enqueue: a client's request for a service becomes an OPEN,
\* unless the transport is offline.  It is online from the first CNXN that
\* comes, be it the answer to a server that was killed.
Connect ==
    LET i == nextId["host"]
    IN  /\ opened < MaxStreams /\ cut = {} /\ state["host"] = "online"
        /\ opened' = opened + 1
        /\ early' = IF Unanswered THEN early \cup {opened + 1} ELSE early
        /\ sk' = [sk EXCEPT !["host"][i] = create_local_socket(opened + 1)]
        /\ nextId' = [nextId EXCEPT !["host"] = i + 1]
        /\ wire' = [wire EXCEPT !["device"] =
                        Send("host", connect_to_remote(i, opened + 1))]
        /\ UNCHANGED <<state, cut, faults>>

\* local_socket_event_func, FDE_READ: a packet of what the fd has to offer,
\* the end of it, or both.  remote_socket_enqueue always says "wait".
ReadEvent(e, i) ==
    LET s == sk[e][i]
    IN  /\ s.st = "open" /\ s.rd
        /\ \E more, eof \in BOOLEAN :
              LET t  == IF more THEN [s EXCEPT !.sent = @ + 1, !.rd = FALSE] ELSE s
                  w  == IF more THEN <<Packet("WRTE", i, s.peer, <<s.sid, s.sent + 1>>)>> ELSE <<>>
              IN  /\ (more => s.sent < MaxData[e]) /\ (more \/ eof)
                  /\ sk' = [sk EXCEPT ![e][i] = IF eof THEN close_locked(t, "eof") ELSE t]
                  /\ wire' = [wire EXCEPT ![Other(e)] =
                                  Send(e, w \o IF eof THEN CloseMessage(s) ELSE <<>>)]
        /\ UNCHANGED <<state, nextId, cut, opened, early, faults>>

\* FDE_WRITE: the queue drains and the peer is told to go on, the last packet
\* of a closing socket destroys it, or the fd is broken.
WriteEvent(e, i) ==
    LET s == sk[e][i]
        drain == [s EXCEPT !.q = <<>>, !.out = s.out \o s.q]
    IN  /\ s.st \in {"open", "closing"} /\ s.q # <<>>
        /\ \/ /\ s.st = "open" /\ s.why # "error"
              /\ sk' = [sk EXCEPT ![e][i] = drain]
              /\ wire' = [wire EXCEPT ![Other(e)] = Send(e, <<Packet("OKAY", i, s.peer, <<>>)>>)]
           \/ /\ s.st = "closing" /\ s.why # "error"
              /\ sk' = [sk EXCEPT ![e][i] = close_locked(drain, "none")]
              /\ UNCHANGED wire
           \/ /\ faults < MaxFaults \/ s.why = "error"
              /\ sk' = [sk EXCEPT ![e][i] = close_locked([s EXCEPT !.why = "error"], "error")]
              /\ wire' = [wire EXCEPT ![Other(e)] = Send(e, CloseMessage(s))]
        /\ faults' = faults + Flag(s.why # "error" /\ sk'[e][i].why = "error")
        /\ UNCHANGED <<state, nextId, cut, opened, early>>

-----------------------------------------------------------------------------
\* One packet of handle_packet; p is the packet, s its socket, t the tail of
\* the wire it was taken from.
Take(e, ps, row) ==
    /\ sk' = [sk EXCEPT ![e] = row]
    /\ wire' = [wire EXCEPT ![e] = Tail(@), ![Other(e)] = Send(e, ps)]

Find(e, id) == IF id \in Ids /\ Listed(sk[e][id]) THEN id ELSE 0

\* run_transport_disconnects: every remote socket closes its local one.
Disconnected(row) ==
    [i \in Ids |-> IF row[i].peer # 0 THEN close_locked(row[i], "offline") ELSE row[i]]

HandleConnect_Slip(e, p) ==
    /\ p.cmd = "CNXN"
    /\ Take(e, IF e = "device" THEN <<Packet("CNXN", 0, 0, <<>>)>> ELSE <<>>, sk[e])
    /\ state' = [state EXCEPT ![e] = "online"]
    /\ UNCHANGED nextId

HandleConnect(e, p) ==
    /\ p.cmd = "CNXN"
    /\ Take(e, IF e = "device" THEN <<Packet("CNXN", 0, 0, <<>>)>> ELSE <<>>,
            IF state[e] = "online" THEN Disconnected(sk[e]) ELSE sk[e])
    /\ state' = [state EXCEPT ![e] = "online"]
    /\ UNCHANGED nextId

\* A packet that is not for this connection: dropped.
HandleNothing(e, p) ==
    /\ p.cmd # "CNXN"
    /\ state[e] = "offline" \/ (p.cmd # "OPEN" /\ Find(e, p.arg1) = 0)
    /\ Take(e, <<>>, sk[e])
    /\ UNCHANGED <<state, nextId>>

HandleOpen(e, p) ==
    /\ p.cmd = "OPEN" /\ state[e] = "online"
    /\ LET i == nextId[e]
           s == [create_local_socket(p.data[1]) EXCEPT !.st = "open", !.peer = p.arg0, !.rd = TRUE]
       IN  \/ /\ Take(e, <<Packet("CLSE", 0, p.arg0, <<>>)>>, sk[e])    \* no such service
              /\ UNCHANGED nextId
           \/ /\ Take(e, <<Packet("OKAY", i, p.arg0, <<>>)>>, [sk[e] EXCEPT ![i] = s])
              /\ nextId' = [nextId EXCEPT ![e] = i + 1]
    /\ UNCHANGED state

HandleOkay(e, p) ==
    LET i == Find(e, p.arg1)
    IN  /\ p.cmd = "OKAY" /\ i # 0 /\ state[e] = "online"
        /\ Take(e, <<>>, [sk[e] EXCEPT ![i].st = "open", ![i].rd = TRUE,
                                       ![i].peer = IF @ = 0 THEN p.arg0 ELSE @])
        /\ UNCHANGED <<state, nextId>>

HandleClose_Slip(e, p) ==
    LET i == Find(e, p.arg1)
        s == sk[e][i]
    IN  /\ p.cmd = "CLSE" /\ i # 0 /\ state[e] = "online"
        /\ Take(e, CloseMessage(s), [sk[e] EXCEPT ![i] = close_locked([s EXCEPT !.q = <<>>], "peer")])
        /\ UNCHANGED <<state, nextId>>

HandleClose(e, p) ==
    LET i == Find(e, p.arg1)
        s == sk[e][i]
    IN  /\ p.cmd = "CLSE" /\ i # 0 /\ state[e] = "online"
        /\ Take(e, CloseMessage(s), [sk[e] EXCEPT ![i] = close_locked(s, "peer")])
        /\ UNCHANGED <<state, nextId>>

\* local_socket_enqueue: written at once and acknowledged, kept for later,
\* or the fd is broken and the socket closed.
HandleWrite(e, p) ==
    LET i == Find(e, p.arg1)
        s == sk[e][i]
    IN  /\ p.cmd = "WRTE" /\ i # 0 /\ state[e] = "online"
        /\ \/ /\ s.q = <<>>
              /\ Take(e, <<Packet("OKAY", i, p.arg0, <<>>)>>,
                      [sk[e] EXCEPT ![i].out = Append(@, p.data)])
           \/ Take(e, <<>>, [sk[e] EXCEPT ![i].q = Append(@, p.data)])
           \/ /\ s.q = <<>> /\ faults < MaxFaults
              /\ Take(e, CloseMessage(s), [sk[e] EXCEPT ![i] = close_locked(s, "error")])
        /\ UNCHANGED <<state, nextId>>

HandlePacket(e) ==
    /\ wire[e] # <<>>
    /\ LET p == Head(wire[e])
       IN  \/ HandleConnect(e, p) \/ HandleNothing(e, p) \/ HandleOpen(e, p)
           \/ HandleOkay(e, p) \/ HandleClose(e, p) \/ HandleWrite(e, p)
    /\ faults' = faults + Flag(\E i \in Ids : sk[e][i].why # "error" /\ sk'[e][i].why = "error")
    /\ UNCHANGED <<cut, opened, early>>

-----------------------------------------------------------------------------
\* The server is killed and started again: its sockets are gone and its ids
\* start over, while the daemon and what is in the pipes stay.
HostRestart ==
    /\ faults < MaxFaults /\ cut = {} /\ faults' = faults + 1
    /\ sk' = [sk EXCEPT !["host"] = [i \in Ids |-> None]]
    /\ nextId' = [nextId EXCEPT !["host"] = 1]
    /\ state' = [state EXCEPT !["host"] = "offline"]
    /\ wire' = [wire EXCEPT !["device"] = Append(@, Packet("CNXN", 0, 0, <<>>))]
    /\ UNCHANGED <<cut, opened, early>>

Unplug ==
    /\ faults < MaxFaults /\ cut = {} /\ faults' = faults + 1
    /\ cut' = Ends /\ wire' = [e \in Ends |-> <<>>]
    /\ UNCHANGED <<sk, state, nextId, opened, early>>

\* SYNC(0): handle_offline, and close_all_sockets for the sockets that have
\* no remote peer yet.  Once both ends are through, a new transport starts.
Offline_Slip(e) ==
    /\ e \in cut /\ cut' = cut \ {e}
    /\ sk' = [sk EXCEPT ![e] = Disconnected(sk[e])]
    /\ state' = [state EXCEPT ![e] = "offline"]
    /\ wire' = [wire EXCEPT !["device"] =
                    IF cut = {e} THEN <<Packet("CNXN", 0, 0, <<>>)>> ELSE @]
    /\ UNCHANGED <<nextId, opened, early, faults>>

Offline(e) ==
    /\ e \in cut /\ cut' = cut \ {e}
    /\ sk' = [sk EXCEPT ![e] = [i \in Ids |->
                  IF Listed(@[i]) THEN close_locked(@[i], "offline") ELSE @[i]]]
    /\ state' = [state EXCEPT ![e] = "offline"]
    /\ wire' = [wire EXCEPT !["device"] =
                    IF cut = {e} THEN <<Packet("CNXN", 0, 0, <<>>)>> ELSE @]
    /\ UNCHANGED <<nextId, opened, early, faults>>

Init ==
    /\ sk = [e \in Ends |-> [i \in Ids |-> None]]
    /\ wire = [host |-> <<>>, device |-> <<Packet("CNXN", 0, 0, <<>>)>>]
    /\ state = [e \in Ends |-> "offline"] /\ nextId = [e \in Ends |-> 1]
    /\ cut = {} /\ opened = 0 /\ early = {} /\ faults = 0

Next ==
    \/ Connect \/ HostRestart \/ Unplug
    \/ \E e \in Ends : HandlePacket(e) \/ Offline(e)
    \/ \E e \in Ends, i \in Ids : ReadEvent(e, i) \/ WriteEvent(e, i)

-----------------------------------------------------------------------------
\* What reaches a fd is what the other end of its own stream read, in order
\* and without a gap, whatever was restarted in between.  This and the next two
\* leave out streams that a server asked for on the strength of a CNXN meant
\* for one that was killed before it: their numbers can meet packets of that one.
DataInOrder ==
    \A e \in Ends, i \in Ids : sk[e][i].sid \notin early =>
        LET s == sk[e][i] IN s.out \o s.q = [n \in 1 .. Len(s.out \o s.q) |-> <<s.sid, n>>]

Alive(e, i, j) == /\ Listed(sk[e][i]) /\ sk[Other(e)][j].st = "open"
                  /\ sk[e][i].sid \notin early
                  /\ sk[e][i].sid = sk[Other(e)][j].sid
Count(e, c, id) == Cardinality({k \in DOMAIN wire[e] : wire[e][k].cmd = c /\ wire[e][k].arg1 = id})

\* One packet of data at a time: while both ends of a stream are open, either
\* the sender may read, or its packet is on the way, or it waits behind the
\* receiver's fd, or the OKAY for it is on the way, and only one of these.
OneInFlight ==
    \A e \in Ends, i, j \in Ids :
        Alive(e, i, j) /\ cut = {} /\ state["host"] = "online" =>
            Flag(sk[e][i].rd) + Count(Other(e), "WRTE", j) + Len(sk[Other(e)][j].q)
                + Count(e, "OKAY", i) = 1

\* A stream that one side ends after its data is delivered whole, unless the
\* other side had closed or lost its fd before.
EofDelivers ==
    \A e \in Ends, i, j \in Ids :
        LET s == sk[e][i]
            t == sk[Other(e)][j]
        IN  (s.sid = t.sid /\ s.sid \notin early /\ s.why = "eof" /\ t.why = "peer") => Len(t.out \o t.q) = s.sent

\* What may not last: a connection that is asked for and not answered, and a
\* stream that is closed at one end only, unless it is one of those left out above.
Waiting == \E i \in Ids : sk["host"][i].st = "connecting"
HalfOpen == \E e \in Ends, i, j \in Ids :
    /\ sk[e][i].st = "gone" /\ Listed(sk[Other(e)][j])
    /\ sk[e][i].sid = sk[Other(e)][j].sid /\ sk[e][i].sid \notin early

=============================================================================
