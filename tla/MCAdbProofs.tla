---------------------------- MODULE MCAdbProofs ----------------------------
(***************************************************************************)
(* Proofs for the adb daemon and its client, for every value of the        *)
(* bounds.  ThreadsSafe: the threads of a transport, of a socket pair and  *)
(* of a USB handle keep their packets, bytes and handles straight.         *)
(* RegistryTrue: the tables of the daemon (event descriptors, transports   *)
(* and listeners, debuggable processes) and the client's choice of a       *)
(* server agree with what they describe.                                   *)
(***************************************************************************)
EXTENDS MCAdb, SequenceTheorems, FiniteSetTheorems, NaturalsInduction,
        TLAPS

Packet == [cmd : {"SYNC", "data", "CNXN"}, arg0 : Int, arg1 : Int]

TransportInv ==
    /\ toMain \in Seq(Packet) /\ toIn \in Seq(Packet) /\ token \in Nat
    /\ Tra!StopOnce /\ Tra!RefsCounted

-----------------------------------------------------------------------------
\* The packets that cross the socket pair of a transport.
LEMMA PacketTypes ==
    /\ Tra!Data \in Packet /\ ~Tra!Stop(Tra!Data)
    /\ Tra!Cnxn \in Packet /\ ~Tra!Stop(Tra!Cnxn)
    /\ Tra!Sync(0, 0) \in Packet /\ Tra!Stop(Tra!Sync(0, 0))
    /\ \A k \in Nat : Tra!Sync(1, k) \in Packet /\ ~Tra!Stop(Tra!Sync(1, k))
<1>1. Tra!Data \in Packet /\ ~Tra!Stop(Tra!Data)
  BY DEF Packet, Tra!Data, Tra!Stop
<1>2. Tra!Cnxn \in Packet /\ ~Tra!Stop(Tra!Cnxn)
  BY DEF Packet, Tra!Cnxn, Tra!Stop
<1>3. \A k \in Nat : Tra!Sync(0, k) \in Packet /\ Tra!Stop(Tra!Sync(0, k))
  BY DEF Packet, Tra!Sync, Tra!Stop
<1>4. \A k \in Nat : Tra!Sync(1, k) \in Packet /\ ~Tra!Stop(Tra!Sync(1, k))
  BY DEF Packet, Tra!Sync, Tra!Stop
<1> QED BY <1>1, <1>2, <1>3, <1>4

\* Appending another packet keeps a queue without a stop, appending a stop
\* puts it last.
LEMMA StopAppended ==
    ASSUME NEW q \in Seq(Packet), Tra!NoStop(q), NEW p \in Packet
    PROVE  /\ ~Tra!Stop(p) => Tra!NoStop(Append(q, p))
           /\ Tra!Stop(p) => Tra!LastStop(Append(q, p))
<1> DEFINE a == Append(q, p)
<1>1. /\ Len(a) = Len(q) + 1 /\ a[Len(q) + 1] = p /\ a # <<>> /\ Len(q) \in Nat
      /\ \A i \in 1 .. Len(q) : a[i] = q[i]
  BY AppendProperties
<1> HIDE DEF a
<1>2. \A i \in 1 .. Len(a) : i \in 1 .. Len(q) \/ i = Len(q) + 1
  BY <1>1
<1>3. \A i \in 1 .. Len(q) : ~Tra!Stop(a[i]) /\ i # Len(a)
  BY <1>1 DEF Tra!NoStop
<1>4. ~Tra!Stop(p) => Tra!NoStop(a)
  BY <1>1, <1>2, <1>3 DEF Tra!NoStop
<1>5. Tra!Stop(p) => Tra!LastStop(a)
  BY <1>1, <1>2, <1>3 DEF Tra!LastStop
<1> QED BY <1>4, <1>5 DEF a

\* Taking the first packet off a queue.
LEMMA StopTaken ==
    ASSUME NEW q \in Seq(Packet), q # <<>>
    PROVE  /\ Head(q) \in Packet /\ Tail(q) \in Seq(Packet)
           /\ Tra!NoStop(q) => ~Tra!Stop(Head(q)) /\ Tra!NoStop(Tail(q))
           /\ Tra!LastStop(q) => IF Tra!Stop(Head(q)) THEN Tail(q) = <<>> ELSE Tra!LastStop(Tail(q))
<1> DEFINE t == Tail(q)
<1>1. /\ Head(q) \in Packet /\ t \in Seq(Packet) /\ Head(q) = q[1]
      /\ Len(t) = Len(q) - 1 /\ Len(q) \in Nat \ {0}
  BY HeadTailProperties, EmptySeq
<1>2. \A i \in 1 .. Len(t) : t[i] = q[i + 1] /\ i + 1 \in 1 .. Len(q)
  BY <1>1, HeadTailProperties
<1>3. t # <<>> => Len(t) \in Nat \ {0}
  BY <1>1, EmptySeq
<1>4. Len(t) # 0 => t # <<>>
  BY EmptySeq
<1> HIDE DEF t
<1>5. Tra!NoStop(q) => ~Tra!Stop(Head(q)) /\ Tra!NoStop(t)
  BY <1>1, <1>2 DEF Tra!NoStop
<1>6. ASSUME Tra!LastStop(q) PROVE IF Tra!Stop(Head(q)) THEN t = <<>> ELSE Tra!LastStop(t)
  <2>1. \A i \in 1 .. Len(q) : Tra!Stop(q[i]) <=> i = Len(q)
    BY <1>6 DEF Tra!LastStop
  <2>2. 1 \in 1 .. Len(q)
    BY <1>1
  <2>3. Tra!Stop(Head(q)) <=> 1 = Len(q)
    BY <1>1, <2>1, <2>2
  <2>4. CASE Len(q) = 1
    BY <1>1, <1>3, <2>3, <2>4
  <2>5. CASE Len(q) # 1
    <3>1. \A i \in 1 .. Len(t) : Tra!Stop(t[i]) <=> i + 1 = Len(q)
      BY <1>2, <2>1
    <3>2. Tra!LastStop(t)
      BY <1>1, <1>4, <2>5, <3>1 DEF Tra!LastStop
    <3> QED BY <2>3, <2>5, <3>2
  <2> QED BY <2>4, <2>5
<1> QED BY <1>1, <1>5, <1>6 DEF t

-----------------------------------------------------------------------------
\* Leaving one reference, as both threads do at their end: the last one closes
\* the device and posts the removal.
LEMMA Unreferenced ==
    ASSUME Tra!RefsCounted, Tra!StopOnce, Tra!Unref, UNCHANGED <<unregistered, freed>>,
           \/ outPc = "kick" /\ outPc' = "done" /\ UNCHANGED inPc
           \/ inPc = "kick" /\ inPc' = "done" /\ UNCHANGED outPc
    PROVE  Tra!RefsCounted'
BY DEF Tra!RefsCounted, Tra!Unref, Tra!remote_close, Tra!remove_transport

\* output_thread of transport.c.
LEMMA OutSafe ==
    ASSUME TransportInv, Tra!Out
    PROVE  TransportInv'
<1> USE DEF TransportInv
<1>1. CASE Tra!OutStart
  <2>1. /\ outPc = "start" /\ outPc' = "pump" /\ token' = token + 1
        /\ toMain' = Append(toMain, Tra!Sync(1, token + 1))
        /\ UNCHANGED <<toIn, inPc, mainPc, ref, tclosed, posted, freed, unregistered>>
    BY <1>1 DEF Tra!OutStart, Tra!write_packet
  <2>2. token + 1 \in Nat
    OBVIOUS
  <2>3. Tra!NoStop(toMain)
    BY <2>1 DEF Tra!StopOnce
  <2>4. toMain' \in Seq(Packet) /\ Tra!NoStop(toMain')
    BY <2>1, <2>2, <2>3, PacketTypes, StopAppended
  <2>5. Tra!StopOnce'
    BY <2>1, <2>4 DEF Tra!StopOnce, Tra!NoStop
  <2>6. Tra!RefsCounted'
    BY <2>1 DEF Tra!RefsCounted
  <2> QED BY <2>1, <2>2, <2>4, <2>5, <2>6
<1>2. CASE Tra!OutPump
  <2>1. /\ outPc = "pump"
        /\ UNCHANGED <<outPc, token, toIn, inPc, mainPc, ref, tclosed, posted, freed, unregistered>>
    BY <1>2 DEF Tra!OutPump
  <2>2. PICK p \in {Tra!Data, Tra!Cnxn} : toMain' = Append(toMain, p)
    BY <1>2 DEF Tra!OutPump, Tra!check, Tra!Garbled, Tra!write_packet
  <2>3. Tra!NoStop(toMain)
    BY <2>1 DEF Tra!StopOnce
  <2>4. toMain' \in Seq(Packet) /\ Tra!NoStop(toMain')
    BY <2>2, <2>3, PacketTypes, StopAppended
  <2>5. Tra!StopOnce'
    BY <2>1, <2>4 DEF Tra!StopOnce, Tra!NoStop
  <2>6. Tra!RefsCounted'
    BY <2>1 DEF Tra!RefsCounted
  <2> QED BY <2>1, <2>4, <2>5, <2>6
<1>3. CASE Tra!OutStop
  <2>1. /\ outPc = "pump" /\ outPc' = "kick" /\ toMain' = Append(toMain, Tra!Sync(0, 0))
        /\ UNCHANGED <<token, toIn, inPc, mainPc, ref, tclosed, posted, freed, unregistered>>
    BY <1>3 DEF Tra!OutStop, Tra!write_packet
  <2>3. /\ Tra!NoStop(toMain) /\ Tra!NoStop(toIn)
        /\ mainPc \in {"idle", "walk"} /\ inPc = "loop"
    BY <2>1 DEF Tra!StopOnce
  <2>4. toMain' \in Seq(Packet) /\ Tra!LastStop(toMain')
    BY <2>1, <2>3, PacketTypes, StopAppended
  <2>5. Tra!StopOnce'
    BY <2>1, <2>3, <2>4 DEF Tra!StopOnce, Tra!NoStop
  <2>6. Tra!RefsCounted'
    BY <2>1 DEF Tra!RefsCounted
  <2> QED BY <2>1, <2>4, <2>5, <2>6
<1>4. CASE Tra!OutExit
  <2>1. /\ outPc = "pump" /\ outPc' = "exit"
        /\ UNCHANGED <<token, toMain, toIn, inPc, mainPc, ref, tclosed, posted, freed, unregistered>>
    BY <1>4 DEF Tra!OutExit
  <2> QED BY <2>1 DEF Tra!StopOnce, Tra!NoStop, Tra!RefsCounted
<1>5. CASE Tra!OutLeave
  <2>1. /\ outPc = "kick" /\ outPc' = "done" /\ Tra!Unref
        /\ UNCHANGED <<token, toMain, toIn, inPc, mainPc, freed, unregistered>>
    BY <1>5 DEF Tra!OutLeave
  <2>2. Tra!RefsCounted'
    BY <2>1, Unreferenced
  <2>3. Tra!StopOnce'
    BY <2>1 DEF Tra!StopOnce, Tra!NoStop, Tra!LastStop
  <2> QED BY <2>1, <2>2, <2>3
<1> QED BY <1>1, <1>2, <1>3, <1>4, <1>5 DEF Tra!Out

\* input_thread of transport.c.
LEMMA InSafe ==
    ASSUME TransportInv, Tra!In
    PROVE  TransportInv'
<1> USE DEF TransportInv
<1>1. CASE Tra!InRead
  <2>1. /\ inPc = "loop" /\ toIn # <<>> /\ toIn' = Tail(toIn)
        /\ inPc' = IF Tra!Stop(Head(toIn)) THEN "closeall" ELSE "loop"
        /\ UNCHANGED <<token, toMain, outPc, mainPc, ref, tclosed, posted, freed, unregistered>>
    BY <1>1 DEF Tra!InRead, Tra!read_packet, Tra!Stop
  <2>2. /\ toIn' \in Seq(Packet)
        /\ Tra!NoStop(toIn) => ~Tra!Stop(Head(toIn)) /\ Tra!NoStop(toIn')
        /\ Tra!LastStop(toIn) => Tra!Stop(Head(toIn)) \/ Tra!LastStop(toIn')
    BY <2>1, StopTaken
  <2>3. Tra!StopOnce'
    BY <2>1, <2>2 DEF Tra!StopOnce, Tra!NoStop, Tra!LastStop
  <2>4. Tra!RefsCounted'
    BY <2>1 DEF Tra!RefsCounted
  <2> QED BY <2>1, <2>2, <2>3, <2>4
<1>2. CASE Tra!InCloseAll
  <2>1. /\ inPc = "closeall" /\ inPc' \in {"closeall", "kick"}
        /\ UNCHANGED <<token, toMain, toIn, outPc, mainPc, ref, tclosed, posted, freed, unregistered>>
    BY <1>2 DEF Tra!InCloseAll
  <2>2. Tra!StopOnce'
    BY <2>1 DEF Tra!StopOnce
  <2>3. Tra!RefsCounted'
    BY <2>1 DEF Tra!RefsCounted
  <2> QED BY <2>1, <2>2, <2>3
<1>3. CASE Tra!InLeave
  <2>1. /\ inPc = "kick" /\ inPc' = "done" /\ Tra!Unref
        /\ UNCHANGED <<token, toMain, toIn, outPc, mainPc, freed, unregistered>>
    BY <1>3 DEF Tra!InLeave
  <2>2. Tra!RefsCounted'
    BY <2>1, Unreferenced
  <2>3. Tra!StopOnce'
    BY <2>1 DEF Tra!StopOnce
  <2> QED BY <2>1, <2>2, <2>3
<1> QED BY <1>1, <1>2, <1>3 DEF Tra!In

\* transport_socket_events and handle_packet in the main thread.
LEMMA MainPacketSafe ==
    ASSUME TransportInv, Tra!MainPacket
    PROVE  TransportInv'
<1> USE DEF TransportInv
<1>1. /\ mainPc = "idle" /\ toMain # <<>> /\ toMain' = Tail(toMain)
      /\ UNCHANGED <<token, outPc, inPc, ref, tclosed, posted, freed, unregistered>>
  BY DEF Tra!MainPacket, Tra!read_packet
<1>2. /\ Head(toMain) \in Packet /\ toMain' \in Seq(Packet)
      /\ Tra!NoStop(toMain) => ~Tra!Stop(Head(toMain)) /\ Tra!NoStop(toMain')
      /\ Tra!LastStop(toMain) => IF Tra!Stop(Head(toMain)) THEN toMain' = <<>> ELSE Tra!LastStop(toMain')
  BY <1>1, StopTaken
<1>3. Tra!RefsCounted'
  BY <1>1 DEF Tra!RefsCounted
<1>4. Tra!NoStop(toIn) /\ inPc = "loop" /\ (Tra!NoStop(toMain) \/ Tra!LastStop(toMain))
  BY <1>1 DEF Tra!StopOnce
<1>5. CASE Tra!Stop(Head(toMain))
  <2>1. mainPc' = "offwalk" /\ UNCHANGED toIn
    BY <1>5 DEF Tra!MainPacket, Tra!Stop, Tra!GoOffline
  <2>2. outPc \in {"kick", "done"} /\ toMain' = <<>>
    BY <1>1, <1>2, <1>5 DEF Tra!StopOnce
  <2>3. Tra!StopOnce'
    BY <1>1, <1>4, <2>1, <2>2 DEF Tra!StopOnce, Tra!NoStop
  <2> QED BY <1>1, <1>2, <1>3, <2>1, <2>3
<1>6. CASE ~Tra!Stop(Head(toMain))
  <2>1. \/ mainPc' = "idle" /\ toIn' = toIn \o <<Head(toMain), Tra!Cnxn>>
        \/ mainPc' \in {"idle", "walk"} /\ toIn' = toIn
        \/ mainPc' = "idle" /\ toIn' = Append(toIn, Tra!Data)
    BY <1>1, <1>6 DEF Tra!MainPacket, Tra!Stop, Tra!write_packet
  <2>2. toIn \o <<Head(toMain), Tra!Cnxn>> = Append(Append(toIn, Head(toMain)), Tra!Cnxn)
    BY <1>2, PacketTypes
  <2>3. Append(toIn, Head(toMain)) \in Seq(Packet) /\ Tra!NoStop(Append(toIn, Head(toMain)))
    BY <1>2, <1>4, <1>6, StopAppended
  <2>4. toIn' \in Seq(Packet) /\ Tra!NoStop(toIn') /\ mainPc' \in {"idle", "walk"}
    <3>1. /\ Append(toIn, Tra!Data) \in Seq(Packet) /\ Tra!NoStop(Append(toIn, Tra!Data))
          /\ Append(Append(toIn, Head(toMain)), Tra!Cnxn) \in Seq(Packet)
          /\ Tra!NoStop(Append(Append(toIn, Head(toMain)), Tra!Cnxn))
      <4>1. Append(toIn, Tra!Data) \in Seq(Packet) /\ Tra!NoStop(Append(toIn, Tra!Data))
        BY <1>4, PacketTypes, StopAppended
      <4>2. Tra!NoStop(Append(Append(toIn, Head(toMain)), Tra!Cnxn))
        BY <2>3, PacketTypes, StopAppended
      <4>3. Append(Append(toIn, Head(toMain)), Tra!Cnxn) \in Seq(Packet)
        BY <2>3, PacketTypes
      <4> QED BY <4>1, <4>2, <4>3
    <3> QED BY <1>4, <2>1, <2>2, <3>1
  <2>5. Tra!StopOnce'
    BY <1>1, <1>2, <1>6, <2>4 DEF Tra!StopOnce, Tra!NoStop, Tra!LastStop
  <2> QED BY <1>1, <1>2, <1>3, <2>4, <2>5
<1> QED BY <1>5, <1>6

\* The other steps of the main thread, "adb disconnect" and the remote end.
LEMMA MainSafe ==
    ASSUME TransportInv, Tra!MainWalk \/ Tra!MainRemove \/ Tra!Unregister \/ Tra!Unplugged
    PROVE  TransportInv'
<1> USE DEF TransportInv
<1>1. CASE Tra!MainWalk
  <2>1. /\ mainPc \in {"walk", "offwalk"}
        /\ UNCHANGED <<token, toMain, outPc, inPc, ref, tclosed, posted, freed, unregistered>>
        /\ \/ UNCHANGED <<mainPc, toIn>>
           \/ mainPc = "walk" /\ mainPc' = "idle" /\ UNCHANGED toIn
           \/ mainPc = "offwalk" /\ mainPc' = "idle" /\ toIn' = Append(toIn, Tra!Sync(0, 0))
    BY <1>1 DEF Tra!MainWalk, Tra!write_packet
  <2>2. Tra!NoStop(toIn)
    BY <2>1 DEF Tra!StopOnce
  <2>3. Tra!LastStop(Append(toIn, Tra!Sync(0, 0))) /\ Append(toIn, Tra!Sync(0, 0)) \in Seq(Packet)
    BY <2>2, PacketTypes, StopAppended
  <2>4. Tra!StopOnce'
    BY <2>1, <2>3 DEF Tra!StopOnce, Tra!NoStop, Tra!LastStop
  <2>5. Tra!RefsCounted'
    BY <2>1 DEF Tra!RefsCounted
  <2> QED BY <2>1, <2>3, <2>4, <2>5
<1>2. CASE Tra!MainRemove
  <2>1. /\ posted > 0 /\ ~freed /\ freed' = TRUE /\ posted' = posted - 1
        /\ UNCHANGED <<token, toMain, toIn, outPc, inPc, mainPc, ref, tclosed, unregistered>>
    BY <1>2 DEF Tra!MainRemove
  <2>2. Tra!StopOnce'
    BY <2>1 DEF Tra!StopOnce, Tra!NoStop, Tra!LastStop
  <2>3. Tra!RefsCounted'
    BY <2>1 DEF Tra!RefsCounted
  <2> QED BY <2>1, <2>2, <2>3
<1>3. CASE Tra!Unregister
  <2>1. /\ unregistered' = TRUE
        /\ UNCHANGED <<token, toMain, toIn, outPc, inPc, mainPc>>
    BY <1>3 DEF Tra!Unregister
  <2>2. Tra!StopOnce'
    BY <2>1 DEF Tra!StopOnce, Tra!NoStop, Tra!LastStop
  <2> QED BY <2>1, <2>2 DEF Tra!RefsCounted
<1>4. CASE Tra!Unplugged
  <2>1. UNCHANGED <<token, toMain, toIn, outPc, inPc, mainPc, ref, tclosed, posted, freed, unregistered>>
    BY <1>4 DEF Tra!Unplugged
  <2> QED BY <2>1 DEF Tra!StopOnce, Tra!NoStop, Tra!LastStop, Tra!RefsCounted
<1> QED BY <1>1, <1>2, <1>3, <1>4

\* The state of a transport, step by step.
LEMMA TransportSafe ==
    ASSUME TransportInv, [Tra!Next]_tra
    PROVE  TransportInv'
<1>1. CASE UNCHANGED tra
  BY <1>1 DEF tra, TransportInv, Tra!StopOnce, Tra!NoStop, Tra!LastStop, Tra!RefsCounted
<1> QED BY <1>1, OutSafe, InSafe, MainPacketSafe, MainSafe DEF Tra!Next, Tra!Main

\* The main thread and the input thread never walk through the sockets at the
\* same time, and the transport is closed once, after both threads.
LEMMA TransportRight ==
    ASSUME TransportInv
    PROVE  Tra!OneCloser /\ Tra!FreedLast
BY DEF TransportInv, Tra!StopOnce, Tra!RefsCounted, Tra!OneCloser, Tra!FreedLast

-----------------------------------------------------------------------------
Transfer == {"idle", "sent", "done", "error", "ok", "bad"}
Handle ==
    [listed : BOOLEAN, dead : BOOLEAN, mark : BOOLEAN,
     rd : {"none", "read", "unlocked", "reaping", "interrupted", "leave", "gone"},
     wr : {"none", "write", "wait", "leave", "gone"},
     urb_in : Transfer, urb_out : Transfer, out_busy : BOOLEAN, reaper : BOOLEAN,
     note : BOOLEAN, refs : Int, freed : BOOLEAN, done : Int]

\* One handle: its references are its threads, and a writer that waits for
\* nothing has been woken.
HandleOk(r) ==
    /\ r \in Handle /\ Usb!Counted(r)
    /\ r.wr = "wait" /\ ~r.out_busy => r.note

UsbInv ==
    /\ h = [i \in 1 .. MaxPlugs |-> h[i]]
    /\ \A i \in 1 .. MaxPlugs : HandleOk(h[i])

\* The steps that change one handle.
LEMMA OneHandle ==
    ASSUME UsbInv, NEW i \in 1 .. MaxPlugs, NEW r, HandleOk(r), Usb!Set(i, r)
    PROVE  UsbInv'
<1>1. h' = [h EXCEPT ![i] = r]
  BY DEF Usb!Set
<1>2. h' = [j \in 1 .. MaxPlugs |-> h'[j]]
  BY <1>1 DEF UsbInv
<1>3. \A j \in 1 .. MaxPlugs : h'[j] = IF j = i THEN r ELSE h[j]
  BY <1>1 DEF UsbInv
<1> QED BY <1>2, <1>3 DEF UsbInv

\* usb_kick wakes the writer and gets the reader out of the kernel; nobody
\* loses his reference by it.
LEMMA KickedOk ==
    ASSUME NEW r, HandleOk(r)
    PROVE  /\ HandleOk(Usb!Kicked(r))
           /\ Usb!Kicked(r).refs = r.refs
           /\ Usb!Kicked(r).wr = r.wr
           /\ Usb!Kicked(r).rd = IF r.rd = "reaping" /\ ~r.dead THEN "interrupted" ELSE r.rd
<1>1. CASE r.dead
  BY <1>1 DEF Usb!Kicked, HandleOk, Handle
<1>2. CASE ~r.dead
  <2> DEFINE k == Usb!Kicked(r)
             x == IF r.rd = "reaping" THEN "interrupted" ELSE r.rd
             y == IF r.urb_in = "sent" THEN "error" ELSE r.urb_in
             z == IF r.urb_out = "sent" THEN "error" ELSE r.urb_out
  <2>1. k = [r EXCEPT !.dead = TRUE, !.rd = x, !.urb_in = y, !.urb_out = z,
                      !.out_busy = FALSE, !.note = TRUE]
    BY <1>2 DEF Usb!Kicked
  <2>2. r \in Handle
    BY DEF HandleOk
  <2>6. x \in {"none", "read", "unlocked", "interrupted", "leave", "gone"}
    BY <2>2 DEF Handle
  <2>7. y \in Transfer /\ z \in Transfer
    BY <2>2 DEF Handle, Transfer
  <2>8. x = IF r.rd = "reaping" THEN "interrupted" ELSE r.rd
    OBVIOUS
  <2> HIDE DEF k, x, y, z
  <2>3. /\ k \in Handle
        /\ k.refs = r.refs /\ k.wr = r.wr /\ k.listed = r.listed /\ k.freed = r.freed
        /\ k.note = TRUE /\ k.rd = x
    BY <2>1, <2>2, <2>6, <2>7 DEF Handle
  <2>4. Usb!Counted(k)
    BY <2>3, <2>8 DEF HandleOk, Usb!Counted
  <2> QED BY <1>2, <2>3, <2>4, <2>8 DEF HandleOk, k
<1> QED BY <1>1, <1>2

\* The end of a transport's thread: the last one takes the handle off the list
\* and frees it.
LEMMA LeaveOk ==
    ASSUME UsbInv, NEW i \in 1 .. MaxPlugs, NEW who \in {"rd", "wr"}, Usb!Leave(i, who)
    PROVE  UsbInv'
<1> DEFINE k == Usb!Kicked(h[i])
           d == k.refs - 1
           r == [k EXCEPT ![who] = "gone", !.refs = d]
           s == IF r.refs = 0 THEN [r EXCEPT !.listed = FALSE, !.freed = TRUE] ELSE r
<1>1. h[i][who] = "leave" /\ Usb!Set(i, s)
  BY DEF Usb!Leave
<1>2. HandleOk(h[i])
  BY DEF UsbInv
<1>3. /\ HandleOk(k) /\ k.refs = h[i].refs /\ k.wr = h[i].wr
      /\ k.rd = IF h[i].rd = "reaping" /\ ~h[i].dead THEN "interrupted" ELSE h[i].rd
  BY <1>2, KickedOk
<1>6. d \in Int /\ d = k.refs - 1 /\ k \in Handle
  BY <1>3 DEF HandleOk, Handle
<1> HIDE DEF k, d
<1>4. CASE who = "rd"
  <2>1. k.rd = "leave"
    BY <1>1, <1>3, <1>4
  <2>2. r = [k EXCEPT !.rd = "gone", !.refs = d]
    BY <1>4
  <2> HIDE DEF r
  <2>3. /\ r \in Handle /\ r.rd = "gone" /\ r.wr = k.wr /\ r.refs = d
        /\ r.listed = k.listed /\ r.freed = k.freed /\ r.out_busy = k.out_busy /\ r.note = k.note
    BY <1>6, <2>2 DEF Handle
  <2>4. CASE r.refs = 0
    <3>1. /\ s \in Handle /\ s.rd = "gone" /\ s.wr = k.wr /\ s.refs = 0
          /\ s.listed = FALSE /\ s.freed = TRUE
      BY <2>3, <2>4 DEF Handle
    <3>2. s.wr = "gone"
      BY <1>3, <1>6, <2>1, <2>3, <2>4, <3>1 DEF HandleOk, Usb!Counted
    <3> HIDE DEF s
    <3>3. HandleOk(s)
      BY <3>1, <3>2 DEF HandleOk, Usb!Counted
    <3> QED BY <1>1, <3>3, OneHandle
  <2>5. CASE r.refs # 0
    <3>1. Usb!Counted(r)
      BY <1>3, <1>6, <2>1, <2>3, <2>5 DEF HandleOk, Usb!Counted
    <3>2. HandleOk(r)
      BY <1>3, <2>3, <3>1 DEF HandleOk
    <3> QED BY <1>1, <2>5, <3>2, OneHandle
  <2> QED BY <2>4, <2>5
<1>5. CASE who = "wr"
  <2>1. k.wr = "leave"
    BY <1>1, <1>3, <1>5
  <2>2. r = [k EXCEPT !.wr = "gone", !.refs = d]
    BY <1>5
  <2> HIDE DEF r
  <2>3. /\ r \in Handle /\ r.wr = "gone" /\ r.rd = k.rd /\ r.refs = d
        /\ r.listed = k.listed /\ r.freed = k.freed
    BY <1>6, <2>2 DEF Handle
  <2>4. CASE r.refs = 0
    <3>1. /\ s \in Handle /\ s.wr = "gone" /\ s.rd = k.rd /\ s.refs = 0
          /\ s.listed = FALSE /\ s.freed = TRUE
      BY <2>3, <2>4 DEF Handle
    <3>2. s.rd = "gone"
      BY <1>3, <1>6, <2>1, <2>3, <2>4, <3>1 DEF HandleOk, Usb!Counted
    <3> HIDE DEF s
    <3>3. HandleOk(s)
      BY <3>1, <3>2 DEF HandleOk, Usb!Counted
    <3> QED BY <1>1, <3>3, OneHandle
  <2>5. CASE r.refs # 0
    <3>1. Usb!Counted(r)
      BY <1>3, <1>6, <2>1, <2>3, <2>5 DEF HandleOk, Usb!Counted
    <3>2. HandleOk(r)
      BY <2>3, <3>1 DEF HandleOk
    <3> QED BY <1>1, <2>5, <3>2, OneHandle
  <2> QED BY <2>4, <2>5
<1> QED BY <1>4, <1>5

\* A step of a thread that goes on, or that is about to leave: it changes
\* neither the list nor the references, and wakes a writer it robs of his
\* transfer.
LEMMA GoesOn ==
    ASSUME UsbInv, NEW i \in 1 .. MaxPlugs, NEW r \in Handle, Usb!Set(i, r),
           h[i].rd \notin {"none", "gone"} \/ r.rd = h[i].rd,
           h[i].wr \notin {"none", "gone"} \/ r.wr = h[i].wr,
           r.rd \notin {"none", "gone"} \/ r.rd = h[i].rd,
           r.wr \notin {"none", "gone"} \/ r.wr = h[i].wr,
           r.refs = h[i].refs, r.listed = h[i].listed, r.freed = h[i].freed,
           r.wr = "wait" /\ ~r.out_busy => r.note
    PROVE  UsbInv'
<1>1. HandleOk(h[i])
  BY DEF UsbInv
<1>2. Usb!Counted(r)
  BY <1>1 DEF HandleOk, Usb!Counted
<1> QED BY <1>2, OneHandle DEF HandleOk

\* usb_bulk_read in the thread that reads.
LEMMA ReadingOk ==
    ASSUME UsbInv, NEW i \in 1 .. MaxPlugs, Usb!Reading(i)
    PROVE  UsbInv'
<1>0. HandleOk(h[i]) /\ h[i] \in Handle
  BY DEF UsbInv, HandleOk
<1>1. CASE Usb!ReadSubmit(i)
  <2> DEFINE r == IF h[i].dead THEN [h[i] EXCEPT !.rd = "leave"]
                  ELSE IF plugged # i THEN [h[i] EXCEPT !.rd = "leave"]
                  ELSE [h[i] EXCEPT !.rd = "unlocked", !.urb_in = "sent", !.reaper = TRUE]
  <2>1. h[i].rd = "read" /\ Usb!Set(i, r)
    BY <1>1 DEF Usb!ReadSubmit
  <2>2. /\ r \in Handle /\ r.rd \in {"leave", "unlocked"} /\ r.wr = h[i].wr /\ r.refs = h[i].refs
        /\ r.listed = h[i].listed /\ r.freed = h[i].freed /\ r.out_busy = h[i].out_busy
        /\ r.note = h[i].note
    BY <1>0 DEF Handle, Transfer
  <2> HIDE DEF r
  <2> QED BY <1>0, <2>1, <2>2, GoesOn DEF HandleOk
<1>2. CASE Usb!ReapEnter(i)
  <2> DEFINE r == [h[i] EXCEPT !.rd = "reaping"]
  <2>1. h[i].rd = "unlocked" /\ Usb!Set(i, r)
    BY <1>2 DEF Usb!ReapEnter
  <2>2. /\ r \in Handle /\ r.rd = "reaping" /\ r.wr = h[i].wr /\ r.refs = h[i].refs
        /\ r.listed = h[i].listed /\ r.freed = h[i].freed /\ r.out_busy = h[i].out_busy
        /\ r.note = h[i].note
    BY <1>0 DEF Handle
  <2> HIDE DEF r
  <2> QED BY <1>0, <2>1, <2>2, GoesOn DEF HandleOk
<1>3. CASE Usb!Reap(i)
  <2> DEFINE r == [h[i] EXCEPT !.reaper = FALSE, !.urb_in = "idle",
                        !.rd = IF h[i].dead \/ h[i].urb_in = "error" THEN "leave" ELSE "read"]
             s == [h[i] EXCEPT !.reaper = FALSE, !.rd = "leave", !.urb_out = "idle"]
             t == [h[i] EXCEPT !.rd = "unlocked", !.urb_out = IF @ = "done" THEN "ok" ELSE "bad",
                                      !.out_busy = FALSE, !.note = TRUE]
  <2>1. /\ h[i].rd = "reaping"
        /\ Usb!Set(i, r) \/ Usb!Set(i, s) \/ Usb!Set(i, t)
    BY <1>3 DEF Usb!Reap
  <2>2. /\ r \in Handle /\ r.rd \in {"leave", "read"} /\ r.wr = h[i].wr /\ r.refs = h[i].refs
        /\ r.listed = h[i].listed /\ r.freed = h[i].freed /\ r.out_busy = h[i].out_busy
        /\ r.note = h[i].note
    BY <1>0 DEF Handle, Transfer
  <2>3. /\ s \in Handle /\ s.rd = "leave" /\ s.wr = h[i].wr /\ s.refs = h[i].refs
        /\ s.listed = h[i].listed /\ s.freed = h[i].freed /\ s.out_busy = h[i].out_busy
        /\ s.note = h[i].note
    BY <1>0 DEF Handle, Transfer
  <2>4. /\ t \in Handle /\ t.rd = "unlocked" /\ t.wr = h[i].wr /\ t.refs = h[i].refs
        /\ t.listed = h[i].listed /\ t.freed = h[i].freed /\ t.note = TRUE
    BY <1>0 DEF Handle, Transfer
  <2> HIDE DEF r, s, t
  <2>5. CASE Usb!Set(i, r)
    BY <1>0, <2>1, <2>2, <2>5, GoesOn DEF HandleOk
  <2>6. CASE Usb!Set(i, s)
    BY <1>0, <2>1, <2>3, <2>6, GoesOn DEF HandleOk
  <2>7. CASE Usb!Set(i, t)
    BY <1>0, <2>1, <2>4, <2>7, GoesOn DEF HandleOk
  <2> QED BY <2>1, <2>5, <2>6, <2>7
<1>4. CASE Usb!Interrupted(i)
  <2> DEFINE r == [h[i] EXCEPT !.reaper = FALSE, !.rd = IF h[i].dead THEN "leave" ELSE "unlocked"]
  <2>1. h[i].rd = "interrupted" /\ Usb!Set(i, r)
    BY <1>4 DEF Usb!Interrupted
  <2>2. /\ r \in Handle /\ r.rd \in {"leave", "unlocked"} /\ r.wr = h[i].wr /\ r.refs = h[i].refs
        /\ r.listed = h[i].listed /\ r.freed = h[i].freed /\ r.out_busy = h[i].out_busy
        /\ r.note = h[i].note
    BY <1>0 DEF Handle
  <2> HIDE DEF r
  <2> QED BY <1>0, <2>1, <2>2, GoesOn DEF HandleOk
<1>5. CASE Usb!Leave(i, "rd")
  BY <1>5, LeaveOk
<1> QED BY <1>1, <1>2, <1>3, <1>4, <1>5 DEF Usb!Reading

\* usb_bulk_write in the thread that writes.
LEMMA WritingOk ==
    ASSUME UsbInv, NEW i \in 1 .. MaxPlugs, Usb!Writing(i)
    PROVE  UsbInv'
<1>0. HandleOk(h[i]) /\ h[i] \in Handle
  BY DEF UsbInv, HandleOk
<1>1. CASE Usb!WriteSubmit(i)
  <2> DEFINE r == [h[i] EXCEPT !.wr = "wait", !.urb_out = "sent", !.out_busy = TRUE, !.note = FALSE]
  <2>1. h[i].wr = "write" /\ Usb!Set(i, r)
    BY <1>1 DEF Usb!WriteSubmit
  <2>2. /\ r \in Handle /\ r.wr = "wait" /\ r.out_busy
        /\ r.rd = h[i].rd /\ r.refs = h[i].refs
        /\ r.listed = h[i].listed /\ r.freed = h[i].freed
    BY <1>0 DEF Handle, Transfer
  <2> HIDE DEF r
  <2> QED BY <1>0, <2>1, <2>2, GoesOn DEF HandleOk
<1>2. CASE Usb!WriteWoken(i)
  <2> DEFINE r == [h[i] EXCEPT !.note = FALSE,
                  !.wr = IF ~h[i].dead /\ h[i].out_busy THEN "wait" ELSE "write",
                  !.urb_out = IF @ \in {"ok", "bad"} THEN "idle" ELSE @]
  <2>1. h[i].wr = "wait" /\ Usb!Set(i, r)
    BY <1>2 DEF Usb!WriteWoken
  <2>2. /\ r \in Handle /\ (r.wr = "write" \/ (r.wr = "wait" /\ r.out_busy))
        /\ r.rd = h[i].rd /\ r.refs = h[i].refs
        /\ r.listed = h[i].listed /\ r.freed = h[i].freed
    BY <1>0 DEF Handle, Transfer
  <2> HIDE DEF r
  <2> QED BY <1>0, <2>1, <2>2, GoesOn DEF HandleOk
<1>3. CASE Usb!WriterTold(i)
  <2> DEFINE r == [h[i] EXCEPT !.wr = "leave"]
  <2>1. h[i].wr = "write" /\ Usb!Set(i, r)
    BY <1>3 DEF Usb!WriterTold
  <2>2. /\ r \in Handle /\ r.wr = "leave" /\ r.rd = h[i].rd /\ r.refs = h[i].refs
        /\ r.listed = h[i].listed /\ r.freed = h[i].freed
    BY <1>0 DEF Handle
  <2> HIDE DEF r
  <2> QED BY <1>0, <2>1, <2>2, GoesOn DEF HandleOk
<1>4. CASE Usb!Leave(i, "wr")
  BY <1>4, LeaveOk
<1> QED BY <1>1, <1>2, <1>3, <1>4 DEF Usb!Writing

\* The device: a transfer is completed, a device comes and goes.
LEMMA DeviceOk ==
    ASSUME UsbInv,
           \/ Usb!PlugIn \/ Usb!Unplug
           \/ \E i \in 1 .. MaxPlugs : Usb!Complete(i, "urb_in") \/ Usb!Complete(i, "urb_out")
    PROVE  UsbInv'
<1>1. CASE Usb!PlugIn
  BY <1>1 DEF Usb!PlugIn, UsbInv
<1>2. ASSUME NEW i \in 1 .. MaxPlugs, Usb!Complete(i, "urb_in") \/ Usb!Complete(i, "urb_out")
      PROVE  UsbInv'
  <2> DEFINE d == h[i].done + 1
             r == [h[i] EXCEPT !.urb_in = "done", !.done = d]
             s == [h[i] EXCEPT !.urb_out = "done", !.done = d]
  <2>0. HandleOk(h[i]) /\ h[i] \in Handle
    BY DEF UsbInv, HandleOk
  <2>1. Usb!Set(i, r) \/ Usb!Set(i, s)
    BY <1>2 DEF Usb!Complete
  <2>9. d \in Int
    BY <2>0 DEF Handle
  <2> HIDE DEF d
  <2>2. /\ r \in Handle /\ r.rd = h[i].rd /\ r.wr = h[i].wr /\ r.refs = h[i].refs
        /\ r.listed = h[i].listed /\ r.freed = h[i].freed /\ r.out_busy = h[i].out_busy
        /\ r.note = h[i].note
    BY <2>0, <2>9 DEF Handle, Transfer
  <2>3. /\ s \in Handle /\ s.rd = h[i].rd /\ s.wr = h[i].wr /\ s.refs = h[i].refs
        /\ s.listed = h[i].listed /\ s.freed = h[i].freed /\ s.out_busy = h[i].out_busy
        /\ s.note = h[i].note
    BY <2>0, <2>9 DEF Handle, Transfer
  <2> HIDE DEF r, s
  <2>4. CASE Usb!Set(i, r)
    BY <2>0, <2>1, <2>2, <2>4, GoesOn DEF HandleOk
  <2>5. CASE Usb!Set(i, s)
    BY <2>0, <2>1, <2>3, <2>5, GoesOn DEF HandleOk
  <2> QED BY <2>1, <2>4, <2>5
<1>3. CASE Usb!Unplug
  <2>1. PICK urbs \in SUBSET {"in", "out"} :
          h' = [h EXCEPT ![plugged].urb_in = IF @ = "sent" /\ "in" \in urbs THEN "error" ELSE @,
                         ![plugged].urb_out = IF @ = "sent" /\ "out" \in urbs THEN "error" ELSE @]
    BY <1>3 DEF Usb!Unplug
  <2>2. h' = [i \in 1 .. MaxPlugs |-> h'[i]]
    BY <1>3, <2>1 DEF UsbInv, Usb!Unplug
  <2>3. \A i \in 1 .. MaxPlugs : i # plugged => h'[i] = h[i]
    BY <2>1 DEF UsbInv
  <2>4. ASSUME plugged \in 1 .. MaxPlugs PROVE HandleOk(h'[plugged])
    <3> DEFINE r == h[plugged]
               s == h'[plugged]
    <3>0. HandleOk(r) /\ r \in Handle
      BY <2>4 DEF UsbInv, HandleOk
    <3>1. s = [r EXCEPT !.urb_in = IF @ = "sent" /\ "in" \in urbs THEN "error" ELSE @,
                        !.urb_out = IF @ = "sent" /\ "out" \in urbs THEN "error" ELSE @]
      BY <2>1, <2>4 DEF UsbInv
    <3> HIDE DEF r, s
    <3>2. /\ s \in Handle /\ s.rd = r.rd /\ s.wr = r.wr /\ s.refs = r.refs
          /\ s.listed = r.listed /\ s.freed = r.freed /\ s.out_busy = r.out_busy
          /\ s.note = r.note
      BY <3>0, <3>1 DEF Handle, Transfer
    <3>3. HandleOk(s)
      BY <3>0, <3>2 DEF HandleOk, Usb!Counted
    <3> QED BY <3>3 DEF s
  <2>5. \A i \in 1 .. MaxPlugs : HandleOk(h'[i])
    BY <2>3, <2>4 DEF UsbInv
  <2> QED BY <2>2, <2>5 DEF UsbInv
<1> QED BY <1>1, <1>2, <1>3

\* The thread that scans for devices.
LEMMA PollOk ==
    ASSUME UsbInv, Usb!Poll
    PROVE  UsbInv'
<1>1. CASE Usb!Scan
  <2>1. /\ h' = [i \in 1 .. MaxPlugs |->
                IF plugged # i THEN h[i]
                ELSE IF h[i].listed THEN [h[i] EXCEPT !.mark = TRUE]
                ELSE IF h[i].freed THEN h[i]
                ELSE Usb!register_device]
       
    BY <1>1 DEF Usb!Scan, Usb!Devices
  <2>2. HandleOk(Usb!register_device)
    <3> DEFINE r == Usb!register_device
    <3>1. /\ r \in Handle
          /\ r.rd = "read" /\ r.wr = "write" /\ r.refs = 2 /\ r.listed /\ ~r.freed
      <4> DEFINE n0 == Usb!NoHandle
                 n1 == [n0 EXCEPT !.listed = TRUE, !.mark = TRUE]
                 n2 == [n1 EXCEPT !.rd = "read", !.wr = "write"]
      <4>1. n0 \in Handle /\ ~n0.freed
        BY DEF Usb!NoHandle, Handle, Transfer
      <4>2. r = [n2 EXCEPT !.refs = 2]
        BY DEF Usb!register_device
      <4> HIDE DEF n0, r
      <4>3. n1 \in Handle /\ n1.listed = TRUE /\ n1.freed = n0.freed
        BY <4>1 DEF Handle
      <4> HIDE DEF n1
      <4>4. n2 \in Handle /\ n2.listed = n1.listed /\ n2.freed = n1.freed /\ n2.rd = "read" /\ n2.wr = "write"
        BY <4>3 DEF Handle
      <4> HIDE DEF n2
      <4>5. /\ r \in Handle /\ r.listed = n2.listed /\ r.freed = n2.freed /\ r.rd = n2.rd
            /\ r.wr = n2.wr /\ r.refs = 2
        BY <4>2, <4>4 DEF Handle
      <4> QED BY <4>1, <4>3, <4>4, <4>5
    <3> HIDE DEF r
    <3>3. Usb!Counted(r) /\ r.wr # "wait"
      BY <3>1 DEF Usb!Counted
    <3> QED BY <3>1, <3>3 DEF HandleOk, r
  <2>3. ASSUME NEW i \in 1 .. MaxPlugs PROVE HandleOk(h'[i])
    <3> DEFINE r == h[i]
               m == [r EXCEPT !.mark = TRUE]
    <3>0. HandleOk(r) /\ r \in Handle
      BY DEF UsbInv, HandleOk
    <3> HIDE DEF r
    <3>1. /\ m \in Handle /\ m.rd = r.rd /\ m.wr = r.wr /\ m.refs = r.refs
          /\ m.listed = r.listed /\ m.freed = r.freed /\ m.out_busy = r.out_busy
          /\ m.note = r.note
      BY <3>0 DEF Handle
    <3> HIDE DEF m
    <3>2. HandleOk(m)
      BY <3>0, <3>1 DEF HandleOk, Usb!Counted
    <3>3. h'[i] = r \/ h'[i] = m \/ h'[i] = Usb!register_device
      BY <2>1 DEF r, m
    <3> QED BY <2>2, <3>0, <3>2, <3>3
  <2> QED BY <2>1, <2>3 DEF UsbInv
<1>2. CASE Usb!KickDisconnected
  <2>1. /\ h' = [i \in 1 .. MaxPlugs |->
                IF ~h[i].listed THEN h[i]
                ELSE IF h[i].mark THEN [h[i] EXCEPT !.mark = FALSE] ELSE Usb!Kicked(h[i])]
       
    BY <1>2 DEF Usb!KickDisconnected, Usb!Devices
  <2>2. ASSUME NEW i \in 1 .. MaxPlugs PROVE HandleOk(h'[i])
    <3> DEFINE r == h[i]
               m == [r EXCEPT !.mark = FALSE]
    <3>0. HandleOk(r) /\ r \in Handle
      BY DEF UsbInv, HandleOk
    <3> HIDE DEF r
    <3>1. /\ m \in Handle /\ m.rd = r.rd /\ m.wr = r.wr /\ m.refs = r.refs
          /\ m.listed = r.listed /\ m.freed = r.freed /\ m.out_busy = r.out_busy
          /\ m.note = r.note
      BY <3>0 DEF Handle
    <3> HIDE DEF m
    <3>2. HandleOk(m)
      BY <3>0, <3>1 DEF HandleOk, Usb!Counted
    <3>3. h'[i] = r \/ h'[i] = m \/ h'[i] = Usb!Kicked(r)
      BY <2>1 DEF r, m
    <3> QED BY <3>0, <3>2, <3>3, KickedOk
  <2> QED BY <2>1, <2>2 DEF UsbInv
<1> QED BY <1>1, <1>2 DEF Usb!Poll

\* The handles, step by step.
LEMMA UsbSafe ==
    ASSUME UsbInv, [Usb!Next]_usb
    PROVE  UsbInv'
<1>1. CASE UNCHANGED usb
  BY <1>1 DEF usb, UsbInv
<1> QED BY <1>1, ReadingOk, WritingOk, DeviceOk, PollOk DEF Usb!Next, Usb!Devices

LEMMA UsbRight ==
    ASSUME UsbInv
    PROVE  Usb!HandleSafe
<1> SUFFICES ASSUME NEW i \in 1 .. MaxPlugs
             PROVE  /\ h[i].freed => h[i].rd = "gone" /\ h[i].wr = "gone" /\ ~h[i].listed
                    /\ (h[i].wr = "wait" /\ ~h[i].out_busy) => h[i].note
  BY DEF Usb!HandleSafe, Usb!Devices
<1>1. HandleOk(h[i])
  BY DEF UsbInv
<1> QED BY <1>1 DEF HandleOk, Usb!Counted

-----------------------------------------------------------------------------
PairsTyped ==
    /\ buff = [i \in 0 .. Size - 1 |-> buff[i]] /\ \A i \in 0 .. Size - 1 : buff[i] \in Int
    /\ aStart \in Int /\ aEnd \in Int /\ bEnd \in Int /\ written \in Int
    /\ got \in Seq(Int) /\ canRead \in BOOLEAN /\ canWrite \in BOOLEAN
    /\ wpc \in {"enter", "wait", "copy", "leave", "end"}
    /\ rpc \in {"poll", "enter", "wait", "copy", "reset", "leave", "end"}

PairsInv == PairsTyped /\ Pai!LockHeld /\ Pai!Regions /\ Pai!BytesInPlace /\ Pai!FlagsKnown

\* Steps outside the buffer: its bytes and the flags stay, and who takes the
\* lock or gives up goes where the code sends him.
LEMMA PairsOutside ==
    ASSUME PairsInv,
           \/ Pai!WriteEnter \/ Pai!WriteWait \/ Pai!LoopWait \/ Pai!ReadEnter \/ Pai!ReadWait
           \/ Pai!ReadReset \/ Pai!CloseMark \/ Pai!CloseSignal \/ UNCHANGED pai
    PROVE  PairsInv'
<1> USE DEF PairsInv
<1>1. UNCHANGED <<buff, aStart, aEnd, bEnd, canRead, canWrite, written, got>>
  BY DEF Pai!WriteEnter, Pai!WriteWait, Pai!LoopWait, Pai!ReadEnter, Pai!ReadWait, Pai!ReadReset,
         Pai!CloseMark, Pai!CloseSignal, pai
<1>2. Pai!Regions' /\ Pai!BytesInPlace'
  BY <1>1 DEF Pai!Regions, Pai!BytesInPlace
<1>3. CASE Pai!WriteEnter
  BY <1>1, <1>2, <1>3 DEF Pai!WriteEnter, PairsTyped, Pai!LockHeld, Pai!FlagsKnown
<1>4. CASE Pai!WriteWait
  BY <1>1, <1>2, <1>4 DEF Pai!WriteWait, PairsTyped, Pai!LockHeld, Pai!FlagsKnown
<1>5. CASE Pai!LoopWait
  BY <1>1, <1>2, <1>5 DEF Pai!LoopWait, PairsTyped, Pai!LockHeld, Pai!FlagsKnown
<1>6. CASE Pai!ReadEnter
  BY <1>1, <1>2, <1>6 DEF Pai!ReadEnter, PairsTyped, Pai!LockHeld, Pai!FlagsKnown
<1>7. CASE Pai!ReadWait
  BY <1>1, <1>2, <1>7 DEF Pai!ReadWait, PairsTyped, Pai!LockHeld, Pai!FlagsKnown
<1>8. CASE Pai!ReadReset
  BY <1>1, <1>2, <1>8 DEF Pai!ReadReset, PairsTyped, Pai!LockHeld, Pai!FlagsKnown
<1>9. CASE Pai!CloseMark \/ Pai!CloseSignal \/ UNCHANGED pai
  <2>1. UNCHANGED <<wpc, rpc, lock>>
    BY <1>9 DEF Pai!CloseMark, Pai!CloseSignal, pai
  <2> QED BY <1>1, <1>2, <2>1 DEF PairsTyped, Pai!LockHeld, Pai!FlagsKnown
<1> QED BY <1>3, <1>4, <1>5, <1>6, <1>7, <1>8, <1>9

\* A thread leaves and sets the flag of the other side, which is right: there
\* is something to read after a write, and room after a read.
LEMMA PairsLeave ==
    ASSUME PairsInv, Pai!WriteLeave \/ Pai!ReadLeave
    PROVE  PairsInv'
<1> USE DEF PairsInv
<1>1. UNCHANGED <<buff, aStart, aEnd, bEnd, written, got>>
  BY DEF Pai!WriteLeave, Pai!ReadLeave
<1>2. Pai!Regions' /\ Pai!BytesInPlace'
  BY <1>1 DEF Pai!Regions, Pai!BytesInPlace
<1>3. CASE Pai!WriteLeave
  <2>1. /\ wpc = "leave" /\ wpc' = "enter" /\ lock' = "none" /\ canRead' = TRUE
        /\ UNCHANGED <<canWrite, rpc>>
    BY <1>3 DEF Pai!WriteLeave
  <2> QED BY <1>1, <1>2, <2>1 DEF PairsTyped, Pai!LockHeld, Pai!FlagsKnown
<1>4. CASE Pai!ReadLeave
  <2>1. /\ rpc = "leave" /\ rpc' \in {"poll", "enter"} /\ lock' = "none" /\ canWrite' = TRUE
        /\ UNCHANGED <<canRead, wpc>>
    BY <1>4 DEF Pai!ReadLeave
  <2> QED BY <1>1, <1>2, <2>1 DEF PairsTyped, Pai!LockHeld, Pai!FlagsKnown
<1> QED BY <1>3, <1>4

\* bip_buffer_write: region A grows to the end of the buffer, then region B up
\* to A; the bytes of the stream go where the regions grow.
LEMMA PairsWrite ==
    ASSUME PairsInv, NEW len \in 1 .. Size, Pai!WriteCopy(len)
    PROVE  PairsInv'
<1> DEFINE u == Pai!MinOf(len, Size - aEnd)
           full == u > 0 /\ aEnd + u = Size /\ aStart = 0
           m == IF full THEN 0 ELSE Pai!MinOf(len - u, aStart - bEnd)
<1>0. PairsTyped /\ Pai!LockHeld /\ Pai!Regions /\ Pai!BytesInPlace /\ Pai!FlagsKnown
  BY DEF PairsInv
<1>1. wpc = "copy" /\ wpc' = "leave" /\ UNCHANGED <<canRead, lock, rpc, got>>
  BY DEF Pai!WriteCopy
<1>1a. aStart' = aStart /\ aEnd' = aEnd + u /\ bEnd' = bEnd + m /\ written' = written + u + m
  BY DEF Pai!WriteCopy
<1>1b. buff' = Pai!Put(Pai!Put(buff, aEnd, u, written + 1), bEnd, m, written + u + 1)
  BY DEF Pai!WriteCopy
<1>1c. canWrite' = ~(full \/ (m > 0 /\ bEnd' = aStart))
  BY DEF Pai!WriteCopy
<1>2. /\ 0 <= bEnd /\ bEnd <= aStart /\ aStart <= aEnd /\ aEnd <= Size
      /\ bEnd > 0 => aEnd = Size
      /\ aStart = aEnd => aStart = 0
  BY <1>0 DEF Pai!Regions
<1>2a. /\ aStart \in Int /\ aEnd \in Int /\ bEnd \in Int /\ written \in Int /\ Size \in Int /\ Size > 0
       /\ len \in Int /\ len > 0
  BY <1>0, AdbSizes DEF PairsTyped
<1>3. rpc \notin {"copy", "reset", "leave"} /\ lock = "writer"
  BY <1>0, <1>1 DEF Pai!LockHeld
<1>4. ~(aEnd = Size /\ bEnd = aStart)
  BY <1>0, <1>1, <1>3 DEF Pai!FlagsKnown
<1>5. /\ u \in Int /\ u >= 0 /\ aEnd + u <= Size /\ u <= len /\ (aEnd + u = Size \/ u = len)
  BY <1>2, <1>2a DEF Pai!MinOf
<1>6. /\ m \in Int /\ m >= 0 /\ bEnd + m <= aStart
      /\ m > 0 => aEnd + u = Size
      /\ ~full => (m = len - u \/ bEnd + m = aStart)
  BY <1>2, <1>2a, <1>5 DEF Pai!MinOf
<1>7. full <=> (u > 0 /\ aEnd + u = Size /\ aStart = 0)
  OBVIOUS
<1>8. full => m = 0
  OBVIOUS
<1> HIDE DEF u, m, full
<1>9. u + m > 0
  BY <1>2, <1>2a, <1>4, <1>5, <1>6, <1>7, <1>8
<1>10. Pai!Regions'
  BY <1>1a, <1>2, <1>2a, <1>4, <1>5, <1>6, <1>7, <1>8, <1>9 DEF Pai!Regions
<1>11. \A i \in 0 .. Size - 1 :
          buff'[i] = IF i >= bEnd /\ i < bEnd + m THEN written + u + 1 + (i - bEnd)
                     ELSE IF i >= aEnd /\ i < aEnd + u THEN written + 1 + (i - aEnd)
                     ELSE buff[i]
  BY <1>0, <1>1b DEF Pai!Put, PairsTyped
<1>12. buff' = [i \in 0 .. Size - 1 |-> buff'[i]]
  BY <1>0, <1>1b DEF Pai!Put, PairsTyped
<1>13. PairsTyped'
  <2>1. ASSUME NEW i \in 0 .. Size - 1 PROVE buff'[i] \in Int
    <3>1. buff[i] \in Int
      BY <1>0 DEF PairsTyped
    <3>2. \/ buff'[i] = written + u + 1 + (i - bEnd) \/ buff'[i] = written + 1 + (i - aEnd)
          \/ buff'[i] = buff[i]
      BY <1>11
    <3>3. i \in Int
      OBVIOUS
    <3> QED BY <1>2a, <1>5, <1>6, <3>1, <3>2, <3>3
  <2>2. canWrite' \in BOOLEAN
    BY <1>1c
  <2>3. aStart' \in Int /\ aEnd' \in Int /\ bEnd' \in Int /\ written' \in Int
    BY <1>1a, <1>2a, <1>5, <1>6
  <2>4. got' \in Seq(Int) /\ canRead' \in BOOLEAN /\ wpc' \in {"enter", "wait", "copy", "leave", "end"}
        /\ rpc' \in {"poll", "enter", "wait", "copy", "reset", "leave", "end"}
    BY <1>0, <1>1 DEF PairsTyped
  <2> QED BY <1>12, <2>1, <2>2, <2>3, <2>4 DEF PairsTyped
<1>14. Pai!LockHeld'
  BY <1>0, <1>1, <1>3 DEF Pai!LockHeld
<1>15. Pai!BytesInPlace'
  <2> DEFINE L == Len(got)
  <2>1. L \in Int /\ L >= 0
    BY <1>0 DEF PairsTyped
  <2>2. /\ L + (aEnd - aStart) + bEnd = written
        /\ \A i \in 1 .. L : got[i] = i
        /\ \A i \in aStart .. aEnd - 1 : buff[i] = L + (i - aStart) + 1
        /\ \A i \in 0 .. bEnd - 1 : buff[i] = L + (aEnd - aStart) + i + 1
    BY <1>0 DEF Pai!BytesInPlace
  <2>2a. Len(got') = L
    BY <1>1
  <2> HIDE DEF L
  <2>3. L + (aEnd' - aStart') + bEnd' = written'
    BY <1>1a, <1>2a, <1>5, <1>6, <2>1, <2>2
  <2>4. ASSUME NEW i \in aStart' .. aEnd' - 1
        PROVE  buff'[i] = L + (i - aStart') + 1
    <3>0. i \in aStart .. aEnd + u - 1 /\ i \in 0 .. Size - 1 /\ i \in Int
      BY <1>1a, <1>2, <1>2a, <1>5
    <3>1. ~(i >= bEnd /\ i < bEnd + m)
      BY <1>2, <1>2a, <1>6, <3>0
    <3>2. CASE i < aEnd
      <4>1. i \in aStart .. aEnd - 1
        BY <1>2a, <3>0, <3>2
      <4>2. buff'[i] = buff[i]
        BY <1>2a, <1>11, <3>0, <3>1, <3>2
      <4> QED BY <1>1a, <2>2, <4>1, <4>2
    <3>3. CASE i >= aEnd
      <4>1. bEnd = 0
        BY <1>2, <1>2a, <1>5, <3>0, <3>3
      <4>2. buff'[i] = written + 1 + (i - aEnd)
        BY <1>2a, <1>5, <1>11, <3>0, <3>1, <3>3
      <4> QED BY <1>1a, <1>2a, <2>1, <2>2, <3>0, <4>1, <4>2
    <3> QED BY <1>2a, <3>0, <3>2, <3>3
  <2>5. ASSUME NEW i \in 0 .. bEnd' - 1
        PROVE  buff'[i] = L + (aEnd' - aStart') + i + 1
    <3>0. i \in 0 .. bEnd + m - 1 /\ i \in 0 .. Size - 1 /\ i \in Int
      BY <1>1a, <1>2, <1>2a, <1>6
    <3>1. aEnd' - aStart' = aEnd + u - aStart
      BY <1>1a, <1>2a, <1>5
    <3>2. CASE i < bEnd
      <4>1. i \in 0 .. bEnd - 1
        BY <1>2a, <3>0, <3>2
      <4>2. u = 0
        BY <1>2, <1>2a, <1>5, <3>0, <3>2
      <4>3. buff'[i] = buff[i]
        BY <1>2, <1>2a, <1>11, <3>0, <3>2, <4>2
      <4>4. buff'[i] = L + (aEnd - aStart) + i + 1
        BY <2>2, <4>1, <4>3
      <4> QED BY <1>2a, <2>1, <3>0, <3>1, <4>2, <4>4
    <3>3. CASE i >= bEnd
      <4>1. buff'[i] = written + u + 1 + (i - bEnd)
        BY <1>2a, <1>6, <1>11, <3>0, <3>3
      <4>2. L + (aEnd - aStart) + bEnd = written
        BY <2>2
      <4> QED BY <1>2a, <1>5, <2>1, <3>0, <3>1, <4>1, <4>2
    <3> QED BY <1>2a, <3>0, <3>2, <3>3
  <2>6. \A i \in 1 .. Len(got') : got'[i] = i
    BY <1>1, <2>2 DEF L
  <2> QED BY <2>2a, <2>3, <2>4, <2>5, <2>6 DEF Pai!BytesInPlace
<1>16. Pai!FlagsKnown'
  <2>1. aEnd' > aStart'
    BY <1>1a, <1>2, <1>2a, <1>4, <1>5, <1>6, <1>9
  <2>2. canWrite' <=> ~(full \/ (m > 0 /\ bEnd' = aStart))
    BY <1>1c
  <2>3. (full \/ (m > 0 /\ bEnd + m = aStart)) <=> (aEnd + u = Size /\ bEnd + m = aStart)
    BY <1>2, <1>2a, <1>4, <1>5, <1>6, <1>7, <1>8
  <2>4. canWrite' <=> ~(aEnd' = Size /\ bEnd' = aStart')
    BY <1>1a, <2>2, <2>3
  <2> QED BY <1>1, <1>3, <2>1, <2>4 DEF Pai!FlagsKnown
<1> QED BY <1>10, <1>13, <1>14, <1>15, <1>16 DEF PairsInv

\* What is appended to the bytes read.
LEMMA SliceSeq ==
    ASSUME NEW p \in Int, NEW k \in Nat, PairsTyped, 0 <= p, p + k <= Size
    PROVE  /\ Pai!Slice(buff, p, k) \in Seq(Int) /\ Len(Pai!Slice(buff, p, k)) = k
           /\ \A i \in 1 .. k : Pai!Slice(buff, p, k)[i] = buff[p + i - 1]
<1>1. \A i \in 1 .. k : p + i - 1 \in 0 .. Size - 1
  BY AdbSizes
<1>2. \A i \in 1 .. k : buff[p + i - 1] \in Int
  BY <1>1 DEF PairsTyped
<1> QED BY <1>2 DEF Pai!Slice

\* Three runs of bytes, one after the other.
LEMMA ThreeRuns ==
    ASSUME NEW x \in Seq(Int), NEW y \in Seq(Int), NEW z \in Seq(Int)
    PROVE  /\ (x \o y) \o z \in Seq(Int)
           /\ Len((x \o y) \o z) = Len(x) + Len(y) + Len(z)
           /\ \A i \in 1 .. Len(x) + Len(y) + Len(z) :
                 ((x \o y) \o z)[i] = IF i <= Len(x) THEN x[i]
                                      ELSE IF i <= Len(x) + Len(y) THEN y[i - Len(x)]
                                      ELSE z[i - (Len(x) + Len(y))]
<1> DEFINE xy == x \o y
<1>0. Len(x) \in Nat /\ Len(y) \in Nat /\ Len(z) \in Nat
  OBVIOUS
<1>1. /\ xy \in Seq(Int) /\ Len(xy) = Len(x) + Len(y)
      /\ \A i \in 1 .. Len(x) + Len(y) : xy[i] = IF i <= Len(x) THEN x[i] ELSE y[i - Len(x)]
  BY ConcatProperties
<1> HIDE DEF xy
<1>2a. xy \in Seq(Int)
  BY <1>1
<1>2. /\ xy \o z \in Seq(Int) /\ Len(xy \o z) = Len(xy) + Len(z)
      /\ \A i \in 1 .. Len(xy) + Len(z) :
            (xy \o z)[i] = IF i <= Len(xy) THEN xy[i] ELSE z[i - Len(xy)]
  BY <1>2a, ConcatProperties, Zenon
<1> DEFINE t == xy \o z
<1>3. t \in Seq(Int) /\ Len(t) = Len(x) + Len(y) + Len(z)
  BY <1>1, <1>2
<1>4. \A i \in 1 .. Len(x) + Len(y) + Len(z) :
         t[i] = IF i <= Len(x) + Len(y) THEN xy[i] ELSE z[i - (Len(x) + Len(y))]
  BY <1>1, <1>2
<1> HIDE DEF t
<1>5. ASSUME NEW i \in 1 .. Len(x) + Len(y) + Len(z)
      PROVE  t[i] = IF i <= Len(x) THEN x[i]
                    ELSE IF i <= Len(x) + Len(y) THEN y[i - Len(x)]
                    ELSE z[i - (Len(x) + Len(y))]
  BY <1>0, <1>1, <1>4
<1> QED BY <1>3, <1>5 DEF t, xy

LEMMA RunsAssociate ==
    ASSUME NEW x \in Seq(Int), NEW y \in Seq(Int), NEW z \in Seq(Int)
    PROVE  (x \o y) \o z = x \o (y \o z)
BY ConcatAssociative

\* bip_buffer_read: region A is emptied from its start; when it is through, B
\* becomes A.
LEMMA PairsRead ==
    ASSUME PairsInv, NEW len \in 1 .. Size, Pai!ReadCopy(len)
    PROVE  PairsInv'
<1> DEFINE u == Pai!MinOf(len, aEnd - aStart)
           over == aStart + u = aEnd
           m == IF over THEN Pai!MinOf(len - u, bEnd) ELSE 0
           empty == over /\ m = bEnd
<1>0. PairsTyped /\ Pai!LockHeld /\ Pai!Regions /\ Pai!BytesInPlace /\ Pai!FlagsKnown
  BY DEF PairsInv
<1>1. /\ rpc = "copy" /\ rpc' = (IF empty THEN "reset" ELSE "leave")
      /\ UNCHANGED <<buff, canWrite, lock, wpc, written>>
  BY DEF Pai!ReadCopy
<1>1a. /\ empty => aStart' = 0 /\ aEnd' = 0 /\ bEnd' = 0
       /\ over /\ ~empty => aStart' = m /\ aEnd' = bEnd /\ bEnd' = 0
       /\ ~over => aStart' = aStart + u /\ aEnd' = aEnd /\ bEnd' = bEnd
  BY DEF Pai!ReadCopy
<1>1b. got' = (got \o Pai!Slice(buff, aStart, u)) \o Pai!Slice(buff, 0, m)
  BY DEF Pai!ReadCopy
<1>1c. canRead' = ~empty
  BY DEF Pai!ReadCopy
<1>2. /\ 0 <= bEnd /\ bEnd <= aStart /\ aStart <= aEnd /\ aEnd <= Size
      /\ bEnd > 0 => aEnd = Size
      /\ aStart = aEnd => aStart = 0
  BY <1>0 DEF Pai!Regions
<1>2a. /\ aStart \in Int /\ aEnd \in Int /\ bEnd \in Int /\ written \in Int /\ Size \in Int /\ Size > 0
       /\ len \in Int /\ len > 0
  BY <1>0, AdbSizes DEF PairsTyped
<1>3. wpc \notin {"copy", "leave"} /\ lock = "reader"
  BY <1>0, <1>1 DEF Pai!LockHeld
<1>4. aEnd > aStart
  BY <1>0, <1>1, <1>3 DEF Pai!FlagsKnown
<1>5. u \in Int /\ u > 0 /\ aStart + u <= aEnd
  BY <1>2, <1>2a, <1>4 DEF Pai!MinOf
<1>6. /\ m \in Int /\ m >= 0 /\ m <= bEnd /\ (~over => m = 0)
  BY <1>2, <1>2a, <1>5 DEF Pai!MinOf
<1>7. (over <=> aStart + u = aEnd) /\ (empty <=> over /\ m = bEnd)
  OBVIOUS
<1> HIDE DEF u, m, over, empty
<1> DEFINE sa == Pai!Slice(buff, aStart, u)
           sb == Pai!Slice(buff, 0, m)
           L == Len(got)
<1>8. /\ sa \in Seq(Int) /\ Len(sa) = u /\ \A i \in 1 .. u : sa[i] = buff[aStart + i - 1]
  <2>1. u \in Nat /\ 0 <= aStart /\ aStart + u <= Size
    BY <1>2, <1>2a, <1>5
  <2> QED BY <1>0, <1>2a, <2>1, SliceSeq
<1>9. /\ sb \in Seq(Int) /\ Len(sb) = m /\ \A i \in 1 .. m : sb[i] = buff[0 + i - 1]
  <2>1. m \in Nat /\ 0 <= 0 /\ 0 + m <= Size /\ 0 \in Int
    BY <1>2, <1>2a, <1>6
  <2> QED BY <1>0, <2>1, SliceSeq
<1>9a. got' = (got \o sa) \o sb
  BY <1>1b
<1>10. Pai!Regions'
  <2>1. CASE empty
    BY <1>1a, <1>2, <1>2a, <2>1 DEF Pai!Regions
  <2>2. CASE over /\ ~empty
    BY <1>1a, <1>2, <1>2a, <1>6, <1>7, <2>2 DEF Pai!Regions
  <2>3. CASE ~over
    BY <1>1a, <1>2, <1>2a, <1>5, <1>7, <2>3 DEF Pai!Regions
  <2> QED BY <2>1, <2>2, <2>3
<1>11. Pai!LockHeld'
  BY <1>0, <1>1, <1>3 DEF Pai!LockHeld
<1> HIDE DEF sa, sb
<1>12. got \in Seq(Int) /\ L \in Int /\ L >= 0
  BY <1>0 DEF PairsTyped
<1>13. /\ got' \in Seq(Int) /\ Len(got') = L + u + m
       /\ \A i \in 1 .. L + u + m :
             got'[i] = IF i <= L THEN got[i] ELSE IF i <= L + u THEN sa[i - L] ELSE sb[i - (L + u)]
  <2>1. got \in Seq(Int) /\ sa \in Seq(Int) /\ sb \in Seq(Int)
    BY <1>8, <1>9, <1>12
  <2>2. /\ (got \o sa) \o sb \in Seq(Int)
        /\ Len((got \o sa) \o sb) = Len(got) + Len(sa) + Len(sb)
        /\ \A i \in 1 .. Len(got) + Len(sa) + Len(sb) :
              ((got \o sa) \o sb)[i] = IF i <= Len(got) THEN got[i]
                                      ELSE IF i <= Len(got) + Len(sa) THEN sa[i - Len(got)]
                                      ELSE sb[i - (Len(got) + Len(sa))]
    BY <2>1, ThreeRuns, Zenon
  <2>3. Len(sa) = u /\ Len(sb) = m
    BY <1>8, <1>9
  <2> QED BY <2>2, <2>3, <1>9a, Zenon
<1>15. PairsTyped'
  <2>1. aStart' \in Int /\ aEnd' \in Int /\ bEnd' \in Int
    BY <1>1a, <1>2a, <1>5, <1>6, <1>7
  <2>2. canRead' \in BOOLEAN
    BY <1>1c
  <2>3. rpc' \in {"poll", "enter", "wait", "copy", "reset", "leave", "end"}
    BY <1>1
  <2> QED BY <1>0, <1>1, <1>13, <2>1, <2>2, <2>3 DEF PairsTyped
<1>16. Pai!FlagsKnown'
  <2>1. canRead' <=> ~empty
    BY <1>1c
  <2>2. empty <=> ~(aEnd' > aStart')
    BY <1>1a, <1>2, <1>2a, <1>4, <1>5, <1>6, <1>7
  <2>3. canRead' <=> aEnd' > aStart'
    BY <2>1, <2>2
  <2>4. ~(aEnd' = Size /\ bEnd' = aStart')
    <3>1. CASE empty
      BY <1>1a, <1>2a, <3>1
    <3>2. CASE over /\ ~empty
      BY <1>1a, <1>2, <1>2a, <1>4, <1>6, <1>7, <3>2
    <3>3. CASE ~over
      BY <1>1a, <1>2, <1>2a, <1>5, <3>3
    <3> QED BY <3>1, <3>2, <3>3
  <2>5. wpc' \notin {"copy", "leave"} /\ rpc' \in {"reset", "leave"}
    BY <1>1, <1>3
  <2> QED BY <2>3, <2>4, <2>5 DEF Pai!FlagsKnown
<1>17. Pai!BytesInPlace'
  <2>2. /\ L + (aEnd - aStart) + bEnd = written
        /\ \A i \in 1 .. L : got[i] = i
        /\ \A i \in aStart .. aEnd - 1 : buff[i] = L + (i - aStart) + 1
        /\ \A i \in 0 .. bEnd - 1 : buff[i] = L + (aEnd - aStart) + i + 1
    BY <1>0 DEF Pai!BytesInPlace
  <2> HIDE DEF L
  <2>3. Len(got') + (aEnd' - aStart') + bEnd' = written'
    <3>0. L + (aEnd - aStart) + bEnd = written /\ Len(got') = L + u + m /\ written' = written
      BY <1>1, <1>13, <2>2
    <3> DEFINE N == Len(got')
    <3> HIDE DEF N
    <3>a. N = L + u + m
      BY <3>0 DEF N
    <3>b. N + (aEnd' - aStart') + bEnd' = written
      <4>1. CASE empty
        BY <1>1a, <1>2a, <1>5, <1>6, <1>7, <1>12, <3>0, <3>a, <4>1
      <4>2. CASE over /\ ~empty
        BY <1>1a, <1>2a, <1>5, <1>6, <1>7, <1>12, <3>0, <3>a, <4>2
      <4>3. CASE ~over
        BY <1>1a, <1>2a, <1>5, <1>6, <1>7, <1>12, <3>0, <3>a, <4>3
      <4> QED BY <4>1, <4>2, <4>3
    <3> QED BY <3>0, <3>b DEF N
  <2>4. ASSUME NEW i \in 1 .. Len(got') PROVE got'[i] = i
    <3>0. i \in 1 .. L + u + m /\ i \in Int
      BY <1>13
    <3>1. CASE i <= L
      <4>1. got'[i] = got[i]
        BY <1>13, <3>0, <3>1
      <4> QED BY <1>12, <2>2, <3>0, <3>1, <4>1
    <3>2. CASE i > L /\ i <= L + u
      <4>1. got'[i] = sa[i - L]
        BY <1>12, <1>13, <3>0, <3>2
      <4>2. i - L \in 1 .. u /\ aStart + (i - L) - 1 \in aStart .. aEnd - 1
        BY <1>2a, <1>5, <1>12, <3>0, <3>2
      <4>3. got'[i] = buff[aStart + (i - L) - 1]
        BY <1>8, <4>1, <4>2
      <4>4. got'[i] = L + ((aStart + (i - L) - 1) - aStart) + 1
        BY <2>2, <4>2, <4>3
      <4> QED BY <1>2a, <1>12, <3>0, <4>4
    <3>3. CASE i > L + u
      <4>1. got'[i] = sb[i - (L + u)]
        BY <1>5, <1>12, <1>13, <3>0, <3>3
      <4>2. i - (L + u) \in 1 .. m /\ 0 + (i - (L + u)) - 1 \in 0 .. bEnd - 1
        BY <1>2a, <1>5, <1>6, <1>12, <3>0, <3>3
      <4>3. got'[i] = buff[0 + (i - (L + u)) - 1]
        BY <1>9, <4>1, <4>2
      <4>4. aStart + u = aEnd
        BY <1>5, <1>6, <1>7, <1>12, <3>0, <3>3
      <4>5. got'[i] = L + (aEnd - aStart) + (0 + (i - (L + u)) - 1) + 1
        BY <2>2, <4>2, <4>3
      <4> QED BY <1>2a, <1>5, <1>12, <3>0, <4>4, <4>5
    <3> QED BY <1>5, <1>12, <3>0, <3>1, <3>2, <3>3
  <2>5. ASSUME NEW i \in aStart' .. aEnd' - 1
        PROVE  buff'[i] = Len(got') + (i - aStart') + 1
    <3>0. buff' = buff /\ Len(got') = L + u + m
      BY <1>1, <1>13
    <3>1. CASE empty
      BY <1>1a, <3>1
    <3>2. CASE over /\ ~empty
      <4>1. i \in 0 .. bEnd - 1 /\ aStart' = m /\ aStart + u = aEnd /\ i \in Int
        BY <1>1a, <1>2a, <1>6, <1>7, <3>2
      <4>2. buff[i] = L + (aEnd - aStart) + i + 1
        BY <2>2, <4>1
      <4>3. L + (aEnd - aStart) + i + 1 = (L + u + m) + (i - m) + 1
        BY <1>2a, <1>5, <1>6, <1>12, <4>1
      <4> QED BY <3>0, <4>1, <4>2, <4>3
    <3>3. CASE ~over
      <4>1. i \in aStart .. aEnd - 1 /\ aStart' = aStart + u /\ m = 0 /\ i \in Int
        BY <1>1a, <1>2a, <1>5, <1>6, <1>7, <3>3
      <4>2. buff[i] = L + (i - aStart) + 1
        BY <2>2, <4>1
      <4>3. L + (i - aStart) + 1 = (L + u + m) + (i - (aStart + u)) + 1
        BY <1>2a, <1>5, <1>6, <1>12, <4>1
      <4> QED BY <3>0, <4>1, <4>2, <4>3
    <3> QED BY <3>1, <3>2, <3>3
  <2>6. ASSUME NEW i \in 0 .. bEnd' - 1
        PROVE  buff'[i] = Len(got') + (aEnd' - aStart') + i + 1
    <3>0. buff' = buff /\ Len(got') = L + u + m
      BY <1>1, <1>13
    <3>1. ~over
      BY <1>1a, <1>7
    <3>2. /\ i \in 0 .. bEnd - 1 /\ aStart' = aStart + u /\ aEnd' = aEnd /\ m = 0 /\ i \in Int
      BY <1>1a, <1>2a, <1>6, <3>1
    <3>3. buff[i] = L + (aEnd - aStart) + i + 1
      BY <2>2, <3>2
    <3>4. L + (aEnd - aStart) + i + 1 = (L + u + m) + (aEnd - (aStart + u)) + i + 1
      BY <1>2a, <1>5, <1>6, <1>12, <3>2
    <3> QED BY <3>0, <3>2, <3>3, <3>4
  <2> QED BY <2>3, <2>4, <2>5, <2>6 DEF Pai!BytesInPlace
<1> QED BY <1>10, <1>11, <1>15, <1>16, <1>17 DEF PairsInv

\* The socket pair, step by step.
LEMMA PairsSafe ==
    ASSUME PairsInv, [Pai!Next]_pai
    PROVE  PairsInv'
BY PairsOutside, PairsLeave, PairsWrite, PairsRead
   DEF Pai!Next, Pai!Writer, Pai!Reader, Pai!Closer

\* What was read and what the buffer holds is the stream, and the flags of a
\* free buffer are right.
LEMMA PairsRight ==
    ASSUME PairsInv
    PROVE  Pai!BipFifo
<1> DEFINE u == aEnd - aStart
           L == Len(got)
           all == [i \in 1 .. written |-> i]
<1>0. PairsTyped /\ Pai!LockHeld /\ Pai!Regions /\ Pai!BytesInPlace /\ Pai!FlagsKnown
  BY DEF PairsInv
<1>1. /\ 0 <= bEnd /\ bEnd <= aStart /\ aStart <= aEnd /\ aEnd <= Size
      /\ bEnd > 0 => aEnd = Size
      /\ aStart = aEnd => aStart = 0
      /\ aStart \in Int /\ aEnd \in Int /\ bEnd \in Int /\ written \in Int /\ Size \in Nat \ {0}
  BY <1>0, AdbSizes DEF PairsTyped, Pai!Regions
<1>2. u \in Nat /\ bEnd \in Nat /\ u = aEnd - aStart /\ aStart + u <= Size /\ 0 + bEnd <= Size
  BY <1>1
<1>2a. Pai!Held = Pai!Slice(buff, aStart, u) \o Pai!Slice(buff, 0, bEnd)
  BY DEF Pai!Held
<1> HIDE DEF u
<1> DEFINE sa == Pai!Slice(buff, aStart, u)
           sb == Pai!Slice(buff, 0, bEnd)
<1>3. /\ sa \in Seq(Int) /\ Len(sa) = u /\ \A i \in 1 .. u : sa[i] = buff[aStart + i - 1]
  <2>1. aStart \in Int /\ 0 <= aStart
    BY <1>1
  <2> QED BY <1>0, <1>2, <2>1, SliceSeq
<1>4. /\ sb \in Seq(Int) /\ Len(sb) = bEnd /\ \A i \in 1 .. bEnd : sb[i] = buff[0 + i - 1]
  <2>1. 0 \in Int /\ 0 <= 0
    OBVIOUS
  <2> QED BY <1>0, <1>2, <2>1, SliceSeq
<1>5. Pai!Held = sa \o sb
  BY <1>2a
<1> HIDE DEF sa, sb
<1>6. got \in Seq(Int) /\ L \in Nat
  BY <1>0 DEF PairsTyped
<1>7. sa \o sb \in Seq(Int) /\ Len(sa \o sb) = u + bEnd
  BY <1>3, <1>4, ConcatProperties
<1> DEFINE held == sa \o sb
           t == (got \o sa) \o sb
<1>8. /\ t \in Seq(Int) /\ Len(t) = L + u + bEnd
      /\ \A i \in 1 .. L + u + bEnd :
             t[i] = IF i <= L THEN got[i] ELSE IF i <= L + u THEN sa[i - L] ELSE sb[i - (L + u)]
  <2>1. got \in Seq(Int) /\ sa \in Seq(Int) /\ sb \in Seq(Int)
    BY <1>3, <1>4, <1>6
  <2>2. /\ (got \o sa) \o sb \in Seq(Int)
        /\ Len((got \o sa) \o sb) = Len(got) + Len(sa) + Len(sb)
        /\ \A i \in 1 .. Len(got) + Len(sa) + Len(sb) :
              ((got \o sa) \o sb)[i] = IF i <= Len(got) THEN got[i]
                                      ELSE IF i <= Len(got) + Len(sa) THEN sa[i - Len(got)]
                                      ELSE sb[i - (Len(got) + Len(sa))]
    BY <2>1, ThreeRuns, Zenon
  <2>3. Len(sa) = u /\ Len(sb) = bEnd
    BY <1>3, <1>4
  <2> QED BY <2>2, <2>3, Zenon
<1>8a. got \o held = t
  <2>1. got \in Seq(Int) /\ sa \in Seq(Int) /\ sb \in Seq(Int)
    BY <1>3, <1>4, <1>6
  <2>2. (got \o sa) \o sb = got \o (sa \o sb)
    BY <2>1, RunsAssociate
  <2> QED BY <2>2
<1>9. /\ L + u + bEnd = written
      /\ \A i \in 1 .. L : got[i] = i
      /\ \A i \in aStart .. aEnd - 1 : buff[i] = L + (i - aStart) + 1
      /\ \A i \in 0 .. bEnd - 1 : buff[i] = L + u + i + 1
  BY <1>0, <1>2 DEF Pai!BytesInPlace
<1> HIDE DEF held, t, L
<1>10. written \in Nat /\ all \in Seq(Int) /\ Len(all) = written /\ \A i \in 1 .. written : all[i] = i
  <2>1. written \in Nat
    BY <1>1, <1>2, <1>6, <1>9
  <2> QED BY <2>1
<1> HIDE DEF all
<1>11. ASSUME NEW i \in 1 .. written PROVE t[i] = i
  <2>0. i \in 1 .. L + u + bEnd /\ i \in Int
    BY <1>9
  <2>1. CASE i <= L
    BY <1>6, <1>8, <1>9, <2>0, <2>1
  <2>2. CASE i > L /\ i <= L + u
    <3>1. i - L \in 1 .. u /\ aStart + (i - L) - 1 \in aStart .. aEnd - 1
      BY <1>1, <1>2, <1>6, <2>0, <2>2
    <3>2. t[i] = sa[i - L]
      BY <1>6, <1>8, <2>0, <2>2
    <3>4. sa[i - L] = buff[aStart + (i - L) - 1]
      BY <1>3, <3>1
    <3>5. buff[aStart + (i - L) - 1] = L + ((aStart + (i - L) - 1) - aStart) + 1
      BY <1>9, <3>1
    <3>6. L + ((aStart + (i - L) - 1) - aStart) + 1 = i
      BY <1>1, <1>6, <2>0
    <3> QED BY <3>2, <3>4, <3>5, <3>6
  <2>3. CASE i > L + u
    <3>1. i - (L + u) \in 1 .. bEnd /\ 0 + (i - (L + u)) - 1 \in 0 .. bEnd - 1
      BY <1>1, <1>2, <1>6, <2>0, <2>3
    <3>2. t[i] = sb[i - (L + u)]
      <4>1. ~(i <= L) /\ ~(i <= L + u)
        BY <1>2, <1>6, <2>0, <2>3
      <4> QED BY <1>8, <2>0, <4>1
    <3>4. sb[i - (L + u)] = buff[0 + (i - (L + u)) - 1]
      BY <1>4, <3>1
    <3>5. buff[0 + (i - (L + u)) - 1] = L + u + (0 + (i - (L + u)) - 1) + 1
      BY <1>9, <3>1
    <3>6. L + u + (0 + (i - (L + u)) - 1) + 1 = i
      BY <1>2, <1>6, <2>0
    <3> QED BY <3>2, <3>4, <3>5, <3>6
  <2> QED BY <1>2, <1>6, <2>0, <2>1, <2>2, <2>3
<1>12. got \o held = all
  <2>1. Len(t) = Len(all)
    BY <1>8, <1>9, <1>10
  <2>2. \A i \in 1 .. Len(t) : t[i] = all[i]
    BY <1>10, <1>11, <2>1
  <2>3. t = all
    BY <1>8, <1>10, <2>1, <2>2, SeqEqual
  <2> QED BY <1>8a, <2>3
<1>13. ASSUME lock = "none"
       PROVE  canRead = (held # <<>>) /\ canWrite = (Len(held) < Size)
  <2>1. wpc \notin {"copy", "leave"} /\ rpc \notin {"copy", "reset", "leave"}
    BY <1>0, <1>13 DEF Pai!LockHeld
  <2>2. canRead <=> aEnd > aStart
    BY <1>0, <2>1 DEF Pai!FlagsKnown
  <2>3. canWrite <=> ~(aEnd = Size /\ bEnd = aStart)
    BY <1>0, <2>1 DEF Pai!FlagsKnown
  <2>4. held \in Seq(Int) /\ Len(held) = u + bEnd
    BY <1>7 DEF held
  <2>7. held # <<>> <=> Len(held) # 0
    BY <2>4, EmptySeq
  <2>8. Len(held) # 0 <=> aEnd > aStart
    BY <1>1, <1>2, <2>4
  <2>9. Len(held) < Size <=> ~(aEnd = Size /\ bEnd = aStart)
    BY <1>1, <1>2, <2>4
  <2>10. canRead \in BOOLEAN /\ canWrite \in BOOLEAN
    BY <1>0 DEF PairsTyped
  <2>11. canRead <=> held # <<>>
    BY <2>2, <2>7, <2>8
  <2>12. canWrite <=> Len(held) < Size
    BY <2>3, <2>9
  <2> QED BY <2>10, <2>11, <2>12
<1>14. Pai!Held = held
  BY <1>5 DEF held
<1>15. bEnd <= aStart
  BY <1>1
<1> QED BY <1>12, <1>13, <1>14, <1>15 DEF Pai!BipFifo, all

-----------------------------------------------------------------------------
ThreadsInv == TransportInv /\ UsbInv /\ PairsInv

\* Nothing has been read, written, plugged in or closed yet.
LEMMA ThreadsStart ==
    ASSUME Init
    PROVE  ThreadsInv
<1>1. TransportInv
  <2>1. /\ tremote = "up" /\ ref = 2 /\ kicked = FALSE /\ token = 1 /\ toMain = <<>> /\ toIn = <<>>
        /\ outPc = "start" /\ inPc = "loop" /\ mainPc = "idle" /\ active = FALSE
        /\ socks = 0 /\ posted = 0 /\ freed = FALSE /\ tclosed = 0 /\ unregistered = FALSE
    BY DEF Init, Tra!Init
  <2>2. toMain \in Seq(Packet) /\ toIn \in Seq(Packet) /\ Len(toMain) = 0 /\ Len(toIn) = 0
    BY <2>1
  <2> QED BY <2>1, <2>2 DEF TransportInv, Tra!StopOnce, Tra!NoStop, Tra!LastStop, Tra!RefsCounted
<1>2. UsbInv
  <2> DEFINE z == Usb!NoHandle
  <2>1. z \in Handle /\ Usb!Counted(z) /\ z.wr = "none"
    BY DEF Usb!NoHandle, Handle, Transfer, Usb!Counted
  <2>2. h = [i \in 1 .. MaxPlugs |-> z]
    BY DEF Init, Usb!Init, Usb!Devices
  <2> HIDE DEF z
  <2>3. HandleOk(z)
    BY <2>1 DEF HandleOk
  <2> QED BY <2>2, <2>3 DEF UsbInv
<1>3. PairsInv
  <2>1. /\ buff = [i \in 0 .. Size - 1 |-> 0] /\ aStart = 0 /\ aEnd = 0 /\ bEnd = 0
        /\ canRead = FALSE /\ canWrite = TRUE /\ lock = "none" /\ wpc = "enter"
        /\ rpc \in {"poll", "enter"} /\ written = 0 /\ got = <<>>
    BY DEF Init, Pai!Init, Pai!bip_buffer_init
  <2>2. Size \in Nat \ {0}
    BY AdbSizes
  <2>3. got \in Seq(Int) /\ Len(got) = 0
    BY <2>1
  <2>4. PairsTyped
    <3>1. buff = [i \in 0 .. Size - 1 |-> buff[i]] /\ \A i \in 0 .. Size - 1 : buff[i] \in Int
      BY <2>1
    <3>2. aStart \in Int /\ aEnd \in Int /\ bEnd \in Int /\ written \in Int
      BY <2>1
    <3>3. canRead \in BOOLEAN /\ canWrite \in BOOLEAN
      BY <2>1, Zenon
    <3>4. /\ wpc \in {"enter", "wait", "copy", "leave", "end"}
          /\ rpc \in {"poll", "enter", "wait", "copy", "reset", "leave", "end"}
      BY <2>1
    <3> QED BY <2>3, <3>1, <3>2, <3>3, <3>4 DEF PairsTyped
  <2>5. Pai!LockHeld /\ Pai!Regions /\ Pai!FlagsKnown
    BY <2>1, <2>2 DEF Pai!LockHeld, Pai!Regions, Pai!FlagsKnown
  <2>6. Pai!BytesInPlace
    BY <2>1, <2>3 DEF Pai!BytesInPlace
  <2> QED BY <2>4, <2>5, <2>6 DEF PairsInv
<1> QED BY <1>1, <1>2, <1>3 DEF ThreadsInv

\* Each part steps or stands still.
LEMMA ThreadsStep ==
    ASSUME [Next]_vars
    PROVE  [Tra!Next]_tra /\ [Usb!Next]_usb /\ [Pai!Next]_pai
<1>1. CASE UNCHANGED vars
  <2>1. UNCHANGED tra /\ UNCHANGED usb /\ UNCHANGED pai
    BY <1>1 DEF vars
  <2> QED BY <2>1
<1>2. CASE TransportStep
  <2>1. Tra!Next /\ UNCHANGED usb /\ UNCHANGED pai
    BY <1>2 DEF TransportStep, TransportOnly
  <2> QED BY <2>1
<1>3. CASE UsbStep
  <2>1. Usb!Next /\ UNCHANGED tra /\ UNCHANGED pai
    BY <1>3 DEF UsbStep, UsbOnly
  <2> QED BY <2>1
<1>4. CASE PairsStep
  <2>1. Pai!Next /\ UNCHANGED tra /\ UNCHANGED usb
    BY <1>4 DEF PairsStep, PairsOnly
  <2> QED BY <2>1
<1>5. CASE StreamsStep \/ EventsStep \/ SyncStep \/ JdwpStep \/ ServerStep \/ ClientStep
  <2>1. UNCHANGED tra /\ UNCHANGED usb /\ UNCHANGED pai
    BY <1>5 DEF StreamsStep, EventsStep, SyncStep, JdwpStep, ServerStep, ClientStep,
                StreamsOnly, EventsOnly, SyncOnly, JdwpOnly, ServerOnly, ClientOnly
  <2> QED BY <2>1
<1> QED BY <1>1, <1>2, <1>3, <1>4, <1>5 DEF Next

\* The main and the input thread never work through the sockets of a transport
\* at the same time, a transport nobody disconnects by hand is closed and freed
\* once and after both of its threads; a socket pair hands on the bytes of the
\* stream with none lost, repeated or out of order and the flags of a free
\* buffer tell what it holds; a USB handle is freed only when both its threads
\* are gone, and a writer is never left waiting for a transfer that ended:
\* ThreadsSafe, for every size of buffer and any number of packets, sockets,
\* bytes, devices and transfers.
THEOREM ThreadsStaySafe == Spec => []ThreadsSafe
<1>1. Init => ThreadsInv
  BY ThreadsStart
<1>2. ASSUME ThreadsInv, [Next]_vars PROVE ThreadsInv'
  BY <1>2, ThreadsStep, TransportSafe, UsbSafe, PairsSafe DEF ThreadsInv
<1>3. ThreadsInv => ThreadsSafe
  BY TransportRight, UsbRight, PairsRight DEF ThreadsInv, ThreadsSafe
<1> QED BY <1>1, <1>2, <1>3, PTL DEF Spec

-----------------------------------------------------------------------------
(* How commands find their server                                          *)

ServerRec == {r \in [id : Nat, version : {0, Version, Old}] : r.id = 0 \/ r.version = 0 => r = Cli!None}
Place == {"version", "answer", "connect", "kill", "launch", "await", "killserver", "end", "fail"}
ChildState == {"none", "starting", "ok", "dead"}

ClientInv ==
    /\ server \in ServerRec /\ count \in Nat
    /\ lpc \in [Cli!Clients -> Place] /\ sess \in [Cli!Clients -> ServerRec]
    /\ child \in [Cli!Clients -> ChildState] /\ served \in [Cli!Clients -> SUBSET {Version}]
    /\ Cli!SessionsKnown /\ Cli!NobodyPastOld /\ Cli!ChildAwaited /\ Cli!SomebodyStarts

LEMMA NoServer == Cli!None \in ServerRec /\ Cli!None.version = 0 /\ Cli!None.id = 0
  BY DEF Cli!None, ServerRec

\* The three clients of the model, and where a command goes on.
LEMMA ClientPlaces ==
    /\ Cli!Clients # {}
    /\ \A c \in Cli!Clients : Cli!GiveUp(c) \in {"version", "fail"}
    /\ \A c, rest : Cli!Follow(c, rest) \in {"end", "killserver", "version"}
<1>1. 1 \in Cli!Clients
  BY DEF Cli!Clients, MCCommands
<1>2. \A c \in Cli!Clients : Cli!GiveUp(c) \in {"version", "fail"}
  BY DEF Cli!GiveUp
<1>3. \A c, rest : Cli!Follow(c, rest) \in {"end", "killserver", "version"}
  BY DEF Cli!Follow
<1> QED BY <1>1, <1>2, <1>3

\* A step of one client moves it, and leaves the others where they are.
LEMMA ClientSafe ==
    ASSUME ClientInv, [Cli!Next]_cli
    PROVE  ClientInv'
<1> USE NoServer, ClientPlaces, AdbVersions
<1>1. CASE UNCHANGED cli
  BY <1>1 DEF cli, ClientInv, Cli!SessionsKnown, Cli!NobodyPastOld, Cli!ChildAwaited, Cli!SomebodyStarts
<1> DEFINE typed == /\ server \in ServerRec /\ count \in Nat
                    /\ lpc \in [Cli!Clients -> Place] /\ sess \in [Cli!Clients -> ServerRec]
                    /\ child \in [Cli!Clients -> ChildState] /\ served \in [Cli!Clients -> SUBSET {Version}]
<1>t. typed
  BY DEF ClientInv
<1>r. /\ \A r \in ServerRec : r.id \in Nat
      /\ \A r \in ServerRec : r.version \in {0, Version, Old}
      /\ \A r \in ServerRec : r.id = 0 => r = Cli!None
      /\ \A r \in ServerRec : r.version = 0 => r = Cli!None
  BY DEF ServerRec
<1>2. ASSUME NEW c \in Cli!Clients, Cli!AskVersion(c) PROVE ClientInv'
  <2>1. typed'
    BY <1>t, <1>r, <1>2 DEF Cli!AskVersion, Cli!Connected, Cli!Goto, Place, ChildState
  <2>2. Cli!SessionsKnown'
    BY <1>t, <1>r, <1>2 DEF ClientInv, Cli!AskVersion, Cli!Connected, Cli!Goto, Cli!SessionsKnown
  <2>3. Cli!NobodyPastOld'
    BY <1>t, <1>r, <1>2 DEF ClientInv, Cli!AskVersion, Cli!Connected, Cli!Goto, Cli!SessionsKnown, Cli!NobodyPastOld, Cli!ChildAwaited
  <2>4. Cli!ChildAwaited'
    BY <1>t, <1>2 DEF ClientInv, Cli!AskVersion, Cli!Connected, Cli!Goto, Cli!ChildAwaited
  <2>5. Cli!SomebodyStarts'
    BY <1>t, <1>r, <1>2 DEF ClientInv, Cli!AskVersion, Cli!Connected, Cli!Goto, Cli!SomebodyStarts, Cli!ChildAwaited
  <2> QED BY <2>1, <2>2, <2>3, <2>4, <2>5 DEF ClientInv
<1>3. ASSUME NEW c \in Cli!Clients, Cli!ReadVersion(c) PROVE ClientInv'
  <2>1. typed'
    BY <1>t, <1>r, <1>3 DEF Cli!ReadVersion, Cli!Goto, Place, ChildState
  <2>2. Cli!SessionsKnown'
    BY <1>t, <1>r, <1>3 DEF ClientInv, Cli!ReadVersion, Cli!Goto, Cli!SessionsKnown
  <2>3. Cli!NobodyPastOld'
    BY <1>t, <1>r, <1>3 DEF ClientInv, Cli!ReadVersion, Cli!Goto, Cli!SessionsKnown, Cli!NobodyPastOld, Cli!ChildAwaited
  <2>4. Cli!ChildAwaited'
    BY <1>t, <1>3 DEF ClientInv, Cli!ReadVersion, Cli!Goto, Cli!ChildAwaited
  <2>5. Cli!SomebodyStarts'
    BY <1>t, <1>r, <1>3 DEF ClientInv, Cli!ReadVersion, Cli!Goto, Cli!SomebodyStarts, Cli!ChildAwaited
  <2> QED BY <2>1, <2>2, <2>3, <2>4, <2>5 DEF ClientInv
<1>4. ASSUME NEW c \in Cli!Clients, Cli!KillOld(c) PROVE ClientInv'
  <2>1. typed'
    BY <1>t, <1>r, <1>4 DEF Cli!KillOld, Cli!Goto, Place, ChildState
  <2>2. Cli!SessionsKnown'
    <3>1. server' = Cli!None /\ sess' = sess /\ count' = count
      BY <1>4 DEF Cli!KillOld
    <3>2. \A d \in Cli!Clients : sess[d] \in ServerRec /\ sess[d].id <= count
      BY DEF ClientInv, Cli!SessionsKnown
    <3>3. \A d \in Cli!Clients : sess[d].id = 0 => sess[d] = Cli!None
      BY <3>2, <1>r, Zenon
    <3> QED BY <1>t, <3>1, <3>2, <3>3 DEF Cli!SessionsKnown
  <2>3. Cli!NobodyPastOld'
    BY <1>t, <1>r, <1>4 DEF ClientInv, Cli!KillOld, Cli!Goto, Cli!SessionsKnown, Cli!NobodyPastOld, Cli!ChildAwaited
  <2>4. Cli!ChildAwaited'
    BY <1>t, <1>4 DEF ClientInv, Cli!KillOld, Cli!Goto, Cli!ChildAwaited
  <2>5. Cli!SomebodyStarts'
    BY <1>t, <1>r, <1>4 DEF ClientInv, Cli!KillOld, Cli!Goto, Cli!SomebodyStarts, Cli!ChildAwaited
  <2> QED BY <2>1, <2>2, <2>3, <2>4, <2>5 DEF ClientInv
<1>5. ASSUME NEW c \in Cli!Clients, Cli!launch_server(c) PROVE ClientInv'
  <2>1. typed'
    BY <1>t, <1>r, <1>5 DEF Cli!launch_server, Cli!Goto, Place, ChildState
  <2>2. Cli!SessionsKnown'
    BY <1>t, <1>r, <1>5 DEF ClientInv, Cli!launch_server, Cli!Goto, Cli!SessionsKnown
  <2>3. Cli!NobodyPastOld'
    BY <1>t, <1>r, <1>5 DEF ClientInv, Cli!launch_server, Cli!Goto, Cli!SessionsKnown, Cli!NobodyPastOld, Cli!ChildAwaited
  <2>4. Cli!ChildAwaited'
    BY <1>t, <1>5 DEF ClientInv, Cli!launch_server, Cli!Goto, Cli!ChildAwaited
  <2>5. Cli!SomebodyStarts'
    BY <1>t, <1>r, <1>5 DEF ClientInv, Cli!launch_server, Cli!Goto, Cli!SomebodyStarts, Cli!ChildAwaited
  <2> QED BY <2>1, <2>2, <2>3, <2>4, <2>5 DEF ClientInv
<1>6. ASSUME NEW c \in Cli!Clients, Cli!adb_main(c) PROVE ClientInv'
  <2>1. typed'
    BY <1>t, <1>r, <1>6 DEF Cli!adb_main, ServerRec, Place, ChildState
  <2>2. Cli!SessionsKnown'
    <3>1. \A d \in Cli!Clients : sess[d].id <= count /\ sess[d].id \in Nat
      <4>1. \A d \in Cli!Clients : sess[d] \in ServerRec
        BY <1>t
      <4>2. \A d \in Cli!Clients : sess[d].id \in Nat
        BY <4>1, <1>r, Zenon
      <4> QED BY <4>2 DEF ClientInv, Cli!SessionsKnown
    <3>2. CASE server = Cli!None
      <4>1. server'.id = count + 1 /\ sess' = sess /\ count' = count + 1
        BY <1>6, <3>2 DEF Cli!adb_main
      <4> QED BY <1>t, <3>1, <4>1 DEF Cli!SessionsKnown
    <3>3. CASE server # Cli!None
      <4>1. server' = server /\ sess' = sess /\ count' = count
        BY <1>6, <3>3 DEF Cli!adb_main
      <4> QED BY <4>1 DEF ClientInv, Cli!SessionsKnown
    <3> QED BY <3>2, <3>3
  <2>3. Cli!NobodyPastOld'
    BY <1>t, <1>r, <1>6 DEF ClientInv, Cli!adb_main, Cli!SessionsKnown, Cli!NobodyPastOld, Cli!ChildAwaited
  <2>4. Cli!ChildAwaited'
    BY <1>t, <1>6 DEF ClientInv, Cli!adb_main, Cli!ChildAwaited
  <2>5. Cli!SomebodyStarts'
    BY <1>t, <1>r, <1>6 DEF ClientInv, Cli!adb_main, Cli!SomebodyStarts, Cli!ChildAwaited
  <2> QED BY <2>1, <2>2, <2>3, <2>4, <2>5 DEF ClientInv
<1>7. ASSUME NEW c \in Cli!Clients, Cli!ReadOk(c) PROVE ClientInv'
  <2>1. typed'
    BY <1>t, <1>r, <1>7 DEF Cli!ReadOk, Cli!Goto, Place, ChildState
  <2>2. Cli!SessionsKnown'
    BY <1>t, <1>r, <1>7 DEF ClientInv, Cli!ReadOk, Cli!Goto, Cli!SessionsKnown
  <2>3. Cli!NobodyPastOld'
    BY <1>t, <1>r, <1>7 DEF ClientInv, Cli!ReadOk, Cli!Goto, Cli!SessionsKnown, Cli!NobodyPastOld, Cli!ChildAwaited
  <2>4. Cli!ChildAwaited'
    BY <1>t, <1>7 DEF ClientInv, Cli!ReadOk, Cli!Goto, Cli!ChildAwaited
  <2>5. Cli!SomebodyStarts'
    BY <1>t, <1>r, <1>7 DEF ClientInv, Cli!ReadOk, Cli!Goto, Cli!SomebodyStarts, Cli!ChildAwaited
  <2> QED BY <2>1, <2>2, <2>3, <2>4, <2>5 DEF ClientInv
<1>8. ASSUME NEW c \in Cli!Clients, Cli!ConnectService(c) PROVE ClientInv'
  <2>1. typed'
    <3>1. /\ lpc' \in [Cli!Clients -> Place] /\ sess' \in [Cli!Clients -> ServerRec]
          /\ server' = server /\ count' = count /\ child' = child
      BY <1>t, <1>8 DEF Cli!ConnectService, Cli!Connected, Cli!Goto, Place
    <3>2. server # Cli!None => server.version = Version
      <4>1. server \in ServerRec
        BY <1>t
      <4>2. server.version \in {0, Version, Old} /\ (server.version = 0 => server = Cli!None)
        BY <4>1, <1>r, Zenon
      <4>3. server.version # Old
        BY <1>8 DEF Cli!ConnectService, ClientInv, Cli!NobodyPastOld
      <4> QED BY <4>2, <4>3
    <3>3. served' \in [Cli!Clients -> SUBSET {Version}]
      BY <1>t, <1>8, <3>2 DEF Cli!ConnectService
    <3> QED BY <1>t, <3>1, <3>3
  <2>2. Cli!SessionsKnown'
    BY <1>t, <1>r, <1>8 DEF ClientInv, Cli!ConnectService, Cli!Connected, Cli!Goto, Cli!SessionsKnown
  <2>3. Cli!NobodyPastOld'
    BY <1>t, <1>r, <1>8 DEF ClientInv, Cli!ConnectService, Cli!Connected, Cli!Goto, Cli!SessionsKnown, Cli!NobodyPastOld, Cli!ChildAwaited
  <2>4. Cli!ChildAwaited'
    BY <1>t, <1>8 DEF ClientInv, Cli!ConnectService, Cli!Connected, Cli!Goto, Cli!ChildAwaited
  <2>5. Cli!SomebodyStarts'
    BY <1>t, <1>r, <1>8 DEF ClientInv, Cli!ConnectService, Cli!Connected, Cli!Goto, Cli!SomebodyStarts, Cli!ChildAwaited
  <2> QED BY <2>1, <2>2, <2>3, <2>4, <2>5 DEF ClientInv
<1>9. ASSUME NEW c \in Cli!Clients, Cli!KillServer(c) PROVE ClientInv'
  <2>1. typed'
    BY <1>t, <1>r, <1>9 DEF Cli!KillServer, Cli!Goto, Place, ChildState
  <2>2. Cli!SessionsKnown'
    <3>1. server' = Cli!None /\ sess' = sess /\ count' = count
      BY <1>9 DEF Cli!KillServer
    <3>2. \A d \in Cli!Clients : sess[d] \in ServerRec /\ sess[d].id <= count
      BY DEF ClientInv, Cli!SessionsKnown
    <3>3. \A d \in Cli!Clients : sess[d].id = 0 => sess[d] = Cli!None
      BY <3>2, <1>r, Zenon
    <3> QED BY <1>t, <3>1, <3>2, <3>3 DEF Cli!SessionsKnown
  <2>3. Cli!NobodyPastOld'
    BY <1>t, <1>r, <1>9 DEF ClientInv, Cli!KillServer, Cli!Goto, Cli!SessionsKnown, Cli!NobodyPastOld, Cli!ChildAwaited
  <2>4. Cli!ChildAwaited'
    BY <1>t, <1>9 DEF ClientInv, Cli!KillServer, Cli!Goto, Cli!ChildAwaited
  <2>5. Cli!SomebodyStarts'
    BY <1>t, <1>r, <1>9 DEF ClientInv, Cli!KillServer, Cli!Goto, Cli!SomebodyStarts, Cli!ChildAwaited
  <2> QED BY <2>1, <2>2, <2>3, <2>4, <2>5 DEF ClientInv
<1> QED BY <1>1, <1>2, <1>3, <1>4, <1>5, <1>6, <1>7, <1>8, <1>9 DEF Cli!Next, Cli!Step

LEMMA ClientRight ==
    ASSUME ClientInv
    PROVE  Cli!ServedByOwnVersion /\ Cli!ServerLeft
  BY NoServer, ClientPlaces, AdbVersions DEF ClientInv, ServerRec, Cli!ServedByOwnVersion, Cli!ServerLeft,
     Cli!Running, Cli!NobodyPastOld, Cli!SomebodyStarts

-----------------------------------------------------------------------------
(* Numbers, ranks and places                                               *)

\* The parts count as the whole does.
LEMMA SameCount ==
    \A S : /\ Jdw!Cardinality(S) = Cardinality(S) /\ Srv!Cardinality(S) = Cardinality(S)
           /\ Evt!Cardinality(S) = Cardinality(S)
<1>1. \A S : Jdw!Cardinality(S) = Cardinality(S)
  BY Zenon DEF Jdw!Cardinality, Cardinality
<1>2. \A S : Srv!Cardinality(S) = Cardinality(S)
  BY Zenon DEF Srv!Cardinality, Cardinality
<1>3. \A S : Evt!Cardinality(S) = Cardinality(S)
  BY Zenon DEF Evt!Cardinality, Cardinality
<1> QED BY <1>1, <1>2, <1>3

\* A set of numbers has a least one.
LEMMA LeastNumber ==
    ASSUME NEW S \in SUBSET Nat, S # {}
    PROVE  \E x \in S : \A y \in S : x <= y
<1> DEFINE R == OpToRel(<, Nat)
<1>1. IsWellFoundedOn(R, Nat)
  BY NatLessThanWellFounded
<1>2. \E x \in S : \A y \in S : ~(<<y, x>> \in R)
  <2> HIDE DEF R
  <2> QED BY <1>1, WFMin
<1>3. PICK x \in S : \A y \in S : ~(<<y, x>> \in R)
  BY <1>2
<1>4. ASSUME NEW y \in S PROVE x <= y
  <2>1. ~(y < x)
    BY <1>3 DEF OpToRel
  <2> QED BY <2>1
<1> QED BY <1>4

\* Induction, as a fact about sets of numbers.
LEMMA AllNumbers ==
    ASSUME NEW S \in SUBSET Nat, 0 \in S, \A k \in S : k + 1 \in S
    PROVE  S = Nat
<1> SUFFICES ASSUME Nat \ S # {} PROVE FALSE
  OBVIOUS
<1>1. PICK x \in Nat \ S : \A y \in Nat \ S : x <= y
  <2>1. Nat \ S \in SUBSET Nat
    OBVIOUS
  <2> QED BY <2>1, LeastNumber
<1>2. x - 1 \in Nat /\ x - 1 \notin Nat \ S
  BY <1>1
<1> QED BY <1>1, <1>2

\* The place of a number in a finite set counts the ones up to it: every place
\* is taken, by one number.
LEMMA Ranks ==
    ASSUME NEW S \in SUBSET Nat, IsFiniteSet(S)
    PROVE  /\ Cardinality(S) \in Nat
           /\ \A k \in 1 .. Cardinality(S) : \E i \in S : Cardinality({j \in S : j <= i}) = k
           /\ \A i, m \in S : Cardinality({j \in S : j <= i}) = Cardinality({j \in S : j <= m}) => i = m
           /\ \A i \in S : Cardinality({j \in S : j <= i}) \in 1 .. Cardinality(S)
<1> DEFINE Upto(i) == {j \in S : j <= i}
<1> DEFINE rank == [i \in S |-> Cardinality(Upto(i))]
<1>1. Cardinality(S) \in Nat
  BY FS_CardinalityType
<1>2. ASSUME NEW i \in S
      PROVE  IsFiniteSet(Upto(i)) /\ Cardinality(Upto(i)) \in 1 .. Cardinality(S)
  <2>1. Upto(i) \in SUBSET S /\ Upto(i) # {}
    OBVIOUS
  <2> HIDE DEF Upto
  <2>2. IsFiniteSet(Upto(i)) /\ Cardinality(Upto(i)) <= Cardinality(S)
    BY <2>1, FS_Subset
  <2>3. Cardinality(Upto(i)) \in Nat /\ Cardinality(Upto(i)) # 0
    BY <2>1, <2>2, FS_CardinalityType, FS_EmptySet
  <2> QED BY <1>1, <2>2, <2>3
<1>3. ASSUME NEW i \in S, NEW m \in S, i < m PROVE Cardinality(Upto(i)) # Cardinality(Upto(m))
  <2>0. (\A j \in S : j <= i => j <= m) /\ m <= m /\ ~(m <= i)
    BY <1>3
  <2>1. Upto(i) \in SUBSET Upto(m) /\ m \in Upto(m) /\ m \notin Upto(i)
    BY <2>0
  <2>2. IsFiniteSet(Upto(m))
    BY <1>2
  <2> HIDE DEF Upto
  <2> QED BY <2>1, <2>2, FS_Subset
<1>4. \A i, m \in S : Cardinality(Upto(i)) = Cardinality(Upto(m)) => i = m
  BY <1>3
<1>5. rank \in Injection(S, 1 .. Cardinality(S))
  BY <1>2, <1>4 DEF Injection, IsInjective
<1>6. IsFiniteSet(1 .. Cardinality(S)) /\ Cardinality(1 .. Cardinality(S)) = Cardinality(S)
  BY <1>1, FS_Interval
<1>7. rank \in Surjection(S, 1 .. Cardinality(S))
  <2> HIDE DEF rank
  <2> QED BY <1>5, <1>6, FS_Injection
<1>8. \A k \in 1 .. Cardinality(S) : \E i \in S : Cardinality(Upto(i)) = k
  BY <1>7 DEF Surjection
<1> QED BY <1>1, <1>2, <1>4, <1>8

\* A sequence without its i-th element.
LEMMA LeftOut ==
    ASSUME NEW S, NEW s \in Seq(S), NEW i \in 1 .. Len(s)
    PROVE  LET w == SubSeq(s, 1, i - 1) \o SubSeq(s, i + 1, Len(s))
           IN  /\ w \in Seq(S) /\ Len(w) = Len(s) - 1
               /\ \A k \in 1 .. Len(w) : w[k] = IF k < i THEN s[k] ELSE s[k + 1]
<1> DEFINE a == SubSeq(s, 1, i - 1)
           b == SubSeq(s, i + 1, Len(s))
<1>1. Len(s) \in Nat /\ \A k \in 1 .. Len(s) : s[k] \in S
  BY LenProperties, ElementOfSeq
<1>2. a \in Seq(S) /\ Len(a) = i - 1 /\ \A k \in 1 .. i - 1 : a[k] = s[k]
  <2>1. \A k \in 1 .. i - 1 : s[k] \in S
    BY <1>1
  <2> QED BY <1>1, <2>1, SubSeqProperties
<1>3. b \in Seq(S) /\ Len(b) = Len(s) - i /\ \A k \in 1 .. Len(s) - i : b[k] = s[i + k]
  <2>1. \A k \in i + 1 .. Len(s) : s[k] \in S
    BY <1>1
  <2> QED BY <1>1, <2>1, SubSeqProperties
<1> HIDE DEF a, b
<1>4. /\ a \o b \in Seq(S) /\ Len(a \o b) = Len(a) + Len(b)
      /\ \A k \in 1 .. Len(a) + Len(b) : (a \o b)[k] = IF k <= Len(a) THEN a[k] ELSE b[k - Len(a)]
  BY <1>2, <1>3, ConcatProperties
<1>5. ASSUME NEW k \in 1 .. Len(s) - 1 PROVE (a \o b)[k] = IF k < i THEN s[k] ELSE s[k + 1]
  <2>1. CASE k < i
    BY <1>1, <1>2, <1>3, <1>4, <2>1
  <2>2. CASE ~(k < i)
    <3>1. (a \o b)[k] = b[k - (i - 1)]
      BY <1>1, <1>2, <1>3, <1>4, <2>2
    <3>2. PICK m \in 1 .. Len(s) - i : m = k - (i - 1)
      BY <1>1, <2>2
    <3>3. b[m] = s[i + m]
      BY <1>3
    <3>4. i + m = k + 1
      BY <1>1, <3>2
    <3> QED BY <2>2, <3>1, <3>2, <3>3, <3>4
  <2> QED BY <2>1, <2>2
<1>6. Len(a \o b) = Len(s) - 1
  BY <1>1, <1>2, <1>3, <1>4
<1> QED BY <1>4, <1>5, <1>6 DEF a, b

-----------------------------------------------------------------------------
(* The registry of debuggers                                               *)

Proc == [vm : Vms, pid : Nat \cup {-1}, in_len : Nat, out : Seq(1 .. MaxFds)]
Tracker == [need : BOOLEAN, last : Seq(Int)]
FdState == {"none", "queued", "sent", "closed"}

JdwpTyped ==
    /\ procs \in Seq(Proc) /\ trackers \in Seq(Tracker) /\ sent \in [Vms -> Nat]
    /\ fd \in [1 .. MaxFds -> FdState] /\ owner \in [1 .. MaxFds -> Int]

JdwpInv == JdwpTyped /\ Jdw!JdwpTold /\ Jdw!QueuesApart /\ Jdw!QueuesMarked /\ Jdw!MarkedQueued

\* The list of pids depends on the pids that are known.
LEMMA PidsListed ==
    ASSUME NEW ps \in Seq(Proc)
    PROVE  Jdw!ListOf(ps) \in Seq(Int)
<1> DEFINE f == Jdw!Known(ps)
           D == DOMAIN f
<1>1. Len(ps) \in Nat /\ \A k \in 1 .. Len(ps) : ps[k].pid \in Int
  <2>1. Len(ps) \in Nat /\ \A k \in 1 .. Len(ps) : ps[k] \in Proc
    BY LenProperties, ElementOfSeq
  <2>2. \A p \in Proc : p.pid \in Int
    BY DEF Proc
  <2> QED BY <2>1, <2>2
<1>2. D \in SUBSET (1 .. Len(ps)) /\ \A k \in D : f[k] \in Int
  <2>1. DOMAIN ps = 1 .. Len(ps)
    BY LenProperties
  <2> QED BY <1>1, <2>1 DEF Jdw!Known
<1>3. D \in SUBSET Nat /\ IsFiniteSet(D)
  <2>1. 1 \in Int /\ Len(ps) \in Int
    BY <1>1
  <2>2. IsFiniteSet(1 .. Len(ps))
    BY <2>1, FS_Interval
  <2> HIDE DEF D
  <2>3. IsFiniteSet(D)
    BY <1>2, <2>2, FS_Subset
  <2> QED BY <1>2, <2>3
<1> HIDE DEF f
<1>4. /\ Cardinality(D) \in Nat
      /\ \A k \in 1 .. Cardinality(D) : \E i \in D : Cardinality({j \in D : j <= i}) = k
  <2> HIDE DEF D
  <2> QED BY <1>3, Ranks
<1>5. \A k \in 1 .. Jdw!Cardinality(D) :
          f[CHOOSE i \in D : Jdw!Cardinality({j \in D : j <= i}) = k] \in Int
  <2>1. \A k \in 1 .. Jdw!Cardinality(D) : \E i \in D : Jdw!Cardinality({j \in D : j <= i}) = k
    BY <1>4, SameCount
  <2> QED BY <1>2, <2>1
<1>6. Jdw!InOrder(f) \in Seq(Int)
  <2>1. Jdw!InOrder(f) \in [1 .. Jdw!Cardinality(D) -> Int]
    BY <1>5, Zenon DEF Jdw!InOrder
  <2> HIDE DEF D
  <2> QED BY <1>4, <2>1, SameCount, SeqDef
<1> QED BY <1>6 DEF Jdw!ListOf, f

LEMMA SamePids ==
    ASSUME NEW ps \in Seq(Proc), NEW qs \in Seq(Proc), Len(ps) = Len(qs),
           \A k \in 1 .. Len(ps) : ps[k].pid = qs[k].pid
    PROVE  Jdw!ListOf(ps) = Jdw!ListOf(qs)
<1>1. DOMAIN ps = 1 .. Len(ps) /\ DOMAIN qs = 1 .. Len(ps)
  BY LenProperties
<1>2. Jdw!Known(ps) = Jdw!Known(qs)
  BY <1>1 DEF Jdw!Known
<1> QED BY <1>2 DEF Jdw!ListOf

LEMMA UnknownPid ==
    ASSUME NEW ps \in Seq(Proc), NEW p \in Proc, p.pid = -1
    PROVE  Jdw!ListOf(Append(ps, p)) = Jdw!ListOf(ps)
<1> DEFINE qs == Append(ps, p)
<1>1. /\ Len(ps) \in Nat /\ DOMAIN ps = 1 .. Len(ps) /\ DOMAIN qs = 1 .. Len(ps) + 1
      /\ qs[Len(ps) + 1] = p /\ \A k \in 1 .. Len(ps) : qs[k] = ps[k]
  BY LenProperties, AppendProperties
<1> HIDE DEF qs
<1>2. {k \in DOMAIN qs : qs[k].pid # Jdw!NoPid} = {k \in DOMAIN ps : ps[k].pid # Jdw!NoPid}
  BY <1>1 DEF Jdw!NoPid
<1>3. Jdw!Known(qs) = Jdw!Known(ps)
  BY <1>1, <1>2 DEF Jdw!Known
<1> QED BY <1>3 DEF Jdw!ListOf, qs

\* Trackers that are told of a list hold it.
LEMMA TrackersTold ==
    ASSUME JdwpTyped, NEW ps \in Seq(Proc)
    PROVE  LET new == Jdw!Told(ps)
           IN  new \in Seq(Tracker) /\ \A k \in DOMAIN new : new[k].last = Jdw!ListOf(ps)
<1> DEFINE l == Jdw!ListOf(ps)
<1>1. l \in Seq(Int)
  BY PidsListed
<1>2. Len(trackers) \in Nat /\ DOMAIN trackers = 1 .. Len(trackers) /\ \A k \in 1 .. Len(trackers) : trackers[k] \in Tracker
  BY LenProperties, ElementOfSeq DEF JdwpTyped
<1> HIDE DEF l
<1>3. \A t \in Tracker : [t EXCEPT !.last = l] \in Tracker /\ [t EXCEPT !.last = l].last = l
  BY <1>1 DEF Tracker
<1>4. Jdw!Told(ps) = [k \in 1 .. Len(trackers) |-> [trackers[k] EXCEPT !.last = l]]
  BY <1>2 DEF Jdw!Told, l
<1> DEFINE new == Jdw!Told(ps)
<1>5. new \in [1 .. Len(trackers) -> Tracker] /\ \A k \in 1 .. Len(trackers) : new[k].last = l
  <2> DEFINE told(t) == [t EXCEPT !.last = l]
  <2>1. \A t \in Tracker : told(t) \in Tracker /\ told(t).last = l
    BY <1>3
  <2>2. new = [k \in 1 .. Len(trackers) |-> told(trackers[k])]
    BY <1>4
  <2> HIDE DEF told, new
  <2>3. \A k \in 1 .. Len(trackers) : told(trackers[k]) \in Tracker /\ told(trackers[k]).last = l
    BY <1>2, <2>1, Zenon
  <2> QED BY <2>2, <2>3
<1> HIDE DEF new
<1>6. new \in Seq(Tracker) /\ DOMAIN new = 1 .. Len(trackers)
  BY <1>2, <1>5, SeqDef
<1> QED BY <1>5, <1>6 DEF l, new

\* The processes, their queues and the trackers, as sequences.
LEMMA JdwpShapes ==
    ASSUME JdwpInv
    PROVE  /\ Len(procs) \in Nat /\ DOMAIN procs = 1 .. Len(procs)
           /\ \A i \in 1 .. Len(procs) :
                 /\ procs[i] \in Proc /\ procs[i].out \in Seq(1 .. MaxFds)
                 /\ Len(procs[i].out) \in Nat /\ DOMAIN procs[i].out = 1 .. Len(procs[i].out)
                 /\ \A a \in 1 .. Len(procs[i].out) : procs[i].out[a] \in 1 .. MaxFds
           /\ Len(trackers) \in Nat /\ DOMAIN trackers = 1 .. Len(trackers)
           /\ \A k \in 1 .. Len(trackers) : trackers[k] \in Tracker
<1>1. Len(procs) \in Nat /\ DOMAIN procs = 1 .. Len(procs) /\ \A i \in 1 .. Len(procs) : procs[i] \in Proc
  BY LenProperties, ElementOfSeq DEF JdwpInv, JdwpTyped
<1>2. Len(trackers) \in Nat /\ DOMAIN trackers = 1 .. Len(trackers) /\ \A k \in 1 .. Len(trackers) : trackers[k] \in Tracker
  BY LenProperties, ElementOfSeq DEF JdwpInv, JdwpTyped
<1>3. \A p \in Proc : p.out \in Seq(1 .. MaxFds)
  BY DEF Proc
<1>4. \A s \in Seq(1 .. MaxFds) :
         Len(s) \in Nat /\ DOMAIN s = 1 .. Len(s) /\ \A a \in 1 .. Len(s) : s[a] \in 1 .. MaxFds
  BY LenProperties, ElementOfSeq
<1>5. \A i \in 1 .. Len(procs) : procs[i].out \in Seq(1 .. MaxFds)
  BY <1>1, <1>3
<1>6. \A i \in 1 .. Len(procs) :
         /\ Len(procs[i].out) \in Nat /\ DOMAIN procs[i].out = 1 .. Len(procs[i].out)
         /\ \A a \in 1 .. Len(procs[i].out) : procs[i].out[a] \in 1 .. MaxFds
  BY <1>4, <1>5, Zenon
<1> QED BY <1>1, <1>2, <1>5, <1>6

\* jdwp_process_free: the queues of the others move up by one place.
LEMMA ProcessFreed ==
    ASSUME JdwpInv, NEW i \in DOMAIN procs, Jdw!jdwp_process_free(i), UNCHANGED <<sent, owner>>
    PROVE  JdwpInv'
<1> DEFINE w == Jdw!Without(procs, i)
           gone == Jdw!Elements(procs[i].out)
           from(k) == IF k < i THEN k ELSE k + 1
<1>1. procs \in Seq(Proc) /\ i \in 1 .. Len(procs) /\ Len(procs) \in Nat
  BY JdwpShapes DEF JdwpInv, JdwpTyped
<1>2. /\ w \in Seq(Proc) /\ Len(w) = Len(procs) - 1
      /\ \A k \in 1 .. Len(w) : w[k] = IF k < i THEN procs[k] ELSE procs[k + 1]
  BY <1>1, LeftOut DEF Jdw!Without
<1>3. procs' = w /\ trackers' = Jdw!Told(w) /\ sent' = sent /\ owner' = owner
  BY DEF Jdw!jdwp_process_free
<1>4. fd' = [f \in DOMAIN fd |-> IF f \in gone THEN "closed" ELSE fd[f]]
  BY DEF Jdw!jdwp_process_free
<1>5. DOMAIN w = 1 .. Len(procs) - 1
  BY <1>1, <1>2, LenProperties
<1> HIDE DEF w
<1>6. \A k \in DOMAIN w : w[k] = procs[from(k)] /\ from(k) \in DOMAIN procs /\ from(k) # i
  BY <1>1, <1>2, <1>5, JdwpShapes
<1>7. \A k, m \in DOMAIN w : from(k) = from(m) => k = m
  BY <1>1, <1>5
<1>8. \A j \in DOMAIN procs : j # i => \E k \in DOMAIN w : from(k) = j
  <2> SUFFICES ASSUME NEW j \in DOMAIN procs, j # i PROVE \E k \in DOMAIN w : from(k) = j
    OBVIOUS
  <2>1. j \in 1 .. Len(procs)
    BY JdwpShapes
  <2>2. CASE j < i
    BY <1>1, <1>5, <2>1, <2>2
  <2>3. CASE j > i
    <3>1. j - 1 \in DOMAIN w /\ from(j - 1) = j
      BY <1>1, <1>5, <2>1, <2>3
    <3> QED BY <3>1
  <2> QED BY <1>1, <2>1, <2>2, <2>3
<1> HIDE DEF from
<1>9. \A x : x \in gone <=> \E a \in DOMAIN procs[i].out : procs[i].out[a] = x
  BY DEF Jdw!Elements
<1> HIDE DEF gone
<1>t. /\ fd \in [1 .. MaxFds -> FdState] /\ DOMAIN fd = 1 .. MaxFds
      /\ \A k \in DOMAIN procs : \A a \in DOMAIN procs[k].out : procs[k].out[a] \in DOMAIN fd
  BY JdwpShapes DEF JdwpInv, JdwpTyped
<1>10. JdwpTyped'
  <2>1. trackers' \in Seq(Tracker)
    BY <1>2, <1>3, TrackersTold DEF JdwpInv
  <2>2. fd' \in [1 .. MaxFds -> FdState]
    BY <1>4, <1>t DEF FdState
  <2> QED BY <1>2, <1>3, <2>1, <2>2 DEF JdwpInv, JdwpTyped
<1>11. Jdw!JdwpTold'
  BY <1>2, <1>3, TrackersTold DEF JdwpInv, Jdw!JdwpTold
<1>12. Jdw!QueuesApart'
  BY <1>3, <1>6, <1>7 DEF JdwpInv, Jdw!QueuesApart
<1>13. Jdw!QueuesMarked'
  <2> SUFFICES ASSUME NEW k \in DOMAIN w, NEW a \in DOMAIN w[k].out
               PROVE  fd'[w[k].out[a]] = "queued" /\ owner[w[k].out[a]] = w[k].pid
    BY <1>3 DEF Jdw!QueuesMarked
  <2>1. w[k].out[a] \notin gone
    BY <1>6, <1>9 DEF JdwpInv, Jdw!QueuesApart
  <2>2. fd[w[k].out[a]] = "queued" /\ owner[w[k].out[a]] = w[k].pid /\ w[k].out[a] \in DOMAIN fd
    BY <1>6, <1>t DEF JdwpInv, Jdw!QueuesMarked
  <2> QED BY <1>4, <2>1, <2>2
<1>14. Jdw!MarkedQueued'
  <2>1. DOMAIN fd' = DOMAIN fd
    BY <1>4
  <2> SUFFICES ASSUME NEW f \in DOMAIN fd, fd'[f] = "queued"
               PROVE  owner[f] # Jdw!NoPid /\ \E k \in DOMAIN w : \E a \in DOMAIN w[k].out : w[k].out[a] = f
    BY <1>3, <2>1 DEF Jdw!MarkedQueued
  <2>2. fd[f] = "queued" /\ f \notin gone
    BY <1>4
  <2>3. PICK j \in DOMAIN procs : \E a \in DOMAIN procs[j].out : procs[j].out[a] = f
    BY <2>2 DEF JdwpInv, Jdw!MarkedQueued
  <2>4. j # i
    BY <1>9, <2>2, <2>3
  <2>5. PICK k \in DOMAIN w : from(k) = j
    BY <1>8, <2>4
  <2>6. w[k] = procs[j]
    BY <1>6, <2>5
  <2> QED BY <2>2, <2>3, <2>6 DEF JdwpInv, Jdw!MarkedQueued
<1> QED BY <1>10, <1>11, <1>12, <1>13, <1>14 DEF JdwpInv

\* A process whose queue and pid are what they were, or whose pid becomes known.
LEMMA ProcessKept ==
    ASSUME JdwpInv, NEW i \in DOMAIN procs, NEW p \in Proc, p.out = procs[i].out,
           p.pid = procs[i].pid \/ procs[i].pid = Jdw!NoPid,
           procs' = [procs EXCEPT ![i] = p], UNCHANGED <<fd, owner>>
    PROVE  /\ procs' \in Seq(Proc)
           /\ Jdw!QueuesApart' /\ Jdw!QueuesMarked' /\ Jdw!MarkedQueued'
           /\ p.pid = procs[i].pid => Jdw!ListOf(procs') = Jdw!ListOf(procs)
<1>1. procs \in Seq(Proc) /\ i \in 1 .. Len(procs) /\ Len(procs) \in Nat /\ DOMAIN procs = 1 .. Len(procs)
  BY JdwpShapes DEF JdwpInv, JdwpTyped
<1>2. procs' \in Seq(Proc) /\ Len(procs') = Len(procs) /\ DOMAIN procs' = DOMAIN procs
  BY <1>1, ExceptSeq, LenProperties
<1>3. \A k \in DOMAIN procs : procs'[k] = IF k = i THEN p ELSE procs[k]
  BY <1>1
<1>4. \A k \in DOMAIN procs : procs'[k].out = procs[k].out
  BY <1>3
<1>5. \A k \in DOMAIN procs : procs[k].out # <<>> => procs'[k].pid = procs[k].pid
  <2> SUFFICES ASSUME procs[i].out # <<>> PROVE procs[i].pid # Jdw!NoPid
    BY <1>3
  <2>1. procs[i].out \in Seq(1 .. MaxFds)
    BY <1>1, JdwpShapes
  <2>2. 1 \in DOMAIN procs[i].out
    BY <2>1, EmptySeq, LenProperties
  <2>3. procs[i].out[1] \in DOMAIN fd
    BY <1>1, <2>2, JdwpShapes DEF JdwpInv, JdwpTyped
  <2>4. fd[procs[i].out[1]] = "queued" /\ owner[procs[i].out[1]] = procs[i].pid
    BY <2>2 DEF JdwpInv, Jdw!QueuesMarked
  <2> QED BY <2>3, <2>4 DEF JdwpInv, Jdw!MarkedQueued
<1>6. Jdw!QueuesApart'
  BY <1>2, <1>4 DEF JdwpInv, Jdw!QueuesApart
<1>7. Jdw!QueuesMarked'
  <2>1. \A k \in DOMAIN procs : \A a \in DOMAIN procs[k].out : procs'[k].pid = procs[k].pid
    <3> SUFFICES ASSUME NEW k \in DOMAIN procs, NEW a \in DOMAIN procs[k].out PROVE procs[k].out # <<>>
      BY <1>5
    <3> QED OBVIOUS
  <2> QED BY <1>2, <1>4, <2>1 DEF JdwpInv, Jdw!QueuesMarked
<1>8. Jdw!MarkedQueued'
  BY <1>2, <1>4 DEF JdwpInv, Jdw!MarkedQueued
<1>9. p.pid = procs[i].pid => Jdw!ListOf(procs') = Jdw!ListOf(procs)
  <2>1. p.pid = procs[i].pid => \A k \in 1 .. Len(procs) : procs'[k].pid = procs[k].pid
    BY <1>1, <1>3
  <2> QED BY <1>1, <1>2, <2>1, SamePids
<1> QED BY <1>2, <1>6, <1>7, <1>8, <1>9

\* Every handler keeps the registry true.
LEMMA JdwpSafe ==
    ASSUME JdwpInv, [Jdw!Next]_jdw
    PROVE  JdwpInv'
<1> DEFINE Queues == Jdw!QueuesApart /\ Jdw!QueuesMarked /\ Jdw!MarkedQueued
<1>t. /\ procs \in Seq(Proc) /\ trackers \in Seq(Tracker) /\ sent \in [Vms -> Nat]
      /\ fd \in [1 .. MaxFds -> FdState] /\ owner \in [1 .. MaxFds -> Int]
  BY DEF JdwpInv, JdwpTyped
<1>0. UNCHANGED <<procs, fd, owner>> => Queues'
  BY DEF JdwpInv, Jdw!QueuesApart, Jdw!QueuesMarked, Jdw!MarkedQueued
<1>1. CASE UNCHANGED jdw
  BY <1>0, <1>1 DEF jdw, JdwpInv, JdwpTyped, Jdw!JdwpTold
<1>2. ASSUME NEW v \in Vms, Jdw!VmConnects(v) \/ Jdw!VmWrites(v) \/ Jdw!VmExits(v) PROVE JdwpInv'
  <2>1. UNCHANGED <<procs, fd, owner, trackers>> /\ sent' \in [Vms -> Nat]
    BY <1>2, <1>t DEF Jdw!VmConnects, Jdw!VmWrites, Jdw!VmExits
  <2> QED BY <1>0, <2>1 DEF JdwpInv, JdwpTyped, Jdw!JdwpTold
<1>3. ASSUME NEW v \in Vms, Jdw!jdwp_control_event(v) PROVE JdwpInv'
  <2> DEFINE p == Jdw!jdwp_process_alloc(v)
  <2>1. p \in Proc /\ p.pid = -1 /\ p.out = <<>>
    BY DEF Jdw!jdwp_process_alloc, Jdw!NoPid, Proc
  <2>2. procs' = Append(procs, p) /\ UNCHANGED <<sent, fd, owner, trackers>>
    BY <1>3 DEF Jdw!jdwp_control_event
  <2> HIDE DEF p
  <2>3. /\ procs' \in Seq(Proc) /\ Jdw!ListOf(procs') = Jdw!ListOf(procs)
        /\ DOMAIN procs' = 1 .. Len(procs) + 1 /\ procs'[Len(procs) + 1] = p
        /\ \A k \in 1 .. Len(procs) : procs'[k] = procs[k]
    BY <1>t, <2>1, <2>2, AppendProperties, UnknownPid, LenProperties
  <2>4. DOMAIN procs = 1 .. Len(procs) /\ Len(procs) \in Nat
    BY JdwpShapes
  <2>5. \A k \in DOMAIN procs' : (k \in DOMAIN procs /\ procs'[k] = procs[k]) \/ procs'[k].out = <<>>
    BY <2>1, <2>3, <2>4
  <2>6. \A k \in DOMAIN procs' : \A a \in DOMAIN procs'[k].out : k \in DOMAIN procs /\ procs'[k] = procs[k]
    BY <2>5
  <2>7. \A k \in DOMAIN procs : k \in DOMAIN procs' /\ procs'[k] = procs[k]
    BY <2>3, <2>4
  <2>8. Jdw!QueuesApart'
    BY <2>6 DEF JdwpInv, Jdw!QueuesApart
  <2>9. Jdw!QueuesMarked'
    BY <2>2, <2>6 DEF JdwpInv, Jdw!QueuesMarked
  <2>10. Jdw!MarkedQueued'
    BY <2>2, <2>7 DEF JdwpInv, Jdw!MarkedQueued
  <2> QED BY <2>2, <2>3, <2>8, <2>9, <2>10 DEF JdwpInv, JdwpTyped, Jdw!JdwpTold
<1>4. ASSUME NEW i \in DOMAIN procs, Jdw!ReadPid(i) PROVE JdwpInv'
  <2>1. UNCHANGED <<sent, owner>> /\ procs[i].pid = Jdw!NoPid
    BY <1>4 DEF Jdw!ReadPid
  <2>2. CASE Jdw!jdwp_process_free(i)
    BY <2>1, <2>2, ProcessFreed
  <2>3. procs[i] \in Proc /\ i \in 1 .. Len(procs) /\ procs[i].vm \in Vms
    BY JdwpShapes DEF Proc
  <2>4. CASE procs' = [procs EXCEPT ![i].in_len = sent[procs[i].vm]] /\ UNCHANGED <<fd, trackers>>
    <3> DEFINE p == [procs[i] EXCEPT !.in_len = sent[procs[i].vm]]
    <3>1. p \in Proc /\ p.out = procs[i].out /\ p.pid = procs[i].pid
      BY <1>t, <2>3 DEF Proc
    <3>2. procs' = [procs EXCEPT ![i] = p]
      BY <2>4
    <3> HIDE DEF p
    <3>3. procs' \in Seq(Proc) /\ Queues' /\ Jdw!ListOf(procs') = Jdw!ListOf(procs)
      BY <2>1, <2>4, <3>1, <3>2, ProcessKept
    <3> QED BY <2>1, <2>4, <3>3 DEF JdwpInv, JdwpTyped, Jdw!JdwpTold
  <2>5. CASE /\ procs' = [procs EXCEPT ![i].in_len = Jdw!Full, ![i].pid = Pid[procs[i].vm]]
             /\ trackers' = Jdw!Told(procs') /\ UNCHANGED fd
    <3> DEFINE q == [procs[i] EXCEPT !.in_len = 2]
               p == [q EXCEPT !.pid = Pid[procs[i].vm]]
    <3>0. Pid[procs[i].vm] \in Nat
      BY <2>3, AdbProcesses
    <3>1. q \in Proc /\ q.out = procs[i].out
      BY <2>3 DEF Proc
    <3>2. p \in Proc /\ p.out = q.out
      <4> HIDE DEF q
      <4> QED BY <3>0, <3>1 DEF Proc
    <3>3. procs' = [procs EXCEPT ![i] = p]
      BY <1>t, <2>3, <2>5 DEF Jdw!Full
    <3> HIDE DEF p, q
    <3>4. procs' \in Seq(Proc) /\ Queues'
      BY <2>1, <2>5, <3>1, <3>2, <3>3, ProcessKept
    <3>5. trackers' \in Seq(Tracker) /\ \A k \in DOMAIN trackers' : trackers'[k].last = Jdw!ListOf(procs')
      BY <2>5, <3>4, TrackersTold DEF JdwpInv
    <3> QED BY <2>1, <2>5, <3>4, <3>5 DEF JdwpInv, JdwpTyped, Jdw!JdwpTold
  <2> QED BY <1>4, <2>2, <2>4, <2>5 DEF Jdw!ReadPid
<1>5. ASSUME NEW i \in DOMAIN procs, Jdw!ReadEnd(i) PROVE JdwpInv'
  <2>1. Jdw!jdwp_process_free(i) /\ UNCHANGED <<sent, owner>>
    BY <1>5 DEF Jdw!ReadEnd
  <2> QED BY <2>1, ProcessFreed
<1>6. ASSUME NEW i \in DOMAIN procs, Jdw!PassFd(i) PROVE JdwpInv'
  <2>1. UNCHANGED <<sent, owner>> /\ procs[i].out # <<>>
    BY <1>6 DEF Jdw!PassFd
  <2>2. CASE Jdw!jdwp_process_free(i)
    BY <2>1, <2>2, ProcessFreed
  <2>3. CASE /\ fd' = [fd EXCEPT ![Head(procs[i].out)] = "sent"]
             /\ procs' = [procs EXCEPT ![i].out = Tail(@)] /\ UNCHANGED trackers
    <3> DEFINE o == procs[i].out
               p == [procs[i] EXCEPT !.out = Tail(o)]
    <3>1. procs[i] \in Proc /\ i \in 1 .. Len(procs) /\ o \in Seq(1 .. MaxFds) /\ o # <<>> /\ DOMAIN o = 1 .. Len(o)
      BY <2>1, JdwpShapes
    <3>2. /\ Tail(o) \in Seq(1 .. MaxFds) /\ Head(o) = o[1] /\ Len(o) \in Nat \ {0}
          /\ Len(Tail(o)) = Len(o) - 1 /\ DOMAIN Tail(o) = 1 .. Len(o) - 1
          /\ \A a \in 1 .. Len(o) - 1 : Tail(o)[a] = o[a + 1]
      <4> HIDE DEF o
      <4> QED BY <3>1, HeadTailProperties, EmptySeq, LenProperties
    <3>3. p \in Proc /\ p.out = Tail(o) /\ p.pid = procs[i].pid
      BY <3>1, <3>2 DEF Proc
    <3>4. procs' = [procs EXCEPT ![i] = p]
      BY <1>t, <2>3
    <3>5. procs' \in Seq(Proc) /\ Len(procs') = Len(procs) /\ DOMAIN procs' = DOMAIN procs
      BY <1>t, <3>1, <3>3, <3>4, ExceptSeq, LenProperties
    <3> HIDE DEF p
    <3>6. \A k \in DOMAIN procs : procs'[k] = IF k = i THEN p ELSE procs[k]
      BY <1>t, <3>4
    <3>7. Jdw!ListOf(procs') = Jdw!ListOf(procs)
      <4>1. \A k \in 1 .. Len(procs) : procs'[k].pid = procs[k].pid
        BY <3>3, <3>6, JdwpShapes
      <4> QED BY <1>t, <3>5, <4>1, SamePids
    <3> DEFINE shift(k, a) == IF k = i THEN a + 1 ELSE a
    <3>8. \A k \in DOMAIN procs : \A a \in DOMAIN procs'[k].out :
             /\ shift(k, a) \in DOMAIN procs[k].out /\ procs'[k].out[a] = procs[k].out[shift(k, a)]
             /\ k = i => shift(k, a) # 1
      <4>1. \A a \in DOMAIN Tail(o) : a + 1 \in DOMAIN o /\ Tail(o)[a] = o[a + 1] /\ a + 1 # 1
        BY <3>1, <3>2
      <4> QED BY <3>3, <3>6, <4>1
    <3>9. \A k \in DOMAIN procs : \A a \in DOMAIN procs[k].out :
             (k = i /\ a = 1) \/ \E b \in DOMAIN procs'[k].out : shift(k, b) = a
      <4>1. \A a \in DOMAIN o : a = 1 \/ (a - 1 \in DOMAIN Tail(o) /\ (a - 1) + 1 = a)
        BY <3>1, <3>2
      <4> QED BY <3>3, <3>6, <4>1
    <3>10. \A k \in DOMAIN procs : \A a, b \in DOMAIN procs'[k].out : shift(k, a) = shift(k, b) => a = b
      <4>1. \A k \in DOMAIN procs : DOMAIN procs'[k].out \subseteq Int
        BY <3>2, <3>3, <3>6, JdwpShapes
      <4> QED BY <4>1
    <3> HIDE DEF shift
    <3>11. Jdw!QueuesApart'
      BY <3>5, <3>8, <3>10 DEF JdwpInv, Jdw!QueuesApart
    <3>12. fd' \in [1 .. MaxFds -> FdState] /\ \A f \in DOMAIN fd : fd'[f] = IF f = o[1] THEN "sent" ELSE fd[f]
      BY <1>t, <2>3, <3>2 DEF FdState
    <3>13. \A k \in DOMAIN procs : procs'[k].pid = procs[k].pid
      BY <3>3, <3>6
    <3>14. Jdw!QueuesMarked'
      <4> SUFFICES ASSUME NEW k \in DOMAIN procs, NEW a \in DOMAIN procs'[k].out
                   PROVE  fd'[procs'[k].out[a]] = "queued" /\ owner[procs'[k].out[a]] = procs'[k].pid
        BY <2>1, <3>5 DEF Jdw!QueuesMarked
      <4>1. /\ shift(k, a) \in DOMAIN procs[k].out /\ procs'[k].out[a] = procs[k].out[shift(k, a)]
            /\ k = i => shift(k, a) # 1
        BY <3>8
      <4>2. 1 \in DOMAIN o
        BY <3>1, <3>2
      <4>3. procs'[k].out[a] # o[1]
        BY <4>1, <4>2 DEF JdwpInv, Jdw!QueuesApart
      <4>4. procs'[k].out[a] \in DOMAIN fd
        BY <1>t, <4>1, JdwpShapes
      <4>5. fd[procs'[k].out[a]] = "queued" /\ owner[procs'[k].out[a]] = procs[k].pid
        BY <4>1 DEF JdwpInv, Jdw!QueuesMarked
      <4> QED BY <3>12, <3>13, <4>3, <4>4, <4>5
    <3>15. Jdw!MarkedQueued'
      <4>1. DOMAIN fd' = DOMAIN fd
        BY <1>t, <3>12
      <4> SUFFICES ASSUME NEW f \in DOMAIN fd, fd'[f] = "queued"
                   PROVE  owner[f] # Jdw!NoPid /\ \E k \in DOMAIN procs : \E a \in DOMAIN procs'[k].out : procs'[k].out[a] = f
        BY <2>1, <3>5, <4>1 DEF Jdw!MarkedQueued
      <4>2. fd[f] = "queued" /\ f # o[1]
        BY <3>12
      <4>3. PICK k \in DOMAIN procs : \E a \in DOMAIN procs[k].out : procs[k].out[a] = f
        BY <4>2 DEF JdwpInv, Jdw!MarkedQueued
      <4>4. PICK a \in DOMAIN procs[k].out : procs[k].out[a] = f
        BY <4>3
      <4>5. PICK b \in DOMAIN procs'[k].out : shift(k, b) = a
        BY <3>9, <4>2, <4>4
      <4>6. procs'[k].out[b] = f
        BY <3>8, <4>4, <4>5
      <4> QED BY <4>2, <4>6 DEF JdwpInv, Jdw!MarkedQueued
    <3> QED BY <1>t, <2>1, <2>3, <3>5, <3>7, <3>11, <3>12, <3>14, <3>15 DEF JdwpInv, JdwpTyped, Jdw!JdwpTold
  <2> QED BY <1>6, <2>2, <2>3 DEF Jdw!PassFd
<1>7. ASSUME NEW c, Jdw!create_jdwp_connection_fd(c), c \in Nat PROVE JdwpInv'
  <2> DEFINE found == {i \in DOMAIN procs : procs[i].pid = c}
             i == CHOOSE k \in found : \A j \in found : k <= j
             f == CHOOSE k \in DOMAIN fd : fd[k] = "none" /\ \A j \in 1 .. (k - 1) : fd[j] # "none"
             o == procs[i].out
             p == [procs[i] EXCEPT !.out = Append(o, f)]
  <2>1. i \in DOMAIN procs /\ procs[i].pid = c
    <3>1. found \in SUBSET Nat /\ found # {}
      BY <1>7, JdwpShapes DEF Jdw!create_jdwp_connection_fd
    <3>2. \E k \in found : \A j \in found : k <= j
      <4> HIDE DEF found
      <4> QED BY <3>1, LeastNumber
    <3>3. i \in found
      BY <3>2
    <3> QED BY <3>3
  <2>2. f \in DOMAIN fd /\ fd[f] = "none"
    <3> DEFINE free == {k \in DOMAIN fd : fd[k] = "none"}
    <3>1. free \in SUBSET Nat /\ free # {}
      BY <1>t, <1>7 DEF Jdw!create_jdwp_connection_fd
    <3>2. PICK k \in free : \A j \in free : k <= j
      <4> HIDE DEF free
      <4> QED BY <3>1, LeastNumber
    <3>3. k \in DOMAIN fd /\ fd[k] = "none" /\ \A j \in 1 .. (k - 1) : fd[j] # "none"
      <4>1. k \in 1 .. MaxFds
        BY <1>t, <3>2
      <4>2. \A j \in 1 .. (k - 1) : j \in DOMAIN fd /\ ~(k <= j)
        BY <1>t, <4>1, AdbProcesses
      <4> QED BY <3>2, <4>2
    <3> QED BY <3>3
  <2>3. /\ fd' = [fd EXCEPT ![f] = "queued"] /\ owner' = [owner EXCEPT ![f] = c]
        /\ procs' = [procs EXCEPT ![i].out = Append(@, f)]
        /\ UNCHANGED <<sent, trackers>>
    BY <1>7 DEF Jdw!create_jdwp_connection_fd
  <2> HIDE DEF i, f, found
  <2>4. procs[i] \in Proc /\ i \in 1 .. Len(procs) /\ o \in Seq(1 .. MaxFds) /\ DOMAIN o = 1 .. Len(o) /\ f \in 1 .. MaxFds
    BY <1>t, <2>1, <2>2, JdwpShapes
  <2>5. /\ Append(o, f) \in Seq(1 .. MaxFds) /\ Len(o) \in Nat /\ DOMAIN Append(o, f) = 1 .. Len(o) + 1
        /\ Append(o, f)[Len(o) + 1] = f /\ \A a \in 1 .. Len(o) : Append(o, f)[a] = o[a]
    <3> HIDE DEF o
    <3> QED BY <2>4, AppendProperties, LenProperties
  <2>6. p \in Proc /\ p.out = Append(o, f) /\ p.pid = c
    BY <2>1, <2>4, <2>5 DEF Proc
  <2>7. procs' = [procs EXCEPT ![i] = p]
    BY <1>t, <2>3
  <2>8. procs' \in Seq(Proc) /\ Len(procs') = Len(procs) /\ DOMAIN procs' = DOMAIN procs
    BY <1>t, <2>4, <2>6, <2>7, ExceptSeq, LenProperties
  <2> HIDE DEF p
  <2>9. \A k \in DOMAIN procs : procs'[k] = IF k = i THEN p ELSE procs[k]
    BY <1>t, <2>7
  <2>10. \A k \in DOMAIN procs : procs'[k].pid = procs[k].pid
    BY <2>1, <2>6, <2>9
  <2>11. Jdw!ListOf(procs') = Jdw!ListOf(procs)
    <3>1. \A k \in 1 .. Len(procs) : procs'[k].pid = procs[k].pid
      BY <2>10, JdwpShapes
    <3> QED BY <1>t, <2>8, <3>1, SamePids
  <2>12. \A k \in DOMAIN procs : \A a \in DOMAIN procs'[k].out :
            \/ k = i /\ a = Len(o) + 1 /\ procs'[k].out[a] = f
            \/ a \in DOMAIN procs[k].out /\ procs'[k].out[a] = procs[k].out[a]
    <3>1. \A a \in DOMAIN Append(o, f) : \/ a = Len(o) + 1 /\ Append(o, f)[a] = f
                                         \/ a \in DOMAIN o /\ Append(o, f)[a] = o[a]
      BY <2>4, <2>5
    <3> QED BY <2>6, <2>9, <3>1
  <2>13. \A k \in DOMAIN procs : \A a \in DOMAIN procs[k].out :
            a \in DOMAIN procs'[k].out /\ procs'[k].out[a] = procs[k].out[a] /\ procs[k].out[a] # f
    <3>1. \A a \in DOMAIN o : a \in DOMAIN Append(o, f) /\ Append(o, f)[a] = o[a]
      BY <2>4, <2>5
    <3>2. \A k \in DOMAIN procs : \A a \in DOMAIN procs[k].out : procs[k].out[a] # f
      BY <2>2 DEF JdwpInv, Jdw!QueuesMarked
    <3> QED BY <2>6, <2>9, <3>1, <3>2
  <2>14. Len(o) + 1 \in DOMAIN procs'[i].out /\ procs'[i].out[Len(o) + 1] = f
    BY <2>1, <2>5, <2>6, <2>9
  <2>15. /\ fd' \in [1 .. MaxFds -> FdState] /\ DOMAIN fd' = DOMAIN fd
         /\ \A x \in DOMAIN fd : fd'[x] = IF x = f THEN "queued" ELSE fd[x]
    BY <1>t, <2>3 DEF FdState
  <2>16. owner' \in [1 .. MaxFds -> Int] /\ \A x \in DOMAIN fd : owner'[x] = IF x = f THEN c ELSE owner[x]
    <3>1. c \in Int /\ DOMAIN fd = 1 .. MaxFds
      BY <1>t, <1>7
    <3>2. owner' = [x \in 1 .. MaxFds |-> IF x = f THEN c ELSE owner[x]]
      BY <1>t, <2>3
    <3> QED BY <1>t, <3>1, <3>2
  <2> HIDE DEF o
  <2>17. Jdw!QueuesApart'
    BY <2>8, <2>12, <2>13 DEF JdwpInv, Jdw!QueuesApart
  <2>18. Jdw!QueuesMarked'
    <3>1. \A k \in DOMAIN procs : \A a \in DOMAIN procs[k].out : procs[k].out[a] \in DOMAIN fd
      BY <1>t, JdwpShapes
    <3> SUFFICES ASSUME NEW k \in DOMAIN procs, NEW a \in DOMAIN procs'[k].out
                 PROVE  fd'[procs'[k].out[a]] = "queued" /\ owner'[procs'[k].out[a]] = procs'[k].pid
      BY <2>8 DEF Jdw!QueuesMarked
    <3>2. CASE k = i /\ procs'[k].out[a] = f
      BY <2>1, <2>2, <2>10, <2>15, <2>16, <3>2
    <3>3. CASE a \in DOMAIN procs[k].out /\ procs'[k].out[a] = procs[k].out[a]
      <4>1. procs[k].out[a] # f /\ procs[k].out[a] \in DOMAIN fd
        BY <2>13, <3>1, <3>3
      <4>2. fd[procs[k].out[a]] = "queued" /\ owner[procs[k].out[a]] = procs[k].pid
        BY <3>3 DEF JdwpInv, Jdw!QueuesMarked
      <4> QED BY <2>10, <2>15, <2>16, <3>3, <4>1, <4>2
    <3> QED BY <2>12, <3>2, <3>3
  <2>19. Jdw!MarkedQueued'
    <3>1. c # Jdw!NoPid
      BY <1>7 DEF Jdw!NoPid
    <3> SUFFICES ASSUME NEW x \in DOMAIN fd, fd'[x] = "queued"
                 PROVE  owner'[x] # Jdw!NoPid /\ \E k \in DOMAIN procs : \E a \in DOMAIN procs'[k].out : procs'[k].out[a] = x
      BY <2>8, <2>15 DEF Jdw!MarkedQueued
    <3>2. CASE x = f
      BY <2>1, <2>14, <2>16, <3>1, <3>2
    <3>3. CASE x # f
      <4>1. fd[x] = "queued" /\ owner'[x] = owner[x]
        BY <2>15, <2>16, <3>3
      <4>2. owner[x] # Jdw!NoPid /\ \E k \in DOMAIN procs : \E a \in DOMAIN procs[k].out : procs[k].out[a] = x
        BY <4>1 DEF JdwpInv, Jdw!MarkedQueued
      <4> QED BY <2>13, <4>1, <4>2
    <3> QED BY <3>2, <3>3
  <2> QED BY <2>3, <2>8, <2>11, <2>15, <2>16, <2>17, <2>18, <2>19, <1>t DEF JdwpInv, JdwpTyped, Jdw!JdwpTold
<1>8. ASSUME Jdw!TrackerOpens PROVE JdwpInv'
  <2> DEFINE t == [need |-> TRUE, last |-> <<Jdw!NoPid>>]
  <2>1. t \in Tracker /\ t.need = TRUE
    BY DEF Tracker, Jdw!NoPid
  <2>2. trackers' = Append(trackers, t) /\ UNCHANGED <<sent, procs, fd, owner>>
    BY <1>8 DEF Jdw!TrackerOpens
  <2> HIDE DEF t
  <2>3. /\ trackers' \in Seq(Tracker) /\ DOMAIN trackers' = 1 .. Len(trackers) + 1
        /\ trackers'[Len(trackers) + 1] = t /\ \A k \in 1 .. Len(trackers) : trackers'[k] = trackers[k]
    BY <1>t, <2>1, <2>2, AppendProperties, LenProperties
  <2>4. Jdw!JdwpTold'
    <3>1. \A k \in DOMAIN trackers' : (k \in DOMAIN trackers /\ trackers'[k] = trackers[k]) \/ trackers'[k] = t
      BY <2>3, JdwpShapes
    <3> QED BY <2>1, <2>2, <3>1 DEF JdwpInv, Jdw!JdwpTold
  <2> QED BY <1>0, <2>2, <2>3, <2>4 DEF JdwpInv, JdwpTyped
<1>9. ASSUME NEW k \in DOMAIN trackers, Jdw!TrackerReady(k) PROVE JdwpInv'
  <2> DEFINE t == [need |-> FALSE, last |-> Jdw!ListOf(procs)]
  <2>1. t \in Tracker /\ t.last = Jdw!ListOf(procs)
    <3>1. Jdw!ListOf(procs) \in Seq(Int)
      BY <1>t, PidsListed
    <3> QED BY <3>1 DEF Tracker
  <2>2. trackers' = [trackers EXCEPT ![k] = t] /\ UNCHANGED <<sent, procs, fd, owner>>
    BY <1>9 DEF Jdw!TrackerReady
  <2> HIDE DEF t
  <2>3. trackers' \in Seq(Tracker) /\ DOMAIN trackers' = DOMAIN trackers
    BY <1>t, <2>1, <2>2, JdwpShapes, ExceptSeq, LenProperties
  <2>4. Jdw!JdwpTold'
    BY <2>1, <2>2, <2>3 DEF JdwpInv, Jdw!JdwpTold
  <2> QED BY <1>0, <2>2, <2>3, <2>4 DEF JdwpInv, JdwpTyped
<1>10. ASSUME NEW k \in DOMAIN trackers, Jdw!TrackerCloses(k) PROVE JdwpInv'
  <2> DEFINE w == Jdw!Without(trackers, k)
  <2>1. k \in 1 .. Len(trackers) /\ Len(trackers) \in Nat /\ DOMAIN trackers = 1 .. Len(trackers)
    BY JdwpShapes
  <2>2. /\ w \in Seq(Tracker) /\ Len(w) = Len(trackers) - 1
        /\ \A j \in 1 .. Len(w) : w[j] = IF j < k THEN trackers[j] ELSE trackers[j + 1]
    BY <1>t, <2>1, LeftOut DEF Jdw!Without
  <2>3. trackers' = w /\ UNCHANGED <<sent, procs, fd, owner>>
    BY <1>10 DEF Jdw!TrackerCloses
  <2>4. DOMAIN w = 1 .. Len(trackers) - 1
    BY <2>1, <2>2, LenProperties
  <2> HIDE DEF w
  <2>5. \A j \in DOMAIN w : \E m \in DOMAIN trackers : w[j] = trackers[m]
    <3> SUFFICES ASSUME NEW j \in DOMAIN w PROVE \E m \in DOMAIN trackers : w[j] = trackers[m]
      OBVIOUS
    <3>1. j \in DOMAIN trackers /\ j + 1 \in DOMAIN trackers
      BY <2>1, <2>4
    <3> QED BY <2>1, <2>2, <2>4, <3>1
  <2>6. Jdw!JdwpTold'
    BY <2>3, <2>5 DEF JdwpInv, Jdw!JdwpTold
  <2> QED BY <1>0, <2>2, <2>3, <2>6 DEF JdwpInv, JdwpTyped
<1>11. \A v \in Vms : Pid[v] \in Nat
  BY AdbProcesses
<1> QED BY <1>1, <1>2, <1>3, <1>4, <1>5, <1>6, <1>7, <1>8, <1>9, <1>10, <1>11 DEF Jdw!Next

LEMMA JdwpRight ==
    ASSUME JdwpInv
    PROVE  Jdw!JdwpTold /\ Jdw!FdsAccounted
<1>1. Jdw!JdwpTold
  BY DEF JdwpInv
<1>2. \A k \in DOMAIN procs : \A x : x \in Jdw!Elements(procs[k].out) <=> \E a \in DOMAIN procs[k].out : procs[k].out[a] = x
  BY DEF Jdw!Elements
<1>3. ASSUME NEW f \in DOMAIN fd
      PROVE  LET where == {k \in DOMAIN procs : f \in Jdw!Elements(procs[k].out)}
             IN  /\ (fd[f] = "queued") <=> (where # {})
                 /\ \A i, j \in where : i = j
                 /\ \A i \in where : procs[i].pid = owner[f]
  <2>1. fd[f] = "queued" => \E k \in DOMAIN procs : f \in Jdw!Elements(procs[k].out)
    BY <1>2 DEF JdwpInv, Jdw!MarkedQueued
  <2>2. \A k \in DOMAIN procs : f \in Jdw!Elements(procs[k].out) => fd[f] = "queued" /\ procs[k].pid = owner[f]
    BY <1>2 DEF JdwpInv, Jdw!QueuesMarked
  <2>3. \A i, j \in DOMAIN procs : f \in Jdw!Elements(procs[i].out) /\ f \in Jdw!Elements(procs[j].out) => i = j
    BY <1>2 DEF JdwpInv, Jdw!QueuesApart
  <2> QED BY <2>1, <2>2, <2>3
<1> QED BY <1>1, <1>3 DEF Jdw!FdsAccounted

-----------------------------------------------------------------------------
(* The server's books                                                      *)

Node == Transports \cup {0}
Post == Transports \X {0, 1}
ConnState == {"none", "offline", "noperm", "device", "recovery", "dying", "freed", "lost"}

ServerTyped ==
    /\ conn \in [Transports -> ConnState] /\ next \in [Node -> Node] /\ prev \in [Node -> Node]
    /\ queue \in Seq(Post) /\ unlinked \in SUBSET Transports
    /\ listener \in [Ports -> [transport : Node, dis : Node]]

ServerInv ==
    /\ ServerTyped /\ Srv!NotPointedTo /\ Srv!PostedOnce /\ Srv!Threaded /\ Srv!HungUp
    /\ Srv!TrackerCurrent

\* There is a walk over every list, damaged or not.
LEMMA WalkExists ==
    ASSUME NEW nx \in [Node -> Node]
    PROVE  LET l == Srv!ListOf(nx)
           IN  l \in Seq(Transports) /\ Srv!Follows(nx, l)
<1> DEFINE Walks == UNION {[1 .. k -> Transports] : k \in 0 .. Srv!Reach}
<1>1. Srv!Reach \in Nat
  <2>1. Cardinality(Transports) \in Nat
    BY AdbTransports, FS_CardinalityType
  <2> QED BY <2>1, SameCount DEF Srv!Reach
<1>2. \A l : l \in Walks <=> l \in Seq(Transports) /\ Len(l) <= Srv!Reach
  <2>1. \A l \in Seq(Transports) : Len(l) \in Nat /\ l \in [1 .. Len(l) -> Transports]
    BY LenProperties, ElementOfSeq
  <2>2. \A k \in 0 .. Srv!Reach : \A l \in [1 .. k -> Transports] : l \in Seq(Transports) /\ Len(l) = k
    BY <1>1, SeqDef, LenProperties
  <2>3. ASSUME NEW l \in Seq(Transports), Len(l) <= Srv!Reach PROVE l \in Walks
    <3>1. Len(l) \in 0 .. Srv!Reach
      BY <1>1, <2>1, <2>3
    <3> QED BY <2>1, <3>1
  <2>4. ASSUME NEW l \in Walks PROVE l \in Seq(Transports) /\ Len(l) <= Srv!Reach
    <3>1. PICK k \in 0 .. Srv!Reach : l \in [1 .. k -> Transports]
      OBVIOUS
    <3> QED BY <1>1, <2>2, <3>1
  <2> QED BY <2>3, <2>4
<1> HIDE DEF Walks
<1> DEFINE Far(k) == \E l \in Walks : Srv!Follows(nx, l) /\ (Len(l) = k \/ nx[Srv!At(l, Len(l))] = 0)
           S == {k \in Nat : k <= Srv!Reach => Far(k)}
<1>3. 0 \in S
  <2>1. <<>> \in Walks /\ Len(<<>>) = 0
    <3>1. <<>> \in Seq(Transports) /\ Len(<<>>) = 0 /\ 0 <= Srv!Reach
      BY <1>1, EmptySeq
    <3> QED BY <1>2, <3>1
  <2>2. Srv!Follows(nx, <<>>)
    BY DEF Srv!Follows
  <2> QED BY <2>1, <2>2
<1>4. ASSUME NEW k \in S PROVE k + 1 \in S
  <2> SUFFICES ASSUME k + 1 <= Srv!Reach PROVE Far(k + 1)
    OBVIOUS
  <2>1. PICK l \in Walks : Srv!Follows(nx, l) /\ (Len(l) = k \/ nx[Srv!At(l, Len(l))] = 0)
    BY <1>1
  <2>2. CASE nx[Srv!At(l, Len(l))] = 0
    BY <2>1, <2>2
  <2>3. CASE Len(l) = k /\ nx[Srv!At(l, Len(l))] # 0
    <3> DEFINE y == nx[Srv!At(l, k)]
               m == Append(l, y)
    <3>1. l \in Seq(Transports) /\ k \in Nat /\ \A i \in 1 .. k : l[i] \in Transports
      BY <1>2, <2>3, ElementOfSeq
    <3>2. y \in Transports
      BY <2>3, <3>1 DEF Srv!At, Node
    <3> HIDE DEF y
    <3>3. /\ m \in Seq(Transports) /\ Len(m) = k + 1 /\ m[k + 1] = y
          /\ \A i \in 1 .. k : m[i] = l[i]
      BY <2>3, <3>1, <3>2, AppendProperties
    <3> HIDE DEF m
    <3>4. m \in Walks
      BY <1>2, <3>3
    <3>5. ASSUME NEW i \in 1 .. k + 1 PROVE m[i] = nx[Srv!At(m, i - 1)]
      <4>1. Srv!At(m, i - 1) = Srv!At(l, i - 1)
        <5>1. i - 1 = 0 \/ i - 1 \in 1 .. k
          BY <3>1
        <5> QED BY <3>3, <5>1 DEF Srv!At
      <4>2. CASE i \in 1 .. k
        BY <2>1, <2>3, <3>3, <4>1, <4>2 DEF Srv!Follows
      <4>3. CASE i = k + 1
        <5>1. i - 1 = k
          BY <3>1, <4>3
        <5> QED BY <3>3, <4>1, <4>3, <5>1 DEF y
      <4> QED BY <3>1, <4>2, <4>3
    <3>6. Srv!Follows(nx, m)
      BY <3>3, <3>5 DEF Srv!Follows
    <3> QED BY <3>3, <3>4, <3>6
  <2> QED BY <2>1, <2>2, <2>3
<1>5. Srv!Reach \in S
  <2>1. S \in SUBSET Nat
    OBVIOUS
  <2> HIDE DEF S
  <2> QED BY <1>1, <1>3, <1>4, <2>1, AllNumbers
<1>6. \E l \in Walks : Srv!Follows(nx, l) /\ Srv!Ended(nx, l)
  BY <1>1, <1>5 DEF Srv!Ended
<1>7. Srv!ListOf(nx) \in Walks /\ Srv!Follows(nx, Srv!ListOf(nx))
  BY <1>6 DEF Srv!ListOf, Walks
<1> QED BY <1>2, <1>7

\* The registration socket is read and written at its ends.
LEMMA PostAppended ==
    ASSUME ServerTyped, NEW x \in Post, queue' = Append(queue, x), x \notin Srv!Posted,
           \A i, j \in DOMAIN queue : queue[i] = queue[j] => i = j
    PROVE  /\ queue' \in Seq(Post) /\ Srv!Posted' = Srv!Posted \cup {x}
           /\ \A i, j \in DOMAIN queue' : queue'[i] = queue'[j] => i = j
<1>1. queue \in Seq(Post) /\ Len(queue) \in Nat /\ DOMAIN queue = 1 .. Len(queue)
  BY LenProperties DEF ServerTyped
<1>2. /\ queue' \in Seq(Post) /\ DOMAIN queue' = 1 .. Len(queue) + 1 /\ queue'[Len(queue) + 1] = x
      /\ \A i \in 1 .. Len(queue) : queue'[i] = queue[i]
  BY <1>1, AppendProperties, LenProperties
<1>3. \A i \in DOMAIN queue' : (i = Len(queue) + 1 /\ queue'[i] = x) \/ (i \in DOMAIN queue /\ queue'[i] = queue[i])
  BY <1>1, <1>2
<1>4. \A i \in DOMAIN queue : i \in DOMAIN queue' /\ queue'[i] = queue[i] /\ queue[i] # x
  BY <1>1, <1>2 DEF Srv!Posted
<1>5. Len(queue) + 1 \in DOMAIN queue' /\ queue'[Len(queue) + 1] = x
  BY <1>1, <1>2
<1>6. Srv!Posted' = Srv!Posted \cup {x}
  BY <1>3, <1>4, <1>5 DEF Srv!Posted
<1>7. \A i, j \in DOMAIN queue' : queue'[i] = queue'[j] => i = j
  BY <1>3, <1>4
<1> QED BY <1>2, <1>6, <1>7

LEMMA PostRead ==
    ASSUME ServerTyped, queue # <<>>, queue' = Tail(queue),
           \A i, j \in DOMAIN queue : queue[i] = queue[j] => i = j
    PROVE  /\ queue' \in Seq(Post) /\ Head(queue) \in Post /\ Head(queue) \in Srv!Posted
           /\ Srv!Posted' = Srv!Posted \ {Head(queue)}
           /\ \A i, j \in DOMAIN queue' : queue'[i] = queue'[j] => i = j
<1>1. queue \in Seq(Post) /\ Len(queue) \in Nat \ {0} /\ DOMAIN queue = 1 .. Len(queue)
  BY LenProperties, EmptySeq DEF ServerTyped
<1>2. /\ queue' \in Seq(Post) /\ DOMAIN queue' = 1 .. Len(queue) - 1 /\ Head(queue) = queue[1]
      /\ Head(queue) \in Post /\ \A i \in 1 .. Len(queue) - 1 : queue'[i] = queue[i + 1]
  BY <1>1, HeadTailProperties, LenProperties, ElementOfSeq
<1>3. 1 \in DOMAIN queue /\ \A i \in DOMAIN queue' : i + 1 \in DOMAIN queue /\ i + 1 # 1 /\ queue'[i] = queue[i + 1]
  BY <1>1, <1>2
<1>4. \A i \in DOMAIN queue : i = 1 \/ (i - 1 \in DOMAIN queue' /\ queue'[i - 1] = queue[i])
  <2> SUFFICES ASSUME NEW i \in DOMAIN queue, i # 1 PROVE i - 1 \in DOMAIN queue' /\ queue'[i - 1] = queue[i]
    OBVIOUS
  <2>1. i - 1 \in 1 .. Len(queue) - 1 /\ (i - 1) + 1 = i
    BY <1>1
  <2>2. queue'[i - 1] = queue[(i - 1) + 1]
    BY <1>2, <2>1
  <2> QED BY <1>2, <2>1, <2>2
<1>5. ASSUME NEW i \in DOMAIN queue', NEW j \in DOMAIN queue', queue'[i] = queue'[j] PROVE i = j
  <2>1. i + 1 = j + 1 /\ i \in Int /\ j \in Int
    BY <1>1, <1>2, <1>3, <1>5
  <2> QED BY <2>1
<1>6. \A x : x \in Srv!Posted <=> \E i \in DOMAIN queue : queue[i] = x
  BY DEF Srv!Posted
<1>7. \A x : x \in Srv!Posted' <=> \E i \in DOMAIN queue' : queue'[i] = x
  BY DEF Srv!Posted
<1>8. ASSUME NEW x \in Srv!Posted' PROVE x \in Srv!Posted /\ x # Head(queue)
  <2>1. PICK i \in DOMAIN queue' : queue'[i] = x
    BY <1>7
  <2> QED BY <1>2, <1>3, <1>6, <2>1
<1>9. ASSUME NEW x \in Srv!Posted, x # Head(queue) PROVE x \in Srv!Posted'
  <2>1. PICK i \in DOMAIN queue : queue[i] = x
    BY <1>6
  <2> QED BY <1>2, <1>4, <1>7, <1>9, <2>1
<1> QED BY <1>2, <1>3, <1>5, <1>6, <1>8, <1>9

\* A walk meets registered transports only ...
LEMMA WalkKnown ==
    ASSUME ServerInv
    PROVE  LET l == Srv!ListOf(next)
           IN  \A i \in DOMAIN l : l[i] \in Transports /\ ~Srv!Unlisted(l[i])
<1> DEFINE l == Srv!ListOf(next)
<1>1. next \in [Node -> Node]
  BY DEF ServerInv, ServerTyped
<1>2. l \in Seq(Transports) /\ Srv!Follows(next, l)
  BY <1>1, WalkExists
<1> HIDE DEF l
<1>3. Len(l) \in Nat /\ DOMAIN l = 1 .. Len(l) /\ \A i \in 1 .. Len(l) : l[i] \in Transports
  BY <1>2, LenProperties, ElementOfSeq
<1>4. ASSUME NEW i \in 1 .. Len(l) PROVE ~Srv!Unlisted(l[i])
  <2>1. Srv!At(l, i - 1) \in Node
    <3>1. i - 1 = 0 \/ i - 1 \in 1 .. Len(l)
      BY <1>3
    <3> QED BY <1>3, <3>1 DEF Srv!At, Node
  <2>2. l[i] = next[Srv!At(l, i - 1)] /\ l[i] # 0
    BY <1>2, <1>3, AdbTransports DEF Srv!Follows
  <2> QED BY <1>1, <2>1, <2>2 DEF ServerInv, Srv!NotPointedTo
<1> QED BY <1>3, <1>4 DEF l

\* ... and on a list nobody has damaged those that are on it, each once.
LEMMA WalkSound ==
    ASSUME ServerInv, unlinked = {}
    PROVE  LET l == Srv!ListOf(next)
           IN  /\ \A i \in DOMAIN l : l[i] \in Srv!OnList
               /\ \A i, j \in DOMAIN l : l[i] = l[j] => i = j
<1> DEFINE l == Srv!ListOf(next)
           L == Srv!OnList
<1>1. next \in [Node -> Node]
  BY DEF ServerInv, ServerTyped
<1>2. l \in Seq(Transports) /\ Srv!Follows(next, l)
  BY <1>1, WalkExists
<1> HIDE DEF l
<1>3. /\ Len(l) \in Nat /\ DOMAIN l = 1 .. Len(l) /\ 0 \notin Transports
      /\ \A i \in 1 .. Len(l) : l[i] \in Transports
  BY <1>2, LenProperties, ElementOfSeq, AdbTransports
<1>4. \A x \in L \cup {0} : next[x] \in L \cup {0} /\ prev[next[x]] = x
  BY DEF ServerInv, Srv!Threaded
<1> HIDE DEF L
<1>5. \A i \in 1 .. Len(l) : i = 1 => l[i] = next[0]
  BY <1>2, <1>3 DEF Srv!Follows, Srv!At
<1>6. ASSUME NEW i \in 1 .. Len(l), i # 1 PROVE i - 1 \in 1 .. Len(l) /\ l[i] = next[l[i - 1]]
  <2>1. i - 1 \in 1 .. Len(l) /\ i - 1 # 0
    BY <1>3, <1>6
  <2> QED BY <1>2, <1>3, <2>1 DEF Srv!Follows, Srv!At
<1>7. \A i \in 1 .. Len(l) : l[i] \in L
  <2> DEFINE bad == {i \in 1 .. Len(l) : l[i] \notin L}
  <2> SUFFICES ASSUME bad # {} PROVE FALSE
    OBVIOUS
  <2>1. PICK i \in bad : \A j \in bad : i <= j
    <3>1. bad \in SUBSET Nat
      BY <1>3
    <3> HIDE DEF bad
    <3> QED BY <3>1, LeastNumber
  <2>2. CASE i = 1
    BY <1>3, <1>4, <1>5, <2>1, <2>2
  <2>3. CASE i # 1
    <3>1. i - 1 \in 1 .. Len(l) /\ l[i] = next[l[i - 1]] /\ ~(i <= i - 1)
      BY <1>3, <1>6, <2>1, <2>3
    <3>2. l[i - 1] \in L
      BY <2>1, <3>1
    <3> QED BY <1>3, <1>4, <2>1, <3>1, <3>2
  <2> QED BY <2>2, <2>3
<1>8. \A i, j \in 1 .. Len(l) : l[i] = l[j] => i = j
  <2> DEFINE bad == {i \in 1 .. Len(l) : \E j \in 1 .. Len(l) : i < j /\ l[i] = l[j]}
  <2>1. bad = {}
    <3> SUFFICES ASSUME bad # {} PROVE FALSE
      OBVIOUS
    <3>1. PICK i \in bad : \A j \in bad : i <= j
      <4>1. bad \in SUBSET Nat
        BY <1>3
      <4> HIDE DEF bad
      <4> QED BY <4>1, LeastNumber
    <3>2. PICK j \in 1 .. Len(l) : i < j /\ l[i] = l[j]
      BY <3>1
    <3>3. i \in 1 .. Len(l) /\ j # 1 /\ j - 1 \in 1 .. Len(l) /\ l[j] = next[l[j - 1]]
      BY <1>3, <1>6, <3>1, <3>2
    <3>4. prev[l[j]] = l[j - 1]
      BY <1>4, <1>7, <3>3
    <3>5. CASE i = 1
      <4>1. prev[l[i]] = 0
        BY <1>4, <1>5, <3>3, <3>5
      <4> QED BY <1>3, <3>2, <3>3, <3>4, <4>1
    <3>6. CASE i # 1
      <4>1. i - 1 \in 1 .. Len(l) /\ l[i] = next[l[i - 1]]
        BY <1>6, <3>3, <3>6
      <4>2. prev[l[i]] = l[i - 1]
        BY <1>4, <1>7, <4>1
      <4>3. l[i - 1] = l[j - 1] /\ i - 1 < j - 1 /\ ~(i <= i - 1)
        BY <1>3, <3>2, <3>3, <3>4, <4>2
      <4>4. i - 1 \in bad
        BY <3>3, <4>1, <4>3
      <4> QED BY <3>1, <4>3, <4>4
    <3> QED BY <3>5, <3>6
  <2>2. \A i, j \in 1 .. Len(l) : i < j => l[i] # l[j]
    BY <2>1
  <2> QED BY <1>3, <2>2
<1> QED BY <1>3, <1>7, <1>8 DEF l, L

\* What list_transports shows.
LEMMA SameNames ==
    ASSUME NEW nx, NEW cs, NEW ds,
           \A i \in DOMAIN Srv!ListOf(nx) :
              Srv!statename(cs[Srv!ListOf(nx)[i]]) = Srv!statename(ds[Srv!ListOf(nx)[i]])
    PROVE  Srv!list_transports(nx, cs) = Srv!list_transports(nx, ds)
<1> DEFINE l == Srv!ListOf(nx)
<1>1. \A i \in DOMAIN l : <<l[i], Srv!statename(cs[l[i]])>> = <<l[i], Srv!statename(ds[l[i]])>>
  OBVIOUS
<1>2. /\ Srv!list_transports(nx, cs) = [i \in DOMAIN l |-> <<l[i], Srv!statename(cs[l[i]])>>]
      /\ Srv!list_transports(nx, ds) = [i \in DOMAIN l |-> <<l[i], Srv!statename(ds[l[i]])>>]
  BY DEF Srv!list_transports
<1> HIDE DEF l
<1> QED BY <1>1, <1>2

\* Taking a transport off an undamaged list, and putting one at its end.
LEMMA UnlinkSafe ==
    ASSUME ServerTyped, NEW t \in Transports, Srv!Unlink(t)
    PROVE  /\ next' \in [Node -> Node] /\ prev' \in [Node -> Node]
           /\ \A x \in Node : \E y \in Node : next'[x] = next[y]
           /\ Srv!Threaded /\ t \in Srv!OnList /\ Srv!OnList' = Srv!OnList \ {t} /\ unlinked' = unlinked
              => Srv!Threaded'
<1>1. next \in [Node -> Node] /\ prev \in [Node -> Node] /\ t \in Node /\ 0 \in Node /\ t # 0
  BY AdbTransports DEF ServerTyped, Node
<1>2. /\ next' = [next EXCEPT ![prev[t]] = next[t]]
      /\ prev' = [prev EXCEPT ![next[t]] = prev[t]]
  BY DEF Srv!Unlink
<1>3. /\ next' \in [Node -> Node] /\ prev' \in [Node -> Node]
      /\ \A x \in Node : next'[x] = IF x = prev[t] THEN next[t] ELSE next[x]
      /\ \A x \in Node : prev'[x] = IF x = next[t] THEN prev[t] ELSE prev[x]
  BY <1>1, <1>2
<1>4. \A x \in Node : \E y \in Node : next'[x] = next[y]
  BY <1>1, <1>3
<1>5. ASSUME Srv!Threaded, t \in Srv!OnList, Srv!OnList' = Srv!OnList \ {t}, unlinked' = unlinked, unlinked = {}
      PROVE  Srv!Threaded'
  <2> DEFINE L == Srv!OnList \cup {0}
  <2>1. /\ t \in L /\ t # 0 /\ L \subseteq Node
        /\ \A x \in L : next[x] \in L /\ prev[next[x]] = x /\ prev[x] \in L /\ next[prev[x]] = x
    BY <1>1, <1>5 DEF Srv!Threaded, Srv!OnList, Node
  <2>2. (Srv!OnList' \cup {0}) = L \ {t}
    BY <1>1, <1>5
  <2> HIDE DEF L
  <2>3. \A x \in L \ {t} : next'[x] \in L \ {t} /\ prev'[next'[x]] = x
    BY <1>3, <2>1
  <2>4. \A x \in L \ {t} : prev'[x] \in L \ {t} /\ next'[prev'[x]] = x
    BY <1>3, <2>1
  <2> QED BY <2>2, <2>3, <2>4 DEF Srv!Threaded
<1>6. unlinked' = unlinked /\ unlinked # {} => Srv!Threaded'
  BY DEF Srv!Threaded
<1> QED BY <1>3, <1>4, <1>5, <1>6

LEMMA LinkSafe ==
    ASSUME ServerTyped, NEW t \in Transports,
           next' = [next EXCEPT ![t] = 0, ![prev[0]] = t],
           prev' = [prev EXCEPT ![t] = prev[0], ![0] = t]
    PROVE  /\ next' \in [Node -> Node] /\ prev' \in [Node -> Node]
           /\ \A x \in Node : next'[x] \in {0, t, next[x]}
           /\ Srv!Threaded /\ t \notin Srv!OnList /\ Srv!OnList' = Srv!OnList \cup {t} /\ unlinked' = unlinked
              => Srv!Threaded'
<1>1. next \in [Node -> Node] /\ prev \in [Node -> Node] /\ t \in Node /\ 0 \in Node /\ t # 0
  BY AdbTransports DEF ServerTyped, Node
<1>2. /\ next' \in [Node -> Node] /\ prev' \in [Node -> Node]
      /\ \A x \in Node : next'[x] = IF x = prev[0] THEN t ELSE IF x = t THEN 0 ELSE next[x]
      /\ \A x \in Node : prev'[x] = IF x = 0 THEN t ELSE IF x = t THEN prev[0] ELSE prev[x]
  BY <1>1
<1>3. ASSUME Srv!Threaded, t \notin Srv!OnList, Srv!OnList' = Srv!OnList \cup {t}, unlinked' = unlinked, unlinked = {}
      PROVE  Srv!Threaded'
  <2> DEFINE L == Srv!OnList \cup {0}
  <2>1. /\ t \notin L /\ 0 \in L /\ L \subseteq Node
        /\ \A x \in L : next[x] \in L /\ prev[next[x]] = x /\ prev[x] \in L /\ next[prev[x]] = x
    BY <1>1, <1>3 DEF Srv!Threaded, Srv!OnList, Node
  <2>2. (Srv!OnList' \cup {0}) = L \cup {t}
    BY <1>1, <1>3
  <2> HIDE DEF L
  <2>3. \A x \in L \cup {t} : next'[x] \in L \cup {t} /\ prev'[next'[x]] = x
    BY <1>1, <1>2, <2>1
  <2>4. \A x \in L \cup {t} : prev'[x] \in L \cup {t} /\ next'[prev'[x]] = x
    BY <1>1, <1>2, <2>1
  <2> QED BY <2>2, <2>3, <2>4 DEF Srv!Threaded
<1>4. unlinked' = unlinked /\ unlinked # {} => Srv!Threaded'
  BY DEF Srv!Threaded
<1> QED BY <1>2, <1>3, <1>4

\* The selected transport is on the list.
LEMMA Matched ==
    ASSUME NEW type, Srv!Match(type) # Srv!Nobody
    PROVE  \E i \in DOMAIN Srv!ListOf(next) : Srv!ListOf(next)[i] = Srv!Match(type)
<1> DEFINE S == Srv!Candidates \cap type
<1>1. Srv!Cardinality(S) = 1 /\ Srv!Match(type) = CHOOSE t \in S : TRUE
  BY DEF Srv!Match
<1>2. S # {}
  <2> HIDE DEF S
  <2> QED BY <1>1, SameCount, FS_EmptySet
<1>3. Srv!Match(type) \in Srv!Candidates
  <2>1. Srv!Match(type) \in S
    <3> HIDE DEF S
    <3> QED BY <1>1, <1>2
  <2> QED BY <2>1
<1> QED BY <1>3 DEF Srv!Candidates

\* What every step of the server keeps, from what it changes.
LEMMA ServerSafe ==
    ASSUME ServerInv, [Srv!Next]_srv
    PROVE  ServerInv'
<1>t. /\ conn \in [Transports -> ConnState] /\ next \in [Node -> Node] /\ prev \in [Node -> Node]
      /\ queue \in Seq(Post) /\ unlinked \in SUBSET Transports
      /\ listener \in [Ports -> [transport : Node, dis : Node]] /\ ServerTyped
  BY DEF ServerInv, ServerTyped
<1>p. /\ \A i, j \in DOMAIN queue : queue[i] = queue[j] => i = j
      /\ \A t \in Transports : <<t, 1>> \in Srv!Posted => conn[t] \in {"offline", "noperm"}
      /\ \A t \in Transports : <<t, 0>> \in Srv!Posted => conn[t] = "dying"
  BY DEF ServerInv, Srv!PostedOnce
<1>n. \A x \in Node : next[x] # 0 => conn[next[x]] # "none" /\ <<next[x], 1>> \notin Srv!Posted
  BY <1>t DEF ServerInv, Srv!NotPointedTo, Srv!Unlisted
<1>d. 0 \notin Transports /\ \A t \in Transports : <<t, 0>> \in Post /\ <<t, 1>> \in Post /\ <<t, 0>> # <<t, 1>>
  BY AdbTransports DEF Post
<1>f. \A t \in Transports : /\ Srv!Disconnected(t) \in [Ports -> [transport : Node, dis : Node]]
                            /\ \A p \in Ports : Srv!Disconnected(t)[p] =
                                  IF listener[p].dis = t THEN Srv!Free ELSE listener[p]
  <2>1. Srv!Free \in [transport : Node, dis : Node]
    BY DEF Srv!Free, Srv!Nobody, Node
  <2> QED BY <1>t, <2>1 DEF Srv!Disconnected
<1>q. UNCHANGED queue => Srv!Posted' = Srv!Posted
  BY DEF Srv!Posted
<1>1. CASE UNCHANGED <<conn, next, prev, queue, listener, need, last, missed, unlinked>>
  BY <1>1, <1>q DEF ServerInv, ServerTyped, Srv!NotPointedTo, Srv!Unlisted, Srv!PostedOnce, Srv!Threaded, Srv!OnList,
     Srv!HungUp, Srv!TrackerCurrent
<1>2. ASSUME NEW t \in Transports, NEW c \in {"offline", "noperm"}, Srv!register_transport(t, c) PROVE ServerInv'
  <2>1. /\ conn[t] = "none" /\ conn' = [conn EXCEPT ![t] = c] /\ queue' = Append(queue, <<t, 1>>)
        /\ UNCHANGED <<next, prev, listener, need, last, missed, unlinked>>
    BY <1>2 DEF Srv!register_transport, Srv!transport_write_action
  <2>2. /\ conn' \in [Transports -> ConnState]
        /\ \A x \in Transports : conn'[x] = IF x = t THEN c ELSE conn[x]
    BY <1>t, <1>2, <2>1 DEF ConnState
  <2>3. <<t, 1>> \notin Srv!Posted /\ <<t, 0>> \notin Srv!Posted
    BY <1>p, <2>1
  <2>4. /\ queue' \in Seq(Post) /\ Srv!Posted' = Srv!Posted \cup {<<t, 1>>}
        /\ \A i, j \in DOMAIN queue' : queue'[i] = queue'[j] => i = j
    BY <1>t, <1>p, <1>d, <2>1, <2>3, PostAppended
  <2>5. ServerTyped'
    BY <1>t, <2>1, <2>2, <2>4 DEF ServerTyped
  <2>6. \A x \in Node : next[x] # 0 => next[x] \in Transports /\ next[x] # t
    BY <1>t, <1>n, <2>1 DEF Node
  <2>7. Srv!NotPointedTo'
    <3>1. \A x \in Node : next[x] # 0 => conn'[next[x]] # "none" /\ <<next[x], 1>> \notin Srv!Posted'
      BY <1>n, <2>2, <2>4, <2>6
    <3> QED BY <1>t, <2>1, <3>1 DEF Srv!NotPointedTo, Srv!Unlisted
  <2>8. Srv!PostedOnce'
    <3>1. \A y \in Transports : <<y, 0>> \in Srv!Posted' => <<y, 0>> \in Srv!Posted /\ y # t
      BY <2>3, <2>4
    <3>2. \A y \in Transports : <<y, 1>> \in Srv!Posted' => <<y, 1>> \in Srv!Posted \/ y = t
      BY <2>4
    <3> QED BY <1>p, <1>2, <2>2, <2>4, <3>1, <3>2 DEF Srv!PostedOnce
  <2>9. Srv!OnList' = Srv!OnList
    <3>1. \A y \in Transports : y # t => (<<y, 1>> \in Srv!Posted' <=> <<y, 1>> \in Srv!Posted)
      BY <2>4
    <3> QED BY <2>1, <2>2, <2>4, <3>1 DEF Srv!OnList
  <2>10. Srv!Threaded'
    BY <2>1, <2>9 DEF ServerInv, Srv!Threaded
  <2>11. Srv!HungUp'
    BY <1>2, <2>1, <2>2 DEF ServerInv, Srv!HungUp
  <2>12. Srv!TrackerCurrent'
    <3>1. \A i \in DOMAIN Srv!ListOf(next) :
             Srv!ListOf(next)[i] \in Transports /\ Srv!ListOf(next)[i] # t
      BY <2>1, WalkKnown DEF Srv!Unlisted
    <3>2. Srv!list_transports(next, conn') = Srv!list_transports(next, conn)
      BY <2>2, <3>1, SameNames
    <3> QED BY <2>1, <3>2 DEF ServerInv, Srv!TrackerCurrent
  <2> QED BY <2>5, <2>7, <2>8, <2>10, <2>11, <2>12 DEF ServerInv
<1>3. ASSUME Srv!Listed PROVE ServerInv'
  <2> DEFINE t == Head(queue)[1]
  <2>1. /\ queue # <<>> /\ queue' = Tail(queue) /\ Head(queue)[2] = 1
        /\ next' = [next EXCEPT ![t] = 0, ![prev[0]] = t]
        /\ prev' = [prev EXCEPT ![t] = prev[0], ![0] = t]
        /\ UNCHANGED <<conn, listener, need, unlinked>> /\ last' = Srv!list_transports(next', conn')
    BY <1>3 DEF Srv!Listed, Srv!transport_read_action, Srv!update_transports
  <2>2. /\ queue' \in Seq(Post) /\ Head(queue) \in Post /\ Head(queue) \in Srv!Posted
        /\ Srv!Posted' = Srv!Posted \ {Head(queue)}
        /\ \A i, j \in DOMAIN queue' : queue'[i] = queue'[j] => i = j
    BY <1>t, <1>p, <2>1, PostRead
  <2>3. Head(queue) = <<t, 1>> /\ t \in Transports
    BY <2>1, <2>2 DEF Post
  <2> HIDE DEF t
  <2>4. /\ \A y \in Transports : <<y, 0>> \in Srv!Posted' => <<y, 0>> \in Srv!Posted
        /\ \A y \in Transports : <<y, 1>> \in Srv!Posted' <=> <<y, 1>> \in Srv!Posted /\ y # t
    BY <2>2, <2>3
  <2>5. conn[t] \in {"offline", "noperm"} /\ <<t, 1>> \in Srv!Posted
    BY <1>p, <2>2, <2>3
  <2>6. t \notin Srv!OnList /\ Srv!OnList' = Srv!OnList \cup {t}
    BY <2>1, <2>3, <2>4, <2>5 DEF Srv!OnList
  <2>7. /\ next' \in [Node -> Node] /\ prev' \in [Node -> Node]
        /\ \A x \in Node : next'[x] \in {0, t, next[x]}
        /\ Srv!Threaded'
    BY <1>t, <2>1, <2>3, <2>6, LinkSafe DEF ServerInv
  <2>8. ServerTyped'
    BY <1>t, <2>1, <2>2, <2>7 DEF ServerTyped
  <2>9. Srv!NotPointedTo'
    <3>1. conn[t] # "none" /\ <<t, 1>> \notin Srv!Posted'
      BY <2>3, <2>4, <2>5
    <3>2. \A x \in Node : next[x] # 0 => conn[next[x]] # "none" /\ <<next[x], 1>> \notin Srv!Posted'
      BY <1>n, <2>2
    <3>3. \A x \in Node : next'[x] # 0 => conn[next'[x]] # "none" /\ <<next'[x], 1>> \notin Srv!Posted'
      BY <2>7, <3>1, <3>2
    <3>4. DOMAIN next' = Node
      BY <2>7
    <3> QED BY <2>1, <3>3, <3>4 DEF Srv!NotPointedTo, Srv!Unlisted
  <2>10. Srv!PostedOnce'
    BY <1>p, <2>1, <2>2, <2>4 DEF Srv!PostedOnce
  <2>11. Srv!HungUp' /\ Srv!TrackerCurrent'
    BY <2>1 DEF ServerInv, Srv!HungUp, Srv!TrackerCurrent
  <2> QED BY <2>7, <2>8, <2>9, <2>10, <2>11 DEF ServerInv
<1>4. ASSUME Srv!Removed PROVE ServerInv'
  <2> DEFINE t == Head(queue)[1]
  <2>1. /\ queue # <<>> /\ queue' = Tail(queue) /\ Head(queue)[2] = 0
        /\ Srv!Unlink(t) /\ listener' = Srv!Disconnected(t) /\ conn' = [conn EXCEPT ![t] = "freed"]
        /\ UNCHANGED <<need, unlinked>> /\ last' = Srv!list_transports(next', conn')
    BY <1>4 DEF Srv!Removed, Srv!transport_read_action, Srv!update_transports
  <2>2. /\ queue' \in Seq(Post) /\ Head(queue) \in Post /\ Head(queue) \in Srv!Posted
        /\ Srv!Posted' = Srv!Posted \ {Head(queue)}
        /\ \A i, j \in DOMAIN queue' : queue'[i] = queue'[j] => i = j
    BY <1>t, <1>p, <2>1, PostRead
  <2>3. Head(queue) = <<t, 0>> /\ t \in Transports
    BY <2>1, <2>2 DEF Post
  <2> HIDE DEF t
  <2>4. /\ \A y \in Transports : <<y, 0>> \in Srv!Posted' <=> <<y, 0>> \in Srv!Posted /\ y # t
        /\ \A y \in Transports : <<y, 1>> \in Srv!Posted' <=> <<y, 1>> \in Srv!Posted
    BY <2>2, <2>3
  <2>5. conn[t] = "dying" /\ <<t, 1>> \notin Srv!Posted
    BY <1>p, <2>2, <2>3
  <2>6. conn' \in [Transports -> ConnState] /\ \A x \in Transports : conn'[x] = IF x = t THEN "freed" ELSE conn[x]
    BY <1>t, <2>1, <2>3 DEF ConnState
  <2>7. t \in Srv!OnList /\ Srv!OnList' = Srv!OnList \ {t}
    BY <2>3, <2>4, <2>5, <2>6 DEF Srv!OnList
  <2>8. /\ next' \in [Node -> Node] /\ prev' \in [Node -> Node]
        /\ \A x \in Node : \E y \in Node : next'[x] = next[y]
        /\ Srv!Threaded'
    BY <1>t, <2>1, <2>3, <2>7, UnlinkSafe DEF ServerInv
  <2>9. ServerTyped'
    BY <1>t, <1>f, <2>1, <2>2, <2>3, <2>6, <2>8 DEF ServerTyped
  <2>10. Srv!NotPointedTo'
    <3>1. \A x \in Node : next[x] # 0 => next[x] \in Transports
      BY <1>t DEF Node
    <3>2. \A x \in Node : next[x] # 0 => conn'[next[x]] # "none" /\ <<next[x], 1>> \notin Srv!Posted'
      BY <1>n, <2>2, <2>6, <3>1
    <3>3. \A x \in Node : next'[x] # 0 => conn'[next'[x]] # "none" /\ <<next'[x], 1>> \notin Srv!Posted'
      BY <2>8, <3>2
    <3>4. DOMAIN next' = Node
      BY <2>8
    <3> QED BY <3>3, <3>4 DEF Srv!NotPointedTo, Srv!Unlisted
  <2>11. Srv!PostedOnce'
    BY <1>p, <2>2, <2>4, <2>5, <2>6 DEF Srv!PostedOnce
  <2>12. Srv!HungUp'
    BY <1>f, <2>1, <2>3, <2>6 DEF ServerInv, Srv!HungUp
  <2>13. Srv!TrackerCurrent'
    BY <2>1 DEF Srv!TrackerCurrent
  <2> QED BY <2>8, <2>9, <2>10, <2>11, <2>12, <2>13 DEF ServerInv
\* The connection state of a listed transport changes.
<1>5. ASSUME NEW t \in Transports, NEW c \in {"device", "recovery", "dying"},
             conn[t] \in {"offline", "device", "recovery"}, <<t, 1>> \notin Srv!Posted,
             conn' = [conn EXCEPT ![t] = c], listener' \in {listener, Srv!Disconnected(t)},
             UNCHANGED <<next, prev, queue, unlinked>>, Srv!TrackerCurrent'
      PROVE  ServerInv'
  <2>1. /\ conn' \in [Transports -> ConnState]
        /\ \A x \in Transports : conn'[x] = IF x = t THEN c ELSE conn[x]
    BY <1>t, <1>5 DEF ConnState
  <2>2. ServerTyped'
    BY <1>t, <1>f, <1>5, <2>1 DEF ServerTyped
  <2>3. Srv!NotPointedTo'
    <3>1. \A x \in Node : next[x] # 0 => next[x] \in Transports
      BY <1>t DEF Node
    <3>2. \A x \in Node : next[x] # 0 => conn'[next[x]] # "none" /\ <<next[x], 1>> \notin Srv!Posted'
      BY <1>n, <1>q, <1>5, <2>1, <3>1
    <3> QED BY <1>t, <1>5, <3>2 DEF Srv!NotPointedTo, Srv!Unlisted
  <2>4. Srv!PostedOnce'
    BY <1>p, <1>q, <1>5, <2>1 DEF Srv!PostedOnce
  <2>5. Srv!OnList' = Srv!OnList
    BY <1>q, <1>5, <2>1 DEF Srv!OnList
  <2>6. Srv!Threaded'
    BY <1>5, <2>5 DEF ServerInv, Srv!Threaded
  <2>7. Srv!HungUp'
    BY <1>f, <1>5, <2>1 DEF ServerInv, Srv!HungUp
  <2> QED BY <1>5, <2>2, <2>3, <2>4, <2>6, <2>7 DEF ServerInv
<1>6. ASSUME NEW t \in Transports, NEW b \in {"device", "recovery"}, Srv!Cnxn(t, b) PROVE ServerInv'
  <2>1. Srv!TrackerCurrent'
    BY <1>6 DEF Srv!Cnxn, Srv!update_transports, Srv!TrackerCurrent
  <2> QED BY <1>5, <1>6, <2>1 DEF Srv!Cnxn
<1>7. ASSUME NEW t \in Transports, Srv!Dies(t) PROVE ServerInv'
  <2>1. /\ conn' = [conn EXCEPT ![t] = "dying"] /\ missed' = (missed \/ conn[t] # "offline")
        /\ UNCHANGED <<next, need, last>>
    BY <1>7 DEF Srv!Dies
  <2>2. Srv!TrackerCurrent'
    <3> SUFFICES ASSUME ~need', ~missed' PROVE last' = Srv!list_transports(next', conn')
      BY DEF Srv!TrackerCurrent
    <3>1. conn[t] = "offline" /\ last = Srv!list_transports(next, conn)
      BY <2>1 DEF ServerInv, Srv!TrackerCurrent
    <3>2. \A x \in Transports : Srv!statename(conn'[x]) = Srv!statename(conn[x])
      BY <1>t, <2>1, <3>1 DEF Srv!statename
    <3>3. \A i \in DOMAIN Srv!ListOf(next) : Srv!ListOf(next)[i] \in Transports
      BY WalkKnown
    <3>4. Srv!list_transports(next, conn') = Srv!list_transports(next, conn)
      BY <3>2, <3>3, SameNames
    <3> QED BY <2>1, <3>1, <3>4
  <2> QED BY <1>5, <1>7, <2>2 DEF Srv!Dies
<1>8. ASSUME NEW t \in Transports, Srv!Unreferenced(t) PROVE ServerInv'
  <2>1. /\ conn[t] = "dying" /\ <<t, 0>> \notin Srv!Posted /\ queue' = Append(queue, <<t, 0>>)
        /\ UNCHANGED <<conn, next, prev, listener, need, last, missed, unlinked>>
    BY <1>8 DEF Srv!Unreferenced, Srv!transport_write_action
  <2>2. /\ queue' \in Seq(Post) /\ Srv!Posted' = Srv!Posted \cup {<<t, 0>>}
        /\ \A i, j \in DOMAIN queue' : queue'[i] = queue'[j] => i = j
    BY <1>t, <1>p, <1>d, <2>1, PostAppended
  <2>3. /\ \A y : <<y, 1>> \in Srv!Posted' <=> <<y, 1>> \in Srv!Posted
        /\ \A y : <<y, 0>> \in Srv!Posted' <=> <<y, 0>> \in Srv!Posted \/ y = t
    BY <2>2
  <2>4. ServerTyped'
    BY <1>t, <2>1, <2>2 DEF ServerTyped
  <2>5. Srv!NotPointedTo'
    BY <1>t, <1>n, <2>1, <2>3 DEF Srv!NotPointedTo, Srv!Unlisted
  <2>6. Srv!PostedOnce'
    BY <1>p, <2>1, <2>2, <2>3 DEF Srv!PostedOnce
  <2>7. Srv!OnList' = Srv!OnList
    BY <2>1, <2>3 DEF Srv!OnList
  <2>8. Srv!Threaded' /\ Srv!HungUp' /\ Srv!TrackerCurrent'
    BY <2>1, <2>7 DEF ServerInv, Srv!Threaded, Srv!HungUp, Srv!TrackerCurrent
  <2> QED BY <2>4, <2>5, <2>6, <2>8 DEF ServerInv
<1>9. ASSUME NEW t \in Transports, Srv!NoPermGone(t) PROVE ServerInv'
  <2>1. /\ conn[t] = "noperm" /\ Srv!find_transport(t) /\ Srv!Unlink(t) /\ missed' = TRUE
        /\ conn' = [conn EXCEPT ![t] = "lost"] /\ UNCHANGED <<queue, listener, unlinked>>
    BY <1>9 DEF Srv!NoPermGone
  <2>2. <<t, 1>> \notin Srv!Posted
    BY <2>1, WalkKnown DEF Srv!find_transport, Srv!Unlisted
  <2>3. /\ conn' \in [Transports -> ConnState]
        /\ \A x \in Transports : conn'[x] = IF x = t THEN "lost" ELSE conn[x]
    BY <1>t, <2>1 DEF ConnState
  <2>4. t \in Srv!OnList /\ Srv!OnList' = Srv!OnList \ {t}
    BY <1>q, <2>1, <2>2, <2>3 DEF Srv!OnList
  <2>5. /\ next' \in [Node -> Node] /\ prev' \in [Node -> Node]
        /\ \A x \in Node : \E y \in Node : next'[x] = next[y]
        /\ Srv!Threaded'
    BY <1>t, <2>1, <2>4, UnlinkSafe DEF ServerInv
  <2>6. ServerTyped'
    BY <1>t, <2>1, <2>3, <2>5 DEF ServerTyped
  <2>7. Srv!NotPointedTo'
    <3>1. \A x \in Node : next[x] # 0 => next[x] \in Transports
      BY <1>t DEF Node
    <3>2. \A x \in Node : next[x] # 0 => conn'[next[x]] # "none" /\ <<next[x], 1>> \notin Srv!Posted'
      BY <1>n, <1>q, <2>1, <2>3, <3>1
    <3>3. \A x \in Node : next'[x] # 0 => conn'[next'[x]] # "none" /\ <<next'[x], 1>> \notin Srv!Posted'
      BY <2>5, <3>2
    <3>4. DOMAIN next' = Node
      BY <2>5
    <3> QED BY <3>3, <3>4 DEF Srv!NotPointedTo, Srv!Unlisted
  <2>8. Srv!PostedOnce'
    BY <1>p, <1>q, <2>1, <2>2, <2>3 DEF Srv!PostedOnce
  <2>9. Srv!HungUp' /\ Srv!TrackerCurrent'
    BY <2>1, <2>3 DEF ServerInv, Srv!HungUp, Srv!TrackerCurrent
  <2> QED BY <2>5, <2>6, <2>7, <2>8, <2>9 DEF ServerInv
<1>10. ASSUME NEW t \in Transports, Srv!DisconnectRequest(t) PROVE ServerInv'
  <2>1. /\ Srv!Unlink(t) /\ missed' = TRUE /\ unlinked' = unlinked \cup {t} /\ UNCHANGED <<conn, queue, listener>>
    BY <1>10 DEF Srv!DisconnectRequest
  <2>2. /\ next' \in [Node -> Node] /\ prev' \in [Node -> Node]
        /\ \A x \in Node : \E y \in Node : next'[x] = next[y]
    BY <1>t, <2>1, UnlinkSafe
  <2>3. ServerTyped'
    BY <1>t, <2>1, <2>2 DEF ServerTyped
  <2>4. Srv!NotPointedTo'
    <3>1. \A x \in Node : next'[x] # 0 => conn[next'[x]] # "none" /\ <<next'[x], 1>> \notin Srv!Posted
      BY <1>n, <2>2
    <3>2. DOMAIN next' = Node
      BY <2>2
    <3> QED BY <1>q, <2>1, <3>1, <3>2 DEF Srv!NotPointedTo, Srv!Unlisted
  <2>5. Srv!PostedOnce'
    BY <1>p, <1>q, <2>1 DEF Srv!PostedOnce
  <2>6. unlinked' # {}
    BY <2>1
  <2>7. Srv!HungUp' /\ Srv!TrackerCurrent' /\ Srv!Threaded'
    BY <2>1, <2>6 DEF ServerInv, Srv!HungUp, Srv!TrackerCurrent, Srv!Threaded
  <2> QED BY <2>3, <2>4, <2>5, <2>7 DEF ServerInv
<1>11. ASSUME NEW p \in Ports, NEW type, Srv!Forward(p, type) PROVE ServerInv'
  <2> DEFINE t == Srv!Match(type)
             r == [transport |-> t, dis |-> t]
  <2>1. /\ t # Srv!Nobody /\ listener' = [listener EXCEPT ![p] = r]
        /\ UNCHANGED <<conn, next, prev, queue, need, last, missed, unlinked>>
    BY <1>11 DEF Srv!Forward, Srv!install_listener, Srv!add_transport_disconnect
  <2>2. PICK i \in DOMAIN Srv!ListOf(next) : Srv!ListOf(next)[i] = t
    BY <2>1, Matched
  <2> HIDE DEF t
  <2>3. t \in Transports
    BY <2>2, WalkKnown
  <2>4. unlinked = {} => conn[t] # "freed"
    BY <2>2, WalkSound DEF Srv!OnList
  <2>5. r \in [transport : Node, dis : Node] /\ r.dis = t /\ r.transport = t
    BY <2>3 DEF Node
  <2> HIDE DEF r
  <2>6. /\ listener' \in [Ports -> [transport : Node, dis : Node]]
        /\ \A x \in Ports : listener'[x] = IF x = p THEN r ELSE listener[x]
    BY <1>t, <2>1, <2>5
  <2>7. Srv!HungUp'
    BY <2>1, <2>3, <2>4, <2>5, <2>6 DEF ServerInv, Srv!HungUp
  <2>8. ServerTyped'
    BY <1>t, <2>1, <2>6 DEF ServerTyped
  <2> QED BY <1>q, <2>1, <2>7, <2>8 DEF ServerInv, Srv!NotPointedTo, Srv!Unlisted, Srv!PostedOnce,
      Srv!Threaded, Srv!OnList, Srv!TrackerCurrent
<1>12. ASSUME NEW p \in Ports, NEW type, Srv!KillForward(p, type) PROVE ServerInv'
  <2>1. /\ listener' = [listener EXCEPT ![p] = Srv!Free]
        /\ UNCHANGED <<conn, next, prev, queue, need, last, missed, unlinked>>
    BY <1>12 DEF Srv!KillForward
  <2>2. Srv!Free \in [transport : Node, dis : Node]
    BY DEF Srv!Free, Srv!Nobody, Node
  <2>3. /\ listener' \in [Ports -> [transport : Node, dis : Node]]
        /\ \A x \in Ports : listener'[x] = IF x = p THEN Srv!Free ELSE listener[x]
    BY <1>t, <2>1, <2>2
  <2>4. Srv!HungUp'
    BY <2>1, <2>3 DEF ServerInv, Srv!HungUp
  <2>5. ServerTyped'
    BY <1>t, <2>1, <2>3 DEF ServerTyped
  <2> QED BY <1>q, <2>1, <2>4, <2>5 DEF ServerInv, Srv!NotPointedTo, Srv!Unlisted, Srv!PostedOnce,
      Srv!Threaded, Srv!OnList, Srv!TrackerCurrent
<1>13. ASSUME Srv!TrackerReady PROVE ServerInv'
  <2>1. /\ last' = Srv!list_transports(next, conn)
        /\ UNCHANGED <<conn, next, prev, queue, listener, unlinked>>
    BY <1>13 DEF Srv!TrackerReady
  <2> QED BY <1>q, <2>1 DEF ServerInv, ServerTyped, Srv!NotPointedTo, Srv!Unlisted, Srv!PostedOnce, Srv!Threaded,
      Srv!OnList, Srv!HungUp, Srv!TrackerCurrent
<1>14. CASE Srv!WaitPick \/ Srv!WaitCheck \/ UNCHANGED srv
  <2>1. UNCHANGED <<conn, next, prev, queue, listener, need, last, missed, unlinked>>
    BY <1>14 DEF Srv!WaitPick, Srv!WaitCheck, srv
  <2> QED BY <1>1, <2>1
<1>15. ASSUME NEW t \in Transports, Srv!register_usb_transport(t) \/ Srv!ConnectRequest(t) PROVE ServerInv'
  BY <1>2, <1>15 DEF Srv!register_usb_transport, Srv!ConnectRequest, Srv!register_socket_transport
<1> QED BY <1>3, <1>4, <1>6, <1>7, <1>8, <1>9, <1>10, <1>11, <1>12, <1>13, <1>14, <1>15 DEF Srv!Next

LEMMA ServerRight ==
    ASSUME ServerInv
    PROVE  Srv!ForwardsLive /\ Srv!ListLive /\ Srv!TrackerCurrent
<1>1. Srv!ForwardsLive
  BY DEF ServerInv, Srv!HungUp, Srv!ForwardsLive
<1>2. Srv!ListLive
  BY WalkSound DEF Srv!ListLive, Srv!OnList
<1>3. Srv!TrackerCurrent
  BY DEF ServerInv
<1> QED BY <1>1, <1>2, <1>3

-----------------------------------------------------------------------------
(* The event loop                                                          *)

Fd == 0 .. MaxFd

EventsInv ==
    /\ table \in SUBSET Fd /\ pending \subseteq table /\ plist \in Seq(Fd) /\ selectN \in Int
    /\ wants \in [Fd -> SUBSET Evt!Kinds] /\ events \in [Fd -> SUBSET Evt!Kinds]
    /\ \A i, j \in DOMAIN plist : plist[i] = plist[j] => i = j
    /\ \A f : f \in pending <=> \E i \in DOMAIN plist : plist[i] = f
    /\ \A f \in pending : events[f] # {}
    /\ \A f \in table : f < selectN

\* The highest descriptor of a table.
LEMMA Highest ==
    ASSUME NEW S \in SUBSET Fd, S # {}
    PROVE  Evt!Max(S) \in Fd /\ \A f \in S : f < Evt!Max(S) + 1
<1> DEFINE U == {u \in Nat : \A y \in S : y <= u}
<1>1. MaxFd \in Nat /\ S \subseteq Nat /\ \A y \in S : y <= MaxFd
  BY AdbDescriptors DEF Fd
<1>2. PICK u \in U : \A v \in U : u <= v
  <2>1. U \in SUBSET Nat /\ MaxFd \in U
    BY <1>1
  <2> HIDE DEF U
  <2> QED BY <2>1, LeastNumber
<1>3. u \in S
  <2> SUFFICES ASSUME u \notin S PROVE FALSE
    OBVIOUS
  <2>1. \A y \in S : y <= u - 1
    BY <1>1, <1>2
  <2>2. PICK y \in S : TRUE
    OBVIOUS
  <2>3. u - 1 \in Nat
    BY <1>1, <1>2, <2>1, <2>2
  <2>4. u - 1 \in U
    BY <2>1, <2>3
  <2> QED BY <1>2, <2>3, <2>4
<1>4. \E x \in S : \A y \in S : x >= y
  BY <1>1, <1>2, <1>3
<1>5. Evt!Max(S) \in S /\ \A y \in S : Evt!Max(S) >= y
  BY <1>4 DEF Evt!Max
<1> DEFINE top == Evt!Max(S)
<1>6. top \in Fd /\ top \in Nat /\ \A y \in S : y \in Nat /\ top >= y
  BY <1>1, <1>5
<1> HIDE DEF top
<1>7. \A y \in S : y < top + 1
  BY <1>6
<1> QED BY <1>6, <1>7 DEF top

\* The descriptors that are ready, in the order of their numbers: each once.
LEMMA Enqueued ==
    ASSUME NEW fs \in SUBSET Fd
    PROVE  LET s == Evt!InOrder(fs)
           IN  /\ s \in Seq(Fd)
               /\ \A i, j \in DOMAIN s : s[i] = s[j] => i = j
               /\ \A f : f \in fs <=> \E i \in DOMAIN s : s[i] = f
<1> DEFINE s == Evt!InOrder(fs)
           Rank(f) == Evt!Cardinality({g \in fs : g <= f})
           c == Evt!Cardinality(fs)
<1>1. fs \in SUBSET Nat /\ IsFiniteSet(fs)
  <2>1. 0 \in Int /\ MaxFd \in Int /\ Fd \subseteq Nat
    BY AdbDescriptors DEF Fd
  <2>2. IsFiniteSet(Fd)
    BY <2>1, FS_Interval DEF Fd
  <2>3. IsFiniteSet(fs)
    BY <2>2, FS_Subset
  <2> QED BY <2>1, <2>3
<1>2. /\ c \in Nat
      /\ \A k \in 1 .. c : \E f \in fs : Rank(f) = k
      /\ \A f, g \in fs : Rank(f) = Rank(g) => f = g
      /\ \A f \in fs : Rank(f) \in 1 .. c
  BY <1>1, Ranks, SameCount
<1>3. s = [k \in 1 .. c |-> CHOOSE f \in fs : Rank(f) = k]
  BY DEF Evt!InOrder
<1> HIDE DEF Rank, c, s
<1>4. \A k \in 1 .. c : s[k] \in fs /\ Rank(s[k]) = k
  <2> SUFFICES ASSUME NEW k \in 1 .. c PROVE s[k] \in fs /\ Rank(s[k]) = k
    OBVIOUS
  <2>1. s[k] = CHOOSE f \in fs : Rank(f) = k
    BY <1>3
  <2> QED BY <1>2, <2>1
<1>5. s \in [1 .. c -> Fd]
  BY <1>3, <1>4
<1>6. s \in Seq(Fd) /\ DOMAIN s = 1 .. c
  BY <1>2, <1>5, SeqDef
<1>7. \A i, j \in 1 .. c : s[i] = s[j] => i = j
  BY <1>4
<1>8. \A f \in fs : s[Rank(f)] = f
  BY <1>2, <1>4
<1>9. \A f : f \in fs <=> \E i \in 1 .. c : s[i] = f
  BY <1>2, <1>4, <1>8
<1> QED BY <1>6, <1>7, <1>9 DEF s

\* A descriptor leaves the pending list.
LEMMA Dropped ==
    ASSUME EventsInv, NEW f \in pending
    PROVE  LET s == Evt!fdevent_plist_remove(f)
           IN  /\ s \in Seq(Fd)
               /\ \A i, j \in DOMAIN s : s[i] = s[j] => i = j
               /\ \A g : g \in pending \ {f} <=> \E i \in DOMAIN s : s[i] = g
<1> DEFINE m == CHOOSE k \in DOMAIN plist : plist[k] = f
           s == Evt!fdevent_plist_remove(f)
<1>1. plist \in Seq(Fd) /\ Len(plist) \in Nat /\ DOMAIN plist = 1 .. Len(plist)
  BY LenProperties DEF EventsInv
<1>2. m \in DOMAIN plist /\ plist[m] = f
  BY DEF EventsInv
<1>3. s = SubSeq(plist, 1, m - 1) \o SubSeq(plist, m + 1, Len(plist))
  BY DEF Evt!fdevent_plist_remove, Evt!RemoveAt
<1> HIDE DEF m, s
<1>4. /\ s \in Seq(Fd) /\ Len(s) = Len(plist) - 1
      /\ \A k \in 1 .. Len(s) : s[k] = IF k < m THEN plist[k] ELSE plist[k + 1]
  BY <1>1, <1>2, <1>3, LeftOut
<1> DEFINE from(k) == IF k < m THEN k ELSE k + 1
<1>5. DOMAIN s = 1 .. Len(plist) - 1
  BY <1>1, <1>4, LenProperties
<1>6. \A k \in DOMAIN s : from(k) \in DOMAIN plist /\ from(k) # m /\ s[k] = plist[from(k)]
  BY <1>1, <1>2, <1>4, <1>5
<1>7. \A k, j \in DOMAIN s : from(k) = from(j) => k = j
  BY <1>1, <1>2, <1>5
<1>8. ASSUME NEW j \in DOMAIN plist, j # m PROVE \E k \in DOMAIN s : s[k] = plist[j]
  <2>1. CASE j < m
    <3>1. j \in DOMAIN s /\ from(j) = j
      BY <1>1, <1>2, <1>5, <2>1
    <3> QED BY <1>6, <3>1
  <2>2. CASE ~(j < m)
    <3>1. j - 1 \in DOMAIN s /\ from(j - 1) = j
      BY <1>1, <1>2, <1>5, <1>8, <2>2
    <3> QED BY <1>6, <3>1
  <2> QED BY <2>1, <2>2
<1> HIDE DEF from
<1>9. \A i, j \in DOMAIN s : s[i] = s[j] => i = j
  BY <1>6, <1>7 DEF EventsInv
<1>10. ASSUME NEW g \in pending \ {f} PROVE \E i \in DOMAIN s : s[i] = g
  <2>1. PICK j \in DOMAIN plist : plist[j] = g
    BY DEF EventsInv
  <2> QED BY <1>2, <1>8, <2>1
<1>11. ASSUME NEW k \in DOMAIN s PROVE s[k] \in pending \ {f}
  BY <1>2, <1>6 DEF EventsInv
<1> QED BY <1>4, <1>9, <1>10, <1>11 DEF s

\* Every round of the loop and every call in a callback keeps the list.
LEMMA EventsSafe ==
    ASSUME EventsInv, [Evt!Next]_evt
    PROVE  EventsInv'
<1>t. /\ table \in SUBSET Fd /\ pending \subseteq table /\ plist \in Seq(Fd) /\ selectN \in Int
      /\ wants \in [Fd -> SUBSET Evt!Kinds] /\ events \in [Fd -> SUBSET Evt!Kinds]
      /\ \A f \in Fd : f \in Int
  BY DEF EventsInv, Fd
<1>1. CASE UNCHANGED <<table, wants, events, pending, plist, selectN>>
  BY <1>1 DEF EventsInv
<1>2. ASSUME NEW f \in Fd, Evt!fdevent_install(f) PROVE EventsInv'
  <2>1. /\ f \notin table /\ table' = table \cup {f} /\ pending' = pending \ {f} /\ plist' = plist
        /\ wants' = [wants EXCEPT ![f] = {}] /\ events' = [events EXCEPT ![f] = {}]
        /\ selectN' = IF f >= selectN THEN f + 1 ELSE selectN
    BY <1>2 DEF Evt!fdevent_install, Evt!fdevent_register, Evt!fdevent_connect
  <2>2. pending' = pending /\ \A g \in pending : g # f
    BY <1>t, <2>1
  <2>3. /\ wants' \in [Fd -> SUBSET Evt!Kinds] /\ events' \in [Fd -> SUBSET Evt!Kinds]
        /\ \A g \in pending : events'[g] = events[g]
    BY <1>t, <2>1, <2>2
  <2>4. selectN' \in Int /\ \A g \in table' : g < selectN'
    <3>1. \A g \in table : g < selectN /\ g \in Int
      BY <1>t DEF EventsInv
    <3> QED BY <1>t, <2>1, <3>1
  <2> QED BY <1>t, <2>1, <2>2, <2>3, <2>4 DEF EventsInv
<1>3. ASSUME NEW f \in Fd, Evt!fdevent_remove(f) PROVE EventsInv'
  <2>1. /\ f \in table /\ table' = table \ {f} /\ pending' = pending \ {f}
        /\ plist' = IF f \in pending THEN Evt!fdevent_plist_remove(f) ELSE plist
        /\ wants' = [wants EXCEPT ![f] = {}] /\ events' = [events EXCEPT ![f] = {}]
        /\ selectN' = Evt!Max(table) + 1
    BY <1>3 DEF Evt!fdevent_remove, Evt!fdevent_unregister, Evt!fdevent_disconnect
  <2>2. /\ plist' \in Seq(Fd)
        /\ \A i, j \in DOMAIN plist' : plist'[i] = plist'[j] => i = j
        /\ \A g : g \in pending' <=> \E i \in DOMAIN plist' : plist'[i] = g
    <3>1. CASE f \in pending
      BY <2>1, <3>1, Dropped
    <3>2. CASE f \notin pending
      <4>1. pending' = pending /\ plist' = plist
        BY <2>1, <3>2
      <4> QED BY <4>1 DEF EventsInv
    <3> QED BY <3>1, <3>2
  <2>3. /\ wants' \in [Fd -> SUBSET Evt!Kinds] /\ events' \in [Fd -> SUBSET Evt!Kinds]
        /\ \A g \in pending' : events'[g] # {}
    <3>1. \A g \in pending' : g # f /\ g \in Fd /\ events[g] # {}
      BY <1>t, <2>1 DEF EventsInv
    <3> QED BY <1>t, <2>1, <3>1
  <2>4. selectN' \in Int /\ \A g \in table' : g < selectN'
    <3>1. Evt!Max(table) \in Fd /\ \A g \in table : g < Evt!Max(table) + 1
      BY <1>t, <2>1, Highest
    <3> QED BY <1>t, <2>1, <3>1
  <2> QED BY <1>t, <2>1, <2>2, <2>3, <2>4 DEF EventsInv
<1>4. ASSUME NEW f \in Fd, NEW ev \in SUBSET Evt!Kinds, Evt!fdevent_set(f, ev) PROVE EventsInv'
  <2> DEFINE left == events[f] \ ev
  <2>1. /\ f \in table /\ wants' = [wants EXCEPT ![f] = ev] /\ table' = table /\ selectN' = selectN
        /\ \/ f \notin pending /\ UNCHANGED <<events, pending, plist>>
           \/ f \in pending /\ left # {} /\ events' = [events EXCEPT ![f] = left] /\ UNCHANGED <<pending, plist>>
           \/ /\ f \in pending /\ events' = [events EXCEPT ![f] = {}]
              /\ pending' = pending \ {f} /\ plist' = Evt!fdevent_plist_remove(f)
    BY <1>4 DEF Evt!fdevent_set, Evt!fdevent_update
  <2>2. wants' \in [Fd -> SUBSET Evt!Kinds] /\ left \in SUBSET Evt!Kinds
    BY <1>t, <2>1
  <2> HIDE DEF left
  <2>3. CASE f \notin pending /\ UNCHANGED <<events, pending, plist>>
    BY <2>1, <2>2, <2>3 DEF EventsInv
  <2>4. CASE f \in pending /\ left # {} /\ events' = [events EXCEPT ![f] = left] /\ UNCHANGED <<pending, plist>>
    <3>1. events' \in [Fd -> SUBSET Evt!Kinds] /\ \A g \in pending : events'[g] # {}
      BY <1>t, <2>2, <2>4 DEF EventsInv
    <3> QED BY <2>1, <2>2, <2>4, <3>1 DEF EventsInv
  <2>5. CASE /\ f \in pending /\ events' = [events EXCEPT ![f] = {}]
             /\ pending' = pending \ {f} /\ plist' = Evt!fdevent_plist_remove(f)
    <3>1. events' \in [Fd -> SUBSET Evt!Kinds] /\ \A g \in pending' : events'[g] # {}
      BY <1>t, <2>5 DEF EventsInv
    <3>2. /\ plist' \in Seq(Fd)
          /\ \A i, j \in DOMAIN plist' : plist'[i] = plist'[j] => i = j
          /\ \A g : g \in pending' <=> \E i \in DOMAIN plist' : plist'[i] = g
      BY <2>5, Dropped
    <3> QED BY <1>t, <2>1, <2>2, <2>5, <3>1, <3>2 DEF EventsInv
  <2> QED BY <2>1, <2>3, <2>4, <2>5
<1>5. ASSUME Evt!fdevent_process PROVE EventsInv'
  <2>1. PICK ready \in [Fd -> SUBSET Evt!Kinds] :
          LET hit == {f \in table : f < selectN /\ ready[f] \cap wants[f] # {}}
          IN  /\ events' = [f \in Fd |-> IF f \in hit THEN events[f] \cup ready[f] ELSE events[f]]
              /\ pending' = pending \cup hit /\ plist' = Evt!fdevent_plist_enqueue(hit \ pending)
    BY <1>5 DEF Evt!fdevent_process, Fd
  <2> DEFINE hit == {f \in table : f < selectN /\ ready[f] \cap wants[f] # {}}
             s == Evt!InOrder(hit)
  <2>2. plist = <<>> /\ UNCHANGED <<table, wants, selectN>>
    BY <1>5 DEF Evt!fdevent_process
  <2>3. pending = {}
    BY <2>2 DEF EventsInv
  <2>4. hit \subseteq table /\ \A f \in hit : ready[f] # {} /\ f \in Fd
    BY <1>t
  <2>5. events' \in [Fd -> SUBSET Evt!Kinds] /\ \A f \in hit : events'[f] # {}
    <3>1. events' = [f \in Fd |-> IF f \in hit THEN events[f] \cup ready[f] ELSE events[f]]
      BY <2>1
    <3> HIDE DEF hit
    <3> QED BY <1>t, <2>4, <3>1
  <2>6. pending' = hit /\ plist' = <<>> \o s
    <3>1. pending' = pending \cup hit /\ plist' = Evt!fdevent_plist_enqueue(hit \ pending)
      BY <2>1
    <3> HIDE DEF hit
    <3>2. hit \ pending = hit
      BY <2>3
    <3> QED BY <2>2, <2>3, <3>1, <3>2 DEF Evt!fdevent_plist_enqueue
  <2> HIDE DEF hit
  <2>7. /\ s \in Seq(Fd)
        /\ \A i, j \in DOMAIN s : s[i] = s[j] => i = j
        /\ \A f : f \in hit <=> \E i \in DOMAIN s : s[i] = f
    <3>1. hit \in SUBSET Fd
      BY <2>4
    <3> QED BY <3>1, Enqueued
  <2> HIDE DEF s
  <2>8. plist' = s
    BY <2>6, <2>7, ConcatEmptySeq
  <2> QED BY <1>t, <2>2, <2>4, <2>5, <2>6, <2>7, <2>8 DEF EventsInv
<1>6. ASSUME Evt!Callback PROVE EventsInv'
  <2> DEFINE f == Head(plist)
  <2>1. /\ plist # <<>> /\ plist' = Tail(plist) /\ events' = [events EXCEPT ![f] = {}]
        /\ pending' = pending \ {f} /\ UNCHANGED <<table, wants, selectN>>
    BY <1>6 DEF Evt!Callback, Evt!fdevent_plist_dequeue
  <2>2. Len(plist) \in Nat \ {0} /\ DOMAIN plist = 1 .. Len(plist) /\ f = plist[1] /\ f \in Fd
    BY <1>t, <2>1, EmptySeq, LenProperties, HeadTailProperties, ElementOfSeq
  <2> HIDE DEF f
  <2>3. /\ plist' \in Seq(Fd) /\ DOMAIN plist' = 1 .. Len(plist) - 1
        /\ \A i \in 1 .. Len(plist) - 1 : plist'[i] = plist[i + 1]
    BY <1>t, <2>1, <2>2, HeadTailProperties, LenProperties
  <2>4. \A i \in DOMAIN plist' : i \in Int /\ i + 1 \in DOMAIN plist /\ i + 1 # 1 /\ plist'[i] = plist[i + 1]
    BY <2>2, <2>3
  <2>5. 1 \in DOMAIN plist
    BY <2>2
  <2>6. \A i, j \in DOMAIN plist' : plist'[i] = plist'[j] => i = j
    <3> SUFFICES ASSUME NEW i \in DOMAIN plist', NEW j \in DOMAIN plist', plist'[i] = plist'[j] PROVE i = j
      OBVIOUS
    <3>1. i + 1 = j + 1
      BY <2>4 DEF EventsInv
    <3> QED BY <2>4, <3>1
  <2>7. ASSUME NEW g \in pending' PROVE \E i \in DOMAIN plist' : plist'[i] = g
    <3>1. PICK j \in DOMAIN plist : plist[j] = g
      BY <2>1 DEF EventsInv
    <3>2. j # 1
      BY <2>1, <2>2, <3>1
    <3>3. j - 1 \in DOMAIN plist' /\ (j - 1) + 1 = j
      BY <2>2, <2>3, <3>2
    <3>4. plist'[j - 1] = plist[j]
      BY <2>4, <3>3
    <3> QED BY <3>1, <3>3, <3>4
  <2>8. ASSUME NEW i \in DOMAIN plist' PROVE plist'[i] \in pending'
    <3>1. plist'[i] \in pending
      BY <2>4 DEF EventsInv
    <3>2. plist'[i] # f
      BY <2>2, <2>4, <2>5 DEF EventsInv
    <3> QED BY <2>1, <3>1, <3>2
  <2>9. events' \in [Fd -> SUBSET Evt!Kinds] /\ \A g \in pending' : events'[g] # {}
    BY <1>t, <2>1 DEF EventsInv
  <2> QED BY <1>t, <2>1, <2>3, <2>6, <2>7, <2>8, <2>9 DEF EventsInv
<1>7. CASE Evt!Return \/ UNCHANGED evt
  BY <1>1, <1>7 DEF Evt!Return, evt
<1> QED BY <1>2, <1>3, <1>4, <1>5, <1>6, <1>7 DEF Evt!Next, Fd

LEMMA EventsRight ==
    ASSUME EventsInv
    PROVE  Evt!PendingSound
<1>1. plist \in Seq(Fd) /\ Len(plist) \in Nat /\ DOMAIN plist = 1 .. Len(plist)
  BY LenProperties DEF EventsInv
<1>2. Evt!ToSet(plist) = pending
  BY DEF EventsInv, Evt!ToSet
<1>3. plist \in Bijection(1 .. Len(plist), pending)
  <2>1. \A i \in 1 .. Len(plist) : plist[i] \in pending
    BY <1>1 DEF EventsInv
  <2>2. plist \in [1 .. Len(plist) -> pending]
    BY <1>1, <2>1
  <2>3. plist \in Injection(1 .. Len(plist), pending)
    BY <1>1, <2>2 DEF EventsInv, Injection, IsInjective
  <2>4. plist \in Surjection(1 .. Len(plist), pending)
    BY <1>1, <2>2 DEF EventsInv, Surjection
  <2> QED BY <2>3, <2>4 DEF Bijection
<1>4. Len(plist) = Evt!Cardinality(pending)
  <2>1. ExistsBijection(1 .. Len(plist), pending)
    BY <1>3 DEF ExistsBijection
  <2> QED BY <1>1, <2>1, FS_CountingElements, SameCount
<1> QED BY <1>2, <1>4 DEF EventsInv, Evt!PendingSound

-----------------------------------------------------------------------------
RegistryInv == EventsInv /\ ServerInv /\ JdwpInv /\ ClientInv

\* Every command connects to the server at least once.
LEMMA CommandsConnect == \A name : Cli!adb_commandline(name) # <<>>
<1>1. <<"once">> \o <<"retry">> \o <<"retry">> # <<>>
  OBVIOUS
<1>2. Cli!install_app # <<>> /\ Cli!uninstall_app # <<>>
  BY <1>1 DEF Cli!install_app, Cli!uninstall_app, Cli!pm_command, Cli!delete_file
<1> SUFFICES ASSUME NEW name PROVE Cli!adb_commandline(name) # <<>>
  OBVIOUS
<1>3. Cli!adb_commandline(name) \in
         {Cli!install_app, Cli!uninstall_app, <<"once", "once">>, <<"kill">>, <<"start">>, <<"once">>}
  BY DEF Cli!adb_commandline
<1>4. <<"once", "once">> # <<>> /\ <<"kill">> # <<>> /\ <<"start">> # <<>> /\ <<"once">> # <<>>
  OBVIOUS
<1> QED BY <1>2, <1>3, <1>4

LEMMA RegistryStart ==
    ASSUME Init
    PROVE  RegistryInv
<1>1. EventsInv
  <2>1. /\ table = Fd \ {Evt!Max(Fd)} /\ wants = [f \in Fd |-> IF f \in table THEN {"read"} ELSE {}]
        /\ events = [f \in Fd |-> {}] /\ pending = {} /\ plist = <<>> /\ selectN = Evt!Max(table) + 1
    BY DEF Init, Evt!Init, Fd
  <2>2. 0 \in Fd /\ 1 \in Fd
    BY AdbDescriptors DEF Fd
  <2>3. table \in SUBSET Fd /\ table # {}
    BY <2>1, <2>2
  <2>4. Evt!Max(table) \in Fd /\ \A f \in table : f < Evt!Max(table) + 1
    BY <2>3, Highest
  <2>5. selectN \in Int /\ \A f \in table : f < selectN
    <3> DEFINE top == Evt!Max(table)
    <3>1. top \in Fd /\ (\A f \in table : f < top + 1) /\ selectN = top + 1
      BY <2>1, <2>4
    <3> HIDE DEF top
    <3>2. top + 1 \in Int
      BY <3>1 DEF Fd
    <3> QED BY <3>1, <3>2
  <2>6. wants \in [Fd -> SUBSET Evt!Kinds] /\ events \in [Fd -> SUBSET Evt!Kinds]
    BY <2>1 DEF Evt!Kinds
  <2>7. plist \in Seq(Fd) /\ DOMAIN plist = {}
    BY <2>1
  <2> QED BY <2>1, <2>3, <2>5, <2>6, <2>7 DEF EventsInv
<1>2. ServerInv
  <2>1. /\ conn = [t \in Transports |-> "none"] /\ next = [t \in Node |-> 0] /\ prev = [t \in Node |-> 0]
        /\ queue = <<>> /\ listener = [p \in Ports |-> Srv!Free] /\ need = TRUE /\ unlinked = {}
    BY DEF Init, Srv!Init, Node
  <2>2. Srv!Free \in [transport : Node, dis : Node]
    BY DEF Srv!Free, Srv!Nobody, Node
  <2>3. queue \in Seq(Post) /\ DOMAIN queue = {} /\ Srv!Posted = {}
    BY <2>1 DEF Srv!Posted
  <2>4. ServerTyped
    BY <2>1, <2>2, <2>3 DEF ServerTyped, ConnState, Node
  <2>5. Srv!NotPointedTo /\ Srv!PostedOnce
    BY <2>1, <2>3 DEF Srv!NotPointedTo, Srv!PostedOnce
  <2>6. Srv!Threaded
    BY <2>1 DEF Srv!Threaded, Srv!OnList, Node
  <2>7. Srv!HungUp /\ Srv!TrackerCurrent
    BY <2>1 DEF Srv!HungUp, Srv!TrackerCurrent
  <2> QED BY <2>4, <2>5, <2>6, <2>7 DEF ServerInv
<1>3. JdwpInv
  <2>1. /\ sent = [v \in Vms |-> 0] /\ procs = <<>> /\ trackers = <<>>
        /\ fd = [f \in 1 .. MaxFds |-> "none"] /\ owner = [f \in 1 .. MaxFds |-> -1]
    BY DEF Init, Jdw!Init, Jdw!NoPid
  <2>2. procs \in Seq(Proc) /\ trackers \in Seq(Tracker) /\ DOMAIN procs = {} /\ DOMAIN trackers = {}
    BY <2>1
  <2>3. JdwpTyped
    BY <2>1, <2>2 DEF JdwpTyped, FdState
  <2>4. Jdw!JdwpTold /\ Jdw!QueuesApart /\ Jdw!QueuesMarked /\ Jdw!MarkedQueued
    BY <2>1, <2>2 DEF Jdw!JdwpTold, Jdw!QueuesApart, Jdw!QueuesMarked, Jdw!MarkedQueued
  <2> QED BY <2>3, <2>4 DEF JdwpInv
<1>4. ClientInv
  <2>1. /\ server \in {Cli!None, [id |-> 1, version |-> Old], [id |-> 1, version |-> Version]} /\ count = 1
        /\ lpc = [c \in Cli!Clients |-> Cli!Follow(c, todo[c])]
        /\ sess = [c \in Cli!Clients |-> Cli!None] /\ child = [c \in Cli!Clients |-> "none"]
        /\ served = [c \in Cli!Clients |-> {}]
    BY DEF Init, Cli!Init
  <2>2. \A c \in Cli!Clients : todo[c] # <<>>
    BY CommandsConnect DEF Init, Cli!Init
  <2>3. \A c \in Cli!Clients : lpc[c] \in {"version", "killserver"}
    BY <2>1, <2>2 DEF Cli!Follow
  <2>4. server \in ServerRec /\ server.id \in {0, 1} /\ (server.id = 0 => server = Cli!None)
    <3>1. [id |-> 1, version |-> Old] \in ServerRec /\ [id |-> 1, version |-> Version] \in ServerRec
      BY AdbVersions DEF ServerRec
    <3> QED BY <2>1, <3>1, NoServer
  <2>5. /\ lpc \in [Cli!Clients -> Place] /\ sess \in [Cli!Clients -> ServerRec]
        /\ child \in [Cli!Clients -> ChildState] /\ served \in [Cli!Clients -> SUBSET {Version}]
    BY <2>1, <2>3, NoServer DEF Place, ChildState
  <2>6. Cli!SessionsKnown
    BY <2>1, <2>4, NoServer DEF Cli!SessionsKnown
  <2>7. Cli!NobodyPastOld /\ Cli!ChildAwaited /\ Cli!SomebodyStarts
    BY <2>1, <2>3 DEF Cli!NobodyPastOld, Cli!ChildAwaited, Cli!SomebodyStarts
  <2> QED BY <2>1, <2>4, <2>5, <2>6, <2>7 DEF ClientInv
<1> QED BY <1>1, <1>2, <1>3, <1>4 DEF RegistryInv

LEMMA RegistryStep ==
    ASSUME [Next]_vars
    PROVE  [Evt!Next]_evt /\ [Srv!Next]_srv /\ [Jdw!Next]_jdw /\ [Cli!Next]_cli
<1>1. CASE UNCHANGED vars
  <2>1. UNCHANGED evt /\ UNCHANGED srv /\ UNCHANGED jdw /\ UNCHANGED cli
    BY <1>1 DEF vars
  <2> QED BY <2>1
<1>2. CASE EventsStep
  <2>1. Evt!Next /\ UNCHANGED srv /\ UNCHANGED jdw /\ UNCHANGED cli
    BY <1>2 DEF EventsStep, EventsOnly
  <2> QED BY <2>1
<1>3. CASE ServerStep
  <2>1. Srv!Next /\ UNCHANGED evt /\ UNCHANGED jdw /\ UNCHANGED cli
    BY <1>3 DEF ServerStep, ServerOnly
  <2> QED BY <2>1
<1>4. CASE JdwpStep
  <2>1. Jdw!Next /\ UNCHANGED evt /\ UNCHANGED srv /\ UNCHANGED cli
    BY <1>4 DEF JdwpStep, JdwpOnly
  <2> QED BY <2>1
<1>5. CASE ClientStep
  <2>1. Cli!Next /\ UNCHANGED evt /\ UNCHANGED srv /\ UNCHANGED jdw
    BY <1>5 DEF ClientStep, ClientOnly
  <2> QED BY <2>1
<1>6. CASE StreamsStep \/ TransportStep \/ SyncStep \/ PairsStep \/ UsbStep
  <2>1. UNCHANGED evt /\ UNCHANGED srv /\ UNCHANGED jdw /\ UNCHANGED cli
    BY <1>6 DEF StreamsStep, TransportStep, SyncStep, PairsStep, UsbStep,
                StreamsOnly, TransportOnly, SyncOnly, PairsOnly, UsbOnly
  <2> QED BY <2>1
<1> QED BY <1>1, <1>2, <1>3, <1>4, <1>5, <1>6 DEF Next

\* The pending list of the event loop holds each pending descriptor once, all
\* registered, with something to tell and within reach of select, whatever the
\* callbacks do; a forward never outlives its transport, the transport list
\* holds no freed transport and none twice as long as nobody runs "adb
\* disconnect", and a client that tracks devices holds the current list except
\* between a death and the next update; a tracker of debuggers holds the
\* current list, and a debugger's descriptor waits at exactly one process of
\* its pid until it is passed on or closed; a request is taken by a server of
\* the client's own version only, and a server of that version is left:
\* RegistryTrue, for any number of descriptors, transports, ports, virtual
\* machines, debuggers and trackers.
THEOREM RegistryStaysTrue == Spec => []RegistryTrue
<1>1. Init => RegistryInv
  BY RegistryStart
<1>2. ASSUME RegistryInv, [Next]_vars PROVE RegistryInv'
  BY <1>2, RegistryStep, EventsSafe, ServerSafe, JdwpSafe, ClientSafe DEF RegistryInv
<1>3. RegistryInv => RegistryTrue
  BY EventsRight, ServerRight, JdwpRight, ClientRight DEF RegistryInv, RegistryTrue
<1> QED BY <1>1, <1>2, <1>3, PTL DEF Spec

============================================================================
