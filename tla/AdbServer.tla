----------------------------- MODULE AdbServer -----------------------------
(***************************************************************************)
(* The adb server's books (transport.c, adb.c, services.c): the linked     *)
(* list of transports, the port forwards that hang on them, the clients    *)
(* that track the device list and the threads that wait for a device.      *)
(* One transport's threads are the subject of AdbTransport; here its life  *)
(* is registered, offline, online, dying, removed.                         *)
(***************************************************************************)
EXTENDS Integers, Sequences, FiniteSets

CONSTANTS Transports,  \* one per registration
          Usb,         \* those of type kTransportUsb; the others are local
          Ports,       \* local names that can be forwarded
          MaxReconnect,\* bound: CNXN packets of an online device
          MaxForwards  \* bound: forward and killforward requests

VARIABLES
    conn,        \* connection_state, "none" before and "freed" after its life
    next, prev,  \* transport_list, threaded through its head 0
    queue,       \* the registration socket: <<transport, action>>
    listener,    \* [transport, dis] of each forwarded port, dis: the list it hangs on
    need, last,  \* the tracker: update_needed and the list it was sent last
    missed,      \* the list changed without update_transports
    waiter, pick,  \* a wait_for_state thread for kTransportAny, and its choice
    unlinked,    \* transports taken off the list by "adb disconnect"
    reconnects, requests

bvars == <<conn, next, prev, queue, listener, need, last, missed, waiter, pick, unlinked,
           reconnects, requests>>

Nobody == 0
Free == [transport |-> Nobody, dis |-> Nobody]

\* The walk over transport_list, from the head to the head; Reach bounds it
\* should the list be damaged.
Reach == Cardinality(Transports) + 1
At(l, i) == IF i = 0 THEN 0 ELSE l[i]
Follows(nx, l) == \A i \in 1 .. Len(l) : l[i] = nx[At(l, i - 1)]
Ended(nx, l) == nx[At(l, Len(l))] = 0 \/ Len(l) = Reach
ListOf(nx) ==
    CHOOSE l \in UNION {[1 .. k -> Transports] : k \in 0 .. Reach} : Follows(nx, l) /\ Ended(nx, l)

\* list_transports: serial and state of every transport, in order.
statename(c) == IF c = "dying" THEN "offline" ELSE c
list_transports(nx, cs) == LET l == ListOf(nx) IN [i \in DOMAIN l |-> <<l[i], statename(cs[l[i]])>>]

\* update_transports; a tracker that has not been ready yet is told as well.
update_transports == last' = list_transports(next', conn') /\ missed' = FALSE

\* acquire_one_transport up to the unlock, for any type: the only transport
\* that is not CS_NOPERM, nobody, or an ambiguity.
Candidates == {t \in {ListOf(next)[i] : i \in DOMAIN ListOf(next)} : conn[t] # "noperm"}
Ambiguous(type) == Cardinality(Candidates \cap type) > 1
Match(type) == IF Cardinality(Candidates \cap type) = 1
               THEN CHOOSE t \in Candidates \cap type : TRUE ELSE Nobody

\* run_transport_disconnects: listener_disconnect frees every forward on the
\* list of t.
Disconnected(t) == [p \in Ports |-> IF listener[p].dis = t THEN Free ELSE listener[p]]

\* The registration socket.
transport_write_action(t, a) == Append(queue, <<t, a>>)
transport_read_action == Tail(queue)
Posted == {queue[i] : i \in DOMAIN queue}

Unlink(t) ==
    /\ next' = [next EXCEPT ![prev[t]] = next[t]]
    /\ prev' = [prev EXCEPT ![next[t]] = prev[t]]

-----------------------------------------------------------------------------
\* register_transport: the rest is left to the main thread.
register_transport(t, c) ==
    /\ conn[t] = "none" /\ conn' = [conn EXCEPT ![t] = c]
    /\ queue' = transport_write_action(t, 1)
    /\ UNCHANGED <<next, prev, listener, need, last, missed, waiter, pick, unlinked, reconnects, requests>>

\* By the device thread; a device that may not be opened is CS_NOPERM.
register_usb_transport(t) ==
    t \in Usb /\ \E c \in {"offline", "noperm"} : register_transport(t, c)

\* By the thread that looks for emulators, and for "connect:", unless a
\* transport of that name is listed.
find_transport(t) == \E i \in DOMAIN ListOf(next) : ListOf(next)[i] = t
register_socket_transport(t) == t \notin Usb /\ register_transport(t, "offline")
ConnectRequest(t) == ~find_transport(t) /\ register_socket_transport(t)

\* transport_registration_func, action 1: at the end of the list.
Listed ==
    /\ queue # <<>> /\ queue' = transport_read_action
    /\ LET t == Head(queue)[1]
       IN  /\ Head(queue)[2] = 1
           /\ next' = [next EXCEPT ![t] = 0, ![prev[0]] = t]
           /\ prev' = [prev EXCEPT ![t] = prev[0], ![0] = t]
    /\ UNCHANGED <<conn, listener, need, waiter, pick, unlinked, reconnects, requests>>
    /\ update_transports

\* ... action 0: off the list, disconnects run, freed.
Removed ==
    /\ queue # <<>> /\ queue' = transport_read_action /\ Head(queue)[2] = 0
    /\ LET t == Head(queue)[1]
       IN  /\ Unlink(t) /\ listener' = Disconnected(t)
           /\ conn' = [conn EXCEPT ![t] = "freed"]
    /\ UNCHANGED <<need, waiter, pick, unlinked, reconnects, requests>>
    /\ update_transports

\* A_CNXN and parse_banner: an online transport is taken offline first, which
\* costs it its forwards.
Cnxn_Slip(t, banner) ==
    /\ conn[t] \in {"offline", "device", "recovery"} /\ <<t, 1>> \notin Posted
    /\ t \notin unlinked
    /\ conn[t] # "offline" => reconnects < MaxReconnect
    /\ reconnects' = reconnects + (IF conn[t] = "offline" THEN 0 ELSE 1)
    /\ listener' = IF conn[t] = "offline" THEN listener ELSE Disconnected(t)
    /\ conn' = [conn EXCEPT ![t] = banner]
    /\ UNCHANGED <<next, prev, queue, need, waiter, pick, unlinked, requests, last, missed>>

Cnxn(t, banner) ==
    /\ conn[t] \in {"offline", "device", "recovery"} /\ <<t, 1>> \notin Posted
    /\ t \notin unlinked
    /\ conn[t] # "offline" => reconnects < MaxReconnect
    /\ reconnects' = reconnects + (IF conn[t] = "offline" THEN 0 ELSE 1)
    /\ listener' = IF conn[t] = "offline" THEN listener ELSE Disconnected(t)
    /\ conn' = [conn EXCEPT ![t] = banner]
    /\ UNCHANGED <<next, prev, queue, need, waiter, pick, unlinked, requests>>
    /\ update_transports

\* SYNC(0) of output_thread: offline for good, and nobody tells the trackers
\* before the transport is removed.
Dies(t) ==
    /\ conn[t] \in {"offline", "device", "recovery"} /\ <<t, 1>> \notin Posted
    /\ conn' = [conn EXCEPT ![t] = "dying"] /\ listener' = Disconnected(t)
    /\ missed' = (missed \/ conn[t] # "offline")
    /\ UNCHANGED <<next, prev, queue, need, last, waiter, pick, unlinked, reconnects, requests>>

\* transport_unref by the last thread.
Unreferenced(t) ==
    /\ conn[t] = "dying" /\ <<t, 0>> \notin Posted
    /\ queue' = transport_write_action(t, 0)
    /\ UNCHANGED <<conn, next, prev, listener, need, last, missed, waiter, pick, unlinked, reconnects,
                   requests>>

\* unregister_usb_transport, when a device without permissions is unplugged.
NoPermGone(t) ==
    /\ conn[t] = "noperm" /\ find_transport(t)
    /\ Unlink(t) /\ missed' = TRUE /\ conn' = [conn EXCEPT ![t] = "lost"]
    /\ UNCHANGED <<queue, listener, need, last, waiter, pick, unlinked, reconnects, requests>>

\* "disconnect:", unregister_transport: off the list at once, and a second time,
\* by its stale neighbours, when the threads have ended.
DisconnectRequest(t) ==
    /\ t \notin Usb /\ t \notin unlinked /\ find_transport(t)
    /\ Unlink(t) /\ unlinked' = unlinked \cup {t} /\ missed' = TRUE
    /\ UNCHANGED <<conn, queue, listener, need, last, waiter, pick, reconnects, requests>>

-----------------------------------------------------------------------------
\* "forward:" and install_listener.  A port in use is bound to the new
\* transport, and its disconnect moved.
install_listener_Slip(p, t) ==
    listener' = [listener EXCEPT ![p] =
        IF @ = Free THEN [transport |-> t, dis |-> t] ELSE [@ EXCEPT !.transport = t]]

add_transport_disconnect(t) == [transport |-> t, dis |-> t]
install_listener(p, t) == listener' = [listener EXCEPT ![p] = add_transport_disconnect(t)]

Forward(p, type) ==
    /\ requests < MaxForwards /\ requests' = requests + 1
    /\ LET t == Match(type)
       IN  t # Nobody /\ conn[t] \notin {"offline", "dying"} /\ install_listener(p, t)
    /\ UNCHANGED <<conn, next, prev, queue, need, last, missed, waiter, pick, unlinked, reconnects>>

\* "killforward:" and remove_listener, for the transport the client selects.
KillForward(p, type) ==
    /\ requests < MaxForwards /\ requests' = requests + 1
    /\ LET t == Match(type)
       IN  t # Nobody /\ conn[t] \notin {"offline", "dying"} /\ listener[p].transport = t
    /\ listener' = [listener EXCEPT ![p] = Free]
    /\ UNCHANGED <<conn, next, prev, queue, need, last, missed, waiter, pick, unlinked, reconnects>>

\* create_device_tracker and device_tracker_ready.
TrackerReady ==
    /\ need /\ need' = FALSE /\ last' = list_transports(next, conn) /\ missed' = FALSE
    /\ UNCHANGED <<conn, next, prev, queue, listener, waiter, pick, unlinked, reconnects, requests>>

\* "wait-for-any": wait_for_state in its own thread, which picks a transport
\* under the lock ...
WaitPick ==
    /\ waiter = "retry" /\ pick' = Match(Transports)
    /\ waiter' = IF pick' # Nobody THEN "check" ELSE IF Ambiguous(Transports) THEN "failed" ELSE "retry"
    /\ UNCHANGED <<conn, next, prev, queue, listener, need, last, missed, unlinked, reconnects, requests>>

\* ... and looks at its state without it; what a freed one shows is chance.
WaitCheck ==
    /\ waiter = "check"
    /\ \/ waiter' = "okay" /\ conn[pick] \in {"device", "freed"}
       \/ waiter' = "retry" /\ conn[pick] # "device"
    /\ UNCHANGED <<conn, next, prev, queue, listener, need, last, missed, pick, unlinked, reconnects,
                   requests>>

Init ==
    /\ conn = [t \in Transports |-> "none"]
    /\ next = [t \in Transports \cup {0} |-> 0] /\ prev = [t \in Transports \cup {0} |-> 0]
    /\ queue = <<>> /\ listener = [p \in Ports |-> Free]
    /\ need = TRUE /\ last = <<>> /\ missed = FALSE
    /\ waiter = "retry" /\ pick = Nobody /\ unlinked = {} /\ reconnects = 0 /\ requests = 0

Types == {Usb, Transports \ Usb, Transports}

Next ==
    \/ \E t \in Transports :
          \/ register_usb_transport(t) \/ ConnectRequest(t) \/ Dies(t) \/ Unreferenced(t) \/ NoPermGone(t) \/ DisconnectRequest(t)
          \/ \E b \in {"device", "recovery"} : Cnxn(t, b)
    \/ Listed \/ Removed \/ TrackerReady \/ WaitPick \/ WaitCheck
    \/ \E p \in Ports, type \in Types : Forward(p, type) \/ KillForward(p, type)

-----------------------------------------------------------------------------
\* A forward never outlives its transport: the port is bound to a transport
\* that is not freed, and hangs on the disconnect list of that very one (as
\* long as no "adb disconnect" has damaged the list).
ForwardsLive ==
    unlinked = {} => \A p \in Ports : listener[p] # Free =>
        listener[p].dis = listener[p].transport /\ conn[listener[p].transport] # "freed"

\* Without "adb disconnect" the list holds no freed transport, and each once.
ListLive ==
    unlinked = {} =>
        LET l == ListOf(next)
        IN  /\ \A i \in DOMAIN l : conn[l[i]] # "freed"
            /\ \A i, j \in DOMAIN l : l[i] = l[j] => i = j

\* A client that tracks devices holds the current list, except between the
\* death or the disconnection of a device and the next update.
TrackerCurrent == ~need /\ ~missed => last = list_transports(next, conn)

\* What may not last: wait_for_state waits while one device is online and is
\* the only one.
WaitsInVain ==
    /\ waiter \notin {"okay", "failed"}
    /\ \E t \in Transports : Candidates = {t} /\ conn[t] = "device"

\* What this rests on.  A transport is on the list from the handling of its
\* registration to its end; nobody points to one that is not registered yet;
\* what is posted of a transport is posted once; and on a list that no "adb
\* disconnect" has damaged the pointers of neighbours agree.
OnList == {t \in Transports : conn[t] \notin {"none", "freed", "lost"} /\ <<t, 1>> \notin Posted}
Unlisted(t) == conn[t] = "none" \/ <<t, 1>> \in Posted
NotPointedTo == \A x \in DOMAIN next : next[x] # 0 => ~Unlisted(next[x])
PostedOnce ==
    /\ \A i, j \in DOMAIN queue : queue[i] = queue[j] => i = j
    /\ \A t \in Transports : /\ <<t, 1>> \in Posted => conn[t] \in {"offline", "noperm"}
                             /\ <<t, 0>> \in Posted => conn[t] = "dying"
Threaded ==
    unlinked = {} => \A x \in OnList \cup {0} :
        /\ next[x] \in OnList \cup {0} /\ prev[next[x]] = x
        /\ prev[x] \in OnList \cup {0} /\ next[prev[x]] = x
HungUp ==
    \A p \in Ports : listener[p] # Free =>
        /\ listener[p].dis = listener[p].transport /\ listener[p].transport \in Transports
        /\ unlinked = {} => conn[listener[p].transport] # "freed"

=============================================================================
