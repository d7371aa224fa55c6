------------------------------ MODULE AdbJdwp ------------------------------
(***************************************************************************)
(* The debugger registry of the adb daemon (jdwp_service.c): virtual       *)
(* machines connect to a control socket and write their pid; debuggers get *)
(* descriptors that are passed on to them; trackers are told every change  *)
(* of the list.  All handlers run in the event loop of the daemon.         *)
(***************************************************************************)
EXTENDS Integers, Sequences, FiniteSets

CONSTANTS Vms,       \* virtual machines
          Pid,       \* their pids, as a function; two may share a recycled one
          MaxOut,    \* MAX_OUT_FDS
          MaxFds,    \* bound: debugger connections made
          MaxTracks  \* bound: trackers opened

VARIABLES
    vm,        \* "new", "up", "gone"
    sent,      \* halves of its pid the machine has written
    procs,     \* _jdwp_list: [vm, pid, in_len, out]
    fd,        \* where each debugger descriptor is: "none", "queued", "sent", "closed"
    owner,     \* the machine it was meant for
    trackers   \* [need_update, last]: what each tracker was sent last

jvars == <<vm, sent, procs, fd, owner, trackers>>

NoPid == -1
Full == 2

\* jdwp_process_list: the pids in list order, without the transient ones.
Known(ps) == [i \in {k \in DOMAIN ps : ps[k].pid # NoPid} |-> ps[i].pid]
InOrder(f) ==
    [n \in 1 .. Cardinality(DOMAIN f) |->
        f[CHOOSE i \in DOMAIN f : Cardinality({j \in DOMAIN f : j <= i}) = n]]
ListOf(ps) == InOrder(Known(ps))

\* jdwp_process_list_updated: every tracker's peer is given the new list,
\* whether or not the tracker has sent its first one.
Told(ps) == [i \in DOMAIN trackers |-> [trackers[i] EXCEPT !.last = ListOf(ps)]]

Without(ps, i) == SubSeq(ps, 1, i - 1) \o SubSeq(ps, i + 1, Len(ps))
Elements(s) == {s[i] : i \in DOMAIN s}

\* jdwp_process_free closes the socket and the descriptors not yet passed on,
\* then tells the trackers.
jdwp_process_free_Slip(i) ==
    /\ procs' = Without(procs, i) /\ trackers' = Told(procs)
    /\ fd' = [f \in DOMAIN fd |-> IF f \in Elements(procs[i].out) THEN "closed" ELSE fd[f]]

jdwp_process_free(i) ==
    /\ procs' = Without(procs, i) /\ trackers' = Told(Without(procs, i))
    /\ fd' = [f \in DOMAIN fd |-> IF f \in Elements(procs[i].out) THEN "closed" ELSE fd[f]]

\* The machine outside.
VmConnects(v) == vm[v] = "new" /\ vm' = [vm EXCEPT ![v] = "dialing"]
                 /\ UNCHANGED <<sent, procs, fd, owner, trackers>>
VmWrites(v) ==
    /\ vm[v] \in {"dialing", "up"} /\ sent[v] < Full /\ sent' = [sent EXCEPT ![v] = @ + 1]
    /\ UNCHANGED <<vm, procs, fd, owner, trackers>>
VmExits(v) == vm[v] = "up" /\ vm' = [vm EXCEPT ![v] = "gone"]
              /\ UNCHANGED <<sent, procs, fd, owner, trackers>>

\* A connection on the control socket; its pid is not known yet.
jdwp_process_alloc(v) == [vm |-> v, pid |-> NoPid, in_len |-> 0, out |-> <<>>]
jdwp_control_event(v) ==
    /\ vm[v] = "dialing" /\ vm' = [vm EXCEPT ![v] = "up"]
    /\ procs' = Append(procs, jdwp_process_alloc(v))
    /\ UNCHANGED <<sent, fd, owner, trackers>>

\* jdwp_process_event, FDE_READ before the pid is complete: what is there is
\* taken; a connection that ends early, or a pid that is no number, is dropped.
ReadPid(i) ==
    /\ procs[i].pid = NoPid
    /\ LET v == procs[i].vm
       IN  IF sent[v] < Full
           THEN IF vm[v] = "gone"
                THEN jdwp_process_free(i)
                ELSE /\ sent[v] > procs[i].in_len
                     /\ procs' = [procs EXCEPT ![i].in_len = sent[v]]
                     /\ UNCHANGED <<fd, trackers>>
           ELSE \/ /\ procs' = [procs EXCEPT ![i].in_len = Full, ![i].pid = Pid[v]]
                   /\ trackers' = Told(procs') /\ UNCHANGED fd
                \/ jdwp_process_free(i)
    /\ UNCHANGED <<vm, sent, owner>>

\* ... after it: only the end of the connection is of interest.
ReadEnd(i) ==
    /\ procs[i].pid # NoPid /\ vm[procs[i].vm] = "gone"
    /\ jdwp_process_free(i)
    /\ UNCHANGED <<vm, sent, owner>>

\* FDE_WRITE: the first waiting descriptor goes over the control socket.
PassFd(i) ==
    /\ procs[i].out # <<>>
    /\ IF vm[procs[i].vm] = "gone"
       THEN jdwp_process_free(i)
       ELSE /\ fd' = [fd EXCEPT ![Head(procs[i].out)] = "sent"]
            /\ procs' = [procs EXCEPT ![i].out = Tail(@)] /\ UNCHANGED trackers
    /\ UNCHANGED <<vm, sent, owner>>

\* create_jdwp_connection_fd: the first process with the pid takes it.
create_jdwp_connection_fd(p) ==
    LET found == {i \in DOMAIN procs : procs[i].pid = p}
        i == CHOOSE k \in found : \A j \in found : k <= j
        f == CHOOSE k \in DOMAIN fd : fd[k] = "none" /\ \A j \in 1..(k - 1) : fd[j] # "none"
    IN  /\ found # {} /\ Len(procs[i].out) < MaxOut /\ \E k \in DOMAIN fd : fd[k] = "none"
        /\ fd' = [fd EXCEPT ![f] = "queued"] /\ owner' = [owner EXCEPT ![f] = p]
        /\ procs' = [procs EXCEPT ![i].out = Append(@, f)]
        /\ UNCHANGED <<vm, sent, trackers>>

\* create_jdwp_tracker_service_socket, jdwp_tracker_ready, jdwp_tracker_close.
TrackerOpens ==
    /\ Len(trackers) < MaxTracks
    /\ trackers' = Append(trackers, [need |-> TRUE, last |-> <<NoPid>>])
    /\ UNCHANGED <<vm, sent, procs, fd, owner>>
TrackerReady(k) ==
    /\ trackers[k].need
    /\ trackers' = [trackers EXCEPT ![k] = [need |-> FALSE, last |-> ListOf(procs)]]
    /\ UNCHANGED <<vm, sent, procs, fd, owner>>
TrackerCloses(k) ==
    /\ trackers' = Without(trackers, k)
    /\ UNCHANGED <<vm, sent, procs, fd, owner>>

Init ==
    /\ vm = [v \in Vms |-> "new"] /\ sent = [v \in Vms |-> 0] /\ procs = <<>>
    /\ fd = [f \in 1..MaxFds |-> "none"] /\ owner = [f \in 1..MaxFds |-> NoPid]
    /\ trackers = <<>>

Next ==
    \/ \E v \in Vms : VmConnects(v) \/ VmWrites(v) \/ VmExits(v) \/ jdwp_control_event(v)
    \/ \E i \in DOMAIN procs : ReadPid(i) \/ ReadEnd(i) \/ PassFd(i)
    \/ \E p \in {Pid[v] : v \in Vms} : create_jdwp_connection_fd(p)
    \/ TrackerOpens \/ \E k \in DOMAIN trackers : TrackerReady(k) \/ TrackerCloses(k)

-----------------------------------------------------------------------------
\* A tracker that has had its first list always holds the current one.
JdwpTold == \A k \in DOMAIN trackers : ~trackers[k].need => trackers[k].last = ListOf(procs)

\* A debugger's descriptor waits at exactly one process, with the pid asked
\* for, until it is passed on or closed; no closed or passed one still waits.
FdsAccounted ==
    \A f \in DOMAIN fd :
        LET at == {i \in DOMAIN procs : f \in Elements(procs[i].out)}
        IN  /\ (fd[f] = "queued") <=> (at # {})
            /\ \A i, j \in at : i = j
            /\ \A i \in at : procs[i].pid = owner[f]

\* What this rests on, place by place in the queues of the processes.
QueuesApart ==
    \A i, j \in DOMAIN procs : \A a \in DOMAIN procs[i].out, b \in DOMAIN procs[j].out :
        procs[i].out[a] = procs[j].out[b] => i = j /\ a = b
QueuesMarked ==
    \A i \in DOMAIN procs : \A a \in DOMAIN procs[i].out :
        fd[procs[i].out[a]] = "queued" /\ owner[procs[i].out[a]] = procs[i].pid
MarkedQueued ==
    \A f \in DOMAIN fd : fd[f] = "queued" =>
        owner[f] # NoPid /\ \E i \in DOMAIN procs : \E a \in DOMAIN procs[i].out : procs[i].out[a] = f

=============================================================================
