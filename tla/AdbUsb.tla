------------------------------- MODULE AdbUsb -------------------------------
(***************************************************************************)
(* The USB side of the adb server on Linux (usb_linux.c): a thread that    *)
(* scans for devices, a reading and a writing thread per device that share *)
(* the reaping of transfers, and the kick that must get both of them out   *)
(* of the kernel.  A device that is plugged in again has a new name, so    *)
(* each plugging is a device of its own.                                   *)
(***************************************************************************)
EXTENDS Integers, Sequences

CONSTANTS MaxPlugs,    \* bound: devices plugged in, one after the other
          MaxTransfers \* bound: transfers completed per device and direction

VARIABLES
    plugged,   \* the device that is there, 0 if none
    plugs,     \* devices plugged in so far
    h,         \* usb_handle of each device
    ppc        \* the scanning thread: "scan", "kick"

uvars == <<plugged, plugs, h, ppc>>

Devices == 1..MaxPlugs

\* rd, wr: where the transport's two threads are; urb_in, urb_out: the
\* transfers; reaper: reaper_thread is set; note: the writer was woken;
\* refs: threads that still hold the handle; done: completed transfers.
NoHandle == [listed |-> FALSE, dead |-> FALSE, mark |-> FALSE, rd |-> "none", wr |-> "none",
             urb_in |-> "idle", urb_out |-> "idle", out_busy |-> FALSE, reaper |-> FALSE,
             note |-> FALSE, refs |-> 0, freed |-> FALSE, done |-> 0]

Set(i, r) == h' = [h EXCEPT ![i] = r]

-----------------------------------------------------------------------------
PlugIn == plugged = 0 /\ plugs < MaxPlugs /\ plugs' = plugs + 1 /\ plugged' = plugs + 1 /\ UNCHANGED <<h, ppc>>

\* Transfers of a device that goes end with an error, or hang in the kernel.
Unplug ==
    /\ plugged # 0 /\ plugged' = 0
    /\ \E urbs \in SUBSET {"in", "out"} :
          h' = [h EXCEPT ![plugged].urb_in = IF @ = "sent" /\ "in" \in urbs THEN "error" ELSE @,
                         ![plugged].urb_out = IF @ = "sent" /\ "out" \in urbs THEN "error" ELSE @]
    /\ UNCHANGED <<plugs, ppc>>

\* The device answers.
Complete(i, dir) ==
    /\ plugged = i /\ h[i][dir] = "sent" /\ h[i].done < MaxTransfers
    /\ Set(i, [h[i] EXCEPT ![dir] = "done", !.done = @ + 1])
    /\ UNCHANGED <<plugged, plugs, ppc>>

-----------------------------------------------------------------------------
\* register_device: the handle is listed and its transport's threads start.
register_device == [NoHandle EXCEPT !.listed = TRUE, !.mark = TRUE, !.rd = "read", !.wr = "write",
                                    !.refs = 2]

\* find_usb_device and known_device: a new device is registered, a known one
\* is marked.
Scan ==
    /\ ppc = "scan" /\ ppc' = "kick"
    /\ h' = [i \in Devices |->
                IF plugged # i THEN h[i]
                ELSE IF h[i].listed THEN [h[i] EXCEPT !.mark = TRUE]
                ELSE IF h[i].freed THEN h[i]
                ELSE register_device]
    /\ UNCHANGED <<plugged, plugs>>

\* usb_kick: the reaper is sent a signal, which only helps if it is in the
\* kernel already; the transfers are discarded, so that they can be reaped;
\* the writer is woken.  (A handle that could be opened for reading only has no
\* threads, and is not modelled.)
Kicked_Slip(r) ==
    IF r.dead THEN r
    ELSE [r EXCEPT !.dead = TRUE, !.rd = IF @ = "reaping" THEN "interrupted" ELSE @,
                   !.out_busy = FALSE, !.note = TRUE]

Kicked(r) ==
    IF r.dead THEN r
    ELSE [r EXCEPT !.dead = TRUE, !.rd = IF @ = "reaping" THEN "interrupted" ELSE @,
                   !.urb_in = IF @ = "sent" THEN "error" ELSE @,
                   !.urb_out = IF @ = "sent" THEN "error" ELSE @,
                   !.out_busy = FALSE, !.note = TRUE]

\* kick_disconnected_devices.
KickDisconnected_Slip ==
    /\ ppc = "kick" /\ ppc' = "scan"
    /\ h' = [i \in Devices |->
                IF ~h[i].listed THEN h[i]
                ELSE IF h[i].mark THEN h[i] ELSE Kicked(h[i])]
    /\ UNCHANGED <<plugged, plugs>>

KickDisconnected ==
    /\ ppc = "kick" /\ ppc' = "scan"
    /\ h' = [i \in Devices |->
                IF ~h[i].listed THEN h[i]
                ELSE IF h[i].mark THEN [h[i] EXCEPT !.mark = FALSE] ELSE Kicked(h[i])]
    /\ UNCHANGED <<plugged, plugs>>

-----------------------------------------------------------------------------
\* usb_bulk_read: submit, ...
ReadSubmit(i) ==
    /\ h[i].rd = "read"
    /\ Set(i, IF h[i].dead THEN [h[i] EXCEPT !.rd = "leave"]
              ELSE IF plugged # i THEN [h[i] EXCEPT !.rd = "leave"]
              ELSE [h[i] EXCEPT !.rd = "unlocked", !.urb_in = "sent", !.reaper = TRUE])
    /\ UNCHANGED <<plugged, plugs, ppc>>

\* ... enter the kernel, ...
ReapEnter(i) ==
    /\ h[i].rd = "unlocked" /\ Set(i, [h[i] EXCEPT !.rd = "reaping"])
    /\ UNCHANGED <<plugged, plugs, ppc>>

\* ... take what is finished: the reader's own transfer ends the read, the
\* writer's is reported to it.
Reap(i) ==
    /\ h[i].rd = "reaping"
    /\ \/ /\ h[i].urb_in \in {"done", "error"}
          /\ Set(i, [h[i] EXCEPT !.reaper = FALSE, !.urb_in = "idle",
                        !.rd = IF h[i].dead \/ h[i].urb_in = "error" THEN "leave" ELSE "read"])
       \/ /\ h[i].urb_out \in {"done", "error"}
          /\ Set(i, IF h[i].dead THEN [h[i] EXCEPT !.reaper = FALSE, !.rd = "leave", !.urb_out = "idle"]
                    ELSE [h[i] EXCEPT !.rd = "unlocked", !.urb_out = IF @ = "done" THEN "ok" ELSE "bad",
                                      !.out_busy = FALSE, !.note = TRUE])
    /\ UNCHANGED <<plugged, plugs, ppc>>

\* EINTR: dead ends the read, otherwise it reaps again.
Interrupted(i) ==
    /\ h[i].rd = "interrupted"
    /\ Set(i, [h[i] EXCEPT !.reaper = FALSE, !.rd = IF h[i].dead THEN "leave" ELSE "unlocked"])
    /\ UNCHANGED <<plugged, plugs, ppc>>

\* usb_bulk_write: submit, and wait for the reader's report.  The five
\* seconds of the wait change nothing: ETIMEDOUT is not negative.  input_thread
\* ignores the result: after a write that failed it goes on to the next packet.
WriteSubmit(i) ==
    /\ h[i].wr = "write" /\ ~h[i].dead /\ plugged = i
    /\ Set(i, [h[i] EXCEPT !.wr = "wait", !.urb_out = "sent", !.out_busy = TRUE, !.note = FALSE])
    /\ UNCHANGED <<plugged, plugs, ppc>>

WriteWoken(i) ==
    /\ h[i].wr = "wait" /\ h[i].note
    /\ Set(i, [h[i] EXCEPT !.note = FALSE,
                  !.wr = IF ~h[i].dead /\ h[i].out_busy THEN "wait" ELSE "write",
                  !.urb_out = IF @ \in {"ok", "bad"} THEN "idle" ELSE @])
    /\ UNCHANGED <<plugged, plugs, ppc>>

\* What ends input_thread is the SYNC(0) that output_thread sends on its way out.
WriterTold(i) ==
    /\ h[i].wr = "write" /\ h[i].rd \in {"leave", "gone"} /\ Set(i, [h[i] EXCEPT !.wr = "leave"])
    /\ UNCHANGED <<plugged, plugs, ppc>>

\* output_thread and input_thread end: kick, and the last one closes.
Leave(i, who) ==
    /\ h[i][who] = "leave"
    /\ LET r == [Kicked(h[i]) EXCEPT ![who] = "gone", !.refs = @ - 1]
       IN  Set(i, IF r.refs = 0 THEN [r EXCEPT !.listed = FALSE, !.freed = TRUE] ELSE r)
    /\ UNCHANGED <<plugged, plugs, ppc>>

Init == plugged = 0 /\ plugs = 0 /\ h = [i \in Devices |-> NoHandle] /\ ppc = "scan"

Poll == Scan \/ KickDisconnected
Reading(i) == ReadSubmit(i) \/ ReapEnter(i) \/ Reap(i) \/ Interrupted(i) \/ Leave(i, "rd")
Writing(i) == WriteSubmit(i) \/ WriteWoken(i) \/ WriterTold(i) \/ Leave(i, "wr")
Next ==
    \/ PlugIn \/ Unplug \/ Poll
    \/ \E i \in Devices : Reading(i) \/ Writing(i) \/ Complete(i, "urb_in") \/ Complete(i, "urb_out")

-----------------------------------------------------------------------------
\* A handle is freed only when no thread is left in it, and its two threads
\* never both believe the writer's transfer is theirs to wait for.
HandleSafe ==
    \A i \in Devices :
        /\ h[i].freed => h[i].rd = "gone" /\ h[i].wr = "gone" /\ ~h[i].listed
        /\ (h[i].wr = "wait" /\ ~h[i].out_busy) => h[i].note

\* What it rests on: a handle is listed from its registration until its last
\* thread is gone, freed from then on, and the references are its threads.
Counted(r) ==
    \/ r.rd = "none" /\ r.wr = "none" /\ r.refs = 0 /\ ~r.listed /\ ~r.freed
    \/ /\ r.rd # "none" /\ r.wr # "none"
       /\ r.refs = (IF r.rd = "gone" THEN 0 ELSE 1) + (IF r.wr = "gone" THEN 0 ELSE 1)
       /\ (r.listed <=> r.refs > 0) /\ (r.freed <=> r.refs = 0)
HandlesCounted == \A i \in Devices : Counted(h[i])

\* What may not last: the handle of a device that is gone.  Both threads get
\* out of the kernel, although the signal to the reaper may come too early
\* and the wait of the writer never times out.
Stuck == \E i \in Devices : h[i].listed /\ plugged # i /\ ~h[i].freed

=============================================================================
