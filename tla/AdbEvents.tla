----------------------------- MODULE AdbEvents -----------------------------
(***************************************************************************)
(* The event loop of adb (fdevent.c, built on select): descriptors with    *)
(* the events they want, the list of those that are pending, and callbacks *)
(* that change both while the list is being worked off.                    *)
(***************************************************************************)
EXTENDS Integers, Sequences, FiniteSets, FiniteSetsExt, SequencesExt

CONSTANTS Fds,          \* bound: descriptor numbers
          MaxCalls      \* bound: calls in the loop's callbacks

VARIABLES
    table,     \* fd_table: the descriptors with a registered fdevent
    wants,     \* the event mask of each, and its bit in the select sets
    events,    \* fde->events
    pending,   \* FDE_PENDING
    plist,     \* list_pending
    selectN,   \* select_n
    called,    \* descriptor and events of the running callback
    calls

fvars == <<table, wants, events, pending, plist, selectN, called, calls>>

Kinds == {"read", "write"}
Idle == [fd |-> -1, ev |-> {}]

\* The table, the highest descriptor select looks at, and the pending list.
\* fdevent_disconnect counts the descriptor that goes: fdevent_unregister
\* clears its slot only afterwards.
fdevent_register(f)       == table \cup {f}
fdevent_unregister(f)     == table \ {f}
fdevent_connect(f)        == IF f >= selectN THEN f + 1 ELSE selectN
fdevent_disconnect        == Max(table) + 1
fdevent_update(f, ev)     == [wants EXCEPT ![f] = ev]
InOrder(fs) == [n \in 1 .. Cardinality(fs) |->
                   CHOOSE f \in fs : Cardinality({g \in fs : g <= f}) = n]
fdevent_plist_enqueue(fs) == plist \o InOrder(fs)
fdevent_plist_remove(f)   == LET i == CHOOSE k \in DOMAIN plist : plist[k] = f IN RemoveAt(plist, i)
fdevent_plist_dequeue     == Tail(plist)

fdevent_install(f) ==
    /\ f \notin table /\ calls < MaxCalls /\ calls' = calls + 1
    /\ table' = fdevent_register(f)
    /\ wants' = [wants EXCEPT ![f] = {}] /\ events' = [events EXCEPT ![f] = {}]
    /\ pending' = pending \ {f}
    /\ selectN' = fdevent_connect(f)
    /\ UNCHANGED <<plist, called>>

fdevent_remove_Slip(f) ==
    /\ f \in table /\ calls < MaxCalls /\ calls' = calls + 1
    /\ UNCHANGED plist
    /\ selectN' = fdevent_disconnect
    /\ table' = fdevent_unregister(f)
    /\ wants' = [wants EXCEPT ![f] = {}] /\ events' = [events EXCEPT ![f] = {}]
    /\ pending' = pending \ {f}
    /\ UNCHANGED called

fdevent_remove(f) ==
    /\ f \in table /\ calls < MaxCalls /\ calls' = calls + 1
    /\ plist' = IF f \in pending THEN fdevent_plist_remove(f) ELSE plist
    /\ selectN' = fdevent_disconnect
    /\ table' = fdevent_unregister(f)
    /\ wants' = [wants EXCEPT ![f] = {}] /\ events' = [events EXCEPT ![f] = {}]
    /\ pending' = pending \ {f}
    /\ UNCHANGED called

\* fdevent_set, from fdevent_add and fdevent_del: what is wanted is taken out
\* of what is pending.
fdevent_set(f, ev) ==
    LET left == events[f] \ ev
    IN  /\ f \in table /\ wants[f] # ev /\ calls < MaxCalls /\ calls' = calls + 1
        /\ wants' = fdevent_update(f, ev)
        /\ \/ f \notin pending /\ UNCHANGED <<events, pending, plist>>
           \/ f \in pending /\ left # {} /\ events' = [events EXCEPT ![f] = left]
                 /\ UNCHANGED <<pending, plist>>
           \/ f \in pending /\ left = {} /\ events' = [events EXCEPT ![f] = {}]
                 /\ pending' = pending \ {f} /\ plist' = fdevent_plist_remove(f)
        /\ UNCHANGED <<table, selectN, called>>

\* fdevent_process: select reports what is ready among what is wanted, and
\* the descriptors go to the pending list in the order of their numbers.
fdevent_process ==
    /\ plist = <<>> /\ called = Idle
    /\ \E ready \in [Fds -> SUBSET Kinds] :
          LET hit == {f \in table : f < selectN /\ ready[f] \cap wants[f] # {}}
          IN  /\ hit # {} /\ \A f \in Fds : ready[f] \subseteq wants[f]
              /\ events' = [f \in Fds |-> IF f \in hit THEN events[f] \cup ready[f] ELSE events[f]]
              /\ pending' = pending \cup hit
              /\ plist' = fdevent_plist_enqueue(hit \ pending)
    /\ UNCHANGED <<table, wants, selectN, called, calls>>

\* fdevent_loop takes the next descriptor and calls its function, ...
Callback_Slip ==
    /\ plist # <<>> /\ called = Idle
    /\ LET f == Head(plist)
       IN  /\ called' = [fd |-> f, ev |-> events[f]]
           /\ events' = [events EXCEPT ![f] = {}]
    /\ plist' = fdevent_plist_dequeue
    /\ UNCHANGED <<table, wants, pending, selectN, calls>>

Callback ==
    /\ plist # <<>> /\ called = Idle
    /\ LET f == Head(plist)
       IN  /\ called' = [fd |-> f, ev |-> events[f]]
           /\ events' = [events EXCEPT ![f] = {}] /\ pending' = pending \ {f}
    /\ plist' = fdevent_plist_dequeue
    /\ UNCHANGED <<table, wants, selectN, calls>>

\* ... which returns.
Return == called # Idle /\ called' = Idle
          /\ UNCHANGED <<table, wants, events, pending, plist, selectN, calls>>

Init ==
    /\ table = Fds \ {Max(Fds)} /\ wants = [f \in Fds |-> IF f \in table THEN {"read"} ELSE {}]
    /\ events = [f \in Fds |-> {}] /\ pending = {} /\ plist = <<>>
    /\ selectN = Max(table) + 1 /\ called = Idle /\ calls = 0

Next ==
    \/ fdevent_process \/ Callback \/ Return
    \/ called # Idle /\ \E f \in Fds : fdevent_install(f) \/ fdevent_remove(f)
    \/ called # Idle /\ \E f \in Fds, ev \in SUBSET Kinds : fdevent_set(f, ev)

-----------------------------------------------------------------------------
\* The pending list holds the descriptors marked as pending, once each, all
\* of them registered, with something to tell, and within reach of select:
\* whatever callbacks removed, changed or opened again under the same number.
PendingSound ==
    /\ ToSet(plist) = pending /\ Len(plist) = Cardinality(pending)
    /\ pending \subseteq table
    /\ \A f \in pending : events[f] # {}
    /\ \A f \in table : f < selectN

\* "if we're pending, make sure we don't signal an event that is no longer
\* wanted" (fdevent.c:463): a callback is given only events it asked for.
SignalsWanted ==
    \A f \in pending : events[f] \subseteq wants[f]

=============================================================================
