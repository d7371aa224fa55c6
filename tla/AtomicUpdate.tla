---------------------------- MODULE AtomicUpdate ----------------------------
(***************************************************************************)
(* What an incremental update promises: every file is its old version or   *)
(* its new one, never anything in between, the files go over in the order  *)
(* of the script, none goes back, and success is reported only when all    *)
(* are new.  ApplyPatch implements it with a copy in /cache, a power loss  *)
(* at any step included.                                                   *)
(***************************************************************************)
EXTENDS Naturals

CONSTANT NumJobs   \* files the update replaces

VARIABLES
    state,     \* state[j]: "old" or "new"; "lost": neither can be had any more
    reported   \* the script has ended with success

update == <<state, reported>>

Init ==
    /\ state \in [1..NumJobs -> {"old", "new", "lost"}]
    /\ reported = FALSE

\* All of the update is possible: no file has been lost before it began.
Possible == \A j \in 1..NumJobs : state[j] # "lost"

Replace(j) ==
    /\ Possible
    /\ state[j] = "old"
    /\ \A i \in 1..(j - 1) : state[i] = "new"
    /\ state' = [state EXCEPT ![j] = "new"]
    /\ UNCHANGED reported

Report ==
    /\ \A j \in 1..NumJobs : state[j] = "new"
    /\ reported' = TRUE
    /\ UNCHANGED state

Again ==
    /\ reported
    /\ reported' = FALSE
    /\ UNCHANGED state

Next == Report \/ Again \/ \E j \in 1..NumJobs : Replace(j)

Spec == Init /\ [][Next]_update
=============================================================================
