----------------------------- MODULE MenuDialog -----------------------------
(***************************************************************************)
(* What an interactive menu promises a script: the menu the script asks    *)
(* for is put on the screen once, the user picks one of its entries, and   *)
(* the number the script gets back is the number that was picked for this  *)
(* very menu.  ScriptRunner implements it with two triggers in shared      *)
(* memory.                                                                 *)
(***************************************************************************)
EXTENDS Naturals

CONSTANT MaxAnswer   \* the longest menu that can be shown

VARIABLES
    phase,    \* of the dialogue between the script and the user
    answer,   \* what the user picked (0: nothing yet)
    reply     \* what the last imenu printed (0: none yet)

dialog == <<phase, answer, reply>>

Init ==
    /\ phase = "idle"
    /\ answer = 0
    /\ reply = 0

Ask ==
    /\ phase = "idle"
    /\ phase' = "asked"
    /\ answer' = 0
    /\ UNCHANGED reply

Display ==
    /\ phase = "asked"
    /\ phase' = "displayed"
    /\ UNCHANGED <<answer, reply>>

Pick ==
    /\ phase = "displayed"
    /\ answer' \in 1..MaxAnswer
    /\ phase' = "answered"
    /\ UNCHANGED reply

Deliver ==
    /\ phase = "answered"
    /\ reply' = answer
    /\ phase' = "idle"
    /\ answer' = 0

Next == Ask \/ Display \/ Pick \/ Deliver

Spec == Init /\ [][Next]_dialog
=============================================================================
