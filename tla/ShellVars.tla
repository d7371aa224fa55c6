----------------------------- MODULE ShellVars -----------------------------
(* The variables of btsh (var.c): assignment, export, readonly, unset, and   *)
(* the local variables of functions.  A variable's text is a block of        *)
(* memory; who may free it follows from the flags, as in the code.  The      *)
(* callbacks of the special variables are left out.                          *)
EXTENDS Integers, Sequences, FiniteSets

CONSTANTS Names, Values,  \* Values holds the empty string
          MaxTexts,       \* texts ever allocated
          MaxCalls        \* nesting of functions

NoText == 0
Static == -1                                  \* text in the program image
Flags  == {"EXPORT", "READONLY", "STRFIXED", "TEXTFIXED", "UNSET"}
Absent == [text |-> NoText, val |-> "", flags |-> {"UNSET"}, in |-> FALSE]

VARIABLES vartab,     \* name -> text, value, flags, whether it is in the table
          localvars,  \* one list of saved variables for every function under way
          before,     \* the variables when each of these functions made them local
          heap, next, \* texts allocated and not freed, and how many there were
          misuse      \* a text was freed twice

vars == <<vartab, localvars, before, heap, next, misuse>>

State == [var |-> vartab, heap |-> heap, next |-> next, misuse |-> misuse, err |-> FALSE]
Put(st) == vartab' = st.var /\ heap' = st.heap /\ next' = st.next /\ misuse' = st.misuse
Room(n) == next + n <= MaxTexts

ckfree(st, t) == IF t \in st.heap THEN [st EXCEPT !.heap = @ \ {t}] ELSE [st EXCEPT !.misuse = @ \/ t # NoText]
Fresh(st)     == st.next + 1
savestr(st)   == [st EXCEPT !.heap = @ \cup {st.next + 1}, !.next = @ + 1]

---------------------------------------------------------------------------
setvareq_Slip(st, n, v, t, fl) ==
    LET vp == st.var[n]
        u  == IF vp.in THEN ckfree(st, vp.text) ELSE st
    IN IF vp.in /\ "READONLY" \in vp.flags THEN [st EXCEPT !.err = TRUE]
       ELSE [u EXCEPT !.var[n] = [text |-> t, val |-> v, in |-> TRUE,
                                  flags |-> (vp.flags \ {"TEXTFIXED", "UNSET"}) \cup fl]]

\* The text t becomes the variable's; the one before is freed if it was allocated.
setvareq(st, n, v, t, fl) ==
    LET vp == st.var[n]
        u  == IF vp.in /\ "TEXTFIXED" \notin vp.flags THEN ckfree(st, vp.text) ELSE st
    IN IF vp.in /\ "READONLY" \in vp.flags THEN [st EXCEPT !.err = TRUE]
       ELSE [u EXCEPT !.var[n] = [text |-> t, val |-> v, in |-> TRUE,
                                  flags |-> (IF vp.in THEN vp.flags \ {"TEXTFIXED", "UNSET"} ELSE {}) \cup fl]]

\* setvar allocates name=value; without a value the variable is there but not set.
setvar(st, n, v, fl) == setvareq(savestr(st), n, v, Fresh(st), fl)
setnull(st, n, fl)   == setvar(st, n, "", fl \cup {"UNSET"})

unsetvar(st, n, unexport) ==
    LET vp == st.var[n]
        u  == IF vp.val = "" THEN st ELSE setvar(st, n, "", {})
        w  == [u EXCEPT !.var[n].flags = (@ \ {"EXPORT"}) \cup {"UNSET"}]
        fl == w.var[n].flags
    IN IF ~vp.in \/ "READONLY" \in vp.flags THEN st
       ELSE IF unexport THEN [st EXCEPT !.var[n].flags = @ \ {"EXPORT"}]
       ELSE IF "STRFIXED" \in fl THEN w
       ELSE [(IF "TEXTFIXED" \in fl THEN w ELSE ckfree(w, w.var[n].text)) EXCEPT !.var[n] = Absent]

Restore_Slip(st, lvp) ==
    LET n == lvp.name
        u == IF "TEXTFIXED" \in st.var[n].flags THEN st ELSE ckfree(st, st.var[n].text)
    IN [u EXCEPT !.var[n] = [text |-> lvp.text, val |-> lvp.val, flags |-> lvp.flags, in |-> TRUE]]

Restore(st, lvp) ==
    LET n == lvp.name
        u == IF "TEXTFIXED" \in st.var[n].flags THEN st ELSE ckfree(st, st.var[n].text)
    IN IF "UNSET" \in lvp.flags /\ "STRFIXED" \notin lvp.flags THEN unsetvar(st, n, FALSE)
       ELSE [u EXCEPT !.var[n] = [text |-> lvp.text, val |-> lvp.val, flags |-> lvp.flags, in |-> TRUE]]

\* The last variable made local is the first to be restored.
poplocalvars(st, list) ==
    LET pop[k \in 0..Len(list)] == IF k = 0 THEN st ELSE Restore(pop[k - 1], list[k])
    IN pop[Len(list)]

---------------------------------------------------------------------------
InFunction == localvars # <<>>
\* Those the current function made local.
MadeLocal == {localvars[1][k].name : k \in DOMAIN localvars[1]}

\* An error unwinds every function, as a return does one.
Fail ==
    /\ LET all[k \in 0..Len(localvars)] ==
               IF k = 0 THEN State ELSE poplocalvars(all[k - 1], localvars[k])
       IN Put(all[Len(localvars)])
    /\ localvars' = <<>> /\ before' = <<>>

Apply(st) == IF st.err THEN Fail ELSE Put(st) /\ UNCHANGED <<localvars, before>>

\* name=value, read and the like; a read-only variable is an error.
Assign(n, v) == Room(2) /\ Apply(setvar(State, n, v, {}))

\* export and readonly, with or without a value.
exportcmd(n, flag) ==
    /\ Room(2)
    /\ IF vartab[n].in THEN Apply([State EXCEPT !.var[n].flags = @ \cup {flag}])
       ELSE Apply(setnull(State, n, {flag}))

exportset(n, v, flag) == Room(2) /\ Apply(setvar(State, n, v, {flag}))

unsetcmd(n, unexport) == Room(2) /\ Apply(unsetvar(State, n, unexport))

Localised_Slip(n, set, v) ==
    LET vp == vartab[n]
        kept == [State EXCEPT !.var[n].flags = @ \cup {"STRFIXED"}]
    IN IF ~vp.in
       THEN [lvp |-> [name |-> n, text |-> NoText, val |-> "", flags |-> {"UNSET"}],
             st  |-> IF set THEN setvar(State, n, v, {"STRFIXED"}) ELSE setnull(State, n, {"STRFIXED"})]
       ELSE [lvp |-> [name |-> n, text |-> vp.text, val |-> vp.val, flags |-> vp.flags],
             st  |-> IF set THEN setvar(kept, n, v, {}) ELSE kept]

\* The current value is saved with its flags; the text may not be freed meanwhile.
Localised(n, set, v) ==
    LET vp == vartab[n]
        kept == [State EXCEPT !.var[n].flags = @ \cup {"STRFIXED", "TEXTFIXED"}]
    IN IF ~vp.in
       THEN [lvp |-> [name |-> n, text |-> NoText, val |-> "", flags |-> {"UNSET"}],
             st  |-> IF set THEN setvar(State, n, v, {"STRFIXED"}) ELSE setnull(State, n, {"STRFIXED"})]
       ELSE [lvp |-> [name |-> n, text |-> vp.text, val |-> vp.val, flags |-> vp.flags],
             st  |-> IF set THEN setvar(kept, n, v, {}) ELSE kept]

\* An error in mklocal leaves the flags it has set behind.
mklocal(n, set, v) ==
    LET l == Localised(n, set, v)
    IN IF l.st.err
       THEN LET all[k \in 0..Len(localvars)] ==
                    IF k = 0 THEN [l.st EXCEPT !.err = FALSE] ELSE poplocalvars(all[k - 1], localvars[k])
            IN Put(all[Len(localvars)]) /\ localvars' = <<>> /\ before' = <<>>
       ELSE /\ Put(l.st)
            /\ localvars' = [localvars EXCEPT ![1] = <<l.lvp>> \o @]
            /\ before' = IF n \in MadeLocal THEN before ELSE [before EXCEPT ![1][n] = vartab[n]]

localcmd(n, set, v) == InFunction /\ Len(localvars[1]) < 2 /\ Room(2) /\ mklocal(n, set, v)

\* Calling a function starts a new list, and returning pops it.
Call ==
    /\ Len(localvars) < MaxCalls
    /\ localvars' = <<<<>>>> \o localvars
    /\ before' = <<vartab>> \o before
    /\ UNCHANGED <<vartab, heap, next, misuse>>

Return ==
    /\ InFunction /\ Room(2)
    /\ Put(poplocalvars(State, Head(localvars)))
    /\ localvars' = Tail(localvars) /\ before' = Tail(before)

\* error(): the handler of every function pops its own list.
Error == InFunction /\ Room(2) /\ Fail

Init ==
    /\ vartab \in [Names -> {Absent, [text |-> Static, val |-> "v", flags |-> {"STRFIXED", "TEXTFIXED"}, in |-> TRUE]}]
    /\ localvars = <<>> /\ before = <<>>
    /\ heap = {} /\ next = 0 /\ misuse = FALSE

Next ==
    \/ \E n \in Names, v \in Values : Assign(n, v)
    \/ \E n \in Names, f \in {"EXPORT", "READONLY"} : exportcmd(n, f)
    \/ \E n \in Names, v \in Values, f \in {"EXPORT", "READONLY"} : exportset(n, v, f)
    \/ \E n \in Names, x \in BOOLEAN : unsetcmd(n, x)
    \/ \E n \in Names, set \in BOOLEAN, v \in Values : localcmd(n, set, v)
    \/ Call \/ Return \/ Error

---------------------------------------------------------------------------
Saved == {<<i, j>> \in (1..MaxCalls) \X (1..2) : i <= Len(localvars) /\ j <= Len(localvars[i])}
SavedText(x) == localvars[x[1]][x[2]]

(* No text is freed twice, every text a variable or a saved variable names   *)
(* is still allocated, and of two that name the same text at most one is     *)
(* entitled to free it (the TEXTFIXED flag mklocal sets).                    *)
TextsOwned ==
    /\ ~misuse
    /\ \A n \in Names : vartab[n].in => vartab[n].text \in heap \cup {Static}
    /\ \A x \in Saved : SavedText(x).text \in heap \cup {Static, NoText}
    /\ \A x \in Saved, n \in Names :
           SavedText(x).text = vartab[n].text /\ vartab[n].text > 0 => "TEXTFIXED" \in vartab[n].flags
    /\ \A x, y \in Saved : x # y /\ SavedText(x).text = SavedText(y).text /\ SavedText(x).text > 0 =>
           "TEXTFIXED" \in SavedText(x).flags \cup SavedText(y).flags

Same(a, b) == a.val = b.val /\ \A f \in {"EXPORT", "READONLY", "UNSET"} : f \in a.flags <=> f \in b.flags

(* When a function returns, what it made local is as it was before: a        *)
(* variable that was set has its value and attributes again, one that was    *)
(* not is unset, unless it was made read-only meanwhile; and nothing but the *)
(* end of a function changes a read-only variable.                           *)
VarSteps ==
    IF Len(localvars') = Len(localvars) - 1
    THEN \A n \in MadeLocal :
             IF "UNSET" \notin before[1][n].flags THEN Same(vartab'[n], before[1][n])
             ELSE "UNSET" \in vartab'[n].flags \/ "READONLY" \in vartab[n].flags
    ELSE localvars' # <<>> \/ localvars = <<>> =>
         \A n \in Names : "READONLY" \in vartab[n].flags =>
             vartab'[n].val = vartab[n].val /\ "READONLY" \in vartab'[n].flags
=============================================================================
