----------------------------- MODULE ShellExec -----------------------------
(* How btsh finds a command (exec.c): the table of commands found before,    *)
(* kept up to date over cd and changes of PATH, against a search made        *)
(* afresh.  The files do not change; "hash -r" is there for when they do.    *)
EXTENDS Integers, Sequences, FiniteSets

CONSTANTS Names, Builtins, Special,  \* commands, those that are builtins, the special ones
          Paths,       \* values of PATH: sequences of directories
          Relative,    \* the directories of PATH that depend on the current one
          Cwds,        \* current directories
          FileSets,    \* the programs there are: sets of <<name, directory>>
          MaxEvents    \* operations

PctBuiltin == "%builtin"
Unknown == [type |-> "none", idx |-> 0]
Entry(t, i, r) == [type |-> t, idx |-> i, rehash |-> r]
NoEntry == Entry("none", 0, FALSE)

VARIABLES cmdtable, path, builtinloc, cwd, files,
          answer,   \* what the last search found, and what it should have
          funcs,    \* functions defined and not unset
          lost,     \* those of them the table lost
          events

vars == <<cmdtable, path, builtinloc, cwd, files, answer, funcs, lost, events>>
Limited == events < MaxEvents /\ events' = events + 1

First(S) == CHOOSE i \in S : \A j \in S : i <= j
Loc(p)   == LET S == {i \in DOMAIN p : p[i] = PctBuiltin} IN IF S = {} THEN 0 ELSE First(S)

---------------------------------------------------------------------------
\* padvance and stat: is there a program in the directory?
Exists(n, d) == <<n, IF d \in Relative THEN cwd ELSE d>> \in files

\* The path is searched from its start; the builtins may be a place in it.
Hits(n, p) == {i \in DOMAIN p : IF p[i] = PctBuiltin THEN n \in Builtins ELSE Exists(n, p[i])}

\* What a search without the table finds.
Fresh(n, nofunc, p) ==
    IF n \in Special THEN [type |-> "special", idx |-> 0]
    ELSE IF n \in funcs /\ ~nofunc THEN [type |-> "function", idx |-> 0]
    ELSE IF Loc(p) = 0 /\ n \in Builtins THEN [type |-> "builtin", idx |-> 0]
    ELSE IF Hits(n, p) = {} THEN Unknown
    ELSE LET i == First(Hits(n, p))
         IN IF p[i] = PctBuiltin THEN [type |-> "builtin", idx |-> 0] ELSE [type |-> "normal", idx |-> i]

---------------------------------------------------------------------------
\* May the entry be used for this search?  alt: PATH= in front of the command.
Usable(e, nofunc, alt, p) ==
    /\ e.type # "none"
    /\ e.type = "normal" => ~alt
    /\ e.type = "function" => ~nofunc
    /\ e.type = "builtin" => ~(alt /\ Loc(p) # 0) /\ builtinloc = 0

\* A search after cd: absolute directories before the old place are not looked
\* at, and the old place is taken as it is.  The place of a function is its
\* address, which is behind all of them.
Rehashed_Slip(n, e, p) ==
    {i \in DOMAIN p : p[i] # PctBuiltin /\ i >= e.idx /\ Exists(n, p[i])}

Rehashed(n, e, p) ==
    {i \in DOMAIN p :
        IF p[i] = PctBuiltin THEN n \in Builtins
        ELSE IF p[i] \in Relative THEN Exists(n, p[i])
        ELSE e.type = "normal" /\ (i = e.idx \/ (i > e.idx /\ Exists(n, p[i])))}

\* The outcome: what is found, and the entry left behind.
Searched(n, nofunc, alt, p) ==
    LET e      == cmdtable[n]
        use    == Usable(e, nofunc, alt, p)
        hits   == IF use THEN Rehashed(n, e, p) ELSE Hits(n, p)
        bltin  == [type |-> "builtin", idx |-> 0]
    IN IF use /\ ~e.rehash THEN [got |-> [type |-> e.type, idx |-> e.idx], new |-> e]
       ELSE IF Loc(p) = 0 /\ n \in Builtins
            THEN [got |-> bltin, new |-> IF alt \/ e.type = "function" THEN e ELSE Entry("builtin", 0, FALSE)]
       ELSE IF hits = {} THEN [got |-> Unknown, new |-> IF use THEN NoEntry ELSE e]
       ELSE IF p[First(hits)] = PctBuiltin
            THEN [got |-> bltin, new |-> IF alt \/ e.type = "function" THEN e ELSE Entry("builtin", 0, FALSE)]
       ELSE [got |-> [type |-> "normal", idx |-> First(hits)],
             new |-> IF alt THEN e ELSE Entry("normal", First(hits), FALSE)]

\* A function whose entry is overwritten or deleted is gone; so is one under
\* an entry with the mark of cd.
find_command(n, nofunc, alt, p) ==
    LET s == Searched(n, nofunc, alt, p)
    IN /\ Limited
       /\ cmdtable' = [cmdtable EXCEPT ![n] = s.new]
       /\ lost' = IF /\ cmdtable[n].type = "function"
                     /\ s.new.type # "function" \/ (cmdtable[n].rehash /\ ~nofunc)
                  THEN lost \cup {n} ELSE lost
       /\ answer' = [name |-> n, got |-> s.got, want |-> Fresh(n, nofunc, p)]
       /\ UNCHANGED <<path, builtinloc, cwd, files, funcs>>

Run(n)         == find_command(n, FALSE, FALSE, path)
CommandCmd(n)  == find_command(n, TRUE, FALSE, path)
RunWith(n, p)  == find_command(n, FALSE, TRUE, p)

hashcd_Slip == cmdtable' = cmdtable
\* Programs found before are looked for again after cd.
hashcd ==
    cmdtable' = [n \in Names |->
        IF cmdtable[n].type = "normal" \/ (cmdtable[n].type = "builtin" /\ builtinloc # 0)
        THEN [cmdtable[n] EXCEPT !.rehash = TRUE] ELSE cmdtable[n]]

cdcmd(d) ==
    /\ Limited /\ d # cwd /\ cwd' = d /\ hashcd
    /\ answer' = [name |-> "cd", got |-> Unknown, want |-> Unknown]
    /\ UNCHANGED <<path, builtinloc, files, funcs, lost>>

\* Entries at or behind the first change of PATH are dropped.
clearcmdentry(firstchange, loc) ==
    [n \in Names |->
        IF \/ cmdtable[n].type = "normal" /\ cmdtable[n].idx >= firstchange
           \/ cmdtable[n].type = "builtin" /\ loc # 0 /\ loc >= firstchange
        THEN NoEntry ELSE cmdtable[n]]

changepath_Slip(p) ==
    LET same == {i \in DOMAIN p \cap DOMAIN path : \A j \in 1..i : p[j] = path[j]}
        change == Cardinality(same) + 2
    IN cmdtable' = clearcmdentry(change, builtinloc)

changepath(p) ==
    LET same   == {i \in DOMAIN p \cap DOMAIN path : \A j \in 1..i : p[j] = path[j]}
        first  == Cardinality(same) + 1
        change == IF builtinloc # 0 /\ Loc(p) = 0 THEN 1 ELSE first
        loc    == IF builtinloc = 0 THEN Loc(p) ELSE builtinloc
    IN cmdtable' = clearcmdentry(change, loc)

SetPath(p) ==
    /\ Limited /\ p # path /\ changepath(p)
    /\ path' = p /\ builtinloc' = Loc(p)
    /\ answer' = [name |-> "PATH", got |-> Unknown, want |-> Unknown]
    /\ UNCHANGED <<cwd, files, funcs, lost>>

\* hash -r
Forget ==
    /\ Limited /\ cmdtable' = clearcmdentry(1, builtinloc)
    /\ answer' = [name |-> "hash", got |-> Unknown, want |-> Unknown]
    /\ UNCHANGED <<path, builtinloc, cwd, files, funcs, lost>>

\* The mark cd left on the entry stays on it.
defun(n) ==
    /\ Limited
    /\ IF n \in Special THEN UNCHANGED <<cmdtable, funcs>>
       ELSE /\ cmdtable' = [cmdtable EXCEPT ![n] = Entry("function", 0, @.rehash)]
            /\ funcs' = funcs \cup {n}
    /\ lost' = lost \ {n}
    /\ answer' = [name |-> n, got |-> Unknown, want |-> Unknown]
    /\ UNCHANGED <<path, builtinloc, cwd, files>>

unsetfunc(n) ==
    /\ Limited /\ cmdtable[n].type = "function"
    /\ cmdtable' = [cmdtable EXCEPT ![n] = NoEntry]
    /\ funcs' = funcs \ {n}
    /\ answer' = [name |-> n, got |-> Unknown, want |-> Unknown]
    /\ UNCHANGED <<path, builtinloc, cwd, files, lost>>

\* hash_special_builtins, and nothing else in the table.
Init ==
    /\ cmdtable = [n \in Names |-> IF n \in Special THEN Entry("special", 0, FALSE) ELSE NoEntry]
    /\ path \in Paths /\ builtinloc = Loc(path) /\ cwd \in Cwds /\ files \in FileSets
    /\ answer = [name |-> "none", got |-> Unknown, want |-> Unknown]
    /\ funcs = {} /\ lost = {} /\ events = 0

Next ==
    \/ \E n \in Names : Run(n) \/ CommandCmd(n) \/ defun(n) \/ unsetfunc(n)
    \/ \E n \in Names, p \in Paths : RunWith(n, p)
    \/ \E d \in Cwds : cdcmd(d)
    \/ \E p \in Paths : SetPath(p)
    \/ Forget

---------------------------------------------------------------------------
(* The table never changes what a command means: a search that uses it finds *)
(* what a search made afresh finds, but for functions that were lost.        *)
AnswerRight == answer.name \in lost \/ answer.got = answer.want

(* An entry that cd has not marked names the place where a fresh search      *)
(* would find the program, and a special builtin keeps its entry.            *)
TableTrue ==
    \A n \in Names :
        /\ n \in Special => cmdtable[n].type = "special"
        /\ cmdtable[n].type = "normal" /\ ~cmdtable[n].rehash /\ n \notin lost =>
               Fresh(n, TRUE, path) = [type |-> "normal", idx |-> cmdtable[n].idx]
        /\ n \in funcs \ lost => cmdtable[n].type = "function"

ExecSafe == AnswerRight /\ TableTrue

(* A function is lost in two ways only: "command name" found a program of    *)
(* its name, or it was defined under a name that had been run before a cd.   *)
ExecSteps ==
    \A n \in lost' \ lost : cmdtable[n].rehash \/ answer'.want.type = "normal"
=============================================================================
