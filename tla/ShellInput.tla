----------------------------- MODULE ShellInput ----------------------------
(* Where btsh reads its commands from (input.c): a stack of files and        *)
(* strings, each with the texts of the aliases being expanded pushed in      *)
(* front of it (alias.c), and the tokens the parser takes (parser.c).        *)
(* A word is one character; here-documents are left out.                     *)
EXTENDS Integers, Sequences, FiniteSets

CONSTANTS Names,      \* words that may be aliases
          Files,      \* what a file or a string to read may contain
          Values,     \* what an alias may stand for
          BufSize,    \* characters one read() delivers
          MaxDepth,   \* files and strings open at once
          MaxAliases, \* aliases ever created
          MaxEvents   \* alias commands, files read, errors

Eof == "EOF"

VARIABLES files,    \* the stack of parsefile, the current one last
          atab,     \* the alias of a name, 0 when there is none
          alias,    \* every alias created: its value, flag, whether it is allocated
          checkkwd, words, phase,
          loose,    \* some text was freed while it was being read
          events

vars == <<files, atab, alias, checkkwd, words, phase, loose, events>>

Ids == DOMAIN alias
Top == files[Len(files)]
Limited == events < MaxEvents /\ events' = events + 1

\* nextc/nleft is what is left of the line, lleft what is left of the buffer.
Level(str, line, rest) ==
    [str |-> str, line |-> line, buf |-> <<>>, unread |-> rest, eof |-> FALSE,
     strpush |-> <<>>, taken |-> 0, size |-> Len(line) + Len(rest)]

---------------------------------------------------------------------------
\* Characters.  st is the current level and the aliases.
Here == [f |-> Top, al |-> alias]
Put(st) == files' = [files EXCEPT ![Len(files)] = st.f] /\ alias' = st.al

lookupalias_Slip(al, w) == {i \in DOMAIN al : atab[w] = i}
\* An alias is found by its name unless its text is being read.
lookupalias(al, w) == {i \in DOMAIN al : atab[w] = i /\ ~al[i].inuse}

pushstring(st, i) ==
    [f  |-> [st.f EXCEPT !.strpush = Append(@, [line |-> st.f.line, buf |-> st.f.buf, ap |-> i]),
                         !.line = st.al[i].val],
     al |-> [st.al EXCEPT ![i].inuse = TRUE]]

popstring_Slip(st) ==
    LET n == Len(st.f.strpush)
        sp == st.f.strpush[n]
    IN [f  |-> [st.f EXCEPT !.strpush = SubSeq(@, 1, n - 1), !.line = sp.line, !.buf = sp.buf],
        al |-> st.al]

popstring(st) ==
    LET n == Len(st.f.strpush)
        sp == st.f.strpush[n]
    IN [f  |-> [st.f EXCEPT !.strpush = SubSeq(@, 1, n - 1), !.line = sp.line, !.buf = sp.buf],
        al |-> [st.al EXCEPT ![sp.ap].inuse = FALSE]]

\* The next block of the file, and of it the next line.
preadfd(f) ==
    LET n == IF Len(f.unread) < BufSize THEN Len(f.unread) ELSE BufSize
    IN [f EXCEPT !.buf = SubSeq(f.unread, 1, n), !.unread = SubSeq(@, n + 1, Len(@)), !.eof = n = 0]

NextLine(f) ==
    LET ends == {k \in DOMAIN f.buf : f.buf[k] = "\n"}
        n    == IF ends = {} THEN Len(f.buf) ELSE CHOOSE k \in ends : \A j \in ends : k <= j
    IN [f EXCEPT !.line = SubSeq(f.buf, 1, n), !.buf = SubSeq(@, n + 1, Len(@))]

\* One text is popped, and only one; then the line, the buffer, the file.
preadbuffer(st) ==
    LET u == IF st.f.strpush # <<>> THEN popstring(st) ELSE st
        b == IF u.f.buf = <<>> THEN preadfd(u.f) ELSE u.f
    IN IF u.f.line # <<>> \/ u.f.eof \/ u.f.str THEN u
       ELSE [u EXCEPT !.f = IF b.eof THEN b ELSE NextLine(b)]

Filled(st) == IF st.f.line # <<>> THEN st ELSE preadbuffer(st)
Peek(st)   == IF st.f.line = <<>> THEN Eof ELSE Head(st.f.line)
pgetc(st)  ==
    IF st.f.line = <<>> THEN st
    ELSE [st EXCEPT !.f.line = Tail(@), !.f.taken = IF st.f.strpush = <<>> THEN @ + 1 ELSE @]

---------------------------------------------------------------------------
\* One token: the character behind a word is looked at and put back (pungetc)
\* before the word is looked up among the aliases.
readtoken ==
    /\ phase = "parse"
    /\ \E st \in {Filled(Here)} : \E c \in {Peek(st)}, w \in {Filled(pgetc(st))} :
          \/ /\ c = " "
             /\ Put(pgetc(st)) /\ UNCHANGED <<checkkwd, words, phase>>
          \/ /\ c = ";"
             /\ Put(pgetc(st)) /\ checkkwd' = TRUE /\ UNCHANGED <<words, phase>>
          \/ /\ c = "\n"
             /\ Put(pgetc(st)) /\ phase' = "eval" /\ UNCHANGED <<checkkwd, words>>
          \/ /\ c = Eof
             /\ Put(st)
             /\ phase' = IF words > 0 THEN "eval" ELSE "eof"
             /\ UNCHANGED <<checkkwd, words>>
          \/ /\ c \in Names /\ checkkwd /\ lookupalias(w.al, c) # {}
             /\ Put(pushstring(w, atab[c])) /\ UNCHANGED <<checkkwd, words, phase>>
          \/ /\ c \in Names /\ ~(checkkwd /\ lookupalias(w.al, c) # {})
             /\ Put(w) /\ checkkwd' = FALSE /\ words' = 1 /\ UNCHANGED phase
    /\ UNCHANGED <<atab, loose, events>>

\* The line is parsed: the commands on it run, and the next one is read.
parsecmd ==
    /\ phase = "eval" /\ phase' = "parse"
    /\ checkkwd' = TRUE /\ words' = 0
    /\ UNCHANGED <<files, atab, alias, loose, events>>

---------------------------------------------------------------------------
\* The commands on a line: alias, unalias, unalias -a.
Reading == UNION {{files[j].strpush[k].ap : k \in DOMAIN files[j].strpush} : j \in DOMAIN files}

setalias_Slip(n, v) ==
    /\ phase = "eval" /\ Limited
    /\ IF atab[n] # 0
       THEN /\ alias' = [alias EXCEPT ![atab[n]].val = v, ![atab[n]].again = TRUE]
            /\ loose' = (loose \/ atab[n] \in Reading)
            /\ UNCHANGED atab
       ELSE /\ Len(alias) < MaxAliases
            /\ \E flag \in BOOLEAN :
                   alias' = Append(alias, [val |-> v, inuse |-> flag, wild |-> flag,
                                           live |-> TRUE, again |-> FALSE])
            /\ atab' = [atab EXCEPT ![n] = Len(alias) + 1]
            /\ UNCHANGED loose
    /\ UNCHANGED <<files, checkkwd, words, phase>>

\* A new alias gets a blank behind its value; its flag is not initialised.
setalias(n, v) ==
    /\ phase = "eval" /\ Limited
    /\ IF atab[n] # 0
       THEN /\ alias' = [alias EXCEPT ![atab[n]].val = v, ![atab[n]].again = TRUE]
            /\ loose' = (loose \/ atab[n] \in Reading)
            /\ UNCHANGED atab
       ELSE /\ Len(alias) < MaxAliases
            /\ \E flag \in BOOLEAN :
                   alias' = Append(alias, [val |-> Append(v, " "), inuse |-> flag, wild |-> flag,
                                           live |-> TRUE, again |-> FALSE])
            /\ atab' = [atab EXCEPT ![n] = Len(alias) + 1]
            /\ UNCHANGED loose
    /\ UNCHANGED <<files, checkkwd, words, phase>>

unalias_Slip(n) ==
    /\ phase = "eval" /\ atab[n] # 0 /\ Limited
    /\ atab' = [atab EXCEPT ![n] = 0]
    /\ alias' = [alias EXCEPT ![atab[n]].live = FALSE]
    /\ UNCHANGED <<files, checkkwd, words, phase, loose>>

\* An alias in use only loses its name.
unalias(n) ==
    /\ phase = "eval" /\ atab[n] # 0 /\ Limited
    /\ atab' = [atab EXCEPT ![n] = 0]
    /\ alias' = [alias EXCEPT ![atab[n]].live = alias[atab[n]].inuse]
    /\ UNCHANGED <<files, checkkwd, words, phase, loose>>

rmaliases ==
    /\ phase = "eval" /\ Limited
    /\ atab' = [n \in Names |-> 0]
    /\ alias' = [i \in Ids |-> [alias[i] EXCEPT !.live = FALSE]]
    /\ loose' = (loose \/ Reading # {})
    /\ UNCHANGED <<files, checkkwd, words, phase>>

---------------------------------------------------------------------------
\* Files and strings: "." and eval push one, its end pops it.
Opened(level) ==
    /\ phase = "eval" /\ Len(files) < MaxDepth /\ Limited
    /\ files' = Append(files, level)
    /\ phase' = "parse" /\ checkkwd' = TRUE /\ words' = 0
    /\ UNCHANGED <<atab, alias, loose>>

setinputfile(text)   == Opened(Level(FALSE, <<>>, text))
setinputstring(text) == Opened(Level(TRUE, text, <<>>))

\* What popfile does to the aliases, the ones still being expanded included.
Released(al, fs) ==
    LET used == UNION {{fs[j].strpush[k].ap : k \in DOMAIN fs[j].strpush} : j \in DOMAIN fs}
    IN [i \in DOMAIN al |-> IF i \in used THEN [al[i] EXCEPT !.inuse = FALSE] ELSE al[i]]

Pop ==
    /\ files' = SubSeq(files, 1, Len(files) - 1)
    /\ alias' = Released(alias, <<Top>>)
    /\ phase' = "eval" /\ UNCHANGED <<atab, checkkwd, words, loose>>

popfile == phase = "eof" /\ Len(files) > 1 /\ Pop /\ UNCHANGED events

\* return in a file read with "." leaves it before its end.
LeaveFile == phase = "eval" /\ Len(files) > 1 /\ ~Top.str /\ Limited /\ Pop

popallfiles_Slip(al) == al
popallfiles(al)      == Released(al, SubSeq(files, 2, Len(files)))

\* An error clears what the current level has in its buffer and pops the rest.
Reset ==
    /\ phase \in {"parse", "eval"} /\ Limited
    /\ LET dropped == Len(Top.line) + Len(Top.buf)
           top == [Top EXCEPT !.line = <<>>, !.buf = <<>>,
                              !.taken = IF Top.strpush = <<>> THEN @ + dropped ELSE @]
           all == [files EXCEPT ![Len(files)] = top]
       IN files' = <<all[1]>>
    /\ alias' = popallfiles(alias)
    /\ phase' = "eval"
    /\ UNCHANGED <<atab, checkkwd, words, loose>>

Init ==
    /\ \E text \in Files : files = <<Level(FALSE, <<>>, text)>>
    /\ atab = [n \in Names |-> 0] /\ alias = <<>>
    /\ checkkwd = TRUE /\ words = 0 /\ phase = "eval" /\ loose = FALSE /\ events = 0

Next ==
    \/ readtoken \/ parsecmd
    \/ \E n \in Names, v \in Values : setalias(n, v)
    \/ \E n \in Names : unalias(n)
    \/ rmaliases
    \/ \E text \in Files : setinputfile(text) \/ setinputstring(text)
    \/ popfile \/ LeaveFile \/ Reset

\* The shell goes on reading.
Shell == readtoken \/ parsecmd \/ popfile

---------------------------------------------------------------------------
Pushes(i) == {<<j, k>> \in (1..Len(files)) \X (1..MaxAliases) :
                  k <= Len(files[j].strpush) /\ files[j].strpush[k].ap = i}

(* An alias whose text is being read is marked, is read at one place only    *)
(* (it is not expanded within itself, nor in a file or string its text       *)
(* makes the shell read), and is marked at no other time, unless the         *)
(* uninitialised flag of a new alias happened to be set.                     *)
AliasInUse ==
    \A i \in Ids : /\ Cardinality(Pushes(i)) <= 1
                   /\ Pushes(i) # {} => alias[i].inuse
                   /\ alias[i].inuse => Pushes(i) # {} \/ alias[i].wild

(* unalias never frees a text that is being read: only giving the alias a    *)
(* new value, or unalias -a, does.                                           *)
TextAlive == ~loose => \A i \in Ids : Pushes(i) # {} => alias[i].live

(* Popping one text is enough in preadbuffer: below a pushed text that is    *)
(* itself the text of an alias something is always left to read, since the   *)
(* character behind the word was put back before the push.                   *)
OnePopIsEnough ==
    \A j \in DOMAIN files : \A k \in 2..Len(files[j].strpush) : files[j].strpush[k].line # <<>>

\* What is left of a file itself, behind the texts pushed in front of it.
Left(f) ==
    (IF f.strpush = <<>> THEN Len(f.line) + Len(f.buf) ELSE Len(f.strpush[1].line) + Len(f.strpush[1].buf))
    + Len(f.unread)

(* No character of a file is lost or read twice, whatever is expanded, read  *)
(* or abandoned in between.                                                  *)
NothingLost == \A j \in DOMAIN files : files[j].taken + Left(files[j]) = files[j].size

InputSafe == AliasInUse /\ TextAlive /\ OnePopIsEnough /\ NothingLost

(* The files below the one that is read are left alone: they lose nothing by *)
(* an error, and are continued where they stopped.                           *)
InputSteps ==
    \A j \in DOMAIN files : j < Len(files) =>
        IF j <= Len(files') THEN files'[j] = files[j] ELSE j > 1

\* There is input left, and no alias was given a second value.
Unread == phase # "eof" /\ \A i \in Ids : ~alias[i].again
=============================================================================
