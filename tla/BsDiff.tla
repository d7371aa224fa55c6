------------------------------- MODULE BsDiff -------------------------------
(***************************************************************************)
(* The patch format of applypatch/bsdiff.c and applypatch/bspatch.c: the    *)
(* suffix sort of the old file, the scan of the new one that writes control *)
(* triples, differences and extra bytes, and the patcher that reads the     *)
(* three streams back.  Arrays start at 0 as in the code.  Compression is   *)
(* left out: a stream is what went into it, possibly without its end.       *)
(***************************************************************************)
EXTENDS Integers, FiniteSets, Sequences, FiniteSetsExt, SequencesExt, Functions

CONSTANTS
    Base,       \* values of a byte: 256 in the code
    Letters,    \* the bytes that occur
    Width,      \* bytes of an offset: 8 in the code
    Small,      \* groups below this size are sorted by selection: 16
    Slack,      \* matches a new alignment must gain: 8
    MaxOld, MaxNew   \* longest files

VARIABLES
    old, new,   \* the files
    pc,         \* "sort" -> "scan" -> "patch" -> "done", or "hung" in FillBuffer
    I, V, h,    \* suffix array, group of each suffix, sorted prefix
    scan, len, pos,
    last,       \* lastscan, lastpos, lastoffset
    ctrl, db, eb,
    damage,     \* what happened to the patch on its way
    in,         \* what the patcher has read: triples, differences, extra bytes
    out, oldpos, ret

filevars == <<old, new>>
sortvars == <<I, V, h>>
scanvars == <<scan, len, pos, last, ctrl, db, eb>>
patchvars == <<damage, in, out, oldpos, ret>>
vars == <<filevars, pc, sortvars, scanvars, patchvars>>

Files(n) == UNION {[0 .. m - 1 -> Letters] : m \in 0 .. n}
Size(f) == Cardinality(DOMAIN f)
oldsize == Size(old)
newsize == Size(new)
Least(a, b) == IF a < b THEN a ELSE b

-----------------------------------------------------------------------------
\* qsufsort.  st is I and V; a negative I[i] stands for -I[i] places that are
\* sorted already.
Place(f, at, s) == [i \in DOMAIN f |-> IF i \in at .. at + Len(s) - 1 THEN s[i - at + 1] ELSE f[i]]
Places(st, a, b) == [i \in 1 .. b - a |-> st.I[a + i - 1]]

\* The suffixes of s become one group whose last place is k + Len(s) - 1.
Group(st, k, s) ==
    [I |-> Place(st.I, k, IF Len(s) = 1 THEN <<-1>> ELSE s),
     V |-> [i \in DOMAIN st.V |-> IF i \in ToSet(s) THEN k + Len(s) - 1 ELSE st.V[i]]]

RECURSIVE Selected(_, _, _, _), split(_, _, _, _)

\* The suffixes with the smallest key are taken out, again and again; keys
\* are read anew each time.  The order within a group does not matter.
Selected(st, k, end, d) ==
    IF k >= end THEN st
    ELSE LET s == Places(st, k, end)
             x == Min({st.V[s[i] + d] : i \in DOMAIN s})
             low == SelectSeq(s, LAMBDA p : st.V[p + d] = x)
             more == SelectSeq(s, LAMBDA p : st.V[p + d] # x)
         IN  Selected(Group([st EXCEPT !.I = Place(@, k + Len(low), more)], k, low),
                      k + Len(low), end, d)

split(st, start, n, d) ==
    IF n < Small THEN Selected(st, start, start + n, d)
    ELSE LET s == Places(st, start, start + n)
             x == st.V[st.I[start + n \div 2] + d]
             lt == SelectSeq(s, LAMBDA p : st.V[p + d] < x)
             eq == SelectSeq(s, LAMBDA p : st.V[p + d] = x)
             gt == SelectSeq(s, LAMBDA p : st.V[p + d] > x)
             jj == start + Len(lt)
             kk == jj + Len(eq)
             parted == [st EXCEPT !.I = Place(Place(@, start, lt), kk, gt)]
             left == IF lt = <<>> THEN parted ELSE split(parted, start, Len(lt), d)
             mid == Group(left, jj, eq)
         IN  IF gt = <<>> THEN mid ELSE split(mid, kk, Len(gt), d)

\* One pass: sorted places are joined, every other group is split.
RECURSIVE Pass(_, _, _, _)
Pass(st, i, n, d) ==
    LET joined == IF n > 0 THEN [st EXCEPT !.I[i - n] = -n] ELSE st
    IN  IF i > oldsize THEN joined
        ELSE IF st.I[i] < 0 THEN Pass(st, i - st.I[i], n - st.I[i], d)
        ELSE LET m == st.V[st.I[i]] + 1 - i
             IN  Pass(split(joined, i, m, d), i + m, 0, d)

\* The sort by the first byte.  A single suffix that starts with byte 0 is
\* not marked as sorted.
Bucketed ==
    LET last_ == [i \in DOMAIN old |-> Cardinality({j \in DOMAIN old : old[j] <= old[i]})]
        rank == [i \in DOMAIN old |->
                   last_[i] - Cardinality({j \in DOMAIN old : j > i /\ old[j] = old[i]})]
        alone(i) == old[i] # 0 /\ \A j \in DOMAIN old : old[j] = old[i] => j = i
    IN  [I |-> [k \in 0 .. oldsize |->
                  IF k = 0 THEN -1
                  ELSE LET i == CHOOSE j \in DOMAIN old : rank[j] = k
                       IN  IF alone(i) THEN -1 ELSE i],
         V |-> [i \in 0 .. oldsize |-> IF i = oldsize THEN 0 ELSE last_[i]]]

qsufsort ==
    /\ pc = "sort" /\ I[0] # -(oldsize + 1)
    /\ LET st == Pass([I |-> I, V |-> V], 0, 0, h) IN I' = st.I /\ V' = st.V
    /\ h' = h + h
    /\ UNCHANGED <<filevars, pc, scanvars, patchvars>>

Sorted ==
    /\ pc = "sort" /\ I[0] = -(oldsize + 1)
    /\ I' = [k \in 0 .. oldsize |-> CHOOSE i \in 0 .. oldsize : V[i] = k]
    /\ pc' = "scan"
    /\ UNCHANGED <<filevars, V, h, scanvars, patchvars>>

-----------------------------------------------------------------------------
\* Bytes that old from o on and new from n on have in common.
matchlen_Slip(o, n) ==
    Max({k \in 0 .. Least(oldsize - o, newsize - n) : \A j \in 1 .. k - 1 : old[o + j] = new[n + j]})

matchlen(o, n) ==
    Max({k \in 0 .. Least(oldsize - o, newsize - n) : \A j \in 0 .. k - 1 : old[o + j] = new[n + j]})

\* memcmp over the shorter of the two.
Before(o, n) ==
    LET k == matchlen(o, n)
    IN  k < Least(oldsize - o, newsize - n) /\ old[o + k] < new[n + k]

RECURSIVE search(_, _, _)
search(n, st, en) ==
    IF en - st < 2
    THEN LET x == matchlen(I[st], n)
             y == matchlen(I[en], n)
         IN  IF x > y THEN [pos |-> I[st], len |-> x] ELSE [pos |-> I[en], len |-> y]
    ELSE LET x == st + (en - st) \div 2
         IN  IF Before(I[x], n) THEN search(n, x, en) ELSE search(n, st, x)

\* Does the alignment in use match at place n of the new file?
Aligned(n) == n + last.offset < oldsize /\ old[n + last.offset] = new[n]

\* The inner loop of bsdiff: on to the next match that is worth a triple.
RECURSIVE Advance(_, _, _, _)
Advance(sc, scsc, score, at) ==
    IF sc >= newsize THEN [scan |-> sc, at |-> at, score |-> score]
    ELSE LET r == search(sc, 0, oldsize)
             seen == score + Cardinality({j \in scsc .. sc + r.len - 1 : Aligned(j)})
         IN  IF (r.len = seen /\ r.len # 0) \/ r.len > seen + Slack
             THEN [scan |-> sc, at |-> r, score |-> seen]
             ELSE Advance(sc + 1, IF scsc < sc + r.len THEN sc + r.len ELSE scsc,
                          IF Aligned(sc) THEN seen - 1 ELSE seen, r)

\* The first length with the highest score.
Best(score) ==
    CHOOSE i \in DOMAIN score :
        \A j \in DOMAIN score : score[i] > score[j] \/ (score[i] = score[j] /\ i <= j)

\* How far the last match reaches forward and the next one back, and where
\* they meet when they overlap.
Forward(sc) ==
    LET n == Least(sc - last.scan, oldsize - last.pos)
    IN  Best([i \in 0 .. (IF n < 0 THEN 0 ELSE n) |->
                 2 * Cardinality({j \in 0 .. i - 1 : old[last.pos + j] = new[last.scan + j]}) - i])

Backward(sc, p) ==
    IF sc >= newsize THEN 0
    ELSE Best([i \in 0 .. Least(sc - last.scan, p) |->
                  2 * Cardinality({j \in 1 .. i : old[p - j] = new[sc - j]}) - i])

Meeting(sc, p, lenf, lenb) ==
    LET overlap == (last.scan + lenf) - (sc - lenb)
        gain == [i \in 0 .. overlap |->
                    Cardinality({j \in 0 .. i - 1 : new[sc - lenb + j] = old[last.pos + lenf - overlap + j]})
                    - Cardinality({j \in 0 .. i - 1 : new[sc - lenb + j] = old[p - lenb + j]})]
        lens == Best(gain)
    IN  IF overlap > 0 THEN [f |-> lenf + lens - overlap, b |-> lenb - lens]
        ELSE [f |-> lenf, b |-> lenb]

-----------------------------------------------------------------------------
\* Sign and magnitude, little end first.
offtout_Slip(x) ==
    LET y == IF x < 0 THEN -x ELSE x
    IN  [i \in 0 .. Width - 1 |-> (y \div Base ^ i) % Base]

offtout(x) ==
    LET y == IF x < 0 THEN -x ELSE x
        d(i) == (y \div Base ^ i) % Base
    IN  [i \in 0 .. Width - 1 |-> IF i = Width - 1 /\ x < 0 THEN d(i) + Base \div 2 ELSE d(i)]

offtin(b) ==
    LET top == b[Width - 1]
        y == (top % (Base \div 2)) * Base ^ (Width - 1)
             + MapThenSumSet(LAMBDA i : b[i] * Base ^ i, 0 .. Width - 2)
    IN  IF top >= Base \div 2 THEN -y ELSE y

-----------------------------------------------------------------------------
\* One turn of the outer loop: the next match, and unless it only goes on
\* with the alignment in use a triple that ends the last one.
bsdiff ==
    /\ pc = "scan" /\ scan < newsize
    /\ LET a == Advance(scan + len, scan + len, 0, [pos |-> pos, len |-> len])
           m == Meeting(a.scan, a.at.pos, Forward(a.scan), Backward(a.scan, a.at.pos))
           extra == (a.scan - m.b) - (last.scan + m.f)
       IN  /\ scan' = a.scan /\ len' = a.at.len /\ pos' = a.at.pos
           /\ IF a.at.len # a.score \/ a.scan = newsize
              THEN /\ db' = db \o [i \in 1 .. m.f |->
                                     (new[last.scan + i - 1] - old[last.pos + i - 1]) % Base]
                   /\ eb' = eb \o [i \in 1 .. extra |-> new[last.scan + m.f + i - 1]]
                   /\ ctrl' = Append(ctrl, <<offtout(m.f), offtout(extra),
                                offtout((a.at.pos - m.b) - (last.pos + m.f))>>)
                   /\ last' = [scan |-> a.scan - m.b, pos |-> a.at.pos - m.b,
                               offset |-> a.at.pos - a.scan]
              ELSE UNCHANGED <<db, eb, ctrl, last>>
    /\ UNCHANGED <<filevars, pc, sortvars, patchvars>>

\* The streams are written behind the header.  On its way to the phone the
\* patch may lose its end, wherever that is, a block of one stream or the
\* header may be spoilt; and the phone may lack the memory for the new file.
Shorter(s) == SubSeq(s, 1, Len(s) - 1)

Close ==
    /\ pc = "scan" /\ scan >= newsize /\ pc' = "patch"
    /\ \/ damage' \in {"none", "header", "memory"} /\ UNCHANGED <<ctrl, db, eb>>
       \/ /\ damage' = "cut"
          /\ \/ eb' = Shorter(eb) /\ UNCHANGED <<ctrl, db>>
             \/ db' = Shorter(db) /\ eb' = <<>> /\ UNCHANGED ctrl
             \/ ctrl' = Shorter(ctrl) /\ db' = <<>> /\ eb' = <<>>
       \/ /\ damage' = "spoilt"
          /\ \/ eb' = Shorter(eb) /\ UNCHANGED <<ctrl, db>>
             \/ db' = Shorter(db) /\ UNCHANGED <<ctrl, eb>>
             \/ ctrl' = Shorter(ctrl) /\ UNCHANGED <<db, eb>>
    /\ UNCHANGED <<filevars, sortvars, scan, len, pos, last, in, out, oldpos, ret>>

-----------------------------------------------------------------------------
\* FillBuffer: are there n more bytes in a stream behind the first k?
FillBuffer(s, k, n) == k + n <= Len(s)

Triple == [x |-> offtin(ctrl[in.c + 1][1]), y |-> offtin(ctrl[in.c + 1][2]), z |-> offtin(ctrl[in.c + 1][3])]

\* The checks of a turn: no stream ends early, nothing overruns the new file.
Readable ==
    /\ FillBuffer(ctrl, in.c, 1)
    /\ Len(out) + Triple.x <= newsize /\ FillBuffer(db, in.d, Triple.x)
    /\ Len(out) + Triple.x + Triple.y <= newsize /\ FillBuffer(eb, in.e, Triple.y)

\* A difference with the byte of the old file, outside of which 0 is added.
Added(i, p) == (db[i] + (IF p \in DOMAIN old THEN old[p] ELSE 0)) % Base

Moved_Slip(t) == oldpos + t.z
Moved(t)      == oldpos + t.x + t.z

\* The header has its magic number and no negative length, and there is memory.
Opened == damage \notin {"header", "memory"}

PatchRefused ==
    /\ pc = "patch" /\ ~Opened /\ pc' = "done" /\ ret' = 1
    /\ UNCHANGED <<filevars, sortvars, scanvars, damage, in, out, oldpos>>

\* One triple: x bytes of the old file plus differences, y extra bytes, and a
\* move of z bytes in the old file.
ApplyBSDiffPatchMem ==
    /\ pc = "patch" /\ Opened /\ Len(out) < newsize /\ Readable
    /\ LET t == Triple
       IN  /\ out' = out \o [i \in 1 .. t.x |-> Added(in.d + i, oldpos + i - 1)]
                         \o [i \in 1 .. t.y |-> eb[in.e + i]]
           /\ in' = [c |-> in.c + 1, d |-> in.d + t.x, e |-> in.e + t.y]
           /\ oldpos' = Moved(t)
    /\ UNCHANGED <<filevars, pc, sortvars, scanvars, damage, ret>>

\* A turn that cannot be done.  The decompressor reports a spoilt block, but at
\* the end of a patch that was cut it waits for more, and FillBuffer asks again
\* and again.  When the control data or the differences are cut, it is given
\* what lies behind the patch in memory instead: that is no such stream, or it
\* ends as well.
BehindPatch == IF FillBuffer(ctrl, in.c, 1) THEN ~FillBuffer(db, in.d, Triple.x) ELSE TRUE

PatchFails ==
    /\ pc = "patch" /\ Opened /\ Len(out) < newsize /\ ~Readable
    /\ damage = "cut" => BehindPatch
    /\ pc' = "done" /\ ret' = 1
    /\ UNCHANGED <<filevars, sortvars, scanvars, damage, in, out, oldpos>>

FillBufferHangs ==
    /\ pc = "patch" /\ Opened /\ Len(out) < newsize /\ ~Readable
    /\ damage = "cut" /\ pc' = "hung"
    /\ UNCHANGED <<filevars, sortvars, scanvars, damage, in, out, oldpos, ret>>

PatchDone ==
    /\ pc = "patch" /\ Opened /\ Len(out) >= newsize /\ pc' = "done" /\ ret' = 0
    /\ UNCHANGED <<filevars, sortvars, scanvars, damage, in, out, oldpos>>

Init ==
    /\ old \in Files(MaxOld) /\ new \in Files(MaxNew) /\ pc = "sort" /\ h = 1
    /\ I = Bucketed.I /\ V = Bucketed.V
    /\ scan = 0 /\ len = 0 /\ pos = 0 /\ last = [scan |-> 0, pos |-> 0, offset |-> 0]
    /\ ctrl = <<>> /\ db = <<>> /\ eb = <<>>
    /\ damage = "none" /\ in = [c |-> 0, d |-> 0, e |-> 0] /\ out = <<>> /\ oldpos = 0 /\ ret = -1

Next ==
    \/ qsufsort \/ Sorted \/ bsdiff \/ Close
    \/ PatchRefused \/ ApplyBSDiffPatchMem \/ PatchFails \/ FillBufferHangs \/ PatchDone

-----------------------------------------------------------------------------
Smaller(a, b) ==
    LET k == Max({m \in 0 .. Least(oldsize - a, oldsize - b) : \A j \in 0 .. m - 1 : old[a + j] = old[b + j]})
    IN  a + k = oldsize \/ (b + k < oldsize /\ old[a + k] < old[b + k])

\* qsufsort leaves every suffix of the old file, the empty one first, in
\* ascending order, whichever way its groups were split.
SuffixesSorted ==
    pc # "sort" =>
        /\ Range(I) = 0 .. oldsize
        /\ \A k \in 0 .. oldsize - 1 : I[k] # I[k + 1] /\ Smaller(I[k], I[k + 1])

\* The match bsdiff goes on from is one, inside both files.
MatchReal ==
    pc = "scan" /\ scan < newsize =>
        /\ scan + len <= newsize /\ pos + len <= oldsize
        /\ \A j \in 0 .. len - 1 : new[scan + j] = old[pos + j]

\* A patch that is accepted makes the new file, byte for byte; it is refused
\* only when something happened to it; and the patcher returns, with every
\* patch but one that lost its end.
PatchMakesNew ==
    /\ pc = "done" /\ ret = 0 => Len(out) = newsize /\ \A i \in DOMAIN new : out[i + 1] = new[i]
    /\ pc = "done" /\ ret = 1 => damage # "none"
    /\ pc = "hung" => damage = "cut"
=============================================================================
