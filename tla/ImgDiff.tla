------------------------------ MODULE ImgDiff -------------------------------
(***************************************************************************)
(* Patches for images and archives with compressed parts: imgdiff.c, which  *)
(* cuts both files into chunks, decides which compressed chunks can be      *)
(* rebuilt and writes one patch per chunk, and imgpatch.c, which puts the   *)
(* target together again on the phone.                                      *)
(*                                                                         *)
(* A file is a sequence of cells: a plain byte ("n"), a gzip header ("g")   *)
(* and footer ("f"), and a deflate stream ("d") as one cell that expands to *)
(* two cells of v and was written by encoder e (6 and 9 are the levels      *)
(* imgdiff tries, 0 another encoder).  In an archive the plain cell in      *)
(* front of a stream is the local header with the entry's name; names are   *)
(* unique.  A bsdiff patch is the pair of contents it was made from, which  *)
(* BsDiff justifies.                                                        *)
(***************************************************************************)
EXTENDS Integers, Sequences, SequencesExt, FiniteSetsExt

CONSTANTS
    Images, Zips,   \* the files patches are made between
    RawMax,         \* normal chunks up to this length are stored: 160
    Sizes,          \* sizes a bsdiff patch may have
    MaxFaults       \* short writes of the output

VARIABLES
    zip, src, tgt,  \* mode, source and target file
    pc, i,          \* place and loop counter of the two programs
    S, T,           \* source and target chunks
    patch,          \* patches made so far
    file,           \* the patch file: chunk headers
    out, sha,       \* output and what went into its digest
    faults, ret

inputs == <<zip, src, tgt>>
vars == <<inputs, pc, i, S, T, patch, file, out, sha, faults, ret>>

Cell(t, v, e) == [t |-> t, v |-> v, e |-> e]
inflate(c) == <<Cell("x", c.v, 0), Cell("x", c.v, 0)>>
deflate(x, level) == Cell("d", x[1].v, level)
Torn == Cell("n", 0, 1)

\* start and len in cells of the file; for a deflate chunk dlen is that length
\* and len the one of the expanded data.  I is the data a suffix array was
\* made of, ss, sl and su the part of the source a patch applies to.
Chunk(type, start, len) ==
    [type |-> type, start |-> start, len |-> len, dlen |-> 0, name |-> 0, level |-> 0,
     I |-> <<>>, ss |-> 0, sl |-> 0, su |-> 0]
Deflated(start, name) ==
    [Chunk("deflate", start, 2) EXCEPT !.dlen = 1, !.name = name]
Extent(c) == IF c.type = "deflate" THEN c.dlen ELSE c.len
Data(f, c) == IF c.type = "deflate" THEN inflate(f[c.start + 1])
              ELSE SubSeq(f, c.start + 1, c.start + c.len)

-----------------------------------------------------------------------------
\* A chunk list as the two readers build it: front to back, one normal chunk
\* up to the next compressed part.
RECURSIVE ReadImage(_, _), ReadZip(_, _)

NextAt(f, p, kind) == Min({q \in p .. Len(f) : q = Len(f) \/ f[q + 1].t = kind})

\* A gzip header makes three chunks.  A footer with another size ends the
\* program.
ReadImage(f, p) ==
    IF p >= Len(f) THEN <<>>
    ELSE IF f[p + 1].t = "g"
    THEN <<Chunk("normal", p, 1), Deflated(p + 1, 0), Chunk("normal", p + 2, 1)>>
         \o ReadImage(f, p + 3)
    ELSE LET q == NextAt(f, p, "g")
         IN  <<Chunk("normal", p, q - p)>> \o ReadImage(f, q)

FootersMatch(f) == \A p \in 1 .. Len(f) : f[p].t = "f" => f[p].v = 2

\* The deflated entries of the central directory, in the order of their data.
ReadZip(f, p) ==
    IF p >= Len(f) THEN <<>>
    ELSE IF f[p + 1].t = "d" THEN <<Deflated(p, f[p].v)>> \o ReadZip(f, p + 1)
    ELSE LET q == NextAt(f, p, "d")
         IN  <<Chunk("normal", p, q - p)>> \o ReadZip(f, q)

\* include_pseudo_chunk: the whole source file in front.
Pseudo(f) == <<Chunk("normal", 0, Len(f))>>

-----------------------------------------------------------------------------
\* Runs of normal chunks that touch become one.
Touches(a, b) == a.type = "normal" /\ b.type = "normal" /\ b.start = a.start + a.len

MergeAdjacentNormalChunks(cs) ==
    FoldLeft(LAMBDA acc, c :
                IF acc # <<>> /\ Touches(Last(acc), c)
                THEN Append(Front(acc), [Last(acc) EXCEPT !.len = @ + c.len])
                ELSE Append(acc, c),
             <<>>, cs)

ChangeDeflateChunkToNormal_Slip(c) ==
    IF c.type # "deflate" THEN c ELSE [c EXCEPT !.type = "normal"]

ChangeDeflateChunkToNormal(c) ==
    IF c.type # "deflate" THEN c ELSE [c EXCEPT !.type = "normal", !.len = c.dlen]

\* The level that writes the stream again, 0 when neither does.
ReconstructDeflateChunk(c) ==
    LET e == tgt[c.start + 1].e IN IF e \in {6, 9} THEN e ELSE 0

AreChunksEqual(a, b) ==
    /\ a.type = b.type
    /\ Extent(a) = Extent(b)
    /\ SubSeq(tgt, a.start + 1, a.start + Extent(a)) = SubSeq(src, b.start + 1, b.start + Extent(b))

\* The first deflate chunk of that name, 0 when there is none.
FindChunkByName(name, cs) ==
    LET named == {k \in DOMAIN cs : cs[k].type = "deflate" /\ cs[k].name = name}
    IN  IF named = {} THEN 0 ELSE Min(named)

\* Place of the source chunk that belongs to a target chunk.
SourceOf(c, k) == IF zip THEN FindChunkByName(c.name, S) ELSE k

-----------------------------------------------------------------------------
\* main: reading, and for images the comparison of the two structures.
Types(cs) == [k \in DOMAIN cs |-> cs[k].type]

Read ==
    /\ pc = "read"
    /\ LET s == IF zip THEN Pseudo(src) \o ReadZip(src, 0)
                ELSE MergeAdjacentNormalChunks(ReadImage(src, 0))
           t == IF zip THEN ReadZip(tgt, 0) ELSE MergeAdjacentNormalChunks(ReadImage(tgt, 0))
       IN  IF zip \/ (FootersMatch(src) /\ FootersMatch(tgt) /\ Types(s) = Types(t))
           THEN S' = s /\ T' = t /\ pc' = "classify"
           ELSE pc' = "refused" /\ UNCHANGED <<S, T>>
    /\ i' = 1 /\ UNCHANGED <<inputs, patch, file, out, sha, faults, ret>>

\* A deflate chunk of the target stays one when it can be rebuilt and its
\* source is there and not the same.
Classify ==
    /\ pc = "classify" /\ i <= Len(T) /\ i' = i + 1
    /\ LET level == ReconstructDeflateChunk(T[i])
           k == SourceOf(T[i], i)
           kept == level # 0 /\ k # 0 /\ ~AreChunksEqual(T[i], S[k])
       IN  IF T[i].type # "deflate" THEN UNCHANGED <<S, T>>
           ELSE IF kept THEN T' = [T EXCEPT ![i].level = level] /\ UNCHANGED S
           ELSE /\ T' = [T EXCEPT ![i] = ChangeDeflateChunkToNormal(@)]
                /\ S' = IF k = 0 THEN S ELSE [S EXCEPT ![k] = ChangeDeflateChunkToNormal(@)]
    /\ UNCHANGED <<inputs, pc, patch, file, out, sha, faults, ret>>

Merge_Slip ==
    /\ pc = "classify" /\ i > Len(T) /\ i' = 1
    /\ T' = MergeAdjacentNormalChunks(T) /\ UNCHANGED S
    /\ pc' = IF zip \/ Len(S') = Len(T') THEN "diff" ELSE "awry"
    /\ UNCHANGED <<inputs, patch, file, out, sha, faults, ret>>

Merge ==
    /\ pc = "classify" /\ i > Len(T) /\ i' = 1
    /\ T' = MergeAdjacentNormalChunks(T)
    /\ S' = IF zip THEN S ELSE MergeAdjacentNormalChunks(S)
    /\ pc' = IF zip \/ Len(S') = Len(T') THEN "diff" ELSE "awry"
    /\ UNCHANGED <<inputs, patch, file, out, sha, faults, ret>>

\* A short normal chunk, and one whose patch would not be smaller, is stored.
Stored(c) == [patch |-> Append(patch, [size |-> c.len, from |-> <<>>, to |-> Data(tgt, c)]),
              T |-> [T EXCEPT ![i].type = "raw"]]

\* bsdiff sorts the suffixes of a source chunk the first time only.
MakePatch ==
    /\ pc = "diff" /\ i <= Len(T) /\ i' = i + 1
    /\ LET c == T[i]
           k == SourceOf(c, i)
           s == IF ~zip THEN i ELSE IF c.type = "deflate" /\ k # 0 THEN k ELSE 1
           from == IF S[s].I = <<>> THEN Data(src, S[s]) ELSE S[s].I
       IN  \/ /\ c.type = "normal" /\ c.len <= RawMax
              /\ patch' = Stored(c).patch /\ T' = Stored(c).T /\ UNCHANGED S
           \/ \E n \in Sizes :
              /\ ~(c.type = "normal" /\ c.len <= RawMax)
              /\ S' = [S EXCEPT ![s].I = from]
              /\ IF c.type = "normal" /\ c.len <= n
                 THEN patch' = Stored(c).patch /\ T' = Stored(c).T
                 ELSE /\ patch' = Append(patch, [size |-> n, from |-> from, to |-> Data(tgt, c)])
                      /\ T' = [T EXCEPT ![i].ss = S[s].start,
                                        ![i].sl = IF c.type = "normal" THEN S[s].len ELSE S[s].dlen,
                                        ![i].su = IF c.type = "normal" THEN 0 ELSE S[s].len]
    /\ UNCHANGED <<inputs, pc, file, out, sha, faults, ret>>

-----------------------------------------------------------------------------
Sum(k, Of(_)) == MapThenSumSet(Of, 1 .. k)

\* The patch file.  Bytes of a chunk's header, and where it says its patch is.
HeaderSize_Slip(c, p) ==
    4 + CASE c.type = "normal" -> 8 * 3 [] c.type = "deflate" -> 8 * 5 + 4 * 5 [] c.type = "raw" -> 4

HeaderSize(c, p) ==
    4 + CASE c.type = "normal" -> 8 * 3 [] c.type = "deflate" -> 8 * 5 + 4 * 5 [] c.type = "raw" -> 4 + p.size

Appended(j) == IF T[j].type = "raw" THEN 0 ELSE patch[j].size

WriteFile ==
    /\ pc = "diff" /\ i > Len(T) /\ i' = 1 /\ pc' = "apply"
    /\ file' = [j \in DOMAIN T |->
                  [c |-> T[j],
                   offset |-> 12 + Sum(Len(T), LAMBDA k : HeaderSize(T[k], patch[k]))
                              + Sum(j - 1, Appended)]]
    /\ UNCHANGED <<inputs, S, T, patch, out, sha, faults, ret>>

\* The patch that really begins at an offset, from the bytes that were
\* written in front of it, 0 when none does.
Written(c, p) == CASE c.type = "normal" -> 28 [] c.type = "deflate" -> 64 [] c.type = "raw" -> 8 + p.size
PatchAt(o) ==
    LET At(j) == 12 + Sum(Len(T), LAMBDA k : Written(T[k], patch[k])) + Sum(j - 1, Appended)
        js == {j \in DOMAIN T : T[j].type # "raw" /\ At(j) = o}
    IN  IF js = {} THEN 0 ELSE Min(js)

Part(c) == SubSeq(src, c.ss + 1, c.ss + c.sl)

\* ApplyBSDiffPatchMem on the part of the source a header names.  It refuses
\* what does not begin like a patch; it cannot tell that the source is another
\* one, and makes something else of it.
Refused(h) == h.c.type # "raw" /\ PatchAt(h.offset) = 0
Patched(data, o) == LET p == patch[PatchAt(o)] IN IF p.from = data THEN p.to ELSE <<Torn>>

\* The source of a deflate chunk does not inflate to the length in the header.
Uninflatable(h) ==
    h.c.type = "deflate" /\ (Len(Part(h.c)) # 1 \/ Part(h.c)[1].t # "d" \/ h.c.su # 2)

\* What a chunk adds to the output.
Rebuilt(h) ==
    CASE h.c.type = "raw" -> patch[i].to
      [] h.c.type = "normal" -> IF Refused(h) THEN <<>> ELSE Patched(Part(h.c), h.offset)
      [] h.c.type = "deflate" -> <<deflate(Patched(inflate(Part(h.c)[1]), h.offset), h.c.level)>>

Finish(r) == pc' = "done" /\ ret' = r

\* ApplyImagePatch.  A deflate chunk whose source does not inflate or whose
\* patch is refused, and a short write, end the patching; of a normal chunk
\* nobody looks at the result, but its data does not go into the digest.
Digested_Slip(h) == Rebuilt(h)
Digested(h)      == IF h.c.type = "raw" THEN Rebuilt(h) ELSE <<>>

ApplyImagePatch ==
    /\ pc = "apply" /\ i <= Len(file) /\ i' = i + 1
    /\ LET h == file[i]
           Unseen == IF h.c.type = "normal" THEN UNCHANGED <<pc, ret>> ELSE Finish(-1)
       IN
       IF h.c.type = "deflate" /\ (Uninflatable(h) \/ Refused(h))
       THEN Finish(-1) /\ UNCHANGED <<out, sha, faults>>
       ELSE \/ out' = out \o Rebuilt(h) /\ sha' = sha \o Rebuilt(h) /\ UNCHANGED <<pc, ret, faults>>
            \/ /\ faults < MaxFaults /\ faults' = faults + 1 /\ Unseen     \* a short write
               /\ out' = Append(out, Torn) /\ sha' = sha \o Digested(h)
            \/ /\ faults < MaxFaults /\ faults' = faults + 1 /\ Unseen     \* no memory
               /\ h.c.type # "raw" /\ UNCHANGED <<out, sha>>
    /\ UNCHANGED <<inputs, S, T, patch, file>>

Applied ==
    /\ pc = "apply" /\ i > Len(file) /\ Finish(0)
    /\ UNCHANGED <<inputs, i, S, T, patch, file, out, sha, faults>>

Init ==
    /\ \/ zip = TRUE /\ src \in Zips /\ tgt \in Zips
       \/ zip = FALSE /\ src \in Images /\ tgt \in Images
    /\ pc = "read" /\ i = 1 /\ S = <<>> /\ T = <<>> /\ patch = <<>> /\ file = <<>>
    /\ out = <<>> /\ sha = <<>> /\ faults = 0 /\ ret = 1

Next ==
    \/ Read \/ Classify \/ Merge \/ MakePatch \/ WriteFile
    \/ ApplyImagePatch \/ Applied

-----------------------------------------------------------------------------
\* The chunks of the target cover it without gap or overlap from the reading
\* to the patch file, whatever was merged or given up as a deflate chunk.
TilesTarget ==
    pc \in {"classify", "diff", "apply", "done"} =>
        /\ \A k \in 1 .. Len(T) : T[k].start = Sum(k - 1, LAMBDA j : Extent(T[j]))
        /\ Sum(Len(T), LAMBDA j : Extent(T[j])) = Len(tgt)

\* imgdiff.c calls it "This shouldn't happen": merging keeps the two lists of
\* an image parallel.
NeverAwry == pc # "awry" /\ (pc \in {"classify", "diff"} /\ ~zip => Len(S) = Len(T))

\* A patch that was made rebuilds the target from its source, and when writing
\* fails the return value and the digest together tell.
RebuildsTarget ==
    pc = "done" =>
        /\ faults = 0 => ret = 0 /\ out = tgt /\ sha = tgt
        /\ ret = 0 /\ sha = tgt => out = tgt
=============================================================================
