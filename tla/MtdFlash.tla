------------------------------ MODULE MtdFlash ------------------------------
(***************************************************************************)
(* Raw access to a NAND partition through mtdutils.c, and the four         *)
(* programs that use it: flash_image, dump_image, erase_image and the      *)
(* updater's write_raw_image().  A partition is a row of erase blocks, a   *)
(* block a row of units; a unit stands for the 2048 bytes that flash_image *)
(* compares and that dump_image copies at a time.  One step is one ioctl,  *)
(* read or write of the device, so that power can fail between any two.    *)
(***************************************************************************)
EXTENDS Integers, Sequences, FiniteSets, SequencesExt

CONSTANTS
    NBlocks,     \* erase blocks of the partition
    BlockUnits,  \* units in an erase block
    Images,      \* the image files, sequences of units; the first is a header
    Marks,       \* the sets of blocks that may carry a factory bad-block mark
    Eccs,        \* the sets of blocks that may have lost bits
    MaxFaults,   \* bound: erase, program and file errors in a behaviour
    MaxCrashes   \* bound: power losses in a behaviour

VARIABLES
    flash,    \* the contents of every block
    marked,   \* blocks that carry a factory bad-block mark
    eccBad,   \* blocks whose reading raises the ECC failure count
    tool,     \* the program running: "flash", "dump", "erase" or "raw"
    img,      \* its image file
    pc,       \* control
    phase,    \* flash_image: "zero", "body", "close", "head", "rest", "seal"
    fp,       \* units of the image file read so far
    w,        \* MtdWriteContext, with the locals of the call in progress
    r,        \* MtdReadContext: next block, units of the buffer not consumed
    out,      \* what dump_image has written
    exit,     \* "none", or the result the program reports
    hist,     \* what went wrong and was only logged
    faults,   \* errors so far
    crashes   \* power losses so far

Blocks == 0 .. NBlocks - 1
Zero   == 0      \* what mtd_erase_blocks pads with
Blank  == 255    \* an erased unit
ErasedBlock == [i \in 1 .. BlockUnits |-> Blank]
ZeroBlock   == [i \in 1 .. BlockUnits |-> Zero]
Junk        == [i \in 1 .. BlockUnits |-> 254]
OldBlock    == [i \in 1 .. BlockUnits |-> 200]
Header == Head(img)

NoWrite == [fd |-> 0, pos |-> 0, stored |-> <<>>, todo |-> <<>>, bad |-> <<>>,
            data |-> <<>>, try |-> 0, n |-> 0, ret |-> "none", failed |-> FALSE]

\* The blocks that can be written, and the units on those before block b: the
\* place of a unit on the good blocks is Upto(b) + its place in block b.
Good == Blocks \ marked
UnitsOn(S) == Cardinality(S) * BlockUnits
Upto(b) == UnitsOn({c \in Good : c < b})

(***************************************************************************)
(* Reading.  read_block takes the ECC count once: after a hard error every *)
(* later block of the same call looks bad as well.                         *)
(***************************************************************************)
Readable(b) == b \notin marked \cup eccBad /\ flash[b] # ZeroBlock

read_block_Slip(pos) ==
    LET ok == {b \in Blocks : b >= pos /\ b \notin marked}
    IN  IF ok = {} THEN NBlocks ELSE CHOOSE b \in ok : \A c \in ok : b <= c

read_block(pos) ==
    LET ok == {b \in Blocks : b >= pos /\ Readable(b)
                              /\ \A c \in eccBad : ~(pos <= c /\ c < b)}
    IN  IF ok = {} THEN NBlocks ELSE CHOOSE b \in ok : \A c \in ok : b <= c

(***************************************************************************)
(* mtd_find_write_start: the bad blocks met while writing are passed over, *)
(* in the order in which they were recorded.                               *)
(***************************************************************************)
mtd_find_write_start(bad, pos) ==
    LET at[i \in 0 .. Len(bad)] ==
            IF i = 0 THEN [p |-> pos, returned |-> FALSE]
            ELSE IF at[i - 1].returned \/ bad[i] < at[i - 1].p THEN at[i - 1]
            ELSE IF bad[i] = at[i - 1].p THEN [p |-> bad[i] + 1, returned |-> FALSE]
            ELSE [p |-> at[i - 1].p, returned |-> TRUE]
    IN  at[Len(bad)].p

-----------------------------------------------------------------------------
Init ==
    /\ marked \in Marks
    /\ img \in Images
    /\ tool \in {"flash", "dump", "erase", "raw"}
    /\ eccBad \in Eccs
    /\ \/ flash = [b \in Blocks |-> OldBlock]
       \/ /\ tool = "dump"
          /\ flash = [b \in Blocks |-> IF b = NBlocks - 1 THEN ZeroBlock
                                       ELSE [i \in 1 .. BlockUnits |-> 100 + b]]
    /\ pc = "scan" /\ phase = "none" /\ fp = 0 /\ w = NoWrite
    /\ r = [pos |-> 0, buf |-> <<>>] /\ out = <<>> /\ exit = "none"
    /\ hist = {} /\ faults = 0 /\ crashes = 0

Exit(code) == pc' = "end" /\ exit' = code

\* An error the device or the file system reports; bounded by MaxFaults.
Fault == faults < MaxFaults /\ faults' = faults + 1

(***************************************************************************)
(* The start of every program: find the partition, open the context.       *)
(***************************************************************************)
mtd_write_partition(units, ret) ==
    w' = [NoWrite EXCEPT !.todo = units, !.ret = ret]

Scan ==
    /\ pc = "scan"
    /\ \/ /\ Fault \* no such partition, or it cannot be opened
          /\ Exit("error")
          /\ UNCHANGED <<phase, w, fp, r>>
       \/ /\ tool = "flash" /\ pc' = "check" /\ fp' = 1
          /\ UNCHANGED <<phase, w, exit, faults, r>>
       \/ /\ tool = "raw" /\ mtd_write_partition(<<>>, "main")
          /\ pc' = "main" /\ phase' = "body" /\ UNCHANGED <<exit, fp, faults, r>>
       \/ /\ tool = "erase" /\ mtd_write_partition(<<>>, "main")
          /\ pc' = "open_erase" /\ phase' = "tail"
          /\ UNCHANGED <<exit, fp, faults, r>>
       \/ /\ tool = "dump" /\ pc' = "dump" /\ r' = [pos |-> 0, buf |-> <<>>]
          /\ UNCHANGED <<phase, w, exit, fp, faults>>
    /\ UNCHANGED <<flash, marked, eccBad, tool, img, out, hist, crashes>>

FlashCheck_Slip ==
    /\ pc = "check"
    /\ mtd_write_partition(<<Header>>, "main") /\ pc' = "write"
    /\ phase' = "zero" /\ UNCHANGED exit
    /\ UNCHANGED <<flash, marked, eccBad, tool, img, fp, r, out, hist, faults, crashes>>

(***************************************************************************)
(* flash_image.  An equal header means the image is there; otherwise the   *)
(* header is zeroed, everything else is written, and the first block is    *)
(* written once more with the header.                                      *)
(***************************************************************************)
FlashCheck ==
    /\ pc = "check"
    /\ LET b == read_block(0) IN
       IF b < NBlocks /\ flash[b][1] = Header
       THEN Exit("0") /\ UNCHANGED <<phase, w>>
       ELSE /\ mtd_write_partition(<<Zero>>, "main") /\ pc' = "write"
            /\ phase' = "zero" /\ UNCHANGED exit
    /\ UNCHANGED <<flash, marked, eccBad, tool, img, fp, r, out, hist, faults, crashes>>

\* The next read of the image file is handed to mtd_write_data.
CopyUnit ==
    /\ fp < Len(img) /\ fp' = fp + 1
    /\ w' = [w EXCEPT !.todo = <<img[fp + 1]>>] /\ pc' = "write"
    /\ UNCHANGED <<phase, exit>>

FlashMain ==
    /\ pc = "main" /\ tool = "flash"
    /\ \/ phase \in {"zero", "body"} /\ fp < Len(img) /\ CopyUnit
       \/ /\ phase \in {"zero", "body"} /\ fp = Len(img)   \* mtd_write_close
          /\ pc' = "erase" /\ phase' = "close" /\ w' = [w EXCEPT !.n = 0]
          /\ UNCHANGED <<fp, exit>>
       \/ /\ phase = "close"                               \* reopen, rewind
          /\ mtd_write_partition(<<Header>>, "main")
          /\ pc' = "write" /\ phase' = "rest" /\ fp' = 1 /\ UNCHANGED exit
       \/ phase = "rest" /\ fp < BlockUnits /\ fp < Len(img) /\ CopyUnit
       \/ /\ phase = "rest" /\ fp < BlockUnits /\ fp = Len(img)
          /\ Exit("error") /\ UNCHANGED <<phase, fp, w>>
       \/ /\ phase = "rest" /\ fp >= BlockUnits
          /\ pc' = "erase" /\ phase' = "seal" /\ w' = [w EXCEPT !.n = 0]
          /\ UNCHANGED <<fp, exit>>
       \/ phase = "seal" /\ Exit("0") /\ UNCHANGED <<phase, fp, w>>
    /\ UNCHANGED <<flash, marked, eccBad, tool, img, r, out, hist, faults, crashes>>

(***************************************************************************)
(* write_raw_image: a read error ends the copying like the end of the      *)
(* file; the results of erasing the rest and of closing are only logged.   *)
(***************************************************************************)
RawMain ==
    /\ pc = "main" /\ tool = "raw"
    /\ \/ /\ phase = "body" /\ ~w.failed /\ fp < Len(img) /\ CopyUnit
          /\ UNCHANGED <<hist, faults>>
       \/ /\ phase = "body" /\ (w.failed \/ fp = Len(img))
          /\ pc' = "open_erase" /\ phase' = "tail"
          /\ UNCHANGED <<fp, w, exit, hist, faults>>
       \/ /\ phase = "body" /\ fp < Len(img) /\ Fault /\ ~w.failed
          /\ hist' = hist \cup {"file"} /\ pc' = "open_erase" /\ phase' = "tail"
          /\ UNCHANGED <<fp, w, exit>>
       \/ /\ phase = "tail" /\ pc' = "erase" /\ phase' = "close"
          /\ w' = [w EXCEPT !.n = 0] /\ UNCHANGED <<fp, exit, hist, faults>>
       \/ /\ phase = "close" /\ Exit(IF w.failed THEN "error" ELSE "0")
          /\ UNCHANGED <<phase, fp, w, hist, faults>>
    /\ UNCHANGED <<flash, marked, eccBad, tool, img, r, out, crashes>>

\* erase_image reports success whatever mtd_erase_blocks met.
EraseMain ==
    /\ pc = "main" /\ tool = "erase" /\ Exit("0")
    /\ UNCHANGED <<flash, marked, eccBad, tool, img, phase, fp, w, r, out, hist, faults, crashes>>

-----------------------------------------------------------------------------
(***************************************************************************)
(* mtd_write_data: partial writes are collected in ctx->buffer, complete   *)
(* blocks go to write_block, from the buffer or from the caller.           *)
(***************************************************************************)
WriteBlockOf(data, stored, todo) ==
    /\ pc' = "block"
    /\ w' = [w EXCEPT !.data = data, !.stored = stored, !.todo = todo,
                      !.pos = w.fd, !.try = 0, !.ret = "write"]

mtd_write_data ==
    /\ pc = "write"
    /\ \/ /\ w.todo # <<>> /\ (w.stored # <<>> \/ Len(w.todo) < BlockUnits)
          /\ LET room == BlockUnits - Len(w.stored)
                 n    == IF Len(w.todo) < room THEN Len(w.todo) ELSE room
                 buf  == w.stored \o SubSeq(w.todo, 1, n)
                 rest == SubSeq(w.todo, n + 1, Len(w.todo))
             IN  IF Len(buf) = BlockUnits THEN WriteBlockOf(buf, buf, rest)
                 ELSE w' = [w EXCEPT !.stored = buf, !.todo = rest] /\ pc' = pc
       \/ /\ w.stored = <<>> /\ Len(w.todo) >= BlockUnits
          /\ WriteBlockOf(SubSeq(w.todo, 1, BlockUnits), <<>>,
                          SubSeq(w.todo, BlockUnits + 1, Len(w.todo)))
       \/ w.todo = <<>> /\ pc' = "main" /\ w' = w
    /\ UNCHANGED <<flash, marked, eccBad, tool, img, phase, fp, r, out, exit, hist, faults, crashes>>

(***************************************************************************)
(* write_block: marked blocks are recorded and passed over.  A block gets  *)
(* two rounds of erase, program and compare; after the second it is        *)
(* recorded, erased once more and left, and the data goes to the next one. *)
(***************************************************************************)
BlockMarked ==
    /\ pc = "block" /\ w.pos < NBlocks /\ w.pos \in marked
    /\ w' = [w EXCEPT !.bad = Append(@, w.pos), !.pos = @ + 1]
    /\ UNCHANGED <<flash, marked, eccBad, tool, img, pc, phase, fp, r, out, exit, hist, faults, crashes>>

BlockErase ==
    /\ pc = "block" /\ w.pos < NBlocks /\ w.pos \notin marked /\ w.try < 2
    /\ \/ /\ flash' = [flash EXCEPT ![w.pos] = ErasedBlock]
          /\ pc' = "program" /\ UNCHANGED <<w, faults>>
       \/ Fault /\ w' = [w EXCEPT !.try = @ + 1] /\ UNCHANGED <<flash, pc>>
    /\ UNCHANGED <<marked, eccBad, tool, img, phase, fp, r, out, exit, hist, crashes>>

BlockProgram ==
    /\ pc = "program"
    /\ \/ /\ flash' = [flash EXCEPT ![w.pos] = w.data]      \* compared equal
          /\ w' = [w EXCEPT !.fd = w.pos + 1, !.stored = <<>>, !.try = 0]
          /\ eccBad' = eccBad \ {w.pos}
          /\ pc' = w.ret /\ UNCHANGED faults
       \/ /\ Fault
          /\ flash' = [flash EXCEPT ![w.pos] = Junk]
          /\ \E back \in {w.pos, w.pos + 1} :   \* re-read failed, or differs
                w' = [w EXCEPT !.try = @ + 1, !.fd = back]
          /\ pc' = "block" /\ UNCHANGED eccBad
    /\ UNCHANGED <<marked, tool, img, phase, fp, r, out, exit, hist, crashes>>

BlockGiveUp_Slip ==
    /\ pc = "block" /\ w.pos < NBlocks /\ w.try = 2
    /\ w' = [w EXCEPT !.pos = @ + 1, !.try = 0, !.bad = <<w.pos>> \o @]
    /\ flash' \in {flash, [flash EXCEPT ![w.pos] = ErasedBlock]}
    /\ hist' = hist \cup {"gave_up"}
    /\ UNCHANGED <<marked, eccBad, tool, img, pc, phase, fp, r, out, exit, faults, crashes>>

BlockGiveUp ==
    /\ pc = "block" /\ w.pos < NBlocks /\ w.try = 2
    /\ w' = [w EXCEPT !.bad = Append(@, w.pos), !.pos = @ + 1, !.try = 0]
    /\ flash' \in {flash, [flash EXCEPT ![w.pos] = ErasedBlock]}
    /\ hist' = hist \cup {"gave_up"}
    /\ UNCHANGED <<marked, eccBad, tool, img, pc, phase, fp, r, out, exit, faults, crashes>>

\* ENOSPC: flash_image dies; write_raw_image notes it while copying, and only
\* logs it when the pending block is written by mtd_erase_blocks.
BlockNoSpace ==
    /\ pc = "block" /\ w.pos = NBlocks
    /\ IF tool = "flash"
       THEN Exit("error") /\ UNCHANGED <<w, hist>>
       ELSE /\ pc' = "main" /\ UNCHANGED exit
            /\ IF w.ret = "write"
               THEN w' = [w EXCEPT !.failed = TRUE, !.todo = <<>>] /\ UNCHANGED hist
               ELSE hist' = hist \cup {"last"} /\ UNCHANGED w
    /\ UNCHANGED <<flash, marked, eccBad, tool, img, phase, fp, r, out, faults, crashes>>

(***************************************************************************)
(* mtd_erase_blocks: the pending units are padded with zeros and written,  *)
(* then w.n blocks are erased from the file position on.  OpenErase is the *)
(* call with -1, which counts the blocks after the padding block.          *)
(***************************************************************************)
Pad(next) ==
    /\ w.stored # <<>>
    /\ LET buf == w.stored \o [i \in 1 .. BlockUnits - Len(w.stored) |-> Zero] IN
       w' = [w EXCEPT !.data = buf, !.stored = buf, !.pos = w.fd, !.try = 0, !.ret = next]
    /\ pc' = "block"

OpenErase ==
    /\ pc = "open_erase"
    /\ \/ Pad("open_erase")
       \/ /\ w.stored = <<>> /\ pc' = "erase"
          /\ w' = [w EXCEPT !.n = NBlocks - w.fd, !.pos = w.fd]
    /\ UNCHANGED <<flash, marked, eccBad, tool, img, phase, fp, r, out, exit, hist, faults, crashes>>

mtd_erase_blocks_Slip ==
    /\ pc = "erase"
    /\ \/ Pad("erase") /\ UNCHANGED <<flash, hist, faults>>
       \/ w.stored = <<>> /\ w.n <= 1 /\ pc' = "main" /\ UNCHANGED <<flash, w, hist, faults>>
       \/ /\ w.stored = <<>> /\ w.n > 1
          /\ w' = [w EXCEPT !.n = @ - 1, !.pos = @ + 1] /\ UNCHANGED <<pc, hist, faults>>
          /\ flash' = [flash EXCEPT ![w.pos] = ErasedBlock]
    /\ UNCHANGED <<marked, eccBad, tool, img, phase, fp, r, out, exit, crashes>>

mtd_erase_blocks ==
    /\ pc = "erase"
    /\ \/ Pad("erase") /\ UNCHANGED <<flash, hist, faults>>
       \/ w.stored = <<>> /\ w.n = 0 /\ pc' = "main" /\ UNCHANGED <<flash, w, hist, faults>>
       \/ /\ w.stored = <<>> /\ w.n > 0
          /\ w' = [w EXCEPT !.n = @ - 1, !.pos = @ + 1] /\ UNCHANGED pc
          /\ \/ w.pos \in marked /\ UNCHANGED <<flash, hist, faults>>
             \/ /\ w.pos \notin marked
                /\ flash' = [flash EXCEPT ![w.pos] = ErasedBlock]
                /\ UNCHANGED <<hist, faults>>
             \/ /\ w.pos \notin marked /\ Fault
                /\ hist' = hist \cup {"erase"} /\ UNCHANGED flash
    /\ UNCHANGED <<marked, eccBad, tool, img, phase, fp, r, out, exit, crashes>>

(***************************************************************************)
(* dump_image: one unit at a time from the read context; -1 from           *)
(* mtd_read_data is the normal end, whatever caused it.                    *)
(***************************************************************************)
mtd_read_data ==
    /\ pc = "dump" /\ r.buf = <<>>
    /\ LET b == read_block(r.pos) IN
       IF b = NBlocks THEN Exit("0") /\ UNCHANGED r
       ELSE r' = [pos |-> b + 1, buf |-> flash[b]] /\ UNCHANGED <<pc, exit>>
    /\ UNCHANGED <<flash, marked, eccBad, tool, img, phase, fp, w, out, hist, faults, crashes>>

DumpUnit ==
    /\ pc = "dump" /\ r.buf # <<>>
    /\ \/ /\ out' = Append(out, Head(r.buf)) /\ r' = [r EXCEPT !.buf = Tail(@)]
          /\ UNCHANGED <<pc, exit, faults>>
       \/ /\ Fault /\ Exit("error")           \* the output is unlinked
          /\ out' = <<>> /\ UNCHANGED r
    /\ UNCHANGED <<flash, marked, eccBad, tool, img, phase, fp, w, hist, crashes>>

(***************************************************************************)
(* Power fails: a block being programmed keeps a prefix of its units.  The *)
(* same program is started again after the reboot.                         *)
(***************************************************************************)
Crash ==
    /\ pc \notin {"end", "down"} /\ crashes < MaxCrashes
    /\ crashes' = crashes + 1 /\ pc' = "down"
    /\ IF pc = "program"
       THEN \E k \in 0 .. BlockUnits :
               flash' = [flash EXCEPT ![w.pos] =
                  [i \in 1 .. BlockUnits |-> IF i <= k THEN w.data[i] ELSE Blank]]
       ELSE UNCHANGED flash
    /\ UNCHANGED <<marked, eccBad, tool, img, phase, fp, w, r, out, exit, hist, faults>>

Restart ==
    /\ pc = "down" /\ pc' = "scan" /\ fp' = 0 /\ w' = NoWrite
    /\ phase' = "none" /\ r' = [pos |-> 0, buf |-> <<>>] /\ out' = <<>>
    /\ UNCHANGED <<flash, marked, eccBad, tool, img, exit, hist, faults, crashes>>

Next ==
    \/ Scan \/ FlashCheck \/ FlashMain \/ RawMain \/ EraseMain
    \/ mtd_write_data \/ BlockMarked \/ BlockErase \/ BlockProgram
    \/ BlockGiveUp \/ BlockNoSpace \/ OpenErase \/ mtd_erase_blocks
    \/ mtd_read_data \/ DumpUnit \/ Restart \/ Crash

-----------------------------------------------------------------------------
\* The units of s from place n on are on the good blocks, in order.
Holds(s, n) ==
    /\ Len(s) <= UnitsOn(Good)
    /\ \A b \in Good, j \in 1 .. BlockUnits :
          Upto(b) + j \in n .. Len(s) => flash[b][j] = s[Upto(b) + j]

\* flash_image writes the header last so that an interrupted flash does not
\* look finished: while no good block was given up, a partition that starts
\* with the new header holds the whole image beyond its first block.
HeaderMeansBody ==
    (/\ tool = "flash" /\ "gave_up" \notin hist
     /\ \E b \in Good : Upto(b) = 0 /\ flash[b][1] = Header) => Holds(img, BlockUnits + 1)

\* Exit status 0 of flash_image that no power loss preceded: the image is on
\* the good blocks, all of it, or else a worn block was passed over.
FlashedOnSuccess ==
    (tool = "flash" /\ exit = "0" /\ crashes = 0 /\ "gave_up" \notin hist) => Holds(img, 1)

\* A success of write_raw_image leaves the image, the zeros that fill its last
\* block and erased blocks behind it; the exceptions are exactly the errors the
\* code only logs: a block passed over, a file that could not be read to its
\* end, a last block that did not fit, an old block that could not be erased.
RawWrittenOnSuccess ==
    (tool = "raw" /\ exit = "0" /\ hist = {}) =>
        /\ Holds(img, 1)
        /\ \A b \in Good, j \in 1 .. BlockUnits :
              Upto(b) + j > Len(img) =>
                  flash[b][j] = IF Upto(b) < Len(img) THEN Zero ELSE Blank

\* Whatever was passed over, mtd_find_write_start names the first block from
\* pos on that the context did not record as bad: the list is ascending until
\* a write has failed for lack of space.
WriteStartRight ==
    (pc # "end" /\ ~w.failed /\ "last" \notin hist) =>
        \A p \in Blocks :
            LET good == {q \in p .. NBlocks : q \notin ToSet(w.bad)}
                q    == mtd_find_write_start(w.bad, p)
            IN  q \in good /\ \A s \in good : q <= s

\* The blocks that a dump reads, and the units on those before block b.
Dumped == {b \in Good : flash[b] # ZeroBlock}
DumpUpto(b) == UnitsOn({c \in Dumped : c < b})

\* A dump that reports success holds the readable blocks in order; it is cut
\* short only by a block with a hard ECC error.
DumpFaithful ==
    (tool = "dump" /\ exit = "0") =>
        /\ Len(out) <= UnitsOn(Dumped)
        /\ eccBad = {} => Len(out) = UnitsOn(Dumped)
        /\ \A b \in Dumped, j \in 1 .. BlockUnits :
              DumpUpto(b) + j <= Len(out) => out[DumpUpto(b) + j] = flash[b][j]

-----------------------------------------------------------------------------
(***************************************************************************)
(* What these rest on.                                                     *)
(***************************************************************************)
DeviceOK ==
    /\ marked \in SUBSET Blocks /\ eccBad \in SUBSET Blocks
    /\ flash \in [Blocks -> [1 .. BlockUnits -> Int]]
    /\ img \in Seq(Int) /\ Len(img) > 0 /\ Header \notin {Zero, Blank, 254, 200}
ControlOK ==
    /\ tool \in {"flash", "dump", "erase", "raw"}
    /\ pc \in {"scan", "check", "main", "write", "block", "program", "open_erase", "erase", "dump",
               "end", "down"}
    /\ phase \in {"none", "zero", "body", "close", "rest", "seal", "tail"}
    /\ exit \in {"none", "0", "error"}
    /\ hist \in SUBSET {"gave_up", "file", "last", "erase"} /\ faults \in Nat /\ crashes \in Nat
MtdWriteContext ==
    [fd : 0 .. NBlocks, pos : 0 .. NBlocks, stored : Seq(Int), todo : Seq(Int),
     bad : Seq(Blocks), data : Seq(Int), try : Nat, n : 0 .. NBlocks,
     ret : {"none", "main", "write", "erase", "open_erase"}, failed : BOOLEAN]
MtdReadContext == [pos : 0 .. NBlocks, buf : Seq(Int)]
TypeOK ==
    /\ DeviceOK /\ ControlOK
    /\ fp \in 0 .. Len(img)
    /\ w \in MtdWriteContext /\ Len(w.stored) <= BlockUnits
    /\ r \in MtdReadContext /\ out \in Seq(Int)

InBlock == pc \in {"block", "program"}
Writing == InBlock \/ pc \in {"write", "main", "erase", "open_erase"}
Copying == (tool = "flash" /\ phase \in {"zero", "rest"}) \/ (tool = "raw" /\ phase = "body")
Aim == IF InBlock THEN w.pos ELSE w.fd    \* the block that is written next
Sound == hist = {} /\ ~w.failed

\* Where each program may be, and what it is doing there.
ProgramsOrdered ==
    /\ pc = "check" => tool = "flash" /\ fp = 1
    /\ pc = "scan" => fp = 0 /\ w = NoWrite
    /\ pc = "dump" => tool = "dump"
    /\ pc = "down" => crashes > 0
    /\ pc = "write" => Copying /\ ~w.failed /\ Len(w.stored) < BlockUnits
    /\ pc = "program" => w.pos \in Good
    /\ InBlock =>
          /\ Len(w.data) = BlockUnits
          /\ \/ w.ret = "write" /\ Copying /\ ~w.failed
             \/ w.ret = "erase" /\ w.n = 0 /\ tool \in {"flash", "raw"} /\ phase \in {"close", "seal"}
             \/ w.ret = "open_erase" /\ tool = "raw" /\ phase = "tail"
    /\ pc = "erase" =>
          \/ tool \in {"flash", "raw"} /\ phase \in {"close", "seal"} /\ w.n = 0
          \/ /\ tool \in {"raw", "erase"} /\ phase = "tail"
             /\ w.stored = <<>> /\ w.n = NBlocks - w.pos
    /\ pc = "open_erase" => tool \in {"raw", "erase"} /\ phase = "tail"
    /\ pc = "main" =>
          \/ Copying /\ (w.failed \/ Len(w.stored) < BlockUnits)
          \/ tool = "flash" /\ phase \in {"close", "seal"}
          \/ tool \in {"raw", "erase"} /\ phase = "tail"
          \/ tool = "raw" /\ phase = "close"
    /\ tool = "raw" => phase # "seal"
    /\ tool = "flash" => hist \subseteq {"gave_up"} /\ ~w.failed /\ w.n = 0
    /\ tool \in {"erase", "dump"} => w.bad = <<>> /\ w.stored = <<>> /\ ~InBlock /\ pc # "write"
    /\ tool = "dump" => ~Writing
    /\ exit # "none" => pc = "end"

\* Bad blocks are recorded in order, and none that is yet to come.
BadAscending ==
    (pc # "end" /\ ~w.failed /\ "last" \notin hist) =>
        /\ \A k, l \in 1 .. Len(w.bad) : k < l => w.bad[k] < w.bad[l]
        /\ pc # "down" => \A k \in 1 .. Len(w.bad) : w.bad[k] < Aim

\* What the program writes, unit by unit: the image, with zeros for its header
\* in the first pass of flash_image, and zeros behind it.
Stream(i) == IF tool = "flash" /\ phase \in {"zero", "close"} /\ i = 1 THEN Zero ELSE img[i]
Unit(i) == IF i <= fp THEN Stream(i) ELSE Zero

\* The blocks in front of block a hold it; so does the block in write_block,
\* and what is stored or handed over comes next.
Written(a) == \A b \in Good, j \in 1 .. BlockUnits : b < a => flash[b][j] = Unit(Upto(b) + j)

Loaded ==
    /\ \A j \in 1 .. BlockUnits : w.data[j] = Unit(Upto(w.pos) + j)
    /\ IF w.ret = "write"
       THEN /\ Upto(w.pos) + BlockUnits + Len(w.todo) = fp
            /\ \A j \in 1 .. Len(w.todo) : w.todo[j] = Stream(Upto(w.pos) + BlockUnits + j)
       ELSE w.todo = <<>> /\ Upto(w.pos) < fp /\ fp <= Upto(w.pos) + BlockUnits

Pending ==
    /\ \A j \in 1 .. Len(w.stored) : w.stored[j] = Stream(Upto(w.fd) + j)
    /\ \A j \in 1 .. Len(w.todo) : w.todo[j] = Stream(Upto(w.fd) + Len(w.stored) + j)
    /\ pc # "write" => w.todo = <<>>
    /\ \/ Upto(w.fd) + Len(w.stored) + Len(w.todo) = fp
       \/ /\ ~Copying /\ w.stored = <<>> /\ w.todo = <<>>
          /\ fp <= Upto(w.fd) /\ Upto(w.fd) < fp + BlockUnits

DataInPlace ==
    (Sound /\ tool \in {"flash", "raw"} /\ Writing) =>
        Written(Aim) /\ (IF InBlock THEN Loaded ELSE Pending)

\* Which part of the file has been read, and that the body of the image is in
\* place before flash_image writes the header.
PassesOrdered ==
    (Sound /\ tool \in {"flash", "raw"} /\ Writing) =>
        /\ ~Copying /\ phase # "seal" => fp = Len(img)
        /\ pc = "main" /\ ~Copying => w.stored = <<>>
        /\ tool = "flash" => fp > 0
        /\ tool = "flash" /\ phase \in {"rest", "seal"} => fp <= BlockUnits /\ Holds(img, BlockUnits + 1)
        /\ tool = "flash" /\ phase = "seal" => fp = BlockUnits /\ ~InBlock /\ Upto(w.fd) >= BlockUnits

\* What write_raw_image has written is followed by erased blocks.
Erased(lo, hi) == \A b \in Good : lo <= b /\ b < hi => flash[b] = ErasedBlock
TailErased ==
    (Sound /\ tool = "raw" /\ Writing) =>
        /\ InBlock => w.ret # "erase"
        /\ pc = "erase" => w.stored = <<>>
        /\ pc = "erase" /\ phase = "tail" =>
              w.fd <= w.pos /\ Erased(w.fd, w.pos)
        /\ phase = "close" \/ (pc = "main" /\ phase = "tail") => Erased(w.fd, NBlocks)

\* Before the first power loss the old contents are there until the first write.
OldAtFirst ==
    (tool = "flash" /\ crashes = 0 /\ pc \in {"scan", "check"}) =>
        \A b \in Blocks : flash[b] = OldBlock

\* dump_image has read the good blocks up to its place and nothing else.
DumpInPlace ==
    /\ pc = "scan" => out = <<>>
    /\ tool = "dump" /\ pc = "dump" =>
        /\ Len(out) + Len(r.buf) = DumpUpto(r.pos)
        /\ \A b \in Dumped, j \in 1 .. BlockUnits :
              b < r.pos => (out \o r.buf)[DumpUpto(b) + j] = flash[b][j]
=============================================================================
