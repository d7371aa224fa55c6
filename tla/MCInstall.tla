----------------------------- MODULE MCInstall -----------------------------
(***************************************************************************)
(* Three parts an installation from the menu rests on: the volumes         *)
(* (Volumes), the installer with its update binary (PackageInstall) and    *)
(* the programs that write to flash (MtdFlash).  A behaviour exercises the *)
(* part that "part" names and leaves the others in an initial state.       *)
(* MCPackage adds the parts that are below them.                           *)
(***************************************************************************)
EXTENDS Integers, Sequences, FiniteSets

CONSTANTS
    Parts,                    \* the parts of the system, with those of MCPackage
    BufLines, Others, MaxOps, \* see Volumes
    PipeMax, MaxLines,        \* see PackageInstall
    NBlocks, BlockUnits, FlashImages, Marks, Eccs, FlashFaults, MaxCrashes \* see MtdFlash

\* The buffer of mounts.c holds lines; a pipe holds some, too.
ASSUME InstallSizes == BufLines \in Nat /\ PipeMax \in Nat /\ MaxLines \in Nat

\* A partition has blocks and a block has room.  An image has a header, which
\* is neither what an erased, a zeroed or a spoilt unit holds nor what was on
\* the partition before; 0, 255, 254 and 200 stand for these four.
ASSUME FlashSizes ==
    /\ NBlocks \in Nat \ {0} /\ BlockUnits \in Nat \ {0}
    /\ FlashImages \subseteq Seq(Int) \ {<<>>}
    /\ \A f \in FlashImages : f[1] \notin {0, 255, 254, 200}
    /\ Marks \cup Eccs \subseteq SUBSET (0 .. NBlocks - 1)
    /\ FlashFaults \in Nat /\ MaxCrashes \in Nat

VARIABLES
    part,
    mounts, copy, broken, busy, package, ret, ops,
    pkg, dirs, tree, ignored, ppc, cpc, pipe, writers, written, obeyed, fw, stored, result,
    flash, marked, eccBad, tool, img, fpc, phase, fp, fwr, frd, fout, fexit, hist, faults, crashes

Vol == INSTANCE Volumes
Pkg == INSTANCE PackageInstall
Fla == INSTANCE MtdFlash WITH pc <- fpc, w <- fwr, r <- frd, out <- fout, exit <- fexit,
           Images <- FlashImages, MaxFaults <- FlashFaults

vol == <<mounts, copy, broken, busy, package, ret, ops>>
ins == <<pkg, dirs, tree, ignored, ppc, cpc, pipe, writers, written, obeyed, fw, stored, result>>
fla == <<flash, marked, eccBad, tool, img, fpc, phase, fp, fwr, frd, fout, fexit, hist, faults,
         crashes>>
vars == <<part, vol, ins, fla>>

\* A part that does not take part starts in one of its initial states.
Init ==
    /\ part \in Parts
    /\ IF part # "volumes" THEN broken = {} /\ busy = {"/"} ELSE TRUE
    /\ Vol!Init
    /\ IF part # "install"
       THEN /\ dirs = <<"dir", "dir">> /\ tree = {}
            /\ pkg = CHOOSE p \in Pkg!Kinds : ~p.or
       ELSE TRUE
    /\ Pkg!Init
    /\ IF part # "flash" THEN marked = {} /\ eccBad = {} /\ tool = "erase" ELSE TRUE
    /\ Fla!Init /\ (part # "flash" => Len(img) = 1)

VolumeStep == part = "volumes" /\ Vol!Next /\ UNCHANGED <<part, ins, fla>>
InstallStep == part = "install" /\ Pkg!Next /\ UNCHANGED <<part, vol, fla>>
FlashStep == part = "flash" /\ Fla!Next /\ UNCHANGED <<part, vol, ins>>
Next == VolumeStep \/ InstallStep \/ FlashStep

\* The recovery goes on with an installation whenever it is not blocked;
\* nothing is assumed of the update binary and of the programs it starts.
RecoveryGoesOn == part = "install" /\ Pkg!Recovery /\ UNCHANGED <<part, vol, fla>>

Spec == Init /\ [][Next]_vars /\ WF_vars(RecoveryGoesOn)

-----------------------------------------------------------------------------
\* See Volumes: a call that mounts a root tells whether it is mounted, no
\* mount is stacked on another, and only what is not mounted is formatted.
VolumesSafe == [][Vol!NeverStacks /\ Vol!FormatOnlyUnmounted /\ Vol!MountTold']_vars

\* See PackageInstall: the commands of the binary are obeyed in order, all of
\* them before a firmware image is stored; what is extracted is complete when
\* the script runs and gone afterwards, but for the failures nobody looks at.
InstallSafe == Pkg!FirmwareFirst /\ Pkg!TreeSwept

\* See MtdFlash: a header is never on flash without its image, a success means
\* that the image is there, bad blocks are passed over, dumps are faithful.
FlashRight ==
    /\ Fla!HeaderMeansBody /\ Fla!FlashedOnSuccess /\ Fla!RawWrittenOnSuccess
    /\ Fla!WriteStartRight /\ Fla!DumpFaithful

\* See PackageInstall: an installation ends once its programs have ended.
InstallReturns == (part = "install") => Pkg!InstallReturns
=============================================================================
