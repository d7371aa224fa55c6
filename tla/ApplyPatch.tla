----------------------------- MODULE ApplyPatch -----------------------------
(***************************************************************************)
(* Incremental updates: applypatch/applypatch.c and freecache.c as an      *)
(* updater script calls them (updater/install.c).  The script checks every *)
(* file (apply_patch_check), makes room on /cache (apply_patch_space) and  *)
(* then patches file after file (apply_patch), giving up at the first      *)
(* failure.  One copy, CACHE_TEMP_SOURCE, is all that makes the patching   *)
(* of a file restartable.                                                  *)
(*                                                                         *)
(* A file is abstracted to its contents, a hash to the contents it is the  *)
(* hash of.  A patch turns the contents at its position of the list into   *)
(* the job's new contents.  Power may be lost at every step; recovery then *)
(* starts the same script again (RecoveryBoot).                            *)
(***************************************************************************)
EXTENDS Naturals, Sequences, FiniteSets

CONSTANTS
    Files,       \* paths and partitions the script patches
    Mtd,         \* those of them that are MTD partitions
    Contents,    \* whole file contents
    Absent,      \* no such file; also the NULL of a load that failed
    Torn,        \* partly written, or anything without a known hash
    Jobs,        \* the script's apply_patch calls
    Found,       \* Found[f]: what f may hold before the first start
    LeftOver,    \* what CACHE_TEMP_SOURCE may hold then, from earlier updates
    CacheFiles,  \* other regular files of /cache and /cache/recovery/otatest
    Open,        \* those of them a process holds open
    Faults,      \* which calls may fail: subset of FaultKinds
    MaxCrashes, MaxFaults, MaxRetries   \* bounds

FaultKinds == {"space", "save", "patch", "install"}
SavedFile  == "saved.file"

ASSUME FilesAssumption == /\ Mtd \subseteq Files
                          /\ Absent \notin Contents
                          /\ Torn \notin Contents
                          /\ Absent # Torn
                          /\ SavedFile \notin CacheFiles
                          /\ Open \subseteq CacheFiles
                          /\ Found \in [Files -> SUBSET (Contents \cup {Absent, Torn})]
                          /\ LeftOver \subseteq Contents \cup {Absent, Torn}
\* The arguments of apply_patch: hashes stand for contents.
JobRecords == [source : Files, target : Files, patches : Seq(Contents), new : Contents]
ASSUME JobsAssumption == Jobs \in Seq(JobRecords)

\* A file's contents from which its patch can be applied.
Sources(j) == {Jobs[j].patches[i] : i \in 1..Len(Jobs[j].patches)}

\* The script is the work of a release tool: it patches something, no file
\* twice, and no new contents are old contents elsewhere.
ASSUME ScriptAssumption ==
    /\ Len(Jobs) > 0
    /\ \A j, k \in 1..Len(Jobs) :
          /\ Jobs[j].new \notin Sources(k)
          /\ j # k => {Jobs[j].source, Jobs[j].target}
                         \cap {Jobs[k].source, Jobs[k].target} = {}

\* Before the first start a copy left in /cache is of no file but the first,
\* and no source file holds what another file is to become.
ASSUME LeftOverAssumption ==
    \A j \in 1..Len(Jobs) :
        /\ Jobs[j].new \notin LeftOver
        /\ j > 1 => Sources(j) \cap LeftOver = {}
        /\ Jobs[j].source # Jobs[j].target => Jobs[j].new \notin Found[Jobs[j].source]
ASSUME BoundsAssumption == /\ MaxCrashes \in Nat
                           /\ MaxFaults \in Nat
                           /\ MaxRetries \in Nat
                           /\ Faults \subseteq FaultKinds

VARIABLES
    \* --- flash
    fs,        \* fs[f]: what a file or a partition holds
    out,       \* out[f]: what "<f>.patch" holds
    saved,     \* what CACHE_TEMP_SOURCE holds
    junk,      \* the CacheFiles that exist
    \* --- the updater
    pc,        \* its location
    job,       \* the position in the script
    loaded,    \* source_file
    use,       \* source_to_use: "source" or "copy"
    made_copy,
    why,       \* what the last start failed of
    \* --- bounds
    crashes, faults, retries

flash     == <<fs, out, saved, junk>>
locals    == <<loaded, use, made_copy>>
boundVars == <<crashes, faults, retries>>
vars == <<flash, pc, job, locals, why, boundVars>>

Held      == Contents \cup {Absent, Torn}
NumJobs   == Len(Jobs)
Locations == {"off", "check", "space", "load", "room", "save", "copying", "unlink",
              "output", "patching", "install", "flashing", "clean", "failed", "done"}

TypeOK ==
    /\ fs \in [Files -> Held]
    /\ out \in [Files -> {Absent, Torn} \cup Contents]
    /\ saved \in Held
    /\ junk \in SUBSET CacheFiles
    /\ pc \in Locations
    /\ job \in 1..NumJobs
    /\ loaded \in Held
    /\ use \in {"source", "copy"}
    /\ made_copy \in BOOLEAN
    /\ why \in {"none", "check", "source", "copy", "fault"}
    /\ crashes \in 0..MaxCrashes
    /\ faults \in 0..MaxFaults
    /\ retries \in 0..MaxRetries

Source  == Jobs[job].source
Target  == Jobs[job].target
Patches == Jobs[job].patches

Init ==
    /\ fs \in {f \in [Files -> Held] : \A x \in Files : f[x] \in Found[x]}
    /\ out = [f \in Files |-> Absent]
    /\ saved \in LeftOver
    /\ junk = CacheFiles
    /\ pc = "off"
    /\ job = 1
    /\ loaded = Absent /\ use = "source" /\ made_copy = FALSE
    /\ why = "none"
    /\ crashes = 0 /\ faults = 0 /\ retries = 0

-----------------------------------------------------------------------------
(* Loading and matching                                                    *)

\* The contents a "MTD:..." file name lists the hashes of.
Listed(j) == Sources(j) \cup {Jobs[j].new}

\* LoadFileContents, LoadMTDContents: a partition can be read only up to a
\* size whose hash is known, a file is read whatever it holds.
LoadFileContents(f, j) == IF f \in Mtd /\ fs[f] \notin Listed(j) THEN Absent ELSE fs[f]

\* FindMatchingPatch: the first position in the list, 0 for the -1 of the code.
FindMatchingPatch(c, list) ==
    IF \E i \in 1..Len(list) : list[i] = c
    THEN CHOOSE i \in 1..Len(list) : list[i] = c /\ \A k \in 1..(i - 1) : list[k] # c
    ELSE 0

\* Variant: any copy will do.
ApplypatchCheck_AnyCopy(j) ==
    \/ LoadFileContents(Jobs[j].source, j) \in Listed(j)
    \/ saved # Absent

\* applypatch_check: the file or the saved copy has one of the hashes.  Scripts
\* give the hashes of the sources and of the new file, so the list is not empty.
ApplypatchCheck(j) ==
    \/ LoadFileContents(Jobs[j].source, j) \in Listed(j)
    \/ saved \in Listed(j)

-----------------------------------------------------------------------------
(* The end of a call and of a start                                        *)

\* A failed apply_patch ends the script; nothing is cleaned up.
GiveUp(reason) ==
    /\ pc' = "failed"
    /\ why' = reason
    /\ UNCHANGED <<job, locals, crashes, retries>>
    /\ faults' = faults + (IF reason = "fault" THEN 1 ELSE 0)

Fault(kind) ==
    /\ kind \in Faults
    /\ faults < MaxFaults
    /\ GiveUp("fault")

Goto(location) ==
    /\ pc' = location
    /\ UNCHANGED <<job, why, boundVars>>

\* Variant: one job too many.
NextJob_PastEnd ==
    IF job <= NumJobs
    THEN job' = job + 1 /\ pc' = "load"
    ELSE job' = job /\ pc' = "done"

\* The script's next apply_patch.
NextJob ==
    IF job < NumJobs
    THEN job' = job + 1 /\ pc' = "load"
    ELSE job' = job /\ pc' = "done"

\* recovery runs the updater: after a power loss because the bootloader
\* message still asks for it.
Start ==
    /\ pc = "off"
    /\ pc' = "check" /\ job' = 1
    /\ loaded' = Absent /\ use' = "source" /\ made_copy' = FALSE
    /\ why' = "none"
    /\ UNCHANGED <<flash, boundVars>>

\* The user runs the same package again.
Retry ==
    /\ pc \in {"failed", "done"}
    /\ retries < MaxRetries
    /\ retries' = retries + 1
    /\ pc' = "off"
    /\ UNCHANGED <<flash, job, locals, why, crashes, faults>>

Crash ==
    /\ pc \notin {"off", "failed", "done"}
    /\ crashes < MaxCrashes
    /\ crashes' = crashes + 1
    /\ pc' = "off"
    /\ UNCHANGED <<flash, job, locals, why, faults, retries>>

-----------------------------------------------------------------------------
(* assert(apply_patch_check(...)) for every file, then apply_patch_space   *)

\* Variant: the last file is not checked.
Check_SkipsLast ==
    /\ pc = "check"
    /\ UNCHANGED flash
    /\ IF ApplypatchCheck(job)
       THEN /\ IF job + 1 < NumJobs THEN job' = job + 1 /\ pc' = pc
                                    ELSE job' = 1 /\ pc' = "space"
            /\ UNCHANGED <<locals, why, boundVars>>
       ELSE GiveUp("check")

Check ==
    /\ pc = "check"
    /\ UNCHANGED flash
    /\ IF ApplypatchCheck(job)
       THEN /\ IF job < NumJobs THEN job' = job + 1 /\ pc' = pc
                                ELSE job' = 1 /\ pc' = "space"
            /\ UNCHANGED <<locals, why, boundVars>>
       ELSE GiveUp("check")

\* The regular files of the directories that are searched.
CachePresent == junk \cup (IF saved # Absent THEN {SavedFile} ELSE {})

\* Variant: the copy is a file like any other.
Expendable_WithCopy == CachePresent \ Open

\* FindExpendableFiles and EliminateOpenFiles: regular files nobody has open,
\* the saved copy excepted.
Expendable == (CachePresent \ {SavedFile}) \ Open

\* The unlinks of MakeFreeSpaceOnCache: files go in directory order until
\* statfs reports enough, so any part of them, and all when it never does;
\* none when the search for them fails.
Unlinked(names) ==
    /\ junk' = junk \ names
    /\ saved' = IF SavedFile \in names THEN Absent ELSE saved
    /\ UNCHANGED <<fs, out>>

MakeFreeSpaceOnCache(then) ==
    \/ /\ \E names \in SUBSET Expendable : Unlinked(names)
       /\ Goto(then)
       /\ UNCHANGED locals
    \/ /\ \E names \in {{}, Expendable} : Unlinked(names)
       /\ Fault("space")

CacheSizeCheck == pc = "space" /\ MakeFreeSpaceOnCache("load")

-----------------------------------------------------------------------------
(* applypatch                                                              *)

\* The target is loaded first; the source only when that failed or when it
\* is another file.
LoadSource == LoadFileContents(Source, job)

\* Variant: the copy is never used.
CopyUsable_Never == FALSE

\* The copy is used from the second patch of the list on: the code asks for
\* to_use > 0.
CopyUsable == FindMatchingPatch(saved, Patches) > 1

\* With a regular target the space test never succeeds: the result goes to
\* an inner enough_space.  Space cannot be made by deleting a partition.
NoRoom == use' = "source" /\ Target \notin Mtd /\ Source \in Mtd

Load ==
    /\ pc = "load"
    /\ UNCHANGED flash
    /\ IF LoadFileContents(Target, job) = Jobs[job].new
       THEN NextJob /\ UNCHANGED <<locals, why, boundVars>>
       ELSE /\ loaded' = LoadSource
            /\ made_copy' = FALSE
            /\ use' = IF FindMatchingPatch(LoadSource, Patches) > 0 THEN "source" ELSE "copy"
            /\ IF (use' = "copy" /\ ~CopyUsable) \/ NoRoom
               THEN pc' = "failed" /\ why' = "source" /\ UNCHANGED <<job, boundVars>>
               ELSE Goto("room")

\* A partition's source is saved in any case, a file's only when it is used.
MakeRoom ==
    /\ pc = "room"
    /\ IF Target \in Mtd \/ use = "source"
       THEN MakeFreeSpaceOnCache("save")
       ELSE Goto("output") /\ UNCHANGED <<flash, locals>>

\* SaveFileContents(CACHE_TEMP_SOURCE, source_file): open with O_TRUNC.
SaveBegins ==
    /\ pc = "save"
    /\ UNCHANGED <<fs, out, junk>>
    /\ \/ saved' = Torn /\ Goto("copying") /\ UNCHANGED locals
       \/ saved' = saved /\ Fault("save")

\* Write, fsync, chmod, chown.  When the copy is in use, source_file has been
\* freed: a NULL pointer makes write() fail, a dangling one may be written.
SaveEnds ==
    /\ pc = "copying"
    /\ UNCHANGED <<fs, out, junk>>
    /\ \/ /\ use = "source" \/ loaded # Absent
          /\ saved' = IF use = "source" THEN loaded ELSE Torn
          /\ made_copy' = TRUE
          /\ Goto(IF Target \in Mtd THEN "output" ELSE "unlink")
          /\ UNCHANGED <<loaded, use>>
       \/ /\ use = "copy"
          /\ saved' = saved
          /\ GiveUp("copy")
       \/ /\ saved' \in {saved, IF use = "source" THEN loaded ELSE Torn}
          /\ Fault("save")

\* unlink(source_filename)
UnlinkSource ==
    /\ pc = "unlink"
    /\ fs' = [fs EXCEPT ![Source] = Absent]
    /\ Goto("output")
    /\ UNCHANGED <<out, saved, junk, locals>>

\* The output goes to memory for a partition, else to "<target>.patch".
OpenOutput ==
    /\ pc = "output"
    /\ UNCHANGED <<fs, saved, junk>>
    /\ \/ /\ out' = IF Target \in Mtd THEN out ELSE [out EXCEPT ![Target] = Torn]
          /\ Goto("patching")
          /\ UNCHANGED locals
       \/ out' = out /\ Fault("patch")

\* ApplyBSDiffPatch or ApplyImagePatch, and the comparison of the hash of
\* what it wrote; retry is 0 here in any case.
Patch ==
    /\ pc = "patching"
    /\ UNCHANGED <<fs, saved, junk>>
    /\ \/ /\ out' = IF Target \in Mtd THEN out ELSE [out EXCEPT ![Target] = Jobs[job].new]
          /\ Goto("install")
          /\ UNCHANGED locals
       \/ out' = out /\ Fault("patch")

\* chmod, chown and rename of the output.
Rename ==
    /\ pc = "install"
    /\ Target \notin Mtd
    /\ UNCHANGED <<saved, junk>>
    /\ \/ /\ fs' = [fs EXCEPT ![Target] = out[Target]]
          /\ out' = [out EXCEPT ![Target] = Absent]
          /\ Goto("clean")
          /\ UNCHANGED locals
       \/ UNCHANGED <<fs, out>> /\ Fault("install")

\* WriteToMTDPartition, from the first erased block to the last written one.
FlashBegins ==
    /\ pc = "install"
    /\ Target \in Mtd
    /\ UNCHANGED <<out, saved, junk>>
    /\ \/ fs' = [fs EXCEPT ![Target] = Torn] /\ Goto("flashing") /\ UNCHANGED locals
       \/ fs' = fs /\ Fault("install")

\* The call may fail before the last block or with all of it written.
FlashEnds ==
    /\ pc = "flashing"
    /\ UNCHANGED <<out, saved, junk>>
    /\ \/ fs' = [fs EXCEPT ![Target] = Jobs[job].new] /\ Goto("clean") /\ UNCHANGED locals
       \/ /\ fs' \in {fs, [fs EXCEPT ![Target] = Jobs[job].new]}
          /\ Fault("install")

\* "If this run of applypatch created the copy ... we can delete it."
Clean ==
    /\ pc = "clean"
    /\ saved' = IF made_copy THEN Absent ELSE saved
    /\ NextJob
    /\ UNCHANGED <<fs, out, junk, locals, why, boundVars>>

-----------------------------------------------------------------------------

Updater == \/ Check \/ CacheSizeCheck \/ Load \/ MakeRoom \/ SaveBegins \/ SaveEnds
           \/ UnlinkSource \/ OpenOutput \/ Patch \/ Rename \/ FlashBegins
           \/ FlashEnds \/ Clean

Next == Start \/ Updater \/ Retry \/ Crash

Spec == Init /\ [][Next]_vars

\* The processor runs the updater, and the bootloader message brings recovery
\* back to it after a power loss.
LiveSpec == Spec /\ WF_vars(Start) /\ WF_vars(Updater)

-----------------------------------------------------------------------------
(* The inductive invariant                                                 *)

IsNew(j)  == fs[Jobs[j].target] = Jobs[j].new
\* A file that is not new and whose source is gone: it depends on the copy.
Hollow(j) == ~IsNew(j) /\ fs[Jobs[j].source] \notin Sources(j)
Lost(j)   == Hollow(j) /\ saved \notin Sources(j)

Patching == {"room", "save", "copying", "unlink", "output", "patching", "install", "flashing"}

\* The copy is of one file at a time, and all files before that one are new.
CopyOrdered == \A k \in 1..NumJobs : Hollow(k) /\ saved \in Sources(k) =>
                   \A i \in 1..(k - 1) : IsNew(i)

\* The checks find out what is lost before anything is changed.
Checked ==
    /\ pc = "check" => \A i \in 1..(job - 1) : ~Lost(i)
    /\ pc \in Patching \cup {"space", "load", "clean"} => \A i \in 1..NumJobs : ~Lost(i)

\* The script runs in order.
InOrder ==
    /\ pc = "space" => job = 1
    /\ pc \in Patching \cup {"load", "clean"} => \A i \in 1..(job - 1) : IsNew(i)
    /\ pc = "done" => \A i \in 1..NumJobs : IsNew(i)

\* No copy and no source file is mistaken for a new file.
NoNewCopies ==
    \A j \in 1..NumJobs :
        /\ saved # Jobs[j].new
        /\ Jobs[j].source # Jobs[j].target => fs[Jobs[j].source] # Jobs[j].new

\* What applypatch has established at each of its locations.
Established ==
    /\ pc \in Patching => ~IsNew(job)
    /\ pc \in {"room", "save", "copying"} /\ use = "source" =>
           loaded = fs[Source] /\ loaded \in Sources(job)
    /\ pc \in {"save", "copying"} => use = "source"
    /\ pc = "room" /\ use = "copy" => Target \notin Mtd /\ saved \in Sources(job)
    /\ pc = "unlink" => Target \notin Mtd
    /\ pc \in {"unlink", "output", "patching", "install", "flashing"} => saved \in Sources(job)
    /\ pc = "install" /\ Target \notin Mtd => out[Target] = Jobs[job].new
    /\ pc = "clean" => IsNew(job)
    /\ pc = "clean" /\ made_copy => \A k \in 1..NumJobs : ~Hollow(k)

IInv == TypeOK /\ CopyOrdered /\ Checked /\ InOrder /\ NoNewCopies /\ Established

-----------------------------------------------------------------------------
(* What theorems ask of the script                                         *)

\* What the implementation needs of the script: with a second patch the retry
\* of a partition saves over its own copy (applypatch.c:638).
SinglePatchPartitions ==
    \A j \in 1..NumJobs : Jobs[j].target \in Mtd => Len(Jobs[j].patches) <= 1

\* What apply_patch_check does not look at: a file must not be built from a
\* partition, which cannot be deleted to make room, and a copy left behind by
\* another update must not be one of a partition.
CheckedEnough ==
    \A j \in 1..NumJobs :
        IF Jobs[j].target \in Mtd THEN Sources(j) \cap LeftOver = {}
                                 ELSE Jobs[j].source \notin Mtd

\* A partition depends on the copy only after its own write was interrupted.
PartitionCopies ==
    \A j \in 1..NumJobs :
        Jobs[j].target \in Mtd /\ Hollow(j) /\ saved \in Sources(j)
            => fs[Jobs[j].target] = Torn

-----------------------------------------------------------------------------
(* Properties                                                              *)

JobState(j) == IF IsNew(j) THEN "new" ELSE IF Lost(j) THEN "lost" ELSE "old"

Whole == INSTANCE AtomicUpdate WITH
            state <- [j \in 1..NumJobs |-> JobState(j)],
            reported <- (pc = "done")

\* Whatever fails and whenever power is lost, the files go from old to new
\* one by one and never get lost: the saved copy, the output beside the
\* target and the rename (applypatch.c:622-811) implement AtomicUpdate.
ImplementsUpdate == Whole!Spec

\* The original of a file that is not new yet exists somewhere: nothing the
\* program does makes the last usable copy disappear (applypatch.c:632
\* "We still write the original source to cache, in case the MTD write is
\* interrupted").
Recoverable == [][\A j \in 1..NumJobs : JobState(j) # "lost" => JobState(j)' # "lost"]_vars

\* The check before the patches is worth something: a package one of whose
\* files cannot be patched changes none (applypatch_check, "checking cache").
NothingTouched ==
    [][(\E j \in 1..NumJobs : JobState(j) = "lost") => UNCHANGED fs]_vars

\* What apply_patch cannot finish although the check accepts it: a partition
\* whose write was interrupted (applypatch.c:638), and a file that is gone and
\* whose copy is of the first contents of its list, because the index 0 of that
\* match counts as none (to_use > 0, applypatch.c:591).
Stuck(j) ==
    IF Jobs[j].target \in Mtd
    THEN fs[Jobs[j].target] = Torn
    ELSE Hollow(j) /\ FindMatchingPatch(saved, Jobs[j].patches) = 1

\* When apply_patch_check has accepted all files, apply_patch turns none down,
\* on the first start or on a later one, but for the two cases of Stuck: every
\* file that still has contents to be patched from, and every file whose copy
\* fits any later patch of its list, is patched (applypatch.c:420-436 against
\* 580-601).
CheckPredictsApply == pc = "failed" /\ why \in {"source", "copy"} => Stuck(job)

\* "idempotent (it's okay to run this program multiple times)"
\* (applypatch.c:501): after any interruption a start that finds the files
\* acceptable applies the patch.
Idempotent == ~(pc = "failed" /\ why \in {"source", "copy"})

\* An update that was possible at the start and meets no error ends with
\* success however often power is lost, unless it stays with a file that is
\* Stuck.
UpdateCompletes ==
    (\A j \in 1..NumJobs : JobState(j) # "lost") =>
        \/ <>(pc = "done" \/ faults > 0)
        \/ <>[](\E j \in 1..NumJobs : Stuck(j))
=============================================================================
